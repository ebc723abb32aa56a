-------------------------- MODULE ReceiptExecution --------------------------
(***************************************************************************)
(* One receipt of the contract, statement by statement: the loops of f,    *)
(* new, set_admins, set_products, set_price_reporters and                  *)
(* set_authorized_callers run one iteration per step, on the write-back    *)
(* caches of the SDK's collections, and end by flushing them to storage,   *)
(* by panicking in the middle of a batch, or by running out of gas.        *)
(*                                                                         *)
(* The variables of MultiFeed are the committed storage and the logs of    *)
(* the last receipt that succeeded; receipt is what the running one holds. *)
(* The property ImplementsMultiFeed is what makes the atomic, closed-form  *)
(* actions of MultiFeed an abstraction of this code.                       *)
(***************************************************************************)
EXTENDS MultiFeed

VARIABLE
  receipt  \* the running call: its method and arguments, the index of the next
           \* loop iteration, the cached entries and the logs written so far

receiptVars == <<vars, receipt>>

Idle == [method |-> "none"]

Running == receipt # Idle

\* The role a batch method updates, and the event that tells of it.
RoleOf(method) ==
  CASE method = "set_admins"             -> "admin"
    [] method = "set_products"           -> "products"
    [] method = "set_price_reporters"    -> "price_reporters"
    [] method = "set_authorized_callers" -> "authorized_callers"

OwnerMethods == {"set_admins", "set_products", "set_price_reporters"}
RoleMethods  == OwnerMethods \cup {"set_authorized_callers"}

EventOf(role) ==
  CASE role = "admin"              -> "admin_status_changed"
    [] role = "products"           -> "product_status_changed"
    [] role = "price_reporters"    -> "price_reporter_status_changed"
    [] role = "authorized_callers" -> "authorized_caller_status_changed"

Stored(role) ==
  CASE role = "admin"              -> admin
    [] role = "products"           -> products
    [] role = "price_reporters"    -> price_reporters
    [] role = "authorized_callers" -> authorized_callers

-----------------------------------------------------------------------------
(* The work of a receipt, one item per loop iteration.  A strict item is    *)
(* one whose insert or remove has to change the set.                       *)

RoleItem(role, strict, account, status) ==
  [role |-> role, strict |-> strict, account |-> account, status |-> status]

Inserts(role, list) == [k \in DOMAIN list |-> RoleItem(role, TRUE, list[k], TRUE)]

NewItems(args) ==
  Inserts("admin", args.admins) \o Inserts("products", args.products)
    \o Inserts("price_reporters", args.price_reporters)
    \o Inserts("authorized_callers", args.authorized_callers)

\* Faulty: set_authorized_callers refuses redundant updates like the others.
RoleItemsAllStrict(method, updates) ==
  [k \in DOMAIN updates |->
     RoleItem(RoleOf(method), TRUE, updates[k].account, updates[k].status)]

RoleItems(method, updates) ==
  [k \in DOMAIN updates |->
     RoleItem(RoleOf(method), method \in OwnerMethods, updates[k].account, updates[k].status)]

\* A receipt starts with empty caches and at its first item.
Started(method, args, items, logs) ==
  [method |-> method, args |-> args, items |-> items, next |-> 1,
   cache |-> <<>>, logs |-> logs]

-----------------------------------------------------------------------------
(* The requirements each method checks before its loop.                    *)

BeginNew(args, deposit) ==
  /\ ~Running
  /\ NotInitialized
  /\ NotPayable(deposit)
  /\ args.open_read_enabled => args.authorized_callers = <<>>
  /\ receipt' =
       Started("new", args, NewItems(args),
               <<OwnershipTransferred(NoAccount, args.owner),
                 FlagStatusChanged("open_read_status_changed", args.open_read_enabled)>>)
  /\ UNCHANGED vars

BeginF(caller, deposit, updates) ==
  /\ ~Running
  /\ initialized
  /\ NotPayable(deposit)
  /\ caller \in price_reporters
  /\ updates # <<>>
  /\ receipt' = Started("f", updates, updates, <<>>)
  /\ UNCHANGED vars

BeginRoleBatch(method, caller, deposit, updates) ==
  /\ ~Running
  /\ initialized
  /\ AssertOneYocto(deposit)
  /\ IF method \in OwnerMethods THEN caller = owner ELSE caller \in products
  /\ updates # <<>>
  /\ receipt' = Started(method, updates, RoleItems(method, updates), <<>>)
  /\ UNCHANGED vars

-----------------------------------------------------------------------------
(* The loops                                                               *)

InLoop == Running /\ receipt.next <= Len(receipt.items)
Item   == receipt.items[receipt.next]

CacheHolds(key) == key \in DOMAIN receipt.cache

\* The cache once insert or remove has changed the entry of key.
Cached(key, value) ==
  [k \in {key} \cup DOMAIN receipt.cache |-> IF k = key THEN value ELSE receipt.cache[k]]

\* Faulty: get looks in storage only and misses what this batch wrote.
StorageAggTs(id) == StoredAggTs(id)

\* self.feeds.get: the cached entry, not yet packed, else the stored one.
CurrentAggTs(id) == IF CacheHolds(id) THEN receipt.cache[id].agg_ts ELSE StoredAggTs(id)

\* Faulty: insert and remove compare with storage only.
StorageHas(role, account) == account \in Stored(role)

\* What insert and remove compare with: the cached state of the key, else the
\* stored one.
CurrentlyHas(role, account) ==
  IF CacheHolds(<<role, account>>) THEN receipt.cache[<<role, account>>]
  ELSE account \in Stored(role)

\* The receipt one iteration later.
Advanced(newCache, newLogs) ==
  [method |-> receipt.method, args |-> receipt.args, items |-> receipt.items,
   next |-> receipt.next + 1, cache |-> newCache, logs |-> newLogs]

\* Faulty: the drift ends a second early.
TimestampInBoundsEarly(update) ==
  /\ update.agg_ts > CurrentAggTs(update.feed_id)
  /\ update.agg_ts + 1 < now + MAX_FUTURE_DRIFT_THRESHOLD

\* Faulty: a report as old as the current one is accepted.
TimestampInBoundsSameAge(update) ==
  /\ update.agg_ts >= CurrentAggTs(update.feed_id)
  /\ update.agg_ts < now + MAX_FUTURE_DRIFT_THRESHOLD

TimestampInBounds(update) ==
  /\ update.agg_ts > CurrentAggTs(update.feed_id)
  /\ update.agg_ts < now + MAX_FUTURE_DRIFT_THRESHOLD

IterateF ==
  /\ InLoop
  /\ receipt.method = "f"
  /\ TimestampInBounds(Item)
  /\ LET feed == [price |-> Item.price, agg_ts |-> Item.agg_ts, onchain_ts |-> now]
     IN  receipt' = Advanced(Cached(Item.feed_id, feed), receipt.logs)
  /\ UNCHANGED vars

\* Faulty: what insert and remove return is not looked at.
ItemChangesAlways == TRUE

ItemChanges == CurrentlyHas(Item.role, Item.account) # Item.status

IterateRole ==
  /\ InLoop
  /\ receipt.method # "f"
  /\ ItemChanges
  /\ receipt' = Advanced(Cached(<<Item.role, Item.account>>, Item.status),
                         Append(receipt.logs,
                                RoleStatusChanged(EventOf(Item.role), Item.account, Item.status)))
  /\ UNCHANGED vars

\* set_authorized_callers goes on when insert or remove returns false.
SkipRedundant ==
  /\ InLoop
  /\ receipt.method # "f"
  /\ ~ItemChanges
  /\ ~Item.strict
  /\ receipt' = Advanced(receipt.cache, receipt.logs)
  /\ UNCHANGED vars

\* A report out of bounds or a redundant strict update.  Nothing was flushed,
\* and the runtime drops the logs with the receipt.
Panic ==
  /\ InLoop
  /\ IF receipt.method = "f" THEN ~TimestampInBounds(Item) ELSE ~ItemChanges /\ Item.strict
  /\ receipt' = Idle
  /\ UNCHANGED vars

\* The runtime may stop a receipt at any instruction, the flush included.
OutOfGas ==
  /\ Running
  /\ receipt' = Idle
  /\ UNCHANGED vars

-----------------------------------------------------------------------------
(* The end: the collections write their caches back, the codec packs.      *)

LoopDone == Running /\ receipt.next > Len(receipt.items)

FlushedFeeds ==
  [id \in DOMAIN feeds \cup DOMAIN receipt.cache |->
     IF CacheHolds(id)
       THEN Pack(receipt.cache[id].price, receipt.cache[id].agg_ts, receipt.cache[id].onchain_ts)
       ELSE feeds[id]]

FlushedRole(role) == {account \in Accounts : CurrentlyHas(role, account)}

FlushRoles ==
  /\ admin' = FlushedRole("admin")
  /\ products' = FlushedRole("products")
  /\ price_reporters' = FlushedRole("price_reporters")
  /\ authorized_callers' = FlushedRole("authorized_callers")

ReturnNew ==
  /\ LoopDone
  /\ receipt.method = "new"
  /\ initialized' = TRUE
  /\ flags' = NewFlags(FALSE, receipt.args.open_read_enabled)
  /\ owner' = receipt.args.owner
  /\ FlushRoles
  /\ emitted' = receipt.logs
  /\ receipt' = Idle
  /\ UNCHANGED <<feeds, now>>

\* The event of f is built after the loop.
ReturnF ==
  /\ LoopDone
  /\ receipt.method = "f"
  /\ feeds' = FlushedFeeds
  /\ emitted' = <<FEvent(receipt.args)>>
  /\ receipt' = Idle
  /\ UNCHANGED <<initialized, flags, owner, roles, now>>

ReturnRoleBatch ==
  /\ LoopDone
  /\ receipt.method \in RoleMethods
  /\ FlushRoles
  /\ emitted' = receipt.logs
  /\ receipt' = Idle
  /\ UNCHANGED <<initialized, feeds, flags, owner, now>>

-----------------------------------------------------------------------------
\* The methods without a loop check, assign and return: they stay atomic.
LoopFree(caller, deposit) ==
  /\ ~Running
  /\ \/ \E new_owner \in Accounts : TransferOwnership(caller, deposit, new_owner)
     \/ \E status \in BOOLEAN : SetPaused(caller, deposit, status)
     \/ \E status \in BOOLEAN : SetOpenReadStatus(caller, deposit, status)
  /\ UNCHANGED receipt

\* The block time stands still while a receipt runs.
NextBlock ==
  /\ ~Running
  /\ Tick
  /\ UNCHANGED receipt

Begin ==
  \E deposit \in Deposits :
    \/ \E args \in InitArgs : BeginNew(args, deposit)
    \/ \E caller \in Accounts, updates \in FeedBatches : BeginF(caller, deposit, updates)
    \/ \E method \in RoleMethods, caller \in Accounts, updates \in RoleBatches :
         BeginRoleBatch(method, caller, deposit, updates)

Step ==
  \/ IterateF
  \/ IterateRole
  \/ SkipRedundant
  \/ Panic
  \/ OutOfGas
  \/ ReturnNew
  \/ ReturnF
  \/ ReturnRoleBatch

ReceiptInit == Init /\ receipt = Idle

ReceiptNext ==
  \/ Begin
  \/ Step
  \/ \E caller \in Accounts, deposit \in Deposits : LoopFree(caller, deposit)
  \/ NextBlock

ReceiptSpec == ReceiptInit /\ [][ReceiptNext]_receiptVars

-----------------------------------------------------------------------------
(* Properties                                                              *)

\* Whether the closed forms of MultiFeed accept the batch of the receipt.
LegalBatch ==
  CASE receipt.method = "f"         -> \A k \in DOMAIN receipt.args : InBounds(receipt.args, k)
    [] receipt.method = "new"       -> \A list \in {receipt.args.admins, receipt.args.products,
                                                    receipt.args.price_reporters,
                                                    receipt.args.authorized_callers} :
                                         IsInjective(list)
    [] receipt.method \in OwnerMethods ->
         EveryUpdateChanges(Stored(RoleOf(receipt.method)), receipt.args)
    [] OTHER                        -> TRUE

\* The f loop after some iterations: the cache holds the reports a reader of
\* the batch so far expects, and every one of them was in bounds.
FLoopInvariant ==
  receipt.method = "f" =>
    LET done == receipt.next - 1
    IN  /\ \A k \in 1 .. done : InBounds(receipt.args, k)
        /\ DOMAIN receipt.cache = {receipt.args[k].feed_id : k \in 1 .. done}
        /\ \A id \in DOMAIN receipt.cache :
             LET latest == receipt.args[Max(FeedEntries(receipt.args, id, done))]
             IN  receipt.cache[id] = [price |-> latest.price, agg_ts |-> latest.agg_ts,
                                      onchain_ts |-> now]

\* The loop of a role batch: what the cache over the storage says of every
\* account is what the updates so far make of it, and there is one log for
\* each of them that changed the role.
RoleLoopInvariant ==
  receipt.method \in RoleMethods =>
    LET done == receipt.next - 1
        role == RoleOf(receipt.method)
    IN  /\ \A account \in Accounts :
             CurrentlyHas(role, account) = MemberAt(Stored(role), receipt.args, account, done)
        /\ Len(receipt.logs) =
             Cardinality(ChangesUpTo(Stored(role), receipt.args, done))
        /\ \A key \in DOMAIN receipt.cache : key[1] = role

\* The closed forms MultiFeed uses for a batch describe every intermediate
\* state of the loops too, caches of the SDK included.
LoopInvariant == FLoopInvariant /\ RoleLoopInvariant

\* A batch is refused halfway (lib.rs:142, 207, 454 and 457) only when one of
\* its entries is illegal, given those before it: a fault of the caches that
\* makes f or a role method refuse a legal batch would show here.
NoSpuriousPanic == [][Panic => ~LegalBatch]_receiptVars

\* Whole receipts, seen through the committed storage and the logs of the
\* receipts that succeeded, are steps of the atomic specification.
ImplementsMultiFeed == Spec
=============================================================================
