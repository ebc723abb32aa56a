----------------------------- MODULE MultiFeed -----------------------------
(***************************************************************************)
(* The multi-feed contract (src/lib.rs), one action per change method.     *)
(*                                                                         *)
(* NEAR runs the receipts of one account one after the other and discards  *)
(* every effect of a receipt that panics, so a method is one atomic action *)
(* here and a call that panics is no step at all.  The loops of the batch  *)
(* methods are written in closed form; module ReceiptExecution runs them   *)
(* iteration by iteration, with the panics, and is shown to implement this *)
(* module.                                                                 *)
(*                                                                         *)
(* Left out: the description string (written once, never read by a         *)
(* decision) and the constants DECIMALS and VERSION.                       *)
(***************************************************************************)
EXTENDS Flags, Sequences, FiniteSetsExt, SequencesExt

CONSTANTS
  Accounts,       \* account ids
  NoAccount,      \* Option::None in the first OwnershipTransferred event
  FeedIds,        \* the u32 feed ids in use
  Deposits,       \* attached deposits that are tried, in yoctoNEAR
  InitArgs,       \* the arguments of new that are tried
  RoleBatches,    \* the batches of role updates that are tried
  FeedBatches,    \* the batches of feed updates that are tried
  MaxTime,        \* bound: the last block time, in seconds
  MAX_FUTURE_DRIFT_THRESHOLD,
  PRICE_MODULUS,  \* 2^80: ten bytes of the price are stored
  TS_MODULUS      \* 2^48: six bytes of a timestamp are stored

NewArgs ==
  [owner : Accounts, open_read_enabled : BOOLEAN, admins : Seq(Accounts),
   products : Seq(Accounts), price_reporters : Seq(Accounts),
   authorized_callers : Seq(Accounts)]
RoleUpdate == [account : Accounts, status : BOOLEAN]
FeedUpdate == [feed_id : FeedIds, price : Nat, agg_ts : Nat]

ASSUME InputsAssumption ==
  /\ NoAccount \notin Accounts
  /\ InitArgs \subseteq NewArgs
  /\ RoleBatches \subseteq Seq(RoleUpdate)
  /\ FeedBatches \subseteq Seq(FeedUpdate)

ASSUME NumbersAssumption ==
  /\ MaxTime \in Nat
  /\ MAX_FUTURE_DRIFT_THRESHOLD \in Nat \ {0}
  /\ PRICE_MODULUS \in Nat \ {0}
  /\ TS_MODULUS \in Nat \ {0}

\* block_timestamp is a u64 of nanoseconds, so now + 60 seconds is far below
\* 2^48: the six bytes a timestamp is stored in never lose a bit.
ASSUME TimestampWidth == MaxTime + MAX_FUTURE_DRIFT_THRESHOLD <= TS_MODULUS

VARIABLES
  initialized,         \* whether the account holds a contract state
  feeds,               \* LookupMap<u32, StoredFeed>: defined on the stored ids
  flags,               \* Flags, a u8
  owner,
  admin,               \* LookupSet<AccountId>
  products,            \* LookupSet<AccountId>
  price_reporters,     \* LookupSet<AccountId>
  authorized_callers,  \* IterableSet<AccountId>
  now,                 \* env::block_timestamp() / NANOS_PER_SEC
  emitted              \* the events of the last receipt that succeeded

roles == <<admin, products, price_reporters, authorized_callers>>
vars  == <<initialized, feeds, flags, owner, roles, now, emitted>>

-----------------------------------------------------------------------------
(* Values                                                                  *)

StoredFeed ==
  [price : 0 .. PRICE_MODULUS - 1, agg_ts : 0 .. TS_MODULUS - 1, onchain_ts : 0 .. TS_MODULUS - 1]

OwnershipTransferred(old_owner, new_owner) ==
  [event |-> "ownership_transferred", old_owner |-> old_owner, new_owner |-> new_owner]
RoleStatusChanged(kind, account, status) ==
  [event |-> kind, account |-> account, status |-> status]
FlagStatusChanged(kind, status) == [event |-> kind, status |-> status]
FEvent(updates) ==
  [event |-> "f",
   i |-> [k \in DOMAIN updates |-> updates[k].feed_id],
   p |-> [k \in DOMAIN updates |-> updates[k].price],
   t |-> [k \in DOMAIN updates |-> updates[k].agg_ts]]

-----------------------------------------------------------------------------
(* Batches.  A batch is applied in order; what the n-th iteration finds is *)
(* what the first n - 1 left, which is the last entry for the same key, or *)
(* what storage holds when there is none.                                  *)

RoleEntries(updates, account, n) == {k \in 1 .. n : updates[k].account = account}
FeedEntries(updates, id, n)      == {k \in 1 .. n : updates[k].feed_id = id}

\* Whether account is in the role once the first n updates are applied to set.
MemberAt(set, updates, account, n) ==
  LET entries == RoleEntries(updates, account, n)
  IN  IF entries = {} THEN account \in set ELSE updates[Max(entries)].status

\* What insert and remove return in iteration k: whether the set changed.
Changes(set, updates, k) ==
  MemberAt(set, updates, updates[k].account, k - 1) # updates[k].status

ChangesUpTo(set, updates, n) == {k \in 1 .. n : Changes(set, updates, k)}

MembersAfter(set, updates) ==
  {account \in Accounts : MemberAt(set, updates, account, Len(updates))}

\* update_role_member over a batch panics at the first redundant update.
EveryUpdateChanges(set, updates) == \A k \in DOMAIN updates : Changes(set, updates, k)

RoleEvents(kind, updates) ==
  [k \in DOMAIN updates |-> RoleStatusChanged(kind, updates[k].account, updates[k].status)]

StoredAggTs(id) == IF id \in DOMAIN feeds THEN feeds[id].agg_ts ELSE 0

\* prev_agg_ts of the loop in f after n iterations.
PrevAggTs(updates, id, n) ==
  LET entries == FeedEntries(updates, id, n)
  IN  IF entries = {} THEN StoredAggTs(id) ELSE updates[Max(entries)].agg_ts

\* Faulty bounds: a report as old as the stored one, or drifting as far as
\* the threshold itself, or any distance, is accepted.
InBoundsLaxAge(updates, k) ==
  /\ updates[k].agg_ts >= PrevAggTs(updates, updates[k].feed_id, k - 1)
  /\ updates[k].agg_ts < now + MAX_FUTURE_DRIFT_THRESHOLD
InBoundsLaxDrift(updates, k) ==
  /\ updates[k].agg_ts > PrevAggTs(updates, updates[k].feed_id, k - 1)
  /\ updates[k].agg_ts <= now + MAX_FUTURE_DRIFT_THRESHOLD

InBoundsAnyDrift(updates, k) ==
  updates[k].agg_ts > PrevAggTs(updates, updates[k].feed_id, k - 1)

\* Faulty: a report that was under way for as long as the threshold is too old.
InBoundsNotLate(updates, k) ==
  /\ updates[k].agg_ts + MAX_FUTURE_DRIFT_THRESHOLD > now
  /\ updates[k].agg_ts > PrevAggTs(updates, updates[k].feed_id, k - 1)
  /\ updates[k].agg_ts < now + MAX_FUTURE_DRIFT_THRESHOLD

InBounds(updates, k) ==
  /\ updates[k].agg_ts > PrevAggTs(updates, updates[k].feed_id, k - 1)
  /\ updates[k].agg_ts < now + MAX_FUTURE_DRIFT_THRESHOLD

\* The 22-byte storage codec: only the low bytes of each field survive.
Pack(price, agg_ts, onchain_ts) ==
  [price |-> price % PRICE_MODULUS, agg_ts |-> agg_ts % TS_MODULUS,
   onchain_ts |-> onchain_ts % TS_MODULUS]

FeedIdsOf(updates) == {updates[k].feed_id : k \in DOMAIN updates}

\* Faulty: the entry a batch leaves is its first one for the feed.
FeedsAfterFirstWins(updates) ==
  [id \in DOMAIN feeds \cup FeedIdsOf(updates) |->
     LET entries == FeedEntries(updates, id, Len(updates))
     IN  IF entries = {} THEN feeds[id]
         ELSE Pack(updates[Min(entries)].price, updates[Min(entries)].agg_ts, now)]

FeedsAfter(updates) ==
  [id \in DOMAIN feeds \cup FeedIdsOf(updates) |->
     LET entries == FeedEntries(updates, id, Len(updates))
     IN  IF entries = {} THEN feeds[id]
         ELSE Pack(updates[Max(entries)].price, updates[Max(entries)].agg_ts, now)]

-----------------------------------------------------------------------------
(* Reads                                                                   *)

\* only_read_access lets the account pass.
CanRead(account) ==
  /\ ~IsPaused(flags)
  /\ \/ IsOpenReadWhenUnpaused(flags)
     \/ account \in authorized_callers

\* The result of fetch_batch: one element per id, None being the empty set
\* and Some(feed) a singleton.
FetchBatch(ids) == [k \in DOMAIN ids |-> IF ids[k] \in DOMAIN feeds THEN {feeds[ids[k]]} ELSE {}]

-----------------------------------------------------------------------------
(* Change methods.  The SDK lets a deposit through to payable methods only, *)
(* and those ask for exactly one yoctoNEAR.                                *)

NotPayable(deposit)      == deposit = 0
AssertOneYocto(deposit)  == deposit = 1

Init ==
  /\ initialized = FALSE
  /\ feeds = <<>>
  /\ flags = NewFlags(FALSE, FALSE)
  /\ owner = NoAccount
  /\ admin = {}
  /\ products = {}
  /\ price_reporters = {}
  /\ authorized_callers = {}
  /\ now = 0
  /\ emitted = <<>>

Members(kind, accounts) ==
  [k \in DOMAIN accounts |-> RoleStatusChanged(kind, accounts[k], TRUE)]

\* Faulty: #[init(ignore_state)].
NotInitializedIgnored == TRUE

\* #[init] refuses a second call.
NotInitialized == ~initialized

\* feeds are those of LookupMap::new: none.
New(args, deposit) ==
  /\ NotInitialized
  /\ NotPayable(deposit)
  /\ args.open_read_enabled => args.authorized_callers = <<>>
  /\ \A list \in {args.admins, args.products, args.price_reporters, args.authorized_callers} :
        IsInjective(list)
  /\ initialized' = TRUE
  /\ flags' = NewFlags(FALSE, args.open_read_enabled)
  /\ owner' = args.owner
  /\ admin' = ToSet(args.admins)
  /\ products' = ToSet(args.products)
  /\ price_reporters' = ToSet(args.price_reporters)
  /\ authorized_callers' = ToSet(args.authorized_callers)
  /\ emitted' = <<OwnershipTransferred(NoAccount, args.owner),
                  FlagStatusChanged("open_read_status_changed", args.open_read_enabled)>>
                 \o Members("admin_status_changed", args.admins)
                 \o Members("product_status_changed", args.products)
                 \o Members("price_reporter_status_changed", args.price_reporters)
                 \o Members("authorized_caller_status_changed", args.authorized_callers)
  /\ UNCHANGED <<feeds, now>>

\* Faulty: anyone may report.
FFromAnyone(caller, deposit, updates) ==
  /\ initialized
  /\ NotPayable(deposit)
  /\ updates # <<>>
  /\ \A k \in DOMAIN updates : InBounds(updates, k)
  /\ feeds' = FeedsAfter(updates)
  /\ emitted' = <<FEvent(updates)>>
  /\ UNCHANGED <<initialized, flags, owner, roles, now>>

F(caller, deposit, updates) ==
  /\ initialized
  /\ NotPayable(deposit)
  /\ caller \in price_reporters
  /\ updates # <<>>
  /\ \A k \in DOMAIN updates : InBounds(updates, k)
  /\ feeds' = FeedsAfter(updates)
  /\ emitted' = <<FEvent(updates)>>
  /\ UNCHANGED <<initialized, flags, owner, roles, now>>

TransferOwnership(caller, deposit, new_owner) ==
  /\ initialized
  /\ AssertOneYocto(deposit)
  /\ caller = owner
  /\ new_owner # owner
  /\ owner' = new_owner
  /\ emitted' = <<OwnershipTransferred(owner, new_owner)>>
  /\ UNCHANGED <<initialized, feeds, flags, roles, now>>

\* What set_admins, set_products and set_price_reporters ask for: the owner,
\* a batch that is not empty, and no update without effect.
OwnerUpdates(caller, deposit, set, updates) ==
  /\ initialized
  /\ AssertOneYocto(deposit)
  /\ caller = owner
  /\ updates # <<>>
  /\ EveryUpdateChanges(set, updates)

SetAdmins(caller, deposit, updates) ==
  /\ OwnerUpdates(caller, deposit, admin, updates)
  /\ admin' = MembersAfter(admin, updates)
  /\ emitted' = RoleEvents("admin_status_changed", updates)
  /\ UNCHANGED <<initialized, feeds, flags, owner, products, price_reporters,
                 authorized_callers, now>>

SetProducts(caller, deposit, updates) ==
  /\ OwnerUpdates(caller, deposit, products, updates)
  /\ products' = MembersAfter(products, updates)
  /\ emitted' = RoleEvents("product_status_changed", updates)
  /\ UNCHANGED <<initialized, feeds, flags, owner, admin, price_reporters,
                 authorized_callers, now>>

SetPriceReporters(caller, deposit, updates) ==
  /\ OwnerUpdates(caller, deposit, price_reporters, updates)
  /\ price_reporters' = MembersAfter(price_reporters, updates)
  /\ emitted' = RoleEvents("price_reporter_status_changed", updates)
  /\ UNCHANGED <<initialized, feeds, flags, owner, admin, products,
                 authorized_callers, now>>

\* Faulty: the return value of insert and remove is ignored.
CallerEventsAll(updates) == RoleEvents("authorized_caller_status_changed", updates)

\* The events of the updates that changed the whitelist, in batch order.
CallerEvents(updates) ==
  LET changing == ChangesUpTo(authorized_callers, updates, Len(updates))
      Nth(n)   == CHOOSE k \in changing :
                    Cardinality(ChangesUpTo(authorized_callers, updates, k)) = n
  IN  [n \in 1 .. Cardinality(changing) |->
         RoleStatusChanged("authorized_caller_status_changed",
                           updates[Nth(n)].account, updates[Nth(n)].status)]

SetAuthorizedCallers(caller, deposit, updates) ==
  /\ initialized
  /\ AssertOneYocto(deposit)
  /\ caller \in products
  /\ updates # <<>>
  /\ authorized_callers' = MembersAfter(authorized_callers, updates)
  /\ emitted' = CallerEvents(updates)
  /\ UNCHANGED <<initialized, feeds, flags, owner, admin, products, price_reporters, now>>

SetPaused(caller, deposit, paused) ==
  /\ initialized
  /\ AssertOneYocto(deposit)
  /\ caller \in admin
  /\ IsPaused(flags) # paused
  /\ flags' = FlipPaused(flags)
  /\ emitted' = <<FlagStatusChanged("paused_status_changed", paused)>>
  /\ UNCHANGED <<initialized, feeds, owner, roles, now>>

SetOpenReadStatus(caller, deposit, status) ==
  /\ initialized
  /\ AssertOneYocto(deposit)
  /\ caller = owner
  /\ IsOpenRead(flags) # status
  /\ flags' = FlipOpenRead(flags)
  /\ emitted' = <<FlagStatusChanged("open_read_status_changed", status)>>
  /\ UNCHANGED <<initialized, feeds, owner, roles, now>>

\* A later block.  Receipts of one block see the same time.
Tick ==
  /\ now' \in now + 1 .. MaxTime
  /\ emitted' = <<>>
  /\ UNCHANGED <<initialized, feeds, flags, owner, roles>>

Next ==
  \/ \E deposit \in Deposits :
       \/ \E args \in InitArgs : New(args, deposit)
       \/ \E caller \in Accounts :
            \/ \E updates \in FeedBatches : F(caller, deposit, updates)
            \/ \E new_owner \in Accounts : TransferOwnership(caller, deposit, new_owner)
            \/ \E updates \in RoleBatches :
                 \/ SetAdmins(caller, deposit, updates)
                 \/ SetProducts(caller, deposit, updates)
                 \/ SetPriceReporters(caller, deposit, updates)
                 \/ SetAuthorizedCallers(caller, deposit, updates)
            \/ \E status \in BOOLEAN :
                 \/ SetPaused(caller, deposit, status)
                 \/ SetOpenReadStatus(caller, deposit, status)
  \/ Tick

Spec == Init /\ [][Next]_vars

-----------------------------------------------------------------------------
(* Invariants and action properties                                        *)

\* The values of the state variables.  In particular the flags byte never
\* leaves its two bits, whatever the order of the two flips, and the owner is
\* an account as soon as the contract is initialized.
TypeOK ==
  /\ initialized \in BOOLEAN
  /\ DOMAIN feeds \subseteq FeedIds
  /\ \A id \in DOMAIN feeds : feeds[id] \in StoredFeed
  /\ flags \in FlagBytes
  /\ owner \in IF initialized THEN Accounts ELSE {NoAccount}
  /\ admin \subseteq Accounts
  /\ products \subseteq Accounts
  /\ price_reporters \subseteq Accounts
  /\ authorized_callers \subseteq Accounts
  /\ now \in 0 .. MaxTime

\* Every stored feed was accepted within the drift of the block that stored it
\* (f, lib.rs:142), a block that is not in the future, and no stored report
\* is dated zero: it survives the truncation of the storage codec.
DriftBound ==
  \A id \in DOMAIN feeds :
    /\ feeds[id].agg_ts > 0
    /\ feeds[id].agg_ts < feeds[id].onchain_ts + MAX_FUTURE_DRIFT_THRESHOLD
    /\ feeds[id].onchain_ts <= now

\* The two comparisons only_read_access makes on the packed byte (types.rs:89
\* and 94) give, in every combination of flags and whitelist the change
\* methods can reach, the read modes that is_paused, is_open_read and
\* is_authorized_caller report: paused blocks everyone, open mode ignores the
\* whitelist, gated mode is the whitelist.
ReadModes ==
  \A account \in Accounts :
    CanRead(account) <=> /\ ~BitIsSet(flags, PAUSED_MASK)
                         /\ \/ BitIsSet(flags, OPEN_READ_MASK)
                            \/ account \in authorized_callers

\* f never loses a feed, and overwrites one only with a strictly newer report
\* stamped with the present block time, even when a batch names it twice or
\* when reports of several reporters arrive out of order.
NewestReportWins ==
  [][\A id \in DOMAIN feeds :
       /\ id \in DOMAIN feeds'
       /\ feeds'[id] # feeds[id] => /\ feeds'[id].agg_ts > feeds[id].agg_ts
                                    /\ feeds'[id].onchain_ts = now
                                    /\ now >= feeds[id].onchain_ts]_vars
=============================================================================
