--------------------------- MODULE ReceiptProofs ---------------------------
(***************************************************************************)
(* Proofs about whole receipts: the loops of f, new and the role batches,  *)
(* run on the caches of the SDK and cut short anywhere, implement the      *)
(* atomic closed-form actions of MultiFeed, for batches of any length.     *)
(***************************************************************************)
EXTENDS ReceiptExecution, MultiFeedProofs, SequenceTheorems

-----------------------------------------------------------------------------
(* The receipt that runs                                                   *)

Iterations == receipt.next - 1

\* A running receipt is at an iteration of its loop or at its end.
IsReceipt ==
  /\ receipt = [method |-> receipt.method, args |-> receipt.args, items |-> receipt.items,
                next |-> receipt.next, cache |-> receipt.cache, logs |-> receipt.logs]
  /\ Len(receipt.items) \in Nat
  /\ receipt.next \in 1 .. Len(receipt.items) + 1

\* What f has required before its loop still holds in it.
FRuns ==
  receipt.method = "f" =>
    /\ IsReceipt
    /\ receipt.args \in FeedBatches
    /\ receipt.args # <<>>
    /\ receipt.items = receipt.args
    /\ initialized
    /\ \E caller \in Accounts, deposit \in Deposits :
         NotPayable(deposit) /\ caller \in price_reporters
    /\ FLoopInvariant

-----------------------------------------------------------------------------
(* The loop of f                                                           *)

\* The map's cache over the storage answers what the closed form says: the
\* last earlier entry of the batch, or the stored one.
LEMMA CurrentIsPrevious ==
  ASSUME FRuns, receipt.method = "f", NEW id
  PROVE  CurrentAggTs(id) = PrevAggTs(receipt.args, id, Iterations)
<1> DEFINE args == receipt.args
           done == Iterations
<1>1. /\ DOMAIN receipt.cache = {args[k].feed_id : k \in 1 .. done}
      /\ \A i \in DOMAIN receipt.cache :
           receipt.cache[i].agg_ts = args[Max(FeedEntries(args, i, done))].agg_ts
  <2>1. FLoopInvariant
    BY DEF FRuns
  <2>2. \A i \in DOMAIN receipt.cache :
          receipt.cache[i] = [price |-> args[Max(FeedEntries(args, i, done))].price,
                              agg_ts |-> args[Max(FeedEntries(args, i, done))].agg_ts,
                              onchain_ts |-> now]
    BY <2>1 DEF FLoopInvariant, Iterations
  <2>3. DOMAIN receipt.cache = {args[k].feed_id : k \in 1 .. done}
    BY <2>1 DEF FLoopInvariant, Iterations
  <2>4. ASSUME NEW i \in DOMAIN receipt.cache
        PROVE  receipt.cache[i].agg_ts = args[Max(FeedEntries(args, i, done))].agg_ts
    <3>1. receipt.cache[i] = [price |-> args[Max(FeedEntries(args, i, done))].price,
                              agg_ts |-> args[Max(FeedEntries(args, i, done))].agg_ts,
                              onchain_ts |-> now]
      BY <2>2
    <3> QED BY <3>1
  <2> QED BY <2>3, <2>4
<1>2. id \in DOMAIN receipt.cache <=> FeedEntries(args, id, done) # {}
  BY <1>1 DEF FeedEntries
<1> QED BY <1>1, <1>2 DEF CurrentAggTs, CacheHolds, PrevAggTs

\* So the check of an iteration is the closed form's.
LEMMA SameBounds ==
  ASSUME FRuns, receipt.method = "f", InLoop
  PROVE  TimestampInBounds(Item) <=> InBounds(receipt.args, receipt.next)
<1>1. Item = receipt.args[receipt.next]
  BY DEF Item, FRuns
<1>2. CurrentAggTs(Item.feed_id) = PrevAggTs(receipt.args, Item.feed_id, receipt.next - 1)
  BY CurrentIsPrevious DEF Iterations
<1> QED BY <1>1, <1>2 DEF TimestampInBounds, InBounds

\* An iteration of f keeps what is known of its receipt.
LEMMA IterateFStep ==
  ASSUME FRuns, IterateF
  PROVE  FRuns'
<1> DEFINE args == receipt.args
           k    == receipt.next
           feed == [price |-> Item.price, agg_ts |-> Item.agg_ts, onchain_ts |-> now]
<1>1. /\ receipt.method = "f" /\ InLoop /\ TimestampInBounds(Item)
      /\ receipt' = Advanced(Cached(Item.feed_id, feed), receipt.logs)
      /\ UNCHANGED vars
  BY DEF IterateF
<1>2. /\ IsReceipt /\ args \in Seq(FeedUpdate) /\ receipt.items = args
      /\ Item = args[k] /\ k \in 1 .. Len(args) /\ Len(args) \in Nat
      /\ FLoopInvariant
  BY <1>1, InputsAssumption DEF FRuns, IsReceipt, Item, InLoop
<1>3. /\ receipt'.method = "f" /\ receipt'.args = args /\ receipt'.items = args
      /\ receipt'.next = k + 1
      /\ receipt'.cache = Cached(args[k].feed_id, feed)
      /\ IsReceipt'
  <2>1. receipt' = [method |-> "f", args |-> args, items |-> args, next |-> k + 1,
                    cache |-> Cached(args[k].feed_id, feed), logs |-> receipt.logs]
    BY <1>1, <1>2 DEF Advanced
  <2> HIDE DEF feed
  <2> QED BY <1>2, <2>1 DEF IsReceipt
<1>4. /\ DOMAIN receipt'.cache = {args[k].feed_id} \cup DOMAIN receipt.cache
      /\ receipt'.cache[args[k].feed_id] = feed
      /\ \A id \in DOMAIN receipt.cache : id # args[k].feed_id => receipt'.cache[id] = receipt.cache[id]
  <2> HIDE DEF feed
  <2> QED BY <1>3 DEF Cached
<1>5. /\ \A j \in 1 .. k - 1 : InBounds(args, j)
      /\ DOMAIN receipt.cache = {args[j].feed_id : j \in 1 .. k - 1}
      /\ \A id \in DOMAIN receipt.cache :
           receipt.cache[id] = [price |-> args[Max(FeedEntries(args, id, k - 1))].price,
                                agg_ts |-> args[Max(FeedEntries(args, id, k - 1))].agg_ts,
                                onchain_ts |-> now]
  BY <1>1, <1>2 DEF FLoopInvariant
<1>6. \A j \in 1 .. k : InBounds(args, j)
  <2>1. InBounds(args, k)
    BY <1>1, SameBounds
  <2> QED BY <1>2, <1>5, <2>1
<1>7. {args[k].feed_id} \cup DOMAIN receipt.cache = {args[j].feed_id : j \in 1 .. k}
  <2>1. 1 .. k = (1 .. k - 1) \cup {k}
    BY <1>2
  <2> QED BY <1>5, <2>1
<1>8. ASSUME NEW id \in DOMAIN receipt'.cache
      PROVE  receipt'.cache[id] = [price |-> args[Max(FeedEntries(args, id, k))].price,
                                   agg_ts |-> args[Max(FeedEntries(args, id, k))].agg_ts,
                                   onchain_ts |-> now]
  <2>1. k \in Nat \ {0}
    BY <1>2
  <2>2. CASE id = args[k].feed_id
    <3>1. Max(FeedEntries(args, id, k)) = k
      BY <2>1, <2>2, FeedEntriesStep
    <3> QED BY <1>2, <1>4, <2>2, <3>1
  <2>3. CASE id # args[k].feed_id
    <3>1. FeedEntries(args, id, k) = FeedEntries(args, id, k - 1)
      BY <2>1, <2>3, FeedEntriesStep
    <3> QED BY <1>4, <1>5, <1>8, <2>3, <3>1
  <2> QED BY <2>2, <2>3
<1>9. FLoopInvariant'
  <2>1. receipt'.next - 1 = k
    BY <1>2, <1>3
  <2>2. (\A j \in 1 .. receipt.next - 1 : InBounds(receipt.args, j))'
    <3>1. \A j \in 1 .. k : InBounds(args, j)
      BY <1>6
    <3> QED BY <1>1, <1>3, <2>1, <3>1 DEF InBounds, PrevAggTs, StoredAggTs, vars
  <2>3. now' = now
    BY <1>1 DEF vars
  <2>4. (DOMAIN receipt.cache = {receipt.args[j].feed_id : j \in 1 .. receipt.next - 1})'
    BY <1>3, <1>4, <1>7, <2>1
  <2>5. (\A id \in DOMAIN receipt.cache :
           LET latest == receipt.args[Max(FeedEntries(receipt.args, id, receipt.next - 1))]
           IN  receipt.cache[id] = [price |-> latest.price, agg_ts |-> latest.agg_ts,
                                    onchain_ts |-> now])'
    BY <1>3, <1>8, <2>1, <2>3
  <2> QED BY <2>2, <2>4, <2>5 DEF FLoopInvariant
<1> QED BY <1>1, <1>2, <1>3, <1>9 DEF FRuns, vars, roles

\* The requirements f checks before its loop establish it.
LEMMA BeginFStep ==
  ASSUME NEW caller \in Accounts, NEW deposit \in Deposits, NEW updates \in FeedBatches,
         BeginF(caller, deposit, updates)
  PROVE  FRuns'
<1>1. receipt' = [method |-> "f", args |-> updates, items |-> updates, next |-> 1,
                  cache |-> <<>>, logs |-> <<>>]
  BY DEF BeginF, Started
<1>2. updates \in Seq(FeedUpdate) /\ updates # <<>> /\ Len(updates) \in Nat
  BY InputsAssumption DEF BeginF
<1>3. IsReceipt'
  BY <1>1, <1>2 DEF IsReceipt
<1>4. FLoopInvariant'
  <2>1. receipt'.next - 1 = 0 /\ receipt'.args = updates /\ receipt'.cache = <<>>
    BY <1>1
  <2>2. 1 .. 0 = {} /\ DOMAIN receipt'.cache = {}
    BY <2>1
  <2> QED BY <2>1, <2>2 DEF FLoopInvariant
<1>5. UNCHANGED vars /\ initialized /\ NotPayable(deposit) /\ caller \in price_reporters
  BY DEF BeginF
<1>6. (\E c \in Accounts, d \in Deposits : NotPayable(d) /\ c \in price_reporters)'
  BY <1>5 DEF vars, roles, NotPayable
<1> QED BY <1>1, <1>2, <1>3, <1>4, <1>5, <1>6 DEF FRuns, vars

\* What f flushes at its end is what the closed form leaves.
LEMMA ReturnFIsF ==
  ASSUME FRuns, ReturnF
  PROVE  \E caller \in Accounts, deposit \in Deposits : F(caller, deposit, receipt.args)
<1> DEFINE args == receipt.args
<1>1. /\ receipt.method = "f" /\ LoopDone /\ feeds' = FlushedFeeds
      /\ emitted' = <<FEvent(args)>> /\ UNCHANGED <<initialized, flags, owner, roles, now>>
  BY DEF ReturnF
<1>2. /\ IsReceipt /\ args \in Seq(FeedUpdate) /\ receipt.items = args /\ args # <<>>
      /\ initialized /\ FLoopInvariant
  BY <1>1, InputsAssumption DEF FRuns
<1>3. Len(args) \in Nat /\ DOMAIN args = 1 .. Len(args) /\ receipt.next - 1 = Len(args)
  BY <1>1, <1>2 DEF IsReceipt, LoopDone
<1>4. /\ \A j \in DOMAIN args : InBounds(args, j)
      /\ DOMAIN receipt.cache = {args[j].feed_id : j \in 1 .. Len(args)}
      /\ \A id \in DOMAIN receipt.cache :
           receipt.cache[id] = [price |-> args[Max(FeedEntries(args, id, Len(args)))].price,
                                agg_ts |-> args[Max(FeedEntries(args, id, Len(args)))].agg_ts,
                                onchain_ts |-> now]
  BY <1>1, <1>2, <1>3 DEF FLoopInvariant
<1>5. DOMAIN receipt.cache = FeedIdsOf(args)
  BY <1>3, <1>4 DEF FeedIdsOf
<1>6. \A id : id \in DOMAIN receipt.cache <=> FeedEntries(args, id, Len(args)) # {}
  BY <1>4 DEF FeedEntries
<1>7. FlushedFeeds = FeedsAfter(args)
  <2>1. ASSUME NEW id \in DOMAIN receipt.cache
        PROVE  Pack(receipt.cache[id].price, receipt.cache[id].agg_ts, receipt.cache[id].onchain_ts)
                 = Pack(args[Max(FeedEntries(args, id, Len(args)))].price,
                        args[Max(FeedEntries(args, id, Len(args)))].agg_ts, now)
    <3>1. receipt.cache[id] = [price |-> args[Max(FeedEntries(args, id, Len(args)))].price,
                               agg_ts |-> args[Max(FeedEntries(args, id, Len(args)))].agg_ts,
                               onchain_ts |-> now]
      BY <1>4
    <3> QED BY <3>1
  <2> QED BY <1>5, <1>6, <2>1 DEF FlushedFeeds, FeedsAfter, CacheHolds
<1>8. PICK caller \in Accounts, deposit \in Deposits : NotPayable(deposit) /\ caller \in price_reporters
  BY <1>1 DEF FRuns
<1>9. F(caller, deposit, args)
  BY <1>1, <1>2, <1>4, <1>7, <1>8 DEF F
<1> QED BY <1>9

-----------------------------------------------------------------------------
(* The loop of a role batch                                                *)

\* What a role method holds of its logs after n updates: the log of each
\* update that changed the role stands at that update's rank, and there is no
\* other.
LogsByRank(logs, kind, set, updates, n) ==
  LET Rank(k) == Cardinality(ChangesUpTo(set, updates, k))
  IN  /\ logs \in Seq([event : {kind}, account : Accounts, status : BOOLEAN])
      /\ Len(logs) = Rank(n)
      /\ \A k \in ChangesUpTo(set, updates, n) :
           /\ Rank(k) \in 1 .. Len(logs)
           /\ logs[Rank(k)] = RoleStatusChanged(kind, updates[k].account, updates[k].status)
      /\ \A m \in 1 .. Len(logs) : \E k \in ChangesUpTo(set, updates, n) : Rank(k) = m

\* An update that changes the role adds its log.
LEMMA LogsStep ==
  ASSUME NEW logs, NEW kind, NEW set, NEW updates, NEW n \in Nat \ {0},
         LogsByRank(logs, kind, set, updates, n - 1),
         updates[n] \in RoleUpdate, Changes(set, updates, n)
  PROVE  LogsByRank(Append(logs, RoleStatusChanged(kind, updates[n].account, updates[n].status)),
                    kind, set, updates, n)
<1> DEFINE Rank(k)  == Cardinality(ChangesUpTo(set, updates, k))
           Entries  == [event : {kind}, account : Accounts, status : BOOLEAN]
           log      == RoleStatusChanged(kind, updates[n].account, updates[n].status)
           longer   == Append(logs, log)
<1>1. /\ logs \in Seq(Entries)
      /\ Len(logs) = Rank(n - 1)
      /\ \A k \in ChangesUpTo(set, updates, n - 1) :
           /\ Rank(k) \in 1 .. Len(logs)
           /\ logs[Rank(k)] = RoleStatusChanged(kind, updates[k].account, updates[k].status)
      /\ \A m \in 1 .. Len(logs) : \E k \in ChangesUpTo(set, updates, n - 1) : Rank(k) = m
  BY DEF LogsByRank
<1>2. log \in Entries
  BY DEF RoleStatusChanged, RoleUpdate
<1>3. /\ ChangesUpTo(set, updates, n) = ChangesUpTo(set, updates, n - 1) \cup {n}
      /\ Rank(n) = Rank(n - 1) + 1 /\ Rank(n - 1) \in Nat
  <2>1. n \in Nat /\ n - 1 \in Nat /\ Changes(set, updates, n)
    OBVIOUS
  <2>2. Cardinality(ChangesUpTo(set, updates, n - 1)) \in Nat
    BY <2>1, ChangesStep
  <2>3. /\ ChangesUpTo(set, updates, n) = ChangesUpTo(set, updates, n - 1) \cup {n}
        /\ Cardinality(ChangesUpTo(set, updates, n))
             = Cardinality(ChangesUpTo(set, updates, n - 1)) + 1
    BY <2>1, ChangesStep
  <2> QED BY <2>2, <2>3
<1>4. /\ longer \in Seq(Entries) /\ Len(longer) = Len(logs) + 1
      /\ \A i \in 1 .. Len(logs) : longer[i] = logs[i]
      /\ longer[Len(logs) + 1] = log
  <2> HIDE DEF log, Entries
  <2> QED BY <1>1, <1>2
<1>5. Len(longer) = Rank(n) /\ Len(logs) \in Nat
  BY <1>1, <1>3, <1>4
<1>6. ASSUME NEW k \in ChangesUpTo(set, updates, n)
      PROVE  /\ Rank(k) \in 1 .. Len(longer)
             /\ longer[Rank(k)] = RoleStatusChanged(kind, updates[k].account, updates[k].status)
  <2>1. CASE k = n
    <3>1. longer[Rank(n)] = log /\ Rank(n) \in 1 .. Len(longer)
      <4> HIDE DEF log, longer, Rank
      <4> QED BY <1>1, <1>3, <1>4, <1>5
    <3> QED BY <2>1, <3>1
  <2>2. CASE k \in ChangesUpTo(set, updates, n - 1)
    <3>1. /\ Rank(k) \in 1 .. Len(logs)
          /\ logs[Rank(k)] = RoleStatusChanged(kind, updates[k].account, updates[k].status)
      BY <1>1, <2>2
    <3> HIDE DEF log, longer, Rank
    <3> QED BY <1>4, <1>5, <3>1
  <2> QED BY <1>3, <2>1, <2>2
<1>7. ASSUME NEW m \in 1 .. Len(longer)
      PROVE  \E k \in ChangesUpTo(set, updates, n) : Rank(k) = m
  <2>1. CASE m = Rank(n)
    BY <1>3, <2>1
  <2>2. CASE m # Rank(n)
    <3>1. m \in 1 .. Len(logs)
      <4> HIDE DEF longer, Rank
      <4> QED BY <1>4, <1>5, <2>2
    <3> QED BY <1>1, <1>3, <3>1
  <2> QED BY <2>1, <2>2
<1>8. LogsByRank(longer, kind, set, updates, n)
  <2> HIDE DEF longer
  <2> QED BY <1>4, <1>5, <1>6, <1>7 DEF LogsByRank
<1> QED BY <1>8

\* Any other update leaves them alone.
LEMMA LogsSkip ==
  ASSUME NEW logs, NEW kind, NEW set, NEW updates, NEW n \in Nat \ {0},
         LogsByRank(logs, kind, set, updates, n - 1), ~Changes(set, updates, n)
  PROVE  LogsByRank(logs, kind, set, updates, n)
<1>1. ChangesUpTo(set, updates, n) = ChangesUpTo(set, updates, n - 1)
  BY ChangesStep
<1> QED BY <1>1 DEF LogsByRank

RoleRuns ==
  receipt.method \in RoleMethods =>
    /\ IsReceipt
    /\ receipt.args \in RoleBatches
    /\ receipt.args # <<>>
    /\ receipt.items = RoleItems(receipt.method, receipt.args)
    /\ initialized
    /\ \E caller \in Accounts, deposit \in Deposits :
         /\ AssertOneYocto(deposit)
         /\ IF receipt.method \in OwnerMethods THEN caller = owner ELSE caller \in products
    /\ RoleLoopInvariant
    /\ receipt.method \in OwnerMethods =>
         \A k \in 1 .. Iterations : Changes(Stored(RoleOf(receipt.method)), receipt.args, k)
    /\ LogsByRank(receipt.logs, EventOf(RoleOf(receipt.method)), Stored(RoleOf(receipt.method)),
                  receipt.args, Iterations)

\* The item of an iteration is the update.
LEMMA RoleItemFacts ==
  ASSUME RoleRuns, receipt.method \in RoleMethods, InLoop
  PROVE  /\ receipt.next \in 1 .. Len(receipt.args)
         /\ Len(receipt.args) \in Nat
         /\ receipt.args[receipt.next] \in RoleUpdate
         /\ Item = RoleItem(RoleOf(receipt.method), receipt.method \in OwnerMethods,
                            receipt.args[receipt.next].account, receipt.args[receipt.next].status)
         /\ Item.role = RoleOf(receipt.method)
         /\ Item.strict = (receipt.method \in OwnerMethods)
         /\ Item.account = receipt.args[receipt.next].account
         /\ Item.status = receipt.args[receipt.next].status
<1>1. /\ receipt.args \in Seq(RoleUpdate) /\ IsReceipt
      /\ receipt.items = RoleItems(receipt.method, receipt.args)
  BY InputsAssumption DEF RoleRuns
<1>2. DOMAIN receipt.args = 1 .. Len(receipt.args) /\ Len(receipt.args) \in Nat
  BY <1>1
<1>3. Len(receipt.items) = Len(receipt.args)
  BY <1>1, <1>2 DEF RoleItems
<1>4. receipt.next \in 1 .. Len(receipt.args)
  BY <1>1, <1>2, <1>3 DEF IsReceipt, InLoop
<1>5. Item = RoleItem(RoleOf(receipt.method), receipt.method \in OwnerMethods,
                      receipt.args[receipt.next].account, receipt.args[receipt.next].status)
  BY <1>1, <1>2, <1>4 DEF Item, RoleItems
<1>6. receipt.args[receipt.next] \in RoleUpdate
  BY <1>1, <1>4
<1> QED BY <1>2, <1>4, <1>5, <1>6 DEF RoleItem

\* So what insert or remove returns is what the closed form says.
LEMMA SameChange ==
  ASSUME RoleRuns, receipt.method \in RoleMethods, InLoop
  PROVE  ItemChanges <=> Changes(Stored(RoleOf(receipt.method)), receipt.args, receipt.next)
<1>1. /\ receipt.args[receipt.next].account \in Accounts
      /\ Item.role = RoleOf(receipt.method)
      /\ Item.account = receipt.args[receipt.next].account
      /\ Item.status = receipt.args[receipt.next].status
  BY RoleItemFacts DEF RoleUpdate
<1>2. \A account \in Accounts :
        CurrentlyHas(RoleOf(receipt.method), account) =
          MemberAt(Stored(RoleOf(receipt.method)), receipt.args, account, receipt.next - 1)
  BY DEF RoleRuns, RoleLoopInvariant
<1>3. CurrentlyHas(Item.role, Item.account) =
        MemberAt(Stored(RoleOf(receipt.method)), receipt.args,
                 receipt.args[receipt.next].account, receipt.next - 1)
  BY <1>1, <1>2
<1> QED BY <1>1, <1>3 DEF ItemChanges, Changes

\* An iteration of a role batch, changing or skipped, keeps what is known of it.
LEMMA RoleStep ==
  ASSUME RoleRuns, receipt.method \in RoleMethods, IterateRole \/ SkipRedundant
  PROVE  RoleRuns'
<1> DEFINE m     == receipt.method
           args  == receipt.args
           k     == receipt.next
           role  == RoleOf(receipt.method)
           set   == Stored(RoleOf(receipt.method))
           kind  == EventOf(RoleOf(receipt.method))
           event == RoleStatusChanged(kind, args[k].account, args[k].status)
<1>1. /\ InLoop /\ UNCHANGED vars
      /\ ~ItemChanges => ~Item.strict
      /\ receipt' = IF ItemChanges
                      THEN Advanced(Cached(<<Item.role, Item.account>>, Item.status),
                                    Append(receipt.logs, RoleStatusChanged(EventOf(Item.role),
                                                                           Item.account, Item.status)))
                      ELSE Advanced(receipt.cache, receipt.logs)
  BY DEF IterateRole, SkipRedundant
<1>2. /\ k \in 1 .. Len(args) /\ Len(args) \in Nat /\ k \in Nat \ {0}
      /\ args[k] \in RoleUpdate
      /\ Item.role = role /\ Item.account = args[k].account /\ Item.status = args[k].status
      /\ Item.strict = (m \in OwnerMethods)
  BY <1>1, RoleItemFacts
<1>3. ItemChanges <=> Changes(set, args, k)
  BY <1>1, SameChange
<1>4. /\ receipt'.method = m /\ receipt'.args = args /\ receipt'.items = receipt.items
      /\ receipt'.next = k + 1
      /\ receipt'.cache = IF ItemChanges THEN Cached(<<role, args[k].account>>, args[k].status)
                          ELSE receipt.cache
      /\ receipt'.logs = IF ItemChanges THEN Append(receipt.logs, event) ELSE receipt.logs
      /\ IsReceipt'
  <2>1. receipt' = [method |-> m, args |-> args, items |-> receipt.items, next |-> k + 1,
                    cache |-> IF ItemChanges THEN Cached(<<role, args[k].account>>, args[k].status)
                              ELSE receipt.cache,
                    logs |-> IF ItemChanges THEN Append(receipt.logs, event) ELSE receipt.logs]
    BY <1>1, <1>2 DEF Advanced
  <2>2. IsReceipt /\ receipt.next <= Len(receipt.items)
    BY <1>1 DEF RoleRuns, InLoop
  <2> HIDE DEF event
  <2> QED BY <2>1, <2>2 DEF IsReceipt
<1>5. ASSUME NEW r
      PROVE  Stored(r)' = Stored(r)
  BY <1>1 DEF Stored, vars, roles
<1>6. RoleOf(receipt.method)' = role
  BY <1>4 DEF RoleOf
<1>7. Iterations' = k /\ Iterations = k - 1
  BY <1>2, <1>4 DEF Iterations
<1>8. Stored(RoleOf(receipt.method))' = set
  <2>1. /\ admin' = admin /\ products' = products /\ price_reporters' = price_reporters
        /\ authorized_callers' = authorized_callers
    BY <1>1 DEF vars, roles
  <2>2. receipt'.method = m /\ m \in {"set_admins", "set_products", "set_price_reporters",
                                      "set_authorized_callers"}
    BY <1>4 DEF RoleMethods, OwnerMethods
  <2> QED BY <2>1, <2>2 DEF Stored, RoleOf
<1>9. /\ \A account \in Accounts :
           CurrentlyHas(role, account) = MemberAt(set, args, account, k - 1)
      /\ \A key \in DOMAIN receipt.cache : key[1] = role
      /\ LogsByRank(receipt.logs, kind, set, args, k - 1)
      /\ m \in OwnerMethods => \A j \in 1 .. k - 1 : Changes(set, args, j)
  BY <1>7 DEF RoleRuns, RoleLoopInvariant, Iterations
<1>10. ASSUME NEW account \in Accounts
       PROVE  CurrentlyHas(RoleOf(receipt.method), account)' = MemberAt(set, args, account, k)
  <2>1. /\ args[k].account = account => MemberAt(set, args, account, k) = args[k].status
        /\ args[k].account # account =>
             MemberAt(set, args, account, k) = MemberAt(set, args, account, k - 1)
    <3>1. k \in Nat \ {0}
      BY <1>2
    <3> HIDE DEF k, args, set
    <3> QED BY <3>1, MemberAtStep
  <2>2. CurrentlyHas(role, account) = MemberAt(set, args, account, k - 1)
    BY <1>9
  <2>3. CASE ItemChanges /\ args[k].account = account
    <3>1. /\ <<role, account>> \in DOMAIN receipt'.cache
          /\ receipt'.cache[<<role, account>>] = args[k].status
      BY <1>4, <2>3 DEF Cached
    <3>2. CurrentlyHas(RoleOf(receipt.method), account)' = args[k].status
      BY <1>6, <3>1, Zenon DEF CurrentlyHas, CacheHolds
    <3> QED BY <2>1, <2>3, <3>2, Zenon
  <2>4. CASE ~ItemChanges \/ args[k].account # account
    <3>1. /\ <<role, account>> \in DOMAIN receipt'.cache <=> <<role, account>> \in DOMAIN receipt.cache
          /\ <<role, account>> \in DOMAIN receipt.cache =>
               receipt'.cache[<<role, account>>] = receipt.cache[<<role, account>>]
      BY <1>4, <2>4 DEF Cached
    <3>2. CurrentlyHas(RoleOf(receipt.method), account)' = CurrentlyHas(role, account)
      BY <1>6, <1>8, <3>1, Zenon DEF CurrentlyHas, CacheHolds
    <3>3. args[k].account = account => MemberAt(set, args, account, k - 1) = args[k].status
      BY <1>3, <2>4 DEF Changes
    <3> QED BY <2>1, <2>2, <3>2, <3>3, Zenon
  <2> QED BY <2>3, <2>4
<1>11. LogsByRank(receipt'.logs, kind, set, args, k)
  <2>1. CASE ItemChanges
    BY <1>2, <1>3, <1>4, <1>9, <2>1, LogsStep
  <2>2. CASE ~ItemChanges
    BY <1>2, <1>3, <1>4, <1>9, <2>2, LogsSkip
  <2> QED BY <2>1, <2>2
<1>12. ASSUME NEW key \in DOMAIN receipt'.cache
       PROVE  key[1] = role
  BY <1>4, <1>9, <1>12 DEF Cached
<1>13. ASSUME m \in OwnerMethods, NEW j \in 1 .. k
       PROVE  Changes(set, args, j)
  <2>1. Changes(set, args, k)
    <3>1. Item.strict
      BY <1>2, <1>13
    <3> QED BY <1>1, <1>3, <3>1
  <2>2. j = k \/ j \in 1 .. k - 1
    BY <1>2
  <2> QED BY <1>9, <1>13, <2>1, <2>2, Zenon
<1>14. RoleLoopInvariant'
  <2>1. /\ receipt'.method = m /\ RoleOf(receipt.method)' = role
        /\ Stored(RoleOf(receipt.method))' = set /\ receipt'.args = args
        /\ receipt'.next - 1 = k
    BY <1>2, <1>4, <1>6, <1>8
  <2>2. Len(receipt'.logs) = Cardinality(ChangesUpTo(set, args, k))
    BY <1>11 DEF LogsByRank
  <2>3. (\A account \in Accounts :
           CurrentlyHas(RoleOf(receipt.method), account) =
             MemberAt(Stored(RoleOf(receipt.method)), receipt.args, account, receipt.next - 1))'
    BY <1>10, <2>1
  <2> QED BY <1>12, <2>1, <2>2, <2>3 DEF RoleLoopInvariant
<1>15. LogsByRank(receipt.logs, EventOf(RoleOf(receipt.method)), Stored(RoleOf(receipt.method)),
                  receipt.args, Iterations)'
  <2>1. EventOf(RoleOf(receipt.method))' = kind
    BY <1>4 DEF EventOf, RoleOf
  <2> QED BY <1>4, <1>7, <1>8, <1>11, <2>1 DEF LogsByRank
<1>16. (receipt.method \in OwnerMethods =>
          \A j \in 1 .. Iterations : Changes(Stored(RoleOf(receipt.method)), receipt.args, j))'
  <2>1. \A j \in 1 .. k : receipt'.method \in OwnerMethods => Changes(set, args, j)
    BY <1>4, <1>13
  <2> QED BY <1>4, <1>7, <1>8, <2>1 DEF Changes
<1>17. /\ (\E caller \in Accounts, deposit \in Deposits :
             /\ AssertOneYocto(deposit)
             /\ IF receipt.method \in OwnerMethods THEN caller = owner ELSE caller \in products)'
       /\ initialized'
  BY <1>1, <1>4 DEF RoleRuns, vars, roles
<1>18. /\ receipt'.args \in RoleBatches /\ receipt'.args # <<>>
       /\ receipt'.items = RoleItems(receipt.method, receipt.args)'
  BY <1>4 DEF RoleRuns, RoleItems, RoleOf
<1> QED BY <1>4, <1>14, <1>15, <1>16, <1>17, <1>18 DEF RoleRuns

\* The requirements before the loop of a role batch establish it.
LEMMA BeginRoleStep ==
  ASSUME NEW method \in RoleMethods, NEW caller \in Accounts, NEW deposit \in Deposits,
         NEW updates \in RoleBatches, BeginRoleBatch(method, caller, deposit, updates)
  PROVE  RoleRuns'
<1> DEFINE role == RoleOf(method)
<1>1. receipt' = [method |-> method, args |-> updates, items |-> RoleItems(method, updates),
                  next |-> 1, cache |-> <<>>, logs |-> <<>>]
  BY DEF BeginRoleBatch, Started
<1>2. /\ updates \in Seq(RoleUpdate) /\ updates # <<>>
      /\ Len(updates) \in Nat /\ Len(RoleItems(method, updates)) = Len(updates)
  BY InputsAssumption DEF BeginRoleBatch, RoleItems
<1>3. /\ receipt'.method = method /\ receipt'.args = updates
      /\ receipt'.items = RoleItems(method, updates)
      /\ receipt'.next = 1 /\ receipt'.cache = <<>> /\ receipt'.logs = <<>>
      /\ IsReceipt'
  BY <1>1, <1>2 DEF IsReceipt
<1>4. /\ UNCHANGED vars /\ initialized /\ AssertOneYocto(deposit)
      /\ IF method \in OwnerMethods THEN caller = owner ELSE caller \in products
  BY DEF BeginRoleBatch
<1>5. /\ RoleOf(receipt.method)' = role /\ Iterations' = 0
  BY <1>3 DEF RoleOf, Iterations
<1>6. (receipt.items = RoleItems(receipt.method, receipt.args))'
  BY <1>3 DEF RoleItems, RoleOf
<1>7. (\E c \in Accounts, d \in Deposits :
         /\ AssertOneYocto(d)
         /\ IF receipt.method \in OwnerMethods THEN c = owner ELSE c \in products)'
  BY <1>3, <1>4 DEF vars, roles, AssertOneYocto
<1>8. \A set : ChangesUpTo(set, updates, 0) = {} /\ Cardinality(ChangesUpTo(set, updates, 0)) = 0
  BY ChangesStep, FS_EmptySet
<1>9. \A set, kind : LogsByRank(<<>>, kind, set, updates, 0)
  BY <1>8 DEF LogsByRank
<1>10. RoleLoopInvariant'
  <2>1. ASSUME NEW account \in Accounts
        PROVE  (CurrentlyHas(RoleOf(receipt.method), account) =
                  MemberAt(Stored(RoleOf(receipt.method)), receipt.args, account, receipt.next - 1))'
    <3>1. DOMAIN receipt'.cache = {} /\ receipt'.next - 1 = 0
      BY <1>3
    <3>2. CurrentlyHas(RoleOf(receipt.method), account)'
            = (account \in Stored(RoleOf(receipt.method))')
      BY <3>1, Zenon DEF CurrentlyHas, CacheHolds
    <3>3. MemberAt(Stored(RoleOf(receipt.method))', updates, account, 0)
            = (account \in Stored(RoleOf(receipt.method))')
      BY MemberAtStart
    <3> QED BY <1>3, <3>1, <3>2, <3>3
  <2>2. Len(receipt'.logs) = 0 /\ DOMAIN receipt'.cache = {} /\ receipt'.next - 1 = 0
    BY <1>3
  <2>3. (Len(receipt.logs) = Cardinality(ChangesUpTo(Stored(RoleOf(receipt.method)),
                                                     receipt.args, receipt.next - 1)))'
    BY <1>3, <1>8, <2>2 DEF ChangesUpTo
  <2> QED BY <2>1, <2>2, <2>3 DEF RoleLoopInvariant
<1>11. LogsByRank(receipt.logs, EventOf(RoleOf(receipt.method)), Stored(RoleOf(receipt.method)),
                  receipt.args, Iterations)'
  <2>1. LogsByRank(<<>>, EventOf(RoleOf(receipt.method))', Stored(RoleOf(receipt.method))',
                   updates, 0)
    BY <1>9
  <2> QED BY <1>3, <1>5, <2>1 DEF LogsByRank
<1>12. (receipt.method \in OwnerMethods =>
          \A k \in 1 .. Iterations : Changes(Stored(RoleOf(receipt.method)), receipt.args, k))'
  <2>1. 1 .. Iterations' = {}
    BY <1>5
  <2> QED BY <2>1
<1>13. initialized' /\ receipt'.args \in RoleBatches /\ receipt'.args # <<>>
  BY <1>2, <1>3, <1>4 DEF vars
<1> QED BY <1>3, <1>6, <1>7, <1>10, <1>11, <1>12, <1>13 DEF RoleRuns

\* The flush of a role batch changes its role alone.
LEMMA RoleFlush ==
  ASSUME TypeOK, RoleRuns, receipt.method \in RoleMethods, LoopDone,
         NEW role \in {"admin", "products", "price_reporters", "authorized_callers"}
  PROVE  FlushedRole(role) = IF role = RoleOf(receipt.method)
                               THEN MembersAfter(Stored(role), receipt.args)
                               ELSE Stored(role)
<1>1. /\ receipt.args \in Seq(RoleUpdate) /\ IsReceipt
      /\ receipt.items = RoleItems(receipt.method, receipt.args)
      /\ RoleLoopInvariant
  BY InputsAssumption DEF RoleRuns
<1>2. receipt.next - 1 = Len(receipt.args)
  BY <1>1 DEF IsReceipt, LoopDone, RoleItems
<1>3. CASE role = RoleOf(receipt.method)
  <2>1. \A account \in Accounts :
          CurrentlyHas(role, account) = MemberAt(Stored(role), receipt.args, account, Len(receipt.args))
    BY <1>1, <1>2, <1>3 DEF RoleLoopInvariant
  <2> QED BY <1>3, <2>1 DEF FlushedRole, MembersAfter
<1>4. CASE role # RoleOf(receipt.method)
  <2>1. \A account : <<role, account>> \notin DOMAIN receipt.cache
    <3> SUFFICES ASSUME NEW account, <<role, account>> \in DOMAIN receipt.cache
                 PROVE  FALSE
      OBVIOUS
    <3>1. <<role, account>>[1] = RoleOf(receipt.method)
      BY <1>1 DEF RoleLoopInvariant
    <3> QED BY <1>4, <3>1
  <2>2. \A account : CurrentlyHas(role, account) = (account \in Stored(role))
    BY <2>1, Zenon DEF CurrentlyHas, CacheHolds
  <2>3. Stored(role) \subseteq Accounts
    BY DEF TypeOK, Stored
  <2> QED BY <1>4, <2>2, <2>3 DEF FlushedRole
<1> QED BY <1>3, <1>4

\* The logs of an owner's batch, at its end, are one per update.
LEMMA OwnerLogs ==
  ASSUME RoleRuns, receipt.method \in OwnerMethods, LoopDone
  PROVE  /\ EveryUpdateChanges(Stored(RoleOf(receipt.method)), receipt.args)
         /\ receipt.logs = RoleEvents(EventOf(RoleOf(receipt.method)), receipt.args)
<1> DEFINE args == receipt.args
           set  == Stored(RoleOf(receipt.method))
           kind == EventOf(RoleOf(receipt.method))
<1>1. /\ args \in Seq(RoleUpdate) /\ IsReceipt
      /\ receipt.items = RoleItems(receipt.method, args)
      /\ LogsByRank(receipt.logs, kind, set, args, Iterations)
      /\ \A k \in 1 .. Iterations : Changes(set, args, k)
  BY InputsAssumption DEF RoleRuns, RoleMethods
<1>2. Iterations = Len(args) /\ Len(args) \in Nat /\ DOMAIN args = 1 .. Len(args)
  BY <1>1 DEF IsReceipt, LoopDone, RoleItems, Iterations
<1>3. \A n \in 0 .. Len(args) : Cardinality(ChangesUpTo(set, args, n)) = n
  <2> SUFFICES ASSUME NEW n \in 0 .. Len(args)
               PROVE  Cardinality(ChangesUpTo(set, args, n)) = n
    OBVIOUS
  <2>1. ChangesUpTo(set, args, n) = 1 .. n
    BY <1>1, <1>2 DEF ChangesUpTo
  <2>2. Cardinality(1 .. n) = n
    BY FS_Interval
  <2> QED BY <2>1, <2>2
<1>4. /\ receipt.logs \in Seq([event : {kind}, account : Accounts, status : BOOLEAN])
      /\ Len(receipt.logs) = Len(args)
  BY <1>1, <1>2, <1>3 DEF LogsByRank
<1>5. ASSUME NEW k \in 1 .. Len(args)
      PROVE  receipt.logs[k] = RoleStatusChanged(kind, args[k].account, args[k].status)
  <2>1. k \in ChangesUpTo(set, args, Len(args))
    BY <1>1, <1>2 DEF ChangesUpTo
  <2> QED BY <1>1, <1>2, <1>3, <2>1 DEF LogsByRank
<1>6. receipt.logs = RoleEvents(kind, args)
  BY <1>2, <1>4, <1>5 DEF RoleEvents
<1> QED BY <1>1, <1>2, <1>6 DEF EveryUpdateChanges

\* Those of set_authorized_callers are one per update that changed the list.
LEMMA CallerLogs ==
  ASSUME RoleRuns, receipt.method = "set_authorized_callers", LoopDone
  PROVE  receipt.logs = CallerEvents(receipt.args)
<1> DEFINE args     == receipt.args
           kind     == "authorized_caller_status_changed"
           changing == ChangesUpTo(authorized_callers, args, Len(args))
           Rank(k)  == Cardinality(ChangesUpTo(authorized_callers, args, k))
           Nth(n)   == CHOOSE k \in changing : Rank(k) = n
<1>1. /\ RoleOf(receipt.method) = "authorized_callers" /\ receipt.method \in RoleMethods
      /\ Stored(RoleOf(receipt.method)) = authorized_callers
      /\ EventOf(RoleOf(receipt.method)) = kind
  BY DEF RoleOf, Stored, EventOf, RoleMethods
<1>2. /\ args \in Seq(RoleUpdate) /\ IsReceipt
      /\ receipt.items = RoleItems(receipt.method, args)
      /\ LogsByRank(receipt.logs, kind, authorized_callers, args, Iterations)
  BY <1>1, InputsAssumption DEF RoleRuns
<1>3. Iterations = Len(args)
  BY <1>2 DEF IsReceipt, LoopDone, RoleItems, Iterations
<1>4. /\ receipt.logs \in Seq([event : {kind}, account : Accounts, status : BOOLEAN])
      /\ Len(receipt.logs) = Cardinality(changing)
      /\ \A k \in changing :
           receipt.logs[Rank(k)] = RoleStatusChanged(kind, args[k].account, args[k].status)
      /\ \A n \in 1 .. Len(receipt.logs) : \E k \in changing : Rank(k) = n
  BY <1>2, <1>3 DEF LogsByRank
<1>5. ASSUME NEW n \in 1 .. Cardinality(changing)
      PROVE  receipt.logs[n] = RoleStatusChanged(kind, args[Nth(n)].account, args[Nth(n)].status)
  <2>1. Nth(n) \in changing /\ Rank(Nth(n)) = n
    BY <1>4
  <2> HIDE DEF Nth
  <2> QED BY <1>4, <2>1
<1>6. CallerEvents(args) = [n \in 1 .. Cardinality(changing) |->
                              RoleStatusChanged(kind, args[Nth(n)].account, args[Nth(n)].status)]
  BY DEF CallerEvents
<1>7. DOMAIN receipt.logs = 1 .. Cardinality(changing)
      /\ receipt.logs = [n \in DOMAIN receipt.logs |-> receipt.logs[n]]
  BY <1>4
<1> QED
  <2> HIDE DEF Nth, changing
  <2> QED BY <1>5, <1>6, <1>7

\* The flush of a role batch is the closed form of its method.
LEMMA ReturnRoleIsAtomic ==
  ASSUME TypeOK, RoleRuns, ReturnRoleBatch
  PROVE  \E caller \in Accounts, deposit \in Deposits, updates \in RoleBatches :
           \/ SetAdmins(caller, deposit, updates)
           \/ SetProducts(caller, deposit, updates)
           \/ SetPriceReporters(caller, deposit, updates)
           \/ SetAuthorizedCallers(caller, deposit, updates)
<1> DEFINE args == receipt.args
           role == RoleOf(receipt.method)
<1>1. /\ LoopDone /\ receipt.method \in RoleMethods
      /\ emitted' = receipt.logs /\ UNCHANGED <<initialized, feeds, flags, owner, now>>
      /\ admin' = FlushedRole("admin") /\ products' = FlushedRole("products")
      /\ price_reporters' = FlushedRole("price_reporters")
      /\ authorized_callers' = FlushedRole("authorized_callers")
  BY DEF ReturnRoleBatch, FlushRoles
<1>2. args \in RoleBatches /\ args # <<>> /\ initialized
  BY <1>1 DEF RoleRuns
<1>3. PICK caller \in Accounts, deposit \in Deposits :
        /\ AssertOneYocto(deposit)
        /\ IF receipt.method \in OwnerMethods THEN caller = owner ELSE caller \in products
  BY <1>1 DEF RoleRuns
<1>4. /\ admin' = IF role = "admin" THEN MembersAfter(admin, args) ELSE admin
      /\ products' = IF role = "products" THEN MembersAfter(products, args) ELSE products
      /\ price_reporters' = IF role = "price_reporters" THEN MembersAfter(price_reporters, args)
                            ELSE price_reporters
      /\ authorized_callers' = IF role = "authorized_callers"
                                 THEN MembersAfter(authorized_callers, args)
                                 ELSE authorized_callers
  BY <1>1, RoleFlush DEF Stored
<1>5. ASSUME receipt.method \in OwnerMethods
      PROVE  /\ OwnerUpdates(caller, deposit, Stored(role), args)
             /\ emitted' = RoleEvents(EventOf(role), args)
  BY <1>1, <1>2, <1>3, <1>5, OwnerLogs DEF OwnerUpdates
<1>6. CASE receipt.method = "set_admins"
  <2>1. role = "admin" /\ Stored("admin") = admin /\ EventOf("admin") = "admin_status_changed"
        /\ receipt.method \in OwnerMethods
    BY <1>6 DEF RoleOf, Stored, EventOf, OwnerMethods
  <2>2. SetAdmins(caller, deposit, args)
    BY <1>1, <1>4, <1>5, <2>1 DEF SetAdmins
  <2> QED BY <1>2, <2>2
<1>7. CASE receipt.method = "set_products"
  <2>1. role = "products" /\ Stored("products") = products
        /\ EventOf("products") = "product_status_changed"
        /\ receipt.method \in OwnerMethods
    BY <1>7 DEF RoleOf, Stored, EventOf, OwnerMethods
  <2>2. SetProducts(caller, deposit, args)
    BY <1>1, <1>4, <1>5, <2>1 DEF SetProducts
  <2> QED BY <1>2, <2>2
<1>8. CASE receipt.method = "set_price_reporters"
  <2>1. role = "price_reporters" /\ Stored("price_reporters") = price_reporters
        /\ EventOf("price_reporters") = "price_reporter_status_changed"
        /\ receipt.method \in OwnerMethods
    BY <1>8 DEF RoleOf, Stored, EventOf, OwnerMethods
  <2>2. SetPriceReporters(caller, deposit, args)
    BY <1>1, <1>4, <1>5, <2>1 DEF SetPriceReporters
  <2> QED BY <1>2, <2>2
<1>9. CASE receipt.method = "set_authorized_callers"
  <2>1. role = "authorized_callers" /\ receipt.method \notin OwnerMethods
    BY <1>9 DEF RoleOf, OwnerMethods
  <2>2. emitted' = CallerEvents(args)
    BY <1>1, <1>9, CallerLogs
  <2>3. caller \in products
    BY <1>3, <2>1
  <2>4. SetAuthorizedCallers(caller, deposit, args)
    BY <1>1, <1>2, <1>3, <1>4, <2>1, <2>2, <2>3 DEF SetAuthorizedCallers
  <2> QED BY <1>2, <2>4
<1> QED BY <1>1, <1>6, <1>7, <1>8, <1>9 DEF RoleMethods, OwnerMethods

-----------------------------------------------------------------------------
(* The loops of new, which are one loop over the four lists                *)

AllRoles == {"admin", "products", "price_reporters", "authorized_callers"}

ListOf(args, role) ==
  CASE role = "admin"              -> args.admins
    [] role = "products"           -> args.products
    [] role = "price_reporters"    -> args.price_reporters
    [] role = "authorized_callers" -> args.authorized_callers

\* How many items stand before those of a role.
Offset(args, role) ==
  CASE role = "admin"              -> 0
    [] role = "products"           -> Len(args.admins)
    [] role = "price_reporters"    -> Len(args.admins) + Len(args.products)
    [] role = "authorized_callers" -> Len(args.admins) + Len(args.products)
                                        + Len(args.price_reporters)

StrictInsert == [role : AllRoles, strict : {TRUE}, account : Accounts, status : {TRUE}]

\* Where the items of new stand.
LEMMA NewItemsShape ==
  ASSUME NEW args \in NewArgs
  PROVE  /\ NewItems(args) \in Seq(StrictInsert)
         /\ Len(NewItems(args)) \in Nat
         /\ Len(NewItems(args)) = Len(args.admins) + Len(args.products)
                                    + Len(args.price_reporters) + Len(args.authorized_callers)
         /\ DOMAIN NewItems(args) = 1 .. Len(NewItems(args))
         /\ \A role \in AllRoles : Offset(args, role) \in Nat
         /\ \A role \in AllRoles : \A j \in 1 .. Len(ListOf(args, role)) :
              /\ Offset(args, role) + j \in 1 .. Len(NewItems(args))
              /\ NewItems(args)[Offset(args, role) + j] =
                   RoleItem(role, TRUE, ListOf(args, role)[j], TRUE)
         /\ \A i \in 1 .. Len(NewItems(args)) :
              \E role \in AllRoles : i - Offset(args, role) \in 1 .. Len(ListOf(args, role))
<1> DEFINE S == StrictInsert
           p == Inserts("admin", args.admins)
           q == Inserts("products", args.products)
           r == Inserts("price_reporters", args.price_reporters)
           t == Inserts("authorized_callers", args.authorized_callers)
           items == p \o q \o r \o t
<1>1. ASSUME NEW role \in AllRoles, NEW list \in Seq(Accounts)
      PROVE  /\ Inserts(role, list) \in Seq(S)
             /\ Len(Inserts(role, list)) = Len(list)
             /\ Len(list) \in Nat
             /\ \A j \in 1 .. Len(list) :
                  Inserts(role, list)[j] = RoleItem(role, TRUE, list[j], TRUE)
  <2>1. \A j \in 1 .. Len(list) : RoleItem(role, TRUE, list[j], TRUE) \in S
    BY DEF RoleItem, StrictInsert
  <2>2. DOMAIN list = 1 .. Len(list) /\ Len(list) \in Nat
    OBVIOUS
  <2>3. Inserts(role, list) = [j \in 1 .. Len(list) |-> RoleItem(role, TRUE, list[j], TRUE)]
    BY <2>2 DEF Inserts
  <2>4. ASSUME NEW s, s = Inserts(role, list)
        PROVE  s \in Seq(S) /\ Len(s) = Len(list)
               /\ \A j \in 1 .. Len(list) : s[j] = RoleItem(role, TRUE, list[j], TRUE)
    <3> HIDE DEF S
    <3>1. /\ s \in [1 .. Len(list) -> S]
          /\ \A j \in 1 .. Len(list) : s[j] = RoleItem(role, TRUE, list[j], TRUE)
      BY <2>1, <2>3, <2>4
    <3>2. DOMAIN s = 1 .. Len(list) /\ s \in Seq(S)
      BY <2>2, <3>1, SeqDef
    <3>3. Len(s) = Len(list)
      BY <2>2, <3>2
    <3> QED BY <3>1, <3>2, <3>3
  <2> QED BY <2>2, <2>4
<1>2. /\ args.admins \in Seq(Accounts) /\ args.products \in Seq(Accounts)
      /\ args.price_reporters \in Seq(Accounts) /\ args.authorized_callers \in Seq(Accounts)
  BY DEF NewArgs
<1>3. /\ {"admin", "products", "price_reporters", "authorized_callers"} = AllRoles
  BY DEF AllRoles
<1>4. /\ p \in Seq(S) /\ Len(p) = Len(args.admins)
      /\ Len(args.admins) \in Nat
      /\ \A j \in 1 .. Len(args.admins) : p[j] = RoleItem("admin", TRUE, args.admins[j], TRUE)
  BY <1>1, <1>2, <1>3
<1>5. /\ q \in Seq(S) /\ Len(q) = Len(args.products)
      /\ Len(args.products) \in Nat
      /\ \A j \in 1 .. Len(args.products) :
           q[j] = RoleItem("products", TRUE, args.products[j], TRUE)
  BY <1>1, <1>2, <1>3
<1>6. /\ r \in Seq(S) /\ Len(r) = Len(args.price_reporters)
      /\ Len(args.price_reporters) \in Nat
      /\ \A j \in 1 .. Len(args.price_reporters) :
           r[j] = RoleItem("price_reporters", TRUE, args.price_reporters[j], TRUE)
  BY <1>1, <1>2, <1>3
<1>7. /\ t \in Seq(S) /\ Len(t) = Len(args.authorized_callers)
      /\ Len(args.authorized_callers) \in Nat
      /\ \A j \in 1 .. Len(args.authorized_callers) :
           t[j] = RoleItem("authorized_callers", TRUE, args.authorized_callers[j], TRUE)
  BY <1>1, <1>2, <1>3
<1>8. NewItems(args) = items
  BY DEF NewItems
<1> HIDE DEF S, p, q, r, t
<1>9. /\ items \in Seq(S)
      /\ Len(items) = Len(p) + Len(q) + Len(r) + Len(t)
      /\ \A i \in 1 .. Len(p) : items[i] = p[i]
      /\ \A i \in 1 .. Len(q) : items[Len(p) + i] = q[i]
      /\ \A i \in 1 .. Len(r) : items[Len(p) + Len(q) + i] = r[i]
      /\ \A i \in 1 .. Len(t) : items[Len(p) + Len(q) + Len(r) + i] = t[i]
  <2>1. p \in Seq(S) /\ q \in Seq(S) /\ r \in Seq(S) /\ t \in Seq(S)
    BY <1>4, <1>5, <1>6, <1>7
  <2>2. PICK all : all = items
    OBVIOUS
  <2>3. /\ all \in Seq(S) /\ Len(all) = Len(p) + Len(q) + Len(r) + Len(t)
        /\ \A i \in 1 .. Len(p) : all[i] = p[i]
        /\ \A i \in 1 .. Len(q) : all[Len(p) + i] = q[i]
        /\ \A i \in 1 .. Len(r) : all[Len(p) + Len(q) + i] = r[i]
        /\ \A i \in 1 .. Len(t) : all[Len(p) + Len(q) + Len(r) + i] = t[i]
    BY <2>1, <2>2, FourLists
  <2> HIDE DEF items
  <2> QED BY <2>2, <2>3
<1> HIDE DEF items
<1>10. /\ Len(p) \in Nat /\ Len(q) \in Nat /\ Len(r) \in Nat /\ Len(t) \in Nat
       /\ Len(items) = Len(p) + Len(q) + Len(r) + Len(t)
       /\ Len(items) \in Nat /\ DOMAIN items = 1 .. Len(items)
  <2>1. Len(p) \in Nat /\ Len(q) \in Nat /\ Len(r) \in Nat /\ Len(t) \in Nat
    BY <1>4, <1>5, <1>6, <1>7
  <2>2. items \in Seq(S) /\ Len(items) = Len(p) + Len(q) + Len(r) + Len(t)
    BY <1>9
  <2> QED BY <2>1, <2>2
<1>11. /\ Offset(args, "admin") = 0 /\ ListOf(args, "admin") = args.admins
       /\ Offset(args, "products") = Len(p) /\ ListOf(args, "products") = args.products
       /\ Offset(args, "price_reporters") = Len(p) + Len(q)
       /\ ListOf(args, "price_reporters") = args.price_reporters
       /\ Offset(args, "authorized_callers") = Len(p) + Len(q) + Len(r)
       /\ ListOf(args, "authorized_callers") = args.authorized_callers
  BY <1>4, <1>5, <1>6, <1>7 DEF ListOf, Offset
<1>12. ASSUME NEW role \in AllRoles, NEW j \in 1 .. Len(ListOf(args, role))
       PROVE  /\ Offset(args, role) + j \in 1 .. Len(items)
              /\ items[Offset(args, role) + j] = RoleItem(role, TRUE, ListOf(args, role)[j], TRUE)
  <2>1. CASE role = "admin"
    <3>1. Offset(args, role) = 0 /\ ListOf(args, role) = args.admins /\ j \in 1 .. Len(p)
      BY <1>4, <1>11, <2>1
    <3>2. Offset(args, role) + j = j /\ j \in 1 .. Len(items)
      BY <1>10, <3>1
    <3> QED BY <1>4, <1>9, <2>1, <3>1, <3>2, Zenon
  <2>2. CASE role = "products"
    <3>1. Offset(args, role) = Len(p) /\ ListOf(args, role) = args.products /\ j \in 1 .. Len(q)
      BY <1>5, <1>11, <2>2
    <3>2. Offset(args, role) + j \in 1 .. Len(items)
      BY <1>10, <3>1
    <3> QED BY <1>5, <1>9, <2>2, <3>1, <3>2, Zenon
  <2>3. CASE role = "price_reporters"
    <3>1. /\ Offset(args, role) = Len(p) + Len(q) /\ ListOf(args, role) = args.price_reporters
          /\ j \in 1 .. Len(r)
      BY <1>6, <1>11, <2>3
    <3>2. Offset(args, role) + j \in 1 .. Len(items)
      BY <1>10, <3>1
    <3> QED BY <1>6, <1>9, <2>3, <3>1, <3>2, Zenon
  <2>4. CASE role = "authorized_callers"
    <3>1. /\ Offset(args, role) = Len(p) + Len(q) + Len(r)
          /\ ListOf(args, role) = args.authorized_callers
          /\ j \in 1 .. Len(t)
      BY <1>7, <1>11, <2>4
    <3>2. Offset(args, role) + j \in 1 .. Len(items)
      BY <1>10, <3>1
    <3> QED BY <1>7, <1>9, <2>4, <3>1, <3>2, Zenon
  <2> QED BY <2>1, <2>2, <2>3, <2>4 DEF AllRoles
<1>13. ASSUME NEW i \in 1 .. Len(items)
       PROVE  \E role \in AllRoles : i - Offset(args, role) \in 1 .. Len(ListOf(args, role))
  <2>1. \/ i - 0 \in 1 .. Len(p)
        \/ i - Len(p) \in 1 .. Len(q)
        \/ i - (Len(p) + Len(q)) \in 1 .. Len(r)
        \/ i - (Len(p) + Len(q) + Len(r)) \in 1 .. Len(t)
    BY <1>10
  <2>2. /\ Len(p) = Len(args.admins) /\ Len(q) = Len(args.products)
        /\ Len(r) = Len(args.price_reporters) /\ Len(t) = Len(args.authorized_callers)
    BY <1>4, <1>5, <1>6, <1>7
  <2> QED BY <1>3, <1>11, <2>1, <2>2, Zenon
<1>14. Len(items) = Len(args.admins) + Len(args.products)
                      + Len(args.price_reporters) + Len(args.authorized_callers)
  <2>1. /\ Len(p) = Len(args.admins) /\ Len(q) = Len(args.products)
        /\ Len(r) = Len(args.price_reporters) /\ Len(t) = Len(args.authorized_callers)
    BY <1>4, <1>5, <1>6, <1>7
  <2> QED BY <1>10, <2>1
<1>15. items \in Seq(StrictInsert)
  BY <1>9 DEF S
<1>16. \A role \in AllRoles : Offset(args, role) \in Nat
  BY <1>10, <1>11 DEF AllRoles
<1> QED BY <1>8, <1>10, <1>12, <1>13, <1>14, <1>15, <1>16

\* Which entry of which list an item comes from.
LEMMA ItemSource ==
  ASSUME NEW args \in NewArgs, NEW i \in 1 .. Len(NewItems(args))
  PROVE  \E role \in AllRoles : \E j \in 1 .. Len(ListOf(args, role)) :
           /\ Offset(args, role) + j = i
           /\ NewItems(args)[i].role = role
           /\ NewItems(args)[i].account = ListOf(args, role)[j]
<1>1. PICK role \in AllRoles : i - Offset(args, role) \in 1 .. Len(ListOf(args, role))
  BY NewItemsShape
<1>2. PICK j : j = i - Offset(args, role)
  OBVIOUS
<1>3. Offset(args, role) + j = i
  <2>1. Offset(args, role) \in Nat
    BY NewItemsShape
  <2> QED BY <1>2, <2>1
<1>4. NewItems(args)[i] = RoleItem(role, TRUE, ListOf(args, role)[j], TRUE)
  BY <1>1, <1>2, <1>3, NewItemsShape
<1>5. NewItems(args)[i].role = role /\ NewItems(args)[i].account = ListOf(args, role)[j]
  BY <1>4 DEF RoleItem
<1> QED BY <1>1, <1>2, <1>3, <1>5

\* The logs of new: two of its own, then one per item.
NewLogs(args) ==
  <<OwnershipTransferred(NoAccount, args.owner),
    FlagStatusChanged("open_read_status_changed", args.open_read_enabled)>>
   \o Members("admin_status_changed", args.admins)
   \o Members("product_status_changed", args.products)
   \o Members("price_reporter_status_changed", args.price_reporters)
   \o Members("authorized_caller_status_changed", args.authorized_callers)

NewEvents(args) ==
  {OwnershipTransferred(NoAccount, args.owner),
   FlagStatusChanged("open_read_status_changed", args.open_read_enabled)}
   \cup [event : {EventOf(role) : role \in AllRoles}, account : Accounts, status : {TRUE}]

\* The logs of one role list: one for each account, in order.
LEMMA MembersShape ==
  ASSUME NEW args, NEW role \in AllRoles, NEW list \in Seq(Accounts)
  PROVE  /\ Members(EventOf(role), list) \in Seq(NewEvents(args))
         /\ Len(Members(EventOf(role), list)) = Len(list)
         /\ \A j \in 1 .. Len(list) :
              Members(EventOf(role), list)[j] = RoleStatusChanged(EventOf(role), list[j], TRUE)
<1>1. DOMAIN list = 1 .. Len(list) /\ Len(list) \in Nat
  OBVIOUS
<1>2. PICK logs : logs = Members(EventOf(role), list)
  OBVIOUS
<1>3. \A j \in 1 .. Len(list) : RoleStatusChanged(EventOf(role), list[j], TRUE) \in NewEvents(args)
  <2> SUFFICES ASSUME NEW j \in 1 .. Len(list)
               PROVE  RoleStatusChanged(EventOf(role), list[j], TRUE) \in NewEvents(args)
    OBVIOUS
  <2>1. list[j] \in Accounts
    BY <1>1
  <2>2. RoleStatusChanged(EventOf(role), list[j], TRUE)
          \in [event : {EventOf(r) : r \in AllRoles}, account : Accounts, status : {TRUE}]
    BY <2>1 DEF RoleStatusChanged
  <2> QED BY <2>2 DEF NewEvents
<1>4. logs = [j \in 1 .. Len(list) |-> RoleStatusChanged(EventOf(role), list[j], TRUE)]
  BY <1>1, <1>2 DEF Members
<1>5. /\ logs \in [1 .. Len(list) -> NewEvents(args)] /\ DOMAIN logs = 1 .. Len(list)
      /\ \A j \in 1 .. Len(list) : logs[j] = RoleStatusChanged(EventOf(role), list[j], TRUE)
  BY <1>3, <1>4
<1>6. logs \in Seq(NewEvents(args))
  BY <1>1, <1>5, SeqDef
<1>7. Len(logs) = Len(list)
  BY <1>1, <1>5, <1>6
<1> QED BY <1>2, <1>5, <1>6, <1>7

\* The logs of new: two of its own, then one for each item.
LEMMA NewLogsShape ==
  ASSUME NEW args \in NewArgs
  PROVE  /\ NewLogs(args) \in Seq(NewEvents(args))
         /\ Len(NewLogs(args)) = 2 + Len(NewItems(args))
         /\ NewLogs(args)[1] = OwnershipTransferred(NoAccount, args.owner)
         /\ NewLogs(args)[2] = FlagStatusChanged("open_read_status_changed", args.open_read_enabled)
         /\ \A i \in 1 .. Len(NewItems(args)) :
              NewLogs(args)[2 + i] =
                RoleStatusChanged(EventOf(NewItems(args)[i].role), NewItems(args)[i].account, TRUE)
<1> DEFINE own == <<OwnershipTransferred(NoAccount, args.owner),
                    FlagStatusChanged("open_read_status_changed", args.open_read_enabled)>>
           S   == NewEvents(args)
<1>1. PICK p, q, r, t :
        /\ p = Members(EventOf("admin"), args.admins)
        /\ q = Members(EventOf("products"), args.products)
        /\ r = Members(EventOf("price_reporters"), args.price_reporters)
        /\ t = Members(EventOf("authorized_callers"), args.authorized_callers)
  OBVIOUS
<1>2. /\ args.admins \in Seq(Accounts) /\ args.products \in Seq(Accounts)
      /\ args.price_reporters \in Seq(Accounts) /\ args.authorized_callers \in Seq(Accounts)
  BY DEF NewArgs
<1>3. /\ "admin" \in AllRoles /\ "products" \in AllRoles /\ "price_reporters" \in AllRoles
      /\ "authorized_callers" \in AllRoles
  BY DEF AllRoles
<1>4. /\ p \in Seq(S) /\ Len(p) = Len(args.admins)
      /\ \A j \in 1 .. Len(p) : p[j] = RoleStatusChanged(EventOf("admin"), args.admins[j], TRUE)
  BY <1>1, <1>2, <1>3, MembersShape
<1>5. /\ q \in Seq(S) /\ Len(q) = Len(args.products)
      /\ \A j \in 1 .. Len(q) : q[j] = RoleStatusChanged(EventOf("products"), args.products[j], TRUE)
  BY <1>1, <1>2, <1>3, MembersShape
<1>6. /\ r \in Seq(S) /\ Len(r) = Len(args.price_reporters)
      /\ \A j \in 1 .. Len(r) :
           r[j] = RoleStatusChanged(EventOf("price_reporters"), args.price_reporters[j], TRUE)
  BY <1>1, <1>2, <1>3, MembersShape
<1>7. /\ t \in Seq(S) /\ Len(t) = Len(args.authorized_callers)
      /\ \A j \in 1 .. Len(t) :
           t[j] = RoleStatusChanged(EventOf("authorized_callers"), args.authorized_callers[j], TRUE)
  BY <1>1, <1>2, <1>3, MembersShape
<1>8. own \in Seq(S) /\ Len(own) = 2
  BY DEF NewEvents
<1>9. PICK first : first = own \o p
  OBVIOUS
<1>10. /\ first \in Seq(S) /\ Len(first) = 2 + Len(p)
       /\ first[1] = OwnershipTransferred(NoAccount, args.owner)
       /\ first[2] = FlagStatusChanged("open_read_status_changed", args.open_read_enabled)
       /\ \A j \in 1 .. Len(p) : first[2 + j] = p[j]
  BY <1>4, <1>8, <1>9
<1>11. PICK all : all = first \o q \o r \o t
  OBVIOUS
<1>12. all = NewLogs(args)
  BY <1>1, <1>9, <1>11 DEF NewLogs, EventOf
<1>13. /\ all \in Seq(S) /\ Len(all) = Len(first) + Len(q) + Len(r) + Len(t)
       /\ \A i \in 1 .. Len(first) : all[i] = first[i]
       /\ \A i \in 1 .. Len(q) : all[Len(first) + i] = q[i]
       /\ \A i \in 1 .. Len(r) : all[Len(first) + Len(q) + i] = r[i]
       /\ \A i \in 1 .. Len(t) : all[Len(first) + Len(q) + Len(r) + i] = t[i]
  <2>1. first \in Seq(S) /\ q \in Seq(S) /\ r \in Seq(S) /\ t \in Seq(S)
    BY <1>5, <1>6, <1>7, <1>10
  <2> HIDE DEF S
  <2> QED BY <1>11, <2>1, FourLists
<1>14. /\ Len(p) \in Nat /\ Len(q) \in Nat /\ Len(r) \in Nat /\ Len(t) \in Nat
       /\ Len(first) = 2 + Len(p)
       /\ Len(all) = Len(first) + Len(q) + Len(r) + Len(t)
  BY <1>4, <1>5, <1>6, <1>7, <1>10, <1>13
<1>15. Len(NewItems(args)) = Len(p) + Len(q) + Len(r) + Len(t)
  <2>1. /\ Len(p) = Len(args.admins) /\ Len(q) = Len(args.products)
        /\ Len(r) = Len(args.price_reporters) /\ Len(t) = Len(args.authorized_callers)
    BY <1>4, <1>5, <1>6, <1>7
  <2>2. Len(NewItems(args)) = Len(args.admins) + Len(args.products)
                                + Len(args.price_reporters) + Len(args.authorized_callers)
    BY NewItemsShape
  <2> QED BY <2>1, <2>2
<1>16. /\ Offset(args, "admin") = 0 /\ ListOf(args, "admin") = args.admins
       /\ Offset(args, "products") = Len(p) /\ ListOf(args, "products") = args.products
       /\ Offset(args, "price_reporters") = Len(p) + Len(q)
       /\ ListOf(args, "price_reporters") = args.price_reporters
       /\ Offset(args, "authorized_callers") = Len(p) + Len(q) + Len(r)
       /\ ListOf(args, "authorized_callers") = args.authorized_callers
  BY <1>4, <1>5, <1>6, <1>7 DEF ListOf, Offset
<1>17. ASSUME NEW role \in AllRoles, NEW j \in 1 .. Len(ListOf(args, role))
       PROVE  /\ Offset(args, role) \in Nat /\ j \in Nat
              /\ all[2 + Offset(args, role) + j] =
                   RoleStatusChanged(EventOf(role), ListOf(args, role)[j], TRUE)
  <2>1. CASE role = "admin"
    <3>1. Offset(args, role) = 0 /\ ListOf(args, role) = args.admins /\ j \in 1 .. Len(p)
      BY <1>4, <1>16, <2>1
    <3>2. 2 + Offset(args, role) + j = 2 + j /\ 2 + j \in 1 .. Len(first)
      BY <1>14, <3>1
    <3>3. all[2 + j] = first[2 + j]
      BY <1>13, <3>2
    <3>4. first[2 + j] = p[j] /\ p[j] = RoleStatusChanged(EventOf("admin"), args.admins[j], TRUE)
      BY <1>4, <1>10, <3>1
    <3>5. Offset(args, role) \in Nat /\ j \in Nat
      BY <1>14, <3>1
    <3> QED BY <2>1, <3>1, <3>2, <3>3, <3>4, <3>5, Zenon
  <2>2. CASE role = "products"
    <3>1. Offset(args, role) = Len(p) /\ ListOf(args, role) = args.products /\ j \in 1 .. Len(q)
      BY <1>5, <1>16, <2>2
    <3>2. 2 + Offset(args, role) + j = Len(first) + j
      BY <1>14, <3>1
    <3>3. all[Len(first) + j] = q[j]
      BY <1>13, <3>1
    <3>4. q[j] = RoleStatusChanged(EventOf("products"), args.products[j], TRUE)
      BY <1>5, <3>1
    <3>5. Offset(args, role) \in Nat /\ j \in Nat
      BY <1>14, <3>1
    <3> QED BY <2>2, <3>1, <3>2, <3>3, <3>4, <3>5, Zenon
  <2>3. CASE role = "price_reporters"
    <3>1. /\ Offset(args, role) = Len(p) + Len(q) /\ ListOf(args, role) = args.price_reporters
          /\ j \in 1 .. Len(r)
      BY <1>6, <1>16, <2>3
    <3>2. 2 + Offset(args, role) + j = Len(first) + Len(q) + j
      BY <1>14, <3>1
    <3>3. all[Len(first) + Len(q) + j] = r[j]
      BY <1>13, <3>1
    <3>4. r[j] = RoleStatusChanged(EventOf("price_reporters"), args.price_reporters[j], TRUE)
      BY <1>6, <3>1
    <3>5. Offset(args, role) \in Nat /\ j \in Nat
      BY <1>14, <3>1
    <3> QED BY <2>3, <3>1, <3>2, <3>3, <3>4, <3>5, Zenon
  <2>4. CASE role = "authorized_callers"
    <3>1. /\ Offset(args, role) = Len(p) + Len(q) + Len(r)
          /\ ListOf(args, role) = args.authorized_callers
          /\ j \in 1 .. Len(t)
      BY <1>7, <1>16, <2>4
    <3>2. 2 + Offset(args, role) + j = Len(first) + Len(q) + Len(r) + j
      BY <1>14, <3>1
    <3>3. all[Len(first) + Len(q) + Len(r) + j] = t[j]
      BY <1>13, <3>1
    <3>4. t[j] = RoleStatusChanged(EventOf("authorized_callers"), args.authorized_callers[j], TRUE)
      BY <1>7, <3>1
    <3>5. Offset(args, role) \in Nat /\ j \in Nat
      BY <1>14, <3>1
    <3> QED BY <2>4, <3>1, <3>2, <3>3, <3>4, <3>5, Zenon
  <2> QED BY <2>1, <2>2, <2>3, <2>4 DEF AllRoles
<1>18. ASSUME NEW i \in 1 .. Len(NewItems(args))
       PROVE  all[2 + i] = RoleStatusChanged(EventOf(NewItems(args)[i].role),
                                             NewItems(args)[i].account, TRUE)
  <2>1. PICK role \in AllRoles : \E j \in 1 .. Len(ListOf(args, role)) :
          /\ Offset(args, role) + j = i
          /\ NewItems(args)[i].role = role
          /\ NewItems(args)[i].account = ListOf(args, role)[j]
    BY ItemSource
  <2>2. PICK j \in 1 .. Len(ListOf(args, role)) :
          /\ Offset(args, role) + j = i
          /\ NewItems(args)[i].role = role
          /\ NewItems(args)[i].account = ListOf(args, role)[j]
    BY <2>1
  <2>3. /\ Offset(args, role) \in Nat /\ j \in Nat
        /\ all[2 + Offset(args, role) + j] =
             RoleStatusChanged(EventOf(role), ListOf(args, role)[j], TRUE)
    BY <1>17
  <2>4. 2 + Offset(args, role) + j = 2 + i
    BY <2>2, <2>3
  <2> QED BY <2>2, <2>3, <2>4, Zenon
<1>19. /\ all[1] = OwnershipTransferred(NoAccount, args.owner)
       /\ all[2] = FlagStatusChanged("open_read_status_changed", args.open_read_enabled)
       /\ Len(all) = 2 + Len(NewItems(args))
  BY <1>10, <1>13, <1>14, <1>15
<1> QED BY <1>12, <1>13, <1>18, <1>19

\* What new holds in its loop: the cache is the items so far, all of them
\* different, and each has its log.
NewRuns ==
  receipt.method = "new" =>
    /\ IsReceipt
    /\ receipt.args \in InitArgs
    /\ receipt.items = NewItems(receipt.args)
    /\ ~initialized
    /\ \E deposit \in Deposits : NotPayable(deposit)
    /\ receipt.args.open_read_enabled => receipt.args.authorized_callers = <<>>
    /\ DOMAIN receipt.cache = {<<receipt.items[j].role, receipt.items[j].account>> : j \in 1 .. Iterations}
    /\ \A key \in DOMAIN receipt.cache : receipt.cache[key] = TRUE
    /\ \A i, j \in 1 .. Iterations :
         receipt.items[i].role = receipt.items[j].role
           /\ receipt.items[i].account = receipt.items[j].account => i = j
    /\ receipt.logs \in Seq(NewEvents(receipt.args))
    /\ Len(receipt.logs) = 2 + Iterations
    /\ \A i \in 1 .. 2 + Iterations : receipt.logs[i] = NewLogs(receipt.args)[i]

\* The requirements before the loops of new establish what is known of them.
LEMMA BeginNewStep ==
  ASSUME NEW args \in InitArgs, NEW deposit \in Deposits, BeginNew(args, deposit)
  PROVE  NewRuns'
<1> DEFINE own == <<OwnershipTransferred(NoAccount, args.owner),
                    FlagStatusChanged("open_read_status_changed", args.open_read_enabled)>>
<1>1. receipt' = [method |-> "new", args |-> args, items |-> NewItems(args), next |-> 1,
                  cache |-> <<>>, logs |-> own]
  BY DEF BeginNew, Started
<1>2. args \in NewArgs
  BY InputsAssumption
<1>3. Len(NewItems(args)) \in Nat
  BY <1>2, NewItemsShape
<1>4. /\ receipt'.method = "new" /\ receipt'.args = args /\ receipt'.items = NewItems(args)
      /\ receipt'.next = 1 /\ receipt'.cache = <<>> /\ receipt'.logs = own
      /\ IsReceipt'
  <2> HIDE DEF own
  <2> QED BY <1>1, <1>3 DEF IsReceipt
<1>5. /\ UNCHANGED vars /\ ~initialized /\ NotPayable(deposit)
      /\ args.open_read_enabled => args.authorized_callers = <<>>
  BY DEF BeginNew, NotInitialized
<1>6. /\ own \in Seq(NewEvents(args)) /\ Len(own) = 2
      /\ \A i \in 1 .. 2 : own[i] = NewLogs(args)[i]
  <2>1. /\ NewLogs(args)[1] = OwnershipTransferred(NoAccount, args.owner)
        /\ NewLogs(args)[2] = FlagStatusChanged("open_read_status_changed", args.open_read_enabled)
    BY <1>2, NewLogsShape
  <2> QED BY <2>1 DEF NewEvents
<1>7. Iterations' = 0 /\ DOMAIN receipt'.cache = {} /\ 1 .. 0 = {} /\ 2 + 0 = 2
  BY <1>4 DEF Iterations
<1>8. ~initialized' /\ (\E d \in Deposits : NotPayable(d))'
  BY <1>5 DEF vars, NotPayable
<1>9. (/\ receipt.logs \in Seq(NewEvents(receipt.args))
       /\ Len(receipt.logs) = 2 + Iterations
       /\ \A i \in 1 .. 2 + Iterations : receipt.logs[i] = NewLogs(receipt.args)[i])'
  BY <1>4, <1>6, <1>7
<1> HIDE DEF own
<1> QED BY <1>4, <1>5, <1>7, <1>8, <1>9 DEF NewRuns

\* A role is granted twice only if its cache entry is there.
LEMMA NewItemChanges ==
  ASSUME Fresh, NewRuns, receipt.method = "new", InLoop
  PROVE  /\ receipt.args \in NewArgs
         /\ receipt.next \in 1 .. Len(receipt.items)
         /\ Item = receipt.items[receipt.next]
         /\ Item.role \in AllRoles /\ Item.status = TRUE /\ Item.strict = TRUE
         /\ ItemChanges <=> <<Item.role, Item.account>> \notin DOMAIN receipt.cache
<1>1. receipt.args \in NewArgs /\ IsReceipt /\ receipt.items = NewItems(receipt.args)
  BY InputsAssumption DEF NewRuns
<1>2. receipt.next \in 1 .. Len(receipt.items) /\ Item = receipt.items[receipt.next]
  BY <1>1 DEF IsReceipt, InLoop, Item
<1>3. receipt.items \in Seq(StrictInsert)
  BY <1>1, NewItemsShape
<1>4. Item \in StrictInsert
  BY <1>2, <1>3
<1>5. Item.role \in AllRoles /\ Item.status = TRUE /\ Item.strict = TRUE
  BY <1>4 DEF StrictInsert
<1>6. CASE <<Item.role, Item.account>> \in DOMAIN receipt.cache
  <2>1. receipt.cache[<<Item.role, Item.account>>] = TRUE
    BY <1>6 DEF NewRuns
  <2>2. CurrentlyHas(Item.role, Item.account) = TRUE
    BY <1>6, <2>1, Zenon DEF CurrentlyHas, CacheHolds
  <2> QED BY <1>1, <1>2, <1>5, <1>6, <2>2, Zenon DEF ItemChanges
<1>7. CASE <<Item.role, Item.account>> \notin DOMAIN receipt.cache
  <2>1. ~initialized
    BY DEF NewRuns
  <2>2. Stored(Item.role) = {}
    BY <1>5, <2>1 DEF Fresh, Stored, AllRoles
  <2>3. CurrentlyHas(Item.role, Item.account) = FALSE
    BY <1>7, <2>2 DEF CurrentlyHas, CacheHolds
  <2> QED BY <1>1, <1>2, <1>5, <1>7, <2>3, Zenon DEF ItemChanges
<1> QED BY <1>6, <1>7

\* An iteration of the loops of new keeps it.
LEMMA NewStep ==
  ASSUME Fresh, NewRuns, receipt.method = "new", IterateRole
  PROVE  NewRuns'
<1> DEFINE args  == receipt.args
           items == receipt.items
           k     == receipt.next
           log   == RoleStatusChanged(EventOf(items[k].role), items[k].account, TRUE)
<1>1. /\ InLoop /\ UNCHANGED vars /\ ItemChanges
      /\ receipt' = Advanced(Cached(<<Item.role, Item.account>>, Item.status),
                             Append(receipt.logs, RoleStatusChanged(EventOf(Item.role), Item.account,
                                                                    Item.status)))
  BY DEF IterateRole
<1>2. /\ args \in NewArgs /\ k \in 1 .. Len(items) /\ Item = items[k] /\ Item.status = TRUE
      /\ <<items[k].role, items[k].account>> \notin DOMAIN receipt.cache
  BY <1>1, NewItemChanges
<1>3. /\ IsReceipt /\ items = NewItems(args) /\ Len(items) \in Nat
      /\ receipt.logs \in Seq(NewEvents(args)) /\ Len(receipt.logs) = 2 + (k - 1)
  BY DEF NewRuns, IsReceipt, Iterations
<1>4. /\ receipt'.method = "new" /\ receipt'.args = args /\ receipt'.items = items
      /\ receipt'.next = k + 1
      /\ receipt'.cache = Cached(<<items[k].role, items[k].account>>, TRUE)
      /\ receipt'.logs = Append(receipt.logs, log)
      /\ IsReceipt'
  <2>1. receipt' = [method |-> "new", args |-> args, items |-> items, next |-> k + 1,
                    cache |-> Cached(<<items[k].role, items[k].account>>, TRUE),
                    logs |-> Append(receipt.logs, log)]
    BY <1>1, <1>2 DEF Advanced
  <2> HIDE DEF log
  <2> QED BY <1>2, <1>3, <2>1 DEF IsReceipt
<1>5. Iterations' = k /\ Iterations = k - 1
  BY <1>2, <1>3, <1>4 DEF Iterations
<1>6. /\ DOMAIN receipt.cache = {<<items[j].role, items[j].account>> : j \in 1 .. k - 1}
      /\ \A key \in DOMAIN receipt.cache : receipt.cache[key] = TRUE
      /\ \A i, j \in 1 .. k - 1 :
           items[i].role = items[j].role /\ items[i].account = items[j].account => i = j
      /\ \A i \in 1 .. 2 + (k - 1) : receipt.logs[i] = NewLogs(args)[i]
  BY <1>5 DEF NewRuns
<1>7. /\ DOMAIN receipt'.cache = {<<items[j].role, items[j].account>> : j \in 1 .. k}
      /\ \A key \in DOMAIN receipt'.cache : receipt'.cache[key] = TRUE
  <2>1. 1 .. k = (1 .. k - 1) \cup {k}
    BY <1>2, <1>3
  <2>2. /\ DOMAIN receipt'.cache = {<<items[k].role, items[k].account>>} \cup DOMAIN receipt.cache
        /\ receipt'.cache[<<items[k].role, items[k].account>>] = TRUE
        /\ \A key \in DOMAIN receipt.cache :
             key # <<items[k].role, items[k].account>> => receipt'.cache[key] = receipt.cache[key]
    <3>1. PICK key : key = <<items[k].role, items[k].account>>
      OBVIOUS
    <3>2. receipt'.cache = Cached(key, TRUE)
      BY <1>4, <3>1
    <3>3. /\ DOMAIN Cached(key, TRUE) = {key} \cup DOMAIN receipt.cache
          /\ Cached(key, TRUE)[key] = TRUE
          /\ \A other \in DOMAIN receipt.cache :
               other # key => Cached(key, TRUE)[other] = receipt.cache[other]
      BY DEF Cached
    <3> QED BY <3>1, <3>2, <3>3, Zenon
  <2>3. DOMAIN receipt'.cache = {<<items[j].role, items[j].account>> : j \in 1 .. k}
    BY <1>6, <2>1, <2>2
  <2>4. \A key \in DOMAIN receipt'.cache : receipt'.cache[key] = TRUE
    BY <1>6, <2>2, Zenon
  <2> QED BY <2>3, <2>4
<1>8. ASSUME NEW i \in 1 .. k, NEW j \in 1 .. k,
             items[i].role = items[j].role, items[i].account = items[j].account
      PROVE  i = j
  <2>1. \A n \in 1 .. k - 1 : <<items[n].role, items[n].account>> \in DOMAIN receipt.cache
    BY <1>6
  <2>2. CASE i \in 1 .. k - 1 /\ j \in 1 .. k - 1
    BY <1>6, <1>8, <2>2
  <2>3. CASE i = k /\ j \in 1 .. k - 1
    BY <1>2, <1>8, <2>1, <2>3
  <2>4. CASE j = k /\ i \in 1 .. k - 1
    BY <1>2, <1>8, <2>1, <2>4
  <2> QED BY <1>2, <1>3, <2>2, <2>3, <2>4
<1>9. log \in NewEvents(args)
  <2>1. items[k] \in StrictInsert
    <3>1. items \in Seq(StrictInsert)
      BY <1>2, <1>3, NewItemsShape
    <3> QED BY <1>2, <3>1
  <2> QED BY <2>1 DEF NewEvents, RoleStatusChanged, StrictInsert
<1>10. /\ receipt'.logs \in Seq(NewEvents(args)) /\ Len(receipt'.logs) = 2 + k
       /\ \A i \in 1 .. 2 + k : receipt'.logs[i] = NewLogs(args)[i]
  <2>1. NewLogs(args)[2 + k] = log
    BY <1>2, <1>3, NewLogsShape
  <2>2. /\ Len(receipt.logs) = 1 + k /\ 1 + k \in Nat
        /\ \A i \in 1 .. 1 + k : receipt.logs[i] = NewLogs(args)[i]
    BY <1>2, <1>3, <1>6
  <2> HIDE DEF log
  <2>3. /\ receipt'.logs \in Seq(NewEvents(args)) /\ Len(receipt'.logs) = Len(receipt.logs) + 1
        /\ \A i \in 1 .. Len(receipt.logs) : receipt'.logs[i] = receipt.logs[i]
        /\ receipt'.logs[Len(receipt.logs) + 1] = log
    BY <1>3, <1>4, <1>9, AppendProperties
  <2>4. /\ Len(receipt'.logs) = 2 + k /\ Len(receipt.logs) + 1 = 2 + k
        /\ \A i \in 1 .. 2 + k : i \in 1 .. Len(receipt.logs) \/ i = 2 + k
    BY <1>2, <1>3, <2>2, <2>3
  <2>5. ASSUME NEW i \in 1 .. 2 + k
        PROVE  receipt'.logs[i] = NewLogs(args)[i]
    <3>1. CASE i = 2 + k
      BY <2>1, <2>3, <2>4, <3>1, Zenon
    <3>2. CASE i \in 1 .. Len(receipt.logs)
      BY <2>2, <2>3, <3>2
    <3> QED BY <2>4, <3>1, <3>2
  <2> QED BY <2>3, <2>4, <2>5
<1>11. (/\ receipt.args \in InitArgs /\ ~initialized
        /\ \E deposit \in Deposits : NotPayable(deposit)
        /\ receipt.args.open_read_enabled => receipt.args.authorized_callers = <<>>)'
  BY <1>1, <1>4 DEF NewRuns, vars
<1>12. /\ (receipt.items = NewItems(receipt.args))'
       /\ (DOMAIN receipt.cache =
             {<<receipt.items[j].role, receipt.items[j].account>> : j \in 1 .. Iterations})'
       /\ (\A key \in DOMAIN receipt.cache : receipt.cache[key] = TRUE)'
  <2>1. receipt'.items = NewItems(args)
    BY <1>3, <1>4
  <2>2. (receipt.items = NewItems(receipt.args))'
    BY <1>4, <2>1 DEF NewItems
  <2> QED BY <1>4, <1>5, <1>7, <2>2
<1>13. (\A i, j \in 1 .. Iterations :
          receipt.items[i].role = receipt.items[j].role
            /\ receipt.items[i].account = receipt.items[j].account => i = j)'
  BY <1>4, <1>5, <1>8
<1>14. (/\ receipt.logs \in Seq(NewEvents(receipt.args))
        /\ Len(receipt.logs) = 2 + Iterations
        /\ \A i \in 1 .. 2 + Iterations : receipt.logs[i] = NewLogs(receipt.args)[i])'
  BY <1>4, <1>5, <1>10
<1> QED BY <1>4, <1>11, <1>12, <1>14, <1>13 DEF NewRuns

\* At the end of new a role is the list it was given, which names nobody twice.
LEMMA NewRole ==
  ASSUME Fresh, NewRuns, receipt.method = "new", LoopDone, NEW role \in AllRoles
  PROVE  /\ IsInjective(ListOf(receipt.args, role))
         /\ FlushedRole(role) = ToSet(ListOf(receipt.args, role))
<1> DEFINE args  == receipt.args
           items == receipt.items
           list  == ListOf(receipt.args, role)
           off   == Offset(receipt.args, role)
<1>1. args \in NewArgs /\ IsReceipt /\ items = NewItems(args) /\ ~initialized
  BY InputsAssumption DEF NewRuns
<1>2. Iterations = Len(items) /\ Len(items) \in Nat
  BY <1>1 DEF IsReceipt, LoopDone, Iterations
<1>3. /\ args.admins \in Seq(Accounts) /\ args.products \in Seq(Accounts)
      /\ args.price_reporters \in Seq(Accounts) /\ args.authorized_callers \in Seq(Accounts)
  BY <1>1 DEF NewArgs
<1>4. list \in Seq(Accounts)
  BY <1>3 DEF ListOf, AllRoles
<1>5. DOMAIN list = 1 .. Len(list) /\ Len(list) \in Nat
  BY <1>4
<1>6. off \in Nat
  BY <1>1, NewItemsShape
<1>7. \A j \in 1 .. Len(list) :
        off + j \in 1 .. Len(items) /\ items[off + j] = RoleItem(role, TRUE, list[j], TRUE)
  BY <1>1, NewItemsShape
<1>8. ASSUME NEW j \in 1 .. Len(list)
      PROVE  items[off + j].role = role /\ items[off + j].account = list[j]
  <2>1. items[off + j] = RoleItem(role, TRUE, list[j], TRUE)
    BY <1>7
  <2> QED BY <2>1 DEF RoleItem
<1>9. \A i, j \in 1 .. Len(items) :
        items[i].role = items[j].role /\ items[i].account = items[j].account => i = j
  BY <1>2 DEF NewRuns
<1>10. IsInjective(list)
  <2> SUFFICES ASSUME NEW i \in 1 .. Len(list), NEW j \in 1 .. Len(list), list[i] = list[j]
               PROVE  i = j
    BY <1>5 DEF IsInjective
  <2>1. off + i = off + j
    BY <1>7, <1>8, <1>9
  <2> QED BY <1>5, <1>6, <2>1
<1>11. ASSUME NEW account
       PROVE  <<role, account>> \in DOMAIN receipt.cache <=> \E j \in 1 .. Len(list) : list[j] = account
  <2>1. DOMAIN receipt.cache = {<<items[n].role, items[n].account>> : n \in 1 .. Len(items)}
    BY <1>2 DEF NewRuns
  <2>2. ASSUME NEW j \in 1 .. Len(list), list[j] = account
        PROVE  <<role, account>> \in DOMAIN receipt.cache
    BY <1>7, <1>8, <2>1, <2>2
  <2>3. ASSUME NEW n \in 1 .. Len(items), items[n].role = role, items[n].account = account
        PROVE  \E j \in 1 .. Len(list) : list[j] = account
    <3>1. PICK other \in AllRoles : \E j \in 1 .. Len(ListOf(args, other)) :
            /\ Offset(args, other) + j = n
            /\ items[n].role = other
            /\ items[n].account = ListOf(args, other)[j]
      BY <1>1, ItemSource
    <3> QED BY <2>3, <3>1
  <2> QED BY <2>1, <2>2, <2>3
<1>12. ASSUME NEW account
       PROVE  CurrentlyHas(role, account) <=> <<role, account>> \in DOMAIN receipt.cache
  <2>1. Stored(role) = {}
    BY <1>1 DEF Fresh, Stored, AllRoles
  <2>2. <<role, account>> \in DOMAIN receipt.cache => receipt.cache[<<role, account>>] = TRUE
    BY DEF NewRuns
  <2> QED BY <2>1, <2>2 DEF CurrentlyHas, CacheHolds
<1>13. FlushedRole(role) = ToSet(list)
  <2>1. FlushedRole(role) = {account \in Accounts : \E j \in 1 .. Len(list) : list[j] = account}
    BY <1>11, <1>12, Zenon DEF FlushedRole
  <2>2. ToSet(list) = {list[j] : j \in 1 .. Len(list)}
    BY <1>5 DEF ToSet
  <2>3. \A j \in 1 .. Len(list) : list[j] \in Accounts
    BY <1>4
  <2> QED BY <2>1, <2>2, <2>3
<1> QED BY <1>10, <1>13

\* The flush of new is the closed form of new.
LEMMA ReturnNewIsNew ==
  ASSUME Fresh, NewRuns, ReturnNew
  PROVE  \E args \in InitArgs, deposit \in Deposits : New(args, deposit)
<1> DEFINE args == receipt.args
<1>1. /\ LoopDone /\ receipt.method = "new"
      /\ initialized' = TRUE /\ flags' = NewFlags(FALSE, args.open_read_enabled)
      /\ owner' = args.owner /\ emitted' = receipt.logs /\ UNCHANGED <<feeds, now>>
      /\ admin' = FlushedRole("admin") /\ products' = FlushedRole("products")
      /\ price_reporters' = FlushedRole("price_reporters")
      /\ authorized_callers' = FlushedRole("authorized_callers")
  BY DEF ReturnNew, FlushRoles
<1>2. /\ args \in InitArgs /\ args \in NewArgs /\ IsReceipt /\ receipt.items = NewItems(args)
      /\ ~initialized
      /\ args.open_read_enabled => args.authorized_callers = <<>>
  BY <1>1, InputsAssumption DEF NewRuns
<1>3. PICK deposit \in Deposits : NotPayable(deposit)
  BY <1>1 DEF NewRuns
<1>4. /\ IsInjective(args.admins) /\ admin' = ToSet(args.admins)
      /\ IsInjective(args.products) /\ products' = ToSet(args.products)
      /\ IsInjective(args.price_reporters) /\ price_reporters' = ToSet(args.price_reporters)
      /\ IsInjective(args.authorized_callers) /\ authorized_callers' = ToSet(args.authorized_callers)
  BY <1>1, NewRole DEF ListOf, AllRoles
<1>5. receipt.logs = NewLogs(args)
  <2>1. /\ NewLogs(args) \in Seq(NewEvents(args)) /\ Len(NewLogs(args)) = 2 + Len(receipt.items)
    BY <1>2, NewLogsShape
  <2>2. Iterations = Len(receipt.items)
    BY <1>1, <1>2 DEF IsReceipt, LoopDone, Iterations
  <2>3. /\ receipt.logs \in Seq(NewEvents(args)) /\ Len(receipt.logs) = 2 + Len(receipt.items)
        /\ \A i \in 1 .. 2 + Len(receipt.items) : receipt.logs[i] = NewLogs(args)[i]
    BY <1>1, <2>2 DEF NewRuns
  <2> QED BY <2>1, <2>3, SeqEqual
<1>6. \A list \in {args.admins, args.products, args.price_reporters, args.authorized_callers} :
        IsInjective(list)
  BY <1>4
<1>7. New(args, deposit)
  BY <1>1, <1>2, <1>3, <1>4, <1>5, <1>6 DEF New, NotInitialized, NewLogs
<1> QED BY <1>2, <1>7

-----------------------------------------------------------------------------
(* Panics                                                                  *)

\* A receipt panics in its loop only over a batch the closed forms refuse.
LEMMA PanicIsDeserved ==
  ASSUME Fresh, NewRuns, FRuns, RoleRuns, Panic,
         receipt.method \in {"f", "new"} \cup RoleMethods
  PROVE  ~LegalBatch
<1> DEFINE args == receipt.args
           k    == receipt.next
<1>1. InLoop
  BY DEF Panic
<1>2. CASE receipt.method = "f"
  <2>1. ~TimestampInBounds(Item)
    BY <1>2 DEF Panic
  <2>2. ~InBounds(args, k)
    BY <1>1, <1>2, <2>1, SameBounds
  <2>3. k \in DOMAIN args
    <3>1. args \in Seq(FeedUpdate) /\ IsReceipt /\ receipt.items = args
      BY <1>2, InputsAssumption DEF FRuns
    <3> QED BY <1>1, <3>1 DEF IsReceipt, InLoop
  <2> QED BY <1>2, <2>2, <2>3 DEF LegalBatch, OwnerMethods
<1>3. CASE receipt.method \in RoleMethods
  <2>1. receipt.method # "f" /\ receipt.method # "new"
    BY <1>3 DEF RoleMethods, OwnerMethods
  <2>2. ~ItemChanges /\ Item.strict
    BY <2>1 DEF Panic
  <2>3. Item.strict = (receipt.method \in OwnerMethods) /\ k \in 1 .. Len(args)
    BY <1>1, <1>3, RoleItemFacts
  <2>4. ~Changes(Stored(RoleOf(receipt.method)), args, k)
    BY <1>1, <1>3, <2>2, SameChange
  <2>5. k \in DOMAIN args
    <3>1. args \in Seq(RoleUpdate)
      BY <1>3, InputsAssumption DEF RoleRuns
    <3> QED BY <2>3, <3>1
  <2>6. receipt.method \in OwnerMethods
    BY <2>2, <2>3
  <2>7. ~EveryUpdateChanges(Stored(RoleOf(receipt.method)), args)
    BY <2>4, <2>5 DEF EveryUpdateChanges
  <2> QED BY <2>1, <2>6, <2>7 DEF LegalBatch
<1>4. CASE receipt.method = "new"
  <2>1. ~ItemChanges
    BY <1>4 DEF Panic
  <2>2. /\ args \in NewArgs /\ k \in 1 .. Len(receipt.items) /\ Item = receipt.items[k]
        /\ <<Item.role, Item.account>> \in DOMAIN receipt.cache
    BY <1>1, <1>4, <2>1, NewItemChanges
  <2>3. PICK n \in 1 .. k - 1 : /\ receipt.items[n].role = receipt.items[k].role
                                /\ receipt.items[n].account = receipt.items[k].account
    BY <1>4, <2>2 DEF NewRuns, Iterations
  <2>4. \E role \in AllRoles : ~IsInjective(ListOf(args, role))
    <3>1. /\ receipt.items = NewItems(args) /\ k \in 1 .. Len(NewItems(args))
          /\ n \in 1 .. Len(NewItems(args)) /\ n # k
      <4>1. receipt.items = NewItems(args) /\ Len(receipt.items) \in Nat
        BY <1>4 DEF NewRuns, IsReceipt
      <4> QED BY <2>2, <4>1
    <3>2. PICK role \in AllRoles : \E j \in 1 .. Len(ListOf(args, role)) :
            /\ Offset(args, role) + j = k
            /\ NewItems(args)[k].role = role
            /\ NewItems(args)[k].account = ListOf(args, role)[j]
      BY <2>2, <3>1, ItemSource
    <3>3. PICK other \in AllRoles : \E j \in 1 .. Len(ListOf(args, other)) :
            /\ Offset(args, other) + j = n
            /\ NewItems(args)[n].role = other
            /\ NewItems(args)[n].account = ListOf(args, other)[j]
      BY <2>2, <3>1, ItemSource
    <3>4. role = other
      BY <2>3, <3>1, <3>2, <3>3
    <3>5. PICK j \in 1 .. Len(ListOf(args, role)), m \in 1 .. Len(ListOf(args, role)) :
            /\ Offset(args, role) + j = k /\ Offset(args, role) + m = n
            /\ ListOf(args, role)[j] = ListOf(args, role)[m]
      BY <2>3, <3>1, <3>2, <3>3, <3>4
    <3>6. j # m
      BY <3>1, <3>5
    <3>7. DOMAIN ListOf(args, role) = 1 .. Len(ListOf(args, role))
      <4>1. ListOf(args, role) \in Seq(Accounts)
        BY <2>2 DEF NewArgs, ListOf, AllRoles
      <4> QED BY <4>1
    <3> QED BY <3>5, <3>6, <3>7 DEF IsInjective
  <2>5. \E list \in {args.admins, args.products, args.price_reporters, args.authorized_callers} :
          ~IsInjective(list)
    BY <2>4 DEF ListOf, AllRoles
  <2> QED BY <1>4, <2>5 DEF LegalBatch, OwnerMethods
<1> QED BY <1>2, <1>3, <1>4

-----------------------------------------------------------------------------
(* The invariant of a running receipt, and what it gives                   *)

ReceiptInv ==
  /\ TypeOK
  /\ Fresh
  /\ receipt = Idle \/ receipt.method \in {"f", "new"} \cup RoleMethods
  /\ FRuns
  /\ NewRuns
  /\ RoleRuns

\* Every step of a receipt is a step of the contract or leaves it alone.
LEMMA StepImplements ==
  ASSUME ReceiptInv, [ReceiptNext]_receiptVars
  PROVE  [Next]_vars
<1>1. ASSUME Begin
      PROVE  UNCHANGED vars
  BY <1>1 DEF Begin, BeginNew, BeginF, BeginRoleBatch
<1>2. ASSUME IterateF \/ IterateRole \/ SkipRedundant \/ Panic \/ OutOfGas
      PROVE  UNCHANGED vars
  BY <1>2 DEF IterateF, IterateRole, SkipRedundant, Panic, OutOfGas
<1>3. CASE ReturnNew
  <2>1. \E args \in InitArgs, deposit \in Deposits : New(args, deposit)
    BY <1>3, ReturnNewIsNew DEF ReceiptInv
  <2> QED BY <2>1 DEF Next
<1>4. CASE ReturnF
  <2>1. receipt.args \in FeedBatches
    BY <1>4 DEF ReceiptInv, FRuns, ReturnF
  <2>2. \E caller \in Accounts, deposit \in Deposits : F(caller, deposit, receipt.args)
    BY <1>4, ReturnFIsF DEF ReceiptInv
  <2> QED BY <2>1, <2>2 DEF Next
<1>5. CASE ReturnRoleBatch
  <2>1. \E caller \in Accounts, deposit \in Deposits, updates \in RoleBatches :
          \/ SetAdmins(caller, deposit, updates)
          \/ SetProducts(caller, deposit, updates)
          \/ SetPriceReporters(caller, deposit, updates)
          \/ SetAuthorizedCallers(caller, deposit, updates)
    BY <1>5, ReturnRoleIsAtomic DEF ReceiptInv
  <2> QED BY <2>1 DEF Next
<1>6. ASSUME NEW caller \in Accounts, NEW deposit \in Deposits, LoopFree(caller, deposit)
      PROVE  Next
  BY <1>6 DEF LoopFree, Next
<1>7. CASE NextBlock
  BY <1>7 DEF NextBlock, Next
<1>8. CASE UNCHANGED receiptVars
  BY <1>8 DEF receiptVars
<1> QED BY <1>1, <1>2, <1>3, <1>4, <1>5, <1>6, <1>7, <1>8 DEF ReceiptNext, Step

\* A step that leaves everything alone leaves the loop of a role batch alone.
LEMMA RoleRunsStay ==
  ASSUME RoleRuns, UNCHANGED receiptVars
  PROVE  RoleRuns'
<1> SUFFICES ASSUME receipt.method \in RoleMethods PROVE RoleRuns'
  BY DEF RoleRuns, receiptVars
<1> DEFINE m    == receipt.method
           args == receipt.args
           role == RoleOf(receipt.method)
           set  == Stored(RoleOf(receipt.method))
           kind == EventOf(RoleOf(receipt.method))
<1>1. /\ receipt' = receipt /\ initialized' = initialized /\ owner' = owner
      /\ admin' = admin /\ products' = products
      /\ price_reporters' = price_reporters /\ authorized_callers' = authorized_callers
  BY DEF receiptVars, vars, roles
<1>2. m \in {"set_admins", "set_products", "set_price_reporters", "set_authorized_callers"}
  BY DEF RoleMethods, OwnerMethods
<1>3. RoleOf(receipt.method)' = role
  BY <1>1 DEF RoleOf
<1>4. /\ Stored(RoleOf(receipt.method))' = set
      /\ EventOf(RoleOf(receipt.method))' = kind
      /\ Iterations' = Iterations
      /\ IsReceipt'
  BY <1>1, <1>2 DEF Stored, EventOf, RoleOf, Iterations, IsReceipt, RoleRuns
<1>5. \A account \in Accounts :
        CurrentlyHas(RoleOf(receipt.method), account)' = CurrentlyHas(role, account)
  BY <1>1, <1>2 DEF CurrentlyHas, CacheHolds, Stored, RoleOf
<1>6. RoleLoopInvariant'
  <2>1. /\ \A account \in Accounts :
             CurrentlyHas(role, account) = MemberAt(set, args, account, Iterations)
        /\ Len(receipt.logs) = Cardinality(ChangesUpTo(set, args, Iterations))
        /\ \A key \in DOMAIN receipt.cache : key[1] = role
    BY DEF RoleRuns, RoleLoopInvariant, Iterations
  <2>2. ASSUME NEW account \in Accounts
        PROVE  CurrentlyHas(RoleOf(receipt.method), account)' =
                 MemberAt(Stored(RoleOf(receipt.method)), receipt.args, account, Iterations)'
    BY <1>1, <1>4, <1>5, <2>1 DEF MemberAt, RoleEntries
  <2>3. (Len(receipt.logs) =
           Cardinality(ChangesUpTo(Stored(RoleOf(receipt.method)), receipt.args, Iterations)))'
    BY <1>1, <1>4, <2>1 DEF ChangesUpTo, Changes, MemberAt, RoleEntries
  <2>4. (\A key \in DOMAIN receipt.cache : key[1] = RoleOf(receipt.method))'
    BY <1>1, <1>3, <2>1
  <2> QED BY <2>2, <2>3, <2>4 DEF RoleLoopInvariant, Iterations
<1>7. LogsByRank(receipt.logs, EventOf(RoleOf(receipt.method)), Stored(RoleOf(receipt.method)),
                 receipt.args, Iterations)'
  <2>1. LogsByRank(receipt.logs, kind, set, args, Iterations)
    BY DEF RoleRuns
  <2> QED BY <1>1, <1>4, <2>1 DEF LogsByRank
<1>8. (m \in OwnerMethods =>
         \A k \in 1 .. Iterations : Changes(Stored(RoleOf(receipt.method)), receipt.args, k))'
  BY <1>1, <1>4 DEF RoleRuns, Changes, MemberAt, RoleEntries
<1> QED BY <1>1, <1>4, <1>6, <1>7, <1>8 DEF RoleRuns

\* Every step keeps the invariant.
LEMMA ReceiptInvStep == ReceiptInv /\ [ReceiptNext]_receiptVars => ReceiptInv'
<1> SUFFICES ASSUME ReceiptInv, [ReceiptNext]_receiptVars PROVE ReceiptInv'
  OBVIOUS
<1>1. TypeOK' /\ Fresh'
  BY StepImplements, NextType, NextFresh DEF ReceiptInv
<1>2. ASSUME receipt' = Idle
      PROVE  ReceiptInv'
  BY <1>1, <1>2 DEF ReceiptInv, Idle, FRuns, NewRuns, RoleRuns, RoleMethods, OwnerMethods
<1>3. ASSUME NEW deposit \in Deposits, NEW args \in InitArgs, BeginNew(args, deposit)
      PROVE  ReceiptInv'
  <2>1. NewRuns' /\ receipt'.method = "new"
    BY <1>3, BeginNewStep DEF BeginNew, Started
  <2> QED BY <1>1, <2>1 DEF ReceiptInv, FRuns, RoleRuns, RoleMethods, OwnerMethods
<1>4. ASSUME NEW deposit \in Deposits, NEW caller \in Accounts, NEW updates \in FeedBatches,
             BeginF(caller, deposit, updates)
      PROVE  ReceiptInv'
  <2>1. FRuns' /\ receipt'.method = "f"
    BY <1>4, BeginFStep DEF BeginF, Started
  <2> QED BY <1>1, <2>1 DEF ReceiptInv, NewRuns, RoleRuns, RoleMethods, OwnerMethods
<1>5. ASSUME NEW deposit \in Deposits, NEW method \in RoleMethods, NEW caller \in Accounts,
             NEW updates \in RoleBatches, BeginRoleBatch(method, caller, deposit, updates)
      PROVE  ReceiptInv'
  <2>1. RoleRuns' /\ receipt'.method = method
    BY <1>5, BeginRoleStep DEF BeginRoleBatch, Started
  <2> QED BY <1>1, <2>1 DEF ReceiptInv, FRuns, NewRuns, RoleMethods, OwnerMethods
<1>6. CASE IterateF
  <2>1. FRuns' /\ receipt'.method = "f"
    BY <1>6, IterateFStep DEF ReceiptInv, IterateF, Advanced
  <2> QED BY <1>1, <2>1 DEF ReceiptInv, NewRuns, RoleRuns, RoleMethods, OwnerMethods
<1>7. CASE IterateRole \/ SkipRedundant
  <2>1. /\ InLoop /\ receipt'.method = receipt.method
        /\ receipt.method \in {"new"} \cup RoleMethods
    BY <1>7 DEF ReceiptInv, IterateRole, SkipRedundant, InLoop, Running, Advanced
  <2>2. CASE receipt.method = "new"
    <3>1. ~SkipRedundant
      BY <2>1, <2>2, NewItemChanges DEF ReceiptInv, SkipRedundant
    <3>2. NewRuns'
      BY <1>7, <2>2, <3>1, NewStep DEF ReceiptInv
    <3> QED BY <1>1, <2>1, <2>2, <3>2 DEF ReceiptInv, FRuns, RoleRuns, RoleMethods, OwnerMethods
  <2>3. CASE receipt.method \in RoleMethods
    <3>1. RoleRuns'
      BY <1>7, <2>3, RoleStep DEF ReceiptInv
    <3> QED BY <1>1, <2>1, <2>3, <3>1 DEF ReceiptInv, FRuns, NewRuns, RoleMethods, OwnerMethods
  <2> QED BY <2>1, <2>2, <2>3
<1>8. CASE Panic \/ OutOfGas \/ ReturnNew \/ ReturnF \/ ReturnRoleBatch
  <2>1. receipt' = Idle
    BY <1>8 DEF Panic, OutOfGas, ReturnNew, ReturnF, ReturnRoleBatch
  <2> QED BY <1>2, <2>1
<1>9. ASSUME NEW caller \in Accounts, NEW deposit \in Deposits, LoopFree(caller, deposit)
      PROVE  ReceiptInv'
  BY <1>2, <1>9 DEF LoopFree, Running
<1>10. CASE NextBlock
  BY <1>2, <1>10 DEF NextBlock, Running
<1>11. CASE UNCHANGED receiptVars
  <2>1. /\ receipt' = receipt /\ initialized' = initialized /\ feeds' = feeds /\ now' = now
        /\ owner' = owner /\ admin' = admin /\ products' = products
        /\ price_reporters' = price_reporters /\ authorized_callers' = authorized_callers
    BY <1>11 DEF receiptVars, vars, roles
  <2>2. FRuns'
    BY <2>1 DEF ReceiptInv, FRuns, FLoopInvariant, IsReceipt, InBounds, PrevAggTs, StoredAggTs
  <2>3. NewRuns'
    BY <2>1 DEF ReceiptInv, NewRuns, IsReceipt, Iterations
  <2>4. RoleRuns'
    BY <1>11, RoleRunsStay DEF ReceiptInv
  <2> QED BY <1>1, <2>1, <2>2, <2>3, <2>4 DEF ReceiptInv
<1> QED BY <1>3, <1>4, <1>5, <1>6, <1>7, <1>8, <1>9, <1>10, <1>11 DEF ReceiptNext, Begin, Step

\* No receipt runs at first.
LEMMA ReceiptInvInit == ReceiptInit => ReceiptInv
<1> SUFFICES ASSUME ReceiptInit PROVE ReceiptInv
  OBVIOUS
<1>1. TypeOK
  BY InitType DEF ReceiptInit
<1>2. Fresh
  BY InitFresh DEF ReceiptInit
<1>3. receipt = Idle /\ receipt.method = "none"
  BY DEF ReceiptInit, Idle
<1> QED BY <1>1, <1>2, <1>3 DEF ReceiptInv, FRuns, NewRuns, RoleRuns, RoleMethods, OwnerMethods

\* So the invariant holds of every running receipt.
LEMMA ReceiptInvariant == ReceiptSpec => []ReceiptInv
<1> QED BY ReceiptInvInit, ReceiptInvStep, PTL DEF ReceiptSpec

-----------------------------------------------------------------------------
(* The theorems                                                            *)

\* After every iteration of every batch, of any length and however often it
\* names a key, the caches of the SDK over the storage answer what the closed
\* forms of MultiFeed compute (the loops of f, lib.rs:137-162, and of the
\* set_* methods, lib.rs:207-283, over update_role_member, lib.rs:443-460).
THEOREM LoopInvariantHolds == ReceiptSpec => []LoopInvariant
<1>1. ReceiptInv => LoopInvariant
  <2> SUFFICES ASSUME ReceiptInv PROVE FLoopInvariant /\ RoleLoopInvariant
    BY DEF LoopInvariant
  <2>1. FLoopInvariant
    BY DEF ReceiptInv, FRuns, FLoopInvariant
  <2>2. RoleLoopInvariant
    BY DEF ReceiptInv, RoleRuns, RoleLoopInvariant
  <2> QED BY <2>1, <2>2
<1> QED BY <1>1, ReceiptInvariant, PTL

\* Whatever a receipt does halfway - a panic at a late entry, the gas running
\* out - the committed storage and the logs only ever take the atomic steps of
\* MultiFeed: all that is proved of those holds of the statements too.
THEOREM ReceiptsImplement == ReceiptSpec => ImplementsMultiFeed
<1>1. ReceiptInit => Init
  BY DEF ReceiptInit
<1>2. ReceiptInv /\ [ReceiptNext]_receiptVars => [Next]_vars
  BY StepImplements
<1> QED BY <1>1, <1>2, ReceiptInvariant, PTL DEF ReceiptSpec, ImplementsMultiFeed, Spec

\* The loops refuse a batch (lib.rs:142, 207, 454 and 457) only when one of its
\* entries is illegal given those before it.
THEOREM PanicsAreDeserved == ReceiptSpec => NoSpuriousPanic
<1>1. ReceiptInv /\ [ReceiptNext]_receiptVars => [Panic => ~LegalBatch]_receiptVars
  <2> SUFFICES ASSUME ReceiptInv, Panic PROVE ~LegalBatch
    OBVIOUS
  <2>1. receipt # Idle
    BY DEF Panic, InLoop, Running
  <2> QED BY <2>1, PanicIsDeserved DEF ReceiptInv
<1> QED BY <1>1, ReceiptInvariant, PTL DEF ReceiptSpec, NoSpuriousPanic

\* What is proved of the atomic contract holds of the contract that runs
\* statement by statement on the caches of the SDK, with receipts cut short
\* anywhere: no report from too far ahead, newest report kept, reads by the
\* three modes, and events that tell every change.
THEOREM ReceiptsKeepTheContract ==
  ReceiptSpec => /\ []TypeOK
                 /\ []DriftBound
                 /\ []ReadModes
                 /\ NewestReportWins
                 /\ EventsReplayState
BY ReceiptsImplement, TypeCorrect, DriftBounded, ReadModesHold, NewestReportStays,
   EventsReplayHold DEF ImplementsMultiFeed
=============================================================================
