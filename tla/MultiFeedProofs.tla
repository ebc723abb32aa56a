-------------------------- MODULE MultiFeedProofs --------------------------
(***************************************************************************)
(* Proofs about the contract for every set of accounts and feeds, every    *)
(* batch, every drift threshold and every width of the storage codec that  *)
(* holds the timestamps.                                                   *)
(***************************************************************************)
EXTENDS EventReplay, NumeralProofs, FiniteSetTheorems

-----------------------------------------------------------------------------
(* Facts about the operators                                               *)

\* Max of the community modules is a maximum on the sets it is used for.
LEMMA MaxProperties ==
  ASSUME NEW n \in Nat, NEW S, S \subseteq 0 .. n, S # {}
  PROVE  /\ Max(S) \in S
         /\ \A k \in S : k <= Max(S)
<1> DEFINE Below == {n - k : k \in S}
<1>1. /\ Below \subseteq Nat
      /\ Below # {}
  <2>1. \A k \in S : n - k \in Nat
    OBVIOUS
  <2> QED BY <2>1
<1>2. PICK m \in Below : \A b \in Below : m <= b
  <2> HIDE DEF Below
  <2> QED BY <1>1, LeastElement
<1>3. PICK k \in S : m = n - k
  OBVIOUS
<1>4. \A j \in S : j <= k
  <2> SUFFICES ASSUME NEW j \in S PROVE j <= k
    OBVIOUS
  <2>1. n - j \in Below
    OBVIOUS
  <2>2. n - k <= n - j
    BY <2>1, <1>2, <1>3
  <2> QED BY <2>2
<1>5. \A j \in S : k >= j
  BY <1>4
<1>6. \A j \in S : Max(S) >= j /\ Max(S) \in S
  BY <1>5 DEF Max
<1> QED BY <1>6

\* The low bytes of a number that fits are the number.
LEMMA Truncation ==
  ASSUME NEW m \in Nat \ {0}, NEW x \in Nat
  PROVE  /\ x % m \in 0 .. m - 1
         /\ x < m => x % m = x
OBVIOUS

\* The flips of types.rs keep the byte within its two bits, and the shortcut
\* comparisons of is_paused and is_open_read_when_unpaused read those bits.
LEMMA FlagOperations ==
  ASSUME NEW byte \in FlagBytes
  PROVE  /\ FlipPaused(byte) \in FlagBytes
         /\ FlipOpenRead(byte) \in FlagBytes
         /\ IsPaused(byte) <=> BitIsSet(byte, PAUSED_MASK)
         /\ ~IsPaused(byte) =>
              (IsOpenReadWhenUnpaused(byte) <=> BitIsSet(byte, OPEN_READ_MASK))
<1>1. byte = 0 \/ byte = 1 \/ byte = 2 \/ byte = 3
  BY DEF FlagBytes, OPEN_READ_MASK, PAUSED_MASK
<1>2. \A b \in {0, 1, 2, 3} : BitIsSet(b, OPEN_READ_MASK) <=> b \in {1, 3}
  BY DEF BitIsSet, OPEN_READ_MASK
<1>3. \A b \in {0, 1, 2, 3} : BitIsSet(b, PAUSED_MASK) <=> b \in {2, 3}
  BY DEF BitIsSet, PAUSED_MASK
<1> QED
  BY <1>1, <1>2, <1>3 DEF FlipPaused, FlipOpenRead, Xor, IsPaused, IsOpenReadWhenUnpaused,
                          FlagBytes, OPEN_READ_MASK, PAUSED_MASK

\* The latest entry of a batch is its own maximum.
LEMMA MaxIsLast ==
  ASSUME NEW n \in Nat \ {0}, NEW S, S \subseteq 1 .. n, n \in S
  PROVE  Max(S) = n
<1>1. S \subseteq 0 .. n /\ S # {} /\ n \in Nat
  OBVIOUS
<1>2. Max(S) \in S /\ \A k \in S : k <= Max(S)
  BY <1>1, MaxProperties
<1>3. Max(S) \in 1 .. n /\ n <= Max(S)
  BY <1>2
<1> QED BY <1>3

\* Before any update the set decides.
LEMMA MemberAtStart ==
  ASSUME NEW set, NEW updates, NEW account
  PROVE  MemberAt(set, updates, account, 0) = (account \in set)
<1>1. RoleEntries(updates, account, 0) = {}
  BY DEF RoleEntries
<1> QED BY <1>1 DEF MemberAt

\* Each update decides for its account, and for no other.
LEMMA MemberAtStep ==
  ASSUME NEW set, NEW updates, NEW account, NEW n \in Nat \ {0}
  PROVE  /\ updates[n].account = account =>
              MemberAt(set, updates, account, n) = updates[n].status
         /\ updates[n].account # account =>
              MemberAt(set, updates, account, n) = MemberAt(set, updates, account, n - 1)
<1>1. CASE updates[n].account = account
  <2>1. /\ RoleEntries(updates, account, n) \subseteq 1 .. n
        /\ n \in RoleEntries(updates, account, n)
    BY <1>1 DEF RoleEntries
  <2>2. Max(RoleEntries(updates, account, n)) = n
    BY <2>1, MaxIsLast
  <2> QED BY <1>1, <2>1, <2>2 DEF MemberAt
<1>2. CASE updates[n].account # account
  <2>1. RoleEntries(updates, account, n) = RoleEntries(updates, account, n - 1)
    BY <1>2 DEF RoleEntries
  <2> QED BY <1>2, <2>1 DEF MemberAt
<1> QED BY <1>1, <1>2

\* The same for the entries of a batch of reports.
LEMMA FeedEntriesStep ==
  ASSUME NEW updates, NEW id
  PROVE  /\ FeedEntries(updates, id, 0) = {}
         /\ \A n \in Nat \ {0} :
              IF updates[n].feed_id = id
                THEN /\ FeedEntries(updates, id, n) # {}
                     /\ Max(FeedEntries(updates, id, n)) = n
                ELSE FeedEntries(updates, id, n) = FeedEntries(updates, id, n - 1)
<1>1. FeedEntries(updates, id, 0) = {}
  BY DEF FeedEntries
<1>2. ASSUME NEW n \in Nat \ {0}, updates[n].feed_id = id
      PROVE  /\ FeedEntries(updates, id, n) # {}
             /\ Max(FeedEntries(updates, id, n)) = n
  <2>1. /\ FeedEntries(updates, id, n) \subseteq 1 .. n
        /\ n \in FeedEntries(updates, id, n)
    BY <1>2 DEF FeedEntries
  <2> QED BY <2>1, MaxIsLast
<1>3. ASSUME NEW n \in Nat \ {0}, updates[n].feed_id # id
      PROVE  FeedEntries(updates, id, n) = FeedEntries(updates, id, n - 1)
  BY <1>3 DEF FeedEntries
<1> QED BY <1>1, <1>2, <1>3

\* The rank of an update that changes the set goes up by one, any other keeps
\* the ranks as they are.
LEMMA ChangesStep ==
  ASSUME NEW set, NEW updates
  PROVE  /\ ChangesUpTo(set, updates, 0) = {}
         /\ \A n \in Nat : /\ IsFiniteSet(ChangesUpTo(set, updates, n))
                           /\ Cardinality(ChangesUpTo(set, updates, n)) \in Nat
         /\ \A n \in Nat \ {0} :
              IF Changes(set, updates, n)
                THEN /\ ChangesUpTo(set, updates, n) = ChangesUpTo(set, updates, n - 1) \cup {n}
                     /\ Cardinality(ChangesUpTo(set, updates, n))
                          = Cardinality(ChangesUpTo(set, updates, n - 1)) + 1
                ELSE ChangesUpTo(set, updates, n) = ChangesUpTo(set, updates, n - 1)
<1>1. ChangesUpTo(set, updates, 0) = {}
  BY DEF ChangesUpTo
<1>2. ASSUME NEW n \in Nat
      PROVE  /\ IsFiniteSet(ChangesUpTo(set, updates, n))
             /\ Cardinality(ChangesUpTo(set, updates, n)) \in Nat
  <2>1. IsFiniteSet(1 .. n)
    BY FS_Interval
  <2>2. ChangesUpTo(set, updates, n) \subseteq 1 .. n
    BY DEF ChangesUpTo
  <2> QED BY <2>1, <2>2, FS_Subset, FS_CardinalityType
<1>3. ASSUME NEW n \in Nat \ {0}, Changes(set, updates, n)
      PROVE  /\ ChangesUpTo(set, updates, n) = ChangesUpTo(set, updates, n - 1) \cup {n}
             /\ Cardinality(ChangesUpTo(set, updates, n))
                  = Cardinality(ChangesUpTo(set, updates, n - 1)) + 1
  <2>1. ChangesUpTo(set, updates, n) = ChangesUpTo(set, updates, n - 1) \cup {n}
    BY <1>3 DEF ChangesUpTo
  <2>2. n \notin ChangesUpTo(set, updates, n - 1)
    BY DEF ChangesUpTo
  <2>3. n - 1 \in Nat
    OBVIOUS
  <2>4. IsFiniteSet(ChangesUpTo(set, updates, n - 1))
    BY <1>2, <2>3
  <2> QED BY <2>1, <2>2, <2>4, FS_AddElement
<1>4. ASSUME NEW n \in Nat \ {0}, ~Changes(set, updates, n)
      PROVE  ChangesUpTo(set, updates, n) = ChangesUpTo(set, updates, n - 1)
  BY <1>4 DEF ChangesUpTo
<1> QED BY <1>1, <1>2, <1>3, <1>4

-----------------------------------------------------------------------------
(* A batch given to f, in a state of the right type                        *)

\* What a feed holds after a batch: what it held, if the batch does not name
\* it, or else one of the batch's entries for it, packed at the block time.
LEMMA FeedAfterBatch ==
  ASSUME NEW updates \in Seq(FeedUpdate), NEW id \in DOMAIN FeedsAfter(updates)
  PROVE  \/ /\ id \in DOMAIN feeds
            /\ FeedsAfter(updates)[id] = feeds[id]
         \/ \E k \in DOMAIN updates :
              /\ updates[k].feed_id = id
              /\ FeedsAfter(updates)[id] = Pack(updates[k].price, updates[k].agg_ts, now)
<1> DEFINE entries == FeedEntries(updates, id, Len(updates))
<1>1. DOMAIN updates = 1 .. Len(updates) /\ Len(updates) \in Nat
  OBVIOUS
<1>2. CASE entries = {}
  <2>1. id \notin FeedIdsOf(updates)
    BY <1>1, <1>2 DEF FeedEntries, FeedIdsOf
  <2> QED BY <1>2, <2>1 DEF FeedsAfter
<1>3. CASE entries # {}
  <2>1. Max(entries) \in entries
    <3>1. entries \subseteq 0 .. Len(updates)
      BY <1>1 DEF FeedEntries
    <3> QED BY <1>1, <1>3, <3>1, MaxProperties
  <2>2. Max(entries) \in DOMAIN updates /\ updates[Max(entries)].feed_id = id
    BY <1>1, <2>1 DEF FeedEntries
  <2>3. FeedsAfter(updates)[id] =
          Pack(updates[Max(entries)].price, updates[Max(entries)].agg_ts, now)
    BY <1>3 DEF FeedsAfter
  <2> QED BY <2>2, <2>3
<1> QED BY <1>2, <1>3

\* prev_agg_ts is a number, and it is the stored one or that of an earlier
\* entry for the same feed.
LEMMA PrevAggTsSource ==
  ASSUME TypeOK, NEW updates \in Seq(FeedUpdate), NEW k \in DOMAIN updates, NEW id
  PROVE  \/ PrevAggTs(updates, id, k - 1) = StoredAggTs(id)
         \/ \E j \in 1 .. k - 1 : /\ updates[j].feed_id = id
                                  /\ PrevAggTs(updates, id, k - 1) = updates[j].agg_ts
<1> DEFINE entries == FeedEntries(updates, id, k - 1)
<1>1. k \in Nat /\ k - 1 \in Nat
  OBVIOUS
<1>2. CASE entries = {}
  BY <1>2 DEF PrevAggTs
<1>3. CASE entries # {}
  <2>1. Max(entries) \in entries
    <3>1. entries \subseteq 0 .. k - 1
      BY <1>1 DEF FeedEntries
    <3> QED BY <1>1, <1>3, <3>1, MaxProperties
  <2>2. Max(entries) \in 1 .. k - 1 /\ updates[Max(entries)].feed_id = id
    BY <1>1, <2>1 DEF FeedEntries
  <2>3. PrevAggTs(updates, id, k - 1) = updates[Max(entries)].agg_ts
    BY <1>3 DEF PrevAggTs
  <2> QED BY <2>2, <2>3
<1> QED BY <1>2, <1>3

\* A stored timestamp is a number, 0 standing for a feed never reported.
LEMMA StoredAggTsIsNat == ASSUME TypeOK, NEW id PROVE StoredAggTs(id) \in Nat
<1>1. TS_MODULUS \in Nat
  BY NumbersAssumption
<1>2. CASE id \in DOMAIN feeds
  <2>1. feeds[id] \in StoredFeed
    BY <1>2 DEF TypeOK
  <2> QED BY <1>1, <1>2, <2>1 DEF StoredFeed, StoredAggTs
<1>3. CASE id \notin DOMAIN feeds
  BY <1>3 DEF StoredAggTs
<1> QED BY <1>2, <1>3

\* The loop of f compares an entry with the one before it for the same feed,
\* so all of them are newer than the report stored before the batch.
LEMMA BatchIsNewer ==
  ASSUME TypeOK, NEW updates \in Seq(FeedUpdate),
         \A k \in DOMAIN updates : InBounds(updates, k)
  PROVE  \A k \in DOMAIN updates : updates[k].agg_ts > StoredAggTs(updates[k].feed_id)
<1> DEFINE Older == {k \in DOMAIN updates : ~(updates[k].agg_ts > StoredAggTs(updates[k].feed_id))}
<1>1. SUFFICES ASSUME Older # {} PROVE FALSE
  OBVIOUS
<1>2. DOMAIN updates = 1 .. Len(updates) /\ Len(updates) \in Nat
  OBVIOUS
<1>3. PICK m \in Older : \A k \in Older : m <= k
  <2>1. Older \subseteq Nat
    BY <1>2
  <2> HIDE DEF Older
  <2> QED BY <1>1, <2>1, LeastElement
<1> DEFINE id == updates[m].feed_id
<1>4. /\ updates[m].agg_ts > PrevAggTs(updates, id, m - 1)
      /\ ~(updates[m].agg_ts > StoredAggTs(id))
  BY <1>3 DEF InBounds
<1>5. PICK j \in 1 .. m - 1 : /\ updates[j].feed_id = id
                             /\ PrevAggTs(updates, id, m - 1) = updates[j].agg_ts
  BY <1>3, <1>4, PrevAggTsSource
<1>6. j \in DOMAIN updates /\ j \notin Older
  <2>1. j \in DOMAIN updates /\ j < m
    BY <1>2, <1>3, <1>5
  <2> QED BY <1>2, <1>3, <2>1
<1>7. updates[j].agg_ts > StoredAggTs(id)
  BY <1>5, <1>6
<1>8. /\ StoredAggTs(id) \in Nat
      /\ updates[m].agg_ts \in Nat
      /\ updates[j].agg_ts \in Nat
  <2>1. updates[m] \in FeedUpdate /\ updates[j] \in FeedUpdate
    BY <1>2, <1>3, <1>6
  <2> QED BY <2>1, StoredAggTsIsNat DEF FeedUpdate
<1> QED BY <1>4, <1>5, <1>7, <1>8

\* An accepted entry is packed without losing a bit of its two timestamps.
LEMMA PackedEntry ==
  ASSUME TypeOK, NEW updates \in Seq(FeedUpdate), NEW k \in DOMAIN updates,
         InBounds(updates, k)
  PROVE  LET packed == Pack(updates[k].price, updates[k].agg_ts, now)
         IN  /\ packed \in StoredFeed
             /\ packed.agg_ts = updates[k].agg_ts
             /\ packed.onchain_ts = now
<1>1. updates[k] \in FeedUpdate
  OBVIOUS
<1>2. updates[k].price \in Nat /\ updates[k].agg_ts \in Nat
  BY <1>1 DEF FeedUpdate
<1>3. now \in Nat /\ now <= MaxTime
  BY NumbersAssumption DEF TypeOK
<1>4. updates[k].agg_ts < now + MAX_FUTURE_DRIFT_THRESHOLD
  BY DEF InBounds
<1>5. updates[k].agg_ts < TS_MODULUS /\ now < TS_MODULUS
  BY <1>2, <1>3, <1>4, NumbersAssumption, TimestampWidth
<1>6. /\ updates[k].price % PRICE_MODULUS \in 0 .. PRICE_MODULUS - 1
      /\ updates[k].agg_ts % TS_MODULUS = updates[k].agg_ts
      /\ now % TS_MODULUS = now
  BY <1>2, <1>3, <1>5, NumbersAssumption, Truncation
<1>7. updates[k].agg_ts \in 0 .. TS_MODULUS - 1 /\ now \in 0 .. TS_MODULUS - 1
  BY <1>2, <1>3, <1>5, NumbersAssumption
<1> QED BY <1>6, <1>7 DEF Pack, StoredFeed

-----------------------------------------------------------------------------
(* The type invariant                                                      *)

\* A role set stays a set of accounts under the operators that update it.
LEMMA RoleSets ==
  /\ \A list \in Seq(Accounts) : ToSet(list) \subseteq Accounts
  /\ \A set, updates : MembersAfter(set, updates) \subseteq Accounts
BY DEF ToSet, MembersAfter

\* new leaves a state of the right type, whatever lists it is given.
LEMMA NewType ==
  ASSUME TypeOK, NEW args \in InitArgs, NEW deposit, New(args, deposit)
  PROVE  TypeOK'
<1>1. /\ args.owner \in Accounts
      /\ args.open_read_enabled \in BOOLEAN
      /\ args.admins \in Seq(Accounts)
      /\ args.products \in Seq(Accounts)
      /\ args.price_reporters \in Seq(Accounts)
      /\ args.authorized_callers \in Seq(Accounts)
  BY InputsAssumption DEF NewArgs
<1>2. NewFlags(FALSE, args.open_read_enabled) \in FlagBytes
  BY DEF NewFlags, AsU8, FlagBytes, OPEN_READ_MASK, PAUSED_MASK
<1>3. /\ ToSet(args.admins) \subseteq Accounts
      /\ ToSet(args.products) \subseteq Accounts
      /\ ToSet(args.price_reporters) \subseteq Accounts
      /\ ToSet(args.authorized_callers) \subseteq Accounts
  BY <1>1, RoleSets
<1>4. /\ initialized' = TRUE
      /\ flags' = NewFlags(FALSE, args.open_read_enabled)
      /\ owner' = args.owner
      /\ admin' = ToSet(args.admins)
      /\ products' = ToSet(args.products)
      /\ price_reporters' = ToSet(args.price_reporters)
      /\ authorized_callers' = ToSet(args.authorized_callers)
      /\ UNCHANGED <<feeds, now>>
  BY DEF New
<1> QED BY <1>1, <1>2, <1>3, <1>4 DEF TypeOK

\* So does f: every stored feed fits the 22 bytes of the storage codec.
LEMMA FType ==
  ASSUME TypeOK, NEW updates \in FeedBatches, NEW caller, NEW deposit, F(caller, deposit, updates)
  PROVE  TypeOK'
<1>1. updates \in Seq(FeedUpdate)
  BY InputsAssumption
<1>2. feeds' = FeedsAfter(updates) /\ \A k \in DOMAIN updates : InBounds(updates, k)
  BY DEF F
<1>3. DOMAIN feeds' \subseteq FeedIds
  <2>1. FeedIdsOf(updates) \subseteq FeedIds
    <3>1. \A k \in DOMAIN updates : updates[k] \in FeedUpdate
      BY <1>1
    <3> QED BY <3>1 DEF FeedIdsOf, FeedUpdate
  <2> QED BY <1>2, <2>1 DEF FeedsAfter, TypeOK
<1>4. ASSUME NEW id \in DOMAIN feeds' PROVE feeds'[id] \in StoredFeed
  <2>1. CASE id \in DOMAIN feeds /\ feeds'[id] = feeds[id]
    BY <2>1 DEF TypeOK
  <2>2. ASSUME NEW k \in DOMAIN updates,
               feeds'[id] = Pack(updates[k].price, updates[k].agg_ts, now)
        PROVE  feeds'[id] \in StoredFeed
    BY <1>1, <1>2, <2>2, PackedEntry
  <2> QED BY <1>1, <1>2, <2>1, <2>2, FeedAfterBatch
<1>5. UNCHANGED <<initialized, flags, owner, roles, now>>
  BY DEF F
<1> QED BY <1>3, <1>4, <1>5 DEF TypeOK, roles

\* Every change method leaves a state of the right type.
LEMMA NextType == TypeOK /\ [Next]_vars => TypeOK'
<1> SUFFICES ASSUME TypeOK, [Next]_vars PROVE TypeOK'
  OBVIOUS
<1>1. ASSUME NEW deposit \in Deposits, NEW args \in InitArgs, New(args, deposit)
      PROVE  TypeOK'
  BY <1>1, NewType
<1>2. ASSUME NEW deposit \in Deposits, NEW caller \in Accounts, NEW updates \in FeedBatches,
             F(caller, deposit, updates)
      PROVE  TypeOK'
  BY <1>2, FType
<1>3. ASSUME NEW deposit \in Deposits, NEW caller \in Accounts, NEW new_owner \in Accounts,
             TransferOwnership(caller, deposit, new_owner)
      PROVE  TypeOK'
  BY <1>3 DEF TransferOwnership, TypeOK, roles
<1>4. ASSUME NEW deposit \in Deposits, NEW caller \in Accounts, NEW updates \in RoleBatches,
             \/ SetAdmins(caller, deposit, updates)
             \/ SetProducts(caller, deposit, updates)
             \/ SetPriceReporters(caller, deposit, updates)
             \/ SetAuthorizedCallers(caller, deposit, updates)
      PROVE  TypeOK'
  <2>1. CASE SetAdmins(caller, deposit, updates)
    BY <2>1, RoleSets DEF SetAdmins, TypeOK
  <2>2. CASE SetProducts(caller, deposit, updates)
    BY <2>2, RoleSets DEF SetProducts, TypeOK
  <2>3. CASE SetPriceReporters(caller, deposit, updates)
    BY <2>3, RoleSets DEF SetPriceReporters, TypeOK
  <2>4. CASE SetAuthorizedCallers(caller, deposit, updates)
    BY <2>4, RoleSets DEF SetAuthorizedCallers, TypeOK
  <2> QED BY <1>4, <2>1, <2>2, <2>3, <2>4
<1>5. ASSUME NEW deposit \in Deposits, NEW caller \in Accounts, NEW status \in BOOLEAN,
             \/ SetPaused(caller, deposit, status)
             \/ SetOpenReadStatus(caller, deposit, status)
      PROVE  TypeOK'
  BY <1>5, FlagOperations DEF SetPaused, SetOpenReadStatus, TypeOK, roles
<1>6. CASE Tick
  <2>1. now' \in 0 .. MaxTime
    BY <1>6, NumbersAssumption DEF Tick, TypeOK
  <2> QED BY <1>6, <2>1 DEF Tick, TypeOK, roles
<1>7. CASE UNCHANGED vars
  BY <1>7 DEF vars, roles, TypeOK
<1> QED BY <1>1, <1>2, <1>3, <1>4, <1>5, <1>6, <1>7 DEF Next

\* Storage nobody has written to has the type.
LEMMA InitType == Init => TypeOK
<1>1. NewFlags(FALSE, FALSE) \in FlagBytes
  BY DEF NewFlags, AsU8, FlagBytes, OPEN_READ_MASK, PAUSED_MASK
<1>2. DOMAIN <<>> = {}
  OBVIOUS
<1>3. 0 \in 0 .. MaxTime
  BY NumbersAssumption
<1> QED BY <1>1, <1>2, <1>3 DEF Init, TypeOK

\* Every reachable state of the contract has the type TypeOK states: no
\* sequence of flips leaves the two bits of the flags byte, and the owner is an
\* account from initialization on.
THEOREM TypeCorrect == Spec => []TypeOK
<1> QED BY InitType, NextType, PTL DEF Spec

-----------------------------------------------------------------------------
(* The contract before new                                                 *)

\* Before new has returned the roles are empty and no flag is set.
Fresh ==
  ~initialized => /\ flags = NewFlags(FALSE, FALSE)
                  /\ admin = {} /\ products = {}
                  /\ price_reporters = {} /\ authorized_callers = {}

\* Storage nobody has written to holds no role and no flag.
LEMMA InitFresh == Init => Fresh
BY DEF Init, Fresh

\* Nothing but new fills a role of a contract that is not initialized.
LEMMA NextFresh == Fresh /\ [Next]_vars => Fresh'
<1> SUFFICES ASSUME Fresh, [Next]_vars PROVE Fresh'
  OBVIOUS
<1>1. CASE initialized'
  BY <1>1 DEF Fresh
<1>2. CASE ~initialized'
  <2>1. CASE Tick \/ UNCHANGED vars
    BY <2>1 DEF Tick, vars, roles, Fresh
  <2>2. CASE Next /\ ~Tick
    <3>1. ASSUME NEW deposit, NEW args, New(args, deposit)
          PROVE  initialized'
      BY <3>1 DEF New
    <3>2. ASSUME NEW caller, NEW deposit, NEW updates, F(caller, deposit, updates)
          PROVE  initialized'
      BY <3>2 DEF F
    <3>3. ASSUME NEW caller, NEW deposit, NEW new_owner, TransferOwnership(caller, deposit, new_owner)
          PROVE  initialized'
      BY <3>3 DEF TransferOwnership
    <3>4. ASSUME NEW caller, NEW deposit, NEW updates,
                 \/ SetAdmins(caller, deposit, updates)
                 \/ SetProducts(caller, deposit, updates)
                 \/ SetPriceReporters(caller, deposit, updates)
                 \/ SetAuthorizedCallers(caller, deposit, updates)
          PROVE  initialized'
      <4>1. /\ initialized /\ initialized' = initialized
        BY <3>4 DEF SetAdmins, SetProducts, SetPriceReporters, SetAuthorizedCallers, OwnerUpdates
      <4> QED BY <4>1
    <3>5. ASSUME NEW caller, NEW deposit, NEW status,
                 SetPaused(caller, deposit, status) \/ SetOpenReadStatus(caller, deposit, status)
          PROVE  initialized'
      BY <3>5 DEF SetPaused, SetOpenReadStatus
    <3> QED BY <1>2, <2>2, <3>1, <3>2, <3>3, <3>4, <3>5 DEF Next
  <2> QED BY <2>1, <2>2
<1> QED BY <1>1, <1>2

-----------------------------------------------------------------------------
(* The safety properties                                                   *)

\* No stored feed is dated zero, drifts as far as the threshold, or comes from
\* a block of the future (f, lib.rs:142).
THEOREM DriftBounded == Spec => []DriftBound
<1>1. Init => DriftBound
  <2>1. DOMAIN <<>> = {}
    OBVIOUS
  <2> QED BY <2>1 DEF Init, DriftBound
<1>2. TypeOK /\ DriftBound /\ [Next]_vars => DriftBound'
  <2> SUFFICES ASSUME TypeOK, DriftBound, [Next]_vars PROVE DriftBound'
    OBVIOUS
  <2>1. ASSUME NEW deposit \in Deposits, NEW caller \in Accounts, NEW updates \in FeedBatches,
               F(caller, deposit, updates)
        PROVE  DriftBound'
    <3>1. /\ updates \in Seq(FeedUpdate)
          /\ feeds' = FeedsAfter(updates)
          /\ now' = now
          /\ \A k \in DOMAIN updates : InBounds(updates, k)
      BY <2>1, InputsAssumption DEF F
    <3>2. ASSUME NEW k \in DOMAIN updates, NEW id \in DOMAIN feeds',
                 feeds'[id] = Pack(updates[k].price, updates[k].agg_ts, now)
          PROVE  /\ feeds'[id].agg_ts > 0
                 /\ feeds'[id].agg_ts < feeds'[id].onchain_ts + MAX_FUTURE_DRIFT_THRESHOLD
                 /\ feeds'[id].onchain_ts <= now'
      <4>1. feeds'[id].agg_ts = updates[k].agg_ts /\ feeds'[id].onchain_ts = now
        BY <3>1, <3>2, PackedEntry
      <4>2. updates[k].agg_ts > StoredAggTs(updates[k].feed_id)
        BY <3>1, BatchIsNewer
      <4>3. updates[k].agg_ts < now + MAX_FUTURE_DRIFT_THRESHOLD
        BY <3>1 DEF InBounds
      <4>4. /\ StoredAggTs(updates[k].feed_id) \in Nat
            /\ updates[k].agg_ts \in Nat
            /\ now \in Nat
        <5>1. updates[k] \in FeedUpdate
          BY <3>1
        <5> QED BY <5>1, StoredAggTsIsNat, NumbersAssumption DEF FeedUpdate, TypeOK
      <4> QED BY <3>1, <4>1, <4>2, <4>3, <4>4
    <3>3. ASSUME NEW id \in DOMAIN feeds'
          PROVE  /\ feeds'[id].agg_ts > 0
                 /\ feeds'[id].agg_ts < feeds'[id].onchain_ts + MAX_FUTURE_DRIFT_THRESHOLD
                 /\ feeds'[id].onchain_ts <= now'
      <4>1. CASE id \in DOMAIN feeds /\ feeds'[id] = feeds[id]
        BY <3>1, <4>1 DEF DriftBound
      <4> QED BY <3>1, <3>2, <4>1, FeedAfterBatch
    <3> QED BY <3>3 DEF DriftBound
  <2>2. CASE Tick
    <3>1. feeds' = feeds /\ now' \in Nat /\ now <= now'
      BY <2>2, NumbersAssumption DEF Tick, TypeOK
    <3>2. \A id \in DOMAIN feeds : feeds[id].onchain_ts \in Nat
      BY NumbersAssumption DEF TypeOK, StoredFeed
    <3> QED BY <3>1, <3>2, NumbersAssumption DEF DriftBound, TypeOK
  <2>3. CASE UNCHANGED <<feeds, now>>
    BY <2>3 DEF DriftBound
  <2>4. \/ \E deposit \in Deposits, caller \in Accounts, updates \in FeedBatches :
             F(caller, deposit, updates)
        \/ Tick
        \/ UNCHANGED <<feeds, now>>
    BY DEF Next, New, TransferOwnership, SetAdmins, SetProducts, SetPriceReporters,
           SetAuthorizedCallers, SetPaused, SetOpenReadStatus, vars
  <2> QED BY <2>1, <2>2, <2>3, <2>4
<1> QED BY <1>1, <1>2, TypeCorrect, PTL DEF Spec

\* only_read_access decides by the documented read modes in every reachable
\* state, although it never tests a single bit (lib.rs:412-426).
THEOREM ReadModesHold == Spec => []ReadModes
<1>1. TypeOK => ReadModes
  BY FlagOperations DEF TypeOK, ReadModes, CanRead
<1> QED BY <1>1, TypeCorrect, PTL

\* f never loses or regresses a feed, for batches of any length with any
\* number of entries for one feed (lib.rs:137-162).
THEOREM NewestReportStays == Spec => NewestReportWins
<1>1. TypeOK /\ DriftBound /\ [Next]_vars =>
        [\A id \in DOMAIN feeds :
           /\ id \in DOMAIN feeds'
           /\ feeds'[id] # feeds[id] => /\ feeds'[id].agg_ts > feeds[id].agg_ts
                                        /\ feeds'[id].onchain_ts = now
                                        /\ now >= feeds[id].onchain_ts]_vars
  <2> SUFFICES ASSUME TypeOK, DriftBound, Next, NEW id \in DOMAIN feeds
               PROVE  /\ id \in DOMAIN feeds'
                      /\ feeds'[id] # feeds[id] => /\ feeds'[id].agg_ts > feeds[id].agg_ts
                                                   /\ feeds'[id].onchain_ts = now
                                                   /\ now >= feeds[id].onchain_ts
    OBVIOUS
  <2>1. ASSUME NEW deposit \in Deposits, NEW caller \in Accounts, NEW updates \in FeedBatches,
               F(caller, deposit, updates)
        PROVE  /\ id \in DOMAIN feeds'
               /\ feeds'[id] # feeds[id] => /\ feeds'[id].agg_ts > feeds[id].agg_ts
                                            /\ feeds'[id].onchain_ts = now
    <3>1. /\ updates \in Seq(FeedUpdate)
          /\ feeds' = FeedsAfter(updates)
          /\ \A k \in DOMAIN updates : InBounds(updates, k)
      BY <2>1, InputsAssumption DEF F
    <3>2. id \in DOMAIN feeds'
      BY <3>1 DEF FeedsAfter
    <3>3. ASSUME NEW k \in DOMAIN updates, updates[k].feed_id = id,
                 feeds'[id] = Pack(updates[k].price, updates[k].agg_ts, now)
          PROVE  feeds'[id].agg_ts > feeds[id].agg_ts /\ feeds'[id].onchain_ts = now
      <4>1. feeds'[id].agg_ts = updates[k].agg_ts /\ feeds'[id].onchain_ts = now
        BY <3>1, <3>3, PackedEntry
      <4>2. updates[k].agg_ts > StoredAggTs(id)
        BY <3>1, <3>3, BatchIsNewer
      <4> QED BY <4>1, <4>2 DEF StoredAggTs
    <3> QED BY <3>1, <3>2, <3>3, FeedAfterBatch
  <2>2. \/ \E deposit \in Deposits, caller \in Accounts, updates \in FeedBatches :
             F(caller, deposit, updates)
        \/ feeds' = feeds
    BY DEF Next, New, TransferOwnership, SetAdmins, SetProducts, SetPriceReporters,
           SetAuthorizedCallers, SetPaused, SetOpenReadStatus, Tick
  <2>3. now >= feeds[id].onchain_ts
    <3>1. feeds[id].onchain_ts \in Nat /\ now \in Nat
      BY NumbersAssumption DEF TypeOK, StoredFeed
    <3> QED BY <3>1 DEF DriftBound
  <2> QED BY <2>1, <2>2, <2>3
<1> QED BY <1>1, TypeCorrect, DriftBounded, PTL DEF Spec, NewestReportWins

\* What is stored stays stored or is followed by something newer.
FeedsGrow ==
  \A id \in DOMAIN feeds :
    /\ id \in DOMAIN feeds'
    /\ feeds'[id] # feeds[id] => feeds'[id].agg_ts > feeds[id].agg_ts

\* The part of NewestReportWins that those who use the contract rely on.
LEMMA FeedsOnlyGrow == Spec => [][FeedsGrow]_vars
<1>1. [\A id \in DOMAIN feeds :
         /\ id \in DOMAIN feeds'
         /\ feeds'[id] # feeds[id] => /\ feeds'[id].agg_ts > feeds[id].agg_ts
                                      /\ feeds'[id].onchain_ts = now
                                      /\ now >= feeds[id].onchain_ts]_vars
        => [FeedsGrow]_vars
  BY DEF FeedsGrow
<1> QED BY <1>1, NewestReportStays, PTL DEF NewestReportWins

-----------------------------------------------------------------------------
(* The events of a receipt                                                 *)

\* A view by its fields, and the four roles as the events name them.
Shown(o, p, r, m, f, x) ==
  [owner |-> o, paused |-> p, open_read |-> r, members |-> m, feeds |-> f, refused |-> x]

Holders == [kind \in RoleEventKinds |-> RoleOfEvent(kind)]

\* View in that form, and what it shows after a step.
LEMMA ViewIsShown ==
  /\ View = Shown(owner, IsPaused(flags), IsOpenRead(flags), Holders, feeds, {})
  /\ View' = Shown(owner', IsPaused(flags'), IsOpenRead(flags'), Holders', feeds', {})
BY DEF View, Shown, Holders

\* The old owner's event, a flag's event and a membership event fit a replica
\* that did not know of them, and change its one field.
LEMMA ApplyOwnerEvent ==
  ASSUME NEW o, NEW p, NEW r, NEW m, NEW f, NEW x, NEW new
  PROVE  ApplyEvent(Shown(o, p, r, m, f, x), OwnershipTransferred(o, new)) = Shown(new, p, r, m, f, x)
<1>1. PICK e : e = OwnershipTransferred(o, new)
  OBVIOUS
<1>2. e.event = "ownership_transferred" /\ e.old_owner = o /\ e.new_owner = new
  BY <1>1 DEF OwnershipTransferred
<1>3. PICK view : view = Shown(o, p, r, m, f, x)
  OBVIOUS
<1>4. ApplyEvent(view, e) = ApplyOwner(view, e)
  BY <1>2 DEF ApplyEvent, RoleEventKinds
<1>5. view.owner = o /\ view.refused = x
  BY <1>3 DEF Shown
<1>6. NotFitting(view, e, view.owner = e.old_owner) = x
  BY <1>2, <1>5 DEF NotFitting
<1>7. ApplyOwner(view, e) = [view EXCEPT !.owner = new, !.refused = x]
  BY <1>2, <1>6, Zenon DEF ApplyOwner
<1>8. /\ [Shown(o, p, r, m, f, x) EXCEPT !.owner = new] = Shown(new, p, r, m, f, x)
      /\ [Shown(new, p, r, m, f, x) EXCEPT !.refused = x] = Shown(new, p, r, m, f, x)
  BY DEF Shown
<1> QED BY <1>1, <1>3, <1>4, <1>7, <1>8

\* A pause event sets the pause of the replica, and fits if it changes it.
LEMMA ApplyPausedEvent ==
  ASSUME NEW o, NEW p, NEW r, NEW m, NEW f, NEW x, NEW s, p # s
  PROVE  ApplyEvent(Shown(o, p, r, m, f, x), FlagStatusChanged("paused_status_changed", s))
         = Shown(o, s, r, m, f, x)
<1>1. PICK e : e = FlagStatusChanged("paused_status_changed", s)
  OBVIOUS
<1>2. e.event = "paused_status_changed" /\ e.status = s
  BY <1>1 DEF FlagStatusChanged
<1>3. PICK view : view = Shown(o, p, r, m, f, x)
  OBVIOUS
<1>4. ApplyEvent(view, e) = ApplyPaused(view, e)
  BY <1>2 DEF ApplyEvent, RoleEventKinds
<1>5. view.paused = p /\ view.refused = x
  BY <1>3 DEF Shown
<1>6. NotFitting(view, e, view.paused # e.status) = x
  BY <1>2, <1>5 DEF NotFitting
<1>7. ApplyPaused(view, e) = [view EXCEPT !.paused = s, !.refused = x]
  BY <1>2, <1>6, Zenon DEF ApplyPaused
<1>8. /\ [Shown(o, p, r, m, f, x) EXCEPT !.paused = s] = Shown(o, s, r, m, f, x)
      /\ [Shown(o, s, r, m, f, x) EXCEPT !.refused = x] = Shown(o, s, r, m, f, x)
  BY DEF Shown
<1> QED BY <1>1, <1>3, <1>4, <1>7, <1>8

\* An open-read event sets the mode of the replica; that of new always fits.
LEMMA ApplyOpenReadEvent ==
  ASSUME NEW o, NEW p, NEW r, NEW m, NEW f, NEW x, NEW s, initialized => r # s
  PROVE  ApplyEvent(Shown(o, p, r, m, f, x), FlagStatusChanged("open_read_status_changed", s))
         = Shown(o, p, s, m, f, x)
<1>1. PICK e : e = FlagStatusChanged("open_read_status_changed", s)
  OBVIOUS
<1>2. e.event = "open_read_status_changed" /\ e.status = s
  BY <1>1 DEF FlagStatusChanged
<1>3. PICK view : view = Shown(o, p, r, m, f, x)
  OBVIOUS
<1>4. ApplyEvent(view, e) = ApplyOpenRead(view, e)
  BY <1>2 DEF ApplyEvent, RoleEventKinds
<1>5. view.open_read = r /\ view.refused = x
  BY <1>3 DEF Shown
<1>6. NotFitting(view, e, initialized => view.open_read # e.status) = x
  BY <1>2, <1>5 DEF NotFitting
<1>7. ApplyOpenRead(view, e) = [view EXCEPT !.open_read = s, !.refused = x]
  BY <1>2, <1>6, Zenon DEF ApplyOpenRead
<1>8. /\ [Shown(o, p, r, m, f, x) EXCEPT !.open_read = s] = Shown(o, p, s, m, f, x)
      /\ [Shown(o, p, s, m, f, x) EXCEPT !.refused = x] = Shown(o, p, s, m, f, x)
  BY DEF Shown
<1> QED BY <1>1, <1>3, <1>4, <1>7, <1>8

\* A change of membership that a replica does not know yet.
IsNews(members, e) ==
  /\ e.event \in RoleEventKinds
  /\ (e.account \in members[e.event]) # e.status

\* A membership event that is news changes one role of the replica and fits.
LEMMA ApplyRoleEvent ==
  ASSUME NEW o, NEW p, NEW r, NEW m, NEW f, NEW x, NEW e, IsNews(m, e)
  PROVE  ApplyEvent(Shown(o, p, r, m, f, x), e) = Shown(o, p, r, RolesWith(m, e), f, x)
<1>1. PICK view, members : view = Shown(o, p, r, m, f, x) /\ members = RolesWith(m, e)
  OBVIOUS
<1>2. ApplyEvent(view, e) = ApplyRole(view, e)
  BY DEF ApplyEvent, RoleEventKinds, IsNews
<1>3. view.members = m /\ view.refused = x
  BY <1>1 DEF Shown
<1>4. NotFitting(view, e, (e.account \in view.members[e.event]) # e.status) = x
  BY <1>3 DEF IsNews, NotFitting
<1>5. ApplyRole(view, e) = [view EXCEPT !.members = members, !.refused = x]
  BY <1>1, <1>3, <1>4, Zenon DEF ApplyRole
<1>6. /\ [Shown(o, p, r, m, f, x) EXCEPT !.members = members] = Shown(o, p, r, members, f, x)
      /\ [Shown(o, p, r, members, f, x) EXCEPT !.refused = x] = Shown(o, p, r, members, f, x)
  BY DEF Shown
<1> QED BY <1>1, <1>2, <1>5, <1>6

\* The replica of a receipt is any function that satisfies its equation.
LEMMA ReplayIs ==
  ASSUME NEW events, Len(events) \in Nat,
         NEW w, w = [n \in 0 .. Len(events) |->
                       IF n = 0 THEN View ELSE ApplyEvent(w[n - 1], events[n])]
  PROVE  Replay(events) = w[Len(events)]
<1>1. PICK f : /\ f = [n \in 0 .. Len(events) |->
                         IF n = 0 THEN View ELSE ApplyEvent(f[n - 1], events[n])]
               /\ Replay(events) = f[Len(events)]
  BY DEF Replay
<1> DEFINE Same == {n \in 0 .. Len(events) : f[n] = w[n]}
<1>2. 0 \in Same
  <2>1. 0 \in 0 .. Len(events)
    OBVIOUS
  <2> QED BY <1>1, <2>1
<1>3. ASSUME NEW n \in 0 .. Len(events), n # 0, n - 1 \in Same
      PROVE  n \in Same
  <2>1. /\ f[n] = ApplyEvent(f[n - 1], events[n])
        /\ w[n] = ApplyEvent(w[n - 1], events[n])
    BY <1>1, <1>3
  <2> QED BY <1>3, <2>1
<1>4. \A n \in 0 .. Len(events) : n \in Same
  <2> HIDE DEF Same
  <2> QED BY <1>2, <1>3, UpTo
<1>5. Len(events) \in 0 .. Len(events)
  OBVIOUS
<1> QED BY <1>1, <1>4, <1>5

\* No event changes nothing, and one event is applied.
LEMMA ReplayShort ==
  /\ Replay(<<>>) = View
  /\ \A e : Replay(<<e>>) = ApplyEvent(View, e)
<1>1. Replay(<<>>) = View
  <2> DEFINE w == [n \in 0 .. 0 |-> View]
  <2>1. Len(<<>>) = 0
    OBVIOUS
  <2>2. w = [n \in 0 .. Len(<<>>) |-> IF n = 0 THEN View ELSE ApplyEvent(w[n - 1], <<>>[n])]
    BY <2>1
  <2>3. w[Len(<<>>)] = View
    BY <2>1
  <2> HIDE DEF w
  <2> QED BY <2>1, <2>2, <2>3, ReplayIs
<1>2. ASSUME NEW e
      PROVE  Replay(<<e>>) = ApplyEvent(View, e)
  <2> DEFINE w == [n \in 0 .. 1 |-> IF n = 0 THEN View ELSE ApplyEvent(View, e)]
  <2>1. Len(<<e>>) = 1 /\ <<e>>[1] = e
    OBVIOUS
  <2>2. ASSUME NEW n \in 0 .. 1
        PROVE  w[n] = IF n = 0 THEN View ELSE ApplyEvent(w[n - 1], <<e>>[n])
    <3>1. n = 0 \/ n = 1
      OBVIOUS
    <3>2. w[0] = View /\ w[1] = ApplyEvent(View, e)
      OBVIOUS
    <3> HIDE DEF w
    <3> QED BY <2>1, <3>1, <3>2
  <2>3. w = [n \in 0 .. 1 |-> w[n]] /\ w[1] = ApplyEvent(View, e)
    OBVIOUS
  <2> HIDE DEF w
  <2>4. w = [n \in 0 .. 1 |-> IF n = 0 THEN View ELSE ApplyEvent(w[n - 1], <<e>>[n])]
    BY <2>2, <2>3
  <2>5. w = [n \in 0 .. Len(<<e>>) |-> IF n = 0 THEN View ELSE ApplyEvent(w[n - 1], <<e>>[n])]
    BY <2>1, <2>4
  <2> QED BY <2>1, <2>3, <2>5, ReplayIs
<1> QED BY <1>1, <1>2

-----------------------------------------------------------------------------
(* The events of a role batch                                              *)

\* Membership is a truth value at any point of a batch.
LEMMA MemberAtBoolean ==
  ASSUME NEW set, NEW updates \in Seq(RoleUpdate), NEW account, NEW n \in 0 .. Len(updates)
  PROVE  MemberAt(set, updates, account, n) \in BOOLEAN
<1> DEFINE entries == RoleEntries(updates, account, n)
<1>1. CASE entries = {}
  BY <1>1 DEF MemberAt
<1>2. CASE entries # {}
  <2>1. entries \subseteq 0 .. n /\ n \in Nat
    BY DEF RoleEntries
  <2>2. Max(entries) \in entries
    BY <1>2, <2>1, MaxProperties
  <2>3. Max(entries) \in DOMAIN updates
    BY <2>2 DEF RoleEntries
  <2>4. updates[Max(entries)].status \in BOOLEAN
    <3>1. updates[Max(entries)] \in RoleUpdate
      BY <2>3
    <3> QED BY <3>1 DEF RoleUpdate
  <2> QED BY <1>2, <2>4 DEF MemberAt
<1> QED BY <1>1, <1>2

\* The members of a role after n updates of a batch.
MembersThen(set, updates, n) == {account \in Accounts : MemberAt(set, updates, account, n)}

\* An update that changes the role adds or removes its account.
LEMMA MembersThenStep ==
  ASSUME NEW set, NEW updates \in Seq(RoleUpdate), NEW n \in DOMAIN updates,
         Changes(set, updates, n)
  PROVE  LET before == MembersThen(set, updates, n - 1)
             update == updates[n]
         IN  /\ MembersThen(set, updates, n) =
                  IF update.status THEN before \cup {update.account} ELSE before \ {update.account}
             /\ (update.account \in before) # update.status
<1>1. /\ n \in Nat \ {0} /\ n - 1 \in 0 .. Len(updates)
      /\ updates[n].account \in Accounts /\ updates[n].status \in BOOLEAN
  <2>1. updates[n] \in RoleUpdate
    OBVIOUS
  <2> QED BY <2>1 DEF RoleUpdate
<1>2. \A account : MemberAt(set, updates, account, n - 1) \in BOOLEAN
  BY <1>1, MemberAtBoolean
<1>3. (updates[n].account \in MembersThen(set, updates, n - 1)) # updates[n].status
  BY <1>1, <1>2 DEF MembersThen, Changes
<1>4. ASSUME NEW account \in Accounts
      PROVE  MemberAt(set, updates, account, n) =
               IF updates[n].account = account THEN updates[n].status
               ELSE MemberAt(set, updates, account, n - 1)
  BY <1>1, MemberAtStep
<1>5. CASE updates[n].status = TRUE
  BY <1>1, <1>3, <1>4, <1>5 DEF MembersThen
<1>6. CASE updates[n].status = FALSE
  BY <1>1, <1>3, <1>4, <1>6 DEF MembersThen
<1> QED BY <1>1, <1>5, <1>6

\* Where the events of a role batch are those of updates that changed the role,
\* in order, and no other update did, their replay leaves what the batch does.
EventsOfChanges(events, kind, updates, at) ==
  LET set == RoleOfEvent(kind)
  IN  /\ Len(events) \in Nat
      /\ at[0] = 0
      /\ \A n \in 1 .. Len(events) :
           /\ at[n] \in DOMAIN updates
           /\ Changes(set, updates, at[n])
           /\ events[n] = RoleStatusChanged(kind, updates[at[n]].account, updates[at[n]].status)
           /\ MembersThen(set, updates, at[n] - 1) = MembersThen(set, updates, at[n - 1])
      /\ MembersThen(set, updates, at[Len(events)]) = MembersAfter(set, updates)

\* The present view with another set of members in one role.
ViewWith(kind, members) ==
  Shown(owner, IsPaused(flags), IsOpenRead(flags), [Holders EXCEPT ![kind] = members], feeds, {})

\* A role batch that has an event for each of its updates, none of them
\* redundant, takes the replica to the memberships after the batch.
LEMMA RoleReplay ==
  ASSUME NEW kind \in RoleEventKinds, RoleOfEvent(kind) \subseteq Accounts,
         NEW updates \in Seq(RoleUpdate), NEW events, NEW at,
         EventsOfChanges(events, kind, updates, at)
  PROVE  Replay(events) = ViewWith(kind, MembersAfter(RoleOfEvent(kind), updates))
<1>0. /\ Len(events) \in Nat
      /\ at[0] = 0
      /\ \A n \in 1 .. Len(events) :
           /\ at[n] \in DOMAIN updates
           /\ Changes(RoleOfEvent(kind), updates, at[n])
           /\ events[n] = RoleStatusChanged(kind, updates[at[n]].account, updates[at[n]].status)
           /\ MembersThen(RoleOfEvent(kind), updates, at[n] - 1)
              = MembersThen(RoleOfEvent(kind), updates, at[n - 1])
      /\ MembersThen(RoleOfEvent(kind), updates, at[Len(events)])
         = MembersAfter(RoleOfEvent(kind), updates)
  BY DEF EventsOfChanges
<1> USE <1>0
<1> DEFINE set == RoleOfEvent(kind)
           Then(k) == MembersThen(set, updates, k)
           Now(members) == ViewWith(kind, members)
           w == [n \in 0 .. Len(events) |-> Now(Then(at[n]))]
<1>1. kind \in DOMAIN Holders /\ Holders[kind] = set /\ Holders = [k \in RoleEventKinds |-> Holders[k]]
  BY DEF Holders
<1>2. Then(0) = set
  BY MemberAtStart DEF MembersThen
<1>3. Now(set) = View
  <2>1. [Holders EXCEPT ![kind] = set] = Holders
    BY <1>1
  <2> QED BY <2>1, ViewIsShown DEF ViewWith
<1>4. ASSUME NEW n \in 1 .. Len(events)
      PROVE  Now(Then(at[n])) = ApplyEvent(Now(Then(at[n - 1])), events[n])
  <2>1. PICK k : k = at[n]
    OBVIOUS
  <2>2. PICK update : update = updates[k]
    OBVIOUS
  <2>3. /\ k \in DOMAIN updates
        /\ Changes(set, updates, k)
        /\ events[n] = RoleStatusChanged(kind, update.account, update.status)
        /\ Then(k - 1) = Then(at[n - 1])
    BY <2>1, <2>2
  <2>4. PICK account, s, e :
          account = update.account /\ s = update.status /\ e = RoleStatusChanged(kind, account, s)
    OBVIOUS
  <2>5. PICK before, after, m : /\ before = Then(at[n - 1]) /\ after = Then(k)
                                /\ m = [Holders EXCEPT ![kind] = before]
    OBVIOUS
  <2>6. /\ s \in BOOLEAN
        /\ after = IF s THEN before \cup {account} ELSE before \ {account}
        /\ (account \in before) # s
    <3>1. update \in RoleUpdate
      BY <2>2, <2>3
    <3>2. /\ Then(k) = IF updates[k].status THEN Then(k - 1) \cup {updates[k].account}
                      ELSE Then(k - 1) \ {updates[k].account}
          /\ (updates[k].account \in Then(k - 1)) # updates[k].status
      BY <2>3, MembersThenStep
    <3>3. update.status \in BOOLEAN
      BY <3>1 DEF RoleUpdate
    <3> HIDE DEF Then
    <3> QED BY <2>2, <2>3, <2>4, <2>5, <3>2, <3>3
  <2>7. m[kind] = before
    BY <1>1, <2>5
  <2>8. RolesWith(m, e) = [Holders EXCEPT ![kind] = after]
    <3>1. e.event = kind /\ e.account = account /\ e.status = s
      BY <2>4 DEF RoleStatusChanged
    <3>2. RolesWith(m, e) = [m EXCEPT ![kind] = after]
      BY <2>6, <2>7, <3>1 DEF RolesWith
    <3>3. [m EXCEPT ![kind] = after] = [Holders EXCEPT ![kind] = after]
      BY <1>1, <2>5
    <3> QED BY <3>2, <3>3
  <2>9. IsNews(m, e)
    <3>1. e.event = kind /\ e.account = account /\ e.status = s
      BY <2>4 DEF RoleStatusChanged
    <3> QED BY <2>6, <2>7, <3>1 DEF IsNews
  <2>10. ApplyEvent(Shown(owner, IsPaused(flags), IsOpenRead(flags), m, feeds, {}), e)
         = Shown(owner, IsPaused(flags), IsOpenRead(flags), RolesWith(m, e), feeds, {})
    BY <2>9, ApplyRoleEvent
  <2> HIDE DEF Then
  <2> QED BY <2>1, <2>3, <2>4, <2>5, <2>8, <2>10 DEF ViewWith
<1>5. w = [n \in 0 .. Len(events) |-> IF n = 0 THEN View ELSE ApplyEvent(w[n - 1], events[n])]
  <2>1. ASSUME NEW n \in 0 .. Len(events)
        PROVE  w[n] = IF n = 0 THEN View ELSE ApplyEvent(w[n - 1], events[n])
    <3>1. CASE n = 0
      <4> HIDE DEF Then, Now
      <4> QED BY <1>2, <1>3, <3>1
    <3>2. CASE n # 0
      <4>1. n \in 1 .. Len(events) /\ n - 1 \in 0 .. Len(events)
        BY <3>2
      <4> HIDE DEF Then, Now
      <4>2. w[n] = Now(Then(at[n])) /\ w[n - 1] = Now(Then(at[n - 1]))
        BY <4>1
      <4> HIDE DEF w
      <4> QED BY <1>4, <3>2, <4>1, <4>2
    <3> QED BY <3>1, <3>2
  <2>2. w = [n \in 0 .. Len(events) |-> w[n]]
    OBVIOUS
  <2> HIDE DEF w
  <2> QED BY <2>1, <2>2
<1>6. Replay(events) = w[Len(events)]
  <2> HIDE DEF w
  <2> QED BY <1>5, ReplayIs
<1>7. w[Len(events)] = Now(MembersAfter(set, updates))
  <2>1. Len(events) \in 0 .. Len(events)
    OBVIOUS
  <2> HIDE DEF Now
  <2> QED BY <2>1
<1> QED BY <1>6, <1>7

\* The n-th event of an owner's batch is that of its n-th update.
LEMMA OwnerReplay ==
  ASSUME NEW kind \in RoleEventKinds, RoleOfEvent(kind) \subseteq Accounts,
         NEW updates \in Seq(RoleUpdate), EveryUpdateChanges(RoleOfEvent(kind), updates)
  PROVE  Replay(RoleEvents(kind, updates)) =
           ViewWith(kind, MembersAfter(RoleOfEvent(kind), updates))
<1> DEFINE set    == RoleOfEvent(kind)
           events == RoleEvents(kind, updates)
           at     == [n \in 0 .. Len(updates) |-> n]
<1>1. DOMAIN updates = 1 .. Len(updates) /\ Len(updates) \in Nat
  OBVIOUS
<1>2. /\ events = [n \in 1 .. Len(updates) |->
                     RoleStatusChanged(kind, updates[n].account, updates[n].status)]
      /\ Len(events) = Len(updates)
  BY <1>1 DEF RoleEvents
<1>3. ASSUME NEW n \in 1 .. Len(events)
      PROVE  /\ at[n] \in DOMAIN updates
             /\ Changes(set, updates, at[n])
             /\ events[n] = RoleStatusChanged(kind, updates[at[n]].account, updates[at[n]].status)
             /\ MembersThen(set, updates, at[n] - 1) = MembersThen(set, updates, at[n - 1])
  <2>1. at[n] = n /\ at[n - 1] = n - 1 /\ n \in DOMAIN updates
    BY <1>1, <1>2
  <2>2. events[n] = RoleStatusChanged(kind, updates[n].account, updates[n].status)
    BY <1>2
  <2>3. Changes(set, updates, n)
    BY <2>1 DEF EveryUpdateChanges
  <2> HIDE DEF at, events
  <2> QED BY <2>1, <2>2, <2>3
<1>4. /\ at[0] = 0
      /\ MembersThen(set, updates, at[Len(events)]) = MembersAfter(set, updates)
  BY <1>1, <1>2 DEF MembersThen, MembersAfter
<1>5. Len(events) \in Nat
  BY <1>1, <1>2
<1> HIDE DEF at, events
<1>6. EventsOfChanges(events, kind, updates, at)
  BY <1>3, <1>4, <1>5 DEF EventsOfChanges
<1>7. Replay(events) = ViewWith(kind, MembersAfter(set, updates))
  BY <1>6, RoleReplay
<1> QED BY <1>7 DEF events

\* Every rank up to that of an update is the rank of one that changes the role.
LEMMA RanksCovered ==
  ASSUME NEW set, NEW updates, NEW length \in Nat
  PROVE  \A n \in 1 .. Cardinality(ChangesUpTo(set, updates, length)) :
           \E k \in ChangesUpTo(set, updates, length) :
             Cardinality(ChangesUpTo(set, updates, k)) = n
<1> DEFINE Rank(k) == Cardinality(ChangesUpTo(set, updates, k))
           Covered == {m \in 0 .. length :
                         \A n \in 1 .. Rank(m) : \E k \in ChangesUpTo(set, updates, m) : Rank(k) = n}
<1>1. 0 \in Covered
  <2>1. Rank(0) = 0
    BY ChangesStep, FS_EmptySet
  <2> QED BY <2>1
<1>2. ASSUME NEW m \in 0 .. length, m # 0, m - 1 \in Covered
      PROVE  m \in Covered
  <2>1. m \in Nat \ {0} /\ m - 1 \in Nat /\ Rank(m) \in Nat /\ Rank(m - 1) \in Nat
    <3>1. m \in Nat \ {0} /\ m - 1 \in Nat /\ m \in Nat
      BY <1>2
    <3> QED BY <3>1, ChangesStep
  <2>2. CASE Changes(set, updates, m)
    <3>1. /\ ChangesUpTo(set, updates, m) = ChangesUpTo(set, updates, m - 1) \cup {m}
          /\ Rank(m) = Rank(m - 1) + 1
      BY <2>1, <2>2, ChangesStep
    <3>2. ASSUME NEW n \in 1 .. Rank(m)
          PROVE  \E k \in ChangesUpTo(set, updates, m) : Rank(k) = n
      <4>1. n = Rank(m) \/ n \in 1 .. Rank(m - 1)
        <5> HIDE DEF Rank
        <5> QED BY <2>1, <3>1
      <4>2. CASE n = Rank(m)
        BY <3>1, <4>2
      <4>3. CASE n \in 1 .. Rank(m - 1)
        BY <1>2, <3>1, <4>3
      <4> QED BY <4>1, <4>2, <4>3
    <3> QED BY <3>2
  <2>3. CASE ~Changes(set, updates, m)
    <3>1. ChangesUpTo(set, updates, m) = ChangesUpTo(set, updates, m - 1)
      BY <2>1, <2>3, ChangesStep
    <3> QED BY <1>2, <3>1
  <2> QED BY <2>2, <2>3
<1>3. length \in 0 .. length
  OBVIOUS
<1>4. length \in Covered
  <2> HIDE DEF Covered
  <2> QED BY <1>1, <1>2, <1>3, UpTo
<1> QED BY <1>4

\* Ranks do not fall, and between two updates of one rank nothing changes.
LEMMA RanksAndMembers ==
  ASSUME NEW set, NEW updates \in Seq(RoleUpdate), NEW k \in 0 .. Len(updates), NEW j \in 0 .. k
  PROVE  LET Rank(n) == Cardinality(ChangesUpTo(set, updates, n))
         IN  /\ Rank(j) <= Rank(k)
             /\ Rank(j) = Rank(k) =>
                  MembersThen(set, updates, j) = MembersThen(set, updates, k)
<1> DEFINE Rank(n) == Cardinality(ChangesUpTo(set, updates, n))
<1>1. /\ IsFiniteSet(ChangesUpTo(set, updates, k))
      /\ ChangesUpTo(set, updates, j) \subseteq ChangesUpTo(set, updates, k)
      /\ Len(updates) \in Nat
  <2>1. k \in Nat /\ Len(updates) \in Nat
    OBVIOUS
  <2>2. IsFiniteSet(ChangesUpTo(set, updates, k))
    BY <2>1, ChangesStep
  <2>3. ChangesUpTo(set, updates, j) \subseteq ChangesUpTo(set, updates, k)
    BY DEF ChangesUpTo
  <2> QED BY <2>1, <2>2, <2>3
<1>2. /\ Rank(j) <= Rank(k)
      /\ Rank(j) = Rank(k) => ChangesUpTo(set, updates, j) = ChangesUpTo(set, updates, k)
  BY <1>1, FS_Subset
<1>3. ASSUME Rank(j) = Rank(k)
      PROVE  MembersThen(set, updates, j) = MembersThen(set, updates, k)
  <2> DEFINE Same == {d \in 0 .. k - j :
                        MembersThen(set, updates, j + d) = MembersThen(set, updates, j)}
  <2>1. 0 \in Same
    OBVIOUS
  <2>2. ASSUME NEW d \in 0 .. k - j, d # 0, d - 1 \in Same
        PROVE  d \in Same
    <3>1. PICK n : n = j + d
      OBVIOUS
    <3>2. n \in 1 .. k /\ n \notin 1 .. j /\ n \in 1 .. Len(updates) /\ n - 1 = j + (d - 1)
      BY <2>2, <3>1
    <3>3. ~Changes(set, updates, n)
      <4>1. n \notin ChangesUpTo(set, updates, j)
        BY <3>2 DEF ChangesUpTo
      <4> QED BY <1>2, <1>3, <3>2, <4>1 DEF ChangesUpTo
    <3>4. ASSUME NEW account \in Accounts
          PROVE  MemberAt(set, updates, account, n) = MemberAt(set, updates, account, n - 1)
      <4>1. n \in Nat \ {0}
        BY <3>2
      <4> QED BY <3>3, <4>1, MemberAtStep DEF Changes
    <3>5. MembersThen(set, updates, n) = MembersThen(set, updates, n - 1)
      BY <3>4 DEF MembersThen
    <3> QED BY <2>2, <3>1, <3>2, <3>5
  <2>3. k - j \in Nat /\ k - j \in 0 .. k - j /\ j + (k - j) = k
    OBVIOUS
  <2>4. k - j \in Same
    <3> HIDE DEF Same
    <3> QED BY <2>1, <2>2, <2>3, UpTo
  <2> QED BY <2>3, <2>4
<1> QED BY <1>2, <1>3

\* The n-th event of set_authorized_callers is that of the n-th update that
\* changed the whitelist.
LEMMA CallerReplay ==
  ASSUME authorized_callers \subseteq Accounts, NEW updates \in Seq(RoleUpdate)
  PROVE  Replay(CallerEvents(updates)) =
           ViewWith("authorized_caller_status_changed", MembersAfter(authorized_callers, updates))
<1> DEFINE kind     == "authorized_caller_status_changed"
           set      == authorized_callers
           changing == ChangesUpTo(set, updates, Len(updates))
           Rank(k)  == Cardinality(ChangesUpTo(set, updates, k))
           Nth(n)   == CHOOSE k \in changing : Rank(k) = n
           events   == CallerEvents(updates)
           at       == [n \in 0 .. Rank(Len(updates)) |-> IF n = 0 THEN 0 ELSE Nth(n)]
<1>1. /\ kind \in RoleEventKinds /\ RoleOfEvent(kind) = set
      /\ Len(updates) \in Nat /\ DOMAIN updates = 1 .. Len(updates)
  BY DEF RoleEventKinds, RoleOfEvent
<1>2. Rank(0) = 0 /\ \A k \in Nat : Rank(k) \in Nat
  BY ChangesStep, FS_EmptySet
<1>3. PICK length \in Nat : length = Rank(Len(updates))
  BY <1>1, <1>2
<1>4. \A n \in 1 .. length : Nth(n) \in changing /\ Rank(Nth(n)) = n
  BY <1>1, <1>3, RanksCovered
<1>5. /\ events = [n \in 1 .. length |->
                     RoleStatusChanged(kind, updates[Nth(n)].account, updates[Nth(n)].status)]
      /\ Len(events) = length
  <2>1. events = [n \in 1 .. length |->
                     RoleStatusChanged(kind, updates[Nth(n)].account, updates[Nth(n)].status)]
    BY <1>3 DEF CallerEvents
  <2> HIDE DEF Nth, events
  <2> QED BY <2>1
<1>6. /\ at[0] = 0
      /\ \A n \in 1 .. length : at[n] = Nth(n)
  BY <1>3
<1>7. \A n \in 0 .. length : at[n] \in 0 .. Len(updates) /\ Rank(at[n]) = n
  <2>1. \A n \in 1 .. length : Nth(n) \in 0 .. Len(updates)
    <3>1. changing \subseteq 0 .. Len(updates)
      BY <1>1 DEF ChangesUpTo
    <3> HIDE DEF Nth, changing
    <3> QED BY <1>4, <3>1
  <2>2. 0 \in 0 .. Len(updates)
    BY <1>1
  <2> HIDE DEF Nth, at, Rank
  <2> QED BY <1>2, <1>4, <1>6, <2>1, <2>2
<1>8. ASSUME NEW n \in 1 .. length
      PROVE  /\ at[n] \in DOMAIN updates
             /\ Changes(set, updates, at[n])
             /\ events[n] = RoleStatusChanged(kind, updates[at[n]].account, updates[at[n]].status)
             /\ MembersThen(set, updates, at[n] - 1) = MembersThen(set, updates, at[n - 1])
  <2>1. PICK k, j : k = at[n] /\ j = at[n - 1]
    OBVIOUS
  <2>2. /\ k \in changing /\ Rank(k) = n /\ j \in 0 .. Len(updates) /\ Rank(j) = n - 1
    <3>1. n - 1 \in 0 .. length
      OBVIOUS
    <3> HIDE DEF Nth, at, Rank, changing
    <3> QED BY <1>4, <1>6, <1>7, <2>1, <3>1
  <2>3. k \in 1 .. Len(updates) /\ Changes(set, updates, k)
    BY <2>2 DEF ChangesUpTo
  <2>4. Rank(k - 1) = n - 1
    <3>1. k \in Nat \ {0} /\ k - 1 \in Nat
      BY <2>3
    <3>2. Rank(k) = Rank(k - 1) + 1 /\ Rank(k - 1) \in Nat
      BY <2>3, <3>1, ChangesStep
    <3> HIDE DEF Rank
    <3> QED BY <2>2, <3>2
  <2>5. j <= k - 1
    <3>1. SUFFICES ASSUME k <= j PROVE FALSE
      BY <1>1, <2>2, <2>3
    <3>2. k \in 0 .. j
      BY <2>2, <2>3, <3>1
    <3>3. Rank(k) <= Rank(j)
      BY <2>2, <3>2, RanksAndMembers
    <3> HIDE DEF Rank
    <3> QED BY <2>2, <3>3
  <2>6. MembersThen(set, updates, j) = MembersThen(set, updates, k - 1)
    <3>1. k - 1 \in 0 .. Len(updates) /\ j \in 0 .. k - 1
      BY <1>1, <2>2, <2>3, <2>5
    <3> QED BY <2>2, <2>4, <3>1, RanksAndMembers
  <2>7. events[n] = RoleStatusChanged(kind, updates[k].account, updates[k].status)
    <3>1. k = Nth(n)
      BY <1>6, <2>1
    <3> HIDE DEF Nth, events
    <3> QED BY <1>5, <3>1
  <2> HIDE DEF at, events
  <2> QED BY <1>1, <2>1, <2>3, <2>6, <2>7
<1>9. MembersThen(set, updates, at[length]) = MembersAfter(set, updates)
  <2>1. at[length] \in 0 .. Len(updates) /\ Rank(at[length]) = Rank(Len(updates))
    <3> HIDE DEF at, Rank
    <3> QED BY <1>3, <1>7
  <2>2. Len(updates) \in 0 .. Len(updates)
    BY <1>1
  <2>3. MembersThen(set, updates, at[length]) = MembersThen(set, updates, Len(updates))
    <3> HIDE DEF at
    <3> QED BY <2>1, <2>2, RanksAndMembers
  <2> QED BY <2>3 DEF MembersThen, MembersAfter
<1> HIDE DEF at, events, Nth
<1>10. EventsOfChanges(events, kind, updates, at)
  BY <1>1, <1>5, <1>6, <1>8, <1>9 DEF EventsOfChanges
<1>11. Replay(events) = ViewWith(kind, MembersAfter(RoleOfEvent(kind), updates))
  BY <1>1, <1>10, RoleReplay
<1> QED BY <1>1, <1>11 DEF events

-----------------------------------------------------------------------------
(* The event of a batch of reports                                         *)

\* An entry that is newer than the replica's report for its feed replaces it.
LEMMA ApplyReportEntry ==
  ASSUME NEW o, NEW p, NEW r, NEW m, NEW f, NEW x, NEW e, NEW k, IsNewer(f, e, k)
  PROVE  ApplyReport(Shown(o, p, r, m, f, x), e, k) = Shown(o, p, r, m, FeedsWith(f, e, k), x)
<1>1. PICK view, g : view = Shown(o, p, r, m, f, x) /\ g = FeedsWith(f, e, k)
  OBVIOUS
<1>2. view.feeds = f /\ view.refused = x
  BY <1>1 DEF Shown
<1>3. NotFitting(view, e, IsNewer(view.feeds, e, k)) = x
  BY <1>2 DEF NotFitting
<1>4. ApplyReport(view, e, k) = [view EXCEPT !.feeds = g, !.refused = x]
  BY <1>1, <1>2, <1>3, Zenon DEF ApplyReport
<1>5. /\ [Shown(o, p, r, m, f, x) EXCEPT !.feeds = g] = Shown(o, p, r, m, g, x)
      /\ [Shown(o, p, r, m, g, x) EXCEPT !.refused = x] = Shown(o, p, r, m, g, x)
  BY DEF Shown
<1> QED BY <1>1, <1>4, <1>5

\* A function that applies the reports of an f event one by one.
IsApplied(w, view, e) ==
  w = [k \in 0 .. Len(e.i) |-> IF k = 0 THEN view ELSE ApplyReport(w[k - 1], e, k)]

\* It ends in the replica after the event.
LEMMA ReportsIs ==
  ASSUME NEW view, NEW e, Len(e.i) \in Nat, NEW w, IsApplied(w, view, e)
  PROVE  ApplyReports(view, e) = w[Len(e.i)]
<1> USE DEF IsApplied
<1>1. PICK f : /\ f = [k \in 0 .. Len(e.i) |->
                         IF k = 0 THEN view ELSE ApplyReport(f[k - 1], e, k)]
               /\ ApplyReports(view, e) = f[Len(e.i)]
  BY DEF ApplyReports
<1> DEFINE Same == {k \in 0 .. Len(e.i) : f[k] = w[k]}
<1>2. 0 \in Same
  <2>1. 0 \in 0 .. Len(e.i)
    OBVIOUS
  <2> QED BY <1>1, <2>1
<1>3. ASSUME NEW k \in 0 .. Len(e.i), k # 0, k - 1 \in Same
      PROVE  k \in Same
  <2>1. /\ f[k] = ApplyReport(f[k - 1], e, k)
        /\ w[k] = ApplyReport(w[k - 1], e, k)
    BY <1>1, <1>3
  <2> QED BY <1>3, <2>1
<1>4. \A k \in 0 .. Len(e.i) : k \in Same
  <2> HIDE DEF Same
  <2> QED BY <1>2, <1>3, UpTo
<1>5. Len(e.i) \in 0 .. Len(e.i)
  OBVIOUS
<1> QED BY <1>1, <1>4, <1>5

\* What storage holds after n updates of a batch.
FeedsUpTo(updates, n) ==
  [id \in DOMAIN feeds \cup {updates[k].feed_id : k \in 1 .. n} |->
     LET entries == FeedEntries(updates, id, n)
     IN  IF entries = {} THEN feeds[id]
         ELSE Pack(updates[Max(entries)].price, updates[Max(entries)].agg_ts, now)]

\* Nothing before the first, and what f leaves after the last.
LEMMA FeedsUpToEnds ==
  ASSUME NEW updates \in Seq(FeedUpdate), feeds = [id \in DOMAIN feeds |-> feeds[id]]
  PROVE  FeedsUpTo(updates, 0) = feeds /\ FeedsUpTo(updates, Len(updates)) = FeedsAfter(updates)
<1>1. ASSUME NEW id
      PROVE  FeedEntries(updates, id, 0) = {}
  BY DEF FeedEntries
<1>2. DOMAIN feeds \cup {updates[k].feed_id : k \in 1 .. 0} = DOMAIN feeds
  <2>1. 1 .. 0 = {}
    OBVIOUS
  <2> QED BY <2>1
<1>3. FeedsUpTo(updates, 0) = [id \in DOMAIN feeds |-> feeds[id]]
  BY <1>1, <1>2 DEF FeedsUpTo
<1>4. DOMAIN updates = 1 .. Len(updates)
  OBVIOUS
<1>5. FeedsUpTo(updates, Len(updates)) = FeedsAfter(updates)
  BY <1>4 DEF FeedsUpTo, FeedsAfter, FeedIdsOf
<1> QED BY <1>3, <1>5

\* The next update of a batch does to storage what its entry does to a replica.
LEMMA FeedsUpToStep ==
  ASSUME NEW updates \in Seq(FeedUpdate), NEW n \in DOMAIN updates
  PROVE  FeedsUpTo(updates, n) = FeedsWith(FeedsUpTo(updates, n - 1), FEvent(updates), n)
<1> DEFINE named(m) == DOMAIN feeds \cup {updates[k].feed_id : k \in 1 .. m}
           At(id, m) == LET entries == FeedEntries(updates, id, m)
                        IN  IF entries = {} THEN feeds[id]
                            ELSE Pack(updates[Max(entries)].price, updates[Max(entries)].agg_ts, now)
<1>1. n \in Nat \ {0}
  OBVIOUS
<1>2. PICK e : e = FEvent(updates)
  OBVIOUS
<1>3. e.i[n] = updates[n].feed_id /\ e.p[n] = updates[n].price /\ e.t[n] = updates[n].agg_ts
  BY <1>2 DEF FEvent
<1>4. named(n) = named(n - 1) \cup {updates[n].feed_id}
  <2>1. \A k \in 1 .. n : k = n \/ k \in 1 .. n - 1
    BY <1>1
  <2>2. n \in 1 .. n /\ 1 .. n - 1 \subseteq 1 .. n
    BY <1>1
  <2> QED BY <2>1, <2>2
<1>5. ASSUME NEW id
      PROVE  At(id, n) = IF id = updates[n].feed_id
                           THEN Pack(updates[n].price, updates[n].agg_ts, now)
                           ELSE At(id, n - 1)
  <2>1. CASE id = updates[n].feed_id
    <3>1. FeedEntries(updates, id, n) # {} /\ Max(FeedEntries(updates, id, n)) = n
      BY <1>1, <2>1, FeedEntriesStep
    <3> QED BY <2>1, <3>1
  <2>2. CASE id # updates[n].feed_id
    <3>1. FeedEntries(updates, id, n) = FeedEntries(updates, id, n - 1)
      BY <1>1, <2>2 DEF FeedEntries
    <3> QED BY <2>2, <3>1
  <2> QED BY <2>1, <2>2
<1>6. /\ \A m : FeedsUpTo(updates, m) = [id \in named(m) |-> At(id, m)]
      /\ DOMAIN FeedsUpTo(updates, n - 1) = named(n - 1)
      /\ \A id \in named(n - 1) : FeedsUpTo(updates, n - 1)[id] = At(id, n - 1)
  BY DEF FeedsUpTo
<1> HIDE DEF named, At
<1>7. FeedsWith(FeedsUpTo(updates, n - 1), e, n)
        = [id \in named(n - 1) \cup {updates[n].feed_id} |->
             IF id = updates[n].feed_id THEN Pack(updates[n].price, updates[n].agg_ts, now)
             ELSE FeedsUpTo(updates, n - 1)[id]]
  BY <1>3, <1>6 DEF FeedsWith
<1>8. FeedsUpTo(updates, n) = [id \in named(n) |-> At(id, n)]
  BY <1>6
<1>9. ASSUME NEW id \in named(n)
      PROVE  At(id, n) = IF id = updates[n].feed_id
                           THEN Pack(updates[n].price, updates[n].agg_ts, now)
                           ELSE FeedsUpTo(updates, n - 1)[id]
  BY <1>4, <1>5, <1>6
<1> QED BY <1>2, <1>4, <1>7, <1>8, <1>9

\* And it fits there: f compares it with the report the replica holds.
LEMMA ReportIsNewer ==
  ASSUME TypeOK, NEW updates \in Seq(FeedUpdate), NEW n \in DOMAIN updates,
         \A k \in DOMAIN updates : InBounds(updates, k)
  PROVE  IsNewer(FeedsUpTo(updates, n - 1), FEvent(updates), n)
<1> DEFINE id      == updates[n].feed_id
           stored  == FeedsUpTo(updates, n - 1)
           entries == FeedEntries(updates, id, n - 1)
<1>1. n \in Nat /\ n - 1 \in Nat /\ DOMAIN updates = 1 .. Len(updates) /\ Len(updates) \in Nat
  OBVIOUS
<1>2. PICK e : e = FEvent(updates)
  OBVIOUS
<1>3. e.i[n] = id /\ e.t[n] = updates[n].agg_ts
  BY <1>2 DEF FEvent
<1>4. /\ updates[n].agg_ts > PrevAggTs(updates, id, n - 1)
      /\ updates[n].agg_ts \in Nat
  <2>1. updates[n] \in FeedUpdate
    OBVIOUS
  <2> QED BY <2>1 DEF InBounds, FeedUpdate
<1>5. ASSUME id \in DOMAIN stored
      PROVE  stored[id].agg_ts = PrevAggTs(updates, id, n - 1) /\ stored[id].agg_ts \in Nat
  <2>1. CASE entries = {}
    <3>1. \A k \in 1 .. n - 1 : updates[k].feed_id # id
      BY <2>1 DEF FeedEntries
    <3>2. id \in DOMAIN feeds /\ stored[id] = feeds[id]
      BY <1>5, <2>1, <3>1 DEF FeedsUpTo
    <3>3. PrevAggTs(updates, id, n - 1) = StoredAggTs(id)
      BY <2>1 DEF PrevAggTs
    <3> QED BY <3>2, <3>3, StoredAggTsIsNat DEF StoredAggTs
  <2>2. CASE entries # {}
    <3>1. entries \subseteq 0 .. n - 1
      BY <1>1 DEF FeedEntries
    <3>2. PICK k : k = Max(entries) /\ k \in entries
      BY <1>1, <2>2, <3>1, MaxProperties
    <3>3. k \in DOMAIN updates
      BY <1>1, <3>2 DEF FeedEntries
    <3>4. stored[id] = Pack(updates[k].price, updates[k].agg_ts, now)
      BY <1>5, <2>2, <3>2 DEF FeedsUpTo
    <3>5. stored[id].agg_ts = updates[k].agg_ts
      <4> HIDE DEF stored, id
      <4> QED BY <3>3, <3>4, PackedEntry
    <3>6. PrevAggTs(updates, id, n - 1) = updates[k].agg_ts
      BY <2>2, <3>2 DEF PrevAggTs
    <3>7. updates[k] \in FeedUpdate
      BY <3>3
    <3> QED BY <3>5, <3>6, <3>7 DEF FeedUpdate
  <2> QED BY <2>1, <2>2
<1> HIDE DEF stored, id
<1>6. IsNewer(stored, e, n)
  BY <1>3, <1>4, <1>5 DEF IsNewer
<1> QED BY <1>2, <1>6 DEF stored

\* The replay of an f event leaves the feeds that f leaves, and no entry of it
\* is refused.
LEMMA FReplay ==
  ASSUME TypeOK, feeds = [id \in DOMAIN feeds |-> feeds[id]], NEW updates \in Seq(FeedUpdate),
         \A k \in DOMAIN updates : InBounds(updates, k)
  PROVE  Replay(<<FEvent(updates)>>)
         = Shown(owner, IsPaused(flags), IsOpenRead(flags), Holders, FeedsAfter(updates), {})
<1> DEFINE e == FEvent(updates)
           Now(f) == Shown(owner, IsPaused(flags), IsOpenRead(flags), Holders, f, {})
           w == [k \in 0 .. Len(updates) |-> Now(FeedsUpTo(updates, k))]
<1>1. DOMAIN updates = 1 .. Len(updates) /\ Len(updates) \in Nat
  OBVIOUS
<1>2. e.event = "f" /\ Len(e.i) = Len(updates)
  <2>1. e.event = "f" /\ e.i = [k \in 1 .. Len(updates) |-> updates[k].feed_id]
    BY <1>1 DEF FEvent
  <2> HIDE DEF e
  <2> QED BY <1>1, <2>1
<1>3. View = Now(FeedsUpTo(updates, 0)) /\ FeedsUpTo(updates, Len(updates)) = FeedsAfter(updates)
  BY ViewIsShown, FeedsUpToEnds
<1>4. ASSUME NEW k \in 1 .. Len(updates)
      PROVE  Now(FeedsUpTo(updates, k)) = ApplyReport(Now(FeedsUpTo(updates, k - 1)), e, k)
  <2>1. IsNewer(FeedsUpTo(updates, k - 1), e, k)
    BY <1>1, ReportIsNewer
  <2>2. FeedsUpTo(updates, k) = FeedsWith(FeedsUpTo(updates, k - 1), e, k)
    BY <1>1, FeedsUpToStep
  <2> HIDE DEF e
  <2> QED BY <2>1, <2>2, ApplyReportEntry
<1>5. w = [k \in 0 .. Len(e.i) |-> IF k = 0 THEN View ELSE ApplyReport(w[k - 1], e, k)]
  <2>1. ASSUME NEW k \in 0 .. Len(updates)
        PROVE  w[k] = IF k = 0 THEN View ELSE ApplyReport(w[k - 1], e, k)
    <3> HIDE DEF e, Now
    <3>1. CASE k = 0
      BY <1>3, <3>1
    <3>2. CASE k # 0
      <4>1. k \in 1 .. Len(updates) /\ k - 1 \in 0 .. Len(updates)
        BY <1>1, <3>2
      <4>2. w[k] = Now(FeedsUpTo(updates, k)) /\ w[k - 1] = Now(FeedsUpTo(updates, k - 1))
        BY <4>1
      <4> HIDE DEF w
      <4> QED BY <1>4, <3>2, <4>1, <4>2
    <3> QED BY <3>1, <3>2
  <2>2. w = [k \in 0 .. Len(updates) |-> w[k]]
    OBVIOUS
  <2> HIDE DEF w, e
  <2> QED BY <1>2, <2>1, <2>2
<1>6. ApplyReports(View, e) = w[Len(e.i)]
  <2>1. Len(e.i) \in Nat
    BY <1>1, <1>2
  <2> HIDE DEF w, e
  <2>2. IsApplied(w, View, e)
    BY <1>5 DEF IsApplied
  <2> QED BY <2>1, <2>2, ReportsIs
<1>7. w[Len(e.i)] = Now(FeedsAfter(updates))
  <2>1. Len(updates) \in 0 .. Len(updates)
    BY <1>1
  <2> HIDE DEF e, Now
  <2> QED BY <1>2, <1>3, <2>1
<1>8. ApplyEvent(View, e) = ApplyReports(View, e)
  <2> HIDE DEF e
  <2> QED BY <1>2 DEF ApplyEvent, RoleEventKinds
<1>9. Replay(<<e>>) = ApplyEvent(View, e)
  <2> HIDE DEF e
  <2> QED BY ReplayShort
<1> QED BY <1>6, <1>7, <1>8, <1>9

-----------------------------------------------------------------------------
(* The events of new                                                       *)

\* The accounts of a list among the first n events, when before events come
\* ahead of the list's own.
Listed(list, before, n) ==
  {account \in Accounts : \E j \in DOMAIN list : before + j <= n /\ list[j] = account}

ListedRoles(lists, before, n) ==
  [kind \in RoleEventKinds |-> Listed(lists[kind], before[kind], n)]

\* The event of an account of a list adds it, and it was not there before.
LEMMA ListedStep ==
  ASSUME NEW list \in Seq(Accounts), IsInjective(list), NEW before \in Nat,
         NEW n \in Nat, NEW j \in DOMAIN list, n = before + j
  PROVE  /\ Listed(list, before, n) = Listed(list, before, n - 1) \cup {list[j]}
         /\ list[j] \notin Listed(list, before, n - 1)
<1>1. /\ DOMAIN list = 1 .. Len(list) /\ Len(list) \in Nat
      /\ \A i \in DOMAIN list : list[i] \in Accounts
  OBVIOUS
<1>2. \A i \in DOMAIN list : before + i <= n - 1 <=> (before + i <= n /\ i # j)
  BY <1>1
<1>3. \A i \in DOMAIN list : list[i] = list[j] => i = j
  BY DEF IsInjective
<1>4. before + j <= n
  BY <1>1
<1> QED BY <1>1, <1>2, <1>3, <1>4 DEF Listed

\* An event that is not of the list leaves its accounts.
LEMMA ListedSame ==
  ASSUME NEW list \in Seq(Accounts), NEW before \in Nat, NEW n \in Nat,
         \A j \in DOMAIN list : before + j # n
  PROVE  Listed(list, before, n) = Listed(list, before, n - 1)
<1>1. \A j \in DOMAIN list : before + j <= n <=> before + j <= n - 1
  OBVIOUS
<1> QED BY <1>1 DEF Listed

\* No account is listed by the events ahead of the list, all are in the end.
LEMMA ListedEnds ==
  ASSUME NEW list \in Seq(Accounts), NEW before \in Nat, NEW n \in Nat
  PROVE  /\ n <= before => Listed(list, before, n) = {}
         /\ before + Len(list) <= n => Listed(list, before, n) = ToSet(list)
<1>1. \A j \in DOMAIN list : j \in Nat /\ 1 <= j /\ j <= Len(list) /\ list[j] \in Accounts
  OBVIOUS
<1>2. ASSUME n <= before
      PROVE  Listed(list, before, n) = {}
  BY <1>1, <1>2 DEF Listed
<1>3. ASSUME before + Len(list) <= n
      PROVE  Listed(list, before, n) = ToSet(list)
  <2>1. \A j \in DOMAIN list : before + j <= n
    BY <1>1, <1>3
  <2> QED BY <1>1, <2>1 DEF Listed, ToSet
<1> QED BY <1>2, <1>3

\* The n-th event of new after its first two is the one of an account of a
\* list, and of no other place in a list.
EventOfList(events, lists, before, n) ==
  \E kind \in RoleEventKinds : \E j \in DOMAIN lists[kind] :
    /\ n = before[kind] + j
    /\ events[n] = RoleStatusChanged(kind, lists[kind][j], TRUE)
    /\ \A other \in RoleEventKinds \ {kind} : \A i \in DOMAIN lists[other] : n # before[other] + i

\* The fields of a membership event.
LEMMA RoleEventFields ==
  ASSUME NEW kind, NEW account, NEW status
  PROVE  /\ RoleStatusChanged(kind, account, status).event = kind
         /\ RoleStatusChanged(kind, account, status).account = account
         /\ RoleStatusChanged(kind, account, status).status = status
BY DEF RoleStatusChanged

\* Such an event fits the replica and lists its account.
LEMMA ListedRolesStep ==
  ASSUME NEW lists, \A kind \in RoleEventKinds : lists[kind] \in Seq(Accounts) /\ IsInjective(lists[kind]),
         NEW before, \A kind \in RoleEventKinds : before[kind] \in Nat,
         NEW events, NEW n \in Nat, EventOfList(events, lists, before, n)
  PROVE  /\ IsNews(ListedRoles(lists, before, n - 1), events[n])
         /\ ListedRoles(lists, before, n) = RolesWith(ListedRoles(lists, before, n - 1), events[n])
<1>0. PICK kind \in RoleEventKinds : \E j \in DOMAIN lists[kind] :
        /\ n = before[kind] + j
        /\ events[n] = RoleStatusChanged(kind, lists[kind][j], TRUE)
        /\ \A other \in RoleEventKinds \ {kind} : \A i \in DOMAIN lists[other] : n # before[other] + i
  BY Zenon DEF EventOfList
<1>1. PICK j \in DOMAIN lists[kind] :
        /\ n = before[kind] + j
        /\ events[n] = RoleStatusChanged(kind, lists[kind][j], TRUE)
        /\ \A other \in RoleEventKinds \ {kind} : \A i \in DOMAIN lists[other] : n # before[other] + i
  BY <1>0
<1>2. PICK e, account, list, ahead :
        e = events[n] /\ account = lists[kind][j] /\ list = lists[kind] /\ ahead = before[kind]
  OBVIOUS
<1>3. e.event = kind /\ e.account = account /\ e.status = TRUE
  <2>1. PICK yes : yes = TRUE
    OBVIOUS
  <2>2. e = RoleStatusChanged(kind, account, yes)
    BY <1>1, <1>2, <2>1, Zenon
  <2>3. e.event = kind /\ e.account = account /\ e.status = yes
    BY <2>2, RoleEventFields
  <2> QED BY <2>1, <2>3
<1>4. PICK m : m = ListedRoles(lists, before, n - 1)
  OBVIOUS
<1>5. /\ m = [k \in RoleEventKinds |-> m[k]]
      /\ \A k \in RoleEventKinds : m[k] = Listed(lists[k], before[k], n - 1)
  BY <1>4 DEF ListedRoles
<1>6. /\ Listed(list, ahead, n) = Listed(list, ahead, n - 1) \cup {account}
      /\ account \notin Listed(list, ahead, n - 1)
  <2>1. /\ list \in Seq(Accounts) /\ IsInjective(list) /\ ahead \in Nat
        /\ j \in DOMAIN list /\ n = ahead + j /\ account = list[j]
    BY <1>1, <1>2
  <2>2. /\ Listed(list, ahead, n) = Listed(list, ahead, n - 1) \cup {list[j]}
        /\ list[j] \notin Listed(list, ahead, n - 1)
    BY <2>1, ListedStep
  <2> QED BY <2>1, <2>2
<1>7. ASSUME NEW other \in RoleEventKinds \ {kind}
      PROVE  Listed(lists[other], before[other], n) = Listed(lists[other], before[other], n - 1)
  BY <1>1, ListedSame
<1>8. m[kind] = Listed(list, ahead, n - 1)
  BY <1>2, <1>5
<1>9. IsNews(m, e)
  BY <1>3, <1>6, <1>8 DEF IsNews
<1>10. RolesWith(m, e) = [m EXCEPT ![kind] = m[kind] \cup {account}]
  BY <1>3, <1>5 DEF RolesWith
<1>11. RolesWith(m, e) = [k \in RoleEventKinds |-> IF k = kind THEN m[kind] \cup {account} ELSE m[k]]
  BY <1>5, <1>10
<1>12. ASSUME NEW k \in RoleEventKinds
       PROVE  Listed(lists[k], before[k], n) = IF k = kind THEN m[kind] \cup {account} ELSE m[k]
  <2>1. CASE k = kind
    BY <1>2, <1>6, <1>8, <2>1
  <2>2. CASE k # kind
    BY <1>5, <1>7, <2>2
  <2> QED BY <2>1, <2>2
<1>13. ListedRoles(lists, before, n) = RolesWith(m, e)
  BY <1>11, <1>12 DEF ListedRoles
<1> QED BY <1>2, <1>4, <1>9, <1>13

\* The lists of new by the kind of their events, and how many events precede
\* those of each: the owner's, the mode's and those of the lists before it.
ListsOf(args) ==
  [kind \in RoleEventKinds |->
     CASE kind = "admin_status_changed"             -> args.admins
       [] kind = "product_status_changed"           -> args.products
       [] kind = "price_reporter_status_changed"    -> args.price_reporters
       [] kind = "authorized_caller_status_changed" -> args.authorized_callers]

Ahead(args) ==
  [kind \in RoleEventKinds |->
     CASE kind = "admin_status_changed"             -> 2
       [] kind = "product_status_changed"           -> 2 + Len(args.admins)
       [] kind = "price_reporter_status_changed"    -> 2 + Len(args.admins) + Len(args.products)
       [] kind = "authorized_caller_status_changed" ->
            2 + Len(args.admins) + Len(args.products) + Len(args.price_reporters)]

\* The same, list by list.
LEMMA ListsAndAhead ==
  ASSUME NEW args
  PROVE  /\ ListsOf(args)["admin_status_changed"] = args.admins
         /\ ListsOf(args)["product_status_changed"] = args.products
         /\ ListsOf(args)["price_reporter_status_changed"] = args.price_reporters
         /\ ListsOf(args)["authorized_caller_status_changed"] = args.authorized_callers
         /\ Ahead(args)["admin_status_changed"] = 2
         /\ Ahead(args)["product_status_changed"] = 2 + Len(args.admins)
         /\ Ahead(args)["price_reporter_status_changed"] = 2 + Len(args.admins) + Len(args.products)
         /\ Ahead(args)["authorized_caller_status_changed"] =
              2 + Len(args.admins) + Len(args.products) + Len(args.price_reporters)
<1>1. \A kind \in {"admin_status_changed", "product_status_changed",
                   "price_reporter_status_changed", "authorized_caller_status_changed"} :
        kind \in RoleEventKinds
  BY DEF RoleEventKinds
<1>2. /\ ListsOf(args)["admin_status_changed"] = args.admins
      /\ ListsOf(args)["product_status_changed"] = args.products
      /\ ListsOf(args)["price_reporter_status_changed"] = args.price_reporters
      /\ ListsOf(args)["authorized_caller_status_changed"] = args.authorized_callers
  BY <1>1 DEF ListsOf
<1>3. /\ Ahead(args)["admin_status_changed"] = 2
      /\ Ahead(args)["product_status_changed"] = 2 + Len(args.admins)
      /\ Ahead(args)["price_reporter_status_changed"] = 2 + Len(args.admins) + Len(args.products)
      /\ Ahead(args)["authorized_caller_status_changed"] =
           2 + Len(args.admins) + Len(args.products) + Len(args.price_reporters)
  BY <1>1 DEF Ahead
<1> QED BY <1>2, <1>3

\* The events of new.
EventsOfNew(args) ==
  <<OwnershipTransferred(NoAccount, args.owner),
    FlagStatusChanged("open_read_status_changed", args.open_read_enabled)>>
    \o Members("admin_status_changed", args.admins)
    \o Members("product_status_changed", args.products)
    \o Members("price_reporter_status_changed", args.price_reporters)
    \o Members("authorized_caller_status_changed", args.authorized_callers)

\* The events of one list.
LEMMA MembersItems ==
  ASSUME NEW kind, NEW list \in Seq(Accounts)
  PROVE  LET events == Members(kind, list)
         IN  /\ \E S : events \in Seq(S)
             /\ Len(events) = Len(list)
             /\ \A j \in 1 .. Len(list) : events[j] = RoleStatusChanged(kind, list[j], TRUE)
<1> DEFINE Item(j) == RoleStatusChanged(kind, list[j], TRUE)
           events  == Members(kind, list)
<1>1. events = [j \in 1 .. Len(list) |-> Item(j)]
  <2>1. DOMAIN list = 1 .. Len(list)
    OBVIOUS
  <2> QED BY <2>1, Zenon DEF Members
<1> HIDE DEF Item, events
<1>2. /\ Len(events) = Len(list)
      /\ \A j \in 1 .. Len(list) : events[j] = Item(j)
      /\ events \in Seq({Item(j) : j \in 1 .. Len(list)})
  BY <1>1
<1>3. \E S : events \in Seq(S)
  BY <1>2
<1> QED BY <1>2, <1>3, Zenon DEF Item, events

\* Each kind of event of new has its place.
LEMMA EventsOfNewItems ==
  ASSUME NEW args, args.admins \in Seq(Accounts), args.products \in Seq(Accounts),
         args.price_reporters \in Seq(Accounts), args.authorized_callers \in Seq(Accounts)
  PROVE  LET events == EventsOfNew(args)
         IN  /\ Len(events) = Ahead(args)["authorized_caller_status_changed"]
                              + Len(args.authorized_callers)
             /\ events[1] = OwnershipTransferred(NoAccount, args.owner)
             /\ events[2] = FlagStatusChanged("open_read_status_changed", args.open_read_enabled)
             /\ \A n \in 3 .. Len(events) : EventOfList(events, ListsOf(args), Ahead(args), n)
<1> DEFINE first  == OwnershipTransferred(NoAccount, args.owner)
           second == FlagStatusChanged("open_read_status_changed", args.open_read_enabled)
           events == EventsOfNew(args)
<1>1. PICK own, a, p, r, c :
        /\ own = <<first, second>>
        /\ a = Members("admin_status_changed", args.admins)
        /\ p = Members("product_status_changed", args.products)
        /\ r = Members("price_reporter_status_changed", args.price_reporters)
        /\ c = Members("authorized_caller_status_changed", args.authorized_callers)
  OBVIOUS
<1>2. events = (own \o a) \o p \o r \o c
  BY <1>1, Zenon DEF EventsOfNew
<1>3. PICK na \in Nat, np \in Nat, nr \in Nat, nc \in Nat :
        /\ na = Len(args.admins) /\ np = Len(args.products)
        /\ nr = Len(args.price_reporters) /\ nc = Len(args.authorized_callers)
  OBVIOUS
<1> HIDE DEF first, second, events
<1>4. \E S : a \in Seq(S)
  BY <1>1, MembersItems
<1>5. \E S : p \in Seq(S)
  BY <1>1, MembersItems
<1>6. \E S : r \in Seq(S)
  BY <1>1, MembersItems
<1>7. \E S : c \in Seq(S)
  BY <1>1, MembersItems
<1>8. /\ Len(a) = na /\ \A j \in 1 .. na : a[j] = RoleStatusChanged("admin_status_changed", args.admins[j], TRUE)
      /\ Len(p) = np /\ \A j \in 1 .. np : p[j] = RoleStatusChanged("product_status_changed", args.products[j], TRUE)
      /\ Len(r) = nr /\ \A j \in 1 .. nr : r[j] = RoleStatusChanged("price_reporter_status_changed", args.price_reporters[j], TRUE)
      /\ Len(c) = nc /\ \A j \in 1 .. nc : c[j] = RoleStatusChanged("authorized_caller_status_changed", args.authorized_callers[j], TRUE)
  BY <1>1, <1>3, MembersItems, ZenonT(60)
<1>9. PICK S : own \in Seq(S) /\ a \in Seq(S) /\ p \in Seq(S) /\ r \in Seq(S) /\ c \in Seq(S)
  <2>1. PICK A, P, R, C : a \in Seq(A) /\ p \in Seq(P) /\ r \in Seq(R) /\ c \in Seq(C)
    BY <1>4, <1>5, <1>6, <1>7
  <2>2. PICK S : {first, second} \subseteq S /\ A \subseteq S /\ P \subseteq S /\ R \subseteq S /\ C \subseteq S
    <3> DEFINE all == {first, second} \cup A \cup P \cup R \cup C
    <3>1. {first, second} \subseteq all /\ A \subseteq all /\ P \subseteq all /\ R \subseteq all /\ C \subseteq all
      OBVIOUS
    <3> HIDE DEF all
    <3> QED BY <3>1
  <2>3. own \in Seq({first, second})
    BY <1>1
  <2>4. own \in Seq(S)
    BY <2>2, <2>3, SeqWidens
  <2>5. a \in Seq(S)
    BY <2>1, <2>2, SeqWidens
  <2>6. p \in Seq(S)
    BY <2>1, <2>2, SeqWidens
  <2>7. r \in Seq(S)
    BY <2>1, <2>2, SeqWidens
  <2>8. c \in Seq(S)
    BY <2>1, <2>2, SeqWidens
  <2> QED BY <2>4, <2>5, <2>6, <2>7, <2>8
<1>10. /\ own \o a \in Seq(S) /\ Len(own \o a) = 2 + na
       /\ (own \o a)[1] = first /\ (own \o a)[2] = second
       /\ \A j \in 1 .. na : (own \o a)[2 + j] = a[j]
  <2>1. Len(own) = 2 /\ own[1] = first /\ own[2] = second
    BY <1>1
  <2>2. 1 \in 1 .. 2 /\ 2 \in 1 .. 2
    OBVIOUS
  <2>3. /\ own \o a \in Seq(S) /\ Len(own \o a) = Len(own) + Len(a)
        /\ \A j \in 1 .. Len(own) : (own \o a)[j] = own[j]
        /\ \A j \in 1 .. Len(a) : (own \o a)[Len(own) + j] = a[j]
    BY <1>9, TwoLists
  <2>4. Len(a) = na
    BY <1>8, ZenonT(60)
  <2> QED BY <2>1, <2>2, <2>3, <2>4, ZenonT(60)
<1>11. PICK oa : oa = own \o a
  OBVIOUS
<1>12. /\ Len(events) = 2 + na + np + nr + nc
       /\ \A j \in 1 .. 2 + na : events[j] = oa[j]
       /\ \A j \in 1 .. np : events[2 + na + j] = p[j]
       /\ \A j \in 1 .. nr : events[2 + na + np + j] = r[j]
       /\ \A j \in 1 .. nc : events[2 + na + np + nr + j] = c[j]
  <2>1. oa \in Seq(S) /\ Len(oa) = 2 + na /\ events = oa \o p \o r \o c
    BY <1>2, <1>10, <1>11
  <2>2. /\ Len(events) = Len(oa) + Len(p) + Len(r) + Len(c)
        /\ \A j \in 1 .. Len(oa) : events[j] = oa[j]
        /\ \A j \in 1 .. Len(p) : events[Len(oa) + j] = p[j]
        /\ \A j \in 1 .. Len(r) : events[Len(oa) + Len(p) + j] = r[j]
        /\ \A j \in 1 .. Len(c) : events[Len(oa) + Len(p) + Len(r) + j] = c[j]
    <3>1. p \in Seq(S) /\ r \in Seq(S) /\ c \in Seq(S)
      BY <1>9
    <3>2. oa \in Seq(S)
      BY <2>1
    <3>3. PICK all : all = oa \o p \o r \o c
      OBVIOUS
    <3>4. /\ Len(all) = Len(oa) + Len(p) + Len(r) + Len(c)
          /\ \A j \in 1 .. Len(oa) : all[j] = oa[j]
          /\ \A j \in 1 .. Len(p) : all[Len(oa) + j] = p[j]
          /\ \A j \in 1 .. Len(r) : all[Len(oa) + Len(p) + j] = r[j]
          /\ \A j \in 1 .. Len(c) : all[Len(oa) + Len(p) + Len(r) + j] = c[j]
      BY <3>1, <3>2, <3>3, FourLists, SMTT(30)
    <3> QED BY <2>1, <3>3, <3>4, ZenonT(60)
  <2>3. Len(p) = np /\ Len(r) = nr /\ Len(c) = nc
    BY <1>8, ZenonT(60)
  <2> QED BY <2>1, <2>2, <2>3, ZenonT(60)
<1>13. /\ events[1] = first /\ events[2] = second
       /\ \A j \in 1 .. na : events[2 + j] = a[j]
  <2>1. 1 \in 1 .. 2 + na /\ 2 \in 1 .. 2 + na /\ \A j \in 1 .. na : 2 + j \in 1 .. 2 + na
    OBVIOUS
  <2> QED BY <1>10, <1>11, <1>12, <2>1
<1>14. /\ \A j \in 1 .. na : events[2 + j] = RoleStatusChanged("admin_status_changed", args.admins[j], TRUE)
       /\ \A j \in 1 .. np : events[2 + na + j] = RoleStatusChanged("product_status_changed", args.products[j], TRUE)
       /\ \A j \in 1 .. nr : events[2 + na + np + j] = RoleStatusChanged("price_reporter_status_changed", args.price_reporters[j], TRUE)
       /\ \A j \in 1 .. nc : events[2 + na + np + nr + j] = RoleStatusChanged("authorized_caller_status_changed", args.authorized_callers[j], TRUE)
  <2>1. \A j \in 1 .. na : events[2 + j] = RoleStatusChanged("admin_status_changed", args.admins[j], TRUE)
    BY <1>8, <1>13, ZenonT(60)
  <2>2. \A j \in 1 .. np : events[2 + na + j] = RoleStatusChanged("product_status_changed", args.products[j], TRUE)
    BY <1>8, <1>12, ZenonT(60)
  <2>3. \A j \in 1 .. nr : events[2 + na + np + j] = RoleStatusChanged("price_reporter_status_changed", args.price_reporters[j], TRUE)
    BY <1>8, <1>12, ZenonT(60)
  <2>4. \A j \in 1 .. nc : events[2 + na + np + nr + j] = RoleStatusChanged("authorized_caller_status_changed", args.authorized_callers[j], TRUE)
    BY <1>8, <1>12, ZenonT(60)
  <2> QED BY <2>1, <2>2, <2>3, <2>4, ZenonT(60)
<1>15. /\ Ahead(args)["admin_status_changed"] = 2
       /\ Ahead(args)["product_status_changed"] = 2 + na
       /\ Ahead(args)["price_reporter_status_changed"] = 2 + na + np
       /\ Ahead(args)["authorized_caller_status_changed"] = 2 + na + np + nr
  BY <1>3, ListsAndAhead
<1>16. /\ DOMAIN ListsOf(args)["admin_status_changed"] = 1 .. na
       /\ DOMAIN ListsOf(args)["product_status_changed"] = 1 .. np
       /\ DOMAIN ListsOf(args)["price_reporter_status_changed"] = 1 .. nr
       /\ DOMAIN ListsOf(args)["authorized_caller_status_changed"] = 1 .. nc
  <2>1. /\ DOMAIN args.admins = 1 .. na /\ DOMAIN args.products = 1 .. np
        /\ DOMAIN args.price_reporters = 1 .. nr /\ DOMAIN args.authorized_callers = 1 .. nc
    BY <1>3
  <2> QED BY <2>1, ListsAndAhead, ZenonT(60)
<1>17. \A n \in 3 .. Len(events) : EventOfList(events, ListsOf(args), Ahead(args), n)
  <2> SUFFICES ASSUME NEW n \in 3 .. Len(events)
               PROVE  EventOfList(events, ListsOf(args), Ahead(args), n)
    OBVIOUS
  <2>1. n \in Nat
    BY <1>12
  <2>2. ASSUME NEW j \in 1 .. na, n = 2 + j
        PROVE  EventOfList(events, ListsOf(args), Ahead(args), n)
    <3>1. events[n] = RoleStatusChanged("admin_status_changed", ListsOf(args)["admin_status_changed"][j], TRUE)
      BY <1>14, <2>2, ListsAndAhead, ZenonT(60)
    <3>2. \A other \in RoleEventKinds \ {"admin_status_changed"} :
            \A i \in DOMAIN ListsOf(args)[other] : n # Ahead(args)[other] + i
      BY <1>15, <1>16, <2>2 DEF RoleEventKinds
    <3>3. "admin_status_changed" \in RoleEventKinds
      BY DEF RoleEventKinds
    <3> QED BY <1>15, <1>16, <2>2, <3>1, <3>2, <3>3, Zenon DEF EventOfList
  <2>3. ASSUME NEW j \in 1 .. np, n = 2 + na + j
        PROVE  EventOfList(events, ListsOf(args), Ahead(args), n)
    <3>1. events[n] = RoleStatusChanged("product_status_changed", ListsOf(args)["product_status_changed"][j], TRUE)
      BY <1>14, <2>3, ListsAndAhead, ZenonT(60)
    <3>2. \A other \in RoleEventKinds \ {"product_status_changed"} :
            \A i \in DOMAIN ListsOf(args)[other] : n # Ahead(args)[other] + i
      BY <1>15, <1>16, <2>3 DEF RoleEventKinds
    <3>3. "product_status_changed" \in RoleEventKinds
      BY DEF RoleEventKinds
    <3> QED BY <1>15, <1>16, <2>3, <3>1, <3>2, <3>3, Zenon DEF EventOfList
  <2>4. ASSUME NEW j \in 1 .. nr, n = 2 + na + np + j
        PROVE  EventOfList(events, ListsOf(args), Ahead(args), n)
    <3>1. events[n] = RoleStatusChanged("price_reporter_status_changed", ListsOf(args)["price_reporter_status_changed"][j], TRUE)
      BY <1>14, <2>4, ListsAndAhead, ZenonT(60)
    <3>2. \A other \in RoleEventKinds \ {"price_reporter_status_changed"} :
            \A i \in DOMAIN ListsOf(args)[other] : n # Ahead(args)[other] + i
      BY <1>15, <1>16, <2>4 DEF RoleEventKinds
    <3>3. "price_reporter_status_changed" \in RoleEventKinds
      BY DEF RoleEventKinds
    <3> QED BY <1>15, <1>16, <2>4, <3>1, <3>2, <3>3, Zenon DEF EventOfList
  <2>5. ASSUME NEW j \in 1 .. nc, n = 2 + na + np + nr + j
        PROVE  EventOfList(events, ListsOf(args), Ahead(args), n)
    <3>1. events[n] = RoleStatusChanged("authorized_caller_status_changed", ListsOf(args)["authorized_caller_status_changed"][j], TRUE)
      BY <1>14, <2>5, ListsAndAhead, ZenonT(60)
    <3>2. \A other \in RoleEventKinds \ {"authorized_caller_status_changed"} :
            \A i \in DOMAIN ListsOf(args)[other] : n # Ahead(args)[other] + i
      BY <1>15, <1>16, <2>5 DEF RoleEventKinds
    <3>3. "authorized_caller_status_changed" \in RoleEventKinds
      BY DEF RoleEventKinds
    <3> QED BY <1>15, <1>16, <2>5, <3>1, <3>2, <3>3, Zenon DEF EventOfList
  <2>6. \/ \E j \in 1 .. na : n = 2 + j
        \/ \E j \in 1 .. np : n = 2 + na + j
        \/ \E j \in 1 .. nr : n = 2 + na + np + j
        \/ \E j \in 1 .. nc : n = 2 + na + np + nr + j
    <3>1. n \in Nat /\ 3 <= n /\ n <= 2 + na + np + nr + nc
      BY <1>12
    <3>2. CASE n <= 2 + na
      <4>1. n - 2 \in 1 .. na /\ n = 2 + (n - 2)
        BY <3>1, <3>2
      <4> QED BY <4>1
    <3>3. CASE n > 2 + na /\ n <= 2 + na + np
      <4>1. n - (2 + na) \in 1 .. np /\ n = 2 + na + (n - (2 + na))
        BY <3>1, <3>3
      <4> QED BY <4>1
    <3>4. CASE n > 2 + na + np /\ n <= 2 + na + np + nr
      <4>1. n - (2 + na + np) \in 1 .. nr /\ n = 2 + na + np + (n - (2 + na + np))
        BY <3>1, <3>4
      <4> QED BY <4>1
    <3>5. CASE n > 2 + na + np + nr
      <4>1. n - (2 + na + np + nr) \in 1 .. nc /\ n = 2 + na + np + nr + (n - (2 + na + np + nr))
        BY <3>1, <3>5
      <4> QED BY <4>1
    <3> QED BY <3>1, <3>2, <3>3, <3>4, <3>5
  <2> QED BY <2>2, <2>3, <2>4, <2>5, <2>6
<1>18. Len(events) = Ahead(args)["authorized_caller_status_changed"] + Len(args.authorized_callers)
  BY <1>3, <1>12, <1>15
<1> QED BY <1>13, <1>17, <1>18 DEF events, first, second

\* The replay of the events of new fills a contract nobody has initialized:
\* every event fits, and the lists become the roles.
LEMMA NewReplay ==
  ASSUME TypeOK, Fresh, ~initialized, NEW args,
         args.admins \in Seq(Accounts), args.products \in Seq(Accounts),
         args.price_reporters \in Seq(Accounts), args.authorized_callers \in Seq(Accounts),
         IsInjective(args.admins), IsInjective(args.products),
         IsInjective(args.price_reporters), IsInjective(args.authorized_callers)
  PROVE  Replay(EventsOfNew(args)) =
           Shown(args.owner, IsPaused(flags), args.open_read_enabled,
                 [kind \in RoleEventKinds |-> ToSet(ListsOf(args)[kind])], feeds, {})
<1> DEFINE events   == EventsOfNew(args)
           lists    == ListsOf(args)
           ahead    == Ahead(args)
           Owner(n) == IF n = 0 THEN owner ELSE args.owner
           Mode(n)  == IF n < 2 THEN IsOpenRead(flags) ELSE args.open_read_enabled
           Roles(n) == ListedRoles(lists, ahead, n)
           Then(n)  == Shown(Owner(n), IsPaused(flags), Mode(n), Roles(n), feeds, {})
           w        == [n \in 0 .. Len(events) |-> Then(n)]
<1>1. /\ Len(args.admins) \in Nat /\ Len(args.products) \in Nat
      /\ Len(args.price_reporters) \in Nat /\ Len(args.authorized_callers) \in Nat
  OBVIOUS
<1>2. ASSUME NEW kind \in RoleEventKinds
      PROVE  /\ lists[kind] \in Seq(Accounts) /\ IsInjective(lists[kind])
             /\ ahead[kind] \in Nat /\ ahead[kind] >= 2
             /\ ahead[kind] + Len(lists[kind]) <= Len(events)
  <2>1. Len(events) = ahead["authorized_caller_status_changed"] + Len(args.authorized_callers)
    BY EventsOfNewItems
  <2>0. PICK na \in Nat, np \in Nat, nr \in Nat, nc \in Nat :
          /\ na = Len(args.admins) /\ np = Len(args.products)
          /\ nr = Len(args.price_reporters) /\ nc = Len(args.authorized_callers)
    BY <1>1
  <2>6. /\ ahead["admin_status_changed"] = 2
        /\ ahead["product_status_changed"] = 2 + na
        /\ ahead["price_reporter_status_changed"] = 2 + na + np
        /\ ahead["authorized_caller_status_changed"] = 2 + na + np + nr
    BY <2>0, ListsAndAhead
  <2>7. Len(events) = 2 + na + np + nr + nc
    BY <2>0, <2>1, <2>6
  <2> HIDE DEF events, ahead
  <2>2. CASE kind = "admin_status_changed"
    <3>1. lists[kind] = args.admins
      BY <2>2, ListsAndAhead
    <3>2. lists[kind] \in Seq(Accounts) /\ IsInjective(lists[kind])
      BY <3>1
    <3>3. Len(lists[kind]) = na /\ ahead[kind] = 2
      BY <2>0, <2>2, <2>6, <3>1
    <3> HIDE DEF lists
    <3>4. ahead[kind] \in Nat /\ ahead[kind] >= 2 /\ ahead[kind] + Len(lists[kind]) <= Len(events)
      BY <2>7, <3>3
    <3> QED BY <3>2, <3>4
  <2>3. CASE kind = "product_status_changed"
    <3>1. lists[kind] = args.products
      BY <2>3, ListsAndAhead
    <3>2. lists[kind] \in Seq(Accounts) /\ IsInjective(lists[kind])
      BY <3>1
    <3>3. Len(lists[kind]) = np /\ ahead[kind] = 2 + na
      BY <2>0, <2>3, <2>6, <3>1
    <3> HIDE DEF lists
    <3>4. ahead[kind] \in Nat /\ ahead[kind] >= 2 /\ ahead[kind] + Len(lists[kind]) <= Len(events)
      BY <2>7, <3>3
    <3> QED BY <3>2, <3>4
  <2>4. CASE kind = "price_reporter_status_changed"
    <3>1. lists[kind] = args.price_reporters
      BY <2>4, ListsAndAhead
    <3>2. lists[kind] \in Seq(Accounts) /\ IsInjective(lists[kind])
      BY <3>1
    <3>3. Len(lists[kind]) = nr /\ ahead[kind] = 2 + na + np
      BY <2>0, <2>4, <2>6, <3>1
    <3> HIDE DEF lists
    <3>4. ahead[kind] \in Nat /\ ahead[kind] >= 2 /\ ahead[kind] + Len(lists[kind]) <= Len(events)
      BY <2>7, <3>3
    <3> QED BY <3>2, <3>4
  <2>5. CASE kind = "authorized_caller_status_changed"
    <3>1. lists[kind] = args.authorized_callers
      BY <2>5, ListsAndAhead
    <3>2. lists[kind] \in Seq(Accounts) /\ IsInjective(lists[kind])
      BY <3>1
    <3>3. Len(lists[kind]) = nc /\ ahead[kind] = 2 + na + np + nr
      BY <2>0, <2>5, <2>6, <3>1
    <3> HIDE DEF lists
    <3>4. ahead[kind] \in Nat /\ ahead[kind] >= 2 /\ ahead[kind] + Len(lists[kind]) <= Len(events)
      BY <2>7, <3>3
    <3> QED BY <3>2, <3>4
  <2> QED BY <2>2, <2>3, <2>4, <2>5 DEF RoleEventKinds
<1>3. /\ events[1] = OwnershipTransferred(NoAccount, args.owner)
      /\ events[2] = FlagStatusChanged("open_read_status_changed", args.open_read_enabled)
      /\ \A n \in 3 .. Len(events) : EventOfList(events, lists, ahead, n)
  BY EventsOfNewItems
<1>4. Len(events) \in Nat /\ Len(events) >= 2
  <2>1. Len(events) = ahead["authorized_caller_status_changed"] + Len(args.authorized_callers)
    BY EventsOfNewItems
  <2>2. ahead["authorized_caller_status_changed"] \in Nat /\ ahead["authorized_caller_status_changed"] >= 2
    BY <1>2 DEF RoleEventKinds
  <2> HIDE DEF events, ahead
  <2> QED BY <1>1, <2>1, <2>2
<1> HIDE DEF events, lists, ahead
<1>5. ASSUME NEW n \in 0 .. 2
      PROVE  Roles(n) = Holders
  <2>1. ASSUME NEW kind \in RoleEventKinds
        PROVE  Listed(lists[kind], ahead[kind], n) = {}
    <3>1. lists[kind] \in Seq(Accounts) /\ ahead[kind] \in Nat /\ n \in Nat /\ n <= ahead[kind]
      BY <1>2
    <3> QED BY <3>1, ListedEnds
  <2>2. \A kind \in RoleEventKinds : RoleOfEvent(kind) = {}
    BY DEF Fresh, RoleEventKinds, RoleOfEvent
  <2> QED BY <2>1, <2>2 DEF ListedRoles, Holders
<1>6. View = Then(0)
  <2>1. Owner(0) = owner /\ Mode(0) = IsOpenRead(flags) /\ Roles(0) = Holders
    BY <1>5
  <2> HIDE DEF Owner, Mode, Roles
  <2> QED BY <2>1, ViewIsShown
<1>7. Then(1) = ApplyEvent(Then(0), events[1])
  <2>1. /\ Owner(0) = NoAccount /\ Owner(1) = args.owner /\ Mode(0) = Mode(1)
        /\ Roles(0) = Roles(1)
    BY <1>5 DEF TypeOK
  <2> HIDE DEF Owner, Mode, Roles
  <2> QED BY <1>3, <2>1, ApplyOwnerEvent
<1>8. Then(2) = ApplyEvent(Then(1), events[2])
  <2>1. Owner(1) = Owner(2) /\ Mode(2) = args.open_read_enabled /\ Roles(1) = Roles(2)
    BY <1>5
  <2> HIDE DEF Owner, Mode, Roles
  <2> QED BY <1>3, <2>1, ApplyOpenReadEvent
<1>9. ASSUME NEW n \in 3 .. Len(events)
      PROVE  Then(n) = ApplyEvent(Then(n - 1), events[n])
  <2>1. n \in Nat
    BY <1>4
  <2>2. Owner(n - 1) = Owner(n) /\ Mode(n - 1) = Mode(n)
    BY <1>4
  <2>3. EventOfList(events, lists, ahead, n)
    BY <1>3
  <2>4. /\ IsNews(Roles(n - 1), events[n])
        /\ Roles(n) = RolesWith(Roles(n - 1), events[n])
    BY <1>2, <2>1, <2>3, ListedRolesStep
  <2> HIDE DEF Owner, Mode, Roles
  <2> QED BY <2>2, <2>4, ApplyRoleEvent
<1>10. w = [n \in 0 .. Len(events) |-> IF n = 0 THEN View ELSE ApplyEvent(w[n - 1], events[n])]
  <2> HIDE DEF Then
  <2>1. ASSUME NEW n \in 0 .. Len(events)
        PROVE  w[n] = IF n = 0 THEN View ELSE ApplyEvent(w[n - 1], events[n])
    <3>1. w[n] = Then(n)
      OBVIOUS
    <3>2. CASE n = 0
      <4> HIDE DEF w
      <4> QED BY <1>6, <3>1, <3>2
    <3>3. CASE n # 0
      <4>1. n = 1 \/ n = 2 \/ n \in 3 .. Len(events)
        BY <1>4, <3>3
      <4>2. n - 1 \in 0 .. Len(events)
        BY <1>4, <3>3
      <4>3. w[n - 1] = Then(n - 1)
        BY <4>2
      <4>4. Then(n) = ApplyEvent(Then(n - 1), events[n])
        <5>1. CASE n = 1
          BY <1>7, <5>1
        <5>2. CASE n = 2
          BY <1>8, <5>2
        <5> QED BY <1>9, <4>1, <5>1, <5>2
      <4> HIDE DEF w
      <4> QED BY <3>1, <3>3, <4>3, <4>4
    <3> QED BY <3>2, <3>3
  <2>2. w = [n \in 0 .. Len(events) |-> w[n]]
    OBVIOUS
  <2> HIDE DEF w
  <2> QED BY <2>1, <2>2
<1>11. Replay(events) = w[Len(events)]
  <2> HIDE DEF w
  <2> QED BY <1>4, <1>10, ReplayIs
<1>12. w[Len(events)] = Then(Len(events))
  <2>1. Len(events) \in 0 .. Len(events)
    BY <1>4
  <2> HIDE DEF Then
  <2> QED BY <2>1
<1>13. /\ Owner(Len(events)) = args.owner
       /\ Mode(Len(events)) = args.open_read_enabled
       /\ Roles(Len(events)) = [kind \in RoleEventKinds |-> ToSet(lists[kind])]
  <2>1. ASSUME NEW kind \in RoleEventKinds
        PROVE  Listed(lists[kind], ahead[kind], Len(events)) = ToSet(lists[kind])
    <3>1. /\ lists[kind] \in Seq(Accounts) /\ ahead[kind] \in Nat
          /\ ahead[kind] + Len(lists[kind]) <= Len(events)
      BY <1>2
    <3> QED BY <1>4, <3>1, ListedEnds
  <2> QED BY <1>4, <2>1 DEF ListedRoles
<1> HIDE DEF w, Owner, Mode, Roles
<1> QED BY <1>11, <1>12, <1>13 DEF events, lists

-----------------------------------------------------------------------------
(* The events of a receipt are its change of state                         *)

\* A flip inverts one of the two bits and leaves the other, and new sets the
\* bit of open reads alone.
LEMMA FlipsAndBits ==
  /\ \A byte \in FlagBytes :
       /\ IsPaused(byte) \in BOOLEAN /\ IsOpenRead(byte) \in BOOLEAN
       /\ IsPaused(FlipPaused(byte)) # IsPaused(byte)
       /\ IsPaused(FlipPaused(byte)) \in BOOLEAN
       /\ IsOpenRead(FlipPaused(byte)) = IsOpenRead(byte)
       /\ IsOpenRead(FlipOpenRead(byte)) # IsOpenRead(byte)
       /\ IsOpenRead(FlipOpenRead(byte)) \in BOOLEAN
       /\ IsPaused(FlipOpenRead(byte)) = IsPaused(byte)
  /\ \A status \in BOOLEAN :
       /\ IsPaused(NewFlags(FALSE, status)) = IsPaused(NewFlags(FALSE, FALSE))
       /\ IsOpenRead(NewFlags(FALSE, status)) = status
<1>1. \A b \in {0, 1, 2, 3} : BitIsSet(b, OPEN_READ_MASK) <=> b \in {1, 3}
  BY DEF BitIsSet, OPEN_READ_MASK
<1>2. \A b \in {0, 1, 2, 3} : BitIsSet(b, PAUSED_MASK) <=> b \in {2, 3}
  BY DEF BitIsSet, PAUSED_MASK
<1>3. ASSUME NEW byte \in FlagBytes
      PROVE  /\ IsPaused(byte) \in BOOLEAN /\ IsOpenRead(byte) \in BOOLEAN
             /\ IsPaused(FlipPaused(byte)) # IsPaused(byte)
             /\ IsPaused(FlipPaused(byte)) \in BOOLEAN
             /\ IsOpenRead(FlipPaused(byte)) = IsOpenRead(byte)
             /\ IsOpenRead(FlipOpenRead(byte)) # IsOpenRead(byte)
             /\ IsOpenRead(FlipOpenRead(byte)) \in BOOLEAN
             /\ IsPaused(FlipOpenRead(byte)) = IsPaused(byte)
  <2>1. byte = 0 \/ byte = 1 \/ byte = 2 \/ byte = 3
    BY DEF FlagBytes, OPEN_READ_MASK, PAUSED_MASK
  <2>2. /\ FlipPaused(byte) = IF byte \in {2, 3} THEN byte - 2 ELSE byte + 2
        /\ FlipOpenRead(byte) = IF byte \in {1, 3} THEN byte - 1 ELSE byte + 1
    BY <1>1, <1>2, <2>1 DEF FlipPaused, FlipOpenRead, Xor, OPEN_READ_MASK, PAUSED_MASK
  <2>3. \A b \in {0, 1, 2, 3} : IsOpenRead(b) <=> b \in {1, 3}
    BY <1>1 DEF IsOpenRead
  <2>4. \A b : IsOpenRead(b) \in BOOLEAN /\ IsPaused(b) \in BOOLEAN
    BY DEF IsOpenRead, IsPaused, BitIsSet
  <2> QED BY <2>1, <2>2, <2>3, <2>4 DEF IsPaused
<1>4. ASSUME NEW status \in BOOLEAN
      PROVE  /\ IsPaused(NewFlags(FALSE, status)) = IsPaused(NewFlags(FALSE, FALSE))
             /\ IsOpenRead(NewFlags(FALSE, status)) = status
  <2>1. NewFlags(FALSE, TRUE) = 1 /\ NewFlags(FALSE, FALSE) = 0
    BY DEF NewFlags, AsU8, PAUSED_MASK
  <2>2. ~IsPaused(1) /\ ~IsPaused(0) /\ IsOpenRead(1) /\ ~IsOpenRead(0)
    BY <1>1 DEF IsPaused, IsOpenRead
  <2>3. IsPaused(1) = IsPaused(0) /\ IsOpenRead(1) = TRUE /\ IsOpenRead(0) = FALSE
    BY <2>2 DEF IsPaused, IsOpenRead, BitIsSet
  <2>4. CASE status = TRUE
    BY <2>1, <2>3, <2>4
  <2>5. CASE status = FALSE
    BY <2>1, <2>3, <2>5
  <2> QED BY <2>4, <2>5
<1> QED BY <1>3, <1>4

\* The feeds are a function on the stored ids.
FeedsAreMap == feeds = [id \in DOMAIN feeds |-> feeds[id]]

\* It holds before new, and f is the only method that changes the feeds.
LEMMA FeedsStayMap ==
  /\ Init => FeedsAreMap
  /\ FeedsAreMap /\ [Next]_vars => FeedsAreMap'
<1>1. Init => FeedsAreMap
  BY DEF Init, FeedsAreMap
<1>2. ASSUME FeedsAreMap, [Next]_vars
      PROVE  FeedsAreMap'
  <2>1. (\E updates : feeds' = FeedsAfter(updates)) \/ feeds' = feeds
    BY <1>2 DEF Next, New, F, TransferOwnership, SetAdmins, SetProducts, SetPriceReporters,
                SetAuthorizedCallers, SetPaused, SetOpenReadStatus, Tick, vars
  <2>2. ASSUME NEW updates, feeds' = FeedsAfter(updates)
        PROVE  FeedsAreMap'
    BY <2>2 DEF FeedsAfter, FeedsAreMap
  <2> QED BY <1>2, <2>1, <2>2 DEF FeedsAreMap
<1> QED BY <1>1, <1>2

\* What the getters show after one role has changed.
LEMMA ViewOfRole ==
  ASSUME NEW kind \in RoleEventKinds, UNCHANGED <<owner, flags, feeds>>,
         \A other \in RoleEventKinds : other # kind => RoleOfEvent(other)' = RoleOfEvent(other)
  PROVE  View' = ViewWith(kind, RoleOfEvent(kind)')
<1>1. Holders' = [Holders EXCEPT ![kind] = RoleOfEvent(kind)']
  BY DEF Holders
<1> QED BY <1>1, ViewIsShown DEF ViewWith

\* The step of new.
LEMMA NewEmits ==
  ASSUME TypeOK, Fresh, NEW args \in InitArgs, NEW deposit, New(args, deposit)
  PROVE  View' = Replay(emitted')
<1>1. /\ args.open_read_enabled \in BOOLEAN
      /\ args.admins \in Seq(Accounts)
      /\ args.products \in Seq(Accounts)
      /\ args.price_reporters \in Seq(Accounts)
      /\ args.authorized_callers \in Seq(Accounts)
  BY InputsAssumption DEF NewArgs
<1>2. /\ ~initialized
      /\ IsInjective(args.admins) /\ IsInjective(args.products)
      /\ IsInjective(args.price_reporters) /\ IsInjective(args.authorized_callers)
  BY DEF New, NotInitialized
<1>3. /\ flags' = NewFlags(FALSE, args.open_read_enabled)
      /\ owner' = args.owner
      /\ admin' = ToSet(args.admins)
      /\ products' = ToSet(args.products)
      /\ price_reporters' = ToSet(args.price_reporters)
      /\ authorized_callers' = ToSet(args.authorized_callers)
      /\ feeds' = feeds
  BY DEF New
<1>4. emitted' = EventsOfNew(args)
  BY Zenon DEF New, EventsOfNew
<1>5. IsPaused(flags') = IsPaused(flags) /\ IsOpenRead(flags') = args.open_read_enabled
  BY <1>1, <1>2, <1>3, FlipsAndBits DEF Fresh
<1>6. Holders' = [kind \in RoleEventKinds |-> ToSet(ListsOf(args)[kind])]
  <2>1. \A kind \in RoleEventKinds : RoleOfEvent(kind)' = ToSet(ListsOf(args)[kind])
    BY <1>3, ListsAndAhead DEF RoleEventKinds, RoleOfEvent
  <2> QED BY <2>1 DEF Holders
<1>7. Replay(EventsOfNew(args)) =
        Shown(args.owner, IsPaused(flags), args.open_read_enabled,
              [kind \in RoleEventKinds |-> ToSet(ListsOf(args)[kind])], feeds, {})
  BY <1>1, <1>2, NewReplay
<1>8. View' = Shown(owner', IsPaused(flags'), IsOpenRead(flags'), Holders', feeds', {})
  BY ViewIsShown
<1> QED BY <1>3, <1>4, <1>5, <1>6, <1>7, <1>8, Zenon

\* The step of f.
LEMMA FEvents ==
  ASSUME TypeOK, FeedsAreMap, NEW updates \in FeedBatches, NEW caller, NEW deposit,
         F(caller, deposit, updates)
  PROVE  View' = Replay(emitted')
<1>1. /\ updates \in Seq(FeedUpdate)
      /\ \A k \in DOMAIN updates : InBounds(updates, k)
      /\ feeds' = FeedsAfter(updates)
      /\ emitted' = <<FEvent(updates)>>
      /\ UNCHANGED <<flags, owner, roles>>
  BY InputsAssumption DEF F
<1>2. Holders' = Holders
  BY <1>1 DEF Holders, RoleEventKinds, RoleOfEvent, roles
<1>3. Replay(<<FEvent(updates)>>)
        = Shown(owner, IsPaused(flags), IsOpenRead(flags), Holders, FeedsAfter(updates), {})
  BY <1>1, FReplay DEF FeedsAreMap
<1> QED BY <1>1, <1>2, <1>3, ViewIsShown

\* The step of a batch of role updates.
LEMMA RoleEventsStep ==
  ASSUME TypeOK, NEW updates \in RoleBatches, NEW caller, NEW deposit,
         \/ SetAdmins(caller, deposit, updates)
         \/ SetProducts(caller, deposit, updates)
         \/ SetPriceReporters(caller, deposit, updates)
         \/ SetAuthorizedCallers(caller, deposit, updates)
  PROVE  View' = Replay(emitted')
<1>1. updates \in Seq(RoleUpdate)
  BY InputsAssumption
<1>2. ASSUME NEW kind \in RoleEventKinds,
             RoleOfEvent(kind) \subseteq Accounts,
             EveryUpdateChanges(RoleOfEvent(kind), updates),
             emitted' = RoleEvents(kind, updates),
             UNCHANGED <<owner, flags, feeds>>,
             RoleOfEvent(kind)' = MembersAfter(RoleOfEvent(kind), updates),
             \A other \in RoleEventKinds : other # kind => RoleOfEvent(other)' = RoleOfEvent(other)
      PROVE  View' = Replay(emitted')
  <2>1. View' = ViewWith(kind, RoleOfEvent(kind)')
    BY <1>2, ViewOfRole
  <2>2. Replay(RoleEvents(kind, updates)) = ViewWith(kind, MembersAfter(RoleOfEvent(kind), updates))
    BY <1>1, <1>2, OwnerReplay
  <2> QED BY <1>2, <2>1, <2>2
<1>3. CASE SetAdmins(caller, deposit, updates)
  <2> DEFINE kind == "admin_status_changed"
  <2>1. kind \in RoleEventKinds /\ RoleOfEvent(kind) = admin /\ RoleOfEvent(kind)' = admin'
    BY DEF RoleEventKinds, RoleOfEvent
  <2>2. \A other \in RoleEventKinds : other # kind => RoleOfEvent(other)' = RoleOfEvent(other)
    BY <1>3 DEF SetAdmins, RoleEventKinds, RoleOfEvent
  <2>3. /\ admin \subseteq Accounts /\ EveryUpdateChanges(admin, updates)
        /\ emitted' = RoleEvents(kind, updates)
        /\ UNCHANGED <<owner, flags, feeds>>
        /\ admin' = MembersAfter(admin, updates)
    BY <1>3 DEF SetAdmins, OwnerUpdates, TypeOK
  <2> QED BY <1>2, <2>1, <2>2, <2>3
<1>4. CASE SetProducts(caller, deposit, updates)
  <2> DEFINE kind == "product_status_changed"
  <2>1. kind \in RoleEventKinds /\ RoleOfEvent(kind) = products /\ RoleOfEvent(kind)' = products'
    BY DEF RoleEventKinds, RoleOfEvent
  <2>2. \A other \in RoleEventKinds : other # kind => RoleOfEvent(other)' = RoleOfEvent(other)
    BY <1>4 DEF SetProducts, RoleEventKinds, RoleOfEvent
  <2>3. /\ products \subseteq Accounts /\ EveryUpdateChanges(products, updates)
        /\ emitted' = RoleEvents(kind, updates)
        /\ UNCHANGED <<owner, flags, feeds>>
        /\ products' = MembersAfter(products, updates)
    BY <1>4 DEF SetProducts, OwnerUpdates, TypeOK
  <2> QED BY <1>2, <2>1, <2>2, <2>3
<1>5. CASE SetPriceReporters(caller, deposit, updates)
  <2> DEFINE kind == "price_reporter_status_changed"
  <2>1. /\ kind \in RoleEventKinds /\ RoleOfEvent(kind) = price_reporters
        /\ RoleOfEvent(kind)' = price_reporters'
    BY DEF RoleEventKinds, RoleOfEvent
  <2>2. \A other \in RoleEventKinds : other # kind => RoleOfEvent(other)' = RoleOfEvent(other)
    BY <1>5 DEF SetPriceReporters, RoleEventKinds, RoleOfEvent
  <2>3. /\ price_reporters \subseteq Accounts /\ EveryUpdateChanges(price_reporters, updates)
        /\ emitted' = RoleEvents(kind, updates)
        /\ UNCHANGED <<owner, flags, feeds>>
        /\ price_reporters' = MembersAfter(price_reporters, updates)
    BY <1>5 DEF SetPriceReporters, OwnerUpdates, TypeOK
  <2> QED BY <1>2, <2>1, <2>2, <2>3
<1>6. CASE SetAuthorizedCallers(caller, deposit, updates)
  <2> DEFINE kind == "authorized_caller_status_changed"
  <2>1. /\ kind \in RoleEventKinds /\ RoleOfEvent(kind)' = authorized_callers'
    BY DEF RoleEventKinds, RoleOfEvent
  <2>2. \A other \in RoleEventKinds : other # kind => RoleOfEvent(other)' = RoleOfEvent(other)
    BY <1>6 DEF SetAuthorizedCallers, RoleEventKinds, RoleOfEvent
  <2>3. /\ authorized_callers \subseteq Accounts
        /\ emitted' = CallerEvents(updates)
        /\ UNCHANGED <<owner, flags, feeds>>
        /\ authorized_callers' = MembersAfter(authorized_callers, updates)
    BY <1>6 DEF SetAuthorizedCallers, TypeOK
  <2>4. View' = ViewWith(kind, RoleOfEvent(kind)')
    BY <2>1, <2>2, <2>3, ViewOfRole
  <2>5. Replay(CallerEvents(updates)) = ViewWith(kind, MembersAfter(authorized_callers, updates))
    BY <1>1, <2>3, CallerReplay
  <2> QED BY <2>1, <2>3, <2>4, <2>5
<1> QED BY <1>3, <1>4, <1>5, <1>6

\* The step of a change of owner or of a flag, and of no receipt at all.
LEMMA OneEventStep ==
  ASSUME TypeOK, NEW caller, NEW deposit,
         \/ \E new_owner : TransferOwnership(caller, deposit, new_owner)
         \/ \E status \in BOOLEAN : \/ SetPaused(caller, deposit, status)
                                    \/ SetOpenReadStatus(caller, deposit, status)
         \/ Tick
  PROVE  View' = Replay(emitted')
<1>1. \A e : Replay(<<e>>) = ApplyEvent(View, e)
  BY ReplayShort
<1>2. View = Shown(owner, IsPaused(flags), IsOpenRead(flags), Holders, feeds, {})
  BY ViewIsShown
<1>3. View' = Shown(owner', IsPaused(flags'), IsOpenRead(flags'), Holders', feeds', {})
  BY ViewIsShown
<1>4. roles' = roles => Holders' = Holders
  BY DEF Holders, RoleEventKinds, RoleOfEvent, roles
<1>5. ASSUME NEW new_owner, TransferOwnership(caller, deposit, new_owner)
      PROVE  View' = Replay(emitted')
  <2>1. /\ owner' = new_owner /\ flags' = flags /\ roles' = roles /\ feeds' = feeds
        /\ emitted' = <<OwnershipTransferred(owner, new_owner)>>
    BY <1>5 DEF TransferOwnership
  <2>2. ApplyEvent(View, OwnershipTransferred(owner, new_owner))
          = Shown(new_owner, IsPaused(flags), IsOpenRead(flags), Holders, feeds, {})
    BY <1>2, ApplyOwnerEvent
  <2> QED BY <1>1, <1>3, <1>4, <2>1, <2>2
<1>6. ASSUME NEW status \in BOOLEAN, SetPaused(caller, deposit, status)
      PROVE  View' = Replay(emitted')
  <2>1. /\ owner' = owner /\ roles' = roles /\ feeds' = feeds
        /\ flags' = FlipPaused(flags)
        /\ IsPaused(flags) # status
        /\ emitted' = <<FlagStatusChanged("paused_status_changed", status)>>
    BY <1>6 DEF SetPaused
  <2>2. IsPaused(flags') = status /\ IsOpenRead(flags') = IsOpenRead(flags)
    BY <2>1, FlipsAndBits DEF TypeOK
  <2>3. ApplyEvent(View, FlagStatusChanged("paused_status_changed", status))
          = Shown(owner, status, IsOpenRead(flags), Holders, feeds, {})
    BY <1>2, <2>1, ApplyPausedEvent
  <2> QED BY <1>1, <1>3, <1>4, <2>1, <2>2, <2>3
<1>7. ASSUME NEW status \in BOOLEAN, SetOpenReadStatus(caller, deposit, status)
      PROVE  View' = Replay(emitted')
  <2>1. /\ owner' = owner /\ roles' = roles /\ feeds' = feeds
        /\ flags' = FlipOpenRead(flags)
        /\ IsOpenRead(flags) # status
        /\ emitted' = <<FlagStatusChanged("open_read_status_changed", status)>>
    BY <1>7 DEF SetOpenReadStatus
  <2>2. IsOpenRead(flags') = status /\ IsPaused(flags') = IsPaused(flags)
    BY <2>1, FlipsAndBits DEF TypeOK
  <2>3. ApplyEvent(View, FlagStatusChanged("open_read_status_changed", status))
          = Shown(owner, IsPaused(flags), status, Holders, feeds, {})
    BY <1>2, <2>1, ApplyOpenReadEvent
  <2> QED BY <1>1, <1>3, <1>4, <2>1, <2>2, <2>3
<1>8. CASE Tick
  <2>1. owner' = owner /\ flags' = flags /\ roles' = roles /\ feeds' = feeds /\ emitted' = <<>>
    BY <1>8 DEF Tick
  <2> QED BY <1>2, <1>3, <1>4, <2>1, ReplayShort
<1> QED BY <1>5, <1>6, <1>7, <1>8

\* The events of every receipt of every change method, replayed in order on the
\* state before it, give the state after it, and none is refused: the log of
\* src/events.rs is complete and says nothing that did not happen, for batches
\* of any length that name an account or a feed any number of times.
THEOREM EventsReplayHold == Spec => EventsReplayState
<1>1. TypeOK /\ Fresh /\ FeedsAreMap /\ [Next]_vars => [View' = Replay(emitted')]_vars
  <2> SUFFICES ASSUME TypeOK, Fresh, FeedsAreMap, Next PROVE View' = Replay(emitted')
    OBVIOUS
  <2>1. ASSUME NEW deposit \in Deposits, NEW args \in InitArgs, New(args, deposit)
        PROVE  View' = Replay(emitted')
    BY <2>1, NewEmits
  <2>2. ASSUME NEW deposit \in Deposits, NEW caller \in Accounts, NEW updates \in FeedBatches,
               F(caller, deposit, updates)
        PROVE  View' = Replay(emitted')
    BY <2>2, FEvents
  <2>3. ASSUME NEW deposit \in Deposits, NEW caller \in Accounts, NEW updates \in RoleBatches,
               \/ SetAdmins(caller, deposit, updates)
               \/ SetProducts(caller, deposit, updates)
               \/ SetPriceReporters(caller, deposit, updates)
               \/ SetAuthorizedCallers(caller, deposit, updates)
        PROVE  View' = Replay(emitted')
    BY <2>3, RoleEventsStep
  <2>4. ASSUME NEW deposit, NEW caller,
               \/ \E new_owner : TransferOwnership(caller, deposit, new_owner)
               \/ \E status \in BOOLEAN : \/ SetPaused(caller, deposit, status)
                                          \/ SetOpenReadStatus(caller, deposit, status)
               \/ Tick
        PROVE  View' = Replay(emitted')
    BY <2>4, OneEventStep
  <2> QED BY <2>1, <2>2, <2>3, <2>4 DEF Next
<1>2. Init => Fresh /\ FeedsAreMap
  BY InitFresh, FeedsStayMap
<1>3. Fresh /\ FeedsAreMap /\ [Next]_vars => Fresh' /\ FeedsAreMap'
  BY NextFresh, FeedsStayMap
<1> QED BY <1>1, <1>2, <1>3, TypeCorrect, PTL DEF Spec, EventsReplayState

-----------------------------------------------------------------------------
(* The price that is served                                                *)

\* The last entry of a batch for a feed is what f leaves for it, packed.
LEMMA LastEntryStored ==
  ASSUME NEW updates \in Seq(FeedUpdate), NEW k \in DOMAIN updates,
         \A j \in DOMAIN updates : j > k => updates[j].feed_id # updates[k].feed_id
  PROVE  /\ updates[k].feed_id \in DOMAIN FeedsAfter(updates)
         /\ FeedsAfter(updates)[updates[k].feed_id]
              = Pack(updates[k].price, updates[k].agg_ts, now)
<1> DEFINE id      == updates[k].feed_id
           entries == FeedEntries(updates, id, Len(updates))
<1>1. DOMAIN updates = 1 .. Len(updates) /\ Len(updates) \in Nat
  OBVIOUS
<1>2. id \in DOMAIN FeedsAfter(updates)
  BY DEF FeedsAfter, FeedIdsOf
<1>3. k \in entries /\ entries \subseteq 0 .. Len(updates)
  BY <1>1 DEF FeedEntries
<1>4. Max(entries) \in entries /\ \A j \in entries : j <= Max(entries)
  <2>1. entries # {}
    BY <1>3
  <2> HIDE DEF entries
  <2> QED BY <1>1, <1>3, <2>1, MaxProperties
<1>5. Max(entries) = k
  <2>1. PICK m : m = Max(entries)
    OBVIOUS
  <2>2. m \in DOMAIN updates /\ updates[m].feed_id = id
    BY <1>1, <1>4, <2>1 DEF FeedEntries
  <2>3. k <= m
    BY <1>3, <1>4, <2>1
  <2> HIDE DEF entries
  <2> QED BY <1>1, <2>1, <2>2, <2>3
<1>6. FeedsAfter(updates)[id] = Pack(updates[k].price, updates[k].agg_ts, now)
  <2>1. entries # {}
    BY <1>3
  <2> QED BY <1>2, <1>5, <2>1 DEF FeedsAfter
<1> QED BY <1>2, <1>6

\* None of the events is one of f.
NoFEvent(events) == \A n \in DOMAIN events : events[n].event # "f"

\* No receipt but that of f emits an f event.
LEMMA OnlyFEmitsF ==
  ASSUME TypeOK, Next
  PROVE  \/ NoFEvent(emitted')
         \/ \E updates \in FeedBatches : /\ feeds' = FeedsAfter(updates)
                                         /\ emitted' = <<FEvent(updates)>>
                                         /\ now' = now
                                         /\ \A k \in DOMAIN updates : InBounds(updates, k)
<1>1. ASSUME NEW args \in InitArgs, NEW deposit, New(args, deposit)
      PROVE  NoFEvent(emitted')
  <2>1. /\ args.admins \in Seq(Accounts) /\ args.products \in Seq(Accounts)
        /\ args.price_reporters \in Seq(Accounts) /\ args.authorized_callers \in Seq(Accounts)
    BY InputsAssumption DEF NewArgs
  <2>2. PICK events : events = EventsOfNew(args)
    OBVIOUS
  <2>3. emitted' = events
    BY <1>1, <2>2, Zenon DEF New, EventsOfNew
  <2>4. DOMAIN events = 1 .. Len(events) /\ Len(events) \in Nat
    BY <2>1, <2>2 DEF EventsOfNew
  <2>5. events[1].event # "f" /\ events[2].event # "f"
    <3>1. /\ events[1] = OwnershipTransferred(NoAccount, args.owner)
          /\ events[2] = FlagStatusChanged("open_read_status_changed", args.open_read_enabled)
      BY <2>1, <2>2, EventsOfNewItems, Zenon
    <3> QED BY <3>1 DEF OwnershipTransferred, FlagStatusChanged
  <2>6. ASSUME NEW n \in 3 .. Len(events)
        PROVE  events[n].event # "f"
    <3>1. EventOfList(events, ListsOf(args), Ahead(args), n)
      BY <2>1, <2>2, <2>6, EventsOfNewItems
    <3>2. \E kind \in RoleEventKinds : \E account, status :
            events[n] = RoleStatusChanged(kind, account, status)
      BY <3>1, Zenon DEF EventOfList
    <3>3. PICK kind \in RoleEventKinds : \E account, status :
            events[n] = RoleStatusChanged(kind, account, status)
      BY <3>2
    <3>4. events[n].event = kind
      BY <3>3, RoleEventFields
    <3> QED BY <3>4 DEF RoleEventKinds
  <2> QED BY <2>3, <2>4, <2>5, <2>6 DEF NoFEvent
<1>2. ASSUME NEW updates, NEW kind \in RoleEventKinds, emitted' = RoleEvents(kind, updates)
      PROVE  NoFEvent(emitted')
  <2>1. \A n \in DOMAIN emitted' : emitted'[n].event = kind
    BY <1>2 DEF RoleEvents, RoleStatusChanged
  <2> QED BY <2>1 DEF NoFEvent, RoleEventKinds
<1>3. ASSUME NEW updates, emitted' = CallerEvents(updates)
      PROVE  NoFEvent(emitted')
  <2>1. \A n \in DOMAIN emitted' : emitted'[n].event = "authorized_caller_status_changed"
    BY <1>3 DEF CallerEvents, RoleStatusChanged
  <2> QED BY <2>1 DEF NoFEvent
<1>4. ASSUME NEW e, emitted' = <<e>>, e.event # "f"
      PROVE  NoFEvent(emitted')
  <2>1. DOMAIN emitted' = 1 .. 1 /\ emitted'[1] = e
    BY <1>4
  <2> QED BY <1>4, <2>1 DEF NoFEvent
<1>5. ASSUME NEW kind, NEW a, NEW b, kind # "f"
      PROVE  OwnershipTransferred(a, b).event # "f" /\ FlagStatusChanged(kind, a).event # "f"
  BY <1>5 DEF OwnershipTransferred, FlagStatusChanged
<1>6. emitted' = <<>> => NoFEvent(emitted')
  BY DEF NoFEvent
<1>7. ASSUME NEW caller, NEW deposit, NEW updates \in FeedBatches, F(caller, deposit, updates)
      PROVE  /\ feeds' = FeedsAfter(updates)
             /\ emitted' = <<FEvent(updates)>>
             /\ now' = now
             /\ \A k \in DOMAIN updates : InBounds(updates, k)
  BY <1>7 DEF F
<1>8. ASSUME NEW caller, NEW deposit, NEW updates,
             \/ SetAdmins(caller, deposit, updates)
             \/ SetProducts(caller, deposit, updates)
             \/ SetPriceReporters(caller, deposit, updates)
             \/ SetAuthorizedCallers(caller, deposit, updates)
      PROVE  NoFEvent(emitted')
  <2>1. \/ \E kind \in RoleEventKinds : emitted' = RoleEvents(kind, updates)
        \/ emitted' = CallerEvents(updates)
    BY <1>8 DEF SetAdmins, SetProducts, SetPriceReporters, SetAuthorizedCallers, RoleEventKinds
  <2> QED BY <1>2, <1>3, <2>1
<1>9. ASSUME NEW caller, NEW deposit, NEW new_owner, TransferOwnership(caller, deposit, new_owner)
      PROVE  NoFEvent(emitted')
  <2>1. emitted' = <<OwnershipTransferred(owner, new_owner)>>
    BY <1>9 DEF TransferOwnership
  <2>2. OwnershipTransferred(owner, new_owner).event # "f"
    BY DEF OwnershipTransferred
  <2> QED BY <1>4, <2>1, <2>2
<1>10. ASSUME NEW caller, NEW deposit, NEW status,
              SetPaused(caller, deposit, status) \/ SetOpenReadStatus(caller, deposit, status)
       PROVE  NoFEvent(emitted')
  <2>1. \E kind \in {"paused_status_changed", "open_read_status_changed"} :
          emitted' = <<FlagStatusChanged(kind, status)>>
    BY <1>10 DEF SetPaused, SetOpenReadStatus
  <2>2. \A kind \in {"paused_status_changed", "open_read_status_changed"} :
          FlagStatusChanged(kind, status).event # "f"
    BY DEF FlagStatusChanged
  <2> QED BY <1>4, <2>1, <2>2
<1>11. CASE Tick
  BY <1>6, <1>11 DEF Tick
<1> QED BY <1>1, <1>7, <1>8, <1>9, <1>10, <1>11 DEF Next

\* Every price that is tried fits the ten bytes it is stored in.
NarrowPrices ==
  \A updates \in FeedBatches : \A k \in DOMAIN updates : updates[k].price < PRICE_MODULUS

\* Where no reporter sends a price of 2^80 or more, the price served for a feed
\* is the one the last f event published (README.md:5): the truncation of the
\* storage codec (types.rs:22) is the only way the two can part, whatever else
\* the batch holds.
THEOREM NarrowPricesAreServed == Spec /\ NarrowPrices => []ServedPriceIsPublished
<1>1. Init => ServedPriceIsPublished
  BY DEF Init, ServedPriceIsPublished
<1>2. TypeOK /\ NarrowPrices /\ ServedPriceIsPublished /\ [Next]_vars => ServedPriceIsPublished'
  <2> SUFFICES ASSUME TypeOK, NarrowPrices, ServedPriceIsPublished, [Next]_vars
               PROVE  ServedPriceIsPublished'
    OBVIOUS
  <2>1. CASE UNCHANGED vars
    BY <2>1 DEF vars, ServedPriceIsPublished, FetchBatch, IsLast
  <2>2. CASE NoFEvent(emitted')
    BY <2>2 DEF NoFEvent, ServedPriceIsPublished
  <2>3. ASSUME NEW updates \in FeedBatches, feeds' = FeedsAfter(updates),
               emitted' = <<FEvent(updates)>>
        PROVE  ServedPriceIsPublished'
    <3>1. PICK e : e = FEvent(updates)
      OBVIOUS
    <3>2. /\ DOMAIN emitted' = {1} /\ emitted'[1] = e
          /\ DOMAIN e.i = DOMAIN updates
          /\ \A k \in DOMAIN updates : e.i[k] = updates[k].feed_id /\ e.p[k] = updates[k].price
      BY <2>3, <3>1 DEF FEvent
    <3>3. updates \in Seq(FeedUpdate)
      BY InputsAssumption
    <3>4. ASSUME NEW k \in DOMAIN updates,
                 \A j \in DOMAIN updates : j > k => updates[j].feed_id # updates[k].feed_id
          PROVE  /\ updates[k].feed_id \in DOMAIN feeds'
                 /\ feeds'[updates[k].feed_id].price = updates[k].price
      <4>1. /\ updates[k].feed_id \in DOMAIN feeds'
            /\ feeds'[updates[k].feed_id].price = updates[k].price % PRICE_MODULUS
        <5>1. Pack(updates[k].price, updates[k].agg_ts, now).price = updates[k].price % PRICE_MODULUS
          BY DEF Pack
        <5> QED BY <2>3, <3>3, <3>4, <5>1, LastEntryStored
      <4>2. updates[k].price \in Nat /\ updates[k].price < PRICE_MODULUS
        <5>1. updates[k] \in FeedUpdate
          BY <3>3
        <5> QED BY <5>1 DEF FeedUpdate, NarrowPrices
      <4>3. updates[k].price % PRICE_MODULUS = updates[k].price
        BY <4>2, NumbersAssumption, Truncation
      <4> QED BY <4>1, <4>3
    <3>5. ASSUME NEW id \in DOMAIN feeds'
          PROVE  (FetchBatch(<<id>>)[1])' = {feeds'[id]}
      BY DEF FetchBatch
    <3>6. ASSUME NEW k \in DOMAIN updates,
                 \A j \in DOMAIN updates : j > k => e.i[j] # e.i[k]
          PROVE  /\ (FetchBatch(<<e.i[k]>>)[1])' # {}
                 /\ \A feed \in (FetchBatch(<<e.i[k]>>)[1])' : feed.price = e.p[k]
      <4>1. PICK id : id = e.i[k]
        OBVIOUS
      <4>2. id \in DOMAIN feeds' /\ feeds'[id].price = e.p[k]
        BY <3>2, <3>4, <3>6, <4>1
      <4>3. (FetchBatch(<<id>>)[1])' = {feeds'[id]}
        BY <3>5, <4>2
      <4> QED BY <4>1, <4>2, <4>3
    <3> QED BY <3>2, <3>6 DEF ServedPriceIsPublished, IsLast
  <2> QED BY <2>1, <2>2, <2>3, OnlyFEmitsF
<1>3. NarrowPrices => NarrowPrices'
  BY DEF NarrowPrices
<1> QED BY <1>1, <1>2, <1>3, TypeCorrect, PTL DEF Spec

\* A feed is served with the date its f event published and the time of the
\* block (README.md:5): for any block times and threshold that fit the stored
\* width, f accepts no date that the six bytes of the codec would cut.
THEOREM ServedDatesArePublished == Spec => []ServedDateIsPublished
<1>1. Init => ServedDateIsPublished
  BY DEF Init, ServedDateIsPublished
<1>2. TypeOK /\ ServedDateIsPublished /\ [Next]_vars => ServedDateIsPublished'
  <2> SUFFICES ASSUME TypeOK, ServedDateIsPublished, [Next]_vars
               PROVE  ServedDateIsPublished'
    OBVIOUS
  <2>1. CASE UNCHANGED vars
    BY <2>1 DEF vars, ServedDateIsPublished, FetchBatch, IsLast
  <2>2. CASE NoFEvent(emitted')
    BY <2>2 DEF NoFEvent, ServedDateIsPublished
  <2>3. ASSUME NEW updates \in FeedBatches, feeds' = FeedsAfter(updates),
               emitted' = <<FEvent(updates)>>, now' = now,
               \A k \in DOMAIN updates : InBounds(updates, k)
        PROVE  ServedDateIsPublished'
    <3>1. PICK e : e = FEvent(updates)
      OBVIOUS
    <3>2. /\ DOMAIN emitted' = {1} /\ emitted'[1] = e
          /\ DOMAIN e.i = DOMAIN updates
          /\ \A k \in DOMAIN updates : e.i[k] = updates[k].feed_id /\ e.t[k] = updates[k].agg_ts
      BY <2>3, <3>1 DEF FEvent
    <3>3. updates \in Seq(FeedUpdate)
      BY InputsAssumption
    <3>4. ASSUME NEW k \in DOMAIN updates,
                 \A j \in DOMAIN updates : j > k => updates[j].feed_id # updates[k].feed_id
          PROVE  /\ updates[k].feed_id \in DOMAIN feeds'
                 /\ feeds'[updates[k].feed_id].agg_ts = updates[k].agg_ts
                 /\ feeds'[updates[k].feed_id].onchain_ts = now
      <4>1. /\ updates[k].feed_id \in DOMAIN feeds'
            /\ feeds'[updates[k].feed_id] = Pack(updates[k].price, updates[k].agg_ts, now)
        BY <2>3, <3>3, <3>4, LastEntryStored
      <4>2. /\ Pack(updates[k].price, updates[k].agg_ts, now).agg_ts = updates[k].agg_ts
            /\ Pack(updates[k].price, updates[k].agg_ts, now).onchain_ts = now
        BY <2>3, <3>3, PackedEntry
      <4> QED BY <4>1, <4>2
    <3>5. ASSUME NEW id \in DOMAIN feeds'
          PROVE  (FetchBatch(<<id>>)[1])' = {feeds'[id]}
      BY DEF FetchBatch
    <3>6. ASSUME NEW k \in DOMAIN updates,
                 \A j \in DOMAIN updates : j > k => e.i[j] # e.i[k]
          PROVE  /\ (FetchBatch(<<e.i[k]>>)[1])' # {}
                 /\ \A feed \in (FetchBatch(<<e.i[k]>>)[1])' :
                      feed.agg_ts = e.t[k] /\ feed.onchain_ts = now'
      <4>1. PICK id : id = e.i[k]
        OBVIOUS
      <4>2. id \in DOMAIN feeds' /\ feeds'[id].agg_ts = e.t[k] /\ feeds'[id].onchain_ts = now'
        BY <2>3, <3>2, <3>4, <3>6, <4>1
      <4>3. (FetchBatch(<<id>>)[1])' = {feeds'[id]}
        BY <3>5, <4>2
      <4> QED BY <4>1, <4>2, <4>3
    <3> QED BY <3>2, <3>6 DEF ServedDateIsPublished, IsLast
  <2> QED BY <2>1, <2>2, <2>3, OnlyFEmitsF
<1> QED BY <1>1, <1>2, TypeCorrect, PTL DEF Spec
=============================================================================
