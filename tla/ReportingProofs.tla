-------------------------- MODULE ReportingProofs --------------------------
(***************************************************************************)
(* Proofs about the feed tool and the contract, for any number of          *)
(* machines, clocks, batch sizes and reporters.  The tool's runs take      *)
(* steps of the contract, so what MultiFeedProofs shows of the contract    *)
(* holds here; the invariant adds what a batch that was accepted has left. *)
(***************************************************************************)
EXTENDS Revocation, MultiFeedProofs

-----------------------------------------------------------------------------
(* What the tool sends                                                     *)

\* The batches of the tool: report k is about feed k.
ToolBatches ==
  {updates \in FeedBatches :
     \A k \in DOMAIN updates : /\ updates[k].feed_id = k
                               /\ updates[k].price = 100 * k
                               /\ 100 * k < U32_MODULUS}

ToolRuns ==
  [stage : {"idle", "waiting", "done", "failed"}, updates : ToolBatches \cup {<<>>},
   tx : {"none", "flying", "accepted", "lost"} \cup Refusals]

ToolsOK ==
  /\ now \in 0 .. MaxTime
  /\ tools \in [Machines -> ToolRuns]
  /\ \A m \in Machines :
       /\ tools[m].tx # "none" => tools[m].updates \in ToolBatches
       /\ tools[m].stage = "done" => tools[m].tx = "accepted"

\* 100 * feed_id does not wrap where it fits.
LEMMA PriceIsExact ==
  ASSUME NEW count \in Nat, PricesFit(count), NEW k \in 1 .. count
  PROVE  Price(k) = 100 * k
<1>1. 100 * k < U32_MODULUS
  BY DEF PricesFit
<1>2. 100 * k \in Nat
  OBVIOUS
<1> QED BY <1>1, <1>2, ReportingAssumption, Truncation DEF Price

\* What a run submits is one of the tool's batches.
LEMMA BatchIsTools ==
  ASSUME now \in 0 .. MaxTime, NEW m \in Machines, NEW count \in Counts[m], NEW skew \in Skews[m],
         PricesFit(count), now + skew > 0
  PROVE  Batch(count, now + skew) \in ToolBatches
<1>1. count \in Nat
  BY ReportingAssumption
<1>2. Batch(count, now + skew) \in FeedBatches
  BY BatchesAssumption
<1>3. \A k \in 1 .. count : Price(k) = 100 * k
  BY <1>1, PriceIsExact
<1> QED BY <1>2, <1>3 DEF Batch, ToolBatches, PricesFit

\* The runs of the tool send nothing else, in whatever order they happen.
LEMMA ToolSteps ==
  ASSUME ToolsOK, [ReportingNext]_reportingVars
  PROVE  ToolsOK' /\ [Next]_vars
<1>0. now \in 0 .. MaxTime
  BY DEF ToolsOK
<1>1. ASSUME NEW m \in Machines, NEW run \in ToolRuns, tools' = [tools EXCEPT ![m] = run], now' = now,
             run.tx # "none" => run.updates \in ToolBatches,
             run.stage = "done" => run.tx = "accepted"
      PROVE  ToolsOK'
  BY <1>1 DEF ToolsOK
<1>2. \A m \in Machines : tools[m] \in ToolRuns
  BY DEF ToolsOK
<1>3. ASSUME NEW m \in Machines, Submit(m)
      PROVE  ToolsOK' /\ UNCHANGED vars
  <2>1. PICK skew \in Skews[m], count \in Counts[m] :
          /\ now + skew > 0
          /\ PricesFit(count)
          /\ tools' = [tools EXCEPT ![m] = [stage |-> "waiting", tx |-> "flying",
                                            updates |-> Batch(count, now + skew)]]
    BY <1>3 DEF Submit
  <2>2. Batch(count, now + skew) \in ToolBatches
    BY <1>0, <2>1, BatchIsTools
  <2> DEFINE run == [stage |-> "waiting", tx |-> "flying", updates |-> Batch(count, now + skew)]
  <2>3. run \in ToolRuns /\ run.tx = "flying" /\ run.stage = "waiting"
          /\ run.updates = Batch(count, now + skew)
    BY <2>2 DEF ToolRuns
  <2> HIDE DEF run
  <2>4. tools' = [tools EXCEPT ![m] = run]
    BY <2>1 DEF run
  <2> QED BY <1>1, <1>3, <2>2, <2>3, <2>4 DEF Submit, vars
<1>4. ASSUME NEW m \in Machines, NEW tx \in {"accepted", "lost"} \cup Refusals,
             tools[m].tx = "flying", tools' = [tools EXCEPT ![m].tx = tx], now' = now
      PROVE  ToolsOK'
  <2> DEFINE run == [tools[m] EXCEPT !.tx = tx]
  <2>1. /\ run \in ToolRuns
        /\ run.tx = tx
        /\ run.stage = tools[m].stage
        /\ run.updates = tools[m].updates
    BY <1>2 DEF ToolRuns, Refusals
  <2>2. tools[m].stage # "done" /\ tools[m].updates \in ToolBatches
    BY <1>4 DEF ToolsOK
  <2>3. tools' = [tools EXCEPT ![m] = run]
    BY <1>4
  <2> HIDE DEF run
  <2> QED BY <1>1, <1>4, <2>1, <2>2, <2>3
<1>5. ASSUME NEW m \in Machines, NEW stage \in {"done", "failed"},
             stage = "done" => tools[m].tx = "accepted",
             tools' = [tools EXCEPT ![m].stage = stage], now' = now
      PROVE  ToolsOK'
  <2> DEFINE run == [tools[m] EXCEPT !.stage = stage]
  <2>1. /\ run \in ToolRuns
        /\ run.tx = tools[m].tx
        /\ run.stage = stage
        /\ run.updates = tools[m].updates
    BY <1>2 DEF ToolRuns
  <2>2. tools[m].tx # "none" => tools[m].updates \in ToolBatches
    BY DEF ToolsOK
  <2>3. tools' = [tools EXCEPT ![m] = run]
    BY <1>5
  <2> HIDE DEF run
  <2> QED BY <1>1, <1>5, <2>1, <2>2, <2>3
<1>6. ASSUME NEW m \in Machines, Accept(m)
      PROVE  ToolsOK' /\ Next /\ now' = now
  <2>1. tools[m].updates \in FeedBatches
    BY <1>6 DEF Accept, ToolsOK, ToolBatches
  <2>2. ReporterOf[m] \in Accounts /\ 0 \in Deposits
    BY ReportingAssumption
  <2>3. Next /\ now' = now
    BY <1>6, <2>1, <2>2 DEF Accept, Next, F
  <2> QED BY <1>4, <1>6, <2>3 DEF Accept
<1>7. ASSUME NEW m \in Machines, Refuse(m) \/ Lose(m)
      PROVE  ToolsOK' /\ UNCHANGED vars
  <2>1. PICK tx \in {"accepted", "lost"} \cup Refusals :
          tools[m].tx = "flying" /\ tools' = [tools EXCEPT ![m].tx = tx]
    BY <1>7 DEF Refuse, Lose, Refusal, Refusals
  <2>2. UNCHANGED vars
    BY <1>7 DEF Refuse, Lose
  <2> QED BY <1>4, <2>1, <2>2 DEF vars
<1>8. ASSUME NEW m \in Machines, Answer(m) \/ GiveUp(m)
      PROVE  ToolsOK' /\ UNCHANGED vars
  <2>1. CASE Answer(m)
    <3>1. PICK stage \in {"done", "failed"} :
            /\ stage = "done" => tools[m].tx = "accepted"
            /\ tools' = [tools EXCEPT ![m].stage = stage]
      BY <2>1 DEF Answer, DoneIfSuccess
    <3> QED BY <1>5, <2>1, <3>1 DEF Answer, vars
  <2>2. CASE GiveUp(m)
    BY <1>5, <2>2 DEF GiveUp, vars
  <2> QED BY <1>8, <2>1, <2>2 DEF Answer, GiveUp
<1>9. ASSUME NEW m \in Machines, Finish(m)
      PROVE  ToolsOK' /\ UNCHANGED vars
  <2>1. Unused \in ToolRuns /\ Unused.tx = "none" /\ Unused.stage = "idle"
    BY DEF Unused, ToolRuns
  <2> QED BY <1>1, <1>9, <2>1 DEF Finish, vars
<1>10. CASE Appointments
  <2>1. ToolsOK'
    BY <1>10 DEF Appointments, New, SetPriceReporters, ToolsOK
  <2>2. Next
    BY <1>10 DEF Appointments, Next
  <2> QED BY <2>1, <2>2
<1>11. CASE NextBlock
  <2>1. now' \in 0 .. MaxTime
    BY <1>0, <1>11, NumbersAssumption DEF NextBlock, Tick
  <2> QED BY <1>11, <2>1 DEF NextBlock, Next, ToolsOK
<1>12. CASE UNCHANGED reportingVars
  BY <1>12 DEF reportingVars, vars, ToolsOK
<1> QED
  BY <1>3, <1>6, <1>7, <1>8, <1>9, <1>10, <1>11, <1>12 DEF ReportingNext, MachineStep

\* Machines that run the tool, late or twice, take steps of the contract.
THEOREM ToolsUseTheContract == ReportingSpec => Spec /\ []ToolsOK
<1>1. ReportingInit => Init /\ ToolsOK
  <2> SUFFICES ASSUME ReportingInit PROVE ToolsOK
    BY DEF ReportingInit
  <2>1. Unused \in ToolRuns /\ Unused.tx = "none" /\ Unused.stage = "idle"
    BY DEF Unused, ToolRuns
  <2> QED BY <2>1, NumbersAssumption DEF ReportingInit, Init, ToolsOK
<1>2. ToolsOK /\ [ReportingNext]_reportingVars => ToolsOK' /\ [Next]_vars
  BY ToolSteps
<1> QED BY <1>1, <1>2, PTL DEF ReportingSpec, Spec

-----------------------------------------------------------------------------
(* What an accepted batch leaves                                           *)

\* Every report of updates is stored, or a newer one for its feed.
Stored(updates) ==
  \A k \in DOMAIN updates :
    /\ updates[k].feed_id \in DOMAIN feeds
    /\ feeds[updates[k].feed_id].agg_ts >= updates[k].agg_ts

AcceptedIsStored == \A m \in Machines : tools[m].tx = "accepted" => Stored(tools[m].updates)

\* A batch of the tool is stored as it was sent: each report is the only one
\* for its feed.
LEMMA ToolBatchIsStored ==
  ASSUME TypeOK, NEW updates \in ToolBatches, NEW k \in DOMAIN updates,
         \A j \in DOMAIN updates : InBounds(updates, j)
  PROVE  /\ k \in DOMAIN FeedsAfter(updates)
         /\ FeedsAfter(updates)[k].agg_ts = updates[k].agg_ts
         /\ FeedsAfter(updates)[k].price = updates[k].price % PRICE_MODULUS
<1>1. /\ updates \in Seq(FeedUpdate)
      /\ DOMAIN updates = 1 .. Len(updates)
      /\ Len(updates) \in Nat
      /\ \A j \in DOMAIN updates : updates[j].feed_id = j
  BY InputsAssumption DEF ToolBatches
<1> DEFINE entries == FeedEntries(updates, k, Len(updates))
<1>2. entries = {k}
  BY <1>1 DEF FeedEntries
<1>3. Max(entries) = k
  <2>1. entries \subseteq 0 .. Len(updates) /\ entries # {}
    BY <1>1, <1>2
  <2>2. Max(entries) \in entries
    <3> HIDE DEF entries
    <3> QED BY <1>1, <2>1, MaxProperties
  <2> QED BY <1>2, <2>2
<1>4. k \in FeedIdsOf(updates)
  BY <1>1 DEF FeedIdsOf
<1>5. FeedsAfter(updates)[k] = Pack(updates[k].price, updates[k].agg_ts, now)
  BY <1>2, <1>3, <1>4 DEF FeedsAfter
<1>6. k \in DOMAIN FeedsAfter(updates)
  BY <1>4 DEF FeedsAfter
<1>7. Pack(updates[k].price, updates[k].agg_ts, now).agg_ts = updates[k].agg_ts
  BY <1>1, PackedEntry
<1>8. Pack(updates[k].price, updates[k].agg_ts, now).price = updates[k].price % PRICE_MODULUS
  BY DEF Pack
<1> QED BY <1>5, <1>6, <1>7, <1>8

\* The step in which a batch is accepted.
LEMMA AcceptStep ==
  ASSUME TypeOK, ToolsOK, NEW m \in Machines, Accept(m)
  PROVE  /\ tools[m].updates \in ToolBatches
         /\ tools' = [tools EXCEPT ![m].tx = "accepted"]
         /\ tools[m].tx = "flying"
         /\ \A k \in DOMAIN tools[m].updates : InBounds(tools[m].updates, k)
         /\ feeds' = FeedsAfter(tools[m].updates)
         /\ Stored(tools[m].updates)'
         /\ \A k \in DOMAIN tools[m].updates : tools[m].updates[k].agg_ts > StoredAggTs(k)
<1> DEFINE updates == tools[m].updates
<1>1. /\ tools' = [tools EXCEPT ![m].tx = "accepted"]
      /\ tools[m].tx = "flying"
      /\ \A k \in DOMAIN updates : InBounds(updates, k)
      /\ feeds' = FeedsAfter(updates)
  BY DEF Accept, F
<1>2. updates \in ToolBatches /\ tools[m] \in ToolRuns
  BY <1>1 DEF ToolsOK
<1>3. tools'[m].updates = updates
  BY <1>1, <1>2 DEF ToolsOK, ToolRuns
<1>4. \A k \in DOMAIN updates : /\ updates[k] \in FeedUpdate
                                /\ updates[k].feed_id = k
  BY <1>2, InputsAssumption DEF ToolBatches
<1>5. ASSUME NEW k \in DOMAIN updates
      PROVE  k \in DOMAIN feeds' /\ feeds'[k].agg_ts >= updates[k].agg_ts
  <2>1. feeds'[k].agg_ts = updates[k].agg_ts /\ k \in DOMAIN feeds'
    BY <1>1, <1>2, ToolBatchIsStored
  <2> QED BY <1>4, <2>1 DEF FeedUpdate
<1>6. Stored(updates)'
  <2> HIDE DEF updates
  <2>1. \A k \in DOMAIN updates : /\ updates[k].feed_id \in DOMAIN feeds'
                                  /\ feeds'[updates[k].feed_id].agg_ts >= updates[k].agg_ts
    BY <1>4, <1>5
  <2> QED BY <1>3, <2>1 DEF Stored, updates
<1>7. \A k \in DOMAIN updates : updates[k].agg_ts > StoredAggTs(k)
  <2>1. updates \in Seq(FeedUpdate)
    BY <1>2, InputsAssumption DEF ToolBatches
  <2> HIDE DEF updates
  <2> QED BY <1>1, <1>4, <2>1, BatchIsNewer DEF updates
<1> QED BY <1>1, <1>2, <1>6, <1>7

\* What was accepted before a step stays stored when feeds grow in it.
LEMMA StoredStays ==
  ASSUME TypeOK, TypeOK', FeedsGrow, NEW updates \in ToolBatches, Stored(updates)
  PROVE  \A k \in DOMAIN updates :
           /\ updates[k].feed_id \in DOMAIN feeds'
           /\ feeds'[updates[k].feed_id].agg_ts >= updates[k].agg_ts
<1> SUFFICES ASSUME NEW k \in DOMAIN updates
             PROVE  /\ updates[k].feed_id \in DOMAIN feeds'
                    /\ feeds'[updates[k].feed_id].agg_ts >= updates[k].agg_ts
  OBVIOUS
<1> DEFINE id == updates[k].feed_id
<1>1. id \in DOMAIN feeds /\ feeds[id].agg_ts >= updates[k].agg_ts
  BY DEF Stored
<1>2. id \in DOMAIN feeds' /\ (feeds'[id] = feeds[id] \/ feeds'[id].agg_ts > feeds[id].agg_ts)
  BY <1>1 DEF FeedsGrow
<1>3. feeds[id].agg_ts \in Nat /\ feeds'[id].agg_ts \in Nat
  BY <1>1, <1>2, NumbersAssumption DEF TypeOK, StoredFeed
<1>4. updates[k].agg_ts \in Nat
  <2>1. updates[k] \in FeedUpdate
    BY InputsAssumption DEF ToolBatches
  <2> QED BY <2>1 DEF FeedUpdate
<1> QED BY <1>1, <1>2, <1>3, <1>4

-----------------------------------------------------------------------------
(* What a refused batch tells                                              *)

\* A batch on its way is dated before the block from which on f takes it.
FlyingIsTimely ==
  \A m \in Machines :
    Punctual(m) /\ tools[m].tx = "flying" =>
      \A k \in DOMAIN tools[m].updates :
        tools[m].updates[k].agg_ts < now + MAX_FUTURE_DRIFT_THRESHOLD

\* A feed of updates has a report at least as new, or updates is dated zero.
Overtaken(updates) ==
  \/ Overtaking(updates) # {}
  \/ \E k \in DOMAIN updates : updates[k].agg_ts = 0

SameBatch(m) == tools'[m].tx = tools[m].tx /\ tools'[m].updates = tools[m].updates

\* Where a batch on its way and a refused one come from.
LEMMA BatchHistory ==
  ASSUME ToolsOK, [ReportingNext]_reportingVars, NEW n \in Machines
  PROVE  /\ tools'[n].tx = "flying" => SameBatch(n) \/ Submit(n)
         /\ tools'[n].tx = "out_of_bounds" =>
              \/ SameBatch(n)
              \/ /\ Refuse(n)
                 /\ Refusal(ReporterOf[n], tools[n].updates) = "out_of_bounds"
                 /\ tools'[n].updates = tools[n].updates
<1>1. tools \in [Machines -> ToolRuns] /\ \A m \in Machines : tools[m] \in ToolRuns
  BY DEF ToolsOK
<1>2. CASE tools' = tools
  BY <1>2 DEF SameBatch
<1>3. ASSUME NEW m \in Machines, MachineStep(m), n # m
      PROVE  SameBatch(n)
  <2>1. tools'[n] = tools[n]
    <3>1. CASE Submit(m) \/ Accept(m) \/ Refuse(m) \/ Lose(m)
      BY <1>1, <1>3, <3>1 DEF Submit, Accept, Refuse, Lose
    <3>2. CASE Answer(m) \/ GiveUp(m) \/ Finish(m)
      BY <1>1, <1>3, <3>2 DEF Answer, GiveUp, Finish
    <3> QED BY <1>3, <3>1, <3>2 DEF MachineStep
  <2> QED BY <2>1 DEF SameBatch
<1>4. CASE Accept(n) \/ Lose(n)
  <2>1. PICK tx \in {"accepted", "lost"} : tools' = [tools EXCEPT ![n].tx = tx]
    BY <1>4 DEF Accept, Lose
  <2>2. tools'[n].tx = tx
    BY <1>1, <2>1 DEF ToolRuns
  <2> QED BY <2>2
<1>5. CASE Answer(n) \/ GiveUp(n)
  <2>1. PICK stage \in {"done", "failed"} : tools' = [tools EXCEPT ![n].stage = stage]
    BY <1>5 DEF Answer, GiveUp
  <2> QED BY <1>1, <2>1 DEF ToolRuns, SameBatch
<1>6. CASE Finish(n)
  BY <1>1, <1>6 DEF Finish, Unused
<1>7. CASE Refuse(n)
  <2> DEFINE tx == Refusal(ReporterOf[n], tools[n].updates)
  <2>1. tools' = [tools EXCEPT ![n].tx = tx]
    BY <1>7 DEF Refuse
  <2>2. tx \in Refusals /\ tx # "flying"
    BY DEF Refusal, Refusals
  <2> HIDE DEF tx
  <2>3. tools'[n].tx = tx /\ tools'[n].updates = tools[n].updates
    BY <1>1, <2>1 DEF ToolRuns
  <2> QED BY <1>7, <2>2, <2>3 DEF tx
<1>8. CASE Submit(n)
  <2>1. PICK updates : tools' = [tools EXCEPT ![n] = [stage |-> "waiting", tx |-> "flying",
                                                      updates |-> updates]]
    BY <1>8 DEF Submit
  <2>2. tools'[n].tx = "flying"
    BY <1>1, <2>1
  <2> QED BY <1>8, <2>2
<1>9. CASE UNCHANGED reportingVars \/ Appointments \/ NextBlock
  BY <1>2, <1>9 DEF reportingVars, Appointments, NextBlock
<1> QED
  BY <1>3, <1>4, <1>5, <1>6, <1>7, <1>8, <1>9 DEF ReportingNext, MachineStep

\* No step moves the block time back.
LEMMA TimeGoesOn ==
  ASSUME ToolsOK, [ReportingNext]_reportingVars
  PROVE  now' \in Nat /\ now' >= now
<1>1. now \in Nat
  BY NumbersAssumption DEF ToolsOK
<1>2. CASE UNCHANGED reportingVars
  BY <1>1, <1>2 DEF reportingVars, vars
<1>3. CASE Appointments
  <2>1. now' = now
    BY <1>3 DEF Appointments, New, SetPriceReporters
  <2> QED BY <1>1, <2>1
<1>4. CASE NextBlock
  BY <1>1, <1>4 DEF NextBlock, Tick
<1>5. ASSUME NEW m \in Machines, MachineStep(m)
      PROVE  now' = now
  BY <1>5 DEF MachineStep, Submit, Accept, F, Refuse, Lose, Answer, GiveUp, Finish, vars
<1> QED BY <1>1, <1>2, <1>3, <1>4, <1>5 DEF ReportingNext

\* The timestamps of the tool's batches are numbers.
LEMMA ToolTimestamps ==
  ASSUME NEW updates \in ToolBatches, NEW k \in DOMAIN updates
  PROVE  updates[k].agg_ts \in Nat /\ updates[k].feed_id \in FeedIds /\ updates[k].feed_id = k
<1>1. updates[k] \in FeedUpdate
  BY InputsAssumption DEF ToolBatches
<1> QED BY <1>1 DEF FeedUpdate, ToolBatches

\* What a clock that is ahead by skew stamps stays below the bound of every
\* later block.
LEMMA LaterBlock ==
  ASSUME NEW block \in Nat, NEW later \in Nat, later >= block,
         NEW skew \in Nat, NEW threshold \in Nat, skew <= threshold
  PROVE  (block + skew) - 1 < later + threshold
OBVIOUS

\* A punctual machine's batch stays timely for as long as it is on its way.
LEMMA TimelyStays ==
  ASSUME ToolsOK, ToolsOK', FlyingIsTimely, [ReportingNext]_reportingVars
  PROVE  FlyingIsTimely'
<1> SUFFICES ASSUME NEW n \in Machines, Punctual(n), tools'[n].tx = "flying",
                    NEW k \in DOMAIN tools'[n].updates
             PROVE  tools'[n].updates[k].agg_ts < now' + MAX_FUTURE_DRIFT_THRESHOLD
  BY DEF FlyingIsTimely, Punctual
<1>1. now \in Nat /\ now' \in Nat /\ now' >= now /\ MAX_FUTURE_DRIFT_THRESHOLD \in Nat
  BY TimeGoesOn, NumbersAssumption DEF ToolsOK
<1>2. CASE SameBatch(n)
  <2>1. tools[n].updates \in ToolBatches /\ tools[n].tx = "flying"
    BY <1>2 DEF SameBatch, ToolsOK
  <2>2. k \in DOMAIN tools[n].updates /\ tools'[n].updates[k].agg_ts = tools[n].updates[k].agg_ts
    BY <1>2 DEF SameBatch
  <2>3. tools[n].updates[k].agg_ts < now + MAX_FUTURE_DRIFT_THRESHOLD
    BY <2>1, <2>2 DEF FlyingIsTimely
  <2>4. tools[n].updates[k].agg_ts \in Nat
    BY <2>1, <2>2, ToolTimestamps
  <2> QED BY <1>1, <2>2, <2>3, <2>4
<1>3. CASE Submit(n)
  <2>1. PICK skew \in Skews[n], count \in Counts[n] :
          tools' = [tools EXCEPT ![n] = [stage |-> "waiting", tx |-> "flying",
                                         updates |-> Batch(count, now + skew)]]
    BY <1>3 DEF Submit
  <2>2. tools'[n].updates = Batch(count, now + skew)
    BY <2>1 DEF ToolsOK
  <2>3. tools'[n].updates[k].agg_ts = (now + skew) - 1
    BY <2>2 DEF Batch
  <2>4. skew \in Nat /\ skew <= MAX_FUTURE_DRIFT_THRESHOLD
    BY ReportingAssumption DEF Punctual
  <2>5. (now + skew) - 1 < now' + MAX_FUTURE_DRIFT_THRESHOLD
    BY <1>1, <2>4, LaterBlock
  <2> QED BY <2>3, <2>5
<1> QED BY <1>2, <1>3, BatchHistory

\* What f takes to be out of bounds in a batch of the tool.
LEMMA OutOfBoundsIsOvertaken ==
  ASSUME TypeOK, ToolsOK, FlyingIsTimely, NEW m \in Machines, Punctual(m), Refuse(m),
         Refusal(ReporterOf[m], tools[m].updates) = "out_of_bounds"
  PROVE  Overtaken(tools[m].updates)
<1> DEFINE updates == tools[m].updates
<1>1. tools[m].tx = "flying" /\ updates \in ToolBatches
  BY DEF Refuse, ToolsOK
<1>2. PICK k \in DOMAIN updates : ~InBounds(updates, k)
  BY DEF Refuse, FAccepts, Refusal
<1>3. updates[k].agg_ts < now + MAX_FUTURE_DRIFT_THRESHOLD
  BY <1>1 DEF FlyingIsTimely
<1>4. ~(updates[k].agg_ts > PrevAggTs(updates, updates[k].feed_id, k - 1))
  BY <1>2, <1>3 DEF InBounds
<1> HIDE DEF updates
<1>5. /\ k \in Nat
      /\ updates[k].feed_id = k
      /\ updates[k].agg_ts \in Nat
      /\ \A j \in 1 .. k - 1 : updates[j].feed_id = j
  <2>1. updates \in Seq(FeedUpdate)
    BY <1>1, InputsAssumption DEF ToolBatches
  <2>2. k \in 1 .. Len(updates) /\ Len(updates) \in Nat /\ DOMAIN updates = 1 .. Len(updates)
    BY <2>1
  <2> QED BY <1>1, <2>2, ToolTimestamps
<1>6. PrevAggTs(updates, k, k - 1) = StoredAggTs(k)
  <2>1. FeedEntries(updates, k, k - 1) = {}
    BY <1>5 DEF FeedEntries
  <2> QED BY <2>1 DEF PrevAggTs
<1>7. StoredAggTs(k) \in Nat
  BY StoredAggTsIsNat
<1>8. StoredAggTs(updates[k].feed_id) >= updates[k].agg_ts
  BY <1>4, <1>5, <1>6, <1>7
<1>9. updates[k].agg_ts # 0 => k \in Overtaking(updates)
  BY <1>5, <1>7, <1>8 DEF StoredAggTs, Overtaking
<1> QED BY <1>9 DEF Overtaken, updates

\* A feed that overtakes a batch goes on overtaking it.
LEMMA OvertakingGrows ==
  ASSUME TypeOK, TypeOK', FeedsGrow, NEW updates \in ToolBatches, NEW k \in Overtaking(updates)
  PROVE  /\ k \in DOMAIN updates
         /\ updates[k].feed_id \in DOMAIN feeds'
         /\ feeds'[updates[k].feed_id].agg_ts >= updates[k].agg_ts
<1> DEFINE id == updates[k].feed_id
<1>1. k \in DOMAIN updates /\ id \in DOMAIN feeds /\ feeds[id].agg_ts >= updates[k].agg_ts
  BY DEF Overtaking
<1>2. id \in DOMAIN feeds' /\ (feeds'[id] = feeds[id] \/ feeds'[id].agg_ts > feeds[id].agg_ts)
  BY <1>1 DEF FeedsGrow
<1>3. feeds[id].agg_ts \in Nat /\ feeds'[id].agg_ts \in Nat
  BY <1>1, <1>2, NumbersAssumption DEF TypeOK, StoredFeed
<1>4. updates[k].agg_ts \in Nat
  BY <1>1, ToolTimestamps
<1> QED BY <1>1, <1>2, <1>3, <1>4

\* What was overtaken stays overtaken, and what is refused next is.
LEMMA OvertakenStays ==
  ASSUME TypeOK, TypeOK', ToolsOK, FeedsGrow, FlyingIsTimely, RefusedIsOvertaken,
         [ReportingNext]_reportingVars
  PROVE  RefusedIsOvertaken'
<1> SUFFICES ASSUME NEW n \in Machines, Punctual(n), tools'[n].tx = "out_of_bounds"
             PROVE  Overtaken(tools[n].updates)'
  BY DEF RefusedIsOvertaken, Overtaken, Punctual
<1>1. tools'[n].updates = tools[n].updates /\ tools[n].updates \in ToolBatches
  BY BatchHistory DEF SameBatch, Refuse, ToolsOK
<1>2. Overtaken(tools[n].updates)
  <2>1. CASE SameBatch(n)
    BY <2>1 DEF SameBatch, RefusedIsOvertaken, Overtaken
  <2>2. CASE Refuse(n) /\ Refusal(ReporterOf[n], tools[n].updates) = "out_of_bounds"
    BY <2>2, OutOfBoundsIsOvertaken
  <2> QED BY <2>1, <2>2, BatchHistory
<1>3. ASSUME NEW k \in Overtaking(tools[n].updates)
      PROVE  Overtaken(tools[n].updates)'
  <2>1. /\ k \in DOMAIN tools[n].updates
        /\ tools[n].updates[k].feed_id \in DOMAIN feeds'
        /\ feeds'[tools[n].updates[k].feed_id].agg_ts >= tools[n].updates[k].agg_ts
    BY <1>1, <1>3, OvertakingGrows
  <2> QED BY <1>1, <2>1 DEF Overtaken, Overtaking
<1>4. ASSUME NEW k \in DOMAIN tools[n].updates, tools[n].updates[k].agg_ts = 0
      PROVE  Overtaken(tools[n].updates)'
  BY <1>1, <1>4 DEF Overtaken
<1> QED BY <1>2, <1>3, <1>4 DEF Overtaken

-----------------------------------------------------------------------------
(* The invariant                                                           *)

ReportInv ==
  AcceptedIsStored /\ StoredOnce /\ PricesAreExact /\ FlyingIsTimely /\ RefusedIsOvertaken

\* Any step but an acceptance: no batch becomes accepted, and feeds stay.
LEMMA OtherSteps ==
  ASSUME ToolsOK, [ReportingNext]_reportingVars, ~\E m \in Machines : Accept(m)
  PROVE  /\ feeds' = feeds
         /\ \A m \in Machines : tools'[m].tx = "accepted" =>
              tools[m].tx = "accepted" /\ tools'[m].updates = tools[m].updates
<1>1. \A m \in Machines : tools[m] \in ToolRuns /\ tools \in [Machines -> ToolRuns]
  BY DEF ToolsOK
<1>2. CASE UNCHANGED reportingVars
  BY <1>2 DEF reportingVars, vars
<1>3. CASE Appointments \/ NextBlock
  BY <1>3 DEF Appointments, NextBlock, New, SetPriceReporters, Tick
<1>4. ASSUME NEW m \in Machines, MachineStep(m), ~Accept(m)
      PROVE  /\ feeds' = feeds
             /\ \A n \in Machines : tools'[n].tx = "accepted" =>
                  tools[n].tx = "accepted" /\ tools'[n].updates = tools[n].updates
  <2>1. feeds' = feeds
    BY <1>4 DEF MachineStep, Submit, Refuse, Lose, Answer, GiveUp, Finish, vars
  <2>2. \A n \in Machines \ {m} : tools'[n] = tools[n]
    BY <1>1, <1>4 DEF MachineStep, Submit, Refuse, Lose, Answer, GiveUp, Finish
  <2>3. CASE Submit(m) \/ Finish(m)
    <3>1. tools'[m].tx # "accepted"
      BY <1>1, <2>3 DEF Submit, Finish, Unused
    <3> QED BY <2>1, <2>2, <3>1
  <2>4. CASE Refuse(m) \/ Lose(m)
    <3>1. tools'[m].tx # "accepted"
      <4>1. PICK tx \in {"lost"} \cup Refusals : tools' = [tools EXCEPT ![m].tx = tx]
        BY <2>4 DEF Refuse, Lose, Refusal, Refusals
      <4>2. tx # "accepted"
        BY DEF Refusals
      <4> QED BY <1>1, <4>1, <4>2 DEF ToolRuns
    <3> QED BY <2>1, <2>2, <3>1
  <2>5. CASE Answer(m) \/ GiveUp(m)
    <3>1. tools'[m].tx = tools[m].tx /\ tools'[m].updates = tools[m].updates
      BY <1>1, <2>5 DEF Answer, GiveUp, ToolRuns
    <3> QED BY <2>1, <2>2, <3>1
  <2> QED BY <1>4, <2>3, <2>4, <2>5 DEF MachineStep
<1> QED BY <1>2, <1>3, <1>4 DEF ReportingNext

\* What is accepted stays stored, across every step.
LEMMA AcceptedStays ==
  ASSUME TypeOK, TypeOK', ToolsOK, ToolsOK', FeedsGrow, AcceptedIsStored,
         [ReportingNext]_reportingVars
  PROVE  AcceptedIsStored'
<1>1. ASSUME NEW n \in Machines, tools[n].tx = "accepted", tools'[n].updates = tools[n].updates
      PROVE  Stored(tools[n].updates)'
  <2>1. tools[n].updates \in ToolBatches /\ Stored(tools[n].updates)
    BY <1>1 DEF ToolsOK, AcceptedIsStored
  <2> QED BY <1>1, <2>1, StoredStays DEF Stored
<1>2. ASSUME NEW m \in Machines, Accept(m), NEW n \in Machines, tools'[n].tx = "accepted"
      PROVE  Stored(tools[n].updates)'
  <2>1. CASE n = m
    BY <1>2, <2>1, AcceptStep
  <2>2. CASE n # m
    <3>1. tools'[n] = tools[n]
      BY <1>2, <2>2, AcceptStep DEF ToolsOK
    <3> QED BY <1>1, <1>2, <3>1
  <2> QED BY <2>1, <2>2
<1>3. CASE ~\E m \in Machines : Accept(m)
  BY <1>1, <1>3, OtherSteps DEF AcceptedIsStored
<1> QED BY <1>2, <1>3 DEF AcceptedIsStored

\* The batch that is accepted is newer than all that were accepted before.
LEMMA OnceStays ==
  ASSUME TypeOK, ToolsOK, AcceptedIsStored, StoredOnce, [ReportingNext]_reportingVars
  PROVE  StoredOnce'
<1>1. CASE ~\E m \in Machines : Accept(m)
  BY <1>1, OtherSteps DEF StoredOnce
<1>2. ASSUME NEW m \in Machines, Accept(m)
      PROVE  StoredOnce'
  <2>1. \A n \in Machines \ {m} : tools'[n] = tools[n]
    BY <1>2, AcceptStep DEF ToolsOK
  <2>2. tools'[m].updates = tools[m].updates
    <3>1. tools[m] \in ToolRuns /\ tools \in [Machines -> ToolRuns]
      BY DEF ToolsOK
    <3>2. tools' = [tools EXCEPT ![m].tx = "accepted"]
      BY <1>2, AcceptStep
    <3> QED BY <3>1, <3>2 DEF ToolRuns
  <2>3. ASSUME NEW n \in Machines, tools[n].tx = "accepted",
               NEW j \in DOMAIN tools[m].updates, NEW k \in DOMAIN tools[n].updates,
               tools[m].updates[j].feed_id = tools[n].updates[k].feed_id
        PROVE  tools[m].updates[j].agg_ts # tools[n].updates[k].agg_ts
    <3>1. tools[m].updates \in ToolBatches /\ tools[m].updates[j].agg_ts > StoredAggTs(j)
      BY <1>2, AcceptStep
    <3>2. tools[n].updates \in ToolBatches /\ Stored(tools[n].updates)
      BY <2>3 DEF ToolsOK, AcceptedIsStored
    <3>3. j = k
      BY <2>3, <3>1, <3>2 DEF ToolBatches
    <3>4. k \in DOMAIN feeds /\ feeds[k].agg_ts >= tools[n].updates[k].agg_ts
      BY <3>2 DEF Stored, ToolBatches
    <3>5. StoredAggTs(k) >= tools[n].updates[k].agg_ts
      BY <3>4 DEF StoredAggTs
    <3>6. /\ tools[m].updates[j].agg_ts \in Nat
          /\ tools[n].updates[k].agg_ts \in Nat
          /\ StoredAggTs(k) \in Nat
      <4>1. tools[m].updates[j] \in FeedUpdate /\ tools[n].updates[k] \in FeedUpdate
        BY <3>1, <3>2, InputsAssumption DEF ToolBatches
      <4> QED BY <4>1, StoredAggTsIsNat DEF FeedUpdate
    <3> QED BY <3>1, <3>3, <3>5, <3>6
  <2>4. SUFFICES ASSUME NEW a \in Machines, NEW b \in Machines, a # b,
                        tools'[a].tx = "accepted", tools'[b].tx = "accepted",
                        NEW j \in DOMAIN tools'[a].updates, NEW k \in DOMAIN tools'[b].updates,
                        tools'[a].updates[j].feed_id = tools'[b].updates[k].feed_id
                 PROVE  tools'[a].updates[j].agg_ts # tools'[b].updates[k].agg_ts
    BY DEF StoredOnce
  <2>5. CASE a # m /\ b # m
    BY <2>1, <2>4, <2>5 DEF StoredOnce
  <2>6. CASE a = m
    <3>1. tools'[b] = tools[b]
      BY <2>1, <2>4, <2>6
    <3> QED BY <2>2, <2>3, <2>4, <2>6, <3>1
  <2>7. CASE b = m
    <3>1. tools'[a] = tools[a]
      BY <2>1, <2>4, <2>7
    <3> QED BY <2>2, <2>3, <2>4, <2>7, <3>1
  <2> QED BY <2>5, <2>6, <2>7
<1> QED BY <1>1, <1>2

\* Prices are stored as the tool computed them.
LEMMA PricesStay ==
  ASSUME TypeOK, ToolsOK, PricesAreExact, [ReportingNext]_reportingVars
  PROVE  PricesAreExact'
<1>1. CASE ~\E m \in Machines : Accept(m)
  BY <1>1, OtherSteps DEF PricesAreExact
<1>2. ASSUME NEW m \in Machines, Accept(m), NEW id \in DOMAIN feeds'
      PROVE  feeds'[id].price = 100 * id
  <2> DEFINE updates == tools[m].updates
  <2>1. /\ updates \in ToolBatches
        /\ feeds' = FeedsAfter(updates)
        /\ \A k \in DOMAIN updates : InBounds(updates, k)
    BY <1>2, AcceptStep
  <2> HIDE DEF updates
  <2>2. updates \in Seq(FeedUpdate) /\ \A k \in DOMAIN updates : updates[k].feed_id = k
    BY <2>1, InputsAssumption DEF ToolBatches
  <2>3. CASE id \in DOMAIN feeds /\ feeds'[id] = feeds[id]
    BY <2>3 DEF PricesAreExact
  <2>4. CASE id \in DOMAIN updates
    <3>1. feeds'[id].price = updates[id].price % PRICE_MODULUS
      BY <2>1, <2>4, ToolBatchIsStored
    <3>2. updates[id].price = 100 * id
      BY <2>1, <2>4 DEF ToolBatches
    <3>3. 100 * id \in Nat /\ 100 * id < PRICE_MODULUS
      <4>1. id \in Nat /\ 100 * id < U32_MODULUS
        BY <2>1, <2>2, <2>4 DEF ToolBatches
      <4> QED BY <4>1, ReportingAssumption, NumbersAssumption
    <3> QED BY <3>1, <3>2, <3>3, NumbersAssumption, Truncation
  <2>5. (id \in DOMAIN feeds /\ feeds'[id] = feeds[id]) \/ id \in DOMAIN updates
    BY <2>1, <2>2, FeedAfterBatch
  <2> QED BY <2>3, <2>4, <2>5
<1> QED BY <1>1, <1>2 DEF PricesAreExact

\* The invariant holds in every reachable state of the tools and the contract.
LEMMA ReportInvariant == ReportingSpec => []ReportInv
<1>1. ReportingInit => ReportInv
  <2>1. DOMAIN <<>> = {}
    OBVIOUS
  <2> QED BY <2>1 DEF ReportingInit, Init, ReportInv, AcceptedIsStored, StoredOnce, PricesAreExact,
                      FlyingIsTimely, RefusedIsOvertaken, Unused
<1>2. TypeOK /\ TypeOK' /\ ToolsOK /\ ToolsOK' /\ [FeedsGrow]_vars /\ ReportInv /\ [ReportingNext]_reportingVars
        => ReportInv'
  <2>1. [FeedsGrow]_vars => FeedsGrow
    BY DEF FeedsGrow, vars
  <2> QED BY <2>1, AcceptedStays, OnceStays, PricesStay, TimelyStays, OvertakenStays DEF ReportInv
<1> QED
  BY <1>1, <1>2, FeedsOnlyGrow, ToolsUseTheContract, TypeCorrect, PTL DEF ReportingSpec

-----------------------------------------------------------------------------
(* The properties                                                          *)

\* "Done." is printed over a batch that is stored, or was followed by newer
\* reports, whatever was delayed, lost or sent again (feed.rs:43-52).
THEOREM AcknowledgedIsStored == ReportingSpec => []AckedIsStored
<1>1. ToolsOK /\ ReportInv => AckedIsStored
  BY DEF ToolsOK, ReportInv, AcceptedIsStored, Stored, AckedIsStored
<1> QED BY <1>1, ReportInvariant, ToolsUseTheContract, PTL

\* No report gets through twice, for whatever number of machines that run the
\* tool with whatever clocks (feed.rs:29-43, lib.rs:138).
THEOREM ReportsAreStoredOnce == ReportingSpec => []StoredOnce
<1>1. ReportInv => StoredOnce
  BY DEF ReportInv
<1> QED BY <1>1, ReportInvariant, PTL

\* No price wraps on its way to the chain (feed.rs:36).
THEOREM PricesStayExact == ReportingSpec => []PricesAreExact
<1>1. ReportInv => PricesAreExact
  BY DEF ReportInv
<1> QED BY <1>1, ReportInvariant, PTL

\* A batch whose clock was within the drift is refused for its timestamps
\* only when one of its feeds was overtaken, however late it executes and
\* whoever else reports (lib.rs:142-146).
THEOREM RefusedWasOvertaken == ReportingSpec => []RefusedIsOvertaken
<1>1. ReportInv => RefusedIsOvertaken
  BY DEF ReportInv
<1> QED BY <1>1, ReportInvariant, PTL

-----------------------------------------------------------------------------
(* Revocation                                                              *)

\* The history is of the right types.
HistoryOK ==
  /\ DOMAIN authors = DOMAIN feeds
  /\ \A id \in DOMAIN feeds : authors[id] \in Accounts
  /\ outSince \in [Accounts -> Nat]

\* What an account that is out has in storage is from before.
RevokedStoresNothing ==
  \A id \in DOMAIN feeds :
    authors[id] \notin price_reporters => feeds[id].onchain_ts <= outSince[authors[id]]

\* An accepted batch was, and stays, within the drift of the block time.
AcceptedInTime ==
  \A m \in Machines :
    tools[m].tx = "accepted" =>
      \A k \in DOMAIN tools[m].updates :
        tools[m].updates[k].agg_ts < now + MAX_FUTURE_DRIFT_THRESHOLD

\* The one of an account that is out was within the drift of its revocation.
RevokedInTime ==
  \A m \in Machines :
    tools[m].tx = "accepted" /\ ReporterOf[m] \notin price_reporters =>
      \A k \in DOMAIN tools[m].updates :
        tools[m].updates[k].agg_ts < outSince[ReporterOf[m]] + MAX_FUTURE_DRIFT_THRESHOLD

RevocationInv == HistoryOK /\ RevokedStoresNothing /\ AcceptedInTime /\ RevokedInTime

\* Every step with its history is a step of the tools and the contract.
LEMMA RevocationStep ==
  ASSUME [RevocationNext]_revocationVars
  PROVE  [ReportingNext]_reportingVars
<1>1. CASE RevocationNext
  BY <1>1 DEF RevocationNext, Stores, StoresNothing, Appoints, ReportingNext, MachineStep
<1>2. CASE UNCHANGED revocationVars
  BY <1>2 DEF revocationVars
<1> QED BY <1>1, <1>2

\* A step that leaves the history, the roles and the feeds alone, and in which
\* nothing is accepted and no time is lost.
LEMMA NothingRevoked ==
  ASSUME ToolsOK, ToolsOK', RevocationInv, [ReportingNext]_reportingVars,
         ~\E m \in Machines : Accept(m),
         UNCHANGED <<authors, outSince, price_reporters>>
  PROVE  RevocationInv'
<1>1. /\ feeds' = feeds
      /\ \A m \in Machines : tools'[m].tx = "accepted" =>
           tools[m].tx = "accepted" /\ tools'[m].updates = tools[m].updates
  BY OtherSteps
<1>2. now \in Nat /\ now' \in Nat /\ now' >= now /\ MAX_FUTURE_DRIFT_THRESHOLD \in Nat
  BY TimeGoesOn, NumbersAssumption DEF ToolsOK
<1>3. HistoryOK' /\ RevokedStoresNothing'
  BY <1>1 DEF RevocationInv, HistoryOK, RevokedStoresNothing
<1>4. AcceptedInTime'
  <2> SUFFICES ASSUME NEW m \in Machines, tools'[m].tx = "accepted",
                      NEW k \in DOMAIN tools'[m].updates
               PROVE  tools'[m].updates[k].agg_ts < now' + MAX_FUTURE_DRIFT_THRESHOLD
    BY DEF AcceptedInTime
  <2>1. tools[m].tx = "accepted" /\ tools'[m].updates = tools[m].updates
    BY <1>1
  <2>2. tools[m].updates[k].agg_ts < now + MAX_FUTURE_DRIFT_THRESHOLD
    BY <2>1 DEF RevocationInv, AcceptedInTime
  <2>3. tools[m].updates[k].agg_ts \in Nat
    BY <2>1, ToolTimestamps DEF ToolsOK
  <2> QED BY <1>2, <2>1, <2>2, <2>3
<1>5. RevokedInTime'
  BY <1>1 DEF RevocationInv, RevokedInTime
<1> QED BY <1>3, <1>4, <1>5 DEF RevocationInv

\* What is accepted has a reporter for its author.
LEMMA StoresKeeps ==
  ASSUME TypeOK, ToolsOK, RevocationInv, NEW m \in Machines, Stores(m)
  PROVE  RevocationInv'
<1> DEFINE updates == tools[m].updates
<1>1. /\ updates \in ToolBatches
      /\ tools' = [tools EXCEPT ![m].tx = "accepted"]
      /\ \A k \in DOMAIN updates : InBounds(updates, k)
      /\ feeds' = FeedsAfter(updates)
  BY AcceptStep DEF Stores
<1>2. /\ ReporterOf[m] \in price_reporters
      /\ price_reporters' = price_reporters
      /\ now' = now
      /\ outSince' = outSince
      /\ authors' = AuthoredBy(ReporterOf[m], updates)
  BY DEF Stores, Accept, F, roles
<1>3. ReporterOf[m] \in Accounts
  BY ReportingAssumption
<1>4. tools'[m].updates = updates /\ \A n \in Machines \ {m} : tools'[n] = tools[n]
  <2>1. tools \in [Machines -> ToolRuns] /\ tools[m] \in ToolRuns
    BY DEF ToolsOK
  <2> QED BY <1>1, <2>1 DEF ToolRuns
<1> HIDE DEF updates
<1>5. DOMAIN feeds' = DOMAIN feeds \cup FeedIdsOf(updates)
  BY <1>1 DEF FeedsAfter
<1>6. ASSUME NEW id \in DOMAIN feeds', id \notin FeedIdsOf(updates)
      PROVE  id \in DOMAIN feeds /\ feeds'[id] = feeds[id] /\ authors'[id] = authors[id]
  <2>1. id \in DOMAIN feeds
    BY <1>5, <1>6
  <2>2. FeedEntries(updates, id, Len(updates)) = {}
    <3>1. updates \in Seq(FeedUpdate)
      BY <1>1, InputsAssumption DEF ToolBatches
    <3>2. DOMAIN updates = 1 .. Len(updates)
      BY <3>1
    <3> QED BY <1>6, <3>2 DEF FeedEntries, FeedIdsOf
  <2>3. feeds'[id] = feeds[id]
    BY <1>1, <1>5, <2>2 DEF FeedsAfter
  <2>4. authors'[id] = authors[id]
    BY <1>2, <1>6, <2>1 DEF AuthoredBy, RevocationInv, HistoryOK
  <2> QED BY <2>1, <2>3, <2>4
<1>7. ASSUME NEW id \in FeedIdsOf(updates)
      PROVE  authors'[id] = ReporterOf[m]
  BY <1>2 DEF AuthoredBy
<1>8. HistoryOK'
  <2>1. DOMAIN authors' = DOMAIN feeds'
    BY <1>2, <1>5 DEF AuthoredBy, RevocationInv, HistoryOK
  <2>2. \A id \in DOMAIN feeds' : authors'[id] \in Accounts
    BY <1>3, <1>6, <1>7 DEF RevocationInv, HistoryOK
  <2> QED BY <1>2, <2>1, <2>2 DEF RevocationInv, HistoryOK
<1>9. RevokedStoresNothing'
  <2> SUFFICES ASSUME NEW id \in DOMAIN feeds', authors'[id] \notin price_reporters'
               PROVE  feeds'[id].onchain_ts <= outSince'[authors'[id]]
    BY DEF RevokedStoresNothing
  <2>1. id \notin FeedIdsOf(updates)
    BY <1>2, <1>7
  <2> QED BY <1>2, <1>6, <2>1 DEF RevocationInv, RevokedStoresNothing
<1>10. AcceptedInTime'
  <2>1. \A k \in DOMAIN updates : updates[k].agg_ts < now + MAX_FUTURE_DRIFT_THRESHOLD
    BY <1>1 DEF InBounds
  <2> QED BY <1>2, <1>4, <2>1 DEF RevocationInv, AcceptedInTime
<1>11. RevokedInTime'
  BY <1>2, <1>4 DEF RevocationInv, RevokedInTime
<1> QED BY <1>8, <1>9, <1>10, <1>11 DEF RevocationInv

\* Who is revoked has nothing from later, in storage or accepted.
LEMMA AppointsKeeps ==
  ASSUME ToolsOK, DriftBound, RevocationInv, Appoints
  PROVE  RevocationInv'
<1>1. feeds' = feeds /\ now' = now /\ tools' = tools /\ authors' = authors
  BY DEF Appoints, Appointments, New, SetPriceReporters
<1>2. outSince' = [account \in Accounts |->
                     IF account \in price_reporters' THEN 0
                     ELSE IF account \in price_reporters THEN now
                     ELSE outSince[account]]
  BY DEF Appoints
<1>3. now \in Nat
  BY NumbersAssumption DEF ToolsOK
<1>4. ASSUME NEW account \in Accounts, account \notin price_reporters'
      PROVE  \/ outSince'[account] = now
             \/ account \notin price_reporters /\ outSince'[account] = outSince[account]
  BY <1>2, <1>4
<1>5. HistoryOK'
  BY <1>1, <1>2, <1>3 DEF RevocationInv, HistoryOK
<1>6. RevokedStoresNothing'
  <2> SUFFICES ASSUME NEW id \in DOMAIN feeds, authors[id] \notin price_reporters'
               PROVE  feeds[id].onchain_ts <= outSince'[authors[id]]
    BY <1>1 DEF RevokedStoresNothing
  <2>1. authors[id] \in Accounts
    BY DEF RevocationInv, HistoryOK
  <2>2. feeds[id].onchain_ts <= now
    BY DEF DriftBound
  <2> QED BY <1>4, <2>1, <2>2 DEF RevocationInv, RevokedStoresNothing
<1>7. AcceptedInTime'
  BY <1>1 DEF RevocationInv, AcceptedInTime
<1>8. RevokedInTime'
  <2> SUFFICES ASSUME NEW m \in Machines, tools[m].tx = "accepted",
                      ReporterOf[m] \notin price_reporters', NEW k \in DOMAIN tools[m].updates
               PROVE  tools[m].updates[k].agg_ts
                        < outSince'[ReporterOf[m]] + MAX_FUTURE_DRIFT_THRESHOLD
    BY <1>1 DEF RevokedInTime
  <2>1. ReporterOf[m] \in Accounts
    BY ReportingAssumption
  <2>2. tools[m].updates[k].agg_ts < now + MAX_FUTURE_DRIFT_THRESHOLD
    BY DEF RevocationInv, AcceptedInTime
  <2> QED BY <1>4, <2>1, <2>2 DEF RevocationInv, RevokedInTime
<1> QED BY <1>5, <1>6, <1>7, <1>8 DEF RevocationInv

\* The history invariant holds in every reachable state of the tools.
LEMMA RevocationInvariant == RevocationSpec => ReportingSpec /\ []RevocationInv
<1>1. RevocationInit => ReportingInit /\ RevocationInv
  <2> SUFFICES ASSUME RevocationInit PROVE RevocationInv
    BY DEF RevocationInit
  <2>1. feeds = <<>> /\ authors = <<>> /\ DOMAIN <<>> = {}
    BY DEF RevocationInit, ReportingInit, Init
  <2>2. outSince \in [Accounts -> Nat]
    BY DEF RevocationInit
  <2>3. \A m \in Machines : tools[m].tx = "none"
    BY DEF RevocationInit, ReportingInit, Unused
  <2> QED BY <2>1, <2>2, <2>3 DEF RevocationInv, HistoryOK, RevokedStoresNothing, AcceptedInTime,
                                  RevokedInTime
<1>2. [RevocationNext]_revocationVars => [ReportingNext]_reportingVars
  BY RevocationStep
<1>3. TypeOK /\ ToolsOK /\ ToolsOK' /\ DriftBound /\ RevocationInv /\ [RevocationNext]_revocationVars
        => RevocationInv'
  <2> SUFFICES ASSUME TypeOK, ToolsOK, ToolsOK', DriftBound, RevocationInv,
                      [RevocationNext]_revocationVars
               PROVE  RevocationInv'
    OBVIOUS
  <2>1. [ReportingNext]_reportingVars
    BY RevocationStep
  <2>2. /\ tools \in [Machines -> ToolRuns]
        /\ \A m \in Machines : tools[m] \in ToolRuns
    BY DEF ToolsOK
  <2>3. ASSUME NEW m \in Machines, Stores(m)
        PROVE  RevocationInv'
    BY <2>3, StoresKeeps
  <2>4. CASE Appoints
    BY <2>4, AppointsKeeps
  <2>5. CASE ~(\E m \in Machines : Stores(m)) /\ ~Appoints
    <3>1. UNCHANGED <<authors, outSince, price_reporters>>
      <4>1. CASE UNCHANGED revocationVars
        BY <4>1 DEF revocationVars, reportingVars, vars, roles
      <4>2. CASE NextBlock /\ UNCHANGED <<authors, outSince>>
        BY <4>2 DEF NextBlock, Tick, roles
      <4>3. ASSUME NEW m \in Machines, StoresNothing(m)
            PROVE  UNCHANGED <<authors, outSince, price_reporters>>
        BY <4>3 DEF StoresNothing, Submit, Refuse, Lose, Answer, GiveUp, Finish, vars, roles
      <4> QED BY <2>5, <4>1, <4>2, <4>3 DEF RevocationNext
    <3>2. ASSUME NEW m \in Machines, Accept(m)
          PROVE  FALSE
      <4>1. tools[m].tx = "flying" /\ tools'[m].tx = "accepted"
        <5>1. tools[m] \in ToolRuns /\ tools \in [Machines -> ToolRuns]
          BY DEF ToolsOK
        <5>2. tools' = [tools EXCEPT ![m].tx = "accepted"] /\ tools[m].tx = "flying"
          BY <3>2, AcceptStep
        <5> QED BY <5>1, <5>2 DEF ToolRuns
      <4>2. CASE UNCHANGED tools
        BY <4>1, <4>2
      <4>3. ASSUME NEW n \in Machines, StoresNothing(n)
            PROVE  FALSE
        <5>1. tools'[m].tx = "accepted" => tools[m].tx # "flying"
          <6>1. CASE n = m
            BY <6>1, <4>3, <2>2 DEF StoresNothing, Submit, Refuse, Refusal, Lose, Answer, GiveUp,
                                    Finish, Unused, ToolRuns
          <6>2. CASE n # m
            BY <6>2, <4>3, <2>2 DEF StoresNothing, Submit, Refuse, Lose, Answer, GiveUp, Finish
          <6> QED BY <6>1, <6>2
        <5> QED BY <4>1, <5>1
      <4>4. UNCHANGED tools \/ \E n \in Machines : StoresNothing(n)
        BY <2>5 DEF RevocationNext, NextBlock, revocationVars, reportingVars
      <4> QED BY <4>2, <4>3, <4>4
    <3> QED BY <2>1, <3>1, <3>2, NothingRevoked
  <2> QED BY <2>3, <2>4, <2>5
<1>4. RevocationSpec => ReportingSpec
  BY <1>1, <1>2, PTL DEF RevocationSpec, ReportingSpec
<1> QED
  BY <1>1, <1>3, <1>4, ToolsUseTheContract, TypeCorrect, DriftBounded, PTL DEF RevocationSpec

-----------------------------------------------------------------------------
(* The properties of revocation                                            *)

\* A revoked reporter's operator reads "Done." (feed.rs:52) over no report
\* dated a drift or more after the revocation, whatever its clock, its delays
\* and the order of blocks: lib.rs:120 and 142 together.
THEOREM RevokedStaysUnacked == RevocationSpec => []RevokedIsNotAcked
<1>1. ToolsOK /\ RevocationInv => RevokedIsNotAcked
  BY DEF ToolsOK, RevocationInv, RevokedInTime, RevokedIsNotAcked
<1> QED BY <1>1, RevocationInvariant, ToolsUseTheContract, PTL

\* A feed that holds up a batch, and whose author is out, was written before.
LEMMA HeldByTheRevoked ==
  ASSUME TypeOK, DriftBound, RevocationInv, NEW updates \in ToolBatches,
         NEW k \in Overtaking(updates), authors[updates[k].feed_id] \notin price_reporters
  PROVE  updates[k].agg_ts
           < outSince[authors[updates[k].feed_id]] + MAX_FUTURE_DRIFT_THRESHOLD
<1> DEFINE id == updates[k].feed_id
           since == outSince[authors[id]]
<1>1. k \in DOMAIN updates /\ id \in DOMAIN feeds /\ feeds[id].agg_ts >= updates[k].agg_ts
  BY DEF Overtaking
<1>2. feeds[id].agg_ts < feeds[id].onchain_ts + MAX_FUTURE_DRIFT_THRESHOLD
  BY <1>1 DEF DriftBound
<1>3. feeds[id].onchain_ts <= since
  BY <1>1 DEF RevocationInv, RevokedStoresNothing
<1>4. updates[k].agg_ts \in Nat
  BY <1>1, ToolTimestamps
<1>5. feeds[id].agg_ts \in Nat /\ feeds[id].onchain_ts \in Nat
  BY <1>1, NumbersAssumption DEF TypeOK, StoredFeed
<1>6. since \in Nat
  BY <1>1 DEF RevocationInv, HistoryOK
<1> HIDE DEF id, since
<1>7. updates[k].agg_ts < since + MAX_FUTURE_DRIFT_THRESHOLD
  BY <1>1, <1>2, <1>3, <1>4, <1>5, <1>6, NumbersAssumption
<1> QED BY <1>7 DEF id, since

\* What a revoked account left holds a punctual machine's batches up for less
\* than a drift from the revocation on: a later one is refused for its
\* timestamps (lib.rs:142-146) only over reports of present reporters.
THEOREM RevokedHoldIsOver == RevocationSpec => RevokedHoldEnds
<1> DEFINE
      HeldUp(m) ==
        /\ Punctual(m)
        /\ tools[m].tx = "flying" /\ tools'[m].tx = "out_of_bounds"
        /\ \A k \in DOMAIN tools[m].updates : tools[m].updates[k].agg_ts > 0
      HeldRightly(m, k) ==
        LET author == authors[tools[m].updates[k].feed_id]
        IN  \/ author \in price_reporters
            \/ tools[m].updates[k].agg_ts < outSince[author] + MAX_FUTURE_DRIFT_THRESHOLD
<1>1. ASSUME TypeOK, ToolsOK, DriftBound, FlyingIsTimely, RevocationInv,
             [ReportingNext]_reportingVars, NEW m \in Machines, HeldUp(m)
      PROVE  /\ Overtaking(tools[m].updates) # {}
             /\ \A k \in Overtaking(tools[m].updates) : HeldRightly(m, k)
  <2>1. tools[m].updates \in ToolBatches
    BY <1>1 DEF ToolsOK
  <2>2. Refuse(m) /\ Refusal(ReporterOf[m], tools[m].updates) = "out_of_bounds"
    BY <1>1, BatchHistory DEF SameBatch
  <2>3. Overtaken(tools[m].updates)
    BY <1>1, <2>2, OutOfBoundsIsOvertaken
  <2>4. Overtaking(tools[m].updates) # {}
    <3>1. ASSUME NEW k \in DOMAIN tools[m].updates
          PROVE  tools[m].updates[k].agg_ts # 0
      BY <1>1
    <3> QED BY <2>3, <3>1 DEF Overtaken
  <2>5. ASSUME NEW k \in Overtaking(tools[m].updates)
        PROVE  HeldRightly(m, k)
    BY <1>1, <2>1, <2>5, HeldByTheRevoked
  <2> QED BY <2>4, <2>5
<1>2. TypeOK /\ ToolsOK /\ DriftBound /\ ReportInv /\ RevocationInv
        /\ [ReportingNext]_reportingVars
      => [\A m \in Machines :
            HeldUp(m) => /\ Overtaking(tools[m].updates) # {}
                         /\ \A k \in Overtaking(tools[m].updates) : HeldRightly(m, k)]_revocationVars
  <2> HIDE DEF HeldUp, HeldRightly
  <2> QED BY <1>1 DEF ReportInv
<1>3. RevocationSpec => Spec /\ []ToolsOK /\ []ReportInv /\ []RevocationInv
  BY RevocationInvariant, ToolsUseTheContract, ReportInvariant, PTL
<1>4. ReportingSpec => [][ReportingNext]_reportingVars
  BY PTL DEF ReportingSpec
<1> QED
  BY <1>2, <1>3, <1>4, RevocationInvariant, TypeCorrect, DriftBounded, PTL DEF RevokedHoldEnds
=============================================================================
