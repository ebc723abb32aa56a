----------------------------- MODULE Reporting -----------------------------
(***************************************************************************)
(* The feed tool (scripts/src/bin/feed.rs) at work: several machines run   *)
(* it again and again, each on its own clock and for its own reporter.  A  *)
(* run stamps a batch with its clock, signs it, and waits for the outcome  *)
(* of the transaction.  The transaction may be dropped, may arrive blocks  *)
(* later, after the owner revoked the reporter or after newer reports, and *)
(* its outcome may never reach the tool.  A tool that is started again     *)
(* while an earlier transaction is under way counts as another machine.    *)
(*                                                                         *)
(* Left out: the files and flags the tool reads (module Deploy models the  *)
(* ones it shares with the deploy tool), and the contract's methods that   *)
(* neither write feeds nor appoint reporters.                              *)
(***************************************************************************)
EXTENDS MultiFeed

CONSTANTS
  Machines,     \* where the tool runs, one run at a time
  ReporterOf,   \* the reporter account of a machine's .env
  Skews,        \* how far a machine's clock may run ahead of the chain
  Counts,       \* the values of --count tried on a machine
  U32_MODULUS,  \* 2^32
  LastDrift     \* bound: clocks run ahead until this block time only

ASSUME ReportingAssumption ==
  /\ ReporterOf \in [Machines -> Accounts]
  /\ Skews \in [Machines -> SUBSET Nat]
  /\ Counts \in [Machines -> SUBSET Nat]
  /\ U32_MODULUS \in Nat \ {0}
  /\ U32_MODULUS <= PRICE_MODULUS  \* a u32 fits the ten bytes of a price
  /\ 0 \in Deposits                \* the tool attaches none

VARIABLE tools  \* the last run of the tool on each machine

reportingVars == <<vars, tools>>

Unused == [stage |-> "idle", updates |-> <<>>, tx |-> "none"]

-----------------------------------------------------------------------------
(* A run of the tool                                                       *)

\* 100 * feed_id of u32 operands.
Price(feed_id) == (100 * feed_id) % U32_MODULUS

\* Faulty: a build without overflow checks wraps and goes on.
PricesFitAnyway(count) == TRUE

\* cargo run builds with overflow checks: the multiplication panics.
PricesFit(count) == \A feed_id \in 1 .. count : 100 * feed_id < U32_MODULUS

Batch(count, clock) ==
  [k \in 1 .. count |-> [feed_id |-> k, price |-> Price(k), agg_ts |-> clock - 1]]

\* The batches f is given here are those the tool builds.
ASSUME BatchesAssumption ==
  \A m \in Machines : \A count \in Counts[m], skew \in Skews[m], time \in 0 .. MaxTime :
    PricesFit(count) /\ time + skew > 0 => Batch(count, time + skew) \in FeedBatches

\* The machine reads its clock, builds the batch, signs and submits it.
Submit(m) ==
  /\ tools[m].stage = "idle"
  /\ \E skew \in Skews[m], count \in Counts[m] :
       /\ skew > 0 => now <= LastDrift
       /\ now + skew > 0
       /\ PricesFit(count)
       /\ tools' = [tools EXCEPT ![m] = [stage |-> "waiting", tx |-> "flying",
                                         updates |-> Batch(count, now + skew)]]
  /\ UNCHANGED vars

\* The transaction executes and f accepts it.
Accept(m) ==
  /\ tools[m].tx = "flying"
  /\ F(ReporterOf[m], 0, tools[m].updates)
  /\ tools' = [tools EXCEPT ![m].tx = "accepted"]

FAccepts(caller, updates) ==
  /\ initialized
  /\ caller \in price_reporters
  /\ updates # <<>>
  /\ \A k \in DOMAIN updates : InBounds(updates, k)

Refusals == {"uninitialized", "not_reporter", "empty", "out_of_bounds"}

\* What f panics with: the first of its requirements that does not hold.
Refusal(caller, updates) ==
  IF ~initialized THEN "uninitialized"
  ELSE IF caller \notin price_reporters THEN "not_reporter"
  ELSE IF updates = <<>> THEN "empty"
  ELSE "out_of_bounds"

\* The transaction executes and f panics.
Refuse(m) ==
  /\ tools[m].tx = "flying"
  /\ ~FAccepts(ReporterOf[m], tools[m].updates)
  /\ tools' = [tools EXCEPT ![m].tx = Refusal(ReporterOf[m], tools[m].updates)]
  /\ UNCHANGED vars

\* The transaction never executes: dropped, expired, or its nonce was used.
Lose(m) ==
  /\ tools[m].tx = "flying"
  /\ tools' = [tools EXCEPT ![m].tx = "lost"]
  /\ UNCHANGED vars

\* Faulty: without assert_success, any outcome that arrives means "Done.".
DoneIfExecuted(tx) == tx \in {"accepted"} \cup Refusals

\* assert_success lets the tool print "Done.".
DoneIfSuccess(tx) == tx = "accepted"

\* The outcome reaches the tool.
Answer(m) ==
  /\ tools[m].stage = "waiting"
  /\ tools[m].tx # "flying"
  /\ tools' = [tools EXCEPT ![m].stage = IF DoneIfSuccess(tools[m].tx) THEN "done" ELSE "failed"]
  /\ UNCHANGED vars

\* send_to fails or the tool is killed, whatever becomes of the transaction.
GiveUp(m) ==
  /\ tools[m].stage = "waiting"
  /\ tools' = [tools EXCEPT ![m].stage = "failed"]
  /\ UNCHANGED vars

\* The machine is ready for the next run.
Finish(m) ==
  /\ tools[m].stage \in {"done", "failed"}
  /\ tools[m].tx # "flying"
  /\ tools' = [tools EXCEPT ![m] = Unused]
  /\ UNCHANGED vars

-----------------------------------------------------------------------------
(* The contract's other business, and the specification                    *)

Appointments ==
  /\ \E deposit \in Deposits :
       \/ \E args \in InitArgs : New(args, deposit)
       \/ \E caller \in Accounts, updates \in RoleBatches :
            SetPriceReporters(caller, deposit, updates)
  /\ UNCHANGED tools

NextBlock == Tick /\ UNCHANGED tools

MachineStep(m) ==
  \/ Submit(m)
  \/ Accept(m)
  \/ Refuse(m)
  \/ Lose(m)
  \/ Answer(m)
  \/ GiveUp(m)
  \/ Finish(m)

ReportingInit == Init /\ tools = [m \in Machines |-> Unused]

ReportingNext == (\E m \in Machines : MachineStep(m)) \/ Appointments \/ NextBlock

\* A machine whose clock is right and whose operator keeps the tool running.
Steady(m) == Skews[m] = {0} /\ 0 \notin Counts[m]

\* The tool is run again and again; a transaction executes or expires, and
\* one that is sent again and again is not dropped every time; a tool that
\* waits hears of the outcome or times out; blocks are produced.
Fairness ==
  /\ WF_reportingVars(NextBlock)
  /\ \A m \in Machines :
       Steady(m) => /\ WF_reportingVars(Submit(m))
                    /\ WF_reportingVars(Accept(m) \/ Refuse(m) \/ Lose(m))
                    /\ SF_reportingVars(Accept(m))
                    /\ WF_reportingVars(Answer(m) \/ GiveUp(m))
                    /\ WF_reportingVars(Finish(m))

ReportingSpec == ReportingInit /\ [][ReportingNext]_reportingVars

-----------------------------------------------------------------------------
(* Properties                                                              *)

\* When the tool has printed "Done." (feed.rs:52), every report of the batch
\* is stored or was followed by a newer one for the same feed: no batch that
\* was delayed, lost or sent again in between put an older report over it.
AckedIsStored ==
  \A m \in Machines :
    tools[m].stage = "done" =>
      \A k \in DOMAIN tools[m].updates :
        /\ tools[m].updates[k].feed_id \in DOMAIN feeds
        /\ feeds[tools[m].updates[k].feed_id].agg_ts >= tools[m].updates[k].agg_ts

\* Running the tool again after a lost answer (feed.rs:43-50) stores nothing
\* twice: of two runs that both got through for a feed, on one machine's clock
\* or on another's, one carries the later timestamp.
StoredOnce ==
  \A m, n \in Machines :
    m # n /\ tools[m].tx = "accepted" /\ tools[n].tx = "accepted" =>
      \A j \in DOMAIN tools[m].updates, k \in DOMAIN tools[n].updates :
        tools[m].updates[j].feed_id = tools[n].updates[k].feed_id
          => tools[m].updates[j].agg_ts # tools[n].updates[k].agg_ts

\* Every stored price is 100 times its feed id: a count for which the u32
\* product would overflow (feed.rs:36) reaches the chain in no part.
PricesAreExact == \A id \in DOMAIN feeds : feeds[id].price = 100 * id

\* Clocks that run ahead by less than the contract tolerates.
Punctual(m) == \A skew \in Skews[m] : skew <= MAX_FUTURE_DRIFT_THRESHOLD

\* The feeds of a batch for which a report at least as new is stored.
Overtaking(updates) ==
  {k \in DOMAIN updates : /\ updates[k].feed_id \in DOMAIN feeds
                          /\ feeds[updates[k].feed_id].agg_ts >= updates[k].agg_ts}

\* However late its transaction executes, a punctual machine's batch is
\* refused for its timestamps (lib.rs:142-146) only because one of its feeds
\* was overtaken: by then a report at least as new was stored for it, and that
\* one is not taken back while the tool still reports the failure.  A batch
\* dated zero, which no clock later than the epoch sends, needs no such report.
RefusedIsOvertaken ==
  \A m \in Machines :
    Punctual(m) /\ tools[m].tx = "out_of_bounds" =>
      \/ Overtaking(tools[m].updates) # {}
      \/ \E k \in DOMAIN tools[m].updates : tools[m].updates[k].agg_ts = 0

\* A report dated in the future keeps the reports of a right clock out
\* (lib.rs:142) for a while only: a newer one is stored in the end.
DriftHeals ==
  \A t \in 1 .. TS_MODULUS - 1 :
    StoredAggTs(1) = t /\ t >= now ~> StoredAggTs(1) > t
=============================================================================
