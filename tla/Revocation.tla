----------------------------- MODULE Revocation -----------------------------
(***************************************************************************)
(* What the owner's revocation of a reporter means to those who run the    *)
(* feed tool: the revoked one, whose batches may still be under way, and   *)
(* the others, whose feeds its last reports hold.                          *)
(*                                                                         *)
(* The steps are those of Reporting; two history variables, which no guard *)
(* reads, record whose report a feed has and since when an account has not *)
(* been a reporter.                                                        *)
(***************************************************************************)
EXTENDS Reporting

VARIABLES
  authors,  \* for every stored feed, the account its report came from
  outSince  \* for every account that is out, the block time it was revoked at, or 0

revocationVars == <<reportingVars, authors, outSince>>

RevocationInit ==
  /\ ReportingInit
  /\ authors = <<>>
  /\ outSince = [account \in Accounts |-> 0]

AuthoredBy(reporter, updates) ==
  [id \in DOMAIN authors \cup FeedIdsOf(updates) |->
     IF id \in FeedIdsOf(updates) THEN reporter ELSE authors[id]]

Stores(m) ==
  /\ Accept(m)
  /\ authors' = AuthoredBy(ReporterOf[m], tools[m].updates)
  /\ UNCHANGED outSince

Appoints ==
  /\ Appointments
  /\ outSince' = [account \in Accounts |->
                    IF account \in price_reporters' THEN 0
                    ELSE IF account \in price_reporters THEN now
                    ELSE outSince[account]]
  /\ UNCHANGED authors

StoresNothing(m) ==
  /\ Submit(m) \/ Refuse(m) \/ Lose(m) \/ Answer(m) \/ GiveUp(m) \/ Finish(m)
  /\ UNCHANGED <<authors, outSince>>

RevocationNext ==
  \/ \E m \in Machines : Stores(m) \/ StoresNothing(m)
  \/ Appoints
  \/ NextBlock /\ UNCHANGED <<authors, outSince>>

RevocationSpec == RevocationInit /\ [][RevocationNext]_revocationVars

FairRevocationSpec == RevocationSpec /\ Fairness

-----------------------------------------------------------------------------
(* Properties                                                              *)

\* An operator whose reporter is revoked (lib.rs:120) reads "Done." (feed.rs:52)
\* only over a batch from before: however far its clock runs ahead and however
\* long its transactions take, none dated a drift or more after the revocation
\* is acknowledged while the account is out.
RevokedIsNotAcked ==
  \A m \in Machines :
    tools[m].stage = "done" /\ ReporterOf[m] \notin price_reporters =>
      \A k \in DOMAIN tools[m].updates :
        tools[m].updates[k].agg_ts < outSince[ReporterOf[m]] + MAX_FUTURE_DRIFT_THRESHOLD

\* The reports a revoked account leaves, which no method removes, hold the
\* feeds for less than a drift: a punctual machine whose batch is dated later
\* is refused for its timestamps (lib.rs:142) only over reports of accounts
\* that still are reporters, never because a batch of the revoked one got
\* through afterwards or was dated too far ahead.
RevokedHoldEnds ==
  [][\A m \in Machines :
       /\ Punctual(m)
       /\ tools[m].tx = "flying" /\ tools'[m].tx = "out_of_bounds"
       /\ \A k \in DOMAIN tools[m].updates : tools[m].updates[k].agg_ts > 0
       => /\ Overtaking(tools[m].updates) # {}
          /\ \A k \in Overtaking(tools[m].updates) :
               LET author == authors[tools[m].updates[k].feed_id]
               IN  \/ author \in price_reporters
                   \/ tools[m].updates[k].agg_ts
                        < outSince[author] + MAX_FUTURE_DRIFT_THRESHOLD]_revocationVars
=============================================================================
