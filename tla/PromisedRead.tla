---------------------------- MODULE PromisedRead ----------------------------
(***************************************************************************)
(* What a contract that reads an oracle through promises owes its callers: *)
(* a call comes back once, either with no answer or with an answer the     *)
(* oracle would have given at a single moment between the call and its     *)
(* return.  The answer may be out of date when it arrives; it is never a   *)
(* mixture of two moments and never older than the call.                   *)
(***************************************************************************)
CONSTANTS Calls,    \* the calls that are made
          Refused   \* the answer that says there is none

VARIABLES oracle,   \* what the oracle would answer now, by question
          reads     \* the state of every call

Waiting(question, seen)    == [stage |-> "waiting", question |-> question, seen |-> seen]
Returned(question, answer) == [stage |-> "returned", question |-> question, answer |-> answer]

Init == reads = [c \in Calls |-> [stage |-> "idle"]]

\* The oracle changes, and everyone who is waiting may hear the new answer.
OracleChanges ==
  reads' = [c \in Calls |->
              IF reads[c].stage = "waiting"
                THEN Waiting(reads[c].question, reads[c].seen \cup {oracle'[reads[c].question]})
                ELSE reads[c]]

Ask(c) ==
  /\ reads[c].stage = "idle"
  /\ \E question \in DOMAIN oracle :
       reads' = [reads EXCEPT ![c] = Waiting(question, {oracle[question]})]
  /\ UNCHANGED oracle

\* The call fails when the oracle refused, or for lack of gas at any moment.
Return(c) ==
  /\ reads[c].stage = "waiting"
  /\ \E answer \in reads[c].seen \cup {Refused} :
       reads' = [reads EXCEPT ![c] = Returned(reads[c].question, answer)]
  /\ UNCHANGED oracle

Next == OracleChanges \/ \E c \in Calls : Ask(c) \/ Return(c)

Spec == Init /\ [][Next]_<<oracle, reads>>
=============================================================================
