---------------------------- MODULE MCReporting ----------------------------
(***************************************************************************)
(* Two machines: one whose clock is right and whose reporter is never      *)
(* revoked, and one whose clock is right, or runs ahead by a little or far *)
(* beyond the threshold, whose reporter comes and goes, and which is also  *)
(* run for no feed and for too many.                                       *)
(***************************************************************************)
EXTENDS Revocation

CONSTANTS right, fast,  \* the machines
          r1, r2        \* their reporters; r1 is the owner too

MCReporterOf == [m \in Machines |-> IF m = right THEN r1 ELSE r2]
MCSkews      == [m \in Machines |-> IF m = right THEN {0} ELSE {0, 2, 9}]
MCCounts     == [m \in Machines |-> IF m = right THEN {2} ELSE {0, 1, 3}]

MCFeedBatches == {Batch(count, clock) : count \in 0 .. 3, clock \in 1 .. MaxTime + 9}

MCInitArgs ==
  {[owner |-> r1, open_read_enabled |-> TRUE, admins |-> <<>>, products |-> <<>>,
    price_reporters |-> <<r1, r2>>, authorized_callers |-> <<>>]}

MCRoleBatches == {<<[account |-> r2, status |-> status]>> : status \in BOOLEAN}
=============================================================================
