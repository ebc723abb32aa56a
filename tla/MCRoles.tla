------------------------------ MODULE MCRoles ------------------------------
(***************************************************************************)
(* Two accounts, every set of roles they can be given, every batch of at   *)
(* most two role updates, and no feeds beyond one report: the run that     *)
(* looks at ownership, roles, flags and read access.                       *)
(***************************************************************************)
EXTENDS EventReplay

CONSTANT MaxBatch  \* bound: length of a role batch and of a role list of new

MCRoleBatches == BoundedSeq(RoleUpdate, MaxBatch)
RoleLists     == BoundedSeq(Accounts, MaxBatch)

MCInitArgs ==
  [owner : Accounts, open_read_enabled : BOOLEAN, admins : RoleLists, products : RoleLists,
   price_reporters : RoleLists, authorized_callers : RoleLists]

\* A single report that is accepted, so that f's reporter check is met.
MCFeedBatches ==
  {<<[feed_id |-> id, price |-> 1, agg_ts |-> 1]>> : id \in FeedIds}

Symmetry == Permutations(Accounts)
=============================================================================
