------------------------------ MODULE MCFeeds ------------------------------
(***************************************************************************)
(* Two feed ids and every batch of at most two reports, among them batches *)
(* that name a feed twice and reports that are stale or drift too far.     *)
(* The roles never change: no deposit is tried that set_* would accept.    *)
(***************************************************************************)
EXTENDS EventReplay

CONSTANTS Prices,    \* the prices that are reported
          MaxBatch   \* bound: length of a batch given to f

MCFeedBatches ==
  BoundedSeq([feed_id : FeedIds, price : Prices,
              agg_ts : 0 .. MaxTime + MAX_FUTURE_DRIFT_THRESHOLD], MaxBatch)

\* One reporter, whose reports stand for those of several: f tells no two
\* members of the role apart.
MCInitArgs ==
  {[owner |-> account, open_read_enabled |-> TRUE, admins |-> <<>>, products |-> <<>>,
    price_reporters |-> <<account>>, authorized_callers |-> <<>>] : account \in Accounts}

Symmetry == Permutations(FeedIds)
=============================================================================
