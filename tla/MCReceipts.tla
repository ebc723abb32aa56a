----------------------------- MODULE MCReceipts -----------------------------
(***************************************************************************)
(* Receipts run statement by statement, on two accounts and two feeds.     *)
(* The roles run tries every batch of updates of one account's membership, *)
(* so that batches with redundant and with reverted updates are run in     *)
(* every state of the roles; the feeds run tries every batch of reports.   *)
(***************************************************************************)
EXTENDS ReceiptExecution

CONSTANTS a1, a2,    \* the accounts
          Prices,    \* the prices that are reported
          MaxReports, MaxUpdates  \* bounds: lengths of the batches

MCFeedBatches ==
  BoundedSeq([feed_id : FeedIds, price : Prices,
              agg_ts : 0 .. MaxTime + MAX_FUTURE_DRIFT_THRESHOLD], MaxReports)

MCRoleBatches == BoundedSeq([account : {a2}, status : BOOLEAN], MaxUpdates)

\* a1 is owner, product and reporter; the lists of new that vary are those of
\* one role on each side of the two fixed ones, duplicates included.
MCNames == {<<>>} \cup {list \in BoundedSeq(Accounts, 2) : MaxUpdates > 0 /\ a2 \in ToSet(list)}
MCInitArgs ==
  [owner : {a1}, open_read_enabled : BOOLEAN, admins : MCNames, products : {<<a1>>},
   price_reporters : {<<a1>>}, authorized_callers : {<<>>, <<a2>>}]

Symmetry == Permutations(FeedIds)
=============================================================================
