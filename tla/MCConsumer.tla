----------------------------- MODULE MCConsumer -----------------------------
(***************************************************************************)
(* One consumer, one keeper of the oracle who holds every role, and two    *)
(* feeds that are reported together and one at a time.                     *)
(***************************************************************************)
EXTENDS Consumer

CONSTANTS keeper,  \* owner, admin, product and reporter of the oracle
          i1, i2   \* the feeds

Report(id, t) == [feed_id |-> id, price |-> t, agg_ts |-> t]

\* Feed i2 is first reported together with i1, then updated alone.
MCFeedBatches ==
  {<<Report(i1, 1)>>, <<Report(i1, 1), Report(i2, 1)>>, <<Report(i2, 2)>>}

MCInitArgs ==
  {[owner |-> keeper, open_read_enabled |-> open, admins |-> <<keeper>>,
    products |-> <<keeper>>, price_reporters |-> <<keeper>>,
    authorized_callers |-> <<>>] : open \in BOOLEAN}

MCRoleBatches == {<<[account |-> ConsumerAccount, status |-> status]>> : status \in BOOLEAN}

MCPriceQuestions  == {<<i2>>, <<MalformedId>>}
MCPricesQuestions == {<<i1, i2>>}
=============================================================================
