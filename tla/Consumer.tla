------------------------------ MODULE Consumer ------------------------------
(***************************************************************************)
(* The example consumer (examples/consumer) reading the contract through   *)
(* promises.  get_price and get_prices run in one receipt, the fetch they  *)
(* schedule in a later one at the oracle, the callback in a third one back *)
(* at the consumer.  Between any two of them the oracle goes on: reports   *)
(* arrive, reads are gated, the contract is paused.                        *)
(*                                                                         *)
(* Of the oracle's methods, those that a reader can tell apart run here;   *)
(* ownership and the roles of admins, products and reporters stay as new   *)
(* leaves them.                                                            *)
(***************************************************************************)
EXTENDS MultiFeed

CONSTANTS
  Calls,            \* calls of get_price and get_prices
  OracleAccount,    \* where the multi-feed contract lives
  OtherAccount,     \* an account without it
  ConsumerAccount,  \* the predecessor the oracle sees
  PriceQuestions,   \* what get_price is asked: a feed id, as a sequence of one
  PricesQuestions,  \* what get_prices is asked: sequences of feed ids
  MalformedId       \* a string parse_feed_id refuses

ASSUME ConsumerAssumption ==
  /\ MalformedId \notin FeedIds
  /\ OracleAccount # OtherAccount
  /\ NoAccount \notin {OracleAccount, OtherAccount}

VARIABLES
  multi_feed,  \* the consumer's state; NoAccount before its new has run
  calls,       \* the receipts of every call
  history      \* what was true since a call was made; no code reads it

consumerVars == <<vars, multi_feed, calls, history>>

Questions == PriceQuestions \cup PricesQuestions

-----------------------------------------------------------------------------
(* Answers                                                                 *)

Refused       == [ok |-> FALSE, feeds |-> <<>>]
Answer(feeds_) == [ok |-> TRUE, feeds |-> feeds_]

\* FeedDataView::from, behind the map over a Vec of Options.
FeedDataView(feed) ==
  [price |-> feed.price, agg_ts |-> feed.agg_ts, onchain_ts |-> feed.onchain_ts]
Views(answers) == [k \in DOMAIN answers |-> {FeedDataView(feed) : feed \in answers[k]}]

\* Whether a receipt of fetch or fetch_batch at multi_feed succeeds.
FetchSucceeds(ids) ==
  /\ multi_feed = OracleAccount
  /\ initialized
  /\ CanRead(ConsumerAccount)
  /\ MalformedId \notin ToSet(ids)

\* What such a receipt answers in the present state.
AnswerNow(ids) == IF FetchSucceeds(ids) THEN Answer(FetchBatch(ids)) ELSE Refused

-----------------------------------------------------------------------------
(* Receipts of the consumer and of the oracle's reads                      *)

ConsumerInit ==
  /\ Init
  /\ multi_feed = NoAccount
  /\ calls = [c \in Calls |-> [stage |-> "idle"]]
  /\ history = [c \in Calls |-> [seen |-> {}, asked |-> <<>>]]

ConsumerNew(account) ==
  /\ multi_feed = NoAccount
  /\ multi_feed' = account
  /\ UNCHANGED <<vars, calls, history>>

\* The common part of get_price and get_prices: the promise and its callback.
Request(c, method, ids) ==
  /\ calls[c].stage = "idle"
  /\ multi_feed # NoAccount
  /\ calls' = [calls EXCEPT ![c] = [stage |-> "requested", method |-> method, ids |-> ids]]
  /\ history' = [history EXCEPT ![c] = [seen |-> {AnswerNow(ids)}, asked |-> FetchBatch(ids)]]
  /\ UNCHANGED <<vars, multi_feed>>

GetPrice(c)  == \E ids \in PriceQuestions : Request(c, "get_price", ids)
GetPrices(c) == \E ids \in PricesQuestions : Request(c, "get_prices", ids)

Resolved(call, result) ==
  [stage |-> "resolved", method |-> call.method, ids |-> call.ids, result |-> result]

\* Faulty: each feed of a batch is the one of the request or the one of now,
\* as if every feed were fetched by a promise of its own.
FetchFeedByFeed(c) ==
  /\ calls[c].stage = "requested"
  /\ FetchSucceeds(calls[c].ids)
  /\ \E early \in SUBSET DOMAIN calls[c].ids :
       LET now_ == FetchBatch(calls[c].ids)
           mix  == [k \in DOMAIN now_ |-> IF k \in early THEN history[c].asked[k] ELSE now_[k]]
       IN  calls' = [calls EXCEPT ![c] = Resolved(@, Answer(mix))]
  /\ UNCHANGED <<vars, multi_feed, history>>

\* The receipt at the oracle, in a later block than the request.
Fetch(c) ==
  /\ calls[c].stage = "requested"
  /\ calls' = [calls EXCEPT ![c] = Resolved(@, AnswerNow(@.ids))]
  /\ UNCHANGED <<vars, multi_feed, history>>

\* FETCH_GAS does not pay for every batch.
FetchOutOfGas(c) ==
  /\ calls[c].stage = "requested"
  /\ calls' = [calls EXCEPT ![c] = Resolved(@, Refused)]
  /\ UNCHANGED <<vars, multi_feed, history>>

Returned(call, answer) ==
  [stage |-> "returned", method |-> call.method, ids |-> call.ids, answer |-> answer]

\* Faulty: a failed fetch is answered as if the oracle had no such feed.
UnwrapOrNone(call) ==
  IF call.result.ok THEN Answer(Views(call.result.feeds))
  ELSE Answer([k \in DOMAIN call.ids |-> {}])

\* #[callback_unwrap]: the callback of a failed fetch panics.
CallbackUnwrap(call) ==
  IF call.result.ok THEN Answer(Views(call.result.feeds)) ELSE Refused

\* Faulty: no callback is attached to a fetch that fails.
CallbackOnSuccess(c, method) ==
  /\ calls[c].stage = "resolved"
  /\ calls[c].method = method
  /\ calls[c].result.ok
  /\ calls' = [calls EXCEPT ![c] = Returned(@, CallbackUnwrap(@))]
  /\ UNCHANGED <<vars, multi_feed, history>>

\* `.then`: the callback runs whatever became of the fetch.
Callback(c, method) ==
  /\ calls[c].stage = "resolved"
  /\ calls[c].method = method
  /\ calls' = [calls EXCEPT ![c] = Returned(@, CallbackUnwrap(@))]
  /\ UNCHANGED <<vars, multi_feed, history>>

OnPrice(c)  == Callback(c, "get_price")
OnPrices(c) == Callback(c, "get_prices")

CallbackOutOfGas(c) ==
  /\ calls[c].stage = "resolved"
  /\ calls' = [calls EXCEPT ![c] = Returned(@, Refused)]
  /\ UNCHANGED <<vars, multi_feed, history>>

-----------------------------------------------------------------------------
(* The oracle goes on                                                      *)

OracleMethod ==
  \/ \E deposit \in Deposits :
       \/ \E args \in InitArgs : New(args, deposit)
       \/ \E caller \in Accounts :
            \/ \E updates \in FeedBatches : F(caller, deposit, updates)
            \/ \E updates \in RoleBatches : SetAuthorizedCallers(caller, deposit, updates)
            \/ \E status \in BOOLEAN : SetPaused(caller, deposit, status)
            \/ \E status \in BOOLEAN : SetOpenReadStatus(caller, deposit, status)
  \/ Tick

Pending(c) == calls[c].stage \in {"requested", "resolved"}

OracleStep ==
  /\ OracleMethod
  /\ UNCHANGED <<multi_feed, calls>>
  /\ history' = [c \in Calls |->
                   IF Pending(c)
                     THEN [history[c] EXCEPT !.seen = @ \cup {AnswerNow(calls[c].ids)'}]
                     ELSE history[c]]

CallStep(c) ==
  \/ GetPrice(c)
  \/ GetPrices(c)
  \/ Fetch(c)
  \/ FetchOutOfGas(c)
  \/ OnPrice(c)
  \/ OnPrices(c)
  \/ CallbackOutOfGas(c)

ConsumerNext ==
  \/ \E account \in {OracleAccount, OtherAccount} : ConsumerNew(account)
  \/ \E c \in Calls : CallStep(c)
  \/ OracleStep

\* The runtime executes every receipt that a receipt created.
Fairness == \A c \in Calls : WF_consumerVars(Fetch(c)) /\ WF_consumerVars(OnPrice(c) \/ OnPrices(c))

ConsumerSpec == ConsumerInit /\ [][ConsumerNext]_consumerVars

FairConsumerSpec == ConsumerSpec /\ Fairness

-----------------------------------------------------------------------------
(* Properties                                                              *)

\* The call as its caller sees it.
ReadOf(c) ==
  CASE calls[c].stage = "idle"     -> [stage |-> "idle"]
    [] Pending(c)                  -> [stage |-> "waiting", question |-> calls[c].ids,
                                       seen |-> history[c].seen]
    [] calls[c].stage = "returned" -> [stage |-> "returned", question |-> calls[c].ids,
                                       answer |-> calls[c].answer]

Promised ==
  INSTANCE PromisedRead WITH
    oracle <- [ids \in Questions |-> AnswerNow(ids)],
    reads  <- [c \in Calls |-> ReadOf(c)]

\* get_price and get_prices (examples/consumer lib.rs:33-81) keep the promise
\* of PromisedRead: three receipts and an oracle that goes on between them look
\* to the caller like one read at one moment of the call, or like a failure.
ReadsOneMoment == Promised!Spec

\* Whatever happens between the call and its callback, a delivered feed is the
\* one stored at the call or a strictly newer report, and None is delivered
\* only for a feed that was absent at the call: a gated, paused or failed read
\* is never taken for an absent feed (callback_unwrap, lib.rs:61 and 73).
NoOlderThanRequest ==
  \A c \in Calls :
    calls[c].stage = "returned" /\ calls[c].answer.ok =>
      \A k \in DOMAIN calls[c].ids :
        \A old \in history[c].asked[k] :
          \E new \in calls[c].answer.feeds[k] :
            old # new => old.agg_ts < new.agg_ts

\* Every get_price and get_prices comes back, even when the oracle is paused,
\* missing or out of gas (lib.rs:37-41 and 49-53).
EveryCallReturns == \A c \in Calls : Pending(c) ~> calls[c].stage = "returned"
=============================================================================
