--------------------------- MODULE ConsumerProofs ---------------------------
(***************************************************************************)
(* Proofs about the example consumer, for any number of calls, feeds and   *)
(* accounts: its receipts implement PromisedRead, and no answer is older   *)
(* than its request.  The invariant says that the answer of every pending  *)
(* call is among those the oracle gave since the call.                     *)
(***************************************************************************)
EXTENDS Consumer, MultiFeedProofs

-----------------------------------------------------------------------------
(* The inductive invariant                                                 *)

\* Answers that the conversion of the callback leaves as they are.
Genuine(answer) ==
  \/ answer = Refused
  \/ /\ answer = Answer(answer.feeds)
     /\ Views(answer.feeds) = answer.feeds

Methods == {"get_price", "get_prices"}

Idle      == [stage : {"idle"}]
Requested == [stage : {"requested"}, method : Methods, ids : Questions]
ResolvedCalls(answers) ==
  [stage : {"resolved"}, method : Methods, ids : Questions, result : answers]
ReturnedCalls(answers) ==
  [stage : {"returned"}, method : Methods, ids : Questions, answer : answers]

\* The state of one call, with what its history holds.
CallOK(call, seen) ==
  \/ call \in Idle
  \/ /\ call \in Requested
     /\ AnswerNow(call.ids) \in seen
  \/ /\ call \in ResolvedCalls(seen \cup {Refused})
     /\ AnswerNow(call.ids) \in seen
  \/ call \in ReturnedCalls(seen \cup {Refused})

CallsOK ==
  /\ DOMAIN calls = Calls
  /\ calls = [c \in Calls |-> calls[c]]
  /\ DOMAIN history = Calls
  /\ history = [c \in Calls |-> [seen |-> history[c].seen, asked |-> history[c].asked]]
  /\ \A c \in Calls :
       /\ CallOK(calls[c], history[c].seen)
       /\ \A answer \in history[c].seen : Genuine(answer)
       /\ multi_feed = NoAccount => calls[c].stage = "idle"

-----------------------------------------------------------------------------
(* Facts about the operators                                               *)

\* The view of a stored feed has the fields of the feed.
LEMMA AnswersAreGenuine == ASSUME TypeOK, NEW ids PROVE Genuine(AnswerNow(ids))
<1>1. CASE ~FetchSucceeds(ids)
  BY <1>1 DEF AnswerNow, Genuine
<1>2. CASE FetchSucceeds(ids)
  <2>1. AnswerNow(ids) = Answer(FetchBatch(ids)) /\ AnswerNow(ids).feeds = FetchBatch(ids)
    BY <1>2 DEF AnswerNow, Answer
  <2>2. \A id \in DOMAIN feeds : FeedDataView(feeds[id]) = feeds[id]
    BY DEF TypeOK, StoredFeed, FeedDataView
  <2>3. \A k \in DOMAIN ids :
          {FeedDataView(feed) : feed \in FetchBatch(ids)[k]} = FetchBatch(ids)[k]
    BY <2>2 DEF FetchBatch
  <2>4. Views(FetchBatch(ids)) = FetchBatch(ids)
    BY <2>3 DEF Views, FetchBatch
  <2> QED BY <2>1, <2>4 DEF Genuine
<1> QED BY <1>1, <1>2

AnswersGenuine == \A ids \in Questions : Genuine(AnswerNow(ids))

\* The callback delivers what the fetch answered.
LEMMA CallbackDelivers ==
  ASSUME NEW call, Genuine(call.result) PROVE CallbackUnwrap(call) = call.result
<1> DEFINE result == call.result
<1>1. CASE result = Refused
  <2>1. result.ok = FALSE
    BY <1>1 DEF Refused
  <2> QED BY <1>1, <2>1 DEF CallbackUnwrap
<1>2. CASE result = Answer(result.feeds) /\ Views(result.feeds) = result.feeds
  <2>1. result.ok = TRUE
    BY <1>2 DEF Answer
  <2> QED BY <1>2, <2>1 DEF CallbackUnwrap
<1> QED BY <1>1, <1>2 DEF Genuine

\* The oracle's methods that run here are steps of the contract.
LEMMA ConsumerUsesContract == [ConsumerNext]_consumerVars => [Next]_vars
<1>1. OracleStep => Next
  BY DEF OracleStep, OracleMethod, Next
<1> QED
  BY <1>1 DEF ConsumerNext, consumerVars, ConsumerNew, CallStep, GetPrice, GetPrices, Request,
              Fetch, FetchOutOfGas, OnPrice, OnPrices, Callback, CallbackOutOfGas, vars

\* So is what the consumer does: the contract cannot tell.
LEMMA ConsumerSpecImpliesSpec == ConsumerSpec => Spec
<1>1. ConsumerInit => Init
  BY DEF ConsumerInit
<1> QED BY <1>1, ConsumerUsesContract, PTL DEF ConsumerSpec, Spec

-----------------------------------------------------------------------------
(* Steps                                                                   *)

Oracle == [ids \in Questions |-> AnswerNow(ids)]
Reads  == [c \in Calls |-> ReadOf(c)]

\* What fetch answers depends on the state of the contract and the consumer.
LEMMA SameAnswers ==
  ASSUME UNCHANGED <<vars, multi_feed>>
  PROVE  /\ \A ids : AnswerNow(ids)' = AnswerNow(ids)
         /\ Oracle' = Oracle
<1>1. UNCHANGED <<feeds, initialized, flags, authorized_callers, multi_feed>>
  BY DEF vars, roles
<1>2. ASSUME NEW ids PROVE AnswerNow(ids)' = AnswerNow(ids)
  <2>1. FetchBatch(ids)' = FetchBatch(ids)
    BY <1>1 DEF FetchBatch
  <2>2. FetchSucceeds(ids)' <=> FetchSucceeds(ids)
    BY <1>1 DEF FetchSucceeds, CanRead, IsPaused, IsOpenReadWhenUnpaused
  <2> QED BY <2>1, <2>2 DEF AnswerNow
<1> QED BY <1>2 DEF Oracle

\* A step that moves one call and nothing else.
LEMMA OneCallMoves ==
  ASSUME CallsOK, NEW c \in Calls, NEW call, calls' = [calls EXCEPT ![c] = call],
         UNCHANGED <<vars, multi_feed, history>>, CallOK(call, history[c].seen),
         multi_feed # NoAccount
  PROVE  /\ CallsOK'
         /\ calls'[c] = call
         /\ \A d \in Calls \ {c} : ReadOf(d)' = ReadOf(d)
<1>1. calls'[c] = call /\ DOMAIN calls' = Calls /\ \A d \in Calls \ {c} : calls'[d] = calls[d]
  BY DEF CallsOK
<1>2. calls' = [d \in Calls |-> calls'[d]]
  BY <1>1 DEF CallsOK
<1>3. \A ids : AnswerNow(ids)' = AnswerNow(ids)
  BY SameAnswers
<1>4. ASSUME NEW d \in Calls PROVE CallOK(calls'[d], history[d].seen)
  BY <1>1 DEF CallsOK
<1>5. ASSUME NEW d \in Calls PROVE CallOK(calls[d], history[d].seen)'
  BY <1>3, <1>4 DEF CallOK, ResolvedCalls, ReturnedCalls, Idle, Requested
<1>6. ASSUME NEW d \in Calls, NEW answer \in history'[d].seen PROVE Genuine(answer)'
  BY <1>6 DEF CallsOK, Genuine
<1>7. CallsOK'
  BY <1>1, <1>2, <1>5, <1>6 DEF CallsOK
<1>8. \A d \in Calls \ {c} : ReadOf(d)' = ReadOf(d)
  BY <1>1 DEF ReadOf, Pending
<1> QED BY <1>1, <1>7, <1>8

\* The fetch receipt is invisible to the caller.
LEMMA FetchStep ==
  ASSUME TypeOK, CallsOK, NEW c \in Calls, Fetch(c) \/ FetchOutOfGas(c)
  PROVE  CallsOK' /\ UNCHANGED <<Oracle, Reads>>
<1>1. /\ calls[c] \in Requested
      /\ AnswerNow(calls[c].ids) \in history[c].seen
      /\ multi_feed # NoAccount
  BY DEF CallsOK, CallOK, Idle, Requested, ResolvedCalls, ReturnedCalls, Fetch, FetchOutOfGas
<1>2. PICK result \in {AnswerNow(calls[c].ids), Refused} :
        calls' = [calls EXCEPT ![c] = Resolved(calls[c], result)]
  BY DEF Fetch, FetchOutOfGas
<1> DEFINE call == Resolved(calls[c], result)
<1>3. call \in ResolvedCalls(history[c].seen \cup {Refused}) /\ call.ids = calls[c].ids
        /\ call.stage = "resolved"
  BY <1>1, <1>2 DEF Resolved, Requested, ResolvedCalls
<1>4. CallOK(call, history[c].seen)
  <2> HIDE DEF call
  <2> QED BY <1>1, <1>3 DEF CallOK
<1>5. UNCHANGED <<vars, multi_feed, history>>
  BY DEF Fetch, FetchOutOfGas
<1>6. /\ CallsOK'
      /\ calls'[c] = call
      /\ \A d \in Calls \ {c} : ReadOf(d)' = ReadOf(d)
  <2> HIDE DEF call
  <2>1. calls' = [calls EXCEPT ![c] = call]
    BY <1>2 DEF call
  <2> QED BY <1>1, <1>4, <1>5, <2>1, OneCallMoves
<1>7. ReadOf(c)' = ReadOf(c)
  <2> HIDE DEF call
  <2>1. calls[c].stage = "requested" /\ calls'[c].stage = "resolved" /\ calls'[c].ids = calls[c].ids
    BY <1>1, <1>3, <1>6 DEF Requested
  <2> QED BY <1>5, <2>1 DEF ReadOf, Pending
<1>8. Reads' = Reads
  BY <1>6, <1>7 DEF Reads
<1> QED BY <1>5, <1>6, <1>8, SameAnswers

\* The callback returns an answer of a moment since the call, or a failure.
LEMMA ReturnStep ==
  ASSUME TypeOK, CallsOK, NEW c \in Calls, OnPrice(c) \/ OnPrices(c) \/ CallbackOutOfGas(c)
  PROVE  CallsOK' /\ Promised!Return(c)
<1>1. /\ calls[c] \in ResolvedCalls(history[c].seen \cup {Refused})
      /\ multi_feed # NoAccount
  BY DEF CallsOK, CallOK, Idle, Requested, ResolvedCalls, ReturnedCalls, OnPrice, OnPrices,
         Callback, CallbackOutOfGas
<1>2. CallbackUnwrap(calls[c]) = calls[c].result
  <2>1. calls[c].result \in history[c].seen \cup {Refused}
    BY <1>1 DEF ResolvedCalls
  <2>2. Genuine(calls[c].result)
    BY <2>1 DEF CallsOK, Genuine
  <2> QED BY <2>2, CallbackDelivers
<1>3. PICK answer \in history[c].seen \cup {Refused} :
        calls' = [calls EXCEPT ![c] = Returned(calls[c], answer)]
  BY <1>1, <1>2 DEF OnPrice, OnPrices, Callback, CallbackOutOfGas, ResolvedCalls
<1> DEFINE call == Returned(calls[c], answer)
<1>4. /\ call \in ReturnedCalls(history[c].seen \cup {Refused})
      /\ call.ids = calls[c].ids
      /\ call.stage = "returned"
      /\ call.answer = answer
  BY <1>1, <1>3 DEF Returned, ResolvedCalls, ReturnedCalls
<1>5. UNCHANGED <<vars, multi_feed, history>>
  BY DEF OnPrice, OnPrices, Callback, CallbackOutOfGas
<1>6. /\ CallsOK'
      /\ calls'[c] = call
      /\ \A d \in Calls \ {c} : ReadOf(d)' = ReadOf(d)
  <2>1. CallOK(call, history[c].seen)
    BY <1>4 DEF CallOK
  <2> HIDE DEF call
  <2>2. calls' = [calls EXCEPT ![c] = call]
    BY <1>3 DEF call
  <2> QED BY <1>1, <1>5, <2>1, <2>2, OneCallMoves
<1> HIDE DEF call
<1>7. /\ ReadOf(c) = Promised!Waiting(calls[c].ids, history[c].seen)
      /\ ReadOf(c)' = Promised!Returned(calls[c].ids, answer)
  <2>1. calls[c].stage = "resolved"
    BY <1>1 DEF ResolvedCalls
  <2> QED BY <1>4, <1>6, <2>1 DEF ReadOf, Pending, Promised!Waiting, Promised!Returned
<1>8. Promised!Return(c)
  <2>1. Reads[c].stage = "waiting" /\ Reads[c].question = calls[c].ids /\ Reads[c].seen = history[c].seen
    BY <1>7 DEF Reads, Promised!Waiting
  <2>2. Reads' = [Reads EXCEPT ![c] = Promised!Returned(Reads[c].question, answer)]
    BY <1>6, <1>7, <2>1 DEF Reads
  <2>3. Oracle' = Oracle
    BY <1>5, SameAnswers
  <2> QED BY <2>1, <2>2, <2>3 DEF Promised!Return, Promised!Returned, Reads, Oracle
<1> QED BY <1>6, <1>8

\* The request asks, and hears what the oracle would answer at once.
LEMMA RequestStep ==
  ASSUME TypeOK, CallsOK, NEW c \in Calls, GetPrice(c) \/ GetPrices(c)
  PROVE  CallsOK' /\ Promised!Ask(c)
<1>1. PICK method \in Methods, ids \in Questions : Request(c, method, ids)
  BY DEF GetPrice, GetPrices, Methods, Questions
<1> DEFINE call == [stage |-> "requested", method |-> method, ids |-> ids]
           past == [seen |-> {AnswerNow(ids)}, asked |-> FetchBatch(ids)]
<1>2. /\ calls[c].stage = "idle"
      /\ multi_feed # NoAccount
      /\ calls' = [calls EXCEPT ![c] = call]
      /\ history' = [history EXCEPT ![c] = past]
      /\ UNCHANGED <<vars, multi_feed>>
  BY <1>1 DEF Request
<1>3. /\ call \in Requested
      /\ call.stage = "requested"
      /\ call.ids = ids
      /\ past.seen = {AnswerNow(ids)}
      /\ past = [seen |-> past.seen, asked |-> past.asked]
  BY DEF Requested
<1> HIDE DEF call, past
<1>4. /\ calls'[c] = call
      /\ history'[c] = past
      /\ \A d \in Calls \ {c} : calls'[d] = calls[d] /\ history'[d] = history[d]
      /\ DOMAIN calls' = Calls /\ calls' = [d \in Calls |-> calls'[d]]
      /\ DOMAIN history' = Calls
  BY <1>2 DEF CallsOK
<1>5. history' = [d \in Calls |-> [seen |-> history'[d].seen, asked |-> history'[d].asked]]
  <2>1. \A d \in Calls : history'[d] = [seen |-> history'[d].seen, asked |-> history'[d].asked]
    BY <1>3, <1>4 DEF CallsOK
  <2>2. history' = [d \in Calls |-> history'[d]]
    BY <1>2 DEF CallsOK
  <2> QED BY <2>1, <2>2
<1>6. \A any : AnswerNow(any)' = AnswerNow(any)
  BY <1>2, SameAnswers
<1>7. ASSUME NEW d \in Calls
      PROVE  CallOK(calls'[d], history'[d].seen) /\ \A answer \in history'[d].seen : Genuine(answer)
  <2>1. CASE d = c
    BY <1>3, <1>4, <2>1, AnswersAreGenuine DEF CallOK
  <2>2. CASE d # c
    BY <1>4, <2>2 DEF CallsOK
  <2> QED BY <2>1, <2>2
<1>8. CallsOK'
  <2>1. \A d \in Calls : CallOK(calls[d], history[d].seen)'
    BY <1>6, <1>7 DEF CallOK, ResolvedCalls, ReturnedCalls, Idle, Requested
  <2>2. \A d \in Calls : \A answer \in history'[d].seen : Genuine(answer)'
    BY <1>7 DEF Genuine
  <2> QED BY <1>2, <1>4, <1>5, <2>1, <2>2 DEF CallsOK
<1>9. Promised!Ask(c)
  <2>1. Reads[c].stage = "idle"
    <3>1. ReadOf(c) = [stage |-> "idle"]
      BY <1>2 DEF ReadOf, Pending
    <3> QED BY <3>1 DEF Reads
  <2>2. \A d \in Calls \ {c} : ReadOf(d)' = ReadOf(d)
    BY <1>4 DEF ReadOf, Pending
  <2>3. ReadOf(c)' = Promised!Waiting(ids, {AnswerNow(ids)})
    BY <1>3, <1>4 DEF ReadOf, Pending, Promised!Waiting
  <2>4. Reads' = [Reads EXCEPT ![c] = Promised!Waiting(ids, {Oracle[ids]})]
    BY <2>2, <2>3 DEF Reads, Oracle
  <2>5. Oracle' = Oracle
    BY <1>2, SameAnswers
  <2>6. ids \in DOMAIN Oracle
    BY DEF Oracle
  <2> QED BY <2>1, <2>4, <2>5, <2>6 DEF Promised!Ask, Promised!Waiting, Reads, Oracle
<1> QED BY <1>8, <1>9

\* The oracle goes on, and every pending call may hear its new answer.
LEMMA OracleGoesOn ==
  ASSUME AnswersGenuine', CallsOK, OracleStep
  PROVE  CallsOK' /\ Promised!OracleChanges
<1>1. /\ multi_feed' = multi_feed
      /\ calls' = calls
      /\ history' = [c \in Calls |->
                       IF Pending(c)
                         THEN [history[c] EXCEPT !.seen = @ \cup {AnswerNow(calls[c].ids)'}]
                         ELSE history[c]]
  BY DEF OracleStep
<1>2. ASSUME NEW c \in Calls, Pending(c)
      PROVE  /\ history'[c] = [seen |-> history[c].seen \cup {Oracle'[calls[c].ids]},
                               asked |-> history[c].asked]
             /\ calls[c] \in Requested \cup ResolvedCalls(history[c].seen \cup {Refused})
             /\ calls[c].ids \in Questions
  <2>1. calls[c] \in Requested \cup ResolvedCalls(history[c].seen \cup {Refused})
    BY <1>2 DEF CallsOK, CallOK, Pending, Idle, ReturnedCalls
  <2>2. calls[c].ids \in Questions
    BY <2>1 DEF Requested, ResolvedCalls
  <2>3. AnswerNow(calls[c].ids)' = Oracle'[calls[c].ids]
    BY <1>1, <2>2 DEF Oracle
  <2>4. history'[c] = [history[c] EXCEPT !.seen = @ \cup {AnswerNow(calls[c].ids)'}]
    BY <1>1, <1>2
  <2>5. history[c] = [seen |-> history[c].seen, asked |-> history[c].asked]
    BY DEF CallsOK
  <2>6. history'[c] = [seen |-> history[c].seen \cup {Oracle'[calls[c].ids]},
                       asked |-> history[c].asked]
    BY <2>3, <2>4, <2>5
  <2> QED BY <2>1, <2>2, <2>6
<1>3. ASSUME NEW c \in Calls, ~Pending(c)
      PROVE  /\ history'[c] = history[c]
             /\ calls[c] \in Idle \cup ReturnedCalls(history[c].seen \cup {Refused})
  BY <1>1, <1>3 DEF CallsOK, CallOK, Pending, Requested, ResolvedCalls
<1>4. ASSUME NEW c \in Calls, Pending(c) PROVE Genuine(Oracle'[calls[c].ids])
  <2>1. \A ids \in Questions : Genuine(Oracle'[ids])
    BY DEF AnswersGenuine, Oracle, Genuine, Refused, Answer, Views, FeedDataView
  <2> QED BY <1>2, <1>4, <2>1
<1>5. CallsOK'
  <2>1. ASSUME NEW c \in Calls
        PROVE  /\ history'[c] = [seen |-> history'[c].seen, asked |-> history'[c].asked]
               /\ CallOK(calls[c], history[c].seen)'
               /\ \A answer \in history'[c].seen : Genuine(answer)
    <3>1. CASE Pending(c)
      <4>1. /\ history'[c].seen = history[c].seen \cup {Oracle'[calls[c].ids]}
            /\ history'[c] = [seen |-> history'[c].seen, asked |-> history'[c].asked]
        <5>1. history'[c] = [seen |-> history[c].seen \cup {Oracle'[calls[c].ids]},
                             asked |-> history[c].asked]
          BY <1>2, <3>1
        <5> QED BY <5>1
      <4>2. CallOK(calls[c], history[c].seen)'
        <5>1. AnswerNow(calls[c].ids)' = Oracle'[calls[c].ids]
          BY <1>1, <1>2, <3>1 DEF Oracle
        <5> QED BY <1>1, <1>2, <3>1, <4>1, <5>1 DEF CallOK, Requested, ResolvedCalls
      <4>3. \A answer \in history'[c].seen : Genuine(answer)
        BY <1>4, <3>1, <4>1 DEF CallsOK
      <4> QED BY <4>1, <4>2, <4>3
    <3>2. CASE ~Pending(c)
      <4>1. CallOK(calls[c], history[c].seen)'
        BY <1>1, <1>3, <3>2 DEF CallOK, Idle, ReturnedCalls
      <4> QED BY <1>3, <3>2, <4>1 DEF CallsOK
    <3> QED BY <3>1, <3>2
  <2>2. \A c \in Calls : \A answer \in history'[c].seen : Genuine(answer)'
    BY <2>1 DEF Genuine
  <2>3. DOMAIN history' = Calls /\ history' = [c \in Calls |-> history'[c]]
    BY <1>1
  <2>4. history' = [c \in Calls |-> [seen |-> history'[c].seen, asked |-> history'[c].asked]]
    BY <2>1, <2>3
  <2> QED BY <1>1, <2>1, <2>2, <2>3, <2>4 DEF CallsOK
<1>6. Promised!OracleChanges
  <2>1. ASSUME NEW c \in Calls
        PROVE  ReadOf(c)' = IF ReadOf(c).stage = "waiting"
                              THEN Promised!Waiting(ReadOf(c).question,
                                                    ReadOf(c).seen \cup {Oracle'[ReadOf(c).question]})
                              ELSE ReadOf(c)
    <3>1. CASE Pending(c)
      <4>1. ReadOf(c) = Promised!Waiting(calls[c].ids, history[c].seen)
        BY <3>1 DEF ReadOf, Pending, Promised!Waiting
      <4>2. ReadOf(c)' = Promised!Waiting(calls[c].ids, history'[c].seen)
        BY <1>1, <3>1 DEF ReadOf, Pending, Promised!Waiting
      <4>3. history'[c].seen = history[c].seen \cup {Oracle'[calls[c].ids]}
        <5>1. history'[c] = [seen |-> history[c].seen \cup {Oracle'[calls[c].ids]},
                             asked |-> history[c].asked]
          BY <1>2, <3>1
        <5> QED BY <5>1
      <4> QED BY <4>1, <4>2, <4>3 DEF Promised!Waiting
    <3>2. CASE ~Pending(c)
      <4>1. ReadOf(c)' = ReadOf(c)
        BY <1>1, <1>3, <3>2 DEF ReadOf, Pending
      <4>2. calls[c].stage \in {"idle", "returned"}
        BY <1>3, <3>2 DEF Idle, ReturnedCalls
      <4>3. ReadOf(c).stage # "waiting"
        <5>1. CASE calls[c].stage = "idle"
          <6>1. ReadOf(c) = [stage |-> "idle"]
            BY <5>1 DEF ReadOf, Pending
          <6> QED BY <6>1
        <5>2. CASE calls[c].stage = "returned"
          <6>1. ReadOf(c) = [stage |-> "returned", question |-> calls[c].ids,
                             answer |-> calls[c].answer]
            BY <5>2 DEF ReadOf, Pending
          <6> QED BY <6>1
        <5> QED BY <4>2, <5>1, <5>2
      <4> QED BY <4>1, <4>3
    <3> QED BY <3>1, <3>2
  <2>2. Reads' = [c \in Calls |->
                    IF Reads[c].stage = "waiting"
                      THEN Promised!Waiting(Reads[c].question,
                                            Reads[c].seen \cup {Oracle'[Reads[c].question]})
                      ELSE Reads[c]]
    BY <2>1 DEF Reads
  <2> QED BY <2>2 DEF Promised!OracleChanges, Promised!Waiting, Reads, Oracle
<1> QED BY <1>5, <1>6

\* The consumer is set up before there is any call.
LEMMA ConsumerNewStep ==
  ASSUME CallsOK, NEW account \in {OracleAccount, OtherAccount}, ConsumerNew(account)
  PROVE  CallsOK' /\ Promised!OracleChanges
<1>1. /\ multi_feed' # NoAccount
      /\ UNCHANGED <<calls, history>>
      /\ \A c \in Calls : calls[c].stage = "idle"
  BY ConsumerAssumption DEF ConsumerNew, CallsOK
<1>2. \A c \in Calls : calls[c] \in Idle
  BY <1>1 DEF CallsOK, CallOK, Idle, Requested, ResolvedCalls, ReturnedCalls
<1>3. CallsOK'
  <2>1. \A c \in Calls : CallOK(calls[c], history[c].seen)'
    BY <1>1, <1>2 DEF CallOK, Idle
  <2>2. \A c \in Calls : \A answer \in history'[c].seen : Genuine(answer)'
    BY <1>1 DEF CallsOK, Genuine
  <2> QED BY <1>1, <2>1, <2>2 DEF CallsOK
<1>4. Promised!OracleChanges
  <2>1. ASSUME NEW c \in Calls
        PROVE  ReadOf(c) = [stage |-> "idle"] /\ ReadOf(c)' = [stage |-> "idle"]
    <3>1. ReadOf(c) = [stage |-> "idle"]
      BY <1>1 DEF ReadOf, Pending
    <3>2. ReadOf(c)' = [stage |-> "idle"]
      BY <1>1 DEF ReadOf, Pending
    <3> QED BY <3>1, <3>2
  <2>2. Reads' = [c \in Calls |->
                    IF Reads[c].stage = "waiting"
                      THEN Promised!Waiting(Reads[c].question,
                                            Reads[c].seen \cup {Oracle'[Reads[c].question]})
                      ELSE Reads[c]]
    BY <2>1 DEF Reads
  <2> QED BY <2>2 DEF Promised!OracleChanges, Promised!Waiting, Reads, Oracle
<1> QED BY <1>3, <1>4

-----------------------------------------------------------------------------
(* The refinement                                                          *)

\* Three receipts and an oracle that goes on between them look to the caller
\* like one read at one moment of the call, or like a failure
\* (examples/consumer lib.rs:33-81).
THEOREM ConsumerKeepsPromise == ConsumerSpec => ReadsOneMoment /\ []CallsOK
<1>1. ConsumerInit => CallsOK /\ Promised!Init
  <2> SUFFICES ASSUME ConsumerInit PROVE CallsOK /\ Promised!Init
    OBVIOUS
  <2>1. /\ calls = [c \in Calls |-> [stage |-> "idle"]]
        /\ history = [c \in Calls |-> [seen |-> {}, asked |-> <<>>]]
    BY DEF ConsumerInit
  <2>2. CallsOK
    BY <2>1 DEF CallsOK, CallOK, Idle
  <2>3. \A c \in Calls : ReadOf(c) = [stage |-> "idle"]
    BY <2>1 DEF ReadOf, Pending
  <2> QED BY <2>2, <2>3 DEF Promised!Init
<1>2. TypeOK /\ AnswersGenuine' /\ CallsOK /\ [ConsumerNext]_consumerVars =>
        CallsOK' /\ (Promised!Next \/ UNCHANGED <<Oracle, Reads>>)
  <2> SUFFICES ASSUME TypeOK, AnswersGenuine', CallsOK, [ConsumerNext]_consumerVars
               PROVE  CallsOK' /\ (Promised!Next \/ UNCHANGED <<Oracle, Reads>>)
    OBVIOUS
  <2>1. ASSUME NEW c \in Calls, CallStep(c)
        PROVE  CallsOK' /\ (Promised!Next \/ UNCHANGED <<Oracle, Reads>>)
    <3>1. CASE GetPrice(c) \/ GetPrices(c)
      BY <3>1, RequestStep DEF Promised!Next
    <3>2. CASE Fetch(c) \/ FetchOutOfGas(c)
      BY <3>2, FetchStep
    <3>3. CASE OnPrice(c) \/ OnPrices(c) \/ CallbackOutOfGas(c)
      BY <3>3, ReturnStep DEF Promised!Next
    <3> QED BY <2>1, <3>1, <3>2, <3>3 DEF CallStep
  <2>2. ASSUME NEW account \in {OracleAccount, OtherAccount}, ConsumerNew(account)
        PROVE  CallsOK' /\ Promised!Next
    BY <2>2, ConsumerNewStep DEF Promised!Next
  <2>3. CASE OracleStep
    BY <2>3, OracleGoesOn DEF Promised!Next
  <2>4. CASE UNCHANGED consumerVars
    <3>1. UNCHANGED <<vars, multi_feed, calls, history>>
      BY <2>4 DEF consumerVars
    <3>2. \A c \in Calls : ReadOf(c)' = ReadOf(c)
      BY <3>1 DEF ReadOf, Pending
    <3>3. \A ids : AnswerNow(ids)' = AnswerNow(ids)
      BY <3>1, SameAnswers
    <3>4. CallsOK'
      BY <3>1, <3>3 DEF CallsOK, CallOK, Idle, Requested, ResolvedCalls, ReturnedCalls, Genuine
    <3> QED BY <3>1, <3>2, <3>4, SameAnswers DEF Reads
  <2> QED BY <2>1, <2>2, <2>3, <2>4 DEF ConsumerNext
<1>3. TypeOK => AnswersGenuine
  BY AnswersAreGenuine DEF AnswersGenuine
<1> QED
  BY <1>1, <1>2, <1>3, ConsumerSpecImpliesSpec, TypeCorrect, PTL
  DEF ConsumerSpec, ReadsOneMoment, Promised!Spec, Oracle, Reads

-----------------------------------------------------------------------------
(* No answer is older than its request                                     *)

Newer(old, new) == old # new => old.agg_ts < new.agg_ts

\* feeds_ answers ids no older than asked, what was stored at the request.
AnswersSince(ids, asked, feeds_) ==
  \A k \in DOMAIN ids : \A old \in asked[k] :
    /\ old \in StoredFeed
    /\ \E new \in feeds_[k] : Newer(old, new)

\* Every call is on its way to such an answer, or has it.
SinceRequest(c) ==
  /\ calls[c].stage = "requested" =>
       AnswersSince(calls[c].ids, history[c].asked, FetchBatch(calls[c].ids))
  /\ calls[c].stage = "resolved" /\ calls[c].result.ok =>
       AnswersSince(calls[c].ids, history[c].asked, calls[c].result.feeds)
  /\ calls[c].stage = "returned" /\ calls[c].answer.ok =>
       AnswersSince(calls[c].ids, history[c].asked, calls[c].answer.feeds)

CallsAreSince == \A c \in Calls : SinceRequest(c)

\* What is stored at the request is no older than itself.
LEMMA AskedNow ==
  ASSUME TypeOK, NEW ids
  PROVE  AnswersSince(ids, FetchBatch(ids), FetchBatch(ids))
BY DEF AnswersSince, Newer, FetchBatch, TypeOK

\* What is stored after a step is no older than what was stored before it.
LEMMA StillSince ==
  ASSUME TypeOK, TypeOK', [FeedsGrow]_vars, NEW ids, NEW asked,
         AnswersSince(ids, asked, FetchBatch(ids))
  PROVE  AnswersSince(ids, asked, FetchBatch(ids)')
<1> SUFFICES ASSUME NEW k \in DOMAIN ids, NEW old \in asked[k]
             PROVE  old \in StoredFeed /\ \E new \in FetchBatch(ids)'[k] : Newer(old, new)
  BY DEF AnswersSince
<1> DEFINE id == ids[k]
<1>1. old \in StoredFeed /\ id \in DOMAIN feeds /\ Newer(old, feeds[id])
  BY DEF AnswersSince, FetchBatch
<1>2. id \in DOMAIN feeds' /\ (feeds'[id] = feeds[id] \/ feeds'[id].agg_ts > feeds[id].agg_ts)
  BY <1>1 DEF FeedsGrow, vars
<1>3. old.agg_ts \in Nat /\ feeds[id].agg_ts \in Nat /\ feeds'[id].agg_ts \in Nat
  BY <1>1, <1>2, NumbersAssumption DEF TypeOK, StoredFeed
<1>4. Newer(old, feeds'[id])
  BY <1>1, <1>2, <1>3 DEF Newer
<1>5. FetchBatch(ids)'[k] = {feeds'[id]}
  BY <1>2 DEF FetchBatch
<1> QED BY <1>1, <1>4, <1>5

\* A step that leaves a call alone.
LEMMA OthersSince ==
  ASSUME TypeOK, TypeOK', [FeedsGrow]_vars, NEW c \in Calls, SinceRequest(c),
         calls'[c] = calls[c], history'[c].asked = history[c].asked
  PROVE  SinceRequest(c)'
<1> SUFFICES ASSUME NEW call, call = calls[c], NEW asked, asked = history[c].asked
             PROVE  SinceRequest(c)'
  OBVIOUS
<1>1. /\ call.stage = "requested" => AnswersSince(call.ids, asked, FetchBatch(call.ids))
      /\ call.stage = "resolved" /\ call.result.ok =>
           AnswersSince(call.ids, asked, call.result.feeds)
      /\ call.stage = "returned" /\ call.answer.ok =>
           AnswersSince(call.ids, asked, call.answer.feeds)
  BY DEF SinceRequest
<1>2. call.stage = "requested" => AnswersSince(call.ids, asked, FetchBatch(call.ids)')
  BY <1>1, StillSince
<1>3. /\ call.stage = "requested" => AnswersSince(call.ids, asked, FetchBatch(call.ids))'
      /\ call.stage = "resolved" /\ call.result.ok =>
           AnswersSince(call.ids, asked, call.result.feeds)'
      /\ call.stage = "returned" /\ call.answer.ok =>
           AnswersSince(call.ids, asked, call.answer.feeds)'
  BY <1>1, <1>2 DEF AnswersSince, Newer, StoredFeed
<1> QED BY <1>3 DEF SinceRequest

\* The invariant is kept by every step.
LEMMA SinceStep ==
  ASSUME TypeOK, TypeOK', CallsOK, CallsOK', [FeedsGrow]_vars, CallsAreSince,
         [ConsumerNext]_consumerVars
  PROVE  CallsAreSince'
<1>1. ASSUME NEW c \in Calls, calls'[c] = calls[c], history'[c].asked = history[c].asked
      PROVE  SinceRequest(c)'
  BY <1>1, OthersSince DEF CallsAreSince
<1>2. ASSUME NEW c \in Calls, CallStep(c)
      PROVE  /\ SinceRequest(c)'
             /\ \A d \in Calls \ {c} : calls'[d] = calls[d] /\ history'[d] = history[d]
  <2>1. \A d \in Calls \ {c} : calls'[d] = calls[d] /\ history'[d] = history[d]
    BY <1>2 DEF CallStep, GetPrice, GetPrices, Request, Fetch, FetchOutOfGas, OnPrice, OnPrices,
                Callback, CallbackOutOfGas, CallsOK
  <2>2. CASE GetPrice(c) \/ GetPrices(c)
    <3>1. PICK method \in Methods, ids \in Questions : Request(c, method, ids)
      BY <2>2 DEF GetPrice, GetPrices, Methods, Questions
    <3>2. /\ calls'[c] = [stage |-> "requested", method |-> method, ids |-> ids]
          /\ history'[c] = [seen |-> {AnswerNow(ids)}, asked |-> FetchBatch(ids)]
          /\ feeds' = feeds
      BY <3>1 DEF Request, CallsOK, vars
    <3>3. /\ calls'[c].stage = "requested"
          /\ calls'[c].ids = ids
          /\ history'[c].asked = FetchBatch(ids)
      BY <3>2
    <3>4. AnswersSince(ids, FetchBatch(ids), FetchBatch(ids))
      BY AskedNow
    <3>5. FetchBatch(ids)' = FetchBatch(ids)
      BY <3>2 DEF FetchBatch
    <3>6. SinceRequest(c)'
      BY <3>3, <3>4, <3>5 DEF SinceRequest, AnswersSince, Newer, StoredFeed
    <3> QED BY <2>1, <3>6
  <2>3. CASE Fetch(c) \/ FetchOutOfGas(c)
    <3>1. /\ calls[c].stage = "requested"
          /\ history' = history
          /\ SinceRequest(c)
      BY <2>3 DEF Fetch, FetchOutOfGas, CallsAreSince
    <3>2. PICK result \in {AnswerNow(calls[c].ids), Refused} :
            calls'[c] = Resolved(calls[c], result)
      BY <2>3 DEF Fetch, FetchOutOfGas, CallsOK
    <3>3. /\ calls'[c].stage = "resolved"
          /\ calls'[c].ids = calls[c].ids
          /\ calls'[c].result = result
      BY <3>2 DEF Resolved
    <3>4. result.ok => result.feeds = FetchBatch(calls[c].ids)
      BY <3>2 DEF AnswerNow, Refused, Answer
    <3>5. result.ok => AnswersSince(calls[c].ids, history[c].asked, result.feeds)
      BY <3>1, <3>4 DEF SinceRequest
    <3>6. SinceRequest(c)'
      BY <3>1, <3>3, <3>5 DEF SinceRequest, AnswersSince, Newer, StoredFeed
    <3> QED BY <2>1, <3>6
  <2>4. CASE OnPrice(c) \/ OnPrices(c) \/ CallbackOutOfGas(c)
    <3>1. /\ calls[c].stage = "resolved"
          /\ history' = history
          /\ SinceRequest(c)
      BY <2>4 DEF OnPrice, OnPrices, Callback, CallbackOutOfGas, CallsAreSince
    <3>2. CallbackUnwrap(calls[c]) = calls[c].result
      <4>1. calls[c] \in ResolvedCalls(history[c].seen \cup {Refused})
        BY <3>1 DEF CallsOK, CallOK, Idle, Requested, ReturnedCalls
      <4>2. calls[c].result \in history[c].seen \cup {Refused}
        BY <4>1 DEF ResolvedCalls
      <4>3. Genuine(calls[c].result)
        BY <4>2 DEF CallsOK, Genuine
      <4> QED BY <4>3, CallbackDelivers
    <3>3. PICK answer \in {calls[c].result, Refused} : calls'[c] = Returned(calls[c], answer)
      BY <2>4, <3>2 DEF OnPrice, OnPrices, Callback, CallbackOutOfGas, CallsOK
    <3>4. /\ calls'[c].stage = "returned"
          /\ calls'[c].ids = calls[c].ids
          /\ calls'[c].answer = answer
      BY <3>3 DEF Returned
    <3>5. answer.ok => AnswersSince(calls[c].ids, history[c].asked, answer.feeds)
      BY <3>1, <3>3 DEF SinceRequest, Refused
    <3>6. SinceRequest(c)'
      BY <3>1, <3>4, <3>5 DEF SinceRequest, AnswersSince, Newer, StoredFeed
    <3> QED BY <2>1, <3>6
  <2> QED BY <1>2, <2>1, <2>2, <2>3, <2>4 DEF CallStep
<1>3. CASE OracleStep
  <2>1. calls' = calls /\ \A c \in Calls : history'[c].asked = history[c].asked
    BY <1>3 DEF OracleStep, CallsOK
  <2> QED BY <1>1, <2>1 DEF CallsAreSince
<1>4. CASE \E account \in {OracleAccount, OtherAccount} : ConsumerNew(account)
  BY <1>1, <1>4 DEF ConsumerNew, CallsAreSince
<1>5. CASE UNCHANGED consumerVars
  BY <1>1, <1>5 DEF consumerVars, CallsAreSince
<1> QED
  BY <1>1, <1>2, <1>3, <1>4, <1>5 DEF ConsumerNext, CallsAreSince

\* A delivered feed is the one stored at the call or a newer report, and None
\* is delivered only for a feed that was absent at the call, for any number of
\* calls and whatever the oracle does meanwhile (examples/consumer
\* lib.rs:58-81).
THEOREM NeverOlderThanRequest == ConsumerSpec => []NoOlderThanRequest
<1>1. ConsumerInit => CallsAreSince
  <2> SUFFICES ASSUME ConsumerInit, NEW c \in Calls PROVE SinceRequest(c)
    BY DEF CallsAreSince
  <2>1. calls[c].stage = "idle"
    BY DEF ConsumerInit
  <2> QED BY <2>1 DEF SinceRequest
<1>2. TypeOK /\ TypeOK' /\ CallsOK /\ CallsOK' /\ [FeedsGrow]_vars /\ CallsAreSince
        /\ [ConsumerNext]_consumerVars => CallsAreSince'
  BY SinceStep
<1>3. CallsAreSince => NoOlderThanRequest
  BY DEF CallsAreSince, SinceRequest, AnswersSince, Newer, NoOlderThanRequest
<1> QED
  BY <1>1, <1>2, <1>3, ConsumerKeepsPromise, ConsumerSpecImpliesSpec, FeedsOnlyGrow, TypeCorrect,
     PTL
  DEF ConsumerSpec
=============================================================================
