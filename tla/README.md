# Verification of multi-feed (NEAR)

TLA+ models of the `multi-feed` price oracle contract, TLC configurations that
check them on small instances, and TLAPS proofs about the contract, its loops, its
byte formats and the programs around it for every value of their parameters. Paths such as `lib.rs`
are those of the repository's `src/` directory unless another directory is given.

## 1. Inventory

| Component | State it keeps | Operations | Interacts with |
|---|---|---|---|
| contract (`lib.rs`) | feeds map, flags byte, owner, four role sets | `new`, `f`, `transfer_ownership`, `set_admins`, `set_products`, `set_price_reporters`, `set_authorized_callers`, `set_paused`, `set_open_read_status`; reads: `fetch`, `fetch_batch`, getters | receives receipts from any account; emits events; block time from the runtime |
| flags (`types.rs:72-111`) | one `u8` | construct, three tests, two flips | contract |
| storage codec, read ABI (`types.rs:7-70`) | 22 bytes per feed; Borsh answer of `fetch` | serialize, deserialize, convert | contract storage, callers of `fetch` |
| feed id parsing (`lib.rs:429-441`) | none | string to `u32` | `fetch`, `fetch_batch` |
| events (`events.rs`) | none on chain; a change log off chain | one per change | indexers |
| receipt execution (NEAR runtime and SDK collections) | write-back caches, log buffer | run, panic, run out of gas, flush | contract |
| example consumer (`examples/consumer`) | oracle account | `get_price(s)`, callbacks `on_price(s)` | cross-contract call to `fetch(_batch)`, callback in a later block |
| feed tool (`scripts/src/bin/feed.rs`) | none; a batch signed and under way | build, sign and send one batch | `f` |
| deploy tool (`scripts/src/main.rs`, `config.rs`) | key, configuration and WASM files | check key, confirm, deploy with `new`, verify | `new`, `description` |
| tests (`lib.rs` from 478, `types.rs` from 131, `tests/`) | none | sequences of calls and assertions | contract |

What is hard here, and what makes each part correct:

- **One receipt is atomic, its loop is not.** `f` and the role methods write
  while they validate; a panic in the middle has to leave nothing behind, and an
  entry has to be compared with what the same batch wrote before it.
- **Order.** Reports arrive in any order. A stored report may only be replaced
  by a strictly newer one, and must stay within a minute of the block that
  stored it.
- **Two flips, one byte.** Pausing and opening reads toggle bits that are tested
  by comparing the whole byte; whoever may read must follow the documented modes
  in every order of calls.
- **Events are the only history.** What they say, replayed, must be what the
  getters report.
- **Widths.** Prices and timestamps are stored in fewer bytes than they arrive
  in; the read ABI has another byte order and another width.
- **Asynchrony outside the contract.** Callbacks run in a later block than the
  read; a transaction's answer may be lost and the tool run again; keys are
  checked before the operator confirms.

`PROJECT.json` lists the hazards line by line with the properties that cover them.

## 2. Modules

| Module | Models | Extends |
|---|---|---|
| `Flags` | `types.rs:72-111`, bit for bit | |
| `MultiFeed` | `lib.rs:48-427`: one action per change method, `CanRead` and `FetchBatch` for reads; the events of each receipt in `emitted` | `Flags` |
| `EventReplay` | a strict observer that rebuilds the getters' view from the events | `MultiFeed` |
| `ReceiptExecution` | the loops of `f`, `new` and the role batches one iteration per step, on the SDK's caches | `MultiFeed` |
| `Numerals` | powers of a base and the number a list of digits stands for | |
| `StoredFeedCodec` | the 22-byte storage format, the Borsh answer of `fetch`, and the caller's decoding | `Numerals` |
| `FeedIdParser` | `parse_feed_id` and the core library's `from_str_radix` as it uses it | `Numerals` |
| `PromisedRead` | abstract: what a reader through promises owes its callers | |
| `Consumer` | the example consumer composed with the contract: request, fetch and callback as separate receipts; implements `PromisedRead` | `MultiFeed` |
| `Reporting` | several machines running the feed tool, composed with the contract | `MultiFeed` |
| `Revocation` | `Reporting` with the history of who reported what and since when who is out | `Reporting` |
| `Deploy` | several runs of the deploy tool against one account, with the files, keys and code they share | `MultiFeed` |
| `UnitTests` | the repository's own tests, run against `MultiFeed` | `MultiFeed` |
| `MCRoles`, `MCFeeds`, `MCReceipts`, `MCConsumer`, `MCReporting`, `MCDeploy` | input sets and symmetry for TLC | the above |
| `NumeralProofs` | lemmas: least elements, powers, division, digits, lists one after the other | `Numerals` |
| `MultiFeedProofs`, `ReceiptProofs`, `ConsumerProofs`, `ReportingProofs`, `DeployProofs`, `CodecProofs`, `ParserProofs` | TLAPS proofs | the above |

`Consumer`, `Reporting` (and with it `Revocation`), `Deploy` and `ReceiptExecution` are compositions: their
steps conjoin the contract's actions with what their own actors do, so whatever is
shown of `MultiFeed` is shown of the contract inside them.

### How the model corresponds to the code

**Contract.** `MultiFeed` has one variable per field of the struct (`lib.rs:35-46`)
except `description`, which no decision of the contract reads (`Deploy` adds it).
`feeds` is a function whose domain is the set of stored ids. `initialized` is the
presence of the contract state, `now` the block time in seconds and `emitted` the
events of the last receipt that succeeded (a block boundary clears it). NEAR
executes the receipts of an account one after the other and drops every effect of
a receipt that panics, so a method is one atomic action and a panicking call is no
step. The attached deposit is a parameter: methods without `#[payable]` refuse
any, the others ask for exactly one yoctoNEAR. The inputs (`InitArgs`,
`RoleBatches`, `FeedBatches`, `Deposits`) are constants, so that the proofs hold
for any of them and TLC gets small ones.

**Receipts.** The batch loops of `MultiFeed` are written in closed form: iteration
`k` finds what the last earlier entry for the same key left, or what storage holds
(`MemberAt`, `PrevAggTs`). `ReceiptExecution` justifies this. There a call is begun,
iterates on a cache laid over storage, and ends by flushing (through the codec,
`Pack`), by a panic, or by running out of gas at any point; the SDK's collections,
the gas limit and the block production are external and modelled by how the code
uses them. The block time stands still while a receipt runs.

**Codec and parser.** `StoredFeedCodec` shows byte by byte that the codec is the
operator `Pack` of `MultiFeed`. Its base and widths are parameters: the code's 256,
16/8 and 10/6 become 2, 5/3 and 3/2. `FeedIdParser` keeps radix 16 and has two
digits in place of eight.

**Consumer.** `multi_feed` is the consumer's only field, written once by its `new`.
A call of `get_price` or `get_prices` is a record that goes through the stages
requested, resolved and returned; each move is one receipt (`lib.rs` of the example,
33-81). `Fetch` runs at the oracle and answers from the state it finds there:
refused when the account has no contract, reads are not allowed, or an id does not
parse. `callback_unwrap` turns a failed fetch into a failed call. Either receipt may
run out of the gas it was given. Between any two of them any method of the oracle
that a reader can tell apart may run. `history` records what the oracle would have
answered since the request; no guard reads it, and it is what the refinement
mapping shows to `PromisedRead`.

**Feed tool.** `tools[m]` is the last run on machine `m`: its batch, whether the
operator still waits, and what became of its transaction. `Submit` stamps the batch
one second behind the machine's clock (`feed.rs:29-40`), which may run ahead of the
chain by any of `Skews[m]`; a clock that is behind acts like a transaction that takes
longer. The transaction executes later (`Accept` is
`MultiFeed`'s `F` with the reporter of the machine as the caller, `Refuse` a
panic, recorded in `tx` as the first requirement of `f` that did not hold), or never. `Answer` prints "Done." only for a success; `GiveUp` is a lost
answer, after which the transaction may still execute. A rerun while one is under
way is another machine with the same reporter. The u32 product `100 * feed_id` is
taken modulo `U32_MODULUS`, and panics where it would wrap, as a build with overflow
checks does. `Revocation` runs the same steps and records two things that no guard
reads: `authors`, whose report each feed holds, and `outSince`, when an account that is
out was revoked. They tell what a revocation means to the operators: the one of the
revoked account, who may read "Done." only over a batch dated less than a drift after it, and
the others, whose feeds its last reports hold up.

**Deploy tool.** `runs[r]` holds what one run of the tool has read so far.
`LoadClient`, `Summarize`, `Confirm`, `Execute`, `Answer` and `Verify` are the
stretches of `main.rs` between its awaits and its prompt; in between the environment
edits the files and rotates keys, and other runs proceed. The transaction deploys
the code and calls `new` in one receipt: both happen or neither. A run that stops
with an error before it has sent anything simply stays in the stage it reached.

**Tests.** In `UnitTests` a test is a sequence of steps (a call that must succeed, a
call that must panic, the events of the last call, a getter, a read); the test's
context starts at `Init` and each step goes through `MultiFeed`'s actions. A model
that is stricter than the code, or laxer, fails one of the 88. It guards the model
against its source, not the source against itself.

## 3. Runs

| Run | Instance | Shows |
|---|---|---|
| `roles` | 2 accounts, deposits 0 and 1, lists and batches up to 2, one report | `TypeOK`, `ReadModes`, `EventsReplayState` over every assignment of roles and every order of flag flips |
| `feeds` | 2 feeds, a price below and one at the modulus, batches up to 2, block times 0 to 4, threshold 2 | `DriftBound`, `ServedDateIsPublished`, `NewestReportWins`, `EventsReplayState` |
| `receipt_feeds` | 2 feeds, batches up to 2, block times 0 and 1, prices at and above the modulus | `f` statement by statement: `LoopInvariant`, `ImplementsMultiFeed`, `NoSpuriousPanic` |
| `receipt_roles` | 2 accounts, deposits 0 to 2, batches up to 2, duplicate names given to `new` | the same for `new` and the four role batches |
| `consumer` | 1 call, 2 feeds, block times 0 to 2, every gating and pausing, a malformed id, a wrong oracle account | `NoOlderThanRequest`, the refinement `ReadsOneMoment`, and `EveryCallReturns` (liveness) |
| `reporting` | 2 machines, clocks right, 2 s and 9 s ahead, counts 0 to 3 with an overflow at 3, block times 0 to 4, a reporter who is revoked and appointed again | `AckedIsStored`, `StoredOnce`, `PricesAreExact`, `RevokedIsNotAcked`, `RefusedIsOvertaken`, `RevokedHoldEnds`, and `DriftHeals` (liveness) |
| `deploy` | 2 runs, 2 keys, 2 builds, 3 configurations (one that `new` refuses), 3 command lines | `ShownIsDeployed`, `SuccessIsMine`, `CodeIsInitialized` |
| `unit_tests` | the 88 tests, with the real threshold of 60 s and block time 1,000,000 | `TestsPass` |
| `codec` | two-valued bytes, every feed, and no feed | `StorageTruncates`, `CallerSeesStored` |
| `feed_id` | every string up to 5 characters over 10 characters | `AcceptsExactly`, `OneFeedPerNumeral` |
| `feed_id_plus` | the same | finding: a plus sign is taken for a digit |
| `wide_price` | as `feeds`, with a price at the modulus | finding: the served price is not the published one |

### Why the bounds are enough

- *Contract.* An action looks at one account's membership, one feed and one earlier
  entry at a time, so two of each produce every relation the guards tell apart
  (equal, different, redundant, reverted). The threshold of 2 has a timestamp below,
  at and above it at each block time, and five block times let a report be stale,
  current, drifting within and drifting too far relative to a stored one that
  drifted itself. The proofs need none of these bounds.
- *Consumer.* Calls do not read each other, and `PromisedRead` states its promise for
  each call by itself: one call shows all there is, and `ConsumerProofs` covers any
  number. Two feeds, reported together and then one alone, are what a mixture of two
  moments needs.
- *Reporting.* `LastDrift` bounds the block time until which a clock runs ahead, so
  that within `MaxTime` a future-dated report (at most `LastDrift` plus the threshold
  minus one, that is 2) can be overtaken (at block time 4). A skew of 2 is the largest
  that the threshold accepts, 9 is far beyond. `U32_MODULUS = 256` makes a count of 3
  overflow as 42,949,673 does in the code. The right machine's reporter is never
  revoked; the other one's is, and the block times hold its report, its revocation, a
  batch of it dated a drift later, and those of the right machine that it holds up. The
  bounds of `RevokedIsNotAcked` and `RevokedHoldEnds` are met to the second in this run;
  that a clock ahead by all the threshold still is punctual is `RefusedWasOvertaken`'s.
- *Deploy.* Two runs give every order of two summaries, two transactions and two
  outcomes; a third run can only find the account taken, as the second one does.
- *Tests.* TLC's integers have 32 bits: the price modulus is 2048 in place of 2^80, and
  the one test that reports the widest price reports `PRICE_MODULUS - 1`. Every other
  price and every timestamp is the test's own.

`MaxTime` (the last block time), `LastDrift` and the batch lengths are the only
bounds of the models. The role runs leave block time at zero, which no role method
reads; they let the system stop nowhere. Runs that do stop (the last block time, one
string parsed, one feed decoded, a call returned, a deployment over, a test at its
end) say `CHECK_DEADLOCK FALSE`. Symmetry permutes accounts in `roles` and feed ids in
`feeds`, `wide_price` and `receipt_feeds`: no definition orders or singles one out,
and all properties there are safety properties. The runs with liveness use none.

### Fairness

The contract promises no progress by itself, and its specification assumes none.

- `FairConsumerSpec`: weak fairness of the fetch and of the callback of each call. A
  receipt that a receipt created is executed by the protocol, whether it then
  succeeds, panics or runs out of gas, and `.then` creates the callback whatever
  becomes of the fetch. No fairness is assumed of the request.
- `FairRevocationSpec`: weak fairness of block production, and only for *steady*
  machines (the clock is right and the operator keeps running the tool with a positive
  count) of submitting, of the transaction's outcome (executed or expired), of the
  tool's return and of starting again. Strong fairness of `Accept` says that a
  transaction that is sent again and again, and would be accepted each time, is not
  dropped every time. Nothing is assumed of a machine whose clock is off, or of the
  owner. Without a steady machine `DriftHeals` fails, and rightly so: nobody reports.

## 4. Findings

- **A plus sign is accepted in a feed id** (`feed_id_plus`). `lib.rs:430-431`
  promises that anything but exactly eight hex digits reverts; `from_str_radix`
  skips a leading `+`, so `0x+000002a` reads feed 42. `AcceptsExactly` shows that
  this is the only departure, and `OneFeedPerNumeral` what it amounts to: the plus is
  one more spelling of a leading zero, and no string reaches another numeral's feed.
- **A price of 2^80 or more is served truncated** (`wide_price`). `README.md:5` says
  the latest price is stored and read through `fetch`; `f` accepts the wide price
  and publishes it in full in its event. The test at `types.rs:357` documents the
  truncation in the codec and leaves the bound to an upstream that `f` does not
  provide. With 18 decimals the limit is a price of about 1.2 million. The theorem
  `NarrowPricesAreServed` shows that this is the only way in which the served price and
  the published one can part.

## 5. Proofs

Eight modules; none assumes anything that is not a named assumption on constants.

**Assumptions.** `InputsAssumption`: inputs are of their types, and `NoAccount` is no
account. `NumbersAssumption`: moduli and threshold are positive. `TimestampWidth`:
block time plus threshold fit the stored width; the code relies on it, since a `u64`
of nanoseconds divided by 10^9 is below 2^35 and 2^48 are stored.
`ConsumerAssumption`: a malformed id is no feed id, and the two oracle accounts
differ. `ReportingAssumption`, `BatchesAssumption`: machines have reporters, clocks
that are not behind and counts, a u32 fits the stored price, and what the tool
builds is a batch `f` can be given. `DeployAssumption`: configurations are arguments
`new` can be given, and "missing" is no value. `WidthsAssumption`: the base is at least
two, and of each field between one byte and all are stored. `DigitsAssumption`: an id
has a digit. TLC evaluates each of them.

**Induction without induction theorems** (`NumeralProofs`). The library's induction
theorems cannot be instantiated by the installed provers. What stands in for them is
`LeastElement` (from the well-foundedness of the naturals) and its consequence `UpTo`: a
set that holds 0 and the successors of its elements up to a bound holds everything up to
it. A recursive function is then handled by two lemmas: there is a function that
satisfies the equation (`PowerExists`, `FromDigitsExists`), and two of them agree on every
argument (`PowerIs`, `FromDigitsIs`; `ReplayIs` and `ReportsIs` for the replica,
`PositionalIs` for the parser). To prove what such a definition computes, one writes the
closed form of every intermediate value and checks that it satisfies the equation.

**Contract** (`MultiFeedProofs`).

- `TypeCorrect`: `Spec => []TypeOK`. `TypeOK` is inductive.
- `DriftBounded`: `Spec => []DriftBound`, inductive together with `TypeOK`.
- `ReadModesHold`: `Spec => []ReadModes`, a consequence of `TypeOK` and of
  `FlagOperations`: the shortcut comparisons are right on exactly the four bytes
  `TypeOK` allows.
- `NewestReportStays`: `Spec => NewestReportWins`, from the two invariants.
- `EventsReplayHold`: `Spec => EventsReplayState`, for batches of any length.
- `NarrowPricesAreServed`: `Spec /\ NarrowPrices => []ServedPriceIsPublished`, where
  `NarrowPrices` says that no batch that is tried holds a price beyond the stored width.
  After every receipt of `f`, until its block ends, the served price of a feed is the last
  one that receipt's event has for it.
- `ServedDatesArePublished`: `Spec => []ServedDateIsPublished`, the same for the two
  timestamps and without a condition: the drift bound of `f` and `TimestampWidth` keep them
  narrow. `TypeOK` could not tell, since what is cut to the stored width always fits.

The core is `BatchIsNewer`. Every iteration compares an entry with its predecessor
for the same feed only; that all of them are newer than what storage held is an
induction along the batch. It is done on the least entry that is not newer
(`LeastElement`, from the well-foundedness of the naturals): its predecessor in the
batch is newer than storage, or there is none. `PackedEntry` shows that an accepted
entry's timestamps survive the codec, which needs `TimestampWidth`; `FeedAfterBatch`
says that every feed holds its old value or one packed entry of the batch.

The replay is proved method by method, with the state of the replica after `k` events
in closed form. For a role batch it is the membership after `k` updates: `RoleReplay`
when every update has its event (the methods of the owner), `CallerReplay` for
`set_authorized_callers`, where only the updates that changed something have one and
the replica after `k` events is that of the `k`-th of them (`RanksAndMembers`). For `f`
it is `FeedsUpTo`, the batch cut off after `k` entries (`FReplay`); that no entry is
refused is once more the strict order of reports in one batch. For `new`, which emits two
events and then one for each item of its four lists, an event is refused exactly if its account
came before in the same list, which the duplicate check excludes (`NewReplay`). It needs two invariants
besides `TypeOK`: before `new` there is nothing (`Fresh`), and `feeds` is a function on
its ids (`FeedsAreMap`).

**Receipts** (`ReceiptProofs`). `ReceiptsImplement`: `ReceiptSpec => Spec`, so
everything proved of the atomic contract holds of its statements, for batches of any
length; `LoopInvariantHolds` and `PanicsAreDeserved` state the loop invariant and that
a batch is refused halfway only when it is illegal. The inductive invariant
`ReceiptInv` says what each kind of running receipt has checked and done so far:

- `FRuns`: the requirements of `f` still hold (no other receipt runs in between), and
  `FLoopInvariant`: the cache holds the latest entry of each feed reported so far.
- `RoleRuns`: the same for the role batches, where cache over storage is `MemberAt`.
  The logs need a strengthening of their own, `LogsByRank`: the log of an update stands
  at its *rank*, the number of updates up to it that changed the role. At the flush the
  rank is exactly the index by which `MultiFeed`'s `CallerEvents` places its events;
  when no update may be redundant (`OwnerMethods`) the rank is the position.
- `NewRuns`: the cache of `new` holds one entry for each item so far, no two alike, and
  the logs are a prefix of the concatenated ones. `ItemSource` and `NewLogsShape` say
  which of the four lists an item and its log come from; that no item was refused is
  then that the four lists are duplicate-free.

`ReceiptsKeepTheContract` collects what the refinement carries over to the statements:
`TypeOK`, `DriftBound`, `ReadModes`, `NewestReportWins` and `EventsReplayState` hold of them.

**Consumer** (`ConsumerProofs`). `ConsumerKeepsPromise`: `ConsumerSpec` implements
`PromisedRead` under the mapping `Promised`; fetch and the gas failures map to
stutters, a callback to `Return`. The invariant `CallsOK` types the calls and says that
a resolved answer is among those the oracle gave since the request.
`NeverOlderThanRequest` needs `CallsAreSince`: every answer the oracle could give since
the request has each asked feed, or a newer report. It is kept because feeds only grow
(`FeedsOnlyGrow`, from `NewestReportStays`), which carries over because
`ConsumerSpec => Spec` (`ConsumerSpecImpliesSpec`).

**Reporting** (`ReportingProofs`). `ToolsUseTheContract`: `ReportingSpec => Spec`, and the
runs are well-formed (`ToolsOK`). `ReportInv` is inductive with it: an accepted batch is
stored or overtaken, no two accepted batches share a report, and prices are exact.
`AcceptedStays` again rests on `FeedsOnlyGrow`; `OnceStays` on the strictness of `f`: a
second copy is not newer than the first, which is stored or overtaken.

`RefusedWasOvertaken` says why `f` refuses a batch for its timestamps. `FlyingIsTimely`
strengthens the invariant: a batch under way from a *punctual* machine (its clock runs ahead
by at most the threshold) is dated below the block time plus the threshold. Blocks only get
later, so it stays true however long the transaction is under way, and the future limit of
`f` never is the reason (`OutOfBoundsIsOvertaken`). The tool reports each feed once, so the
entry that fails is compared with storage, and what is stored for it is at least as new; that
stays so (`OvertakenStays`) because stored timestamps only grow. One overtaken feed is enough
to refuse the whole batch: of two reporters whose batches overlap the slower one loses its
other feeds too, and the code leaves those to its next run. A batch dated zero, which only a
clock at the epoch's first second sends, is excepted: `f` takes none, stored report or not.

The theorems on revocation are about `RevocationSpec`, which implies `ReportingSpec`, so
that all of the above holds of it as well. `RevocationInv` is inductive with the drift bound and
says of every account that is out: what it has in storage was stored no later than its
revocation (`RevokedStoresNothing`), and each of its accepted batches is dated below the
revocation plus the threshold (`RevokedInTime`). The second needs `AcceptedInTime`, the same
with the block time in place of the revocation: whoever is revoked at this moment has had its
batches accepted by now. `RevokedStaysUnacked` follows, since "Done." is printed over accepted
batches only. `RevokedHoldIsOver` combines the first with `DriftBound`: a report stored no later
than the revocation is dated less than a drift after it, and what it overtakes is no newer.

**Deployment** (`DeployProofs`). `DeployInv` says what every run holds in each stage, that
a run that succeeded has its configuration on chain, and that code and state are there
together. The one step that matters is `Execute`: `NotInitialized` lets it happen once,
and nobody else writes the account, so what it left stays. `DeploymentUsesContract`:
`DeploySpec => Spec`, so the theorems about the contract hold of the deployed one.

**Byte formats** (`CodecProofs`). `StorageTruncatesHolds` and `CallerSeesStoredHolds`, for
every base and all widths. `CodecInv` gives the form of the feed at each stage of its way;
it is inductive because of two lemmas about the formats, which need no state at all.
`RoundTrip`: what `serialize` writes, `deserialize_reader` reads back modulo the stored
widths. Each field is the last digits of a number after zeros, whose value is `ReadLastDigits`
of `NumeralProofs`, and `SerializeItems` says where in the 22 bytes it lies. `AnswerDecoded`:
the little-endian answer of `fetch` decodes to the feed it was made from. That `None` is told
from a feed rests on `SerializeIsNotEmpty` and on the tag of the answer. `NarrowFeedsArrive`
draws the conclusion: a feed that fits the stored widths (`FeedFits`) arrives unchanged.

**Feed ids** (`ParserProofs`). `AcceptsExactlyHolds`, for any number of digits and strings of
any length over the alphabet. `WellFormedIsAccepted` includes that the value of eight digits
never leaves the `u32` (`Horner`: after `k` digits the value has `k` digits), so that the overflow
check of `from_str_radix` never refuses a string; `AcceptedIsWellFormed` that the byte length, the
prefix and the digit test together leave no other strings than those with a plus in the
first place; `DigitsSpell` that the loop computes the sum of the weighted digits.
`OneFeedPerNumeralHolds`: the strings that name one feed are the spellings of one numeral. That
equal values have equal digits is `DigitsAreUnique` of `NumeralProofs`, which compares the last
digit and goes on with the quotient; `SpellingsOfAValue` carries it over to accepted strings.

**Only model-checked.** `EveryCallReturns` and `DriftHeals` are liveness under fairness,
out of the prover's reach. `TestsPass` is about single executions of the repository's tests,
which TLC runs to their end. Every other property of a passing run is a theorem. The two
findings are violations of what the documents say, shown by TLC.

## 6. Plan

What was planned is done: the contract and its loops, events, codec and parser; the
consumer as a refinement of `PromisedRead`; the feed tool with transactions in flight;
the deploy tool; and the proofs of every safety property of them. An asynchronous indexer that reads blocks
late was planned and dropped: no code in the repository does so, and what a replica
relies on is already `EventsReplayState`, which holds after every receipt.

What could follow: a composition of `Deploy` and `Reporting`, in which the deployed
configuration decides who the reporters are; and calls of the consumer that depend on
one another, if a consumer is ever written that has any.

### Not modelled

- the JSON wording of events, errors and printed summaries, `decimals`, `version`, the
  RPC URL and balance of the summary (printed, never decided upon);
- the order of `get_authorized_callers` (an `IterableSet` promises none);
- storage staking and gas costs: a receipt may run out at any step instead;
- the fixtures of the tests, the sandbox the integration tests start, and the build.
