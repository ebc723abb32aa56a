-------------------------- MODULE StoredFeedCodec --------------------------
(***************************************************************************)
(* The two byte formats of a feed (src/types.rs) and the way of a feed     *)
(* through both: f packs it into the storage value, big-endian and without *)
(* the high bytes; fetch unpacks it and answers in standard Borsh, little- *)
(* endian and at full width, behind the tag of an Option; the caller       *)
(* decodes the answer with a Borsh library.                                *)
(*                                                                         *)
(* The base of a byte and the widths of the fields are parameters (256,    *)
(* 16 and 8 bytes of which 10 and 6 are stored, in the code).              *)
(***************************************************************************)
EXTENDS Numerals, SequencesExt

CONSTANTS
  BASE,                      \* 256
  PRICE_WIDTH, TS_WIDTH,     \* 16 and 8: u128 and u64
  PRICE_STORED, TS_STORED    \* 10 and 6

ASSUME WidthsAssumption ==
  /\ BASE \in Nat /\ BASE >= 2
  /\ PRICE_WIDTH \in Nat /\ TS_WIDTH \in Nat
  /\ PRICE_STORED \in 1 .. PRICE_WIDTH
  /\ TS_STORED \in 1 .. TS_WIDTH

VARIABLES
  stage,    \* how far the feed has come
  feed,     \* what f was given, or None when the feed was never reported
  bytes,    \* the value in storage, then the result of fetch
  loaded    \* the feed as fetch has it, and finally as the caller has it

vars == <<stage, feed, bytes, loaded>>

Prices     == 0 .. Power(BASE, PRICE_WIDTH) - 1
Timestamps == 0 .. Power(BASE, TS_WIDTH) - 1
Feeds      == [price : Prices, agg_ts : Timestamps, onchain_ts : Timestamps]
None       == <<>>

-----------------------------------------------------------------------------
(* uN::to_be_bytes, to_le_bytes and their inverses                         *)

ToBeBytes(n, width) == [k \in 1 .. width |-> (n \div Power(BASE, width - k)) % BASE]
ToLeBytes(n, width) == Reverse(ToBeBytes(n, width))
FromBeBytes(s)      == FromDigits(s, BASE)
FromLeBytes(s)      == FromBeBytes(Reverse(s))
Zeros(width)        == [k \in 1 .. width |-> 0]

-----------------------------------------------------------------------------
(* Storage: StoredFeed::serialize and StoredFeed::deserialize_reader       *)

\* A faulty slice that keeps the high bytes.
HighBytes(n, width, stored) == SubSeq(ToBeBytes(n, width), 1, stored)

\* to_be_bytes()[width - stored .. width]
LowBytes(n, width, stored) == SubSeq(ToBeBytes(n, width), width - stored + 1, width)

Serialize(f) ==
  LowBytes(f.price, PRICE_WIDTH, PRICE_STORED)
    \o LowBytes(f.agg_ts, TS_WIDTH, TS_STORED)
    \o LowBytes(f.onchain_ts, TS_WIDTH, TS_STORED)

\* A zeroed buffer of the full width whose low portion read_exact fills with
\* the stored bytes that start at first.
ReadLow(s, first, width, stored) ==
  FromBeBytes(Zeros(width - stored) \o SubSeq(s, first, first + stored - 1))

Deserialize(s) ==
  [price |-> ReadLow(s, 1, PRICE_WIDTH, PRICE_STORED),
   agg_ts |-> ReadLow(s, PRICE_STORED + 1, TS_WIDTH, TS_STORED),
   onchain_ts |-> ReadLow(s, PRICE_STORED + TS_STORED + 1, TS_WIDTH, TS_STORED)]

-----------------------------------------------------------------------------
(* The answer of fetch: borsh of Option<FeedData>, derived by near_sdk     *)

\* Faulty: the byte order of the storage codec.
AnswerBigEndian(f) ==
  IF f = None THEN <<0>>
  ELSE <<1>> \o ToBeBytes(f.price, PRICE_WIDTH) \o ToBeBytes(f.agg_ts, TS_WIDTH)
             \o ToBeBytes(f.onchain_ts, TS_WIDTH)

Answer(f) ==
  IF f = None THEN <<0>>
  ELSE <<1>> \o ToLeBytes(f.price, PRICE_WIDTH) \o ToLeBytes(f.agg_ts, TS_WIDTH)
             \o ToLeBytes(f.onchain_ts, TS_WIDTH)

\* What a Borsh library makes of it, from the layout README.md:35-37 gives.
DecodeAnswer(s) ==
  IF s[1] = 0 THEN None
  ELSE [price |-> FromLeBytes(SubSeq(s, 2, PRICE_WIDTH + 1)),
        agg_ts |-> FromLeBytes(SubSeq(s, PRICE_WIDTH + 2, PRICE_WIDTH + TS_WIDTH + 1)),
        onchain_ts |-> FromLeBytes(SubSeq(s, PRICE_WIDTH + TS_WIDTH + 2, Len(s)))]

-----------------------------------------------------------------------------
Init ==
  /\ stage = "given"
  /\ feed \in Feeds \cup {None}
  /\ bytes = <<>>
  /\ loaded = None

\* The insert of f, as it reaches storage; a feed nobody reports is skipped.
Store ==
  /\ stage = "given"
  /\ bytes' = IF feed = None THEN <<>> ELSE Serialize(feed)
  /\ stage' = "stored"
  /\ UNCHANGED <<feed, loaded>>

\* LookupMap::get of fetch: None without a value, and no other default.
Load ==
  /\ stage = "stored"
  /\ loaded' = IF bytes = <<>> THEN None ELSE Deserialize(bytes)
  /\ stage' = "loaded"
  /\ UNCHANGED <<feed, bytes>>

\* FeedData::from copies the fields; the result goes out as Borsh.
Serve ==
  /\ stage = "loaded"
  /\ bytes' = Answer(loaded)
  /\ stage' = "served"
  /\ UNCHANGED <<feed, loaded>>

\* The caller's side.
Decode ==
  /\ stage = "served"
  /\ loaded' = DecodeAnswer(bytes)
  /\ stage' = "decoded"
  /\ UNCHANGED <<feed, bytes>>

Next == Store \/ Load \/ Serve \/ Decode

Spec == Init /\ [][Next]_vars

-----------------------------------------------------------------------------
(* Properties                                                              *)

Truncated(f) ==
  [price |-> f.price % Power(BASE, PRICE_STORED),
   agg_ts |-> f.agg_ts % Power(BASE, TS_STORED),
   onchain_ts |-> f.onchain_ts % Power(BASE, TS_STORED)]

\* The 22-byte storage format (types.rs:16-25 and 33-43) takes exactly the
\* bytes of its fields and gives back each field modulo its stored width,
\* whatever the other two hold: the operator Pack of MultiFeed.
StorageTruncates ==
  /\ stage = "stored" /\ feed # None => Len(bytes) = PRICE_STORED + 2 * TS_STORED
  /\ stage = "loaded" => loaded = IF feed = None THEN None ELSE Truncated(feed)

\* What the caller of fetch decodes is what storage holds: the second format
\* neither widens, reorders nor swaps a field, and None stays None.
CallerSeesStored ==
  stage = "decoded" => loaded = IF feed = None THEN None ELSE Truncated(feed)
=============================================================================
