---------------------------- MODULE FeedIdParser ----------------------------
(***************************************************************************)
(* parse_feed_id (src/lib.rs): the string argument of fetch and            *)
(* fetch_batch becomes the u32 key of the feeds map.                       *)
(*                                                                         *)
(* The radix is the code's; the number of digits is a parameter (8 in the  *)
(* code).  A string is a sequence of characters, and a character is a      *)
(* member of a small alphabet that has every kind the code, or the         *)
(* core library below it, tells apart: digits and letters of both cases,   *)
(* the two letters x, both signs, and a character of two bytes in UTF-8.   *)
(***************************************************************************)
EXTENDS Numerals, SequencesExt

CONSTANTS
  DIGITS,     \* 8: FEED_ID_HEX_STR_LEN is this and the prefix
  MaxLength   \* bound: the longest string that is tried, in characters

ASSUME DigitsAssumption == DIGITS \in Nat \ {0} /\ MaxLength \in Nat

VARIABLES
  input,   \* the string a caller sends
  result   \* what parse_feed_id made of it

vars == <<input, result>>

RADIX == 16
FEED_ID_HEX_STR_LEN == DIGITS + 2

HexDigits == {"0", "9", "a", "A", "f"}
Alphabet  == HexDigits \cup {"x", "X", "+", "-", "two_bytes"}
Strings   == BoundedSeq(Alphabet, MaxLength)

\* char::to_digit(16), for the characters that have one.
DigitValue(char) ==
  CASE char = "0" -> 0
    [] char = "9" -> 9
    [] char \in {"a", "A"} -> 10
    [] char = "f" -> 15

\* str::len counts bytes.
ByteLen(s) == Len(s) + Cardinality({k \in DOMAIN s : s[k] = "two_bytes"})

\* A faulty prefix test that takes the letter of either case.
StartsWithAnyX(s) == Len(s) >= 2 /\ s[1] = "0" /\ s[2] \in {"x", "X"}

StartsWith0x(s) == IsPrefix(<<"0", "x">>, s)

-----------------------------------------------------------------------------
(* u32::from_str_radix of the core library, on what follows the prefix: a  *)
(* leading plus sign is skipped, a lone sign and a character that is not a *)
(* digit are errors, and so is a leading minus, for the type is unsigned.  *)

None    == [ok |-> FALSE]
Some(v) == [ok |-> TRUE, value |-> v]

WithoutPlus(s) == IF Len(s) > 1 /\ s[1] = "+" THEN Tail(s) ELSE s

\* Faulty: the loop of from_str_radix runs in the default radix of parse.
ValueDecimal(digits) == FromDigits([k \in DOMAIN digits |-> DigitValue(digits[k])], 10)

Value(digits) == FromDigits([k \in DOMAIN digits |-> DigitValue(digits[k])], RADIX)

FromStrRadix(s) ==
  LET digits == WithoutPlus(s)
  IN  IF digits # <<>> /\ ToSet(digits) \subseteq HexDigits /\ Value(digits) < Power(RADIX, DIGITS)
        THEN Some(Value(digits))
        ELSE None

ParseFeedId(s) ==
  IF ByteLen(s) = FEED_ID_HEX_STR_LEN /\ StartsWith0x(s)
    THEN FromStrRadix(SubSeq(s, 3, Len(s)))
    ELSE None

-----------------------------------------------------------------------------
Pending == [ok |-> FALSE, pending |-> TRUE]

Init == input \in Strings /\ result = Pending

\* The receipt panics on None; there is no other error path.
Parse ==
  /\ result = Pending
  /\ result' = ParseFeedId(input)
  /\ UNCHANGED input

Spec == Init /\ [][Parse]_vars

-----------------------------------------------------------------------------
(* Properties                                                              *)

\* "0x" and exactly DIGITS hex digits, of either case.
WellFormed(s) ==
  /\ Len(s) = DIGITS + 2
  /\ s[1] = "0" /\ s[2] = "x"
  /\ \A k \in 3 .. Len(s) : s[k] \in HexDigits

\* The value of a well-formed string by the weight of its positions.
PositionalValue(s) ==
  LET Weighted[k \in 2 .. Len(s)] ==
        IF k = 2 THEN 0
        ELSE Weighted[k - 1] + DigitValue(s[k]) * Power(RADIX, Len(s) - k)
  IN  Weighted[Len(s)]

\* The canonical spelling of a string the sign rule of from_str_radix lets
\* through: a zero in the place of the plus.
PlusAsZero(s) == IF Len(s) > 3 /\ s[3] = "+" THEN [s EXCEPT ![3] = "0"] ELSE s

\* Every string is refused or names the feed its digits spell, and the only
\* strings accepted that the comment of parse_feed_id does not describe are
\* those with a plus in the place of the first digit (lib.rs:437): in
\* particular no multi-byte character, capital X, minus or short string
\* reaches the feeds map, and no accepted value leaves the u32.
AcceptsExactly ==
  result # Pending =>
    /\ result.ok <=> WellFormed(PlusAsZero(input))
    /\ result.ok => /\ result.value = PositionalValue(PlusAsZero(input))
                    /\ result.value < Power(RADIX, DIGITS)

SameDigits(s, t) == \A k \in 3 .. DIGITS + 2 : DigitValue(s[k]) = DigitValue(t[k])

\* Two strings reach the same feed of the map (lib.rs:429-438) exactly when
\* they are spellings of one numeral: they differ in the case of letters, or
\* one has a plus where the other has its first zero.  No digit is lost or
\* carried into another, so no feed answers for a neighbour's id.
OneFeedPerNumeral ==
  result.ok =>
    \A s \in Strings :
      ParseFeedId(s) = result <=> /\ WellFormed(PlusAsZero(s))
                                 /\ SameDigits(PlusAsZero(s), PlusAsZero(input))

\* lib.rs:430-431: "the string must be exactly 8 hex digits; reverts
\* otherwise".  What parse_feed_id accepts is well formed.
AcceptsOnlyHexDigits == result.ok => WellFormed(input)
=============================================================================
