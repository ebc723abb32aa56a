---------------------------- MODULE ParserProofs ----------------------------
(***************************************************************************)
(* Proofs about parse_feed_id, for every number of digits and every length *)
(* of the strings: 8 digits among them.                                    *)
(***************************************************************************)
EXTENDS FeedIdParser, NumeralProofs, FiniteSetTheorems

-----------------------------------------------------------------------------
(* The parts of a string                                                   *)

\* How many characters come before the digits: the prefix, and a plus.
Skipped(s) == IF Len(s) > 3 /\ s[3] = "+" THEN 3 ELSE 2

\* starts_with("0x") looks at the first two characters.
LEMMA PrefixItems ==
  ASSUME NEW s \in Seq(Alphabet)
  PROVE  StartsWith0x(s) <=> Len(s) >= 2 /\ s[1] = "0" /\ s[2] = "x"
<1>1. PICK prefix : prefix = <<"0", "x">>
  OBVIOUS
<1>2. prefix \in Seq(Alphabet) /\ Len(prefix) = 2 /\ prefix[1] = "0" /\ prefix[2] = "x"
  BY <1>1 DEF Alphabet, HexDigits
<1>3. StartsWith0x(s) <=> 2 <= Len(s) /\ SubSeq(prefix, 1, 2) = SubSeq(s, 1, 2)
  BY <1>1, <1>2 DEF StartsWith0x, IsPrefix
<1>4. ASSUME NEW t \in Seq(Alphabet), 2 <= Len(t)
      PROVE  /\ SubSeq(t, 1, 2) \in Seq(Alphabet) /\ Len(SubSeq(t, 1, 2)) = 2
             /\ SubSeq(t, 1, 2)[1] = t[1] /\ SubSeq(t, 1, 2)[2] = t[2]
  <2>1. PICK first \in Nat \ {0}, length \in Nat : first = 1 /\ length = 2
    OBVIOUS
  <2>2. first + length - 1 <= Len(t) /\ first + length - 1 = 2
    BY <1>4, <2>1
  <2>3. /\ SubSeq(t, first, first + length - 1) \in Seq(Alphabet)
        /\ Len(SubSeq(t, first, first + length - 1)) = length
        /\ \A j \in 1 .. length : SubSeq(t, first, first + length - 1)[j] = t[first - 1 + j]
    BY <2>2, PartItems
  <2>4. 1 \in 1 .. length /\ 2 \in 1 .. length /\ first - 1 + 1 = 1 /\ first - 1 + 2 = 2
    BY <2>1
  <2> QED BY <2>1, <2>2, <2>3, <2>4
<1>5. ASSUME 2 <= Len(s)
      PROVE  SubSeq(prefix, 1, 2) = SubSeq(s, 1, 2) <=> s[1] = "0" /\ s[2] = "x"
  <2>1. PICK a, b : a = SubSeq(prefix, 1, 2) /\ b = SubSeq(s, 1, 2)
    OBVIOUS
  <2>2. a \in Seq(Alphabet) /\ Len(a) = 2 /\ a[1] = "0" /\ a[2] = "x"
    <3>1. prefix \in Seq(Alphabet) /\ 2 <= Len(prefix)
      BY <1>2
    <3>2. a \in Seq(Alphabet) /\ Len(a) = 2 /\ a[1] = prefix[1] /\ a[2] = prefix[2]
      BY <1>4, <2>1, <3>1
    <3> QED BY <1>2, <3>2
  <2>3. b \in Seq(Alphabet) /\ Len(b) = 2 /\ b[1] = s[1] /\ b[2] = s[2]
    BY <1>4, <1>5, <2>1
  <2>4. s[1] = "0" /\ s[2] = "x" => \A k \in 1 .. 2 : a[k] = b[k]
    BY <2>2, <2>3
  <2>5. (\A k \in 1 .. 2 : a[k] = b[k]) => a = b
    BY <2>2, <2>3
  <2> QED BY <2>1, <2>2, <2>3, <2>4, <2>5
<1>6. Len(s) \in Nat
  OBVIOUS
<1> QED BY <1>3, <1>5, <1>6

\* What from_str_radix reads as digits, after the prefix and a plus.
LEMMA DigitItems ==
  ASSUME NEW s \in Seq(Alphabet), Len(s) >= 2,
         NEW digits, digits = WithoutPlus(SubSeq(s, 3, Len(s)))
  PROVE  /\ digits \in Seq(Alphabet) /\ Len(digits) = Len(s) - Skipped(s)
         /\ \A j \in 1 .. Len(digits) : digits[j] = s[Skipped(s) + j]
         /\ Skipped(s) \in 2 .. 3 /\ Skipped(s) <= Len(s)
<1>1. PICK rest : rest = SubSeq(s, 3, Len(s))
  OBVIOUS
<1>2. /\ rest \in Seq(Alphabet) /\ Len(rest) = Len(s) - 2
      /\ \A j \in 1 .. Len(rest) : rest[j] = s[2 + j]
  <2>1. PICK first \in Nat \ {0}, length \in Nat : first = 3 /\ length = Len(s) - 2
    OBVIOUS
  <2>2. first + length - 1 <= Len(s) /\ first + length - 1 = Len(s)
    BY <2>1
  <2>3. /\ SubSeq(s, first, first + length - 1) \in Seq(Alphabet)
        /\ Len(SubSeq(s, first, first + length - 1)) = length
        /\ \A j \in 1 .. length : SubSeq(s, first, first + length - 1)[j] = s[first - 1 + j]
    BY <2>2, PartItems
  <2> QED BY <1>1, <2>1, <2>2, <2>3
<1>3. digits = IF Len(rest) > 1 /\ rest[1] = "+" THEN Tail(rest) ELSE rest
  BY <1>1 DEF WithoutPlus
<1>4. CASE Len(s) > 3 /\ s[3] = "+"
  <2>1. Len(rest) > 1 /\ rest[1] = "+"
    BY <1>2, <1>4
  <2>2. digits = Tail(rest)
    BY <1>3, <2>1
  <2>3. /\ digits \in Seq(Alphabet) /\ Len(digits) = Len(rest) - 1
        /\ \A j \in 1 .. Len(digits) : digits[j] = rest[j + 1]
    <3>1. rest \in Seq(Alphabet) /\ rest # <<>>
      BY <1>2, <2>1
    <3> QED BY <2>2, <3>1, HeadTailProperties
  <2>4. Skipped(s) = 3
    BY <1>4 DEF Skipped
  <2>5. \A j \in 1 .. Len(digits) : digits[j] = s[3 + j]
    <3>1. \A j \in 1 .. Len(digits) : j + 1 \in 1 .. Len(rest) /\ 2 + (j + 1) = 3 + j
      BY <1>2, <2>3
    <3> QED BY <1>2, <2>3, <3>1
  <2> QED BY <1>2, <1>4, <2>3, <2>4, <2>5
<1>5. CASE ~(Len(s) > 3 /\ s[3] = "+")
  <2>1. Skipped(s) = 2
    BY <1>5 DEF Skipped
  <2>2. ~(Len(rest) > 1 /\ rest[1] = "+")
    BY <1>2, <1>5
  <2>3. digits = rest
    BY <1>3, <2>2
  <2> QED BY <1>2, <2>1, <2>3
<1> QED BY <1>4, <1>5

\* The canonical spelling differs in the place of the plus alone.
LEMMA PlusItems ==
  ASSUME NEW s \in Seq(Alphabet), Len(s) >= 2, NEW t, t = PlusAsZero(s)
  PROVE  /\ Len(t) = Len(s)
         /\ \A k \in 1 .. Len(s) : k # 3 => t[k] = s[k]
         /\ Skipped(s) = 3 => s[3] = "+" /\ t[3] = "0" /\ Len(s) > 3
         /\ Skipped(s) = 2 => t = s
<1>1. CASE Len(s) > 3 /\ s[3] = "+"
  <2>1. t = [s EXCEPT ![3] = "0"] /\ Skipped(s) = 3
    BY <1>1 DEF PlusAsZero, Skipped
  <2>2. 3 \in DOMAIN s
    BY <1>1
  <2>3. Len(t) = Len(s) /\ t[3] = "0" /\ \A k \in 1 .. Len(s) : k # 3 => t[k] = s[k]
    BY <2>1, <2>2
  <2> QED BY <1>1, <2>1, <2>3
<1>2. CASE ~(Len(s) > 3 /\ s[3] = "+")
  BY <1>2 DEF PlusAsZero, Skipped
<1> QED BY <1>1, <1>2

\* A string of one-byte characters has as many bytes as characters.
LEMMA OneByteEach ==
  ASSUME NEW s \in Seq(Alphabet), \A k \in 1 .. Len(s) : s[k] # "two_bytes"
  PROVE  ByteLen(s) = Len(s)
<1>1. DOMAIN s = 1 .. Len(s) /\ Len(s) \in Nat
  OBVIOUS
<1>2. {k \in DOMAIN s : s[k] = "two_bytes"} = {}
  BY <1>1
<1>3. Cardinality({}) = 0
  BY FS_EmptySet
<1>4. ByteLen(s) = Len(s) + 0
  BY <1>2, <1>3 DEF ByteLen
<1> QED BY <1>1, <1>4

-----------------------------------------------------------------------------
(* The value of the digits                                                 *)

\* The hex digits are the digits of the radix.
LEMMA DigitValues ==
  ASSUME NEW char \in HexDigits
  PROVE  DigitValue(char) \in 0 .. RADIX - 1
<1>1. CASE char = "0"
  BY <1>1 DEF DigitValue, RADIX
<1>2. CASE char = "9"
  BY <1>2 DEF DigitValue, RADIX
<1>3. CASE char \in {"a", "A"}
  BY <1>3 DEF DigitValue, RADIX
<1>4. CASE char = "f"
  BY <1>4 DEF DigitValue, RADIX
<1> QED BY <1>1, <1>2, <1>3, <1>4 DEF HexDigits

\* A function that adds the weights up like PositionalValue.
AddsWeights(f, t) ==
  f = [k \in 2 .. Len(t) |->
         IF k = 2 THEN 0 ELSE f[k - 1] + DigitValue(t[k]) * Power(RADIX, Len(t) - k)]

\* It ends in the same value.
LEMMA PositionalIs ==
  ASSUME NEW t, Len(t) \in Nat, Len(t) >= 2,
         NEW w, AddsWeights(w, t)
  PROVE  PositionalValue(t) = w[Len(t)]
<1>1. PICK f : AddsWeights(f, t) /\ PositionalValue(t) = f[Len(t)]
  BY DEF PositionalValue, AddsWeights
<1>2. PICK bound \in Nat : bound = Len(t) - 2
  OBVIOUS
<1> DEFINE Same == {j \in 0 .. bound : f[j + 2] = w[j + 2]}
<1>3. 0 \in Same
  <2>1. 0 + 2 = 2 /\ 2 \in 2 .. Len(t) /\ 0 \in 0 .. bound
    OBVIOUS
  <2>2. f[2] = 0 /\ w[2] = 0
    BY <1>1, <2>1 DEF AddsWeights
  <2> QED BY <2>1, <2>2
<1>4. ASSUME NEW j \in 0 .. bound, j # 0, j - 1 \in Same
      PROVE  j \in Same
  <2>1. PICK k \in 2 .. Len(t) : k = j + 2 /\ k # 2 /\ k - 1 = (j - 1) + 2
    BY <1>2, <1>4
  <2>2. /\ f[k] = f[k - 1] + DigitValue(t[k]) * Power(RADIX, Len(t) - k)
        /\ w[k] = w[k - 1] + DigitValue(t[k]) * Power(RADIX, Len(t) - k)
    BY <1>1, <2>1 DEF AddsWeights
  <2>3. f[k - 1] = w[k - 1]
    BY <1>4, <2>1
  <2> QED BY <2>1, <2>2, <2>3
<1>5. \A j \in 0 .. bound : j \in Same
  <2> HIDE DEF Same
  <2> QED BY <1>3, <1>4, UpTo
<1>6. bound \in 0 .. bound /\ bound + 2 = Len(t)
  BY <1>2
<1> QED BY <1>1, <1>5, <1>6

\* The digits after the prefix, and after a plus, spell the value of the
\* canonical spelling: the plus weighs nothing.
LEMMA DigitsSpell ==
  ASSUME NEW s \in Seq(Alphabet), Len(s) >= 2, NEW t, t = PlusAsZero(s),
         NEW digits, digits = WithoutPlus(SubSeq(s, 3, Len(s))),
         \A j \in 1 .. Len(digits) : digits[j] \in HexDigits
  PROVE  /\ Value(digits) \in Nat /\ Value(digits) < Power(RADIX, Len(digits))
         /\ Value(digits) = PositionalValue(t)
<1>1. PICK skipped \in 2 .. 3 : /\ skipped = Skipped(s) /\ skipped <= Len(s)
                                /\ Len(digits) = Len(s) - skipped
                                /\ digits \in Seq(Alphabet)
                                /\ \A j \in 1 .. Len(digits) : digits[j] = s[skipped + j]
  BY DigitItems
<1>2. /\ Len(t) = Len(s)
      /\ \A k \in 1 .. Len(s) : k # 3 => t[k] = s[k]
      /\ skipped = 3 => t[3] = "0"
      /\ skipped = 2 => t = s
  BY <1>1, PlusItems
<1>3. PICK d : d = [k \in DOMAIN digits |-> DigitValue(digits[k])]
  OBVIOUS
<1>4. /\ Len(digits) \in Nat /\ d = [k \in 1 .. Len(digits) |-> DigitValue(digits[k])]
      /\ \A k \in 1 .. Len(digits) : DigitValue(digits[k]) \in 0 .. RADIX - 1
  BY <1>1, <1>3, DigitValues
<1>5. /\ Len(d) = Len(digits)
      /\ \A k \in 1 .. Len(digits) : d[k] = DigitValue(digits[k])
  <2>1. d \in Seq(0 .. RADIX - 1)
    BY <1>4
  <2> QED BY <1>4, <2>1
<1>6. PICK n \in Nat : n = Len(digits)
  BY <1>4
<1>7. RADIX \in Nat \ {0}
  BY DEF RADIX
<1>8. PICK w : /\ w[0] = 0
               /\ \A k \in 1 .. n : w[k] = w[k - 1] * RADIX + d[k]
               /\ \A k \in 0 .. n : w[k] \in Nat /\ w[k] < Power(RADIX, k)
               /\ FromDigits(d, RADIX) = w[n]
  <2>1. Len(d) \in Nat /\ \A k \in 1 .. Len(d) : d[k] \in 0 .. RADIX - 1
    BY <1>4, <1>5
  <2>2. \E w : /\ w[0] = 0
               /\ \A k \in 1 .. Len(d) : w[k] = w[k - 1] * RADIX + d[k]
               /\ \A k \in 0 .. Len(d) : w[k] \in Nat /\ w[k] < Power(RADIX, k)
               /\ FromDigits(d, RADIX) = w[Len(d)]
    BY <1>7, <2>1, Horner
  <2> QED BY <1>5, <1>6, <2>2
<1>w. \A k \in 0 .. n : w[k] \in Nat
  BY <1>8
<1>d. \A k \in 1 .. n : d[k] \in Nat
  BY <1>4, <1>5, <1>6 DEF RADIX
<1>9. Value(digits) = w[n]
  BY <1>3, <1>8 DEF Value
<1>10. n \in 0 .. n /\ Len(t) = skipped + n /\ skipped \in Nat
  BY <1>1, <1>2, <1>6
<1> DEFINE v == [k \in 2 .. Len(t) |->
                   IF k <= skipped THEN 0 ELSE w[k - skipped] * Power(RADIX, Len(t) - k)]
<1>11. ASSUME NEW k \in 2 .. Len(t)
       PROVE  v[k] = IF k = 2 THEN 0
                     ELSE v[k - 1] + DigitValue(t[k]) * Power(RADIX, Len(t) - k)
  <2>1. PICK p \in Nat \ {0} : p = Power(RADIX, Len(t) - k)
    <3>1. Len(t) - k \in Nat
      BY <1>10
    <3> QED BY <1>7, <3>1, PowerLaws
  <2>2. CASE k = 2
    BY <1>10, <2>2
  <2>3. CASE k = 3 /\ skipped = 3
    <3>1. DigitValue(t[k]) = 0
      BY <1>2, <2>3 DEF DigitValue
    <3>2. v[k] = 0 /\ v[k - 1] = 0
      BY <1>10, <2>3
    <3>3. 0 + 0 * p = 0
      OBVIOUS
    <3> QED BY <2>1, <2>3, <3>1, <3>2, <3>3
  <2>4. CASE k > skipped
    <3>1. PICK j \in 1 .. n : j = k - skipped /\ k = skipped + j
      BY <1>10, <2>4
    <3>2. DigitValue(t[k]) = d[j]
      <4>1. t[k] = s[k]
        <5>1. k \in 1 .. Len(s) /\ (k = 3 => skipped = 2)
          BY <1>2, <2>4
        <5> QED BY <1>2, <5>1
      <4> QED BY <1>1, <1>5, <1>6, <3>1, <4>1
    <3>3. PICK last \in Nat, digit \in Nat : last = w[j - 1] /\ digit = d[j]
      <4>1. j - 1 \in 0 .. n
        OBVIOUS
      <4>2. w[j - 1] \in Nat /\ d[j] \in Nat
        BY <1>w, <1>d, <4>1
      <4> HIDE DEF v
      <4> QED BY <4>2, Zenon
    <3>4. v[k] = (last * RADIX + digit) * p
      BY <1>8, <2>1, <2>4, <3>1, <3>3
    <3>5. v[k - 1] = last * (p * RADIX)
      <4>1. CASE j = 1
        <5>1. k - 1 <= skipped /\ k - 1 \in 2 .. Len(t)
          BY <1>10, <3>1, <4>1
        <5>2. v[k - 1] = 0
          BY <5>1
        <5>3. last = 0
          BY <1>8, <3>3, <4>1
        <5>4. 0 * (p * RADIX) = 0
          BY <1>7
        <5> QED BY <5>2, <5>3, <5>4
      <4>2. CASE j # 1
        <5>1. /\ ~(k - 1 <= skipped) /\ k - 1 \in 2 .. Len(t) /\ k - 1 - skipped = j - 1
              /\ Len(t) - k \in Nat /\ Len(t) - (k - 1) = (Len(t) - k) + 1
          BY <1>10, <3>1, <4>2
        <5>2. Power(RADIX, Len(t) - (k - 1)) = p * RADIX
          BY <1>7, <2>1, <5>1, PowerLaws
        <5>3. v[k - 1] = w[k - 1 - skipped] * Power(RADIX, Len(t) - (k - 1))
          BY <5>1
        <5> QED BY <3>3, <5>1, <5>2, <5>3
      <4> QED BY <4>1, <4>2
    <3>6. (last * RADIX + digit) * p = last * (p * RADIX) + digit * p
      BY DEF RADIX
    <3>7. k # 2
      BY <2>4
    <3> QED BY <2>1, <3>2, <3>3, <3>4, <3>5, <3>6, <3>7
  <2>5. k = 2 \/ (k = 3 /\ skipped = 3) \/ k > skipped
    OBVIOUS
  <2> QED BY <2>2, <2>3, <2>4, <2>5
<1>12. AddsWeights(v, t)
  <2>1. v = [k \in 2 .. Len(t) |-> v[k]]
    OBVIOUS
  <2> HIDE DEF v
  <2> QED BY <1>11, <2>1 DEF AddsWeights
<1>13. v[Len(t)] = w[n]
  <2>1. Len(t) \in 2 .. Len(t) /\ Len(t) - Len(t) = 0 /\ Len(t) - skipped = n
    BY <1>10
  <2>2. CASE n = 0
    <3>1. v[Len(t)] = 0
      BY <1>10, <2>1, <2>2
    <3> QED BY <1>8, <2>2, <3>1
  <2>3. CASE n # 0
    <3>1. v[Len(t)] = w[n] * Power(RADIX, 0)
      BY <1>10, <2>1, <2>3
    <3>2. Power(RADIX, 0) = 1
      BY <1>7, PowerLaws
    <3>3. w[n] \in Nat
      BY <1>8, <1>10
    <3> QED BY <3>1, <3>2, <3>3
  <2> QED BY <2>2, <2>3
<1>14. PositionalValue(t) = v[Len(t)]
  <2>1. Len(t) \in Nat /\ Len(t) >= 2
    BY <1>10
  <2> HIDE DEF v
  <2> QED BY <1>12, <2>1, PositionalIs
<1>15. w[n] \in Nat /\ w[n] < Power(RADIX, Len(digits))
  BY <1>6, <1>8, <1>10
<1> QED BY <1>9, <1>13, <1>14, <1>15

-----------------------------------------------------------------------------
(* What parse_feed_id accepts                                              *)

\* The digits of a string, and the conditions under which they are returned.
DigitsOf(s) == WithoutPlus(SubSeq(s, 3, Len(s)))

Accepted(s) ==
  /\ ByteLen(s) = FEED_ID_HEX_STR_LEN /\ StartsWith0x(s)
  /\ DigitsOf(s) # <<>> /\ ToSet(DigitsOf(s)) \subseteq HexDigits
  /\ Value(DigitsOf(s)) < Power(RADIX, DIGITS)

\* A result is the value of the digits or None.
LEMMA ParseCases ==
  ASSUME NEW s
  PROVE  ParseFeedId(s) = IF Accepted(s) THEN Some(Value(DigitsOf(s))) ELSE None
BY DEF ParseFeedId, FromStrRadix, Accepted, DigitsOf

\* The characters the code looks for are not those of two bytes.
LEMMA HexIsOneByte ==
  ASSUME NEW char, char \in HexDigits \cup {"x", "+"}
  PROVE  char # "two_bytes"
BY DEF HexDigits

\* Every string in canonical spelling is accepted: its value fits a u32.
LEMMA WellFormedIsAccepted ==
  ASSUME NEW s \in Seq(Alphabet), WellFormed(PlusAsZero(s))
  PROVE  Accepted(s)
<1>1. PICK t, digits : t = PlusAsZero(s) /\ digits = DigitsOf(s)
  OBVIOUS
<1>2. /\ Len(t) = DIGITS + 2 /\ t[1] = "0" /\ t[2] = "x"
      /\ \A k \in 3 .. Len(t) : t[k] \in HexDigits
  BY <1>1 DEF WellFormed
<1>3. DIGITS \in Nat \ {0}
  BY DigitsAssumption
<1>4. Len(s) = DIGITS + 2
  <2>1. Len(t) = Len(s)
    <3>1. DOMAIN t = DOMAIN s
      BY <1>1 DEF PlusAsZero
    <3>2. DOMAIN s = 1 .. Len(s) /\ Len(s) \in Nat
      OBVIOUS
    <3>3. t = s \/ t = [s EXCEPT ![3] = "0"]
      BY <1>1 DEF PlusAsZero
    <3>4. Len([s EXCEPT ![3] = "0"]) = Len(s)
      OBVIOUS
    <3> QED BY <3>3, <3>4
  <2> QED BY <1>2, <2>1
<1>5. Len(s) >= 2 /\ Len(s) \in Nat
  BY <1>3, <1>4
<1>6. /\ \A k \in 1 .. Len(s) : k # 3 => t[k] = s[k]
      /\ Skipped(s) = 3 => s[3] = "+" /\ Len(s) > 3
      /\ Skipped(s) = 2 => t = s
  BY <1>1, <1>5, PlusItems
<1>7. PICK skipped \in 2 .. 3 : /\ skipped = Skipped(s) /\ Len(digits) = Len(s) - skipped
                                /\ digits \in Seq(Alphabet)
                                /\ \A j \in 1 .. Len(digits) : digits[j] = s[skipped + j]
  BY <1>1, <1>5, DigitItems DEF DigitsOf
<1>8. StartsWith0x(s)
  <2>1. s[1] = "0" /\ s[2] = "x"
    <3>1. 1 \in 1 .. Len(s) /\ 2 \in 1 .. Len(s) /\ 1 # 3 /\ 2 # 3
      BY <1>5
    <3>2. t[1] = s[1] /\ t[2] = s[2]
      BY <1>6, <3>1
    <3> QED BY <1>2, <3>2
  <2> QED BY <1>5, <2>1, PrefixItems
<1>9. ByteLen(s) = Len(s)
  <2>1. ASSUME NEW k \in 1 .. Len(s)
        PROVE  s[k] # "two_bytes"
    <3>1. CASE k = 1 \/ k = 2
      <4>1. s[k] = t[k]
        BY <1>6, <3>1
      <4> QED BY <1>2, <3>1, <4>1, HexIsOneByte
    <3>2. CASE k = 3
      <4>1. CASE skipped = 3
        BY <1>6, <1>7, <3>2, <4>1
      <4>2. CASE skipped = 2
        <5>1. s[k] \in HexDigits
          BY <1>2, <1>4, <1>6, <1>7, <3>2, <4>2
        <5> QED BY <5>1, HexIsOneByte
      <4> QED BY <4>1, <4>2
    <3>3. CASE k > 3
      <4>1. s[k] = t[k] /\ k \in 3 .. Len(t)
        BY <1>2, <1>4, <1>6, <3>3
      <4>2. s[k] \in HexDigits
        BY <1>2, <4>1
      <4> QED BY <4>2, HexIsOneByte
    <3> QED BY <3>1, <3>2, <3>3
  <2> QED BY <2>1, OneByteEach
<1>10. \A j \in 1 .. Len(digits) : digits[j] \in HexDigits
  <2>1. ASSUME NEW j \in 1 .. Len(digits)
        PROVE  digits[j] \in HexDigits
    <3>1. PICK k \in 3 .. Len(s) : k = skipped + j /\ (k = 3 => skipped = 2)
      BY <1>5, <1>7
    <3>2. t[k] = s[k]
      BY <1>6, <1>7, <3>1
    <3>3. digits[j] = s[k]
      BY <1>7, <3>1
    <3> QED BY <1>2, <1>4, <3>1, <3>2, <3>3
  <2> QED BY <2>1
<1>11. digits # <<>> /\ ToSet(digits) \subseteq HexDigits
  <2>1. Len(digits) > 0
    BY <1>3, <1>4, <1>6, <1>7
  <2>2. DOMAIN digits = 1 .. Len(digits)
    BY <1>7
  <2> QED BY <1>10, <2>1, <2>2 DEF ToSet
<1>12. Value(digits) < Power(RADIX, DIGITS)
  <2>1. Len(digits) \in Nat /\ Len(digits) <= DIGITS /\ DIGITS \in Nat /\ RADIX \in Nat \ {0}
    BY <1>3, <1>4, <1>7 DEF RADIX
  <2>2. Value(digits) \in Nat /\ Value(digits) < Power(RADIX, Len(digits))
    BY <1>1, <1>5, <1>10, DigitsSpell DEF DigitsOf
  <2>3. PICK low \in Nat \ {0}, high \in Nat \ {0} :
          low = Power(RADIX, Len(digits)) /\ high = Power(RADIX, DIGITS) /\ low <= high
    BY <2>1, PowersGrow
  <2> QED BY <2>2, <2>3
<1>13. ByteLen(s) = FEED_ID_HEX_STR_LEN
  BY <1>4, <1>9 DEF FEED_ID_HEX_STR_LEN
<1> QED BY <1>1, <1>8, <1>11, <1>12, <1>13 DEF Accepted

\* Whatever is accepted has a canonical spelling and the value it spells.
LEMMA AcceptedIsWellFormed ==
  ASSUME NEW s \in Seq(Alphabet), Accepted(s)
  PROVE  /\ WellFormed(PlusAsZero(s))
         /\ Value(DigitsOf(s)) = PositionalValue(PlusAsZero(s))
         /\ Value(DigitsOf(s)) < Power(RADIX, DIGITS)
<1>1. PICK t, digits : t = PlusAsZero(s) /\ digits = DigitsOf(s)
  OBVIOUS
<1>2. /\ ByteLen(s) = DIGITS + 2 /\ StartsWith0x(s)
      /\ ToSet(digits) \subseteq HexDigits
      /\ Value(digits) < Power(RADIX, DIGITS)
  BY <1>1 DEF Accepted, FEED_ID_HEX_STR_LEN
<1>3. Len(s) >= 2 /\ s[1] = "0" /\ s[2] = "x" /\ Len(s) \in Nat
  BY <1>2, PrefixItems
<1>4. /\ Len(t) = Len(s)
      /\ \A k \in 1 .. Len(s) : k # 3 => t[k] = s[k]
      /\ Skipped(s) = 3 => s[3] = "+" /\ t[3] = "0"
      /\ Skipped(s) = 2 => t = s
  BY <1>1, <1>3, PlusItems
<1>5. PICK skipped \in 2 .. 3 : /\ skipped = Skipped(s) /\ Len(digits) = Len(s) - skipped
                                /\ digits \in Seq(Alphabet)
                                /\ \A j \in 1 .. Len(digits) : digits[j] = s[skipped + j]
  BY <1>1, <1>3, DigitItems DEF DigitsOf
<1>6. \A j \in 1 .. Len(digits) : digits[j] \in HexDigits
  <2>1. DOMAIN digits = 1 .. Len(digits)
    BY <1>5
  <2> QED BY <1>2, <2>1 DEF ToSet
<1>7. ASSUME NEW k \in 3 .. Len(s)
      PROVE  s[k] \in HexDigits \cup {"+"} /\ t[k] \in HexDigits
  <2>1. CASE k > skipped
    <3>1. PICK j \in 1 .. Len(digits) : k = skipped + j
      <4>1. k - skipped \in 1 .. Len(digits) /\ k = skipped + (k - skipped)
        BY <1>3, <1>5, <2>1
      <4> QED BY <4>1
    <3>2. s[k] \in HexDigits
      BY <1>5, <1>6, <3>1
    <3>3. t[k] = s[k]
      <4>1. k \in 1 .. Len(s) /\ (k = 3 => skipped = 2)
        BY <1>3, <2>1
      <4> QED BY <1>4, <1>5, <4>1
    <3> QED BY <3>2, <3>3
  <2>2. CASE ~(k > skipped)
    <3>1. k = 3 /\ skipped = 3
      BY <1>3, <2>2
    <3>2. s[k] = "+" /\ t[k] = "0"
      BY <1>4, <1>5, <3>1
    <3> QED BY <3>2 DEF HexDigits
  <2> QED BY <2>1, <2>2
<1>8. ByteLen(s) = Len(s)
  <2>1. ASSUME NEW k \in 1 .. Len(s)
        PROVE  s[k] # "two_bytes"
    <3>1. CASE k = 1 \/ k = 2
      BY <1>3, <3>1
    <3>2. CASE k \in 3 .. Len(s)
      <4>1. s[k] \in HexDigits \cup {"+"}
        BY <1>7, <3>2
      <4> QED BY <4>1, HexIsOneByte
    <3>3. k = 1 \/ k = 2 \/ k \in 3 .. Len(s)
      BY <1>3
    <3> QED BY <3>1, <3>2, <3>3
  <2> QED BY <2>1, OneByteEach
<1>9. WellFormed(t)
  <2>1. Len(t) = DIGITS + 2
    BY <1>2, <1>4, <1>8
  <2>2. t[1] = "0" /\ t[2] = "x"
    <3>1. 1 \in 1 .. Len(s) /\ 2 \in 1 .. Len(s) /\ 1 # 3 /\ 2 # 3
      BY <1>3
    <3> QED BY <1>3, <1>4, <3>1
  <2>3. \A k \in 3 .. Len(t) : t[k] \in HexDigits
    BY <1>4, <1>7
  <2> QED BY <2>1, <2>2, <2>3 DEF WellFormed
<1>10. Value(digits) = PositionalValue(t)
  BY <1>1, <1>3, <1>6, DigitsSpell DEF DigitsOf
<1> QED BY <1>1, <1>2, <1>9, <1>10

-----------------------------------------------------------------------------
(* Spellings                                                               *)

\* A canonical spelling is made of the characters of strings.
LEMMA CanonicalIsString ==
  ASSUME NEW s \in Seq(Alphabet), WellFormed(PlusAsZero(s))
  PROVE  PlusAsZero(s) \in Seq(Alphabet)
<1>1. "0" \in Alphabet
  BY DEF Alphabet, HexDigits
<1> QED BY <1>1 DEF PlusAsZero

\* Its digits, as numbers, and the value they have in the radix.
LEMMA CanonicalDigits ==
  ASSUME NEW t \in Seq(Alphabet), WellFormed(t)
  PROVE  \E d \in [1 .. DIGITS -> 0 .. RADIX - 1] :
           /\ \A k \in 1 .. DIGITS : d[k] = DigitValue(t[k + 2])
           /\ FromDigits(d, RADIX) = PositionalValue(t)
<1>0. DIGITS \in Nat \ {0}
  BY DigitsAssumption
<1>1. /\ Len(t) = DIGITS + 2 /\ Len(t) >= 2
      /\ \A k \in 3 .. Len(t) : t[k] \in HexDigits
  BY <1>0 DEF WellFormed
<1>2. t[3] # "+"
  BY <1>0, <1>1 DEF HexDigits
<1>3. Skipped(t) = 2 /\ PlusAsZero(t) = t
  BY <1>2 DEF Skipped, PlusAsZero
<1>4. PICK digits : digits = WithoutPlus(SubSeq(t, 3, Len(t)))
  OBVIOUS
<1>5. /\ digits \in Seq(Alphabet) /\ Len(digits) = DIGITS
      /\ \A j \in 1 .. Len(digits) : digits[j] = t[2 + j]
  <2>1. Len(digits) = Len(t) - Skipped(t)
    BY <1>1, <1>4, DigitItems
  <2>2. digits \in Seq(Alphabet) /\ \A j \in 1 .. Len(digits) : digits[j] = t[Skipped(t) + j]
    BY <1>1, <1>4, DigitItems
  <2> QED BY <1>0, <1>1, <1>3, <2>1, <2>2
<1>6. \A j \in 1 .. DIGITS : digits[j] \in HexDigits /\ digits[j] = t[j + 2]
  BY <1>0, <1>1, <1>5
<1>7. Value(digits) = PositionalValue(t)
  BY <1>1, <1>3, <1>4, <1>5, <1>6, DigitsSpell
<1>8. PICK d : d = [k \in DOMAIN digits |-> DigitValue(digits[k])]
  OBVIOUS
<1>9. DOMAIN digits = 1 .. DIGITS
  BY <1>5
<1>10. d \in [1 .. DIGITS -> 0 .. RADIX - 1] /\ \A k \in 1 .. DIGITS : d[k] = DigitValue(t[k + 2])
  BY <1>6, <1>8, <1>9, DigitValues
<1>11. FromDigits(d, RADIX) = PositionalValue(t)
  BY <1>7, <1>8 DEF Value
<1> QED BY <1>10, <1>11

\* Canonical spellings have the same value when they have the same digits,
\* and only then.
LEMMA SpellingsOfAValue ==
  ASSUME NEW t \in Seq(Alphabet), WellFormed(t), NEW u \in Seq(Alphabet), WellFormed(u)
  PROVE  PositionalValue(t) = PositionalValue(u) <=> SameDigits(t, u)
<1>0. DIGITS \in Nat /\ RADIX \in Nat \ {0}
  BY DigitsAssumption DEF RADIX
<1>1. PICK c \in [1 .. DIGITS -> 0 .. RADIX - 1] :
        /\ \A k \in 1 .. DIGITS : c[k] = DigitValue(t[k + 2])
        /\ FromDigits(c, RADIX) = PositionalValue(t)
  BY CanonicalDigits
<1>2. PICK d \in [1 .. DIGITS -> 0 .. RADIX - 1] :
        /\ \A k \in 1 .. DIGITS : d[k] = DigitValue(u[k + 2])
        /\ FromDigits(d, RADIX) = PositionalValue(u)
  BY CanonicalDigits
<1>3. SameDigits(t, u) <=> \A k \in 1 .. DIGITS : c[k] = d[k]
  <2>1. \A k \in 1 .. DIGITS : k + 2 \in 3 .. DIGITS + 2
    BY <1>0
  <2>2. \A k \in 3 .. DIGITS + 2 : k - 2 \in 1 .. DIGITS /\ (k - 2) + 2 = k
    BY <1>0
  <2>3. ASSUME SameDigits(t, u), NEW k \in 1 .. DIGITS
        PROVE  c[k] = d[k]
    BY <1>1, <1>2, <2>1, <2>3 DEF SameDigits
  <2>4. ASSUME \A k \in 1 .. DIGITS : c[k] = d[k], NEW k \in 3 .. DIGITS + 2
        PROVE  DigitValue(t[k]) = DigitValue(u[k])
    <3>1. PICK j \in 1 .. DIGITS : j + 2 = k
      BY <2>2
    <3> QED BY <1>1, <1>2, <2>4, <3>1
  <2> QED BY <2>3, <2>4 DEF SameDigits
<1>4. PositionalValue(t) = PositionalValue(u) => \A k \in 1 .. DIGITS : c[k] = d[k]
  <2>1. FromDigits(c, RADIX) = FromDigits(d, RADIX) => \A k \in 1 .. DIGITS : c[k] = d[k]
    BY <1>0, DigitsAreUnique
  <2> QED BY <1>1, <1>2, <2>1
<1>5. (\A k \in 1 .. DIGITS : c[k] = d[k]) => PositionalValue(t) = PositionalValue(u)
  <2>1. (\A k \in 1 .. DIGITS : c[k] = d[k]) => c = d
    <3>1. c = [k \in 1 .. DIGITS |-> c[k]] /\ d = [k \in 1 .. DIGITS |-> d[k]]
      OBVIOUS
    <3> QED BY <3>1, Zenon
  <2> QED BY <1>1, <1>2, <2>1
<1> QED BY <1>3, <1>4, <1>5

\* parse_feed_id takes two strings for the same feed, if it takes the first
\* for one, when the second has a canonical spelling of the same digits.
LEMMA SameFeed ==
  ASSUME NEW s \in Seq(Alphabet), NEW r \in Seq(Alphabet), Accepted(r)
  PROVE  ParseFeedId(s) = ParseFeedId(r) <=>
           WellFormed(PlusAsZero(s)) /\ SameDigits(PlusAsZero(s), PlusAsZero(r))
<1>1. ParseFeedId(r) = Some(Value(DigitsOf(r)))
  BY ParseCases
<1>2. /\ WellFormed(PlusAsZero(r)) /\ PlusAsZero(r) \in Seq(Alphabet)
      /\ Value(DigitsOf(r)) = PositionalValue(PlusAsZero(r))
  BY AcceptedIsWellFormed, CanonicalIsString
<1>3. CASE Accepted(s)
  <2>1. ParseFeedId(s) = Some(Value(DigitsOf(s)))
    BY <1>3, ParseCases
  <2>2. /\ WellFormed(PlusAsZero(s)) /\ PlusAsZero(s) \in Seq(Alphabet)
        /\ Value(DigitsOf(s)) = PositionalValue(PlusAsZero(s))
    BY <1>3, AcceptedIsWellFormed, CanonicalIsString
  <2>3. ParseFeedId(s) = ParseFeedId(r) <=> Value(DigitsOf(s)) = Value(DigitsOf(r))
    <3>1. \A v, w : Some(v) = Some(w) => v = w
      BY DEF Some
    <3> QED BY <1>1, <2>1, <3>1
  <2>4. PositionalValue(PlusAsZero(s)) = PositionalValue(PlusAsZero(r))
          <=> SameDigits(PlusAsZero(s), PlusAsZero(r))
    BY <1>2, <2>2, SpellingsOfAValue
  <2> QED BY <1>2, <2>2, <2>3, <2>4
<1>4. CASE ~Accepted(s)
  <2>1. ParseFeedId(s) = None
    BY <1>4, ParseCases
  <2>2. \A v : Some(v) # None
    <3>1. \A v : Some(v).ok /\ ~None.ok
      BY DEF Some, None
    <3> QED BY <3>1
  <2>3. ~WellFormed(PlusAsZero(s))
    BY <1>4, WellFormedIsAccepted
  <2> QED BY <1>1, <2>1, <2>2, <2>3
<1> QED BY <1>3, <1>4

-----------------------------------------------------------------------------
(* The theorems                                                            *)

\* The result is pending or that of parse_feed_id on the string.
ParserInv ==
  /\ input \in Seq(Alphabet)
  /\ result = Pending \/ result = ParseFeedId(input)

\* The bound on the length of the strings is all that Strings adds.
LEMMA StringsAreSequences == Strings \subseteq Seq(Alphabet)
<1>1. ASSUME NEW s \in Strings
      PROVE  s \in Seq(Alphabet)
  <2>1. PICK m \in 0 .. MaxLength : s \in [1 .. m -> Alphabet]
    BY DEF Strings, BoundedSeq, SeqOf
  <2>2. m \in Nat
    BY DigitsAssumption
  <2> QED BY <2>1, <2>2
<1> QED BY <1>1

\* It holds from the call to the answer.
LEMMA ParserInvHolds == Spec => []ParserInv
<1>1. Init => ParserInv
  BY StringsAreSequences DEF Init, ParserInv
<1>2. ParserInv /\ [Parse]_vars => ParserInv'
  BY DEF ParserInv, Parse, vars
<1> QED BY <1>1, <1>2, PTL DEF Spec

\* parse_feed_id accepts the strings that are well formed once a plus in the
\* place of the first digit is read as a zero, no others, and returns the value
\* their digits spell, which is a u32.
THEOREM AcceptsExactlyHolds == Spec => []AcceptsExactly
<1>1. ParserInv => AcceptsExactly
  <2>1. SUFFICES ASSUME ParserInv, result # Pending
                 PROVE  /\ result.ok <=> WellFormed(PlusAsZero(input))
                        /\ result.ok => /\ result.value = PositionalValue(PlusAsZero(input))
                                        /\ result.value < Power(RADIX, DIGITS)
    BY DEF AcceptsExactly
  <2>2. input \in Seq(Alphabet) /\ result = ParseFeedId(input)
    BY <2>1 DEF ParserInv
  <2>3. CASE Accepted(input)
    <3>1. result = Some(Value(DigitsOf(input)))
      BY <2>2, <2>3, ParseCases
    <3>2. result.ok /\ result.value = Value(DigitsOf(input))
      BY <3>1 DEF Some
    <3> QED BY <2>2, <2>3, <3>2, AcceptedIsWellFormed
  <2>4. CASE ~Accepted(input)
    <3>1. result = None
      BY <2>2, <2>4, ParseCases
    <3>2. ~result.ok
      BY <3>1 DEF None
    <3>3. ~WellFormed(PlusAsZero(input))
      BY <2>2, <2>4, WellFormedIsAccepted
    <3> QED BY <3>2, <3>3
  <2> QED BY <2>3, <2>4
<1> QED BY <1>1, ParserInvHolds, PTL

\* A feed has one numeral: two strings reach the same feed exactly when they
\* differ in the case of letters, or in a plus that stands for the first zero
\* (lib.rs:429-438), whatever the number of digits.
THEOREM OneFeedPerNumeralHolds == Spec => []OneFeedPerNumeral
<1>1. ParserInv => OneFeedPerNumeral
  <2>1. SUFFICES ASSUME ParserInv, result.ok, NEW s \in Strings
                 PROVE  ParseFeedId(s) = result
                          <=> /\ WellFormed(PlusAsZero(s))
                              /\ SameDigits(PlusAsZero(s), PlusAsZero(input))
    BY DEF OneFeedPerNumeral
  <2>2. result # Pending
    <3>1. ~Pending.ok
      BY DEF Pending
    <3> QED BY <2>1, <3>1
  <2>3. input \in Seq(Alphabet) /\ result = ParseFeedId(input)
    BY <2>1, <2>2 DEF ParserInv
  <2>4. Accepted(input)
    <3>1. ~None.ok
      BY DEF None
    <3> QED BY <2>1, <2>3, <3>1, ParseCases
  <2>5. s \in Seq(Alphabet)
    BY StringsAreSequences
  <2> QED BY <2>3, <2>4, <2>5, SameFeed
<1> QED BY <1>1, ParserInvHolds, PTL
=============================================================================
