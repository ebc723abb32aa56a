---------------------------- MODULE CodecProofs ----------------------------
(***************************************************************************)
(* Proofs about the byte formats, for every base of a byte and every       *)
(* width of the fields: 256, 16, 8, 10 and 6 among them.                   *)
(***************************************************************************)
EXTENDS StoredFeedCodec, NumeralProofs

-----------------------------------------------------------------------------
(* The widths                                                              *)

\* The widths are positive, and what is stored of a field is part of it.
LEMMA Widths ==
  /\ BASE \in Nat \ {0}
  /\ PRICE_WIDTH \in Nat /\ PRICE_STORED \in Nat /\ 1 <= PRICE_STORED /\ PRICE_STORED <= PRICE_WIDTH
  /\ TS_WIDTH \in Nat /\ TS_STORED \in Nat /\ 1 <= TS_STORED /\ TS_STORED <= TS_WIDTH
<1>1. BASE \in Nat \ {0}
  BY WidthsAssumption
<1>2. PRICE_WIDTH \in Nat /\ PRICE_STORED \in Nat /\ 1 <= PRICE_STORED /\ PRICE_STORED <= PRICE_WIDTH
  BY WidthsAssumption
<1>3. TS_WIDTH \in Nat /\ TS_STORED \in Nat /\ 1 <= TS_STORED /\ TS_STORED <= TS_WIDTH
  BY WidthsAssumption
<1> QED BY <1>1, <1>2, <1>3

\* Powers of the base are positive numbers and do not fall.
LEMMA Powers ==
  ASSUME NEW m \in Nat, NEW n \in Nat, n <= m
  PROVE  /\ Power(BASE, n) \in Nat \ {0} /\ Power(BASE, m) \in Nat \ {0}
         /\ Power(BASE, n) <= Power(BASE, m)
BY Widths, PowersGrow

-----------------------------------------------------------------------------
(* The bytes of a number                                                   *)

\* The j-th of the last stored bytes of a number.
Byte(n, stored, j) == (n \div Power(BASE, stored - j)) % BASE

\* s has them from first on.
Holds(s, first, n, stored) == \A j \in 1 .. stored : s[first - 1 + j] = Byte(n, stored, j)

\* A byte is a number.
LEMMA ByteIsNat ==
  ASSUME NEW n \in Nat, NEW stored \in Nat, NEW j \in 1 .. stored
  PROVE  Byte(n, stored, j) \in Nat
<1>1. stored - j \in Nat
  OBVIOUS
<1>2. Power(BASE, stored - j) \in Nat \ {0}
  BY <1>1, Powers
<1>3. n \div Power(BASE, stored - j) \in Nat
  BY <1>2, Division
<1> QED BY <1>3, Widths, Division DEF Byte

\* to_be_bytes gives all bytes of a number, its slice the last of them.
LEMMA BigEndianItems ==
  ASSUME NEW n \in Nat, NEW width \in Nat, NEW stored \in 1 .. width
  PROVE  /\ ToBeBytes(n, width) \in Seq(Nat) /\ Len(ToBeBytes(n, width)) = width
         /\ \A j \in 1 .. width : ToBeBytes(n, width)[j] = Byte(n, width, j)
         /\ LowBytes(n, width, stored) \in Seq(Nat) /\ Len(LowBytes(n, width, stored)) = stored
         /\ Holds(LowBytes(n, width, stored), 1, n, stored)
<1> DEFINE all == ToBeBytes(n, width)
           low == LowBytes(n, width, stored)
<1>1. all = [k \in 1 .. width |-> Byte(n, width, k)]
  BY DEF ToBeBytes, Byte
<1>2. \A k \in 1 .. width : Byte(n, width, k) \in Nat
  BY ByteIsNat
<1>3. all \in Seq(Nat) /\ Len(all) = width /\ \A j \in 1 .. width : all[j] = Byte(n, width, j)
  <2> HIDE DEF all
  <2> QED BY <1>1, <1>2
<1>4. /\ low \in Seq(Nat) /\ Len(low) = stored
      /\ \A j \in 1 .. stored : low[j] = all[width - stored + j]
  <2>1. PICK first \in Nat \ {0} : first = width - stored + 1
    OBVIOUS
  <2>2. /\ first + stored - 1 = width /\ stored \in Nat
        /\ \A j \in 1 .. stored : first - 1 + j = width - stored + j
    BY <2>1
  <2>3. low = SubSeq(all, first, first + stored - 1)
    BY <2>1, <2>2 DEF LowBytes
  <2> HIDE DEF low, all
  <2>4. first + stored - 1 <= Len(all)
    BY <1>3, <2>2
  <2>5. /\ low \in Seq(Nat) /\ Len(low) = stored
        /\ \A j \in 1 .. stored : low[j] = all[first - 1 + j]
    BY <1>3, <2>2, <2>3, <2>4, PartItems
  <2> QED BY <2>2, <2>5
<1>5. ASSUME NEW j \in 1 .. stored
      PROVE  low[1 - 1 + j] = Byte(n, stored, j)
  <2>1. /\ width - stored + j \in 1 .. width /\ 1 - 1 + j = j
        /\ width - (width - stored + j) = stored - j
    OBVIOUS
  <2>2. Byte(n, width, width - stored + j) = Byte(n, stored, j)
    BY <2>1 DEF Byte
  <2> HIDE DEF low, all
  <2> QED BY <1>3, <1>4, <2>1, <2>2
<1> QED BY <1>3, <1>4, <1>5 DEF Holds

\* to_le_bytes gives them from the last to the first.
LEMMA LittleEndianItems ==
  ASSUME NEW n \in Nat, NEW width \in Nat \ {0}
  PROVE  /\ ToLeBytes(n, width) \in Seq(Nat) /\ Len(ToLeBytes(n, width)) = width
         /\ \A j \in 1 .. width : ToLeBytes(n, width)[j] = Byte(n, width, width - j + 1)
<1>1. width \in 1 .. width /\ width \in Nat
  OBVIOUS
<1>2. PICK all : all = ToBeBytes(n, width)
  OBVIOUS
<1>3. all \in Seq(Nat) /\ Len(all) = width /\ \A j \in 1 .. width : all[j] = Byte(n, width, j)
  BY <1>1, <1>2, BigEndianItems
<1>4. ToLeBytes(n, width) = [j \in 1 .. width |-> all[width - j + 1]]
  BY <1>2, <1>3 DEF ToLeBytes, Reverse
<1>5. \A j \in 1 .. width : width - j + 1 \in 1 .. width
  OBVIOUS
<1>6. \A j \in 1 .. width : all[width - j + 1] \in Nat
  BY <1>3, <1>5
<1> QED BY <1>3, <1>4, <1>5, <1>6

\* A number that fits its width is what its bytes say.
LEMMA Fits ==
  ASSUME NEW n \in Nat, NEW m \in Nat \ {0}, n < m
  PROVE  n % m = n
<1>1. n = 0 * m + n
  OBVIOUS
<1> QED BY <1>1, DivisionIs

-----------------------------------------------------------------------------
(* Reading them back                                                       *)

\* read_exact into the low portion of a zeroed buffer reads a number modulo
\* the width of that portion.
LEMMA ReadLowIs ==
  ASSUME NEW s \in Seq(Nat), NEW first \in Nat \ {0}, NEW width \in Nat, NEW stored \in 1 .. width,
         first + stored - 1 <= Len(s), NEW n \in Nat, Holds(s, first, n, stored)
  PROVE  ReadLow(s, first, width, stored) = n % Power(BASE, stored)
<1>1. PICK zeros \in Nat : zeros = width - stored
  OBVIOUS
<1>2. PICK z, part, digits : /\ z = Zeros(zeros)
                             /\ part = SubSeq(s, first, first + stored - 1)
                             /\ digits = z \o part
  OBVIOUS
<1>3. z \in Seq(Nat) /\ Len(z) = zeros /\ \A k \in 1 .. zeros : z[k] = 0
  <2>1. z = [k \in 1 .. zeros |-> 0]
    BY <1>2 DEF Zeros
  <2> QED BY <2>1
<1>4. /\ part \in Seq(Nat) /\ Len(part) = stored
      /\ \A j \in 1 .. stored : part[j] = s[first - 1 + j]
  <2>1. stored \in Nat
    OBVIOUS
  <2> QED BY <1>2, <2>1, PartItems
<1>5. /\ Len(digits) = zeros + stored
      /\ \A k \in 1 .. zeros : digits[k] = z[k]
      /\ \A j \in 1 .. stored : digits[zeros + j] = part[j]
  <2>1. z \in Seq(Nat) /\ part \in Seq(Nat)
    BY <1>3, <1>4
  <2>2. /\ Len(digits) = Len(z) + Len(part)
        /\ \A k \in 1 .. Len(z) : digits[k] = z[k]
        /\ \A j \in 1 .. Len(part) : digits[Len(z) + j] = part[j]
    BY <1>2, <2>1, TwoLists
  <2>3. Len(z) = zeros /\ Len(part) = stored
    BY <1>3, <1>4
  <2> QED BY <2>2, <2>3
<1>6. \A k \in 1 .. zeros : digits[k] = 0
  BY <1>3, <1>5
<1>7. \A j \in 1 .. stored : digits[zeros + j] = (n \div Power(BASE, stored - j)) % BASE
  BY <1>4, <1>5 DEF Holds, Byte
<1>8. FromDigits(digits, BASE) = n % Power(BASE, stored)
  <2>1. AreLastDigits(digits, zeros, stored, n, BASE)
    BY <1>5, <1>6, <1>7 DEF AreLastDigits
  <2>2. stored \in Nat
    OBVIOUS
  <2> QED BY <2>1, <2>2, Widths, ReadLastDigits
<1> QED BY <1>1, <1>2, <1>8 DEF ReadLow, FromBeBytes

\* from_le_bytes reads the number to_le_bytes wrote, if it fits.
LEMMA FromLeBytesIs ==
  ASSUME NEW s \in Seq(Nat), NEW width \in Nat \ {0}, Len(s) = width, NEW n \in Nat,
         n < Power(BASE, width),
         \A j \in 1 .. width : s[j] = Byte(n, width, width - j + 1)
  PROVE  FromLeBytes(s) = n
<1>1. PICK digits : digits = Reverse(s)
  OBVIOUS
<1>2. Len(digits) = width /\ \A k \in 1 .. width : digits[k] = s[width - k + 1]
  BY <1>1 DEF Reverse
<1>3. ASSUME NEW k \in 1 .. width
      PROVE  digits[0 + k] = (n \div Power(BASE, width - k)) % BASE
  <2>1. width - k + 1 \in 1 .. width /\ width - (width - k + 1) + 1 = k /\ 0 + k = k
    OBVIOUS
  <2>2. s[width - k + 1] = Byte(n, width, k)
    BY <2>1
  <2> QED BY <1>2, <2>1, <2>2 DEF Byte
<1>4. Len(digits) = 0 + width /\ \A k \in 1 .. 0 : digits[k] = 0
  BY <1>2
<1>5. FromDigits(digits, BASE) = n % Power(BASE, width)
  <2>1. AreLastDigits(digits, 0, width, n, BASE)
    BY <1>3, <1>4 DEF AreLastDigits
  <2>2. width \in Nat /\ 0 \in Nat
    OBVIOUS
  <2> QED BY <2>1, <2>2, Widths, ReadLastDigits
<1>6. n % Power(BASE, width) = n
  <2>1. width \in Nat /\ width <= width
    OBVIOUS
  <2>2. Power(BASE, width) \in Nat \ {0}
    BY <2>1, Powers
  <2> QED BY <2>2, Fits
<1> QED BY <1>1, <1>5, <1>6 DEF FromLeBytes, FromBeBytes

\* The bytes of a number, from the last to the first, after the first ones of s.
HoldsReversed(s, before, n, width) ==
  \A j \in 1 .. width : s[before + j] = Byte(n, width, width - j + 1)

\* from_le_bytes on a part of the answer that has the bytes of a number.
LEMMA ReadLittleEndian ==
  ASSUME NEW s \in Seq(Nat), NEW before \in Nat, NEW last \in Nat, NEW width \in Nat \ {0},
         last = before + width, last <= Len(s), NEW n \in Nat, n < Power(BASE, width),
         HoldsReversed(s, before, n, width)
  PROVE  FromLeBytes(SubSeq(s, before + 1, last)) = n
<1>1. PICK first \in Nat \ {0} : first = before + 1
  OBVIOUS
<1>2. /\ width \in Nat /\ last = first + width - 1 /\ first + width - 1 <= Len(s)
      /\ \A j \in 1 .. width : first - 1 + j = before + j
  BY <1>1
<1>3. PICK read : read = SubSeq(s, first, first + width - 1)
  OBVIOUS
<1>4. /\ read \in Seq(Nat) /\ Len(read) = width
      /\ \A j \in 1 .. width : read[j] = s[first - 1 + j]
  BY <1>2, <1>3, PartItems
<1>5. \A j \in 1 .. width : read[j] = Byte(n, width, width - j + 1)
  BY <1>2, <1>4 DEF HoldsReversed
<1>6. FromLeBytes(read) = n
  BY <1>4, <1>5, FromLeBytesIs
<1> QED BY <1>1, <1>2, <1>3, <1>6

\* Stored bytes that follow others.
LEMMA HoldsAfter ==
  ASSUME NEW s, NEW part, NEW before \in Nat, NEW n, NEW stored \in Nat,
         \A j \in 1 .. stored : s[before + j] = part[j],
         Holds(part, 1, n, stored)
  PROVE  Holds(s, before + 1, n, stored)
<1>1. ASSUME NEW j \in 1 .. stored
      PROVE  s[before + 1 - 1 + j] = Byte(n, stored, j)
  <2>1. before + 1 - 1 + j = before + j /\ 1 - 1 + j = j
    OBVIOUS
  <2>2. part[1 - 1 + j] = Byte(n, stored, j)
    BY DEF Holds
  <2>3. part[j] = Byte(n, stored, j)
    BY <2>1, <2>2
  <2> QED BY <2>1, <2>3
<1> QED BY <1>1 DEF Holds

-----------------------------------------------------------------------------
(* The storage format                                                      *)

\* The three fields are numbers of their widths.
LEMMA FieldsAreNumbers ==
  ASSUME NEW f \in Feeds
  PROVE  f.price \in Nat /\ f.agg_ts \in Nat /\ f.onchain_ts \in Nat
<1>1. Power(BASE, PRICE_WIDTH) \in Nat /\ Power(BASE, TS_WIDTH) \in Nat
  BY Widths, PowerLaws
<1> QED BY <1>1 DEF Feeds, Prices, Timestamps

\* Where the three fields are.
LEMMA SerializeItems ==
  ASSUME NEW f \in Feeds
  PROVE  /\ Serialize(f) \in Seq(Nat)
         /\ Len(Serialize(f)) = PRICE_STORED + TS_STORED + TS_STORED
         /\ Holds(Serialize(f), 1, f.price, PRICE_STORED)
         /\ Holds(Serialize(f), PRICE_STORED + 1, f.agg_ts, TS_STORED)
         /\ Holds(Serialize(f), PRICE_STORED + TS_STORED + 1, f.onchain_ts, TS_STORED)
<1>1. PICK p, a, o : /\ p = LowBytes(f.price, PRICE_WIDTH, PRICE_STORED)
                     /\ a = LowBytes(f.agg_ts, TS_WIDTH, TS_STORED)
                     /\ o = LowBytes(f.onchain_ts, TS_WIDTH, TS_STORED)
  OBVIOUS
<1>2. PRICE_STORED \in 1 .. PRICE_WIDTH /\ TS_STORED \in 1 .. TS_WIDTH
  BY WidthsAssumption
<1>3. p \in Seq(Nat) /\ Len(p) = PRICE_STORED /\ Holds(p, 1, f.price, PRICE_STORED)
  <2>1. PICK n \in Nat : n = f.price
    BY FieldsAreNumbers
  <2>2. PRICE_WIDTH \in Nat /\ PRICE_STORED \in 1 .. PRICE_WIDTH /\ p = LowBytes(n, PRICE_WIDTH, PRICE_STORED)
    BY <1>1, <1>2, <2>1, Widths
  <2>3. p \in Seq(Nat) /\ Len(p) = PRICE_STORED /\ Holds(p, 1, n, PRICE_STORED)
    BY <2>2, BigEndianItems
  <2> QED BY <2>1, <2>3
<1>4. a \in Seq(Nat) /\ Len(a) = TS_STORED /\ Holds(a, 1, f.agg_ts, TS_STORED)
  <2>1. PICK n \in Nat : n = f.agg_ts
    BY FieldsAreNumbers
  <2>2. TS_WIDTH \in Nat /\ TS_STORED \in 1 .. TS_WIDTH /\ a = LowBytes(n, TS_WIDTH, TS_STORED)
    BY <1>1, <1>2, <2>1, Widths
  <2>3. a \in Seq(Nat) /\ Len(a) = TS_STORED /\ Holds(a, 1, n, TS_STORED)
    BY <2>2, BigEndianItems
  <2> QED BY <2>1, <2>3
<1>5. o \in Seq(Nat) /\ Len(o) = TS_STORED /\ Holds(o, 1, f.onchain_ts, TS_STORED)
  <2>1. PICK n \in Nat : n = f.onchain_ts
    BY FieldsAreNumbers
  <2>2. TS_WIDTH \in Nat /\ TS_STORED \in 1 .. TS_WIDTH /\ o = LowBytes(n, TS_WIDTH, TS_STORED)
    BY <1>1, <1>2, <2>1, Widths
  <2>3. o \in Seq(Nat) /\ Len(o) = TS_STORED /\ Holds(o, 1, n, TS_STORED)
    BY <2>2, BigEndianItems
  <2> QED BY <2>1, <2>3
<1>6. PICK none, s : none = <<>> /\ s = p \o a \o none \o o
  OBVIOUS
<1>7. p \in Seq(Nat) /\ a \in Seq(Nat) /\ o \in Seq(Nat) /\ none \in Seq(Nat) /\ Len(none) = 0
  BY <1>3, <1>4, <1>5, <1>6
<1>8. s = Serialize(f)
  <2>1. PICK pa : pa = p \o a
    OBVIOUS
  <2>2. pa \in Seq(Nat)
    BY <1>7, <2>1
  <2>3. pa \o <<>> = pa
    BY <2>2
  <2>4. s = pa \o o
    BY <1>6, <2>1, <2>3
  <2> QED BY <1>1, <2>1, <2>4 DEF Serialize
<1>9. /\ s \in Seq(Nat) /\ Len(s) = Len(p) + Len(a) + Len(none) + Len(o)
      /\ \A i \in 1 .. Len(p) : s[i] = p[i]
      /\ \A i \in 1 .. Len(a) : s[Len(p) + i] = a[i]
      /\ \A i \in 1 .. Len(o) : s[Len(p) + Len(a) + Len(none) + i] = o[i]
  BY <1>6, <1>7, FourLists
<1>10. \A i \in 1 .. Len(p) : s[0 + i] = p[i]
  BY <1>9
<1>11. Holds(s, 0 + 1, f.price, PRICE_STORED)
  BY <1>3, <1>10, Widths, HoldsAfter
<1>12. Holds(s, PRICE_STORED + 1, f.agg_ts, TS_STORED)
  BY <1>3, <1>4, <1>9, Widths, HoldsAfter
<1>13. Holds(s, PRICE_STORED + TS_STORED + 1, f.onchain_ts, TS_STORED)
  <2>1. PICK before \in Nat : before = PRICE_STORED + TS_STORED
    BY Widths
  <2>2. Len(p) + Len(a) + Len(none) = before
    BY <1>3, <1>4, <1>7, <2>1, Widths
  <2>3. \A i \in 1 .. TS_STORED : s[before + i] = o[i]
    BY <1>5, <1>9, <2>2
  <2>4. Holds(s, before + 1, f.onchain_ts, TS_STORED)
    BY <1>5, <2>3, Widths, HoldsAfter
  <2> QED BY <2>1, <2>4
<1>14. Len(s) = PRICE_STORED + TS_STORED + TS_STORED
  BY <1>3, <1>4, <1>5, <1>7, <1>9, Widths
<1> QED BY <1>8, <1>9, <1>11, <1>12, <1>13, <1>14

\* What is written is read back without the high bytes of the fields.
LEMMA RoundTrip ==
  ASSUME NEW f \in Feeds
  PROVE  Deserialize(Serialize(f)) = Truncated(f)
<1>1. PICK s : s = Serialize(f)
  OBVIOUS
<1>2. s \in Seq(Nat) /\ Len(s) = PRICE_STORED + TS_STORED + TS_STORED
  BY <1>1, SerializeItems
<1>3. PRICE_STORED \in 1 .. PRICE_WIDTH /\ TS_STORED \in 1 .. TS_WIDTH
  BY WidthsAssumption
<1>4. f.price \in Nat /\ f.agg_ts \in Nat /\ f.onchain_ts \in Nat
  BY FieldsAreNumbers
<1>5. ReadLow(s, 1, PRICE_WIDTH, PRICE_STORED) = f.price % Power(BASE, PRICE_STORED)
  <2>1. PICK first \in Nat \ {0} : first = 1
    OBVIOUS
  <2>2. first + PRICE_STORED - 1 <= Len(s)
    BY <1>2, <2>1, Widths
  <2>3. PICK n \in Nat : n = f.price
    BY <1>4
  <2>4. Holds(s, first, n, PRICE_STORED)
    BY <1>1, <2>1, <2>3, SerializeItems
  <2>5. s \in Seq(Nat) /\ PRICE_STORED \in 1 .. PRICE_WIDTH /\ PRICE_WIDTH \in Nat
    BY <1>2, <1>3, Widths
  <2>6. ReadLow(s, first, PRICE_WIDTH, PRICE_STORED) = n % Power(BASE, PRICE_STORED)
    BY <2>2, <2>4, <2>5, ReadLowIs
  <2> QED BY <2>1, <2>3, <2>6
<1>6. ReadLow(s, PRICE_STORED + 1, TS_WIDTH, TS_STORED) = f.agg_ts % Power(BASE, TS_STORED)
  <2>1. PICK first \in Nat \ {0} : first = PRICE_STORED + 1
    BY Widths
  <2>2. first + TS_STORED - 1 <= Len(s)
    BY <1>2, <2>1, Widths
  <2>3. PICK n \in Nat : n = f.agg_ts
    BY <1>4
  <2>4. Holds(s, first, n, TS_STORED)
    BY <1>1, <2>1, <2>3, SerializeItems
  <2>5. s \in Seq(Nat) /\ TS_STORED \in 1 .. TS_WIDTH /\ TS_WIDTH \in Nat
    BY <1>2, <1>3, Widths
  <2>6. ReadLow(s, first, TS_WIDTH, TS_STORED) = n % Power(BASE, TS_STORED)
    BY <2>2, <2>4, <2>5, ReadLowIs
  <2> QED BY <2>1, <2>3, <2>6
<1>7. ReadLow(s, PRICE_STORED + TS_STORED + 1, TS_WIDTH, TS_STORED)
      = f.onchain_ts % Power(BASE, TS_STORED)
  <2>1. PICK first \in Nat \ {0} : first = PRICE_STORED + TS_STORED + 1
    BY Widths
  <2>2. first + TS_STORED - 1 <= Len(s)
    BY <1>2, <2>1, Widths
  <2>3. PICK n \in Nat : n = f.onchain_ts
    BY <1>4
  <2>4. Holds(s, first, n, TS_STORED)
    BY <1>1, <2>1, <2>3, SerializeItems
  <2>5. s \in Seq(Nat) /\ TS_STORED \in 1 .. TS_WIDTH /\ TS_WIDTH \in Nat
    BY <1>2, <1>3, Widths
  <2>6. ReadLow(s, first, TS_WIDTH, TS_STORED) = n % Power(BASE, TS_STORED)
    BY <2>2, <2>4, <2>5, ReadLowIs
  <2> QED BY <2>1, <2>3, <2>6
<1> QED BY <1>1, <1>5, <1>6, <1>7 DEF Deserialize, Truncated

\* What is left of a feed is a feed.
LEMMA TruncatedIsFeed ==
  ASSUME NEW f \in Feeds
  PROVE  Truncated(f) \in Feeds
<1>1. f.price \in Nat /\ f.agg_ts \in Nat /\ f.onchain_ts \in Nat
  BY FieldsAreNumbers
<1>2. ASSUME NEW n \in Nat, NEW stored \in Nat, NEW width \in Nat, stored <= width
      PROVE  n % Power(BASE, stored) \in 0 .. Power(BASE, width) - 1
  <2>1. PICK small \in Nat \ {0}, large \in Nat \ {0} :
          small = Power(BASE, stored) /\ large = Power(BASE, width) /\ small <= large
    BY <1>2, Powers
  <2>2. n % small \in Nat /\ n % small < small
    BY Division
  <2>3. n % small \in 0 .. large - 1
    BY <2>1, <2>2
  <2> QED BY <2>1, <2>3
<1>3. f.price % Power(BASE, PRICE_STORED) \in Prices
  BY <1>1, <1>2, Widths DEF Prices
<1>4. f.agg_ts % Power(BASE, TS_STORED) \in Timestamps
  BY <1>1, <1>2, Widths DEF Timestamps
<1>5. f.onchain_ts % Power(BASE, TS_STORED) \in Timestamps
  BY <1>1, <1>2, Widths DEF Timestamps
<1> QED BY <1>3, <1>4, <1>5 DEF Feeds, Truncated

\* A feed is not None: it has three fields, None is empty.
LEMMA FeedIsNotNone ==
  ASSUME NEW f \in Feeds
  PROVE  f # None
<1>1. DOMAIN f = {"price", "agg_ts", "onchain_ts"}
  BY DEF Feeds
<1>2. DOMAIN None = {}
  BY DEF None
<1> QED BY <1>1, <1>2

-----------------------------------------------------------------------------
(* The answer of fetch                                                     *)

\* A Borsh library reads back every feed whose fields have their widths.
LEMMA AnswerDecoded ==
  ASSUME NEW f \in Feeds
  PROVE  DecodeAnswer(Answer(f)) = f
<1>1. PICK tag, p, a, o, s : /\ tag = <<1>>
                             /\ p = ToLeBytes(f.price, PRICE_WIDTH)
                             /\ a = ToLeBytes(f.agg_ts, TS_WIDTH)
                             /\ o = ToLeBytes(f.onchain_ts, TS_WIDTH)
                             /\ s = tag \o p \o a \o o
  OBVIOUS
<1>2. f.price \in Nat /\ f.agg_ts \in Nat /\ f.onchain_ts \in Nat
  BY FieldsAreNumbers
<1>3. PRICE_WIDTH \in Nat \ {0} /\ TS_WIDTH \in Nat \ {0}
  BY Widths
<1>4. /\ p \in Seq(Nat) /\ Len(p) = PRICE_WIDTH
      /\ \A j \in 1 .. PRICE_WIDTH : p[j] = Byte(f.price, PRICE_WIDTH, PRICE_WIDTH - j + 1)
  BY <1>1, <1>2, <1>3, LittleEndianItems
<1>5. /\ a \in Seq(Nat) /\ Len(a) = TS_WIDTH
      /\ \A j \in 1 .. TS_WIDTH : a[j] = Byte(f.agg_ts, TS_WIDTH, TS_WIDTH - j + 1)
  BY <1>1, <1>2, <1>3, LittleEndianItems
<1>6. /\ o \in Seq(Nat) /\ Len(o) = TS_WIDTH
      /\ \A j \in 1 .. TS_WIDTH : o[j] = Byte(f.onchain_ts, TS_WIDTH, TS_WIDTH - j + 1)
  BY <1>1, <1>2, <1>3, LittleEndianItems
<1>7. tag \in Seq(Nat) /\ Len(tag) = 1 /\ tag[1] = 1
  BY <1>1
<1>8. /\ s \in Seq(Nat) /\ Len(s) = 1 + PRICE_WIDTH + TS_WIDTH + TS_WIDTH
      /\ s[1] = 1
      /\ \A j \in 1 .. PRICE_WIDTH : s[1 + j] = p[j]
      /\ \A j \in 1 .. TS_WIDTH : s[1 + PRICE_WIDTH + j] = a[j]
      /\ \A j \in 1 .. TS_WIDTH : s[1 + PRICE_WIDTH + TS_WIDTH + j] = o[j]
  <2>1. s = tag \o p \o a \o o
    BY <1>1
  <2>2. p \in Seq(Nat) /\ a \in Seq(Nat) /\ o \in Seq(Nat) /\ tag \in Seq(Nat)
    BY <1>4, <1>5, <1>6, <1>7
  <2>3. /\ s \in Seq(Nat) /\ Len(s) = Len(tag) + Len(p) + Len(a) + Len(o)
        /\ \A i \in 1 .. Len(tag) : s[i] = tag[i]
        /\ \A i \in 1 .. Len(p) : s[Len(tag) + i] = p[i]
        /\ \A i \in 1 .. Len(a) : s[Len(tag) + Len(p) + i] = a[i]
        /\ \A i \in 1 .. Len(o) : s[Len(tag) + Len(p) + Len(a) + i] = o[i]
    BY <2>1, <2>2, FourLists
  <2>4. 1 \in 1 .. 1
    OBVIOUS
  <2> QED BY <1>4, <1>5, <1>6, <1>7, <2>3, <2>4
<1>9. s = Answer(f)
  <2>1. f # None
    BY FeedIsNotNone
  <2> QED BY <1>1, <2>1 DEF Answer
<1>10. /\ f.price < Power(BASE, PRICE_WIDTH)
       /\ f.agg_ts < Power(BASE, TS_WIDTH) /\ f.onchain_ts < Power(BASE, TS_WIDTH)
  <2>1. Power(BASE, PRICE_WIDTH) \in Nat /\ Power(BASE, TS_WIDTH) \in Nat
    BY Widths, PowerLaws
  <2> QED BY <2>1 DEF Feeds, Prices, Timestamps
<1>11. FromLeBytes(SubSeq(s, 2, PRICE_WIDTH + 1)) = f.price
  <2>1. PICK before \in Nat, last \in Nat : before = 1 /\ last = PRICE_WIDTH + 1
    BY <1>3
  <2>2. last = before + PRICE_WIDTH /\ last <= Len(s) /\ before + 1 = 2
    BY <1>3, <1>8, <2>1
  <2>3. \A j \in 1 .. PRICE_WIDTH : s[before + j] = p[j]
    BY <1>8, <2>1
  <2>4. PICK n \in Nat : n = f.price
    BY <1>2
  <2>5. n < Power(BASE, PRICE_WIDTH) /\ PRICE_WIDTH \in Nat \ {0}
    BY <1>3, <1>10, <2>4
  <2>6. s \in Seq(Nat) /\ HoldsReversed(s, before, n, PRICE_WIDTH)
    BY <1>4, <1>8, <2>3, <2>4 DEF HoldsReversed
  <2>7. FromLeBytes(SubSeq(s, before + 1, last)) = n
    BY <2>2, <2>5, <2>6, ReadLittleEndian
  <2> QED BY <2>1, <2>2, <2>4, <2>7
<1>12. FromLeBytes(SubSeq(s, PRICE_WIDTH + 2, PRICE_WIDTH + TS_WIDTH + 1)) = f.agg_ts
  <2>1. PICK before \in Nat, last \in Nat :
          before = 1 + PRICE_WIDTH /\ last = PRICE_WIDTH + TS_WIDTH + 1
    BY <1>3
  <2>2. last = before + TS_WIDTH /\ last <= Len(s) /\ before + 1 = PRICE_WIDTH + 2
    BY <1>3, <1>8, <2>1
  <2>3. \A j \in 1 .. TS_WIDTH : s[before + j] = a[j]
    BY <1>8, <2>1
  <2>4. PICK n \in Nat : n = f.agg_ts
    BY <1>2
  <2>5. n < Power(BASE, TS_WIDTH) /\ TS_WIDTH \in Nat \ {0}
    BY <1>3, <1>10, <2>4
  <2>6. s \in Seq(Nat) /\ HoldsReversed(s, before, n, TS_WIDTH)
    BY <1>5, <1>8, <2>3, <2>4 DEF HoldsReversed
  <2>7. FromLeBytes(SubSeq(s, before + 1, last)) = n
    BY <2>2, <2>5, <2>6, ReadLittleEndian
  <2> QED BY <2>1, <2>2, <2>4, <2>7
<1>13. FromLeBytes(SubSeq(s, PRICE_WIDTH + TS_WIDTH + 2, Len(s))) = f.onchain_ts
  <2>1. PICK before \in Nat, last \in Nat : before = 1 + PRICE_WIDTH + TS_WIDTH /\ last = Len(s)
    BY <1>3, <1>8
  <2>2. last = before + TS_WIDTH /\ last <= Len(s) /\ before + 1 = PRICE_WIDTH + TS_WIDTH + 2
    BY <1>3, <1>8, <2>1
  <2>3. \A j \in 1 .. TS_WIDTH : s[before + j] = o[j]
    BY <1>8, <2>1
  <2>4. PICK n \in Nat : n = f.onchain_ts
    BY <1>2
  <2>5. n < Power(BASE, TS_WIDTH) /\ TS_WIDTH \in Nat \ {0}
    BY <1>3, <1>10, <2>4
  <2>6. s \in Seq(Nat) /\ HoldsReversed(s, before, n, TS_WIDTH)
    BY <1>6, <1>8, <2>3, <2>4 DEF HoldsReversed
  <2>7. FromLeBytes(SubSeq(s, before + 1, last)) = n
    BY <2>2, <2>5, <2>6, ReadLittleEndian
  <2> QED BY <2>1, <2>2, <2>4, <2>7
<1>14. s[1] # 0
  BY <1>8
<1>15. f = [price |-> f.price, agg_ts |-> f.agg_ts, onchain_ts |-> f.onchain_ts]
  BY DEF Feeds
<1> QED BY <1>9, <1>11, <1>12, <1>13, <1>14, <1>15 DEF DecodeAnswer

-----------------------------------------------------------------------------
(* The way of a feed through both formats                                  *)

\* What storage holds of a feed that may never have been reported.
Held(f) == IF f = None THEN None ELSE Truncated(f)

\* Where the feed is at each stage of its way, and in which form.
CodecInv ==
  /\ stage \in {"given", "stored", "loaded", "served", "decoded"}
  /\ feed \in Feeds \cup {None}
  /\ stage = "stored" => bytes = IF feed = None THEN <<>> ELSE Serialize(feed)
  /\ stage = "loaded" => loaded = Held(feed)
  /\ stage = "served" => bytes = Answer(Held(feed))
  /\ stage = "decoded" => loaded = Held(feed)

\* A stored value is never empty, so that the bytes of a feed and the missing
\* value of a feed nobody reported cannot be taken for each other.
LEMMA SerializeIsNotEmpty ==
  ASSUME NEW f \in Feeds
  PROVE  Serialize(f) # <<>>
<1>1. Len(Serialize(f)) = PRICE_STORED + TS_STORED + TS_STORED
  BY SerializeItems
<1>2. Len(Serialize(f)) # 0
  BY <1>1, Widths
<1>3. Len(<<>>) = 0
  OBVIOUS
<1> QED BY <1>2, <1>3

\* The caller decodes what storage holds, None included.
LEMMA HeldIsDecoded ==
  ASSUME NEW f \in Feeds \cup {None}
  PROVE  DecodeAnswer(Answer(Held(f))) = Held(f)
<1>1. CASE f = None
  <2>1. Held(f) = None
    BY <1>1 DEF Held
  <2>2. PICK s : s = Answer(None)
    OBVIOUS
  <2>3. s[1] = 0
    BY <2>2 DEF Answer
  <2>4. DecodeAnswer(s) = None
    BY <2>3 DEF DecodeAnswer
  <2> QED BY <2>1, <2>2, <2>4
<1>2. CASE f \in Feeds
  <2>1. Held(f) = Truncated(f)
    BY <1>2, FeedIsNotNone DEF Held
  <2> QED BY <1>2, <2>1, TruncatedIsFeed, AnswerDecoded
<1> QED BY <1>1, <1>2

\* Each stage takes the feed from the form the one before left it in.
LEMMA CodecInvInductive ==
  /\ Init => CodecInv
  /\ CodecInv /\ [Next]_vars => CodecInv'
<1>1. Init => CodecInv
  BY DEF Init, CodecInv
<1>2. ASSUME CodecInv, [Next]_vars
      PROVE  CodecInv'
  <2>1. feed \in Feeds \cup {None}
    BY <1>2 DEF CodecInv
  <2>2. CASE Store
    <3>1. /\ stage' = "stored" /\ feed' = feed
          /\ bytes' = IF feed = None THEN <<>> ELSE Serialize(feed)
      BY <2>2 DEF Store
    <3> QED BY <2>1, <3>1 DEF CodecInv
  <2>3. CASE Load
    <3>1. /\ stage = "stored" /\ stage' = "loaded" /\ feed' = feed
          /\ loaded' = IF bytes = <<>> THEN None ELSE Deserialize(bytes)
      BY <2>3 DEF Load
    <3>2. bytes = IF feed = None THEN <<>> ELSE Serialize(feed)
      BY <1>2, <3>1 DEF CodecInv
    <3>3. loaded' = Held(feed)
      <4>1. CASE feed = None
        BY <3>1, <3>2, <4>1 DEF Held
      <4>2. CASE feed \in Feeds
        <5>1. feed # None /\ bytes = Serialize(feed) /\ bytes # <<>>
          BY <3>2, <4>2, FeedIsNotNone, SerializeIsNotEmpty
        <5> QED BY <3>1, <4>2, <5>1, RoundTrip DEF Held
      <4> QED BY <2>1, <4>1, <4>2
    <3> QED BY <2>1, <3>1, <3>3 DEF CodecInv
  <2>4. CASE Serve
    <3>1. stage = "loaded" /\ stage' = "served" /\ feed' = feed /\ bytes' = Answer(loaded)
      BY <2>4 DEF Serve
    <3>2. loaded = Held(feed)
      BY <1>2, <3>1 DEF CodecInv
    <3> QED BY <2>1, <3>1, <3>2 DEF CodecInv
  <2>5. CASE Decode
    <3>1. stage = "served" /\ stage' = "decoded" /\ feed' = feed /\ loaded' = DecodeAnswer(bytes)
      BY <2>5 DEF Decode
    <3>2. bytes = Answer(Held(feed))
      BY <1>2, <3>1 DEF CodecInv
    <3>3. loaded' = Held(feed)
      BY <2>1, <3>1, <3>2, HeldIsDecoded
    <3> QED BY <2>1, <3>1, <3>3 DEF CodecInv
  <2>6. CASE UNCHANGED vars
    BY <1>2, <2>6 DEF CodecInv, vars
  <2> QED BY <1>2, <2>2, <2>3, <2>4, <2>5, <2>6 DEF Next
<1> QED BY <1>1, <1>2

\* At every stage the feed has the form CodecInv names.
LEMMA CodecInvHolds == Spec => []CodecInv
BY CodecInvInductive, PTL DEF Spec

\* StoredFeed::serialize takes the same number of bytes for every feed, and
\* StoredFeed::deserialize_reader gives back each field modulo its stored width.
THEOREM StorageTruncatesHolds == Spec => []StorageTruncates
<1>1. CodecInv => StorageTruncates
  <2>1. ASSUME CodecInv, stage = "stored" /\ feed # None
        PROVE  Len(bytes) = PRICE_STORED + 2 * TS_STORED
    <3>1. feed \in Feeds /\ bytes = Serialize(feed)
      BY <2>1 DEF CodecInv
    <3>2. Len(bytes) = PRICE_STORED + TS_STORED + TS_STORED
      BY <3>1, SerializeItems
    <3> QED BY <3>2, Widths
  <2>2. ASSUME CodecInv, stage = "loaded"
        PROVE  loaded = IF feed = None THEN None ELSE Truncated(feed)
    BY <2>2 DEF CodecInv, Held
  <2> QED BY <2>1, <2>2 DEF StorageTruncates
<1> QED BY <1>1, CodecInvHolds, PTL

\* What the caller of fetch decodes is what storage holds of the feed.
THEOREM CallerSeesStoredHolds == Spec => []CallerSeesStored
<1>1. CodecInv => CallerSeesStored
  BY DEF CodecInv, CallerSeesStored, Held
<1> QED BY <1>1, CodecInvHolds, PTL

\* The fields of a feed that the stored widths hold.
FeedFits(f) ==
  /\ f.price < Power(BASE, PRICE_STORED)
  /\ f.agg_ts < Power(BASE, TS_STORED)
  /\ f.onchain_ts < Power(BASE, TS_STORED)

\* Nothing is lost below the stored widths: a feed whose price has ten bytes
\* and whose timestamps have six reaches the caller of fetch as f was given
\* it, through both formats.
THEOREM NarrowFeedsArrive ==
  Spec => [](stage = "decoded" /\ feed # None /\ FeedFits(feed) => loaded = feed)
<1>1. CodecInv /\ CallerSeesStored =>
        (stage = "decoded" /\ feed # None /\ FeedFits(feed) => loaded = feed)
  <2> SUFFICES ASSUME CodecInv, CallerSeesStored, stage = "decoded", feed # None, FeedFits(feed)
               PROVE  loaded = feed
    OBVIOUS
  <2>1. feed \in Feeds /\ loaded = Truncated(feed)
    BY DEF CodecInv, CallerSeesStored
  <2>2. feed = [price |-> feed.price, agg_ts |-> feed.agg_ts, onchain_ts |-> feed.onchain_ts]
          /\ feed.price \in Nat /\ feed.agg_ts \in Nat /\ feed.onchain_ts \in Nat
    BY <2>1 DEF Feeds, Prices, Timestamps
  <2>3. /\ Power(BASE, PRICE_STORED) \in Nat \ {0}
        /\ Power(BASE, TS_STORED) \in Nat \ {0}
    BY Widths, PowerLaws
  <2>4. \A n \in Nat, m \in Nat \ {0} : n < m => n % m = n
    OBVIOUS
  <2>5. /\ feed.price % Power(BASE, PRICE_STORED) = feed.price
        /\ feed.agg_ts % Power(BASE, TS_STORED) = feed.agg_ts
        /\ feed.onchain_ts % Power(BASE, TS_STORED) = feed.onchain_ts
    BY <2>2, <2>3, <2>4 DEF FeedFits
  <2> QED BY <2>1, <2>2, <2>5 DEF Truncated
<1> QED BY <1>1, CodecInvHolds, CallerSeesStoredHolds, PTL
=============================================================================
