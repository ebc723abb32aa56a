------------------------------ MODULE Numerals ------------------------------
(***************************************************************************)
(* Numbers written in a base, most significant digit first: what the bytes *)
(* of the storage codec and the digits of a feed id are read with.         *)
(***************************************************************************)
EXTENDS Integers, Sequences

Power(base, n) ==
  LET P[k \in 0 .. n] == IF k = 0 THEN 1 ELSE P[k - 1] * base
  IN  P[n]

\* The loop value = value * base + digit.
FromDigits(digits, base) ==
  LET Value[k \in 0 .. Len(digits)] ==
        IF k = 0 THEN 0 ELSE Value[k - 1] * base + digits[k]
  IN  Value[Len(digits)]
=============================================================================
