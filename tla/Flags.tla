------------------------------- MODULE Flags -------------------------------
(***************************************************************************)
(* The bit-packed flags byte of the contract (src/types.rs, struct Flags): *)
(* openRead is bit 0, paused is bit 1.  A flags value is the u8 itself, so *)
(* the operators below are the comparisons and bit operations of the code, *)
(* written with integer division because the bits are read one at a time.  *)
(***************************************************************************)
EXTENDS Integers

OPEN_READ_MASK == 1
PAUSED_MASK    == 2

\* The values the byte can take when only the operations below touch it.
FlagBytes == 0 .. (OPEN_READ_MASK + PAUSED_MASK)

BitIsSet(flags, mask) == (flags \div mask) % 2 = 1

\* flags ^= mask, for a mask of a single bit
Xor(flags, mask) == IF BitIsSet(flags, mask) THEN flags - mask ELSE flags + mask

AsU8(bool) == IF bool THEN 1 ELSE 0

\* The two operands of the code's `|` have no bit in common.
NewFlags(is_paused, is_open_read) == AsU8(is_open_read) + AsU8(is_paused) * PAUSED_MASK

\* A faulty is_paused: it compares with the mask and forgets that openRead
\* may be set as well.
IsPausedMaskOnly(flags) == flags = PAUSED_MASK

IsPaused(flags)               == flags > 1
IsOpenReadWhenUnpaused(flags) == flags = OPEN_READ_MASK
IsOpenRead(flags)             == BitIsSet(flags, OPEN_READ_MASK)

\* A faulty flip: += where the code has ^=.
FlipPausedByAdding(flags) == flags + PAUSED_MASK

FlipPaused(flags)   == Xor(flags, PAUSED_MASK)
FlipOpenRead(flags) == Xor(flags, OPEN_READ_MASK)
=============================================================================
