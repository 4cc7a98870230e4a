------------------------------- MODULE Bytes --------------------------------
(***************************************************************************)
(* Fixed-width integers in byte strings: Rust's to_be_bytes, from_be_bytes *)
(* and shifts.  A byte string is a sequence of naturals below 256; offsets *)
(* are zero-based, as in the code, and an offset past what can be read is  *)
(* Eof, on which every read stays.                                         *)
(***************************************************************************)
EXTENDS Integers, SequencesExt

CONSTANT None   \* absence of an optional value

Eof == -1

\* The w low bytes of n, most significant first; two's complement below zero.
BigEndian(n, w) == [i \in 1..w |-> (n \div 256^(w - i)) % 256]

FromBigEndian(s) == FoldLeft(LAMBDA acc, b : 256 * acc + b, 0, s)

\* Bits hi down to lo of a byte.
BitField(b, hi, lo) == (b \div 2^lo) % 2^(hi - lo + 1)

\* data.get(at..at + n): None is Eof.
Has(d, at, n) == at # Eof /\ at + n <= Len(d)
Slice(d, at, n) == SubSeq(d, at + 1, at + n)
=============================================================================
