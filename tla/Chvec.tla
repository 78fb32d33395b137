------------------------------- MODULE Chvec --------------------------------
(***************************************************************************)
(* chvec.c of 2019/_sh: a vector of characters that grows.  buf is what    *)
(* malloc() gave, of as many bytes as the capacity, and end the number of  *)
(* bytes in use.  malloc() is assumed to succeed.                          *)
(***************************************************************************)
EXTENDS Integers, Sequences

CONSTANTS
  NUL,       \* the character that ends a string
  JUNK       \* a byte malloc() gave and nobody has written

ASSUME ByteAssumption == NUL # JUNK

chvec_create(cap) == [buf |-> [k \in 1..cap |-> JUNK], end |-> 0]

chvec_size(cv) == cv.end

\* Variant: full only when a byte too many is in use.
FullLate(cv) == cv.end > Len(cv.buf)

chvec_full(cv) == cv.end = Len(cv.buf)

\* Variant: the last byte is left behind.
CopiedShort(buf, sz) ==
  [k \in 1..sz |-> IF k = sz THEN JUNK ELSE buf[k]]

\* strncpy() of sz bytes: up to the first NUL, and then zeros.
Copied(buf, sz) ==
  [k \in 1..sz |-> IF \E j \in 1..(k - 1) : buf[j] = NUL THEN NUL ELSE buf[k]]

chvec_extend(cv, newcap) ==
  [buf |-> Copied(cv.buf, cv.end) \o [k \in 1..(newcap - cv.end) |-> JUNK], end |-> cv.end]

Grown(cv) == IF chvec_full(cv) THEN chvec_extend(cv, 2 * Len(cv.buf) + 1) ELSE cv

chvec_push_back(cv, c) ==
  LET room == Grown(cv) IN [buf |-> [room.buf EXCEPT ![room.end + 1] = c], end |-> room.end + 1]

\* The string at the pointer that chvec_ptr() returns.
CString(buf) ==
  LET n == CHOOSE n \in 1..Len(buf) : buf[n] = NUL /\ \A k \in 1..(n - 1) : buf[k] # NUL
  IN  SubSeq(buf, 1, n - 1)
=============================================================================
