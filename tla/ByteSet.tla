------------------------------ MODULE ByteSet ------------------------------
(***************************************************************************)
(* What package ranges promises: a set of byte positions that grows by the *)
(* bytes of an inserted range and shrinks to the bytes of a window.  The   *)
(* modules of the scheduler and of the cache item keep a set of blocks in  *)
(* place of the sorted list; RangeSet shows that the list implements it.   *)
(***************************************************************************)
EXTENDS Integers

CONSTANT N   \* positions are 0 .. N-1

VARIABLE bytes

TypeOK == bytes \subseteq 0 .. N-1

Init == bytes = {}

Add(lo, hi) == bytes' = bytes \cup (lo .. hi-1)

Keep(lo, hi) == bytes' = bytes \cap (lo .. hi-1)

Next == \E lo, hi \in 0 .. N : Add(lo, hi) \/ Keep(lo, hi)

Spec == Init /\ [][Next]_bytes
=============================================================================
