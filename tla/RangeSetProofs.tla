-------------------------- MODULE RangeSetProofs --------------------------
(***************************************************************************)
(* Theorems about RangeSet: for a file of any size, the list of ranges is  *)
(* sorted and coalesced after any insertions and truncations, answers      *)
(* every query as the set of its bytes would, and implements that set.     *)
(*                                                                         *)
(* The loops of ranges.go are recursive functions.  For each of them a     *)
(* lemma shows by induction that the function exists and what it returns.  *)
(* The induction is over a set of numbers (Induct), because the library's  *)
(* rules take an operator as a parameter.                                  *)
(***************************************************************************)
EXTENDS RangeSet, FiniteSetTheorems, SequenceTheorems, WellFoundedInduction,
        NaturalsInduction, TLAPS

(* Ranges inside a file of any size, and those that are not empty. *)
Span == [pos : Nat, size : Nat]
Piece == [pos : Nat, size : Nat \ {0}]

(* A list as the package keeps it. *)
IsList(q) == q \in Seq(Piece) /\ Sorted(q)

-----------------------------------------------------------------------------
(***************************************************************************)
(* Induction                                                               *)
(***************************************************************************)
(* A set of numbers that is not empty has a least element. *)
LEMMA LeastNumber ==
  ASSUME NEW S \in SUBSET Nat, S # {}
  PROVE  \E x \in S : \A y \in S : x <= y
<1> DEFINE R == OpToRel(<, Nat)
<1>1. R = { p \in Nat \X Nat : p[1] < p[2] }
  BY DEF OpToRel
<1>2. IsWellFoundedOn(R, Nat)
  BY NatLessThanWellFounded, Zenon
<1> HIDE DEF R
<1>3. PICK x \in S : \A y \in S : ~ (<<y, x>> \in R)
  BY <1>2, WFMin
<1>4. ASSUME NEW y \in Nat, NEW z \in Nat, y < z
      PROVE  <<y, z>> \in R
  BY <1>1, <1>4
<1>5. ASSUME NEW y \in S
      PROVE  x <= y
  <2>1. ~ (y < x)
    BY <1>3, <1>4
  <2>2. QED
    BY <2>1
<1>6. QED
  BY <1>5

(* A set of numbers with 0 and every successor is all of them. *)
LEMMA Induct ==
  ASSUME NEW S \in SUBSET Nat, 0 \in S, \A n \in S : n + 1 \in S
  PROVE  \A n \in Nat : n \in S
<1> SUFFICES ASSUME Nat \ S # {} PROVE FALSE
  OBVIOUS
<1>1. PICK x \in Nat \ S : \A y \in Nat \ S : x <= y
  BY LeastNumber
<1>2. x - 1 \in Nat /\ x - 1 \in S
  BY <1>1
<1>3. QED
  BY <1>1, <1>2

-----------------------------------------------------------------------------
(***************************************************************************)
(* One range                                                               *)
(***************************************************************************)
LEMMA SpanEnd ==
  ASSUME NEW r \in Span
  PROVE  /\ r.pos \in Nat /\ r.size \in Nat
         /\ End(r) \in Nat /\ End(r) = r.pos + r.size
         /\ IsEmpty(r) <=> r.size = 0
         /\ Bytes(r) = { b \in Nat : r.pos <= b /\ b < End(r) }
BY DEF Span, End, IsEmpty, Bytes

LEMMA PieceIsSpan ==
  ASSUME NEW r
  PROVE  r \in Piece <=> r \in Span /\ ~ IsEmpty(r)
<1>1. ASSUME r \in Piece
      PROVE  r \in Span /\ ~ IsEmpty(r)
  BY <1>1 DEF Piece, Span, IsEmpty
<1>2. ASSUME r \in Span, ~ IsEmpty(r)
      PROVE  r \in Piece
  BY <1>2 DEF Piece, Span, IsEmpty
<1>3. QED
  BY <1>1, <1>2

(* merge: dst takes in new, which begins before it; the bytes are those of
   both if they touch. *)
LEMMA MergedIsUnion ==
  ASSUME NEW new \in Piece, NEW dst \in Piece, new.pos <= dst.pos
  PROVE  /\ Merged(new, dst) \in Piece
         /\ Merged(new, dst).pos = new.pos
         /\ End(Merged(new, dst)) = MaxOf(End(new), End(dst))
         /\ CanMerge(new, dst) =>
               Bytes(Merged(new, dst)) = Bytes(new) \cup Bytes(dst)
<1>1. /\ new.pos \in Nat /\ new.size \in Nat /\ new.size > 0
      /\ dst.pos \in Nat /\ dst.size \in Nat /\ dst.size > 0
  BY DEF Piece
<1>2. PICK s \in Nat \ {0} : Merged(new, dst) = [pos |-> new.pos, size |-> s]
                             /\ new.pos + s = MaxOf(End(new), End(dst))
  <2>1. CASE End(new) > End(dst)
    BY <1>1, <2>1 DEF Merged, Rng, End, MaxOf
  <2>2. CASE ~ (End(new) > End(dst))
    <3>1. dst.size + (dst.pos - new.pos) \in Nat \ {0}
      BY <1>1
    <3>2. QED
      BY <1>1, <2>2, <3>1 DEF Merged, Rng, End, MaxOf
  <2>3. QED
    BY <2>1, <2>2
<1>3. Merged(new, dst) \in Piece /\ Merged(new, dst).pos = new.pos
      /\ End(Merged(new, dst)) = MaxOf(End(new), End(dst))
  BY <1>1, <1>2 DEF Piece, End
<1>4. ASSUME CanMerge(new, dst)
      PROVE  Bytes(Merged(new, dst)) = Bytes(new) \cup Bytes(dst)
  BY <1>1, <1>3, <1>4 DEF CanMerge, Bytes, MaxOf, End
<1>5. QED
  BY <1>3, <1>4

(* Intersection: the bytes of both. *)
LEMMA IntersectionIsMeet ==
  ASSUME NEW r \in Piece, NEW b \in Piece
  PROVE  /\ Intersection(r, b) \in Span
         /\ Bytes(Intersection(r, b)) = Bytes(r) \cap Bytes(b)
         /\ ~ IsEmpty(Intersection(r, b)) =>
               /\ Intersection(r, b).pos = MaxOf(r.pos, b.pos)
               /\ End(Intersection(r, b)) = MinOf(End(r), End(b))
         /\ IsEmpty(Intersection(r, b)) <=> End(r) <= b.pos \/ End(b) <= r.pos
<1>1. /\ r.pos \in Nat /\ r.size \in Nat /\ r.size > 0
      /\ b.pos \in Nat /\ b.size \in Nat /\ b.size > 0
  BY DEF Piece
<1>2. CASE \/ r.pos >= b.pos /\ r.pos < End(b)
           \/ b.pos >= r.pos /\ b.pos < End(r)
  <2>1. PICK p \in Nat, s \in Nat \ {0} :
           /\ p = MaxOf(r.pos, b.pos) /\ p + s = MinOf(End(r), End(b))
           /\ s = MinOf(End(r), End(b)) - MaxOf(r.pos, b.pos)
    <3>1. MaxOf(r.pos, b.pos) \in Nat
      BY <1>1 DEF MaxOf
    <3>2. MinOf(End(r), End(b)) - MaxOf(r.pos, b.pos) \in Nat \ {0}
      BY <1>1, <1>2 DEF MaxOf, MinOf, End
    <3>3. MinOf(End(r), End(b)) \in Nat
      BY <1>1 DEF MinOf, End
    <3>4. QED
      BY <3>1, <3>2, <3>3
  <2>2. Intersection(r, b) = [pos |-> p, size |-> s]
    BY <1>2, <2>1 DEF Intersection, Rng
  <2>3. /\ Intersection(r, b) \in Span
        /\ Intersection(r, b).pos = p
        /\ End(Intersection(r, b)) = p + s
        /\ ~ IsEmpty(Intersection(r, b))
    BY <2>2 DEF Span, End, IsEmpty
  <2>4. Bytes(Intersection(r, b)) = Bytes(r) \cap Bytes(b)
    BY <1>1, <2>1, <2>3 DEF Bytes, MaxOf, MinOf, End
  <2>5. ~ (End(r) <= b.pos \/ End(b) <= r.pos)
    BY <1>1, <1>2 DEF End
  <2>6. QED
    BY <2>1, <2>3, <2>4, <2>5
<1>3. CASE ~ \/ r.pos >= b.pos /\ r.pos < End(b)
             \/ b.pos >= r.pos /\ b.pos < End(r)
  <2>1. Intersection(r, b) = [pos |-> 0, size |-> 0]
    BY <1>3 DEF Intersection, Rng, NoRange
  <2>2. /\ Intersection(r, b) \in Span
        /\ IsEmpty(Intersection(r, b))
        /\ Bytes(Intersection(r, b)) = {}
    BY <2>1 DEF Span, IsEmpty, Bytes, End
  <2>3. End(r) <= b.pos \/ End(b) <= r.pos
    BY <1>1, <1>3 DEF End
  <2>4. Bytes(r) \cap Bytes(b) = {}
    BY <1>1, <2>3 DEF Bytes, End
  <2>5. QED
    BY <2>2, <2>3, <2>4
<1>4. QED
  BY <1>2, <1>3

(* Clip: the bytes of r in front of offset. *)
LEMMA ClipCuts ==
  ASSUME NEW r \in Span, NEW offset \in Nat
  PROVE  Clip(r, offset) \in Span /\ Bytes(Clip(r, offset)) = { b \in Bytes(r) : b < offset }
<1>1. PICK a \in Nat, n \in Nat : a = r.pos /\ n = r.size /\ End(r) = a + n
  BY SpanEnd
<1>2. Bytes(r) = a .. (a + n) - 1
  BY <1>1 DEF Bytes
<1>3. CASE a + n <= offset
  <2>1. Clip(r, offset) = r
    BY <1>1, <1>3 DEF Clip
  <2>2. QED
    BY <1>2, <1>3, <2>1
<1>4. CASE a + n > offset /\ offset < a
  <2>1. Clip(r, offset) = [pos |-> 0, size |-> 0]
    BY <1>1, <1>4 DEF Clip, NoRange, Rng
  <2>2. Clip(r, offset) \in Span /\ Bytes(Clip(r, offset)) = {}
    BY <2>1 DEF Span, Bytes, End
  <2>3. QED
    BY <1>2, <1>4, <2>2
<1>5. CASE a + n > offset /\ a <= offset
  <2>1. PICK s \in Nat : s = offset - a /\ s = n - ((a + n) - offset)
    BY <1>5
  <2>2. Clip(r, offset) = [pos |-> a, size |-> s]
    BY <1>1, <1>5, <2>1 DEF Clip, Rng
  <2>3. Clip(r, offset) \in Span /\ Bytes(Clip(r, offset)) = a .. offset - 1
    BY <2>1, <2>2 DEF Span, Bytes, End
  <2>4. QED
    BY <1>2, <1>5, <2>3
<1>6. QED
  BY <1>1, <1>3, <1>4, <1>5

-----------------------------------------------------------------------------
(***************************************************************************)
(* Lists                                                                   *)
(***************************************************************************)
(* The elements of a list, one by one and two by two. *)
LEMMA ListElements ==
  ASSUME NEW q, IsList(q)
  PROVE  /\ Len(q) \in Nat
         /\ \A i \in 1 .. Len(q) :
               /\ q[i] \in Piece
               /\ q[i].pos \in Nat /\ End(q[i]) \in Nat /\ q[i].pos < End(q[i])
         /\ \A i, j \in 1 .. Len(q) : i < j => End(q[i]) < q[j].pos
<1>1. q \in Seq(Piece) /\ Sorted(q)
  BY DEF IsList
<1>2. \A i \in 1 .. Len(q) : q[i] \in Piece
  BY <1>1
<1>3. \A p \in Piece : p.pos \in Nat /\ End(p) \in Nat /\ p.pos < End(p)
  BY DEF Piece, End
<1>4. QED
  BY <1>1, <1>2, <1>3 DEF Sorted

LEMMA CoveredBy ==
  ASSUME NEW q \in Seq(Piece), NEW b
  PROVE  b \in Covered(q) <=>
            b \in Nat /\ \E i \in 1 .. Len(q) : q[i].pos <= b /\ b < End(q[i])
<1>1. \A i \in 1 .. Len(q) : q[i] \in Piece
  OBVIOUS
<1>2. \A p \in Piece : p.pos \in Nat /\ End(p) \in Nat
  BY DEF Piece, End
<1>3. b \in Covered(q) <=> \E i \in 1 .. Len(q) : b \in Bytes(q[i])
  BY DEF Covered
<1>4. \A i \in 1 .. Len(q) :
         b \in Bytes(q[i]) <=> b \in Nat /\ q[i].pos <= b /\ b < End(q[i])
  BY <1>1, <1>2 DEF Bytes
<1>5. QED
  BY <1>3, <1>4

(* search returns the place of a range in a sorted list. *)
LEMMA SearchFinds ==
  ASSUME NEW q, IsList(q), NEW r \in Span
  PROVE  /\ Search(q, r) \in 1 .. Len(q) + 1
         /\ \A k \in 1 .. Search(q, r) - 1 : q[k].pos < r.pos
         /\ \A k \in Search(q, r) .. Len(q) : q[k].pos >= r.pos
<1> DEFINE P(i) == /\ \A k \in 1 .. i-1 : q[k].pos < r.pos
                   /\ i <= Len(q) => q[i].pos >= r.pos
           S == { i \in 1 .. Len(q) + 1 : i <= Len(q) => q[i].pos >= r.pos }
<1>1. /\ Len(q) \in Nat
      /\ \A i \in 1 .. Len(q) : q[i].pos \in Nat /\ End(q[i]) \in Nat
                                /\ q[i].pos < End(q[i])
      /\ \A i, j \in 1 .. Len(q) : i < j => End(q[i]) < q[j].pos
  BY ListElements
<1>2. r.pos \in Nat
  BY DEF Span
<1>3. PICK x \in S : \A y \in S : x <= y
  <2>1. Len(q) + 1 \in S /\ S \in SUBSET Nat
    BY <1>1
  <2>2. QED
    BY <2>1, LeastNumber
<1>4. x \in 1 .. Len(q) + 1 /\ P(x)
  <2>1. ASSUME NEW k \in 1 .. x-1
        PROVE  q[k].pos < r.pos
    <3>1. k \in 1 .. Len(q) + 1 /\ k <= Len(q) /\ k \notin S
      BY <1>1, <1>3
    <3>2. QED
      BY <1>1, <1>2, <3>1
  <2>2. QED
    BY <1>3, <2>1
<1>5. Search(q, r) = CHOOSE i \in 1 .. Len(q) + 1 : P(i)
  BY DEF Search
<1>6. Search(q, r) \in 1 .. Len(q) + 1 /\ P(Search(q, r))
  <2> HIDE DEF P
  <2>1. QED
    BY <1>4, <1>5
<1>7. PICK i \in 1 .. Len(q) + 1 : i = Search(q, r) /\ P(i)
  BY <1>6
<1>8. ASSUME NEW k \in i .. Len(q)
      PROVE  q[k].pos >= r.pos
  <2>1. i \in 1 .. Len(q) /\ k \in 1 .. Len(q) /\ q[i].pos >= r.pos
    BY <1>1, <1>7
  <2>2. CASE k = i
    BY <2>1, <2>2
  <2>3. CASE i < k
    <3>1. q[i].pos < End(q[i]) /\ End(q[i]) < q[k].pos
      BY <1>1, <2>1, <2>3
    <3>2. QED
      BY <1>1, <1>2, <2>1, <3>1
  <2>4. QED
    BY <2>2, <2>3
<1>9. QED
  BY <1>7, <1>8

(***************************************************************************)
(* Find: the first piece of r is the longest one that is all present or    *)
(* all absent, and next is the rest of r.                                  *)
(***************************************************************************)
FirstPiece(q, r, f) ==
    /\ f.curr \in Piece
    /\ f.curr.pos = r.pos
    /\ End(f.curr) <= End(r)
    /\ f.present \in BOOLEAN
    /\ \A b \in Bytes(f.curr) : b \in Covered(q) <=> f.present
    /\ IsEmpty(f.next) <=> End(f.curr) = End(r)
    /\ ~ IsEmpty(f.next) =>
          /\ f.next \in Piece
          /\ f.next.pos = End(f.curr)
          /\ End(f.next) = End(r)
          /\ f.next.pos \in Covered(q) <=> ~ f.present

LEMMA AfterPiece ==
  ASSUME NEW r \in Piece, NEW c \in Piece, c.pos = r.pos, End(c) <= End(r)
  PROVE  /\ After(r, c) \in Span
         /\ After(r, c).pos = End(c)
         /\ End(After(r, c)) = End(r)
         /\ IsEmpty(After(r, c)) <=> End(c) = End(r)
<1>1. /\ r.pos \in Nat /\ r.size \in Nat /\ End(r) = r.pos + r.size
      /\ c.size \in Nat /\ End(c) = r.pos + c.size
  BY DEF Piece, End
<1>2. PICK s \in Nat : s = r.size - c.size
  BY <1>1
<1>3. After(r, c) = [pos |-> End(c), size |-> s]
  BY <1>2 DEF After, Rng
<1>4. QED
  BY <1>1, <1>2, <1>3 DEF Span, End, IsEmpty

LEMMA FoundIsFirst ==
  ASSUME NEW q, NEW r, NEW c \in Piece, NEW n, NEW p \in BOOLEAN,
         c.pos = r.pos, End(c) <= End(r),
         \A b \in Bytes(c) : b \in Covered(q) <=> p,
         IsEmpty(n) <=> End(c) = End(r),
         ~ IsEmpty(n) => /\ n \in Piece
                         /\ n.pos = End(c)
                         /\ End(n) = End(r)
                         /\ n.pos \in Covered(q) <=> ~ p
  PROVE  FirstPiece(q, r, Found(c, n, p))
<1>1. /\ Found(c, n, p).curr = c
      /\ Found(c, n, p).next = n
      /\ Found(c, n, p).present = p
  BY DEF Found
<1> HIDE DEF Found
<1>2. QED
  BY <1>1, Zenon DEF FirstPiece

LEMMA FindFirstPiece ==
  ASSUME NEW q, IsList(q), NEW r \in Piece
  PROVE  FirstPiece(q, r, Find(q, r))
<1> DEFINE i == Search(q, r)
           prev == Intersection(q[i-1], r)
           here == Intersection(q[i], r)
<1>1. /\ Len(q) \in Nat
      /\ \A k \in 1 .. Len(q) : /\ q[k] \in Piece
                                /\ q[k].pos \in Nat /\ End(q[k]) \in Nat
                                /\ q[k].pos < End(q[k])
      /\ \A k, j \in 1 .. Len(q) : k < j => End(q[k]) < q[j].pos
  BY ListElements
<1>2. /\ r \in Span /\ ~ IsEmpty(r)
      /\ r.pos \in Nat /\ End(r) \in Nat /\ r.pos < End(r)
  BY PieceIsSpan DEF Piece, End
<1>3. /\ i \in 1 .. Len(q) + 1
      /\ \A k \in 1 .. i-1 : q[k].pos < r.pos
      /\ \A k \in i .. Len(q) : q[k].pos >= r.pos
  BY <1>2, SearchFinds
<1>4. \A b : b \in Covered(q) <=>
         b \in Nat /\ \E k \in 1 .. Len(q) : q[k].pos <= b /\ b < End(q[k])
  BY CoveredBy DEF IsList
<1>5. Find(q, r) =
        IF i > 1 /\ ~ IsEmpty(prev)
        THEN Found(prev, After(r, prev), TRUE)
        ELSE IF i > Len(q) \/ IsEmpty(here)
        THEN Found(r, NoRange, FALSE)
        ELSE IF r.pos < here.pos
        THEN LET gap == Rng(r.pos, here.pos - r.pos)
             IN  Found(gap, After(r, gap), FALSE)
        ELSE Found(here, After(r, here), TRUE)
  BY <1>2 DEF Find
<1>6. \A c, n, p : /\ Found(c, n, p).curr = c
                   /\ Found(c, n, p).next = n
                   /\ Found(c, n, p).present = p
  BY DEF Found
<1>7. \A c \in Piece : \A b : b \in Bytes(c) <=> b \in Nat /\ c.pos <= b /\ b < End(c)
  BY SpanEnd, PieceIsSpan
<1> HIDE DEF i
<1>8. CASE i > 1 /\ ~ IsEmpty(prev)
  <2>1. i - 1 \in 1 .. Len(q) /\ q[i-1] \in Piece /\ q[i-1].pos < r.pos
    BY <1>1, <1>3, <1>8
  <2>2. /\ prev \in Piece
        /\ prev.pos = r.pos
        /\ End(prev) = MinOf(End(q[i-1]), End(r))
    BY <1>1, <1>2, <1>8, <2>1, IntersectionIsMeet, PieceIsSpan DEF MaxOf
  <2> HIDE DEF prev
  <2>3. End(prev) <= End(r) /\ End(prev) <= End(q[i-1]) /\ End(prev) \in Nat
        /\ (End(prev) # End(r) => End(prev) = End(q[i-1]))
    BY <1>1, <1>2, <2>1, <2>2 DEF MinOf
  <2>4. /\ After(r, prev) \in Span
        /\ After(r, prev).pos = End(prev)
        /\ End(After(r, prev)) = End(r)
        /\ IsEmpty(After(r, prev)) <=> End(prev) = End(r)
    BY <2>2, <2>3, AfterPiece
  <2>5. ASSUME NEW b \in Bytes(prev)
        PROVE  b \in Covered(q)
    BY <1>1, <1>2, <1>4, <1>7, <2>1, <2>2, <2>3
  <2>6. ASSUME End(prev) # End(r)
        PROVE  End(prev) \notin Covered(q)
    <3>1. ASSUME NEW k \in 1 .. Len(q), q[k].pos <= End(prev), End(prev) < End(q[k])
          PROVE  FALSE
      <4>1. CASE k < i - 1
        <5>1. End(q[k]) < q[i-1].pos
          BY <1>1, <2>1, <4>1
        <5>2. QED
          BY <1>1, <2>1, <2>3, <2>6, <3>1, <5>1
      <4>2. CASE k = i - 1
        BY <1>1, <2>1, <2>3, <2>6, <3>1, <4>2
      <4>3. CASE k > i - 1
        <5>1. End(q[i-1]) < q[k].pos
          BY <1>1, <2>1, <4>3
        <5>2. QED
          BY <1>1, <2>1, <2>3, <2>6, <3>1, <5>1
      <4>4. QED
        BY <1>3, <4>1, <4>2, <4>3
    <3>2. QED
      BY <1>4, <3>1
  <2>7. Find(q, r) = Found(prev, After(r, prev), TRUE)
    BY <1>5, <1>8
  <2>8. After(r, prev) \in Piece \/ IsEmpty(After(r, prev))
    BY <2>4, PieceIsSpan
  <2>9. QED
    BY <2>2, <2>3, <2>4, <2>5, <2>6, <2>7, <2>8, FoundIsFirst
<1>9. ASSUME ~ (i > 1 /\ ~ IsEmpty(prev)), NEW k \in 1 .. i-1
      PROVE  End(q[k]) <= r.pos
  <2>1. i - 1 \in 1 .. Len(q) /\ q[i-1] \in Piece /\ q[i-1].pos < r.pos /\ i > 1
    BY <1>1, <1>3, <1>9
  <2>2. End(q[i-1]) <= r.pos
    <3>1. IsEmpty(prev)
      BY <1>9, <2>1
    <3>2. End(q[i-1]) <= r.pos \/ End(r) <= q[i-1].pos
      BY <2>1, <3>1, IntersectionIsMeet
    <3>3. QED
      BY <1>1, <1>2, <2>1, <3>2
  <2>3. CASE k < i - 1
    <3>1. End(q[k]) < q[i-1].pos /\ k \in 1 .. Len(q)
      BY <1>1, <2>1, <2>3
    <3>2. QED
      BY <1>1, <1>2, <2>1, <2>2, <3>1
  <2>4. QED
    BY <1>3, <2>2, <2>3
<1>10. CASE ~ (i > 1 /\ ~ IsEmpty(prev)) /\ (i > Len(q) \/ IsEmpty(here))
  <2>1. Find(q, r) = Found(r, NoRange, FALSE)
    BY <1>5, <1>10
  <2>2. ASSUME NEW k \in i .. Len(q)
        PROVE  q[k].pos >= End(r)
    <3>1. i \in 1 .. Len(q) /\ q[i] \in Piece /\ IsEmpty(here)
      BY <1>1, <1>3, <1>10
    <3>2. End(q[i]) <= r.pos \/ End(r) <= q[i].pos
      BY <3>1, IntersectionIsMeet
    <3>3. End(r) <= q[i].pos
      BY <1>1, <1>2, <1>3, <3>1, <3>2
    <3>4. CASE i < k
      <4>1. End(q[i]) < q[k].pos /\ k \in 1 .. Len(q)
        BY <1>1, <3>1, <3>4
      <4>2. QED
        BY <1>1, <1>2, <3>1, <3>3, <4>1
    <3>5. CASE i = k
      BY <3>3, <3>5
    <3>6. QED
      BY <1>1, <3>1, <3>4, <3>5
  <2>3. ASSUME NEW b \in Bytes(r), NEW k \in 1 .. Len(q),
               q[k].pos <= b, b < End(q[k])
        PROVE  FALSE
    <3>1. b \in Nat /\ r.pos <= b /\ b < End(r)
      BY <1>7
    <3>2. CASE k < i
      <4>1. k \in 1 .. i-1 
        BY <1>3, <3>2
      <4>2. End(q[k]) <= r.pos
        BY <1>9, <1>10, <4>1
      <4>3. QED
        BY <1>1, <1>2, <2>3, <3>1, <4>2
    <3>3. CASE k >= i
      <4>1. q[k].pos >= End(r)
        BY <1>3, <2>2, <3>3
      <4>2. QED
        BY <1>1, <1>2, <2>3, <3>1, <4>1
    <3>4. QED
      BY <1>3, <3>2, <3>3
  <2>4. \A b \in Bytes(r) : b \notin Covered(q)
    BY <1>4, <2>3
  <2>5. IsEmpty(NoRange)
    BY DEF NoRange, IsEmpty, Rng
  <2>6. End(r) <= End(r) /\ FALSE \in BOOLEAN
        /\ (\A b \in Bytes(r) : b \in Covered(q) <=> FALSE)
    BY <1>2, <2>4
  <2>7. QED
    BY <1>2, <2>1, <2>4, <2>5, <2>6, FoundIsFirst, Zenon
<1>11. ASSUME ~ (i > 1 /\ ~ IsEmpty(prev)), ~ (i > Len(q) \/ IsEmpty(here))
       PROVE  FirstPiece(q, r, Find(q, r))
  <2>1. /\ i \in 1 .. Len(q) /\ q[i] \in Piece
        /\ q[i].pos \in Nat /\ End(q[i]) \in Nat
        /\ r.pos <= q[i].pos /\ q[i].pos < End(q[i])
    BY <1>1, <1>2, <1>3, <1>11
  <2>2. /\ here \in Piece
        /\ here.pos = MaxOf(q[i].pos, r.pos)
        /\ End(here) = MinOf(End(q[i]), End(r))
        /\ ~ (End(r) <= q[i].pos)
    BY <1>11, <2>1, IntersectionIsMeet, PieceIsSpan
  <2> HIDE DEF here
  <2>3. /\ here.pos = q[i].pos /\ q[i].pos < End(r)
        /\ End(here) <= End(r) /\ End(here) <= End(q[i]) /\ End(here) \in Nat
        /\ (End(here) # End(r) => End(here) = End(q[i]))
    BY <1>2, <2>1, <2>2 DEF MaxOf, MinOf
  <2>4. ASSUME NEW b \in Nat, q[i].pos <= b, b < End(q[i])
        PROVE  b \in Covered(q)
    BY <1>4, <2>1, <2>4
  <2>5. CASE r.pos < here.pos
    <3> DEFINE gap == Rng(r.pos, here.pos - r.pos)
    <3>1. Find(q, r) = Found(gap, After(r, gap), FALSE)
      BY <1>5, <1>11, <2>5
    <3>2. gap \in Piece /\ gap.pos = r.pos /\ End(gap) = q[i].pos
      <4>1. here.pos - r.pos \in Nat \ {0}
        BY <1>2, <2>1, <2>3, <2>5
      <4>2. QED
        BY <1>2, <2>1, <2>3, <4>1 DEF Piece, Rng, End
    <3> HIDE DEF gap
    <3>3. /\ After(r, gap) \in Span
          /\ After(r, gap).pos = End(gap)
          /\ End(After(r, gap)) = End(r)
          /\ IsEmpty(After(r, gap)) <=> End(gap) = End(r)
      BY <1>2, <2>1, <2>3, <3>2, AfterPiece
    <3>4. After(r, gap) \in Piece /\ ~ IsEmpty(After(r, gap)) /\ End(gap) # End(r)
          /\ End(gap) <= End(r)
      BY <1>2, <2>1, <2>3, <3>2, <3>3, PieceIsSpan
    <3>5. ASSUME NEW b \in Bytes(gap), NEW k \in 1 .. Len(q),
                 q[k].pos <= b, b < End(q[k])
          PROVE  FALSE
      <4>1. b \in Nat /\ r.pos <= b /\ b < q[i].pos
        BY <1>7, <3>2
      <4>2. CASE k < i
        <5>1. End(q[k]) <= r.pos
          BY <1>3, <1>9, <1>11, <4>2
        <5>2. QED
          BY <1>1, <1>2, <3>5, <4>1, <5>1
      <4>3. CASE k = i
        BY <1>1, <2>1, <3>5, <4>1, <4>3
      <4>4. CASE k > i
        <5>1. End(q[i]) < q[k].pos
          BY <1>1, <2>1, <4>4
        <5>2. QED
          BY <1>1, <2>1, <3>5, <4>1, <5>1
      <4>5. QED
        BY <2>1, <4>2, <4>3, <4>4
    <3>6. \A b \in Bytes(gap) : b \notin Covered(q)
      BY <1>4, <3>5
    <3>7. End(gap) \in Covered(q)
      BY <2>1, <2>4, <3>2
    <3>8. QED
      BY <3>1, <3>2, <3>3, <3>4, <3>6, <3>7, FoundIsFirst
  <2>6. CASE ~ (r.pos < here.pos)
    <3>1. Find(q, r) = Found(here, After(r, here), TRUE)
      BY <1>5, <1>11, <2>6
    <3>2. here.pos = r.pos
      BY <1>2, <2>1, <2>3, <2>6
    <3>3. /\ After(r, here) \in Span
          /\ After(r, here).pos = End(here)
          /\ End(After(r, here)) = End(r)
          /\ IsEmpty(After(r, here)) <=> End(here) = End(r)
      BY <2>2, <2>3, <3>2, AfterPiece
    <3>4. After(r, here) \in Piece \/ IsEmpty(After(r, here))
      BY <3>3, PieceIsSpan
    <3>5. ASSUME NEW b \in Bytes(here)
          PROVE  b \in Covered(q)
      BY <1>7, <2>1, <2>2, <2>3, <2>4
    <3>6. ASSUME End(here) # End(r), NEW k \in 1 .. Len(q),
                 q[k].pos <= End(here), End(here) < End(q[k])
          PROVE  FALSE
      <4>1. CASE k < i
        <5>1. End(q[k]) < q[i].pos
          BY <1>1, <2>1, <4>1
        <5>2. QED
          BY <1>1, <2>1, <2>3, <3>6, <5>1
      <4>2. CASE k = i
        BY <1>1, <2>1, <2>3, <3>6, <4>2
      <4>3. CASE k > i
        <5>1. End(q[i]) < q[k].pos
          BY <1>1, <2>1, <4>3
        <5>2. QED
          BY <1>1, <2>1, <2>3, <3>6, <5>1
      <4>4. QED
        BY <2>1, <4>1, <4>2, <4>3
    <3>7. End(here) # End(r) => End(here) \notin Covered(q)
      BY <1>4, <3>6
    <3>8. QED
      BY <2>2, <2>3, <3>1, <3>2, <3>3, <3>4, <3>5, <3>7, FoundIsFirst
  <2>7. QED
    BY <2>5, <2>6
<1>12. QED
  BY <1>8, <1>10, <1>11

-----------------------------------------------------------------------------
(***************************************************************************)
(* Present and FindMissing                                                 *)
(***************************************************************************)
(* Present says yes exactly when every byte of r is covered. *)
LEMMA PresentExact ==
  ASSUME NEW q, IsList(q), NEW r \in Span
  PROVE  Present(q, r) <=> Bytes(r) \subseteq Covered(q)
<1>1. CASE IsEmpty(r)
  BY <1>1, SpanEnd DEF Present
<1>2. CASE ~ IsEmpty(r)
  <2> DEFINE f == Find(q, r)
  <2>1. r \in Piece
    BY <1>2, PieceIsSpan
  <2>2. FirstPiece(q, r, f)
    BY <2>1, FindFirstPiece
  <2>3. Present(q, r) <=> f.present /\ IsEmpty(f.next)
    BY <1>2 DEF Present
  <2> HIDE DEF f
  <2>4. \A c \in Piece : /\ c.pos \in Nat /\ End(c) \in Nat /\ c.pos < End(c)
                         /\ \A b : b \in Bytes(c) <=> b \in Nat /\ c.pos <= b /\ b < End(c)
    BY DEF Piece, End, Bytes
  <2>5. /\ f.curr \in Piece /\ f.curr.pos = r.pos /\ End(f.curr) <= End(r)
        /\ \A b \in Bytes(f.curr) : b \in Covered(q) <=> f.present
        /\ IsEmpty(f.next) <=> End(f.curr) = End(r)
        /\ ~ IsEmpty(f.next) => f.next \in Piece /\ f.next.pos = End(f.curr)
        /\ ~ IsEmpty(f.next) => (f.next.pos \in Covered(q) <=> ~ f.present)
    BY <2>2 DEF FirstPiece
  <2>6. ASSUME f.present, IsEmpty(f.next)
        PROVE  Bytes(r) \subseteq Covered(q)
    <3>1. End(f.curr) = End(r)
      BY <2>5, <2>6
    <3>2. \A b \in Bytes(r) : b \in Bytes(f.curr)
      BY <2>1, <2>4, <2>5, <3>1
    <3>3. QED
      BY <2>5, <2>6, <3>2
  <2>7. ASSUME ~ f.present
        PROVE  ~ (Bytes(r) \subseteq Covered(q))
    <3>1. r.pos \in Bytes(r) /\ r.pos \in Bytes(f.curr)
      BY <2>1, <2>4, <2>5
    <3>2. QED
      BY <2>5, <2>7, <3>1
  <2>8. ASSUME f.present, ~ IsEmpty(f.next)
        PROVE  ~ (Bytes(r) \subseteq Covered(q))
    <3>1. f.next.pos \notin Covered(q)
      BY <2>5, <2>8
    <3>2. f.next.pos \in Bytes(r)
      BY <2>1, <2>4, <2>5, <2>8
    <3>3. QED
      BY <3>1, <3>2
  <2>9. QED
    BY <2>3, <2>6, <2>7, <2>8
<1>3. QED
  BY <1>1, <1>2

(* FindMissing drops covered bytes from the front of r and no others. *)
DropsCovered(q, r, out) ==
    /\ End(out) = End(r)
    /\ Bytes(r) \ Bytes(out) \subseteq Covered(q)
    /\ ~ IsEmpty(out) => out.pos \notin Covered(q)

LEMMA FindMissingExact ==
  ASSUME NEW q, IsList(q), NEW r \in Span
  PROVE  DropsCovered(q, r, FindMissing(q, r))
<1> DEFINE f == Find(q, r)
           out == FindMissing(q, r)
<1>1. CASE IsEmpty(r)
  <2>1. out = r
    BY <1>1 DEF FindMissing
  <2>2. QED
    BY <1>1, <2>1 DEF DropsCovered
<1>2. CASE ~ IsEmpty(r)
  <2>1. r \in Piece
    BY <1>2, PieceIsSpan
  <2>2. FirstPiece(q, r, f)
    BY <2>1, FindFirstPiece
  <2>3. out = IF ~ f.present THEN r
              ELSE Rng(End(f.curr), r.size - (End(f.curr) - r.pos))
    BY <1>2 DEF FindMissing
  <2> HIDE DEF f, out
  <2>4. \A c \in Piece : /\ c.pos \in Nat /\ End(c) \in Nat /\ c.pos < End(c)
                         /\ \A b : b \in Bytes(c) <=> b \in Nat /\ c.pos <= b /\ b < End(c)
    BY DEF Piece, End, Bytes
  <2>5. /\ f.curr \in Piece /\ f.curr.pos = r.pos /\ End(f.curr) <= End(r)
        /\ \A b \in Bytes(f.curr) : b \in Covered(q) <=> f.present
        /\ IsEmpty(f.next) <=> End(f.curr) = End(r)
        /\ ~ IsEmpty(f.next) => f.next \in Piece /\ f.next.pos = End(f.curr)
        /\ ~ IsEmpty(f.next) => (f.next.pos \in Covered(q) <=> ~ f.present)
    BY <2>2 DEF FirstPiece
  <2>6. CASE ~ f.present
    <3>1. out = r
      BY <2>3, <2>6
    <3>2. r.pos \in Bytes(f.curr)
      BY <2>1, <2>4, <2>5
    <3>3. r.pos \notin Covered(q)
      BY <2>5, <2>6, <3>2
    <3>4. QED
      BY <3>1, <3>3 DEF out, DropsCovered
  <2>7. CASE f.present
    <3>1. PICK e \in Nat, s \in Nat : e = End(f.curr) /\ s = End(r) - e
      BY <2>1, <2>4, <2>5
    <3>2. out = [pos |-> e, size |-> s]
      BY <2>1, <2>3, <2>7, <3>1 DEF Rng, Piece, End
    <3>3. out \in Span /\ out.pos = e /\ End(out) = End(r) /\ (IsEmpty(out) <=> s = 0)
      BY <2>1, <2>4, <3>1, <3>2 DEF Span, End, IsEmpty
    <3>4. Bytes(out) = { b \in Nat : e <= b /\ b < End(r) }
      BY <3>3, SpanEnd
    <3>5. ASSUME NEW b \in Bytes(r), b \notin Bytes(out)
          PROVE  b \in Covered(q)
      <4>1. b \in Bytes(f.curr)
        BY <2>1, <2>4, <2>5, <3>1, <3>4, <3>5
      <4>2. QED
        BY <2>5, <2>7, <4>1
    <3>6. ASSUME ~ IsEmpty(out)
          PROVE  out.pos \notin Covered(q)
      <4>1. ~ IsEmpty(f.next)
        BY <2>1, <2>4, <2>5, <3>1, <3>3, <3>6
      <4>2. QED
        BY <2>5, <2>7, <3>1, <3>3, <4>1
    <3>7. QED
      BY <3>3, <3>5, <3>6 DEF out, DropsCovered
  <2>8. QED
    BY <2>6, <2>7, <2>5
<1>3. QED
  BY <1>1, <1>2

-----------------------------------------------------------------------------
(***************************************************************************)
(* coalesce and Insert                                                     *)
(***************************************************************************)
(* The loop of coalesce as a function exists: acc of its definition is one. *)
IsAcc(f, q, i, m, first) ==
    f = [j \in i .. m |-> IF j > i THEN Merged(f[j-1], q[j]) ELSE first]

LEMMA AccExists ==
  ASSUME NEW q, NEW i \in Nat, NEW m \in Nat, i <= m, NEW first
  PROVE  \E f : IsAcc(f, q, i, m, first)
<1> DEFINE Body(f, j) == IF j > i THEN Merged(f[j-1], q[j]) ELSE first
           S == { n \in Nat : \E f : f = [j \in i .. i+n |-> Body(f, j)] }
<1>1. 0 \in S
  <2> DEFINE f == [j \in i .. i+0 |-> first]
  <2>1. f = [j \in i .. i+0 |-> Body(f, j)]
    OBVIOUS
  <2>2. QED
    BY <2>1
<1>2. ASSUME NEW n \in S
      PROVE  n + 1 \in S
  <2>1. n \in Nat /\ \E f : f = [j \in i .. i+n |-> Body(f, j)]
    OBVIOUS
  <2>2. PICK f : f = [j \in i .. i+n |-> Body(f, j)]
    BY <2>1
  <2> DEFINE g == [j \in i .. i+(n+1) |->
                     IF j = i+(n+1) THEN Merged(f[i+n], q[j]) ELSE f[j]]
  <2>3. ASSUME NEW j \in i .. i+(n+1)
        PROVE  g[j] = Body(g, j)
    <3>1. CASE j = i+(n+1)
      <4>1. j > i /\ j - 1 = i+n /\ i+n \in i .. i+(n+1) /\ i+n # i+(n+1)
        BY <2>1, <3>1
      <4>2. g[j] = Merged(f[i+n], q[j]) /\ g[i+n] = f[i+n]
        BY <3>1, <4>1
      <4>3. QED
        BY <4>1, <4>2
    <3>2. CASE j # i+(n+1)
      <4>1. j \in i .. i+n
        BY <2>1, <3>2
      <4>2. g[j] = f[j] /\ f[j] = Body(f, j)
        BY <2>2, <3>2, <4>1
      <4>3. CASE j > i
        <5>1. j-1 \in i .. i+(n+1) /\ j-1 # i+(n+1)
          BY <2>1, <4>1, <4>3
        <5>2. g[j-1] = f[j-1]
          BY <5>1
        <5>3. QED
          BY <4>2, <4>3, <5>2
      <4>4. CASE ~ (j > i)
        BY <4>2, <4>4
      <4>5. QED
        BY <4>3, <4>4
    <3>3. QED
      BY <3>1, <3>2
  <2>4. g = [j \in i .. i+(n+1) |-> Body(g, j)]
    <3>1. g = [j \in i .. i+(n+1) |-> g[j]]
      OBVIOUS
    <3> HIDE DEF g, Body
    <3>2. QED
      BY <2>3, <3>1
  <2>5. \E h : h = [j \in i .. i+(n+1) |-> Body(h, j)]
    <3> HIDE DEF g, Body
    <3>1. QED
      BY <2>4
  <2>6. QED
    BY <2>1, <2>5
<1>3. m - i \in Nat /\ i + (m - i) = m
  OBVIOUS
<1>4. m - i \in S
  <2> HIDE DEF S
  <2>1. S \in SUBSET Nat
    BY DEF S
  <2>2. QED
    BY <1>1, <1>2, <1>3, <2>1, Induct
<1>5. QED
  BY <1>3, <1>4 DEF IsAcc

(* What the loop holds when it has come to j: one range that begins where
   the first did, with the bytes of all those it has taken in. *)
TookIn(q, i, first, acc, j) ==
    /\ acc[j] \in Piece /\ acc[j].pos = first.pos
    /\ (\A k \in i .. j-1 : CanMerge(acc[k], q[k+1])) =>
          \A x : x \in Bytes(acc[j]) <=>
                   \/ x \in Bytes(first)
                   \/ \E k \in i+1 .. j : x \in Bytes(q[k])

LEMMA AccIsUnion ==
  ASSUME NEW q, NEW i \in Nat, NEW m \in Nat, i <= m,
         NEW first \in Piece, NEW acc,
         acc[i] = first,
         \A j \in i+1 .. m : acc[j] = Merged(acc[j-1], q[j]),
         \A j \in i+1 .. m : q[j] \in Piece /\ first.pos <= q[j].pos
  PROVE  \A j \in i .. m : TookIn(q, i, first, acc, j)
<1> DEFINE P(j) ==
            /\ acc[j] \in Piece /\ acc[j].pos = first.pos
            /\ (\A k \in i .. j-1 : CanMerge(acc[k], q[k+1])) =>
                  \A x : x \in Bytes(acc[j]) <=>
                           \/ x \in Bytes(first)
                           \/ \E k \in i+1 .. j : x \in Bytes(q[k])
           S == { n \in Nat : i + n <= m => P(i + n) }
<1>1. 0 \in S
  <2>1. i + 0 = i
    OBVIOUS
  <2>2. P(i)
    OBVIOUS
  <2>3. QED
    BY <2>1, <2>2
<1>2. ASSUME NEW n \in S
      PROVE  n + 1 \in S
  <2> SUFFICES ASSUME i + (n + 1) <= m
               PROVE  P(i + (n + 1))
    OBVIOUS
  <2>1. PICK j \in i .. m : j = i + n /\ j + 1 = i + (n + 1) /\ j + 1 \in i+1 .. m
                            /\ (j + 1) - 1 = j
    OBVIOUS
  <2>2. P(j)
    BY <2>1
  <2>3. acc[j+1] = Merged(acc[j], q[j+1]) /\ q[j+1] \in Piece
        /\ acc[j] \in Piece /\ acc[j].pos <= q[j+1].pos
    BY <2>1, <2>2
  <2>4. /\ acc[j+1] \in Piece /\ acc[j+1].pos = first.pos
        /\ CanMerge(acc[j], q[j+1]) =>
              Bytes(acc[j+1]) = Bytes(acc[j]) \cup Bytes(q[j+1])
    BY <2>2, <2>3, MergedIsUnion
  <2>5. ASSUME \A k \in i .. j : CanMerge(acc[k], q[k+1]), NEW x
        PROVE  x \in Bytes(acc[j+1]) <=>
                           \/ x \in Bytes(first)
                           \/ \E k \in i+1 .. j+1 : x \in Bytes(q[k])
    <3>1. CanMerge(acc[j], q[j+1]) /\ \A k \in i .. j-1 : CanMerge(acc[k], q[k+1])
      BY <2>1, <2>5
    <3>2. x \in Bytes(acc[j]) <=>
                           \/ x \in Bytes(first)
                           \/ \E k \in i+1 .. j : x \in Bytes(q[k])
      BY <2>2, <3>1
    <3>3. (\E k \in i+1 .. j+1 : x \in Bytes(q[k])) <=>
             (\E k \in i+1 .. j : x \in Bytes(q[k])) \/ x \in Bytes(q[j+1])
      <4>1. \A k : k \in i+1 .. j+1 <=> k \in i+1 .. j \/ k = j+1
        BY <2>1
      <4>2. QED
        BY <4>1, Zenon
    <3>4. QED
      BY <2>4, <3>1, <3>2, <3>3
  <2>6. P(j + 1)
    BY <2>1, <2>4, <2>5
  <2>7. QED
    BY <2>1, <2>6
<1>3. \A n \in Nat : n \in S
  <2> HIDE DEF S
  <2>1. S \in SUBSET Nat
    BY DEF S
  <2>2. QED
    BY <1>1, <1>2, <2>1, Induct
<1>4. ASSUME NEW j \in i .. m
      PROVE  P(j)
  <2>1. j - i \in Nat /\ i + (j - i) = j
    OBVIOUS
  <2>2. j - i \in S
    BY <1>3, <2>1
  <2>3. QED
    BY <2>1, <2>2
<1>5. QED
  BY <1>4 DEF TookIn

(* A list in which only the element at i may touch or overlap others. *)
NearlySorted(q, i) ==
    /\ q \in Seq(Piece)
    /\ i \in 1 .. Len(q)
    /\ \A j, k \in (1 .. Len(q)) \ {i} : j < k => End(q[j]) < q[k].pos
    /\ \A j \in 1 .. i-1 : q[j].pos < q[i].pos
    /\ \A j \in i+1 .. Len(q) : q[i].pos <= q[j].pos

(* The list of coalesce's last line: the elements from s to e replaced by one. *)
Splice(q, s, e, x) == SubSeq(q, 1, s - 1) \o <<x>> \o SubSeq(q, e + 1, Len(q))

LEMMA Spliced ==
  ASSUME NEW q \in Seq(Piece), NEW s \in 1 .. Len(q) + 1,
         NEW e \in s-1 .. Len(q), NEW x \in Piece
  PROVE  /\ Splice(q, s, e, x) \in Seq(Piece)
         /\ Len(Splice(q, s, e, x)) = s + (Len(q) - e)
         /\ \A k \in 1 .. Len(Splice(q, s, e, x)) :
               Splice(q, s, e, x)[k] = IF k < s THEN q[k] ELSE IF k = s THEN x
                                       ELSE q[k + (e - s)]
<1> DEFINE a == SubSeq(q, 1, s - 1)
           b == SubSeq(q, e + 1, Len(q))
           t == (a \o <<x>>) \o b
<1>1. Len(q) \in Nat /\ \A k \in 1 .. Len(q) : q[k] \in Piece
  OBVIOUS
<1>2. a \in Seq(Piece) /\ Len(a) = s - 1 /\ \A k \in 1 .. s-1 : a[k] = q[k]
  <2>1. \A k \in 1 .. s-1 : q[k] \in Piece
    BY <1>1
  <2>2. Len(a) = IF 1 <= s-1 THEN (s-1)-1+1 ELSE 0
    BY <2>1, SubSeqProperties
  <2>3. a \in Seq(Piece) /\ \A k \in 1 .. (s-1)-1+1 : a[k] = q[1+k-1]
    BY <2>1, SubSeqProperties
  <2> HIDE DEF a
  <2>4. QED
    BY <2>2, <2>3
<1>3. b \in Seq(Piece) /\ Len(b) = Len(q) - e
      /\ \A k \in 1 .. Len(q) - e : b[k] = q[e + k]
  <2>1. \A k \in e+1 .. Len(q) : q[k] \in Piece
    BY <1>1
  <2>2. Len(b) = IF e+1 <= Len(q) THEN Len(q)-(e+1)+1 ELSE 0
    BY <1>1, <2>1, SubSeqProperties
  <2>3. b \in Seq(Piece) /\ \A k \in 1 .. Len(q)-(e+1)+1 : b[k] = q[(e+1)+k-1]
    BY <1>1, <2>1, SubSeqProperties
  <2> HIDE DEF b
  <2>4. QED
    BY <1>1, <2>2, <2>3
<1> HIDE DEF a, b
<1> DEFINE ax == a \o <<x>>
<1>4. ax \in Seq(Piece) /\ Len(ax) = s
      /\ \A k \in 1 .. s : ax[k] = IF k <= s - 1 THEN q[k] ELSE x
  <2>1. <<x>> \in Seq(Piece) /\ Len(<<x>>) = 1 /\ <<x>>[1] = x
    OBVIOUS
  <2>2. ax \in Seq(Piece) /\ Len(ax) = Len(a) + 1
        /\ \A k \in 1 .. Len(a) + 1 : ax[k] = IF k <= Len(a) THEN a[k] ELSE <<x>>[k - Len(a)]
    BY <1>2, <2>1, ConcatProperties
  <2> HIDE DEF ax
  <2>3. s \in Nat /\ s > 0
    BY <1>1
  <2>4. Len(ax) = s /\ \A k \in 1 .. s : ax[k] = IF k <= s - 1 THEN a[k] ELSE <<x>>[k - (s-1)]
    BY <1>2, <2>2, <2>3
  <2>5. ASSUME NEW k \in 1 .. s
        PROVE  ax[k] = IF k <= s - 1 THEN q[k] ELSE x
    <3>1. CASE k <= s - 1
      BY <1>2, <2>3, <2>4, <3>1
    <3>2. CASE ~ (k <= s - 1)
      <4>1. k - (s - 1) = 1
        BY <2>3, <3>2
      <4>2. QED
        BY <2>1, <2>4, <3>2, <4>1
    <3>3. QED
      BY <3>1, <3>2
  <2>6. QED
    BY <2>2, <2>4, <2>5
<1> HIDE DEF ax
<1>5. t = ax \o b
  BY DEF ax
<1>6. t \in Seq(Piece) /\ Len(t) = s + (Len(q) - e)
      /\ \A k \in 1 .. s + (Len(q) - e) : t[k] = IF k <= s THEN ax[k] ELSE b[k - s]
  <2>1. /\ ax \o b \in Seq(Piece)
        /\ Len(ax \o b) = Len(ax) + Len(b)
        /\ \A k \in 1 .. Len(ax) + Len(b) :
              (ax \o b)[k] = IF k <= Len(ax) THEN ax[k] ELSE b[k - Len(ax)]
    BY <1>3, <1>4, ConcatProperties
  <2> HIDE DEF t
  <2>2. QED
    BY <1>3, <1>4, <1>5, <2>1
<1> HIDE DEF t
<1>7. ASSUME NEW k \in 1 .. Len(t)
      PROVE  t[k] = IF k < s THEN q[k] ELSE IF k = s THEN x ELSE q[k + (e - s)]
  <2>1. /\ k \in Nat /\ k >= 1 /\ s \in Nat /\ e \in Nat
        /\ k \in 1 .. s + (Len(q) - e)
    BY <1>1, <1>6
  <2>2. t[k] = IF k <= s THEN ax[k] ELSE b[k - s]
    BY <1>6, <2>1
  <2>3. CASE k < s
    <3>1. k \in 1 .. s /\ k <= s /\ k <= s - 1
      BY <2>1, <2>3
    <3>2. t[k] = ax[k] /\ ax[k] = q[k]
      BY <1>4, <2>2, <3>1
    <3>3. QED
      BY <2>3, <3>2
  <2>4. CASE k = s
    <3>1. k \in 1 .. s /\ k <= s /\ ~ (k <= s - 1) /\ ~ (k < s)
      BY <2>1, <2>4
    <3>2. t[k] = ax[k] /\ ax[k] = x
      BY <1>4, <2>2, <3>1
    <3>3. QED
      BY <2>4, <3>1, <3>2
  <2>5. CASE k > s
    <3>1. /\ k - s \in 1 .. Len(q) - e /\ e + (k - s) = k + (e - s)
          /\ ~ (k <= s) /\ ~ (k < s) /\ k # s
      BY <1>1, <2>1, <2>5
    <3>2. t[k] = b[k - s] /\ b[k - s] = q[k + (e - s)]
      BY <1>3, <2>2, <3>1
    <3>3. QED
      BY <3>1, <3>2
  <2>6. QED
    BY <2>1, <2>3, <2>4, <2>5
<1>8. Splice(q, s, e, x) = t
  BY DEF Splice, t, a, b
<1>9. QED
  BY <1>6, <1>7, <1>8

(* The elements from s to e of a list, replaced by one range with their bytes
   that touches neither neighbour: a sorted list with the same bytes. *)
LEMMA SplicedIsList ==
  ASSUME NEW q, NEW i, NearlySorted(q, i), NEW x \in Piece,
         NEW s \in 1 .. i, NEW e \in i .. Len(q),
         \A k \in 1 .. s-1 : End(q[k]) < x.pos,
         \A k \in e+1 .. Len(q) : End(x) < q[k].pos,
         \A b : b \in Bytes(x) <=> \E k \in s .. e : b \in Bytes(q[k])
  PROVE  IsList(Splice(q, s, e, x)) /\ Covered(Splice(q, s, e, x)) = Covered(q)
<1>1. /\ q \in Seq(Piece) /\ Len(q) \in Nat /\ i \in 1 .. Len(q)
      /\ \A j, k \in (1 .. Len(q)) \ {i} : j < k => End(q[j]) < q[k].pos
  BY DEF NearlySorted
<1>2. /\ s \in 1 .. Len(q) + 1 /\ e \in s-1 .. Len(q) /\ s <= i /\ i <= e /\ s <= e
      /\ s \in Nat /\ e \in Nat /\ i \in Nat
  BY <1>1
<1> DEFINE t == Splice(q, s, e, x)
<1>3. /\ t \in Seq(Piece)
      /\ Len(t) = s + (Len(q) - e)
      /\ \A k \in 1 .. Len(t) :
            t[k] = IF k < s THEN q[k] ELSE IF k = s THEN x ELSE q[k + (e - s)]
  BY <1>1, <1>2, Spliced
<1> HIDE DEF t
<1>4. Len(t) \in Nat
  BY <1>1, <1>2, <1>3
<1>5. ASSUME NEW k \in 1 .. Len(t)
      PROVE  \/ k < s /\ t[k] = q[k] /\ k \in (1 .. Len(q)) \ {i} /\ k \in 1 .. s-1
             \/ k = s /\ t[k] = x
             \/ /\ k > s /\ t[k] = q[k + (e - s)]
                /\ k + (e - s) \in (1 .. Len(q)) \ {i} /\ k + (e - s) \in e+1 .. Len(q)
  <2>1. k \in Nat /\ k >= 1 /\ k <= s + (Len(q) - e)
    BY <1>3, <1>4
  <2>2. t[k] = IF k < s THEN q[k] ELSE IF k = s THEN x ELSE q[k + (e - s)]
    BY <1>3
  <2>3. CASE k < s
    <3>1. k \in (1 .. Len(q)) \ {i} /\ k \in 1 .. s-1
      BY <1>1, <1>2, <2>1, <2>3
    <3>2. QED
      BY <2>2, <2>3, <3>1
  <2>4. CASE k = s
    <3>1. ~ (k < s)
      BY <2>1, <2>4
    <3>2. QED
      BY <2>2, <2>4, <3>1
  <2>5. CASE k > s
    <3>1. /\ k + (e - s) \in (1 .. Len(q)) \ {i} /\ k + (e - s) \in e+1 .. Len(q)
          /\ ~ (k < s) /\ k # s
      BY <1>1, <1>2, <2>1, <2>5
    <3>2. QED
      BY <2>2, <2>5, <3>1
  <2>6. QED
    BY <1>2, <2>1, <2>3, <2>4, <2>5
<1>6. ASSUME NEW j \in 1 .. Len(t), NEW k \in 1 .. Len(t), j < k
      PROVE  End(t[j]) < t[k].pos
  <2>1. /\ j < s => t[j] = q[j] /\ j \in (1 .. Len(q)) \ {i} /\ j \in 1 .. s-1
        /\ j = s => t[j] = x
        /\ j > s => /\ t[j] = q[j + (e - s)]
                    /\ j + (e - s) \in (1 .. Len(q)) \ {i}
    BY <1>2, <1>4, <1>5
  <2>2. /\ k < s => t[k] = q[k] /\ k \in (1 .. Len(q)) \ {i}
        /\ k = s => t[k] = x
        /\ k > s => /\ t[k] = q[k + (e - s)]
                    /\ k + (e - s) \in (1 .. Len(q)) \ {i}
                    /\ k + (e - s) \in e+1 .. Len(q)
    BY <1>2, <1>4, <1>5
  <2>3. j < k + (e - s) /\ j + (e - s) < k + (e - s)
    BY <1>2, <1>4, <1>6
  <2>4. CASE j < s /\ k < s
    BY <1>1, <1>6, <2>1, <2>2, <2>4
  <2>5. CASE j < s /\ k = s
    BY <2>1, <2>2, <2>5
  <2>6. CASE j < s /\ k > s
    BY <1>1, <2>1, <2>2, <2>3, <2>6
  <2>7. CASE j = s /\ k > s
    BY <2>1, <2>2, <2>7
  <2>8. CASE j > s /\ k > s
    BY <1>1, <2>1, <2>2, <2>3, <2>8
  <2>9. QED
    BY <1>2, <1>4, <1>6, <2>4, <2>5, <2>6, <2>7, <2>8
<1>7. IsList(t)
  BY <1>3, <1>6 DEF IsList, Sorted
<1>8. ASSUME NEW b
      PROVE  b \in Covered(t) <=> b \in Covered(q)
  <2>1. b \in Covered(t) <=> \E k \in 1 .. Len(t) : b \in Bytes(t[k])
    BY DEF Covered
  <2>2. b \in Covered(q) <=> \E k \in 1 .. Len(q) : b \in Bytes(q[k])
    BY DEF Covered
  <2>3. ASSUME NEW k \in 1 .. Len(t), b \in Bytes(t[k])
        PROVE  \E j \in 1 .. Len(q) : b \in Bytes(q[j])
    <3>1. CASE k = s
      <4>1. b \in Bytes(x)
        BY <1>2, <1>5, <2>3, <3>1
      <4>2. PICK j \in s .. e : b \in Bytes(q[j])
        BY <4>1
      <4>3. j \in 1 .. Len(q)
        BY <1>1, <1>2
      <4>4. QED
        BY <4>2, <4>3
    <3>2. CASE k # s
      BY <1>5, <2>3, <3>2
    <3>3. QED
      BY <3>1, <3>2
  <2>4. ASSUME NEW j \in 1 .. Len(q), b \in Bytes(q[j])
        PROVE  \E k \in 1 .. Len(t) : b \in Bytes(t[k])
    <3>1. CASE j < s
      <4>1. j \in 1 .. Len(t) /\ t[j] = q[j]
        BY <1>1, <1>2, <1>3, <3>1
      <4>2. QED
        BY <2>4, <4>1
    <3>2. CASE s <= j /\ j <= e
      <4>1. b \in Bytes(x)
        BY <1>1, <1>2, <2>4, <3>2
      <4>2. s \in 1 .. Len(t) /\ t[s] = x
        BY <1>1, <1>2, <1>3
      <4>3. QED
        BY <4>1, <4>2
    <3>3. CASE e < j
      <4>1. PICK k \in 1 .. Len(t) : k = j - (e - s) /\ k > s /\ k + (e - s) = j
        BY <1>1, <1>2, <1>3, <3>3
      <4>2. t[k] = q[j]
        BY <1>2, <1>5, <4>1
      <4>3. QED
        BY <2>4, <4>2
    <3>4. QED
      BY <1>1, <1>2, <3>1, <3>2, <3>3
  <2>5. QED
    BY <2>1, <2>2, <2>3, <2>4
<1>9. QED
  BY <1>7, <1>8 DEF t

(* coalesce makes the list sorted again and keeps its bytes. *)
LEMMA CoalesceSorts ==
  ASSUME NEW q, NEW i, NearlySorted(q, i)
  PROVE  IsList(Coalesce(q, i)) /\ Covered(Coalesce(q, i)) = Covered(q)
<1> DEFINE mergePrev == i > 1 /\ CanMerge(q[i-1], q[i])
           s == IF mergePrev THEN i - 1 ELSE i
           first == IF mergePrev THEN Merged(q[i-1], q[i]) ELSE q[i]
           acc[j \in i .. Len(q)] ==
             IF j > i THEN Merged(acc[j-1], q[j])
             ELSE IF mergePrev THEN Merged(q[i-1], q[i])
             ELSE q[i]
           Stop(j) == /\ \A k \in i .. j-1 : CanMerge(acc[k], q[k+1])
                      /\ j < Len(q) => ~ CanMerge(acc[j], q[j+1])
           e == CHOOSE j \in i .. Len(q) : Stop(j)
<1>1. Coalesce(q, i) = Splice(q, s, e, acc[e])
  BY DEF Coalesce, Splice
<1>2. /\ q \in Seq(Piece) /\ Len(q) \in Nat /\ i \in 1 .. Len(q)
      /\ \A k \in 1 .. Len(q) : q[k] \in Piece
      /\ \A j, k \in (1 .. Len(q)) \ {i} : j < k => End(q[j]) < q[k].pos
      /\ \A j \in 1 .. i-1 : q[j].pos < q[i].pos
      /\ \A j \in i+1 .. Len(q) : q[i].pos <= q[j].pos
  BY DEF NearlySorted
<1>3. \A p \in Piece : p.pos \in Nat /\ End(p) \in Nat /\ p.pos < End(p)
  BY DEF Piece, End
<1>4. /\ acc[i] = first
      /\ \A j \in i+1 .. Len(q) : acc[j] = Merged(acc[j-1], q[j])
  <2> DEFINE P(f) == f = [j \in i .. Len(q) |->
                            IF j > i THEN Merged(f[j-1], q[j])
                            ELSE IF mergePrev THEN Merged(q[i-1], q[i])
                            ELSE q[i]]
  <2>1. acc = CHOOSE f : P(f)
    BY DEF acc
  <2>2. \E f : P(f)
    <3>1. i \in Nat /\ i <= Len(q)
      BY <1>2
    <3> HIDE DEF first
    <3>2. \E f : IsAcc(f, q, i, Len(q), first)
      BY <1>2, <3>1, AccExists
    <3>3. QED
      BY <3>2 DEF first, IsAcc
  <2>3. P(acc)
    <3> HIDE DEF P, acc
    <3>1. QED
      BY <2>1, <2>2
  <2> HIDE DEF acc, mergePrev
  <2>4. i \in i .. Len(q) /\ ~ (i > i)
    BY <1>2
  <2>5. acc[i] = first
    BY <2>3, <2>4 DEF first
  <2>6. ASSUME NEW j \in i+1 .. Len(q)
        PROVE  acc[j] = Merged(acc[j-1], q[j])
    <3>1. j \in i .. Len(q) /\ j > i
      BY <1>2
    <3>2. QED
      BY <2>3, <3>1
  <2>7. QED
    BY <2>5, <2>6
<1> HIDE DEF acc
<1>5. /\ first \in Piece
      /\ \A j \in i+1 .. Len(q) : q[j] \in Piece /\ first.pos <= q[j].pos
      /\ s \in 1 .. i
      /\ \A k \in 1 .. s-1 : End(q[k]) < first.pos
      /\ \A b : b \in Bytes(first) <=> \E k \in s .. i : b \in Bytes(q[k])
  <2>1. CASE mergePrev
    <3>1. i - 1 \in 1 .. Len(q) /\ i - 1 \in (1 .. Len(q)) \ {i} /\ i - 1 \in 1 .. i-1
      BY <1>2, <2>1
    <3>2. q[i-1] \in Piece /\ q[i] \in Piece /\ q[i-1].pos < q[i].pos
      BY <1>2, <3>1
    <3>3. /\ first \in Piece /\ first.pos = q[i-1].pos
          /\ Bytes(first) = Bytes(q[i-1]) \cup Bytes(q[i])
      <4>1. q[i-1].pos <= q[i].pos
        BY <1>3, <3>2
      <4>2. first = Merged(q[i-1], q[i]) /\ CanMerge(q[i-1], q[i])
        BY <2>1
      <4> HIDE DEF first
      <4>3. QED
        BY <3>2, <4>1, <4>2, MergedIsUnion
    <3>4. s = i - 1
      BY <2>1
    <3> HIDE DEF first, s, mergePrev
    <3>5. \A j \in i+1 .. Len(q) : q[j] \in Piece /\ first.pos <= q[j].pos
      <4>1. ASSUME NEW j \in i+1 .. Len(q)
            PROVE  q[j] \in Piece /\ first.pos <= q[j].pos
        <5>1. j \in 1 .. Len(q) /\ q[j] \in Piece /\ q[i].pos <= q[j].pos
          BY <1>2
        <5>2. QED
          BY <1>3, <3>2, <3>3, <5>1
      <4>2. QED
        BY <4>1
    <3>6. \A k \in 1 .. s-1 : End(q[k]) < first.pos
      <4>1. ASSUME NEW k \in 1 .. s-1
            PROVE  End(q[k]) < first.pos
        <5>1. k \in (1 .. Len(q)) \ {i} /\ k < i - 1
          BY <1>2, <3>4
        <5>2. QED
          BY <1>2, <3>1, <3>3, <5>1
      <4>2. QED
        BY <4>1
    <3>7. \A b : b \in Bytes(first) <=> \E k \in s .. i : b \in Bytes(q[k])
      <4>1. \A k : k \in s .. i <=> k = i - 1 \/ k = i
        BY <1>2, <3>4
      <4>2. QED
        BY <3>3, <4>1, Zenon
    <3>8. s \in 1 .. i
      BY <1>2, <3>1, <3>4
    <3>9. QED
      BY <3>3, <3>5, <3>6, <3>7, <3>8
  <2>2. CASE ~ mergePrev
    <3>1. first = q[i] /\ s = i /\ q[i] \in Piece
      BY <1>2, <2>2
    <3>2. \A k \in 1 .. i-1 : End(q[k]) < q[i].pos
      <4>1. ASSUME NEW k \in 1 .. i-1
            PROVE  End(q[k]) < q[i].pos
        <5>1. i > 1 /\ i - 1 \in (1 .. Len(q)) \ {i} /\ i - 1 \in 1 .. i-1
              /\ k \in (1 .. Len(q)) \ {i} /\ q[i-1] \in Piece /\ q[k] \in Piece
          BY <1>2
        <5>2. End(q[i-1]) < q[i].pos
          BY <2>2, <5>1 DEF CanMerge
        <5>3. CASE k = i - 1
          BY <5>2, <5>3
        <5>4. CASE k < i - 1
          <6>1. End(q[k]) < q[i-1].pos /\ q[i-1].pos < q[i].pos
            BY <1>2, <5>1, <5>4
          <6>2. QED
            BY <1>3, <3>1, <5>1, <6>1
        <5>5. QED
          BY <1>2, <5>3, <5>4
      <4>2. QED
        BY <4>1
    <3>3. \A b : b \in Bytes(q[i]) <=> \E k \in i .. i : b \in Bytes(q[k])
      <4>1. \A k : k \in i .. i <=> k = i
        BY <1>2
      <4>2. QED
        BY <4>1, Zenon
    <3> HIDE DEF first, s, mergePrev
    <3>4. \A j \in i+1 .. Len(q) : q[j] \in Piece /\ first.pos <= q[j].pos
      BY <1>2, <3>1
    <3>5. s \in 1 .. i
      BY <1>2, <3>1
    <3>6. QED
      BY <3>1, <3>2, <3>3, <3>4, <3>5
  <2>3. QED
    BY <2>1, <2>2
<1> HIDE DEF first, s, mergePrev
<1>6. \A j \in i .. Len(q) : TookIn(q, i, first, acc, j)
  <2>1. i \in Nat /\ i <= Len(q)
    BY <1>2
  <2>2. QED
    BY <1>2, <1>4, <1>5, <2>1, AccIsUnion
<1>7. e \in i .. Len(q) /\ Stop(e)
  <2> DEFINE S == { j \in i .. Len(q) : j < Len(q) => ~ CanMerge(acc[j], q[j+1]) }
  <2>1. Len(q) \in S /\ S \in SUBSET Nat
    BY <1>2
  <2>2. PICK j \in S : \A y \in S : j <= y
    BY <2>1, LeastNumber
  <2>3. ASSUME NEW k \in i .. j-1
        PROVE  CanMerge(acc[k], q[k+1])
    <3>1. k \in i .. Len(q) /\ k < Len(q) /\ k \notin S
      BY <1>2, <2>2
    <3>2. QED
      BY <3>1
  <2>4. j \in i .. Len(q) /\ Stop(j)
    BY <2>3
  <2> HIDE DEF Stop
  <2>5. QED
    BY <2>4
<1> HIDE DEF e
<1>8. /\ acc[e] \in Piece /\ acc[e].pos = first.pos
      /\ \A x : x \in Bytes(acc[e]) <=>
                           \/ x \in Bytes(first)
                           \/ \E k \in i+1 .. e : x \in Bytes(q[k])
  BY <1>6, <1>7 DEF TookIn
<1>9. \A b : b \in Bytes(acc[e]) <=> \E k \in s .. e : b \in Bytes(q[k])
  <2>1. \A k : k \in s .. e <=> k \in s .. i \/ k \in i+1 .. e
    BY <1>2, <1>5, <1>7
  <2>2. QED
    BY <1>5, <1>8, <2>1, Zenon
<1>10. ASSUME NEW k \in e+1 .. Len(q)
       PROVE  End(acc[e]) < q[k].pos
  <2>1. /\ e < Len(q) /\ e + 1 \in (1 .. Len(q)) \ {i} /\ k \in (1 .. Len(q)) \ {i}
        /\ q[e+1] \in Piece /\ q[k] \in Piece
    BY <1>2, <1>7
  <2>2. End(acc[e]) < q[e+1].pos
    BY <1>7, <2>1 DEF CanMerge
  <2>3. CASE k = e + 1
    BY <2>2, <2>3
  <2>4. CASE e + 1 < k
    <3>1. End(q[e+1]) < q[k].pos
      BY <1>2, <2>1, <2>4
    <3>2. QED
      BY <1>3, <1>8, <2>1, <2>2, <3>1
  <2>5. QED
    BY <1>2, <1>7, <2>3, <2>4
<1>11. \A k \in 1 .. s-1 : End(q[k]) < acc[e].pos
  BY <1>5, <1>8
<1>12. QED
  BY <1>1, <1>5, <1>7, <1>8, <1>9, <1>10, <1>11, SplicedIsList

(* A new element in front of i that ends before the old one at i begins. *)
LEMMA PlacedBetween ==
  ASSUME NEW q, IsList(q), NEW r \in Piece, NEW i \in 1 .. Len(q) + 1,
         \A k \in 1 .. i-1 : q[k].pos < r.pos,
         \A k \in i .. Len(q) : q[k].pos >= r.pos
  PROVE  /\ NearlySorted(Splice(q, i, i - 1, r), i)
         /\ Covered(Splice(q, i, i - 1, r)) = Covered(q) \cup Bytes(r)
<1>1. /\ Len(q) \in Nat /\ i \in Nat /\ i >= 1 /\ i <= Len(q) + 1
      /\ \A j, k \in 1 .. Len(q) : j < k => End(q[j]) < q[k].pos
  BY ListElements
<1>2. q \in Seq(Piece)
  BY DEF IsList
<1>2a. PICK e \in i-1 .. Len(q) : e = i - 1
  BY <1>1
<1> DEFINE t == Splice(q, i, e, r)
<1>3. /\ t \in Seq(Piece)
      /\ Len(t) = i + (Len(q) - e)
      /\ \A k \in 1 .. Len(t) :
            t[k] = IF k < i THEN q[k] ELSE IF k = i THEN r ELSE q[k + (e - i)]
  BY <1>2, Spliced
<1> HIDE DEF t
<1>4. Len(t) = Len(q) + 1
  BY <1>1, <1>3, <1>2a
<1>5. ASSUME NEW k \in 1 .. Len(t)
      PROVE  /\ k < i => t[k] = q[k] /\ k \in 1 .. Len(q)
             /\ k = i => t[k] = r
             /\ k > i => t[k] = q[k - 1] /\ k - 1 \in i .. Len(q) /\ k - 1 \in 1 .. Len(q)
  <2>1. t[k] = IF k < i THEN q[k] ELSE IF k = i THEN r ELSE q[k + (e - i)]
    BY <1>3
  <2>2. k + (e - i) = k - 1 /\ k \in Nat /\ k >= 1 /\ k <= Len(q) + 1
    BY <1>1, <1>4, <1>2a
  <2>3. QED
    BY <1>1, <2>1, <2>2
<1>6. ASSUME NEW j \in (1 .. Len(t)) \ {i}, NEW k \in (1 .. Len(t)) \ {i}, j < k
      PROVE  End(t[j]) < t[k].pos
  <2>1. /\ j < i => t[j] = q[j] /\ j \in 1 .. Len(q)
        /\ j > i => t[j] = q[j-1] /\ j - 1 \in 1 .. Len(q)
    BY <1>5
  <2>2. /\ k < i => t[k] = q[k] /\ k \in 1 .. Len(q)
        /\ k > i => t[k] = q[k-1] /\ k - 1 \in 1 .. Len(q)
    BY <1>5
  <2>3. CASE j < i /\ k < i
    BY <1>1, <1>6, <2>1, <2>2, <2>3
  <2>4. CASE j < i /\ k > i
    <3>1. j < k - 1
      BY <1>1, <1>4, <2>4
    <3>2. QED
      BY <1>1, <2>1, <2>2, <2>4, <3>1
  <2>5. CASE j > i /\ k > i
    <3>1. j - 1 < k - 1
      BY <1>1, <1>4, <1>6
    <3>2. QED
      BY <1>1, <2>1, <2>2, <2>5, <3>1
  <2>6. QED
    BY <1>1, <1>4, <1>6, <2>3, <2>4, <2>5
<1>7. i \in 1 .. Len(t) /\ t[i] = r
  BY <1>1, <1>4, <1>5
<1>8. ASSUME NEW j \in 1 .. i-1
      PROVE  t[j].pos < t[i].pos
  <2>1. j \in 1 .. Len(t) /\ j < i
    BY <1>1, <1>4
  <2>2. QED
    BY <1>5, <1>7, <2>1
<1>9. ASSUME NEW j \in i+1 .. Len(t)
      PROVE  t[i].pos <= t[j].pos
  <2>1. j \in 1 .. Len(t) /\ j > i
    BY <1>1, <1>4
  <2>2. t[j] = q[j-1] /\ j - 1 \in i .. Len(q)
    BY <1>5, <2>1
  <2>3. QED
    BY <1>7, <2>2
<1>10. NearlySorted(t, i)
  BY <1>3, <1>6, <1>7, <1>8, <1>9 DEF NearlySorted
<1>11. ASSUME NEW b
       PROVE  b \in Covered(t) <=> b \in Covered(q) \/ b \in Bytes(r)
  <2>1. b \in Covered(t) <=> \E k \in 1 .. Len(t) : b \in Bytes(t[k])
    BY DEF Covered
  <2>2. b \in Covered(q) <=> \E k \in 1 .. Len(q) : b \in Bytes(q[k])
    BY DEF Covered
  <2>3. ASSUME NEW k \in 1 .. Len(t), b \in Bytes(t[k])
        PROVE  b \in Covered(q) \/ b \in Bytes(r)
    <3>1. k < i \/ k = i \/ k > i
      BY <1>1, <1>4
    <3>2. QED
      BY <1>5, <2>2, <2>3, <3>1
  <2>4. ASSUME NEW j \in 1 .. Len(q), b \in Bytes(q[j])
        PROVE  b \in Covered(t)
    <3>1. CASE j < i
      <4>1. j \in 1 .. Len(t)
        BY <1>1, <1>4
      <4>2. QED
        BY <1>5, <2>1, <2>4, <3>1, <4>1
    <3>2. CASE j >= i
      <4>1. PICK k \in 1 .. Len(t) : k = j + 1 /\ k - 1 = j /\ k > i
        BY <1>1, <1>4, <3>2
      <4>2. QED
        BY <1>5, <2>1, <2>4, <4>1
    <3>3. QED
      BY <1>1, <3>1, <3>2
  <2>5. QED
    BY <1>7, <2>1, <2>2, <2>3, <2>4
<1>12. QED
  BY <1>10, <1>11, <1>2a DEF t

(* The element at i takes in a new range that reaches it. *)
LEMMA PlacedInto ==
  ASSUME NEW q, IsList(q), NEW r \in Piece, NEW i \in 1 .. Len(q),
         \A k \in 1 .. i-1 : q[k].pos < r.pos,
         \A k \in i .. Len(q) : q[k].pos >= r.pos,
         CanMerge(r, q[i])
  PROVE  /\ NearlySorted([q EXCEPT ![i] = Merged(r, q[i])], i)
         /\ Covered([q EXCEPT ![i] = Merged(r, q[i])]) = Covered(q) \cup Bytes(r)
<1>1. /\ Len(q) \in Nat /\ i \in Nat /\ i >= 1 /\ i <= Len(q)
      /\ \A j, k \in 1 .. Len(q) : j < k => End(q[j]) < q[k].pos
      /\ \A k \in 1 .. Len(q) : q[k] \in Piece /\ q[k].pos \in Nat /\ End(q[k]) \in Nat
                                /\ q[k].pos < End(q[k])
  BY ListElements
<1>2. r.pos \in Nat /\ r.pos <= q[i].pos
  BY <1>1 DEF Piece
<1>3. PICK x \in Piece : /\ x = Merged(r, q[i]) /\ x.pos = r.pos
                         /\ Bytes(x) = Bytes(r) \cup Bytes(q[i])
  BY <1>1, <1>2, MergedIsUnion
<1> DEFINE t == [q EXCEPT ![i] = x]
<1>4. /\ t \in Seq(Piece) /\ Len(t) = Len(q)
      /\ \A j \in 1 .. Len(q) : t[j] = IF j = i THEN x ELSE q[j]
  <2>1. q \in Seq(Piece)
    BY DEF IsList
  <2>2. QED
    BY <1>1, <2>1, ExceptSeq
<1> HIDE DEF t
<1>5. \A j, k \in (1 .. Len(t)) \ {i} : j < k => End(t[j]) < t[k].pos
  BY <1>1, <1>4
<1>6. ASSUME NEW j \in 1 .. i-1
      PROVE  t[j].pos < t[i].pos
  <2>1. j \in 1 .. Len(q) /\ j # i
    BY <1>1
  <2>2. QED
    BY <1>3, <1>4, <2>1
<1>7. ASSUME NEW j \in i+1 .. Len(t)
      PROVE  t[i].pos <= t[j].pos
  <2>1. j \in 1 .. Len(q) /\ j # i /\ j \in i .. Len(q)
    BY <1>1, <1>4
  <2>2. q[j].pos >= r.pos /\ t[j] = q[j] /\ t[i] = x /\ q[j].pos \in Nat
    BY <1>1, <1>4, <2>1
  <2>3. QED
    BY <1>2, <1>3, <2>2
<1>8. NearlySorted(t, i)
  BY <1>4, <1>5, <1>6, <1>7 DEF NearlySorted
<1>9. ASSUME NEW b
      PROVE  b \in Covered(t) <=> b \in Covered(q) \/ b \in Bytes(r)
  <2>1. b \in Covered(t) <=> \E k \in 1 .. Len(q) : b \in Bytes(t[k])
    BY <1>4 DEF Covered
  <2>2. b \in Covered(q) <=> \E k \in 1 .. Len(q) : b \in Bytes(q[k])
    BY DEF Covered
  <2>3. QED
    BY <1>3, <1>4, <2>1, <2>2
<1>10. QED
  BY <1>3, <1>8, <1>9 DEF t

(* Insert keeps the list sorted and coalesced and adds exactly the bytes of r. *)
LEMMA InsertAdds ==
  ASSUME NEW q, IsList(q), NEW r \in Span
  PROVE  IsList(Insert(q, r)) /\ Covered(Insert(q, r)) = Covered(q) \cup Bytes(r)
<1>1. CASE IsEmpty(r)
  <2>1. Insert(q, r) = q /\ Bytes(r) = {}
    BY <1>1, SpanEnd DEF Insert
  <2>2. QED
    BY <2>1
<1>2. CASE ~ IsEmpty(r) /\ q = << >>
  <2>1. Insert(q, r) = <<r>> /\ r \in Piece
    BY <1>2, PieceIsSpan DEF Insert
  <2>2. IsList(<<r>>)
    BY <2>1 DEF IsList, Sorted
  <2>3. Covered(<<r>>) = Bytes(r) /\ Covered(<< >>) = {}
    <3>1. Len(<<r>>) = 1 /\ <<r>>[1] = r /\ Len(<< >>) = 0
      OBVIOUS
    <3>2. QED
      BY <3>1 DEF Covered
  <2>4. QED
    BY <1>2, <2>1, <2>2, <2>3
<1>3. CASE ~ IsEmpty(r) /\ q # << >>
  <2> DEFINE i == Search(q, r)
             into == [q EXCEPT ![i] = Merged(r, q[i])]
             placed == IF i <= Len(q) /\ CanMerge(r, q[i]) THEN into
                       ELSE SubSeq(q, 1, i - 1) \o <<r>> \o SubSeq(q, i, Len(q))
  <2>1. Insert(q, r) = Coalesce(placed, i) /\ r \in Piece
    BY <1>3, PieceIsSpan DEF Insert
  <2>2. /\ i \in 1 .. Len(q) + 1 /\ Len(q) \in Nat
        /\ \A k \in 1 .. i-1 : q[k].pos < r.pos
        /\ \A k \in i .. Len(q) : q[k].pos >= r.pos
    BY SearchFinds, ListElements
  <2> HIDE DEF i
  <2>3. NearlySorted(placed, i) /\ Covered(placed) = Covered(q) \cup Bytes(r)
    <3>1. CASE i <= Len(q) /\ CanMerge(r, q[i])
      <4>1. i \in 1 .. Len(q)
        BY <2>2, <3>1
      <4>2. QED
        BY <2>1, <2>2, <3>1, <4>1, PlacedInto
    <3>2. CASE ~ (i <= Len(q) /\ CanMerge(r, q[i]))
      <4>1. placed = Splice(q, i, i - 1, r)
        <5>1. (i - 1) + 1 = i
          BY <2>2
        <5>2. QED
          BY <3>2, <5>1 DEF Splice
      <4>2. QED
        BY <2>1, <2>2, <4>1, PlacedBetween
    <3>3. QED
      BY <3>1, <3>2
  <2> HIDE DEF placed
  <2>4. QED
    BY <2>1, <2>3, CoalesceSorts
<1>4. QED
  BY <1>1, <1>2, <1>3

-----------------------------------------------------------------------------
(***************************************************************************)
(* FindAll                                                                 *)
(***************************************************************************)
(* The loop from p on, given what it returns from later positions on. *)
Onward(g, q, e, p) ==
    IF p = e THEN << >>
    ELSE LET f == Find(q, Rng(p, e - p))
         IN  <<[r |-> f.curr, present |-> f.present]>>
               \o (IF IsEmpty(f.next) THEN << >> ELSE g[f.next.pos])

IsFrom(g, q, lo, e) == g = [p \in lo .. e |-> Onward(g, q, e, p)]

(* A rest of the range that is not empty, and what Find makes of it. *)
Cut(q, e, p, f) ==
    /\ f.curr \in Piece /\ f.curr.pos = p
    /\ f.present \in BOOLEAN
    /\ \A b \in Bytes(f.curr) : b \in Covered(q) <=> f.present
    /\ End(f.curr) \in p+1 .. e
    /\ IsEmpty(f.next) <=> End(f.curr) = e
    /\ ~ IsEmpty(f.next) => /\ f.next.pos = End(f.curr)
                            /\ End(f.curr) \in Covered(q) <=> ~ f.present

LEMMA FindRest ==
  ASSUME NEW q, IsList(q), NEW e \in Nat, NEW p \in 0 .. e, p # e
  PROVE  Cut(q, e, p, Find(q, Rng(p, e - p)))
<1> DEFINE r == Rng(p, e - p)
           f == Find(q, r)
<1>1. r \in Piece /\ r.pos = p /\ End(r) = e
  BY DEF Rng, Piece, End
<1>2. FirstPiece(q, r, f)
  BY <1>1, FindFirstPiece
<1> HIDE DEF r
<1>3. /\ f.curr \in Piece /\ f.curr.pos = p
      /\ f.present \in BOOLEAN
      /\ \A b \in Bytes(f.curr) : b \in Covered(q) <=> f.present
      /\ End(f.curr) <= e
      /\ IsEmpty(f.next) <=> End(f.curr) = e
      /\ ~ IsEmpty(f.next) => /\ f.next.pos = End(f.curr)
                              /\ End(f.curr) \in Covered(q) <=> ~ f.present
  BY <1>1, <1>2 DEF FirstPiece
<1> HIDE DEF f
<1>4. End(f.curr) \in p+1 .. e
  BY <1>3 DEF Piece, End
<1>5. QED
  BY <1>3, <1>4 DEF r, f, Cut

LEMMA OnwardLooksAhead ==
  ASSUME NEW q, IsList(q), NEW e \in Nat, NEW p \in 0 .. e,
         NEW g, NEW h, \A x \in p+1 .. e : g[x] = h[x]
  PROVE  Onward(g, q, e, p) = Onward(h, q, e, p)
<1>1. CASE p = e
  BY <1>1 DEF Onward
<1>2. CASE p # e
  <2> DEFINE f == Find(q, Rng(p, e - p))
  <2>1. IsEmpty(f.next) \/ f.next.pos \in p+1 .. e
    <3>1. Cut(q, e, p, f)
      BY <1>2, FindRest
    <3> HIDE DEF f
    <3>2. QED
      BY <3>1 DEF Cut
  <2>2. IsEmpty(f.next) \/ g[f.next.pos] = h[f.next.pos]
    BY <2>1
  <2> HIDE DEF f
  <2>3. QED
    BY <1>2, <2>2 DEF Onward, f
<1>3. QED
  BY <1>1, <1>2

LEMMA FromExists ==
  ASSUME NEW q, IsList(q), NEW e \in Nat, NEW lo \in 0 .. e
  PROVE  \E g : IsFrom(g, q, lo, e)
<1> DEFINE S == { n \in Nat : n <= e => \E g : IsFrom(g, q, e - n, e) }
<1>1. 0 \in S
  <2> DEFINE g == [p \in e - 0 .. e |-> << >>]
  <2>1. \A h : Onward(h, q, e, e) = << >>
    BY DEF Onward
  <2>2. \A p \in e - 0 .. e : p = e
    OBVIOUS
  <2>3. g = [p \in e - 0 .. e |-> Onward(g, q, e, p)]
    BY <2>1, <2>2
  <2>4. IsFrom(g, q, e - 0, e)
    BY <2>3 DEF IsFrom
  <2>5. QED
    BY <2>4
<1>2. ASSUME NEW n \in S
      PROVE  n + 1 \in S
  <2> SUFFICES ASSUME n + 1 <= e
               PROVE  \E h : IsFrom(h, q, e - (n + 1), e)
    OBVIOUS
  <2>1. PICK g : IsFrom(g, q, e - n, e)
    OBVIOUS
  <2>2. PICK a \in Nat : a = e - (n + 1) /\ a + 1 = e - n /\ a + 1 <= e
    OBVIOUS
  <2>3. \A p \in a+1 .. e : g[p] = Onward(g, q, e, p)
    BY <2>1, <2>2 DEF IsFrom
  <2> DEFINE h == [p \in a .. e |-> IF p = a THEN Onward(g, q, e, a) ELSE g[p]]
  <2>4. \A p \in a+1 .. e : h[p] = g[p]
    BY <2>2
  <2>5. h[a] = Onward(g, q, e, a)
    BY <2>2
  <2>6. h = [p \in a .. e |-> h[p]]
    OBVIOUS
  <2> HIDE DEF h
  <2>7. ASSUME NEW p \in a .. e
        PROVE  h[p] = Onward(h, q, e, p)
    <3>1. p \in 0 .. e /\ \A x \in p+1 .. e : h[x] = g[x]
      BY <2>2, <2>4
    <3>2. Onward(h, q, e, p) = Onward(g, q, e, p)
      BY <3>1, OnwardLooksAhead
    <3>3. h[p] = Onward(g, q, e, p)
      <4>1. p = a \/ p \in a+1 .. e
        BY <2>2
      <4>2. QED
        BY <2>3, <2>4, <2>5, <4>1
    <3>4. QED
      BY <3>2, <3>3
  <2>8. IsFrom(h, q, a, e)
    <3>1. h = [p \in a .. e |-> Onward(h, q, e, p)]
      BY <2>6, <2>7
    <3>2. QED
      BY <3>1 DEF IsFrom
  <2>9. QED
    BY <2>2, <2>8
<1>3. \A n \in Nat : n \in S
  <2> HIDE DEF S
  <2>1. S \in SUBSET Nat
    BY DEF S
  <2>2. QED
    BY <1>1, <1>2, <2>1, Induct
<1>4. e - lo \in Nat /\ e - lo <= e /\ e - (e - lo) = lo
  OBVIOUS
<1>5. e - lo \in S
  BY <1>3, <1>4
<1>6. QED
  BY <1>4, <1>5

(***************************************************************************)
(* frs cuts the bytes from p up to e into consecutive pieces, which are in *)
(* turn covered and absent.                                                *)
(***************************************************************************)
Answers == [r : Piece, present : BOOLEAN]

Tiling(frs, q, p, e) ==
    /\ frs \in Seq(Answers)
    /\ frs = << >> <=> p = e
    /\ \A b : (\E i \in 1 .. Len(frs) : b \in Bytes(frs[i].r))
                 <=> b \in Nat /\ p <= b /\ b < e
    /\ frs # << >> => frs[1].r.pos = p
    /\ \A i \in 2 .. Len(frs) : /\ frs[i].r.pos = End(frs[i-1].r)
                                /\ frs[i].present # frs[i-1].present
    /\ \A i \in 1 .. Len(frs) : \A b \in Bytes(frs[i].r) :
          b \in Covered(q) <=> frs[i].present

LEMMA TilingGrows ==
  ASSUME NEW q, NEW e \in Nat, NEW p \in 0 .. e, NEW c \in Piece,
         NEW pr \in BOOLEAN, c.pos = p, End(c) \in p+1 .. e,
         \A b \in Bytes(c) : b \in Covered(q) <=> pr,
         End(c) # e => (End(c) \in Covered(q) <=> ~ pr),
         NEW rest, Tiling(rest, q, End(c), e)
  PROVE  Tiling(<<[r |-> c, present |-> pr]>> \o rest, q, p, e)
<1> DEFINE x == [r |-> c, present |-> pr]
           t == <<x>> \o rest
<1>1. x \in Answers /\ x.r = c /\ x.present = pr
  BY DEF Answers
<1> HIDE DEF x
<1>2. /\ rest \in Seq(Answers) /\ Len(rest) \in Nat
      /\ rest = << >> <=> End(c) = e
      /\ rest # << >> => Len(rest) >= 1 /\ rest[1].r.pos = End(c)
      /\ \A i \in 1 .. Len(rest) : rest[i] \in Answers
  <2>1. /\ rest \in Seq(Answers)
        /\ rest = << >> <=> End(c) = e
        /\ rest # << >> => rest[1].r.pos = End(c)
    BY DEF Tiling
  <2>2. Len(rest) \in Nat /\ (rest # << >> => Len(rest) >= 1)
    BY <2>1, EmptySeq
  <2>3. QED
    BY <2>1, <2>2
<1>3. /\ t \in Seq(Answers) /\ Len(t) = Len(rest) + 1
      /\ t[1] = x
      /\ \A i \in 2 .. Len(t) : t[i] = rest[i-1] /\ i-1 \in 1 .. Len(rest)
      /\ \A i \in 1 .. Len(rest) : t[i+1] = rest[i] /\ i+1 \in 2 .. Len(t)
  <2>1. <<x>> \in Seq(Answers) /\ Len(<<x>>) = 1 /\ <<x>>[1] = x
    BY <1>1
  <2>2. /\ t \in Seq(Answers) /\ Len(t) = 1 + Len(rest)
        /\ \A i \in 1 .. 1 + Len(rest) : t[i] = IF i <= 1 THEN <<x>>[i] ELSE rest[i - 1]
    BY <1>2, <2>1, ConcatProperties
  <2> HIDE DEF t
  <2>3. QED
    BY <1>2, <2>1, <2>2
<1>4. t # << >> /\ p # e
  <2>1. Len(t) # 0
    BY <1>2, <1>3
  <2> HIDE DEF t
  <2>2. QED
    BY <1>3, <2>1, EmptySeq
<1> HIDE DEF t
<1>5. \A b : b \in Bytes(c) <=> b \in Nat /\ p <= b /\ b < End(c)
  BY DEF Bytes
<1>6. ASSUME NEW b
      PROVE  (\E i \in 1 .. Len(t) : b \in Bytes(t[i].r)) <=> b \in Nat /\ p <= b /\ b < e
  <2>1. (\E i \in 1 .. Len(rest) : b \in Bytes(rest[i].r))
           <=> b \in Nat /\ End(c) <= b /\ b < e
    BY DEF Tiling
  <2>2. (\E i \in 1 .. Len(t) : b \in Bytes(t[i].r)) <=>
           b \in Bytes(c) \/ \E i \in 1 .. Len(rest) : b \in Bytes(rest[i].r)
    <3>1. ASSUME NEW i \in 1 .. Len(t), b \in Bytes(t[i].r)
          PROVE  b \in Bytes(c) \/ \E k \in 1 .. Len(rest) : b \in Bytes(rest[k].r)
      <4>1. i = 1 \/ i \in 2 .. Len(t)
        BY <1>2, <1>3
      <4>2. QED
        BY <1>1, <1>3, <3>1, <4>1
    <3>2. ASSUME b \in Bytes(c)
          PROVE  \E i \in 1 .. Len(t) : b \in Bytes(t[i].r)
      <4>1. 1 \in 1 .. Len(t)
        BY <1>2, <1>3
      <4>2. QED
        BY <1>1, <1>3, <3>2, <4>1
    <3>3. ASSUME NEW i \in 1 .. Len(rest), b \in Bytes(rest[i].r)
          PROVE  \E k \in 1 .. Len(t) : b \in Bytes(t[k].r)
      <4>1. t[i+1] = rest[i] /\ i+1 \in 1 .. Len(t)
        BY <1>2, <1>3
      <4>2. QED
        BY <3>3, <4>1
    <3>4. QED
      BY <3>1, <3>2, <3>3
  <2>3. QED
    BY <1>5, <2>1, <2>2
<1>7. ASSUME NEW i \in 2 .. Len(t)
      PROVE  t[i].r.pos = End(t[i-1].r) /\ t[i].present # t[i-1].present
  <2>1. t[i] = rest[i-1] /\ i-1 \in 1 .. Len(rest)
    BY <1>3
  <2>2. CASE i = 2
    <3>1. t[i-1] = x /\ rest # << >> /\ t[i] = rest[1] /\ 1 \in 1 .. Len(rest)
      BY <1>2, <1>3, <2>1, <2>2
    <3>2. rest[1] \in Answers /\ rest[1].r.pos = End(c) /\ End(c) # e
      BY <1>2, <3>1
    <3>3. End(c) \in Bytes(rest[1].r)
      <4>1. rest[1].r \in Piece
        BY <3>2 DEF Answers
      <4>2. QED
        BY <3>2, <4>1 DEF Piece, Bytes, End
    <3>4. End(c) \in Covered(q) <=> rest[1].present
      BY <3>1, <3>3 DEF Tiling
    <3>5. rest[1].present # pr
      BY <3>2, <3>4
    <3>6. QED
      BY <1>1, <3>1, <3>2, <3>5
  <2>3. CASE i # 2
    <3>1. i-1 \in 2 .. Len(rest) /\ i-1 \in 2 .. Len(t)
      BY <1>2, <1>3, <2>1, <2>3
    <3>2. t[i-1] = rest[(i-1)-1]
      BY <1>3, <3>1
    <3>3. /\ rest[i-1].r.pos = End(rest[(i-1)-1].r)
          /\ rest[i-1].present # rest[(i-1)-1].present
      BY <3>1 DEF Tiling
    <3>4. QED
      BY <2>1, <3>2, <3>3
  <2>4. QED
    BY <2>2, <2>3
<1>8. ASSUME NEW i \in 1 .. Len(t), NEW b \in Bytes(t[i].r)
      PROVE  b \in Covered(q) <=> t[i].present
  <2>1. i = 1 \/ i \in 2 .. Len(t)
    BY <1>2, <1>3
  <2>2. CASE i = 1
    BY <1>1, <1>3, <2>2
  <2>3. CASE i \in 2 .. Len(t)
    <3>1. t[i] = rest[i-1] /\ i-1 \in 1 .. Len(rest)
      BY <1>3, <2>3
    <3>2. b \in Bytes(rest[i-1].r)
      BY <3>1
    <3>3. b \in Covered(q) <=> rest[i-1].present
      BY <3>1, <3>2 DEF Tiling
    <3>4. QED
      BY <3>1, <3>3
  <2>4. QED
    BY <2>1, <2>2, <2>3
<1>9. Tiling(t, q, p, e)
  BY <1>1, <1>3, <1>4, <1>6, <1>7, <1>8 DEF Tiling
<1>10. QED
  BY <1>9 DEF t, x

(* FindAll tiles r. *)
LEMMA FindAllIsTiling ==
  ASSUME NEW q, IsList(q), NEW r \in Span
  PROVE  Tiling(FindAll(q, r), q, r.pos, End(r))
<1> DEFINE lo == r.pos
           e == End(r)
           from[p \in r.pos .. End(r)] ==
             IF p = End(r) THEN << >>
             ELSE LET f == Find(q, Rng(p, End(r) - p))
                  IN  <<[r |-> f.curr, present |-> f.present]>>
                        \o (IF IsEmpty(f.next) THEN << >> ELSE from[f.next.pos])
           P(g) == g = [p \in r.pos .. End(r) |->
             IF p = End(r) THEN << >>
             ELSE LET f == Find(q, Rng(p, End(r) - p))
                  IN  <<[r |-> f.curr, present |-> f.present]>>
                        \o (IF IsEmpty(f.next) THEN << >> ELSE g[f.next.pos])]
<1>1. e \in Nat /\ lo \in 0 .. e /\ lo \in Nat /\ (IsEmpty(r) <=> lo = e)
  BY SpanEnd
<1>2. FindAll(q, r) = IF IsEmpty(r) THEN << >> ELSE from[r.pos]
  BY DEF FindAll
<1>3. from = CHOOSE g : P(g)
  BY DEF from
<1>4. \A g : P(g) <=> IsFrom(g, q, lo, e)
  BY DEF IsFrom, Onward
<1>5. P(from)
  <2>1. \E g : IsFrom(g, q, lo, e)
    BY <1>1, FromExists
  <2> HIDE DEF P, from
  <2>2. QED
    BY <1>3, <1>4, <2>1
<1>6. IsFrom(from, q, lo, e)
  <2> HIDE DEF P, from
  <2>1. QED
    BY <1>4, <1>5
<1>7. Tiling(<< >>, q, e, e)
  <2>1. << >> \in Seq(Answers) /\ Len(<< >>) = 0
    OBVIOUS
  <2>2. QED
    BY <1>1, <2>1 DEF Tiling
<1> HIDE DEF from, P
<1> DEFINE S == { n \in Nat : \A m \in 0 .. n : lo <= e - m => Tiling(from[e - m], q, e - m, e) }
<1>8. from[e] = << >>
  <2>1. e \in lo .. e
    BY <1>1
  <2>2. from = [p \in lo .. e |-> Onward(from, q, e, p)]
    BY <1>6 DEF IsFrom
  <2>3. from[e] = Onward(from, q, e, e)
    BY <2>1, <2>2
  <2>4. QED
    BY <2>3 DEF Onward
<1>9. 0 \in S
  <2>1. \A m \in 0 .. 0 : e - m = e
    BY <1>1
  <2>2. QED
    BY <1>7, <1>8, <2>1
<1>10. ASSUME NEW n \in S
       PROVE  n + 1 \in S
  <2>1. n \in Nat /\ \A m \in 0 .. n : lo <= e - m => Tiling(from[e - m], q, e - m, e)
    OBVIOUS
  <2>2. ASSUME lo <= e - (n + 1)
        PROVE  Tiling(from[e - (n + 1)], q, e - (n + 1), e)
    <3>1. PICK p \in lo .. e : p = e - (n + 1) /\ p # e
      BY <1>1, <2>1, <2>2
    <3> DEFINE f == Find(q, Rng(p, e - p))
               rest == IF IsEmpty(f.next) THEN << >> ELSE from[f.next.pos]
    <3>2. from[p] = <<[r |-> f.curr, present |-> f.present]>> \o rest
      BY <1>6, <3>1 DEF IsFrom, Onward
    <3>3. p \in 0 .. e /\ p \in Nat
      BY <1>1
    <3>4. Cut(q, e, p, f)
      BY <1>1, <3>1, <3>3, FindRest
    <3> HIDE DEF f
    <3>5. /\ f.curr \in Piece /\ f.curr.pos = p
          /\ f.present \in BOOLEAN
          /\ \A b \in Bytes(f.curr) : b \in Covered(q) <=> f.present
          /\ End(f.curr) \in p+1 .. e
          /\ IsEmpty(f.next) <=> End(f.curr) = e
          /\ ~ IsEmpty(f.next) => f.next.pos = End(f.curr)
          /\ End(f.curr) # e => (End(f.curr) \in Covered(q) <=> ~ f.present)
      BY <3>4 DEF Cut
    <3>6. Tiling(rest, q, End(f.curr), e)
      <4>1. CASE IsEmpty(f.next)
        BY <1>7, <3>5, <4>1
      <4>2. CASE ~ IsEmpty(f.next)
        <5>1. rest = from[End(f.curr)]
          BY <3>5, <4>2
        <5>2. PICK m \in 0 .. n : e - m = End(f.curr) /\ lo <= e - m
          <6>1. e - End(f.curr) \in 0 .. n /\ e - (e - End(f.curr)) = End(f.curr)
                /\ lo <= End(f.curr)
            BY <1>1, <2>1, <3>1, <3>3, <3>5
          <6>2. QED
            BY <6>1
        <5> HIDE DEF rest
        <5>3. QED
          BY <2>1, <5>1, <5>2
      <4>3. QED
        BY <4>1, <4>2
    <3> HIDE DEF rest
    <3>7. Tiling(<<[r |-> f.curr, present |-> f.present]>> \o rest, q, p, e)
      BY <1>1, <3>3, <3>5, <3>6, TilingGrows
    <3>8. QED
      BY <3>1, <3>2, <3>7
  <2>3. \A m \in 0 .. n+1 : m \in 0 .. n \/ m = n + 1
    BY <2>1
  <2>4. QED
    BY <2>1, <2>2, <2>3
<1>11. \A n \in Nat : n \in S
  <2> HIDE DEF S
  <2>1. S \in SUBSET Nat
    BY DEF S
  <2>2. QED
    BY <1>9, <1>10, <2>1, Induct
<1>12. Tiling(from[lo], q, lo, e)
  <2>1. e - lo \in Nat /\ e - (e - lo) = lo /\ e - lo \in 0 .. e - lo
    BY <1>1
  <2>2. e - lo \in S
    BY <1>11, <2>1
  <2>3. \A m \in 0 .. e - lo : lo <= e - m => Tiling(from[e - m], q, e - m, e)
    BY <2>2
  <2>4. lo <= e - (e - lo) => Tiling(from[e - (e - lo)], q, e - (e - lo), e)
    BY <2>1, <2>3
  <2>5. lo <= lo
    BY <1>1
  <2>6. QED
    BY <2>1, <2>4, <2>5
<1>13. QED
  BY <1>1, <1>2, <1>7, <1>12

-----------------------------------------------------------------------------
(***************************************************************************)
(* The method Intersection of Ranges                                       *)
(***************************************************************************)
(* The loop after one more piece, given the list before it. *)
IsKept(g, frs, m) ==
    g = [k \in 0 .. m |-> IF k = 0 THEN << >>
                          ELSE IF frs[k].present THEN Insert(g[k-1], frs[k].r)
                          ELSE g[k-1]]

LEMMA KeptExists ==
  ASSUME NEW frs, NEW m \in Nat
  PROVE  \E g : IsKept(g, frs, m)
<1> DEFINE Body(g, k) == IF k = 0 THEN << >>
                         ELSE IF frs[k].present THEN Insert(g[k-1], frs[k].r)
                         ELSE g[k-1]
           S == { n \in Nat : \E g : g = [k \in 0 .. n |-> Body(g, k)] }
<1>1. 0 \in S
  <2> DEFINE g == [k \in 0 .. 0 |-> << >>]
  <2>1. g = [k \in 0 .. 0 |-> Body(g, k)]
    OBVIOUS
  <2>2. QED
    BY <2>1
<1>2. ASSUME NEW n \in S
      PROVE  n + 1 \in S
  <2>1. n \in Nat /\ \E g : g = [k \in 0 .. n |-> Body(g, k)]
    OBVIOUS
  <2>2. PICK g : g = [k \in 0 .. n |-> Body(g, k)]
    BY <2>1
  <2> DEFINE h == [k \in 0 .. n+1 |-> IF k = n+1 THEN Body(g, n+1) ELSE g[k]]
  <2>3. \A k \in 0 .. n : h[k] = g[k]
    BY <2>1
  <2>4. h[n+1] = Body(g, n+1)
    BY <2>1
  <2>5. h = [k \in 0 .. n+1 |-> h[k]]
    OBVIOUS
  <2>6. \A k \in 0 .. n : g[k] = Body(g, k)
    BY <2>2
  <2> HIDE DEF h
  <2>7. ASSUME NEW k \in 0 .. n+1
        PROVE  h[k] = Body(h, k)
    <3>1. k = 0 \/ k-1 \in 0 .. n
      BY <2>1
    <3>2. Body(h, k) = Body(g, k)
      <4>1. CASE k = 0
        BY <4>1
      <4>2. CASE k-1 \in 0 .. n
        <5>1. h[k-1] = g[k-1]
          BY <2>3, <4>2
        <5>2. QED
          BY <5>1
      <4>3. QED
        BY <3>1, <4>1, <4>2
    <3> HIDE DEF Body
    <3>3. k \in 0 .. n \/ k = n+1
      BY <2>1
    <3>4. QED
      BY <2>3, <2>4, <2>6, <3>2, <3>3
  <2>8. h = [k \in 0 .. n+1 |-> Body(h, k)]
    <3> HIDE DEF Body
    <3>1. QED
      BY <2>5, <2>7
  <2>9. \E x : x = [k \in 0 .. n+1 |-> Body(x, k)]
    <3> HIDE DEF Body
    <3>1. QED
      BY <2>8
  <2>10. QED
    BY <2>1, <2>9
<1>3. m \in S
  <2> HIDE DEF S
  <2>1. S \in SUBSET Nat
    BY DEF S
  <2>2. QED
    BY <1>1, <1>2, <2>1, Induct
<1>4. QED
  BY <1>3 DEF IsKept

LEMMA EmptyList ==
  IsList(<< >>) /\ Covered(<< >>) = {}
<1>1. << >> \in Seq(Piece) /\ Len(<< >>) = 0
  OBVIOUS
<1>2. QED
  BY <1>1 DEF IsList, Sorted, Covered

(* The list after k pieces holds the bytes of the present ones. *)
LEMMA KeptIsUnion ==
  ASSUME NEW frs \in Seq(Answers), NEW g, IsKept(g, frs, Len(frs))
  PROVE  /\ IsList(g[Len(frs)])
         /\ \A b : b \in Covered(g[Len(frs)]) <=>
               \E j \in 1 .. Len(frs) : frs[j].present /\ b \in Bytes(frs[j].r)
<1> DEFINE Kept(k) == /\ IsList(g[k])
                      /\ \A b : b \in Covered(g[k]) <=>
                           \E j \in 1 .. k : frs[j].present /\ b \in Bytes(frs[j].r)
           S == { n \in Nat : n <= Len(frs) => Kept(n) }
<1>1. /\ Len(frs) \in Nat
      /\ g[0] = << >>
      /\ \A k \in 1 .. Len(frs) : /\ frs[k] \in Answers
                                  /\ g[k] = IF frs[k].present THEN Insert(g[k-1], frs[k].r)
                                            ELSE g[k-1]
  <2>1. Len(frs) \in Nat /\ \A k \in 1 .. Len(frs) : frs[k] \in Answers
    OBVIOUS
  <2>2. g = [k \in 0 .. Len(frs) |->
               IF k = 0 THEN << >>
               ELSE IF frs[k].present THEN Insert(g[k-1], frs[k].r)
               ELSE g[k-1]]
    BY DEF IsKept
  <2>3. g[0] = << >>
    <3>1. 0 \in 0 .. Len(frs)
      BY <2>1
    <3>2. QED
      BY <2>2, <3>1
  <2>4. ASSUME NEW k \in 1 .. Len(frs)
        PROVE  g[k] = IF frs[k].present THEN Insert(g[k-1], frs[k].r) ELSE g[k-1]
    <3>1. k \in 0 .. Len(frs) /\ k # 0
      BY <2>1
    <3>2. QED
      BY <2>2, <3>1
  <2>5. QED
    BY <2>1, <2>3, <2>4
<1>2. 0 \in S
  <2>1. Kept(0)
    BY <1>1, EmptyList
  <2>2. QED
    BY <2>1
<1>3. ASSUME NEW n \in S
      PROVE  n + 1 \in S
  <2> SUFFICES ASSUME n + 1 <= Len(frs)
               PROVE  Kept(n + 1)
    OBVIOUS
  <2>1. n \in Nat /\ n <= Len(frs) /\ Kept(n)
    BY <1>1
  <2>2. PICK k \in 1 .. Len(frs) : k = n + 1 /\ k - 1 = n
    BY <1>1, <2>1
  <2>3. frs[k] \in Answers /\ frs[k].r \in Span
    <3>1. frs[k].r \in Piece
      BY <1>1 DEF Answers
    <3>2. QED
      BY <1>1, <3>1, PieceIsSpan
  <2>4. \A x : x \in 1 .. n+1 <=> x \in 1 .. n \/ x = k
    BY <2>1, <2>2
  <2>5. CASE frs[k].present
    <3>1. g[k] = Insert(g[n], frs[k].r)
      BY <1>1, <2>2, <2>5
    <3>2. IsList(g[k]) /\ Covered(g[k]) = Covered(g[n]) \cup Bytes(frs[k].r)
      BY <2>1, <2>3, <3>1, InsertAdds
    <3>3. ASSUME NEW b
          PROVE  b \in Covered(g[k]) <=>
                   \E j \in 1 .. n+1 : frs[j].present /\ b \in Bytes(frs[j].r)
      <4>1. b \in Covered(g[k]) <=> b \in Covered(g[n]) \/ b \in Bytes(frs[k].r)
        BY <3>2
      <4>2. b \in Covered(g[n]) <=>
              \E j \in 1 .. n : frs[j].present /\ b \in Bytes(frs[j].r)
        BY <2>1
      <4>3. QED
        BY <2>4, <2>5, <4>1, <4>2, Zenon
    <3>4. QED
      BY <2>2, <3>2, <3>3
  <2>6. CASE ~ frs[k].present
    <3>1. g[k] = g[n]
      BY <1>1, <2>2, <2>6
    <3>2. ASSUME NEW b
          PROVE  b \in Covered(g[k]) <=>
                   \E j \in 1 .. n+1 : frs[j].present /\ b \in Bytes(frs[j].r)
      <4>1. b \in Covered(g[n]) <=>
              \E j \in 1 .. n : frs[j].present /\ b \in Bytes(frs[j].r)
        BY <2>1
      <4>2. QED
        BY <2>4, <2>6, <3>1, <4>1, Zenon
    <3>3. QED
      BY <2>1, <2>2, <3>1, <3>2
  <2>7. QED
    BY <2>5, <2>6
<1>4. Len(frs) \in S
  <2> HIDE DEF S
  <2>1. S \in SUBSET Nat
    BY DEF S
  <2>2. QED
    BY <1>1, <1>2, <1>3, <2>1, Induct
<1>5. QED
  BY <1>1, <1>4

(* Intersection keeps the list sorted and exactly the bytes inside r. *)
LEMMA IntersectionKeeps ==
  ASSUME NEW q, IsList(q), NEW r \in Span
  PROVE  /\ IsList(RangesIntersection(q, r))
         /\ Covered(RangesIntersection(q, r)) = Covered(q) \cap Bytes(r)
<1> DEFINE frs == FindAll(q, r)
           kept[k \in 0 .. Len(frs)] ==
             IF k = 0 THEN << >>
             ELSE IF frs[k].present THEN Insert(kept[k-1], frs[k].r)
             ELSE kept[k-1]
           P(g) == g = [k \in 0 .. Len(frs) |->
             IF k = 0 THEN << >>
             ELSE IF frs[k].present THEN Insert(g[k-1], frs[k].r)
             ELSE g[k-1]]
<1>1. RangesIntersection(q, r) = IF q = << >> THEN q ELSE kept[Len(frs)]
  BY DEF RangesIntersection
<1>2. kept = CHOOSE g : P(g)
  BY DEF kept
<1>3. \A g : P(g) <=> IsKept(g, frs, Len(frs))
  BY DEF IsKept
<1>4. Tiling(frs, q, r.pos, End(r))
  BY FindAllIsTiling
<1> HIDE DEF frs
<1>5. frs \in Seq(Answers) /\ Len(frs) \in Nat
  BY <1>4 DEF Tiling
<1>6. IsKept(kept, frs, Len(frs))
  <2>1. \E g : IsKept(g, frs, Len(frs))
    BY <1>5, KeptExists
  <2> HIDE DEF P, kept
  <2>2. QED
    BY <1>2, <1>3, <2>1
<1> HIDE DEF kept, P
<1>7. CASE q = << >>
  BY <1>1, <1>7, EmptyList
<1>8. CASE q # << >>
  <2>1. /\ IsList(kept[Len(frs)])
        /\ \A b : b \in Covered(kept[Len(frs)]) <=>
              \E j \in 1 .. Len(frs) : frs[j].present /\ b \in Bytes(frs[j].r)
    BY <1>5, <1>6, KeptIsUnion
  <2>2. \A b : (\E i \in 1 .. Len(frs) : b \in Bytes(frs[i].r)) <=> b \in Bytes(r)
    <3>1. \A b : b \in Bytes(r) <=> b \in Nat /\ r.pos <= b /\ b < End(r)
      BY SpanEnd
    <3>2. QED
      BY <1>4, <3>1 DEF Tiling
  <2>3. \A i \in 1 .. Len(frs) : \A b \in Bytes(frs[i].r) :
           b \in Covered(q) <=> frs[i].present
    BY <1>4 DEF Tiling
  <2>4. \A b : b \in Covered(kept[Len(frs)]) <=> b \in Covered(q) /\ b \in Bytes(r)
    BY <2>1, <2>2, <2>3, Zenon
  <2>5. QED
    BY <1>1, <1>8, <2>1, <2>4
<1>9. QED
  BY <1>7, <1>8

-----------------------------------------------------------------------------
(***************************************************************************)
(* Size                                                                    *)
(***************************************************************************)
IsSum(g, q, m) == g = [k \in 0 .. m |-> IF k = 0 THEN 0 ELSE g[k-1] + q[k].size]

LEMMA SumExists ==
  ASSUME NEW q, NEW m \in Nat
  PROVE  \E g : IsSum(g, q, m)
<1> DEFINE Body(g, k) == IF k = 0 THEN 0 ELSE g[k-1] + q[k].size
           S == { n \in Nat : \E g : g = [k \in 0 .. n |-> Body(g, k)] }
<1>1. 0 \in S
  <2> DEFINE g == [k \in 0 .. 0 |-> 0]
  <2>1. g = [k \in 0 .. 0 |-> Body(g, k)]
    OBVIOUS
  <2>2. QED
    BY <2>1
<1>2. ASSUME NEW n \in S
      PROVE  n + 1 \in S
  <2>1. n \in Nat /\ \E g : g = [k \in 0 .. n |-> Body(g, k)]
    OBVIOUS
  <2>2. PICK g : g = [k \in 0 .. n |-> Body(g, k)]
    BY <2>1
  <2> DEFINE h == [k \in 0 .. n+1 |-> IF k = n+1 THEN Body(g, n+1) ELSE g[k]]
  <2>3. \A k \in 0 .. n : h[k] = g[k]
    BY <2>1
  <2>4. h[n+1] = Body(g, n+1)
    BY <2>1
  <2>5. h = [k \in 0 .. n+1 |-> h[k]]
    OBVIOUS
  <2>6. \A k \in 0 .. n : g[k] = Body(g, k)
    BY <2>2
  <2> HIDE DEF h
  <2>7. ASSUME NEW k \in 0 .. n+1
        PROVE  h[k] = Body(h, k)
    <3>1. k = 0 \/ k-1 \in 0 .. n
      BY <2>1
    <3>2. Body(h, k) = Body(g, k)
      <4>1. CASE k = 0
        BY <4>1
      <4>2. CASE k-1 \in 0 .. n
        <5>1. h[k-1] = g[k-1]
          BY <2>3, <4>2
        <5>2. QED
          BY <5>1
      <4>3. QED
        BY <3>1, <4>1, <4>2
    <3> HIDE DEF Body
    <3>3. k \in 0 .. n \/ k = n+1
      BY <2>1
    <3>4. QED
      BY <2>3, <2>4, <2>6, <3>2, <3>3
  <2>8. h = [k \in 0 .. n+1 |-> Body(h, k)]
    <3> HIDE DEF Body
    <3>1. QED
      BY <2>5, <2>7
  <2>9. \E x : x = [k \in 0 .. n+1 |-> Body(x, k)]
    <3> HIDE DEF Body
    <3>1. QED
      BY <2>8
  <2>10. QED
    BY <2>1, <2>9
<1>3. m \in S
  <2> HIDE DEF S
  <2>1. S \in SUBSET Nat
    BY DEF S
  <2>2. QED
    BY <1>1, <1>2, <2>1, Induct
<1>4. QED
  BY <1>3 DEF IsSum

(* The sizes of a sorted list add up to the number of its bytes. *)
LEMMA SizeExact ==
  ASSUME NEW q, IsList(q)
  PROVE  SizeOf(q) = Cardinality(Covered(q))
<1> DEFINE sum[k \in 0 .. Len(q)] == IF k = 0 THEN 0 ELSE sum[k-1] + q[k].size
           P(g) == g = [k \in 0 .. Len(q) |-> IF k = 0 THEN 0 ELSE g[k-1] + q[k].size]
           U(n) == UNION { Bytes(q[j]) : j \in 1 .. n }
           S == { n \in Nat : n <= Len(q) => /\ IsFiniteSet(U(n))
                                             /\ sum[n] = Cardinality(U(n)) }
<1>1. SizeOf(q) = sum[Len(q)]
  BY DEF SizeOf
<1>2. /\ Len(q) \in Nat
      /\ \A i \in 1 .. Len(q) : /\ q[i] \in Piece /\ q[i].pos \in Nat
                                /\ End(q[i]) \in Nat /\ q[i].pos < End(q[i])
      /\ \A i, j \in 1 .. Len(q) : i < j => End(q[i]) < q[j].pos
  BY ListElements
<1>3. IsSum(sum, q, Len(q))
  <2>1. sum = CHOOSE g : P(g)
    BY DEF sum
  <2>2. \A g : P(g) <=> IsSum(g, q, Len(q))
    BY DEF IsSum
  <2>3. \E g : IsSum(g, q, Len(q))
    BY <1>2, SumExists
  <2> HIDE DEF P, sum
  <2>4. QED
    BY <2>1, <2>2, <2>3
<1> HIDE DEF sum, P
<1>4. /\ sum[0] = 0
      /\ \A k \in 1 .. Len(q) : sum[k] = sum[k-1] + q[k].size
  <2>1. sum = [k \in 0 .. Len(q) |-> IF k = 0 THEN 0 ELSE sum[k-1] + q[k].size]
    BY <1>3 DEF IsSum
  <2>2. sum[0] = 0
    <3>1. 0 \in 0 .. Len(q)
      BY <1>2
    <3>2. QED
      BY <2>1, <3>1
  <2>3. ASSUME NEW k \in 1 .. Len(q)
        PROVE  sum[k] = sum[k-1] + q[k].size
    <3>1. k \in 0 .. Len(q) /\ k # 0
      BY <1>2
    <3>2. QED
      BY <2>1, <3>1
  <2>4. QED
    BY <2>2, <2>3
<1>5. 0 \in S
  <2>1. U(0) = {}
    OBVIOUS
  <2>2. QED
    BY <1>4, <2>1, FS_EmptySet
<1>6. ASSUME NEW n \in S
      PROVE  n + 1 \in S
  <2> SUFFICES ASSUME n + 1 <= Len(q)
               PROVE  IsFiniteSet(U(n+1)) /\ sum[n+1] = Cardinality(U(n+1))
    OBVIOUS
  <2>1. n \in Nat /\ IsFiniteSet(U(n)) /\ sum[n] = Cardinality(U(n))
    BY <1>2
  <2>2. PICK k \in 1 .. Len(q) : k = n + 1 /\ k - 1 = n
    BY <1>2, <2>1
  <2>3. U(n+1) = U(n) \cup Bytes(q[k])
    <3>1. \A x : x \in 1 .. n+1 <=> x \in 1 .. n \/ x = k
      BY <2>1, <2>2
    <3>2. QED
      BY <3>1
  <2>4. U(n) \cap Bytes(q[k]) = {}
    <3>1. ASSUME NEW j \in 1 .. n, NEW b \in Bytes(q[j]), b \in Bytes(q[k])
          PROVE  FALSE
      <4>1. j \in 1 .. Len(q) /\ j < k
        BY <1>2, <2>1, <2>2
      <4>2. End(q[j]) < q[k].pos /\ q[j].pos \in Nat /\ End(q[j]) \in Nat /\ q[k].pos \in Nat
            /\ End(q[k]) \in Nat
        BY <1>2, <4>1
      <4>3. QED
        BY <3>1, <4>2 DEF Bytes
    <3>2. QED
      BY <3>1
  <2>5. IsFiniteSet(Bytes(q[k])) /\ Cardinality(Bytes(q[k])) = q[k].size /\ q[k].size \in Nat
    <3>1. PICK a \in Nat, s \in Nat : a = q[k].pos /\ s = q[k].size /\ s > 0
      BY <1>2 DEF Piece
    <3>2. Bytes(q[k]) = a .. (a + s) - 1
      BY <3>1 DEF Bytes, End
    <3>3. /\ IsFiniteSet(a .. (a + s) - 1)
          /\ Cardinality(a .. (a + s) - 1)
               = IF a > (a + s) - 1 THEN 0 ELSE ((a + s) - 1) - a + 1
      <4>1. PICK c \in Int : c = (a + s) - 1
        OBVIOUS
      <4>2. /\ IsFiniteSet(a .. c)
            /\ Cardinality(a .. c) = IF a > c THEN 0 ELSE c - a + 1
        <5>1. a \in Int
          OBVIOUS
        <5>2. QED
          BY <5>1, FS_Interval, Zenon
      <4>3. QED
        BY <4>1, <4>2
    <3>4. QED
      BY <3>1, <3>2, <3>3
  <2> HIDE DEF U
  <2>6. /\ IsFiniteSet(U(n) \cup Bytes(q[k]))
        /\ Cardinality(U(n) \cup Bytes(q[k]))
             = Cardinality(U(n)) + Cardinality(Bytes(q[k])) - Cardinality(U(n) \cap Bytes(q[k]))
    BY <2>1, <2>5, FS_Union
  <2>7. Cardinality(U(n)) \in Nat /\ Cardinality({}) = 0
    BY <2>1, FS_CardinalityType, FS_EmptySet
  <2>8. sum[k] = sum[n] + q[k].size
    BY <1>4, <2>2
  <2>9. Cardinality(U(n+1)) = Cardinality(U(n)) + Cardinality(Bytes(q[k])) - 0
    BY <2>3, <2>4, <2>6, <2>7
  <2>10. Cardinality(U(n+1)) = sum[n] + q[k].size
    BY <2>1, <2>5, <2>7, <2>9
  <2>11. QED
    BY <2>2, <2>3, <2>6, <2>8, <2>10
<1>7. Len(q) \in S
  <2> HIDE DEF S
  <2>1. S \in SUBSET Nat
    BY DEF S
  <2>2. QED
    BY <1>2, <1>5, <1>6, <2>1, Induct
<1>8. U(Len(q)) = Covered(q)
  BY DEF Covered
<1>9. Len(q) <= Len(q)
  BY <1>2
<1>10. sum[Len(q)] = Cardinality(U(Len(q)))
  <2> HIDE DEF U
  <2>1. QED
    BY <1>7, <1>9
<1>11. QED
  BY <1>1, <1>8, <1>10

-----------------------------------------------------------------------------
(***************************************************************************)
(* The specification                                                       *)
(***************************************************************************)
(* The list is as the package keeps it, and its bytes are in the file. *)
ListInv == IsList(rs) /\ Covered(rs) \subseteq 0 .. N-1

LEMMA InFile ==
  ASSUME NEW r \in FileRanges
  PROVE  /\ r \in Span
         /\ r.pos \in 0 .. N /\ End(r) \in 0 .. N
         /\ Bytes(r) = r.pos .. End(r) - 1
         /\ Bytes(r) \subseteq 0 .. N-1
BY NAssumption DEF FileRanges, Span, End, Bytes

(* ListInv gives the type of the list and its form. *)
LEMMA ListIsTyped ==
  ASSUME ListInv
  PROVE  TypeOK /\ Canonical
<1>1. IsList(rs) /\ rs \in Seq(Piece)
  BY DEF ListInv, IsList
<1>2. ASSUME NEW i \in 1 .. Len(rs)
      PROVE  rs[i] \in [pos : 0 .. N, size : 1 .. N] /\ End(rs[i]) <= N
  <2>1. rs[i] \in Piece /\ rs[i].pos \in Nat /\ rs[i].size \in Nat \ {0}
    <3>1. rs[i] \in Piece
      BY <1>1
    <3>2. QED
      BY <3>1 DEF Piece
  <2>2. PICK a \in Nat, s \in Nat : a = rs[i].pos /\ s = rs[i].size /\ s > 0
    BY <2>1
  <2>3. End(rs[i]) = a + s
    BY <2>2 DEF End
  <2>4. (a + s) - 1 \in Bytes(rs[i])
    BY <2>2, <2>3 DEF Bytes
  <2>5. (a + s) - 1 \in Covered(rs)
    BY <2>4 DEF Covered
  <2>6. (a + s) - 1 \in 0 .. N-1
    BY <2>5 DEF ListInv
  <2>7. a \in 0 .. N /\ s \in 1 .. N /\ a + s <= N
    BY <2>2, <2>6, NAssumption
  <2>8. QED
    BY <2>1, <2>2, <2>3, <2>7 DEF Piece
<1>3. rs \in Seq([pos : 0 .. N, size : 1 .. N])
  <2>1. Len(rs) \in Nat
    BY <1>1
  <2>2. SubSeq(rs, 1, Len(rs)) \in Seq([pos : 0 .. N, size : 1 .. N])
    BY <1>2, <2>1, SubSeqProperties
  <2>3. QED
    BY <1>1, <2>2, SubSeqFull
<1>4. DOMAIN rs = 1 .. Len(rs)
  BY <1>1
<1>5. QED
  BY <1>1, <1>2, <1>3, <1>4 DEF TypeOK, Canonical, IsList

(* One step: the list keeps its form, and its bytes change as ByteSet says. *)
LEMMA StepIsExact ==
  ASSUME ListInv, NEW r \in FileRanges
  PROVE  /\ InsertRange(r) => ListInv' /\ Covered(rs') = Covered(rs) \cup Bytes(r)
         /\ KeepWindow(r) => ListInv' /\ Covered(rs') = Covered(rs) \cap Bytes(r)
<1>1. r \in Span /\ Bytes(r) \subseteq 0 .. N-1
  BY InFile
<1>2. IsList(rs) /\ Covered(rs) \subseteq 0 .. N-1
  BY DEF ListInv
<1>3. ASSUME InsertRange(r)
      PROVE  ListInv' /\ Covered(rs') = Covered(rs) \cup Bytes(r)
  <2>1. IsList(rs') /\ Covered(rs') = Covered(rs) \cup Bytes(r)
    BY <1>1, <1>2, <1>3, InsertAdds DEF InsertRange
  <2>2. QED
    BY <1>1, <1>2, <2>1 DEF ListInv
<1>4. ASSUME KeepWindow(r)
      PROVE  ListInv' /\ Covered(rs') = Covered(rs) \cap Bytes(r)
  <2>1. IsList(rs') /\ Covered(rs') = Covered(rs) \cap Bytes(r)
    BY <1>1, <1>2, <1>4, IntersectionKeeps DEF KeepWindow
  <2>2. QED
    BY <1>2, <2>1 DEF ListInv
<1>5. QED
  BY <1>3, <1>4

LEMMA ListInvInit ==
  ASSUME Init
  PROVE  ListInv
BY EmptyList DEF Init, ListInv

LEMMA ListInvNext ==
  ASSUME ListInv, [Next]_rs
  PROVE  ListInv'
<1>1. CASE Next
  <2>1. PICK r \in FileRanges : InsertRange(r) \/ KeepWindow(r)
    BY <1>1 DEF Next
  <2>2. QED
    BY <2>1, StepIsExact
<1>2. CASE UNCHANGED rs
  BY <1>2 DEF ListInv
<1>3. QED
  BY <1>1, <1>2

(***************************************************************************)
(* The list stays as ListInv says, whatever is inserted and cut away.      *)
(***************************************************************************)
THEOREM ListStays == Spec => []ListInv
BY ListInvInit, ListInvNext, PTL DEF Spec

(***************************************************************************)
(* Every piece of the list lies in the file and is not empty: Insert       *)
(* drops empty ranges, merge and Intersection never make one.              *)
(***************************************************************************)
THEOREM RangeTypes == Spec => []TypeOK
<1>1. ListInv => TypeOK
  BY ListIsTyped
<1>2. QED
  BY <1>1, ListStays, PTL

(***************************************************************************)
(* The list is always sorted and coalesced: Insert and coalesce join the   *)
(* new range with every piece it touches, before it and after it.          *)
(***************************************************************************)
THEOREM ListIsCanonical == Spec => []Canonical
<1>1. ListInv => Canonical
  BY ListIsTyped
<1>2. QED
  BY <1>1, ListStays, PTL

(* A tiling, in the words of FindAllTiles. *)
LEMMA TilingIsExact ==
  ASSUME NEW r \in Span, NEW frs, Tiling(frs, rs, r.pos, End(r))
  PROVE  /\ UNION { Bytes(frs[i].r) : i \in DOMAIN frs } = Bytes(r)
         /\ \A i \in DOMAIN frs :
               /\ ~ IsEmpty(frs[i].r)
               /\ i = 1 => frs[i].r.pos = r.pos
               /\ i > 1 => /\ frs[i].r.pos = End(frs[i-1].r)
                           /\ frs[i].present # frs[i-1].present
               /\ IF frs[i].present
                  THEN Bytes(frs[i].r) \subseteq Covered(rs)
                  ELSE Bytes(frs[i].r) \cap Covered(rs) = {}
<1>1. /\ frs \in Seq(Answers) /\ Len(frs) \in Nat /\ DOMAIN frs = 1 .. Len(frs)
      /\ \A i \in 1 .. Len(frs) : frs[i] \in Answers
  BY DEF Tiling
<1>2. \A b : b \in Bytes(r) <=> b \in Nat /\ r.pos <= b /\ b < End(r)
  BY SpanEnd
<1>3. \A b : (\E i \in 1 .. Len(frs) : b \in Bytes(frs[i].r)) <=> b \in Bytes(r)
  BY <1>2 DEF Tiling
<1>4. UNION { Bytes(frs[i].r) : i \in DOMAIN frs } = Bytes(r)
  BY <1>1, <1>3
<1>5. ASSUME NEW i \in 1 .. Len(frs)
      PROVE  /\ ~ IsEmpty(frs[i].r)
             /\ i = 1 => frs[i].r.pos = r.pos
             /\ i > 1 => /\ frs[i].r.pos = End(frs[i-1].r)
                         /\ frs[i].present # frs[i-1].present
             /\ IF frs[i].present
                THEN Bytes(frs[i].r) \subseteq Covered(rs)
                ELSE Bytes(frs[i].r) \cap Covered(rs) = {}
  <2>1. ~ IsEmpty(frs[i].r)
    <3>1. frs[i].r \in Piece
      BY <1>1 DEF Answers
    <3>2. QED
      BY <3>1, PieceIsSpan
  <2>2. i = 1 => frs[i].r.pos = r.pos
    <3>1. frs # << >>
      BY <1>1
    <3>2. QED
      BY <3>1 DEF Tiling
  <2>3. ASSUME i > 1
        PROVE  frs[i].r.pos = End(frs[i-1].r) /\ frs[i].present # frs[i-1].present
    <3>1. i \in 2 .. Len(frs)
      BY <1>1, <2>3
    <3>2. QED
      BY <3>1 DEF Tiling
  <2>4. \A b \in Bytes(frs[i].r) : b \in Covered(rs) <=> frs[i].present
    BY DEF Tiling
  <2>5. QED
    BY <2>1, <2>2, <2>3, <2>4
<1>6. QED
  BY <1>1, <1>4, <1>5

(***************************************************************************)
(* Present, FindMissing, FindAll and Size answer as the set of covered     *)
(* bytes would, for every range inside the file.                           *)
(***************************************************************************)
THEOREM QueriesAnswerTheSet == Spec => []QueriesAreExact
<1>1. ASSUME ListInv
      PROVE  QueriesAreExact
  <2>1. IsList(rs)
    BY <1>1 DEF ListInv
  <2>2. PresentIsExact
    BY <2>1, InFile, PresentExact DEF PresentIsExact
  <2>3. FindMissingIsExact
    <3>1. \A r \in FileRanges : DropsCovered(rs, r, FindMissing(rs, r))
      BY <2>1, InFile, FindMissingExact
    <3>2. QED
      BY <3>1 DEF FindMissingIsExact, DropsCovered
  <2>4. FindAllTiles
    <3>1. \A r \in FileRanges : r \in Span /\ Tiling(FindAll(rs, r), rs, r.pos, End(r))
      BY <2>1, InFile, FindAllIsTiling
    <3>2. QED
      BY <3>1, TilingIsExact, Zenon DEF FindAllTiles
  <2>5. SizeIsExact
    BY <2>1, SizeExact DEF SizeIsExact
  <2>6. QED
    BY <2>2, <2>3, <2>4, <2>5 DEF QueriesAreExact
<1>2. QED
  BY <1>1, ListStays, PTL

(***************************************************************************)
(* InsertRange(r) adds the bytes of r and no other, KeepWindow(r) keeps    *)
(* the bytes of r and no other.                                            *)
(***************************************************************************)
THEOREM StepsChangeTheSet == Spec => StepsAreExact
<1> DEFINE A == \A r \in FileRanges :
                   /\ InsertRange(r) => Abstract!Add(r.pos, End(r))
                   /\ KeepWindow(r) => Abstract!Keep(r.pos, End(r))
<1>1. ASSUME ListInv
      PROVE  A
  <2>1. ASSUME NEW r \in FileRanges
        PROVE  /\ InsertRange(r) => Abstract!Add(r.pos, End(r))
               /\ KeepWindow(r) => Abstract!Keep(r.pos, End(r))
    BY <1>1, StepIsExact, InFile DEF Abstract!Add, Abstract!Keep
  <2>2. QED
    BY <2>1
<1>2. QED
  BY <1>1, ListStays, PTL DEF StepsAreExact

(***************************************************************************)
(* The list implements a set of bytes.                                     *)
(***************************************************************************)
THEOREM ListImplementsSet == Spec => ImplementsByteSet
<1>1. Init => Abstract!Init
  BY EmptyList DEF Init, Abstract!Init
<1>2. ASSUME ListInv, [Next]_rs
      PROVE  [Abstract!Next]_(Covered(rs))
  <2>1. CASE Next
    <3>1. PICK r \in FileRanges : InsertRange(r) \/ KeepWindow(r)
      BY <2>1 DEF Next
    <3>2. /\ r.pos \in 0 .. N /\ End(r) \in 0 .. N
          /\ Bytes(r) = r.pos .. End(r) - 1
      BY InFile
    <3>3. Abstract!Add(r.pos, End(r)) \/ Abstract!Keep(r.pos, End(r))
      BY <1>2, <3>1, <3>2, StepIsExact DEF Abstract!Add, Abstract!Keep
    <3>4. QED
      BY <3>2, <3>3 DEF Abstract!Next
  <2>2. CASE UNCHANGED rs
    BY <2>2
  <2>3. QED
    BY <1>2, <2>1, <2>2
<1>3. QED
  BY <1>1, <1>2, ListStays, PTL DEF Spec, ImplementsByteSet, Abstract!Spec

============================================================================
