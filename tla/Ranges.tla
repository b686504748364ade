------------------------------- MODULE Ranges -------------------------------
(***************************************************************************)
(* The arithmetic of package ranges (src/ranges/ranges.go): one byte range *)
(* and the sorted, coalesced list of ranges that records which bytes of a  *)
(* sparse cache file are valid.                                            *)
(*                                                                         *)
(* A Go slice with indexes 0 .. len-1 is a TLA+ sequence with indexes      *)
(* 1 .. Len, so every index below is one more than in the source.  Loops   *)
(* are recursive functions over the index (or position) they advance.      *)
(* Positions are mathematical integers: the cache refuses negative ranges  *)
(* and clips every range to the object's size, so int64 never wraps.       *)
(***************************************************************************)
EXTENDS Integers, Sequences

(***************************************************************************)
(* One range                                                               *)
(***************************************************************************)
Rng(pos, size) == [pos |-> pos, size |-> size]

NoRange == Rng(0, 0)

End(r) == r.pos + r.size

IsEmpty(r) == r.size <= 0

MaxOf(a, b) == IF a >= b THEN a ELSE b
MinOf(a, b) == IF a <= b THEN a ELSE b

Clip(r, offset) ==
    LET size == r.size - (End(r) - offset)
    IN  IF End(r) <= offset THEN r
        ELSE IF size < 0 THEN NoRange
        ELSE Rng(r.pos, size)

Intersection(r, b) ==
    IF \/ r.pos >= b.pos /\ r.pos < End(b)
       \/ b.pos >= r.pos /\ b.pos < End(r)
    THEN Rng(MaxOf(r.pos, b.pos),
             MinOf(End(r), End(b)) - MaxOf(r.pos, b.pos))
    ELSE NoRange

(***************************************************************************)
(* merge(new, dst): its result, and what it leaves in *dst when it is TRUE *)
(***************************************************************************)
CanMerge(new, dst) == ~ (End(new) < dst.pos)

\* Mutant of Merged: dst moves to the start of new without growing.
MergedKeepsSize(new, dst) ==
    Rng(new.pos, IF End(new) > End(dst) THEN new.size ELSE dst.size)

Merged(new, dst) ==
    Rng(new.pos, IF End(new) > End(dst) THEN new.size
                 ELSE dst.size + (dst.pos - new.pos))

(***************************************************************************)
(* coalesce(i): the element at i absorbs its predecessor if it reaches it, *)
(* then is merged forward into each successor it reaches.  acc[j] is what  *)
(* ranges[j] holds once the loop has merged everything from i up to j.     *)
(***************************************************************************)
Coalesce(rs, i) ==
    LET mergePrev == i > 1 /\ CanMerge(rs[i-1], rs[i])
        startChop == IF mergePrev THEN i - 1 ELSE i
        acc[j \in i .. Len(rs)] ==
            IF j > i THEN Merged(acc[j-1], rs[j])
            ELSE IF mergePrev THEN Merged(rs[i-1], rs[i])
            ELSE rs[i]
        endChop == CHOOSE j \in i .. Len(rs) :
                      /\ \A k \in i .. j-1 : CanMerge(acc[k], rs[k+1])
                      /\ j < Len(rs) => ~ CanMerge(acc[j], rs[j+1])
    IN  SubSeq(rs, 1, startChop - 1) \o <<acc[endChop]>>
            \o SubSeq(rs, endChop + 1, Len(rs))

(***************************************************************************)
(* search: sort.Search, the least index whose range starts at or after r,  *)
(* or one past the end.  rs is sorted by pos wherever it is called.        *)
(***************************************************************************)
Search(rs, r) ==
    CHOOSE i \in 1 .. Len(rs) + 1 :
       /\ \A k \in 1 .. i-1 : rs[k].pos < r.pos
       /\ i <= Len(rs) => rs[i].pos >= r.pos

\* Mutant of Insert: the new element is not coalesced with its neighbours.
InsertForgetsPrevious(rs, r) ==
    LET i == Search(rs, r)
    IN  IF IsEmpty(r) THEN rs
        ELSE IF i <= Len(rs) /\ CanMerge(r, rs[i])
             THEN [rs EXCEPT ![i] = Merged(r, rs[i])]
             ELSE SubSeq(rs, 1, i - 1) \o <<r>> \o SubSeq(rs, i, Len(rs))

\* Mutant of Insert: empty ranges are inserted too.
InsertEmptyToo(rs, r) ==
    LET i == Search(rs, r)
    IN  SubSeq(rs, 1, i - 1) \o <<r>> \o SubSeq(rs, i, Len(rs))

Insert(rs, r) ==
    LET i == Search(rs, r)
        placed == IF i <= Len(rs) /\ CanMerge(r, rs[i])
                  THEN [rs EXCEPT ![i] = Merged(r, rs[i])]
                  ELSE SubSeq(rs, 1, i - 1) \o <<r>> \o SubSeq(rs, i, Len(rs))
    IN  IF IsEmpty(r) THEN rs
        ELSE IF rs = << >> THEN <<r>>
        ELSE Coalesce(placed, i)

(***************************************************************************)
(* Find: the first piece of r, wholly present or wholly absent, and the    *)
(* rest of r to ask for next.                                              *)
(***************************************************************************)
Found(curr, next, present) ==
    [curr |-> curr, next |-> next, present |-> present]

After(r, piece) == Rng(End(piece), r.size - piece.size)

Find(rs, r) ==
    LET i    == Search(rs, r)
        prev == Intersection(rs[i-1], r)
        here == Intersection(rs[i], r)
    IN  IF IsEmpty(r)
        THEN Found(r, NoRange, FALSE)
        ELSE IF i > 1 /\ ~ IsEmpty(prev)
        THEN Found(prev, After(r, prev), TRUE)
        ELSE IF i > Len(rs) \/ IsEmpty(here)
        THEN Found(r, NoRange, FALSE)
        ELSE IF r.pos < here.pos
        THEN LET gap == Rng(r.pos, here.pos - r.pos)
             IN  Found(gap, After(r, gap), FALSE)
        ELSE Found(here, After(r, here), TRUE)

(***************************************************************************)
(* FindAll: the loop calls Find with next until it is empty.  Every next   *)
(* ends where r ends, so the pieces from p on are a function of p alone.   *)
(***************************************************************************)
FindAll(rs, r) ==
    LET from[p \in r.pos .. End(r)] ==
            IF p = End(r) THEN << >>
            ELSE LET f == Find(rs, Rng(p, End(r) - p))
                 IN  <<[r |-> f.curr, present |-> f.present]>>
                       \o (IF IsEmpty(f.next) THEN << >> ELSE from[f.next.pos])
    IN  IF IsEmpty(r) THEN << >> ELSE from[r.pos]

\* Mutant of Present: the first piece decides.
PresentIgnoresRest(rs, r) == IsEmpty(r) \/ Find(rs, r).present

Present(rs, r) ==
    \/ IsEmpty(r)
    \/ LET f == Find(rs, r) IN f.present /\ IsEmpty(f.next)

(***************************************************************************)
(* The method Intersection of Ranges: the pieces of r that Find reports    *)
(* present, inserted one after the other into a new list.                  *)
(***************************************************************************)
\* Mutant of RangesIntersection: absent pieces are inserted too.
IntersectionKeepsGaps(rs, r) ==
    LET pieces == FindAll(rs, r)
        kept[k \in 0 .. Len(pieces)] ==
            IF k = 0 THEN << >> ELSE Insert(kept[k-1], pieces[k].r)
    IN  IF rs = << >> THEN rs ELSE kept[Len(pieces)]

RangesIntersection(rs, r) ==
    LET pieces == FindAll(rs, r)
        kept[k \in 0 .. Len(pieces)] ==
            IF k = 0 THEN << >>
            ELSE IF pieces[k].present THEN Insert(kept[k-1], pieces[k].r)
            ELSE kept[k-1]
    IN  IF rs = << >> THEN rs ELSE kept[Len(pieces)]

SizeOf(rs) ==
    LET sum[k \in 0 .. Len(rs)] == IF k = 0 THEN 0 ELSE sum[k-1] + rs[k].size
    IN  sum[Len(rs)]

FindMissing(rs, r) ==
    LET f == Find(rs, r)
    IN  IF IsEmpty(r) \/ ~ f.present THEN r
        ELSE Rng(End(f.curr), r.size - (End(f.curr) - r.pos))

(***************************************************************************)
(* What the operators are about: the bytes a range and a list of ranges    *)
(* stand for, and the form the package keeps its lists in.                 *)
(***************************************************************************)
Bytes(r) == r.pos .. End(r) - 1

Covered(rs) == UNION { Bytes(rs[i]) : i \in 1 .. Len(rs) }

Sorted(rs) ==
    \A i, j \in 1 .. Len(rs) : i < j => End(rs[i]) < rs[j].pos

=============================================================================
