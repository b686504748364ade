------------------------------ MODULE RangeSet ------------------------------
(***************************************************************************)
(* A value of type ranges.Ranges over its life in the cache: downloaded    *)
(* pieces are inserted in any order (Item.WriteAtNoOverwrite) and the list *)
(* is cut to a window when the data file is truncated (Item.openLocked).   *)
(* Every query the cache asks is compared with the bytes the list covers.  *)
(***************************************************************************)
EXTENDS Ranges, FiniteSets

CONSTANT N   \* the apparent size of the file: positions are 0 .. N-1

ASSUME NAssumption == N \in Nat

VARIABLE rs

(***************************************************************************)
(* The ranges callers pass: inside the file, possibly empty.               *)
(***************************************************************************)
FileRanges == { r \in [pos : 0 .. N, size : 0 .. N] : End(r) <= N }

Init == rs = << >>

InsertRange(r) == rs' = Insert(rs, r)

KeepWindow(r) == rs' = RangesIntersection(rs, r)

Next == \E r \in FileRanges : InsertRange(r) \/ KeepWindow(r)

Spec == Init /\ [][Next]_rs

-----------------------------------------------------------------------------
(***************************************************************************)
(* rs is a list of pieces of the file, none of them empty.                 *)
(***************************************************************************)
TypeOK == /\ rs \in Seq([pos : 0 .. N, size : 1 .. N])
          /\ \A i \in DOMAIN rs : End(rs[i]) <= N

(***************************************************************************)
(* ranges.go:51-53, "kept sorted and coalesced to the minimum size": two   *)
(* pieces never touch, after any mix of insertions (in front, behind,      *)
(* bridging several pieces) and truncations.                               *)
(***************************************************************************)
Canonical == Sorted(rs)

(***************************************************************************)
(* Present says yes exactly when every byte asked for is covered: a wrong  *)
(* yes makes Item.readAtOnce return sparse zeros, a wrong no a pointless   *)
(* download (Item.ensureLocked, Item.HasRange).                            *)
(***************************************************************************)
PresentIsExact ==
    \A r \in FileRanges : Present(rs, r) <=> Bytes(r) \subseteq Covered(rs)

(***************************************************************************)
(* FindMissing keeps the end of the request and drops only covered bytes:  *)
(* what it returns is empty or starts with a byte that must be fetched     *)
(* (Downloaders._ensureDownloader starts a downloader there).  A range of  *)
(* which nothing is present comes back whole, as ranges_test.go:816-821    *)
(* and the caller have it; the comment at ranges.go:262-263, which has an  *)
(* empty block returned then, is contradicted by the code.                 *)
(***************************************************************************)
FindMissingIsExact ==
    \A r \in FileRanges :
        LET out == FindMissing(rs, r)
        IN  /\ End(out) = End(r)
            /\ Bytes(r) \ Bytes(out) \subseteq Covered(rs)
            /\ ~ IsEmpty(out) => out.pos \notin Covered(rs)

(***************************************************************************)
(* FindAll cuts r into consecutive pieces that alternate between wholly    *)
(* covered and wholly absent: the loop of Item.WriteAtNoOverwrite relies   *)
(* on each piece starting where the last one ended, and overwrites nothing *)
(* only if no absent piece holds a covered byte.                           *)
(***************************************************************************)
FindAllTiles ==
    \A r \in FileRanges :
        LET frs == FindAll(rs, r)
        IN  /\ UNION { Bytes(frs[i].r) : i \in DOMAIN frs } = Bytes(r)
            /\ \A i \in DOMAIN frs :
                  /\ ~ IsEmpty(frs[i].r)
                  /\ i = 1 => frs[i].r.pos = r.pos
                  /\ i > 1 => /\ frs[i].r.pos = End(frs[i-1].r)
                              /\ frs[i].present # frs[i-1].present
                  /\ IF frs[i].present
                     THEN Bytes(frs[i].r) \subseteq Covered(rs)
                     ELSE Bytes(frs[i].r) \cap Covered(rs) = {}

(***************************************************************************)
(* Size counts each covered byte once: the cleaner compares the sum of the *)
(* sizes of all items with the quota (Cache.snapshotCandidates, clean).    *)
(***************************************************************************)
SizeIsExact == SizeOf(rs) = Cardinality(Covered(rs))

(***************************************************************************)
(* Every question the cache asks of the list is answered as the set of     *)
(* bytes it stands for would answer it.                                    *)
(***************************************************************************)
QueriesAreExact ==
    PresentIsExact /\ FindMissingIsExact /\ FindAllTiles /\ SizeIsExact

(***************************************************************************)
(* The list implements a set of bytes: Insert adds exactly the bytes of    *)
(* its argument, Intersection keeps exactly the bytes of its window.       *)
(***************************************************************************)
Abstract == INSTANCE ByteSet WITH bytes <- Covered(rs)
ImplementsByteSet == Abstract!Spec

(***************************************************************************)
(* The same with the arguments: inserting r adds the bytes of r and no     *)
(* other, whichever pieces r touches, bridges or swallows; a truncation    *)
(* to r keeps the bytes of r and no other.                                 *)
(***************************************************************************)
StepsAreExact ==
    [][\A r \in FileRanges :
         /\ InsertRange(r) => Abstract!Add(r.pos, End(r))
         /\ KeepWindow(r) => Abstract!Keep(r.pos, End(r))]_rs
=============================================================================
