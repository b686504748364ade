-------------------------- MODULE SchedulerProofs --------------------------
(***************************************************************************)
(* Proofs about Scheduler, for every number of readers, downloaders and    *)
(* blocks, every request and every setting of the windows.                 *)
(***************************************************************************)
EXTENDS Scheduler, WellFoundedInduction, TLAPS

-----------------------------------------------------------------------------
(***************************************************************************)
(* Item.FindMissing and what _ensureDownloader makes of it.                *)
(***************************************************************************)

(* The least-number principle, for sets. *)
LEMMA LeastElement ==
  ASSUME NEW S \in SUBSET Nat, S # {}
  PROVE  \E x \in S : \A y \in S : x <= y
<1> DEFINE R == OpToRel(<, Nat)
<1>1. R = { p \in Nat \X Nat : p[1] < p[2] }
  BY DEF OpToRel
<1>2. IsWellFoundedOn(R, Nat)
  BY NatLessThanWellFounded, Zenon
<1> HIDE DEF R
<1>3. PICK x \in S : \A y \in S : ~ (<<y, x>> \in R)
  BY <1>2, WFMin
<1>4. ASSUME NEW y \in Nat, NEW z \in Nat, y < z
      PROVE  <<y, z>> \in R
  BY <1>1, <1>4
<1>5. ASSUME NEW y \in S
      PROVE  x <= y
  <2>1. ~ (y < x)
    BY <1>3, <1>4
  <2>2. QED
    BY <2>1
<1>6. QED
  BY <1>5

(* Item.FindMissing finds the first missing block: everything before is cached. *)
LEMMA FirstMissingIsFirst ==
  ASSUME NEW pos \in Nat, NEW end \in Nat, pos <= end
  PROVE  /\ FirstMissing(pos, end) \in pos .. end
         /\ pos .. FirstMissing(pos, end) - 1 \subseteq present
         /\ FirstMissing(pos, end) = end \/ FirstMissing(pos, end) \notin present
<1> DEFINE S == { q \in pos .. end : q = end \/ q \notin present }
           P(q) == /\ pos .. q-1 \subseteq present
                   /\ q = end \/ q \notin present
<1>1. S \in SUBSET Nat /\ S # {}
  <2>1. end \in S
    OBVIOUS
  <2>2. QED
    BY <2>1
<1>2. PICK q \in S : \A y \in S : q <= y
  <2> HIDE DEF S
  <2>1. QED
    BY <1>1, LeastElement
<1>3. ASSUME NEW b \in pos .. q-1
      PROVE  b \in present
  BY <1>2
<1>4. q \in pos .. end /\ P(q)
  BY <1>3
<1>5. FirstMissing(pos, end) = CHOOSE x \in pos .. end : P(x)
  BY DEF FirstMissing
<1>6. FirstMissing(pos, end) \in pos .. end /\ P(FirstMissing(pos, end))
  <2> HIDE DEF P
  <2>1. QED
    BY <1>4, <1>5
<1>7. QED
  BY <1>6

MissState == [pos : Nat, size : Nat, startNew : BOOLEAN]

(* A range to fetch is inside the object. *)
Fetchable(m) == m.size > 0 => m.pos + m.size <= Size

(* What FindMissing returns lies in the object. *)
LEMMA FindMissingType ==
  ASSUME NEW pos \in Nat, NEW end \in Nat
  PROVE  FindMissing(pos, end).pos \in Nat /\ FindMissing(pos, end).end \in 0 .. Size
BY ConstantsAssumption, FirstMissingIsFirst DEF FindMissing

(* So does what _ensureDownloader makes of it. *)
LEMMA ToFetchType ==
  ASSUME NEW pos \in Nat, NEW size \in Nat
  PROVE  ToFetch(pos, size) \in MissState /\ Fetchable(ToFetch(pos, size))
<1> DEFINE m == FindMissing(pos, pos + size + ReadAhead)
           w == FindMissing(m.pos, m.pos + Window)
<1>1. m.pos \in Nat /\ m.end \in 0 .. Size
  BY FindMissingType, ConstantsAssumption
<1>2. w.pos \in Nat /\ w.end \in 0 .. Size
  <2> HIDE DEF m
  <2>1. QED
    BY <1>1, FindMissingType, ConstantsAssumption
<1>3. ToFetch(pos, size) =
        IF m.pos < m.end
        THEN [pos |-> m.pos, size |-> m.end - m.pos, startNew |-> TRUE]
        ELSE IF w.pos < w.end
        THEN [pos |-> w.pos, size |-> 0, startNew |-> TRUE]
        ELSE [pos |-> m.pos + Window, size |-> 0, startNew |-> FALSE]
  BY DEF ToFetch
<1> HIDE DEF m, w
<1>4. QED
  BY <1>1, <1>2, <1>3, ConstantsAssumption DEF MissState, Fetchable

-----------------------------------------------------------------------------
(***************************************************************************)
(* Types.  A stream moves past the end of the object only if Write is      *)
(* handed a block there: the block an idle Write holds was read when the   *)
(* offset was below Size, and the offset does not move while it waits.     *)
(***************************************************************************)
BufInv ==
    \A d \in Ids : dl[d].pc \in {"idle", "put"} /\ dl[d].buf = "data"
                       => dl[d].offset < Size

TInv == TypeOK /\ BufInv /\ Fetchable(miss)

(* What a step of one downloader must show. *)
DlOK(r) == r \in DlState /\ (r.pc \in {"idle", "put"} /\ r.buf = "data"
                                => r.offset < Size)

(* An update of one stream keeps the others. *)
LEMMA OneDl ==
  ASSUME TInv, NEW d \in Ids, NEW r, DlOK(r), dl' = [dl EXCEPT ![d] = r]
  PROVE  dl' \in [Ids -> DlState] /\ BufInv'
BY DEF TInv, TypeOK, BufInv, DlOK

(* The records of a goroutine that has closed, counted its error, exited. *)
LEMMA GoneOK ==
  /\ \A err \in Errors \cup {"abandoned"}, wrote \in BOOLEAN :
        DlOK([Gone EXCEPT !.pc = "count", !.err = err, !.wrote = wrote])
  /\ DlOK([Gone EXCEPT !.pc = "final"])
  /\ DlOK(Gone)
<1>1. 0 \in 0 .. Size /\ 0 \in 0 .. MaxSkip + 1 /\ 0 \in Nat
  BY ConstantsAssumption
<1>2. Gone \in DlState
  BY <1>1, Zenon DEF DlState, Gone, Errors
<1>3. Gone.pc = "gone"
  BY DEF Gone
<1>4. QED
  BY <1>2, <1>3 DEF DlOK, DlState

(* The steps of a stream keep the types. *)
LEMMA DlNextType ==
  ASSUME TInv, NEW d \in Ids, DlNext(d)
  PROVE  TInv'
<1> USE ConstantsAssumption DEF TInv, TypeOK, BufInv
<1>1. dl[d] \in DlState
  OBVIOUS
<1>2. ASSUME NEW r, DlOK(r), DlStep(d, r), present' \subseteq Blocks
      PROVE  TInv'
  <2>1. dl' \in [Ids -> DlState] /\ BufInv'
    BY <1>2, OneDl DEF DlStep
  <2>2. QED
    BY <1>2, <2>1 DEF DlStep, lockVars, errVars, closeVars, Fetchable
<1>3. ASSUME NEW buf \in {"data", "eof", "err"}, NEW n \in {0, 1},
             NEW skipped \in 0 .. n, NEW e \in Errors,
             dl[d].offset + n <= Size
      PROVE  DlOK(AfterWrite(d, buf, n, skipped, e))
  <2> DEFINE total == IF skipped # n THEN 0
                      ELSE IF dl[d].skipped + skipped > MaxSkip THEN MaxSkip + 1
                      ELSE dl[d].skipped + skipped
             stop  == dl[d].stop \/ total > MaxSkip
             err   == IF stop /\ ~ Buffered THEN "abandoned"
                      ELSE IF buf = "err" THEN "io" ELSE e
             wrote == dl[d].wrote \/ n > 0
             pc    == IF n > 0 THEN "kick"
                      ELSE IF err # "nil" \/ buf = "eof" THEN "close"
                      ELSE "read"
  <2>1. total \in 0 .. MaxSkip + 1
    BY <1>1 DEF DlState
  <2>2. stop \in BOOLEAN /\ wrote \in BOOLEAN
    BY <1>1 DEF DlState
  <2>3. err \in Errors \cup {"abandoned"} /\ pc \in {"kick", "close", "read"}
    BY DEF Errors
  <2>4. dl[d].offset + n \in 0 .. Size
    BY <1>1, <1>3 DEF DlState
  <2>5. AfterWrite(d, buf, n, skipped, e) =
          [dl[d] EXCEPT !.skipped = total, !.stop = stop, !.err = err,
                        !.offset = dl[d].offset + n, !.wrote = wrote,
                        !.buf = "none", !.pc = pc]
    BY DEF AfterWrite
  <2> DEFINE offset == dl[d].offset + n
  <2> HIDE ConstantsAssumption DEF total, stop, err, wrote, pc, offset
  <2>6. [dl[d] EXCEPT !.skipped = total, !.stop = stop, !.err = err, !.offset = offset,
                      !.wrote = wrote, !.buf = "none", !.pc = pc] \in DlState
    <3>1. offset \in 0 .. Size
      BY <2>4 DEF offset
    <3>2. QED
      BY <1>1, <2>1, <2>2, <2>3, <3>1 DEF DlState
  <2>7. QED
    BY <1>1, <2>3, <2>5, <2>6 DEF DlOK, DlState, offset
<1>4. ASSUME NEW buf \in {"data", "eof", "err"}, ReadEnd(d, buf) \/ IdleBegin(d, buf)
      PROVE  TInv'
  <2>1. DlOK(EndStream(d, IF buf = "err" THEN "io" ELSE "nil"))
    BY <1>1 DEF DlOK, EndStream, DlState, Errors
  <2>2. CanRead(d, buf) => DlOK([dl[d] EXCEPT !.pc = "idle", !.buf = buf])
    BY <1>1 DEF DlOK, CanRead, DlState
  <2>3. QED
    BY <1>2, <1>4, <2>1, <2>2 DEF ReadEnd, IdleBegin
<1>5. ASSUME NEW buf \in {"data", "eof", "err"}, PutNothing(d, buf)
      PROVE  TInv'
  <2>1. DlOK(AfterWrite(d, buf, 0, 0, "nil"))
    BY <1>1, <1>3 DEF Errors, DlState
  <2>2. QED
    BY <1>2, <1>5, <2>1 DEF PutNothing
<1>6. CASE ReadAbandoned(d)
  <2>1. DlOK(EndStream(d, "abandoned"))
    BY <1>1 DEF DlOK, EndStream, DlState, Errors
  <2>2. QED
    BY <1>2, <1>6, <2>1 DEF ReadAbandoned
<1>7. CASE IdleQuit(d) \/ IdleKick(d) \/ IdleTimeout(d)
  <2>1. dl[d].pc = "idle"
    BY <1>7 DEF IdleQuit, IdleKick, IdleTimeout
  <2>2. /\ DlOK([dl[d] EXCEPT !.pc = "put"])
        /\ DlOK([dl[d] EXCEPT !.kick = FALSE,
                     !.pc = IF dl[d].offset >= dl[d].max THEN "idle" ELSE "put"])
        /\ DlOK([dl[d] EXCEPT !.pc = "put", !.stop = TRUE])
    BY <1>1, <2>1 DEF DlOK, DlState
  <2>3. QED
    BY <1>2, <1>7, <2>2 DEF IdleQuit, IdleKick, IdleTimeout
<1>8. CASE PutNew(d) \/ PutSkip(d)
  <2>1. Writes(d, "data")
    BY <1>8 DEF PutNew, PutSkip
  <2>2. dl[d].offset < Size
    BY <1>1, <2>1 DEF Writes, CanRead
  <2>3. dl[d].offset \in Blocks
    BY <1>1, <2>2 DEF Blocks, DlState
  <2>4. DlOK(AfterWrite(d, "data", 1, 0, "nil")) /\ DlOK(AfterWrite(d, "data", 1, 1, "nil"))
    BY <1>1, <1>3, <2>2 DEF Errors, DlState
  <2>5. QED
    BY <1>2, <1>8, <2>3, <2>4 DEF PutNew, PutSkip
<1>9. ASSUME NEW e \in {"nospace", "io"}, PutFails(d, e)
      PROVE  TInv'
  <2>1. DlOK(AfterWrite(d, "data", 0, 0, e))
    BY <1>1, <1>3 DEF Errors, DlState
  <2>2. QED
    BY <1>2, <1>9, <2>1 DEF PutFails
<1>10. CASE CloseStream(d)
  <2>1. DlOK([Gone EXCEPT !.pc = "count", !.err = dl[d].err, !.wrote = dl[d].wrote])
    BY <1>1, GoneOK DEF DlState
  <2>2. QED
    BY <1>2, <1>10, <2>1 DEF CloseStream
<1>11. CASE CountErrors(d)
  <2>1. dl' \in [Ids -> DlState] /\ BufInv'
    BY <1>11, GoneOK, OneDl DEF CountErrors
  <2>2. errorCount' \in 0 .. MaxErrorCount + 1
    BY <1>11 DEF CountErrors, errVars
  <2>3. lastErr' \in Errors
    BY <1>1, <1>11 DEF CountErrors, errVars, DlState, Errors
  <2>4. QED
    BY <1>11, <2>1, <2>2, <2>3 DEF CountErrors, lockVars, closeVars, Fetchable
<1>12. QED
  BY <1>4, <1>5, <1>6, <1>7, <1>8, <1>9, <1>10, <1>11 DEF DlNext

(* _ensureDownloader *)
LEMMA EnsureStartType ==
  ASSUME TInv, NEW t \in Threads, EnsureStart(t)
  PROVE  TInv'
<1> USE ConstantsAssumption DEF TInv, TypeOK
<1>1. Open \subseteq Ids
  BY DEF Open
<1>2. NoMiss \in MissState /\ Fetchable(NoMiss)
  BY DEF NoMiss, MissState, Fetchable
<1>3. SUFFICES dl' \in [Ids -> DlState] /\ BufInv' /\ dls' \subseteq Ids
  BY <1>2 DEF EnsureStart, errVars, closeVars, MissState
<1>4. ASSUME NEW d \in Ids, EnsureReuse(d)
      PROVE  dl' \in [Ids -> DlState] /\ BufInv' /\ dls' \subseteq Ids
  <2>1. dl[d] \in DlState /\ miss.pos + miss.size \in Nat
    OBVIOUS
  <2>2. DlOK(Extended(d, miss.pos + miss.size))
    <3> DEFINE end == miss.pos + miss.size
               max == IF end > dl[d].max THEN end ELSE dl[d].max
               kick == dl[d].pc = "idle"
    <3>1. max \in Nat /\ kick \in BOOLEAN
      BY <2>1 DEF DlState
    <3>2. Extended(d, end) = [dl[d] EXCEPT !.max = max, !.kick = kick]
      BY DEF Extended
    <3>3. dl[d].pc \in {"idle", "put"} /\ dl[d].buf = "data" => dl[d].offset < Size
      BY DEF BufInv
    <3> DEFINE r == [dl[d] EXCEPT !.max = max, !.kick = kick]
    <3> HIDE ConstantsAssumption DEF end, max, kick, TInv, TypeOK
    <3>4. r \in DlState
      BY <2>1, <3>1 DEF DlState
    <3>5. r.pc = dl[d].pc /\ r.buf = dl[d].buf /\ r.offset = dl[d].offset
      BY <2>1 DEF DlState
    <3> HIDE DEF r
    <3>6. DlOK(r)
      BY <3>3, <3>4, <3>5 DEF DlOK
    <3>7. QED
      BY <3>2, <3>6 DEF end, r
  <2>3. QED
    BY <1>1, <1>4, <2>2, OneDl DEF EnsureReuse
<1>5. ASSUME NEW d \in Ids, EnsureNew(d)
      PROVE  dl' \in [Ids -> DlState] /\ BufInv' /\ dls' \subseteq Ids
  <2>1. miss.pos \in 0 .. Size /\ miss.pos + miss.size \in Nat
    BY <1>5 DEF EnsureNew, Fetchable
  <2>2. DlOK(Started(miss.pos, miss.pos + miss.size))
    <3>1. Gone \in DlState
      BY GoneOK DEF DlOK
    <3>2. QED
      BY <2>1, <3>1 DEF DlOK, Started, DlState
  <2>3. QED
    BY <1>1, <1>5, <2>2, OneDl DEF EnsureNew
<1>6. CASE EnsureNothing
  BY <1>1, <1>6 DEF EnsureNothing, BufInv
<1>7. Unused \subseteq Ids
  BY DEF Unused
<1>8. QED
  BY <1>4, <1>5, <1>6, <1>7 DEF EnsureStart

(* What a kicker does with the answer of kickWaiters. *)
LEMMA KickReturnType ==
  ASSUME TInv, NEW t \in Threads, NEW e \in Errors, KickReturn(t, e)
  PROVE  dl' \in [Ids -> DlState] /\ BufInv'
<1> USE DEF TInv, TypeOK
<1>1. CASE t = Ticker
  BY <1>1 DEF KickReturn, BufInv
<1>2. CASE t # Ticker /\ t \notin Ids
  <2>1. dl' = dl
    BY <1>2 DEF KickReturn
  <2>2. QED
    BY <2>1 DEF BufInv
<1>3. CASE t \in Ids /\ t # Ticker
  <2> DEFINE err == IF dl[t].err = "nil" THEN e ELSE dl[t].err
             r == IF dl[t].pc = "final" THEN Gone
                  ELSE [dl[t] EXCEPT !.pc = IF err # "nil" THEN "close" ELSE "read",
                                     !.err = err]
  <2>1. dl[t] \in DlState /\ err \in Errors \cup {"abandoned"}
    BY <1>3 DEF DlState
  <2>2. DlOK(r)
    <3> DEFINE pc == IF err # "nil" THEN "close" ELSE "read"
    <3>1. pc \in {"close", "read"}
      OBVIOUS
    <3> HIDE DEF err, pc
    <3>2. DlOK([dl[t] EXCEPT !.pc = pc, !.err = err])
      BY <2>1, <3>1 DEF DlOK, DlState
    <3>3. QED
      BY <3>2, GoneOK DEF pc
  <2>3. dl' = [dl EXCEPT ![t] = r]
    BY <1>3 DEF KickReturn
  <2>4. QED
    <3> HIDE DEF r
    <3>1. QED
      BY <1>3, <2>2, <2>3, OneDl
<1>4. QED
  BY <1>1, <1>2, <1>3

(* Answering waiters keeps the types. *)
LEMMA AnswerType ==
  ASSUME TInv, NEW S, NEW e \in Errors
  PROVE  Answer(S, e) \in [Readers -> ReaderState]
<1>1. ASSUME NEW r \in Readers
      PROVE  /\ rd[r] \in ReaderState
             /\ [rd[r] EXCEPT !.pc = "ret", !.res = e] \in ReaderState
  BY DEF TInv, TypeOK, ReaderState
<1>2. QED
  BY <1>1 DEF Answer

(* The type invariant holds initially. *)
LEMMA InitTInv == Init => TInv
<1> SUFFICES ASSUME Init
             PROVE  TInv
  OBVIOUS
<1> USE ConstantsAssumption DEF Init
<1>1. dl \in [Ids -> DlState] /\ BufInv
  BY GoneOK DEF DlOK, BufInv
<1>2. rd \in [Readers -> ReaderState]
  BY DEF Idle, ReaderState
<1>3. miss \in [pos : Nat, size : Nat, startNew : BOOLEAN] /\ Fetchable(miss)
  BY DEF NoMiss, Fetchable
<1>4. errorCount \in 0 .. MaxErrorCount + 1 /\ lastErr \in Errors
  BY DEF Errors
<1>5. QED
  <2> HIDE ConstantsAssumption
  <2>1. QED
    BY <1>1, <1>2, <1>3, <1>4, Zenon DEF TInv, TypeOK

(* Every step keeps the type invariant. *)
LEMMA NextTInv == TInv /\ [Next]_vars => TInv'
<1> SUFFICES ASSUME TInv, [Next]_vars
             PROVE  TInv'
  OBVIOUS
<1> USE ConstantsAssumption DEF TInv, TypeOK
<1>1. ASSUME NEW r \in Readers
      PROVE  rd[r].pos \in Nat /\ rd[r].size \in Nat /\ Idle \in ReaderState
  BY DEF ReaderState, Idle
<1>2. ASSUME NEW r \in Readers, NEW q \in Requests, Call(r, q)
      PROVE  TInv'
  <2>1. q.pos \in 0 .. Size /\ q.size \in 0 .. Size
    BY DEF Blocks
  <2>2. rd' \in [Readers -> ReaderState]
    BY <1>2, <2>1 DEF Call, ReaderState
  <2>3. QED
    BY <1>2, <2>2 DEF Call, lockVars, errVars, closeVars, BufInv
<1>3. ASSUME NEW r \in Readers, CallLock(r)
      PROVE  TInv'
  BY <1>1, <1>3, ToFetchType
     DEF CallLock, errVars, closeVars, BufInv, MissState, Threads
<1>4. ASSUME NEW r \in Readers, CallUnlock(r) \/ Return(r)
      PROVE  TInv'
  <2>1. rd' \in [Readers -> ReaderState]
    BY <1>1, <1>4 DEF CallUnlock, Return, ReaderState
  <2>2. QED
    BY <1>4, <2>1 DEF CallUnlock, Return, lockVars, errVars, closeVars, BufInv
<1>5. ASSUME NEW d \in Ids, DlNext(d)
      PROVE  TInv'
  BY <1>5, DlNextType
<1>6. ASSUME NEW t \in Threads, EnsureFind(t)
      PROVE  TInv'
  <2>1. PICK w \in todo : cur' = w /\ miss' = ToFetch(rd[w].pos, rd[w].size)
    BY <1>6 DEF EnsureFind
  <2>2. miss' \in MissState /\ Fetchable(miss')
    BY <1>1, <2>1, ToFetchType
  <2>3. QED
    BY <1>6, <2>1, <2>2 DEF EnsureFind, errVars, closeVars, BufInv, MissState
<1>7. ASSUME NEW t \in Threads, EnsureStart(t)
      PROVE  TInv'
  BY <1>7, EnsureStartType
<1>8. ASSUME NEW t \in Threads, KickNobody(t)
      PROVE  TInv'
  <2>1. dl' \in [Ids -> DlState] /\ BufInv' /\ rd' \in [Readers -> ReaderState]
    BY <1>8, AnswerType, KickReturnType DEF KickNobody, Errors
  <2>2. QED
    BY <1>8, <2>1 DEF KickNobody, lockVars, errVars, closeVars
<1>9. ASSUME NEW t \in Threads, KickLock(t)
      PROVE  TInv'
  <2>1. rd' \in [Readers -> ReaderState]
    BY <1>9, AnswerType DEF KickLock, Errors
  <2>2. QED
    BY <1>9, <2>1 DEF KickLock, errVars, closeVars, BufInv
<1>10. ASSUME NEW t \in Threads, KickEnd(t)
       PROVE  TInv'
  <2>1. dl' \in [Ids -> DlState] /\ BufInv' /\ rd' \in [Readers -> ReaderState]
    BY <1>10, AnswerType, KickReturnType DEF KickEnd, Errors
  <2>2. waiters' \subseteq Readers
    BY <1>10 DEF KickEnd
  <2>3. QED
    BY <1>10, <2>1, <2>2 DEF KickEnd, errVars, closeVars
<1>11. CASE TickerExit \/ Finished \/ UNCHANGED vars
  BY <1>11 DEF TickerExit, Finished, vars, lockVars, errVars, closeVars, BufInv
<1>12. CASE CloseCancel \/ CloseSnapshot \/ CloseJoin
  BY <1>12 DEF CloseCancel, CloseSnapshot, CloseJoin, Open, lockVars, errVars, BufInv
<1>13. CASE CloseEnd
  <2>1. rd' \in [Readers -> ReaderState]
    BY <1>13, AnswerType DEF CloseEnd, Errors
  <2>2. QED
    BY <1>13, <2>1 DEF CloseEnd, lockVars, errVars, BufInv
<1>14. ASSUME NEW d \in Ids, CloseStop(d)
       PROVE  TInv'
  <2>1. DlOK([dl[d] EXCEPT !.stop = ~ Closed(d)])
    <3> DEFINE stop == ~ Closed(d)
    <3>1. stop \in BOOLEAN /\ dl[d] \in DlState
      BY DEF Closed
    <3> HIDE DEF stop
    <3>2. DlOK([dl[d] EXCEPT !.stop = stop])
      BY <3>1 DEF DlOK, DlState, BufInv
    <3>3. QED
      BY <3>2 DEF stop
  <2>2. dl' \in [Ids -> DlState] /\ BufInv'
    BY <1>14, <2>1, OneDl DEF CloseStop
  <2>3. QED
    BY <1>14, <2>2 DEF CloseStop, lockVars, errVars
<1>15. QED
  BY <1>2, <1>3, <1>4, <1>5, <1>6, <1>7, <1>8, <1>9, <1>10, <1>11, <1>12,
     <1>13, <1>14
     DEF Next, ReaderNext, LockNext, Kick, CloseNext

(* The type invariant holds in every reachable state. *)
LEMMA TInvariance == Spec => []TInv
BY InitTInv, NextTInv, PTL DEF Spec

(***************************************************************************)
(* Every variable stays in its type: in particular no stream runs past the *)
(* end of the object, and every range _ensureDownloader starts a stream    *)
(* for lies inside it, whatever the read-ahead and the windows are.        *)
(***************************************************************************)
THEOREM TypeCorrect == Spec => []TypeOK
<1>1. TInv => TypeOK
  BY DEF TInv
<1>2. QED
  BY <1>1, TInvariance, PTL

-----------------------------------------------------------------------------
(***************************************************************************)
(* Streams.  A stream never moves backwards; while its goroutine holds mu  *)
(* it is inside kickWaiters and does nothing else.                         *)
(***************************************************************************)
Forward == \A d \in Ids : dl[d].start <= dl[d].offset

KickerInv == mu \in Ids => dl[mu].pc \in {"kick", "final"}

SInv == Forward /\ KickerInv /\ StreamedIsPresent /\ DistinctStarts

(* What a step does to one downloader, as far as SInv is concerned. *)
Keeps(d) == /\ dl'[d].start = dl[d].start /\ dl'[d].offset = dl[d].offset
            /\ Closed(d) => dl'[d].pc = dl[d].pc

Moves(d) == /\ ~ Closed(d) /\ dl'[d].start = dl[d].start
            /\ dl'[d].offset = dl[d].offset + 1
            /\ dl[d].offset \in present'

Exits(d) == /\ dl'[d].start = 0 /\ dl'[d].offset = 0
            /\ dl'[d].pc \in {"count", "final", "gone"}

Quiet == /\ dls' \subseteq dls /\ present \subseteq present'
         /\ \A d \in Ids : Keeps(d) \/ Moves(d) \/ Exits(d)

(* A quiet step keeps the invariant of the streams. *)
LEMMA QuietKeepsSInv ==
  ASSUME TInv, SInv, Quiet
  PROVE  Forward' /\ StreamedIsPresent' /\ DistinctStarts'
<1> USE DEF TInv, TypeOK, SInv, Quiet
<1>1. ASSUME NEW d \in Ids
      PROVE  /\ dl[d].start \in Nat /\ dl[d].offset \in Nat
             /\ dl'[d].start <= dl'[d].offset
             /\ dl'[d].pc # "gone" => dl'[d].start .. dl'[d].offset - 1 \subseteq present'
  <2>1. dl[d].start \in Nat /\ dl[d].offset \in Nat
    BY DEF DlState
  <2>2. CASE Keeps(d)
    BY <2>1, <2>2 DEF Keeps, Forward, StreamedIsPresent, Closed
  <2>3. CASE Moves(d)
    BY <2>1, <2>3 DEF Moves, Forward, StreamedIsPresent, Closed
  <2>4. CASE Exits(d)
    BY <2>1, <2>4 DEF Exits
  <2>5. QED
    BY <2>1, <2>2, <2>3, <2>4
<1>2. Forward' /\ StreamedIsPresent'
  BY <1>1 DEF Forward, StreamedIsPresent
<1>3. ASSUME NEW d \in Open'
      PROVE  d \in Open /\ dl'[d].start = dl[d].start
  BY DEF Open, Closed, Keeps, Moves, Exits
<1>4. DistinctStarts'
  BY <1>3 DEF DistinctStarts
<1>5. QED
  BY <1>2, <1>4

(* Every step of a stream is quiet: it moves over cached blocks only. *)
LEMMA DlNextQuiet ==
  ASSUME TInv, NEW d \in Ids, DlNext(d)
  PROVE  /\ Quiet /\ dl[d].pc \notin {"kick", "final"}
         /\ \A e \in Ids \ {d} : dl'[e] = dl[e]
         /\ mu' = mu
<1> USE DEF TInv, TypeOK
<1>1. dl[d] \in DlState
  OBVIOUS
<1>2. ASSUME NEW r, DlStep(d, r), present \subseteq present',
             dl[d].pc \notin {"kick", "final"},
             \/ /\ r.start = dl[d].start /\ r.offset = dl[d].offset /\ ~ Closed(d)
             \/ /\ ~ Closed(d) /\ r.start = dl[d].start
                /\ r.offset = dl[d].offset + 1 /\ dl[d].offset \in present'
             \/ /\ r.start = 0 /\ r.offset = 0 /\ r.pc \in {"count", "final", "gone"}
      PROVE  /\ Quiet /\ dl[d].pc \notin {"kick", "final"}
             /\ \A e \in Ids \ {d} : dl'[e] = dl[e]
             /\ mu' = mu
  <2>1. dl'[d] = r /\ \A e \in Ids \ {d} : dl'[e] = dl[e]
    BY <1>2 DEF DlStep
  <2>2. Keeps(d) \/ Moves(d) \/ Exits(d)
    BY <1>2, <2>1 DEF Keeps, Moves, Exits
  <2>3. \A e \in Ids \ {d} : Keeps(e)
    BY <2>1 DEF Keeps
  <2>4. QED
    BY <1>2, <2>1, <2>2, <2>3 DEF Quiet, DlStep, lockVars
<1>3. ASSUME NEW buf, NEW n \in {0, 1}, NEW skipped, NEW e
      PROVE  /\ AfterWrite(d, buf, n, skipped, e).start = dl[d].start
             /\ AfterWrite(d, buf, n, skipped, e).offset = dl[d].offset + n
  BY <1>1 DEF AfterWrite, DlState
<1>4. ASSUME NEW buf, Writes(d, buf)
      PROVE  ~ Closed(d) /\ dl[d].pc \notin {"kick", "final"}
  BY <1>4 DEF Writes, CanRead, Closed
<1>5. dl[d].offset + 0 = dl[d].offset
  BY <1>1 DEF DlState
<1>6. ASSUME NEW buf, ReadEnd(d, buf) \/ IdleBegin(d, buf)
      PROVE  /\ Quiet /\ dl[d].pc \notin {"kick", "final"}
             /\ \A e \in Ids \ {d} : dl'[e] = dl[e]
             /\ mu' = mu
  <2>1. dl[d].pc = "read" /\ ~ Closed(d)
    BY <1>6 DEF ReadEnd, IdleBegin, CanRead, Closed
  <2>2. ASSUME NEW err
        PROVE  /\ EndStream(d, err).start = dl[d].start
               /\ EndStream(d, err).offset = dl[d].offset
    BY <1>1 DEF EndStream, DlState
  <2>3. /\ [dl[d] EXCEPT !.pc = "idle", !.buf = buf].start = dl[d].start
        /\ [dl[d] EXCEPT !.pc = "idle", !.buf = buf].offset = dl[d].offset
    BY <1>1 DEF DlState
  <2>4. QED
    BY <1>2, <1>6, <2>1, <2>2, <2>3 DEF ReadEnd, IdleBegin
<1>7. ASSUME NEW buf, PutNothing(d, buf)
      PROVE  /\ Quiet /\ dl[d].pc \notin {"kick", "final"}
             /\ \A e \in Ids \ {d} : dl'[e] = dl[e]
             /\ mu' = mu
  BY <1>2, <1>3, <1>4, <1>5, <1>7 DEF PutNothing
<1>8. CASE ReadAbandoned(d)
  <2>1. /\ EndStream(d, "abandoned").start = dl[d].start
        /\ EndStream(d, "abandoned").offset = dl[d].offset
    BY <1>1 DEF EndStream, DlState
  <2>2. dl[d].pc = "read" /\ ~ Closed(d)
    BY <1>8 DEF ReadAbandoned, Closed
  <2>3. QED
    BY <1>2, <1>8, <2>1, <2>2 DEF ReadAbandoned
<1>9. CASE IdleQuit(d) \/ IdleKick(d) \/ IdleTimeout(d)
  <2>1. dl[d].pc = "idle" /\ ~ Closed(d)
    BY <1>9 DEF IdleQuit, IdleKick, IdleTimeout, Closed
  <2>2. CASE IdleQuit(d)
    <3> DEFINE r == [dl[d] EXCEPT !.pc = "put"]
    <3>1. r.start = dl[d].start /\ r.offset = dl[d].offset
      BY <1>1 DEF DlState
    <3>2. QED
      BY <1>2, <2>1, <2>2, <3>1 DEF IdleQuit
  <2>3. CASE IdleKick(d)
    <3> DEFINE pc == IF dl[d].offset >= dl[d].max THEN "idle" ELSE "put"
               r == [dl[d] EXCEPT !.kick = FALSE, !.pc = pc]
    <3>1. r.start = dl[d].start /\ r.offset = dl[d].offset
      BY <1>1 DEF DlState
    <3>2. DlStep(d, r) /\ present' = present
      BY <2>3 DEF IdleKick
    <3> HIDE DEF r
    <3>3. QED
      BY <1>2, <2>1, <3>1, <3>2
  <2>4. CASE IdleTimeout(d)
    <3> DEFINE r == [dl[d] EXCEPT !.pc = "put", !.stop = TRUE]
    <3>1. r.start = dl[d].start /\ r.offset = dl[d].offset
      BY <1>1 DEF DlState
    <3>2. QED
      BY <1>2, <2>1, <2>4, <3>1 DEF IdleTimeout
  <2>5. QED
    BY <1>9, <2>2, <2>3, <2>4
<1>10. CASE PutNew(d)
  BY <1>2, <1>3, <1>4, <1>10 DEF PutNew
<1>11. CASE PutSkip(d)
  BY <1>2, <1>3, <1>4, <1>11 DEF PutSkip
<1>12. ASSUME NEW e, PutFails(d, e)
       PROVE  /\ Quiet /\ dl[d].pc \notin {"kick", "final"}
              /\ \A f \in Ids \ {d} : dl'[f] = dl[f]
              /\ mu' = mu
  BY <1>2, <1>3, <1>4, <1>5, <1>12 DEF PutFails
<1>13. CASE CloseStream(d)
  <2> DEFINE r == [Gone EXCEPT !.pc = "count", !.err = dl[d].err, !.wrote = dl[d].wrote]
  <2>1. r.start = 0 /\ r.offset = 0 /\ r.pc = "count"
    BY DEF Gone
  <2>2. QED
    BY <1>2, <1>13, <2>1 DEF CloseStream
<1>14. CASE CountErrors(d)
  <2> DEFINE r == [Gone EXCEPT !.pc = "final"]
  <2>1. r.start = 0 /\ r.offset = 0 /\ r.pc = "final"
    BY DEF Gone
  <2>2. dl'[d] = r /\ \A e \in Ids \ {d} : dl'[e] = dl[e]
    BY <1>14 DEF CountErrors
  <2>3. Exits(d) /\ \A e \in Ids \ {d} : Keeps(e)
    BY <2>1, <2>2 DEF Exits, Keeps
  <2>4. QED
    BY <1>14, <2>2, <2>3 DEF CountErrors, Quiet, lockVars
<1>15. QED
  BY <1>6, <1>7, <1>8, <1>9, <1>10, <1>11, <1>12, <1>13, <1>14 DEF DlNext

(* The end of a kick is quiet. *)
LEMMA KickReturnQuiet ==
  ASSUME TInv, NEW t \in Threads, NEW e, KickReturn(t, e),
         t \in Ids => dl[t].pc \in {"kick", "final"}
  PROVE  \A d \in Ids : Keeps(d) \/ Exits(d)
<1> USE DEF TInv, TypeOK
<1>1. CASE t = Ticker \/ t \notin Ids
  <2>1. dl' = dl
    BY <1>1 DEF KickReturn
  <2>2. QED
    BY <2>1 DEF Keeps
<1>2. CASE t \in Ids /\ t # Ticker
  <2>1. \A d \in Ids \ {t} : dl'[d] = dl[d]
    BY <1>2 DEF KickReturn
  <2>2. CASE dl[t].pc = "final"
    <3>1. dl'[t] = Gone
      BY <1>2, <2>2 DEF KickReturn
    <3>2. QED
      BY <2>1, <3>1 DEF Keeps, Exits, Gone
  <2>3. CASE dl[t].pc # "final"
    <3>1. dl[t].pc = "kick" /\ dl[t] \in DlState
      BY <1>2, <2>3
    <3> DEFINE err == IF dl[t].err = "nil" THEN e ELSE dl[t].err
               pc == IF err # "nil" THEN "close" ELSE "read"
    <3>2. dl'[t] = [dl[t] EXCEPT !.pc = pc, !.err = err]
      BY <1>2, <2>3 DEF KickReturn
    <3> HIDE DEF pc, err
    <3>3. Keeps(t)
      BY <3>1, <3>2 DEF Keeps, Closed, DlState
    <3>4. QED
      BY <2>1, <3>3 DEF Keeps
  <2>4. QED
    BY <2>2, <2>3
<1>3. QED
  BY <1>1, <1>2

(***************************************************************************)
(* A new stream: no reusable one starts at its first block, because a      *)
(* stream reaches its own start (its window is at least one block).        *)
(***************************************************************************)
LEMMA EnsureNewStreams ==
  ASSUME TInv, SInv, NEW d \in Unused, EnsureNew(d), UNCHANGED <<present, mu>>
  PROVE  SInv'
<1> USE DEF TInv, TypeOK, SInv
<1>1. d \in Ids /\ d \notin dls /\ dl[d].pc = "gone"
  BY DEF Unused
<1>2. /\ dl'[d].start = miss.pos /\ dl'[d].offset = miss.pos
      /\ dl'[d].pc = "read" /\ \A e \in Ids \ {d} : dl'[e] = dl[e]
  BY <1>1 DEF EnsureNew, Started, Gone
<1>3. Forward'
  BY <1>2 DEF Forward
<1>4. KickerInv'
  BY <1>1, <1>2 DEF KickerInv
<1>5. StreamedIsPresent'
  BY <1>2 DEF StreamedIsPresent
<1>6. ASSUME NEW e \in Open
      PROVE  e # d /\ dl[e].start # miss.pos
  <2>1. e \in Ids /\ e \in dls /\ ~ Reaches(e, miss.pos)
    BY DEF EnsureNew, Open
  <2>2. dl[e].start \in Nat /\ dl[e].offset \in Nat /\ dl[e].start <= dl[e].offset
    BY <2>1 DEF DlState, Forward
  <2>3. ReuseWindow \in Nat /\ ReuseWindow > 0
    BY ConstantsAssumption DEF ReuseWindow
  <2>4. dl[e].start # miss.pos
    BY <2>1, <2>2, <2>3 DEF Reaches
  <2>5. QED
    BY <1>1, <2>1, <2>4
<1>7. Open' \subseteq Open \cup {d}
  BY DEF EnsureNew, Open
<1>8. DistinctStarts'
  <2> SUFFICES ASSUME NEW e \in Open', NEW f \in Open',
                      dl'[e].start = dl'[f].start
               PROVE  e = f
    BY DEF DistinctStarts
  <2>1. \A g \in Open : dl'[g].start = dl[g].start /\ dl[g].start # miss.pos
    BY <1>2, <1>6 DEF Open
  <2>2. QED
    BY <1>2, <1>7, <2>1 DEF DistinctStarts
<1>9. QED
  BY <1>3, <1>4, <1>5, <1>8

(* No step but the start of a new stream makes a closed downloader run. *)
LEMMA NextQuiet ==
  ASSUME TInv, SInv, [Next]_vars
  PROVE  Quiet \/ \E t \in Threads : EnsureStart(t)
<1> USE DEF TInv, TypeOK, SInv
<1>1. ASSUME UNCHANGED <<dl, present>>, dls' \subseteq dls
      PROVE  Quiet
  BY <1>1 DEF Quiet, Keeps
<1>2. ASSUME NEW r \in Readers, ReaderNext(r)
      PROVE  Quiet
  BY <1>1, <1>2 DEF ReaderNext, Call, CallLock, CallUnlock, Return
<1>3. ASSUME NEW d \in Ids, DlNext(d)
      PROVE  Quiet
  BY <1>3, DlNextQuiet
<1>4. ASSUME NEW t \in Threads, EnsureFind(t) \/ KickLock(t)
      PROVE  Quiet
  BY <1>1, <1>4 DEF EnsureFind, KickLock
<1>5. ASSUME NEW t \in Threads, KickNobody(t) \/ KickEnd(t)
      PROVE  Quiet
  <2>1. /\ dls' = dls /\ present' = present
        /\ t \in Ids => dl[t].pc \in {"kick", "final"}
    BY <1>5, ThreadsAssumption DEF KickNobody, KickEnd, WantsKick, KickerInv
  <2>2. \A d \in Ids : Keeps(d) \/ Exits(d)
    BY <1>5, <2>1, KickReturnQuiet DEF KickNobody, KickEnd
  <2>3. QED
    BY <2>1, <2>2 DEF Quiet
<1>6. CASE TickerExit \/ Finished \/ UNCHANGED vars \/ CloseCancel \/ CloseJoin
  BY <1>1, <1>6 DEF TickerExit, Finished, vars, CloseCancel, CloseJoin
<1>7. CASE CloseSnapshot \/ CloseEnd
  BY <1>1, <1>7 DEF CloseSnapshot, CloseEnd, Open
<1>8. ASSUME NEW d \in Ids, CloseStop(d)
      PROVE  Quiet
  <2>1. dl[d] \in DlState /\ UNCHANGED <<dls, present>>
    BY <1>8 DEF CloseStop
  <2>2. /\ dl'[d].start = dl[d].start /\ dl'[d].offset = dl[d].offset
        /\ dl'[d].pc = dl[d].pc /\ \A e \in Ids \ {d} : dl'[e] = dl[e]
    BY <1>8, <2>1 DEF CloseStop, DlState
  <2>3. QED
    BY <2>1, <2>2 DEF Quiet, Keeps
<1>9. QED
  BY <1>2, <1>3, <1>4, <1>5, <1>6, <1>7, <1>8 DEF Next, LockNext, Kick, CloseNext

(* What _ensureDownloader does to the streams. *)
LEMMA EnsureStartStreams ==
  ASSUME TInv, SInv, NEW t \in Threads, EnsureStart(t)
  PROVE  SInv'
<1> USE DEF TInv, TypeOK, SInv
<1>1. present' = present /\ mu' = mu /\ Open \subseteq dls
  BY DEF EnsureStart, Open
<1>2. ASSUME NEW d \in Ids, EnsureReuse(d)
      PROVE  SInv'
  <2>1. dl[d] \in DlState
    OBVIOUS
  <2>2. /\ dl'[d].start = dl[d].start /\ dl'[d].offset = dl[d].offset
        /\ dl'[d].pc = dl[d].pc
    BY <1>2, <2>1 DEF EnsureReuse, Extended, DlState
  <2>3. \A e \in Ids \ {d} : dl'[e] = dl[e]
    BY <1>2 DEF EnsureReuse
  <2>4. Quiet /\ KickerInv'
    BY <1>1, <1>2, <2>2, <2>3 DEF EnsureReuse, Quiet, Keeps, KickerInv
  <2>5. QED
    BY <2>4, QuietKeepsSInv
<1>3. ASSUME NEW d \in Unused, EnsureNew(d)
      PROVE  SInv'
  BY <1>1, <1>3, EnsureNewStreams
<1>4. CASE EnsureNothing
  <2>1. Quiet /\ KickerInv'
    BY <1>1, <1>4 DEF EnsureNothing, Quiet, Keeps, KickerInv
  <2>2. QED
    BY <2>1, QuietKeepsSInv
<1>5. QED
  BY <1>2, <1>3, <1>4 DEF EnsureStart

(* Every step keeps KickerInv. *)
LEMMA NextKicker ==
  ASSUME TInv, SInv, [Next]_vars
  PROVE  KickerInv' \/ \E t \in Threads : EnsureStart(t)
<1> USE DEF TInv, TypeOK, SInv
<1>1. ASSUME UNCHANGED <<dl, mu>>
      PROVE  KickerInv'
  BY <1>1 DEF KickerInv
<1>2. ASSUME mu' \notin Ids
      PROVE  KickerInv'
  BY <1>2 DEF KickerInv
<1>3. ASSUME NEW r \in Readers, ReaderNext(r)
      PROVE  KickerInv'
  BY <1>1, <1>2, <1>3, ThreadsAssumption
     DEF ReaderNext, Call, CallLock, CallUnlock, Return, lockVars, Threads
<1>4. ASSUME NEW d \in Ids, DlNext(d)
      PROVE  KickerInv'
  BY <1>4, DlNextQuiet DEF KickerInv
<1>5. ASSUME NEW t \in Threads, EnsureFind(t)
      PROVE  KickerInv'
  BY <1>1, <1>5 DEF EnsureFind
<1>6. ASSUME NEW t \in Threads, KickLock(t)
      PROVE  KickerInv'
  BY <1>6, ThreadsAssumption DEF KickLock, KickerInv, WantsKick
<1>7. ASSUME NEW t \in Threads, KickNobody(t) \/ KickEnd(t)
      PROVE  KickerInv'
  BY <1>2, <1>7, ThreadsAssumption DEF KickNobody, KickEnd, lockVars, Threads
<1>8. CASE TickerExit \/ Finished \/ UNCHANGED vars \/ CloseCancel \/ CloseJoin
           \/ CloseSnapshot \/ CloseEnd
  BY <1>1, <1>8 DEF TickerExit, Finished, vars, CloseCancel, CloseJoin, lockVars,
                    CloseSnapshot, CloseEnd
<1>9. ASSUME NEW d \in Ids, CloseStop(d)
      PROVE  KickerInv'
  <2>1. dl[d] \in DlState /\ mu' = mu
    BY <1>9 DEF CloseStop, lockVars
  <2>2. dl'[d].pc = dl[d].pc /\ \A e \in Ids \ {d} : dl'[e] = dl[e]
    BY <1>9, <2>1 DEF CloseStop, DlState
  <2>3. QED
    BY <2>1, <2>2 DEF KickerInv
<1>10. QED
  BY <1>3, <1>4, <1>5, <1>6, <1>7, <1>8, <1>9 DEF Next, LockNext, Kick, CloseNext

(* Every step keeps the invariant of the streams. *)
LEMMA NextSInv == TInv /\ SInv /\ [Next]_vars => SInv'
<1> SUFFICES ASSUME TInv, SInv, [Next]_vars
             PROVE  SInv'
  OBVIOUS
<1>1. ASSUME NEW t \in Threads, EnsureStart(t)
      PROVE  SInv'
  BY <1>1, EnsureStartStreams
<1>2. CASE Quiet /\ KickerInv'
  BY <1>2, QuietKeepsSInv DEF SInv
<1>3. QED
  BY <1>1, <1>2, NextQuiet, NextKicker

(* The invariant of the streams holds in every reachable state. *)
LEMMA SInvariance == Spec => []SInv
<1>1. Init => SInv
  BY ThreadsAssumption
     DEF Init, SInv, Forward, KickerInv, StreamedIsPresent, DistinctStarts, Open,
         Gone, Threads
<1>2. QED
  BY <1>1, NextSInv, TInvariance, PTL DEF Spec

(***************************************************************************)
(* Whatever a stream has passed is cached, so reusing a stream that is     *)
(* beyond a waiter's position never skips a block of the waiter.           *)
(***************************************************************************)
THEOREM StreamsLeaveNoHoles == Spec => []StreamedIsPresent
<1>1. SInv => StreamedIsPresent
  BY DEF SInv
<1>2. QED
  BY <1>1, SInvariance, PTL

(***************************************************************************)
(* However often the waiters are kicked, two reusable streams never start  *)
(* at the same block.                                                      *)
(***************************************************************************)
THEOREM StreamsAreDistinct == Spec => []DistinctStarts
<1>1. SInv => DistinctStarts
  BY DEF SInv
<1>2. QED
  BY <1>1, SInvariance, PTL

-----------------------------------------------------------------------------
(***************************************************************************)
(* The list of waiters.  A reader that holds mu is inside its call, a      *)
(* waiter is blocked in its Download, and what the holder of mu still has  *)
(* to do concerns waiters or its own call; a call is for a range inside    *)
(* the object.                                                             *)
(***************************************************************************)
CallerInv == mu \in Readers => rd[mu].pc = "call"
WaiterInv == \A w \in waiters : rd[w].pc = "wait"

TodoInv == /\ mu = Free => todo = {}
           /\ mu \in Readers => todo \subseteq {mu}
           /\ mu \notin Readers => todo \subseteq waiters
           /\ step = "start" => cur \in todo

RequestInv == \A r \in Readers : rd[r].pos + rd[r].size <= Size

LInv == CallerInv /\ WaiterInv /\ TodoInv /\ RequestInv

(* What Answer does to a reader. *)
LEMMA AnswerIs ==
  ASSUME TInv, NEW S, NEW e, rd' = Answer(S, e), NEW r \in Readers
  PROVE  /\ r \notin S => rd'[r] = rd[r]
         /\ r \in S => /\ rd'[r].pc = "ret" /\ rd'[r].pos = rd[r].pos
                       /\ rd'[r].size = rd[r].size /\ rd'[r].res = e
BY DEF TInv, TypeOK, Answer, ReaderState

(* Every step keeps the invariant of the waiters. *)
LEMMA NextLInv == TInv /\ LInv /\ [Next]_vars => LInv'
<1> SUFFICES ASSUME TInv, LInv, [Next]_vars
             PROVE  LInv'
  OBVIOUS
<1> USE ThreadsAssumption DEF TInv, TypeOK, LInv, Threads
<1>1. ASSUME UNCHANGED <<rd, waiters, mu, step, todo, cur>>
      PROVE  LInv'
  BY <1>1 DEF CallerInv, WaiterInv, TodoInv, RequestInv
<1>2. ASSUME NEW r \in Readers, NEW q \in Requests, Call(r, q)
      PROVE  LInv'
  <2>1. /\ rd[r].pc = "idle" /\ rd'[r].pc = "call"
        /\ \A o \in Readers \ {r} : rd'[o] = rd[o]
    BY <1>2 DEF Call
  <2>2. rd'[r].pos + rd'[r].size <= Size
    BY <1>2, ConstantsAssumption DEF Call
  <2>3. QED
    BY <1>2, <2>1, <2>2 DEF Call, CallerInv, WaiterInv, TodoInv, RequestInv, lockVars
<1>3. ASSUME NEW r \in Readers, CallLock(r)
      PROVE  LInv'
  BY <1>3 DEF CallLock, CallerInv, WaiterInv, TodoInv, RequestInv
<1>4. ASSUME NEW r \in Readers, CallUnlock(r)
      PROVE  LInv'
  <2>1. rd[r] \in ReaderState /\ rd[r].pc = "call"
    BY <1>4 DEF CallUnlock, CallerInv
  <2>2. /\ rd'[r].pc \in {"wait", "idle"} /\ \A o \in Readers \ {r} : rd'[o] = rd[o]
        /\ rd'[r].pc = "wait" => waiters' = waiters \cup {r}
        /\ rd'[r].pc = "idle" => waiters' = waiters
        /\ rd'[r].pos + rd'[r].size <= Size
    BY <1>4, <2>1, ConstantsAssumption DEF CallUnlock, Idle, ReaderState, RequestInv
  <2>3. WaiterInv' /\ RequestInv'
    BY <2>1, <2>2 DEF WaiterInv, RequestInv
  <2>4. QED
    BY <1>4, <2>3 DEF CallUnlock, CallerInv, TodoInv
<1>5. ASSUME NEW r \in Readers, Return(r)
      PROVE  LInv'
  <2>1. /\ rd[r].pc = "ret" /\ rd'[r].pc = "idle"
        /\ \A o \in Readers \ {r} : rd'[o] = rd[o]
        /\ rd'[r].pos + rd'[r].size <= Size
    BY <1>5, ConstantsAssumption DEF Return, Idle
  <2>2. QED
    BY <1>5, <2>1 DEF Return, CallerInv, WaiterInv, TodoInv, RequestInv, lockVars
<1>6. ASSUME NEW d \in Ids, DlNext(d)
      PROVE  LInv'
  BY <1>1, <1>6
     DEF DlNext, ReadEnd, IdleBegin, PutNothing, ReadAbandoned, IdleQuit,
         IdleKick, IdleTimeout, PutNew, PutSkip, PutFails, CloseStream,
         CountErrors, DlStep, lockVars
<1>7. ASSUME NEW t \in Threads, EnsureFind(t) \/ EnsureStart(t)
      PROVE  LInv'
  BY <1>7 DEF EnsureFind, EnsureStart, CallerInv, WaiterInv, TodoInv, RequestInv
<1>8. ASSUME NEW e, NEW S \in SUBSET waiters,
             rd' = Answer(S, e), waiters' = waiters \ S,
             mu' \notin Readers \/ mu' = mu, TodoInv'
      PROVE  LInv'
  <2>1. ASSUME NEW r \in Readers
        PROVE  /\ r \notin S => rd'[r] = rd[r]
               /\ rd'[r].pos = rd[r].pos /\ rd'[r].size = rd[r].size
    BY <1>8, AnswerIs
  <2>2. RequestInv'
    BY <2>1 DEF RequestInv
  <2>3. QED
    BY <1>8, <2>1, <2>2 DEF CallerInv, WaiterInv
<1>9. ASSUME NEW t \in Threads, KickNobody(t) \/ KickLock(t)
      PROVE  LInv'
  <2>1. Served \in SUBSET waiters /\ t \notin Readers
    BY <1>9 DEF Served, KickNobody, KickLock, WantsKick
  <2>2. waiters' = waiters \ Served /\ rd' = Answer(Served, "nil")
    BY <1>9, <2>1 DEF KickNobody, KickLock
  <2>3. TodoInv' /\ (mu' \notin Readers \/ mu' = mu)
    BY <1>9, <2>1, <2>2 DEF KickNobody, KickLock, TodoInv, lockVars
  <2>4. QED
    BY <1>8, <2>1, <2>2, <2>3
<1>10. ASSUME NEW t \in Threads, KickEnd(t)
       PROVE  LInv'
  <2>1. TodoInv' /\ mu' \notin Readers
    BY <1>10 DEF KickEnd, TodoInv
  <2>2. CASE GiveUp
    <3>1. rd' = Answer(waiters, lastErr) /\ waiters' = waiters \ waiters
      BY <1>10, <2>2 DEF KickEnd
    <3>2. QED
      BY <1>8, <2>1, <3>1
  <2>3. CASE ~ GiveUp
    BY <1>10, <2>1, <2>3 DEF KickEnd, CallerInv, WaiterInv, RequestInv
  <2>4. QED
    BY <2>2, <2>3
<1>11. CASE CloseEnd
  <2>1. rd' = Answer(waiters, "nil") /\ waiters' = waiters \ waiters /\ mu' = mu
    BY <1>11 DEF CloseEnd, lockVars
  <2>2. TodoInv'
    BY <1>11 DEF CloseEnd, TodoInv, lockVars
  <2>3. QED
    BY <1>8, <2>1, <2>2
<1>12. CASE TickerExit \/ Finished \/ UNCHANGED vars \/ CloseCancel \/ CloseSnapshot
            \/ CloseJoin \/ \E d \in Ids : CloseStop(d)
  BY <1>1, <1>12 DEF TickerExit, Finished, vars, CloseCancel, CloseSnapshot, CloseJoin,
                     CloseStop, lockVars
<1>13. QED
  BY <1>2, <1>3, <1>4, <1>5, <1>6, <1>7, <1>9, <1>10, <1>11, <1>12
     DEF Next, ReaderNext, LockNext, Kick, CloseNext

(* The invariant of the waiters holds in every reachable state. *)
LEMMA LInvariance == Spec => []LInv
<1>1. Init => LInv
  BY ThreadsAssumption, ConstantsAssumption
     DEF Init, LInv, CallerInv, WaiterInv, TodoInv, RequestInv, Idle, Threads
<1>2. QED
  BY <1>1, NextLInv, TInvariance, PTL DEF Spec

-----------------------------------------------------------------------------
(***************************************************************************)
(* Readers, where the item calls Close only when no reader is inside the   *)
(* scheduler (Item.opens = 0, or pendingAccesses = 0 and beingReset).      *)
(* A counted error is a real error, and from its first step on Close has   *)
(* the scheduler for itself.                                               *)
(***************************************************************************)
ErrorInv  == errorCount > 0 => lastErr # "nil"
AloneInv  == cpc # "off" => \A r \in Readers : rd[r].pc = "idle"

RInv == LInv /\ ErrorInv /\ AloneInv /\ DownloadNilMeansPresent

(* What a step does to one reader, as far as RInv is concerned. *)
Same(r)     == rd'[r] = rd[r]
Answered(r) == /\ rd'[r].pc = "ret" /\ rd'[r].pos = rd[r].pos
               /\ rd'[r].size = rd[r].size
               /\ rd'[r].res # "nil" \/ HasRange(r)

(* DownloadNilMeansPresent is kept when the cache only grows and readers keep
   their place or are answered properly. *)
LEMMA DownloadStep ==
  ASSUME TInv, DownloadNilMeansPresent, present \subseteq present',
         \A r \in Readers : Same(r) \/ rd'[r].pc # "ret" \/ Answered(r)
  PROVE  DownloadNilMeansPresent'
BY DEF DownloadNilMeansPresent, HasRange, RequestOf, Same, Answered

(* Every step keeps the invariant of the readers. *)
LEMMA NextRInv ==
  ASSUME CloseWithReaders = FALSE
  PROVE  TInv /\ SInv /\ RInv /\ [Next]_vars => RInv'
<1> SUFFICES ASSUME TInv, SInv, RInv, [Next]_vars
             PROVE  RInv'
  OBVIOUS
<1> USE ThreadsAssumption DEF TInv, TypeOK, RInv, LInv, Threads
<1>1. present \subseteq present' /\ LInv'
  BY NextQuiet, NextLInv DEF Quiet, EnsureStart
<1>2. ASSUME UNCHANGED rd, ErrorInv', AloneInv'
      PROVE  RInv'
  BY <1>1, <1>2, DownloadStep DEF Same
<1>3. ASSUME NEW r \in Readers, NEW q \in Requests, Call(r, q)
      PROVE  RInv'
  <2>1. /\ rd[r].pc = "idle" /\ cpc = "off" /\ cpc' = "off"
        /\ rd'[r].pc = "call" /\ \A o \in Readers \ {r} : rd'[o] = rd[o]
    BY <1>3 DEF Call, closeVars
  <2>2. DownloadNilMeansPresent'
    BY <1>1, <2>1, DownloadStep DEF Same
  <2>3. QED
    BY <1>1, <1>3, <2>1, <2>2 DEF Call, ErrorInv, AloneInv, errVars
<1>4. ASSUME NEW r \in Readers, CallLock(r)
      PROVE  RInv'
  BY <1>2, <1>4 DEF CallLock, ErrorInv, AloneInv, errVars, closeVars
<1>5. ASSUME NEW r \in Readers, CallUnlock(r)
      PROVE  RInv'
  <2>1. rd[r] \in ReaderState /\ rd[r].pc = "call" /\ cpc = "off" /\ cpc' = "off"
    BY <1>5 DEF CallUnlock, CallerInv, AloneInv, closeVars
  <2>2. rd'[r].pc \in {"wait", "idle"} /\ \A o \in Readers \ {r} : rd'[o] = rd[o]
    BY <1>5, <2>1 DEF CallUnlock, Idle, ReaderState
  <2>3. DownloadNilMeansPresent'
    BY <1>1, <2>2, DownloadStep DEF Same
  <2>4. QED
    BY <1>1, <1>5, <2>1, <2>3 DEF CallUnlock, ErrorInv, AloneInv, errVars
<1>6. ASSUME NEW r \in Readers, Return(r)
      PROVE  RInv'
  <2>1. /\ rd[r].pc = "ret" /\ rd'[r].pc = "idle"
        /\ \A o \in Readers \ {r} : rd'[o] = rd[o]
    BY <1>6 DEF Return, Idle
  <2>2. DownloadNilMeansPresent'
    BY <1>1, <2>1, DownloadStep DEF Same
  <2>3. QED
    BY <1>1, <1>6, <2>1, <2>2 DEF Return, ErrorInv, AloneInv, errVars, closeVars
<1>7. ASSUME NEW d \in Ids, DlNext(d)
      PROVE  RInv'
  <2>1. UNCHANGED <<rd, cpc>>
    BY <1>7 DEF DlNext, ReadEnd, IdleBegin, PutNothing, ReadAbandoned, IdleQuit,
                IdleKick, IdleTimeout, PutNew, PutSkip, PutFails, CloseStream,
                CountErrors, DlStep, closeVars
  <2>2. ErrorInv'
    <3>1. CASE CountErrors(d)
      BY <3>1, ConstantsAssumption DEF CountErrors, ErrorInv, errVars
    <3>2. CASE ~ CountErrors(d)
      <4>1. UNCHANGED errVars
        BY <1>7, <3>2 DEF DlNext, ReadEnd, IdleBegin, PutNothing, ReadAbandoned,
                IdleQuit, IdleKick, IdleTimeout, PutNew, PutSkip, PutFails,
                CloseStream, DlStep
      <4>2. QED
        BY <4>1 DEF errVars, ErrorInv
    <3>3. QED
      BY <3>1, <3>2
  <2>3. QED
    BY <1>2, <2>1, <2>2 DEF AloneInv
<1>8. ASSUME NEW t \in Threads, EnsureFind(t) \/ EnsureStart(t)
      PROVE  RInv'
  BY <1>2, <1>8 DEF EnsureFind, EnsureStart, ErrorInv, AloneInv, errVars, closeVars
<1>9. ASSUME NEW e, NEW S \in SUBSET waiters,
             rd' = Answer(S, e), e # "nil" \/ \A w \in S : HasRange(w),
             UNCHANGED <<errorCount, lastErr, cpc>>
      PROVE  RInv'
  <2>1. ASSUME NEW r \in Readers
        PROVE  (r \notin S /\ Same(r)) \/ (r \in S /\ Answered(r))
    BY <1>9, AnswerIs DEF Same, Answered
  <2>2. DownloadNilMeansPresent'
    BY <1>1, <2>1, DownloadStep
  <2>3. AloneInv'
    BY <1>9, <2>1 DEF AloneInv, WaiterInv, Same
  <2>4. QED
    BY <1>1, <1>9, <2>2, <2>3 DEF ErrorInv
<1>10. ASSUME NEW t \in Threads, KickNobody(t) \/ KickLock(t)
       PROVE  RInv'
  <2>1. Served \in SUBSET waiters /\ \A w \in Served : HasRange(w)
    BY DEF Served
  <2>2. QED
    BY <1>9, <1>10, <2>1 DEF KickNobody, KickLock, errVars, closeVars
<1>11. ASSUME NEW t \in Threads, KickEnd(t)
       PROVE  RInv'
  <2>1. CASE GiveUp
    <3>1. lastErr # "nil"
      BY <2>1, ConstantsAssumption DEF GiveUp, ErrorInv
    <3>2. QED
      BY <1>9, <1>11, <2>1, <3>1 DEF KickEnd, errVars, closeVars
  <2>2. CASE ~ GiveUp
    BY <1>2, <1>11, <2>2 DEF KickEnd, ErrorInv, AloneInv, errVars, closeVars
  <2>3. QED
    BY <2>1, <2>2
<1>12. CASE TickerExit \/ Finished \/ UNCHANGED vars \/ CloseSnapshot \/ CloseJoin
            \/ \E d \in Ids : CloseStop(d)
  <2>1. UNCHANGED <<rd, errorCount, lastErr>>
    BY <1>12 DEF TickerExit, Finished, vars, CloseSnapshot, CloseJoin, CloseStop,
                 errVars
  <2>2. cpc' # "off" => cpc # "off"
    BY <1>12 DEF TickerExit, Finished, vars, CloseSnapshot, CloseJoin, CloseStop,
                 closeVars
  <2>3. QED
    BY <1>2, <2>1, <2>2 DEF AloneInv, ErrorInv
<1>13. CASE CloseCancel
  BY <1>2, <1>13 DEF CloseCancel, AloneInv, ErrorInv, errVars
<1>14. CASE CloseEnd
  <2>1. waiters = {} /\ cpc # "off"
    BY <1>14 DEF CloseEnd, AloneInv, WaiterInv
  <2>2. rd' = rd
    BY <1>14, <2>1 DEF CloseEnd, Answer
  <2>3. QED
    BY <1>2, <1>14, <2>1, <2>2 DEF CloseEnd, AloneInv, ErrorInv, errVars
<1>15. QED
  BY <1>3, <1>4, <1>5, <1>6, <1>7, <1>8, <1>10, <1>11, <1>12, <1>13, <1>14
     DEF Next, ReaderNext, LockNext, Kick, CloseNext

(* The invariant of the readers holds in every reachable state. *)
LEMMA RInvariance ==
  ASSUME CloseWithReaders = FALSE
  PROVE  Spec => []RInv
<1>1. Init => RInv
  BY ThreadsAssumption, ConstantsAssumption
     DEF Init, RInv, LInv, CallerInv, WaiterInv, ErrorInv, AloneInv, TodoInv,
         RequestInv, DownloadNilMeansPresent, Idle, Threads
<1>2. TInv /\ SInv /\ RInv /\ [Next]_vars => RInv'
  BY NextRInv
<1>3. QED
  BY <1>1, <1>2, TInvariance, SInvariance, PTL DEF Spec

(***************************************************************************)
(* A Download that returns nil has its whole range in the cache, as long   *)
(* as Close is not called under a reader.                                  *)
(***************************************************************************)
THEOREM DownloadIsCorrect ==
  ASSUME CloseWithReaders = FALSE
  PROVE  Spec => []DownloadNilMeansPresent
<1>1. RInv => DownloadNilMeansPresent
  BY DEF RInv
<1>2. Spec => []RInv
  BY RInvariance
<1>3. QED
  BY <1>1, <1>2, PTL

-----------------------------------------------------------------------------
(***************************************************************************)
(* Close.  Every running stream is in the list, and once Close has taken   *)
(* its copy of the list no stream starts any more: the ones that still run *)
(* are those Close has not stopped yet and the one it waits for.           *)
(***************************************************************************)
ListedInv == cpc # "done" => \A d \in Ids : ~ Closed(d) => d \in dls

StopInv == /\ cpc # "join" => closing = Free
           /\ cpc \in {"loop", "join"} =>
                 \A d \in Ids : ~ Closed(d) => d \in closeTodo \cup {closing}

CInv == ListedInv /\ StopInv /\ CloseStopsFetches

(* Close has the scheduler for itself: nothing starts a stream any more. *)
LEMMA NoStartWhileClosing ==
  ASSUME TInv, RInv, NEW t \in Threads, EnsureStart(t)
  PROVE  cpc = "off"
<1>1. CASE mu \in Readers
  BY <1>1 DEF RInv, LInv, CallerInv, AloneInv
<1>2. CASE mu \notin Readers
  <2>1. cur \in waiters
    BY <1>2 DEF EnsureStart, RInv, LInv, TodoInv
  <2>2. cur \in Readers /\ rd[cur].pc = "wait"
    BY <2>1 DEF TInv, TypeOK, RInv, LInv, WaiterInv
  <2>3. QED
    BY <2>2 DEF RInv, AloneInv
<1>3. QED
  BY <1>1, <1>2

(* Every step keeps the invariant of Close. *)
LEMMA NextCInv == TInv /\ SInv /\ RInv /\ CInv /\ [Next]_vars => CInv'
<1> SUFFICES ASSUME TInv, SInv, RInv, CInv, [Next]_vars
             PROVE  CInv'
  OBVIOUS
<1> USE ThreadsAssumption DEF TInv, TypeOK, CInv, Threads
<1>1. ASSUME Quiet, NEW d \in Ids, ~ Closed(d)'
      PROVE  ~ Closed(d)
  BY <1>1 DEF Quiet, Keeps, Moves, Exits, Closed
<1>2. ASSUME Quiet, dls' = dls, UNCHANGED closeVars
      PROVE  CInv'
  BY <1>1, <1>2 DEF ListedInv, StopInv, CloseStopsFetches, closeVars
<1>3. ASSUME NEW t \in Threads, EnsureStart(t)
      PROVE  CInv'
  <2>1. cpc = "off" /\ cpc' = "off" /\ closing' = closing
    BY <1>3, NoStartWhileClosing DEF EnsureStart, closeVars
  <2>2. ListedInv'
    <3>1. ASSUME NEW d \in Ids, EnsureReuse(d)
          PROVE  ListedInv'
      <4>1. dl[d] \in DlState
        OBVIOUS
      <4>2. dl'[d].pc = dl[d].pc /\ \A e \in Ids \ {d} : dl'[e] = dl[e]
        BY <3>1, <4>1 DEF EnsureReuse, Extended, DlState
      <4>3. QED
        BY <2>1, <3>1, <4>2 DEF EnsureReuse, ListedInv, Open, Closed
    <3>2. ASSUME NEW d \in Ids, EnsureNew(d)
          PROVE  ListedInv'
      BY <2>1, <3>2 DEF EnsureNew, ListedInv, Open, Closed
    <3>3. CASE EnsureNothing
      BY <2>1, <3>3 DEF EnsureNothing, ListedInv, Open, Closed
    <3>4. Unused \subseteq Ids
      BY DEF Unused
    <3>5. QED
      BY <1>3, <3>1, <3>2, <3>3, <3>4 DEF EnsureStart
  <2>3. QED
    BY <2>1, <2>2 DEF StopInv, CloseStopsFetches
<1>4. CASE ~ \E t \in Threads : EnsureStart(t)
  <2>1. Quiet
    BY <1>4, NextQuiet
  <2>2. ASSUME NEW r \in Readers, ReaderNext(r)
        PROVE  CInv'
    BY <1>2, <2>1, <2>2 DEF ReaderNext, Call, CallLock, CallUnlock, Return
  <2>3. ASSUME NEW d \in Ids, DlNext(d)
        PROVE  CInv'
    BY <1>2, <2>1, <2>3
       DEF DlNext, ReadEnd, IdleBegin, PutNothing, ReadAbandoned, IdleQuit,
           IdleKick, IdleTimeout, PutNew, PutSkip, PutFails, CloseStream,
           CountErrors, DlStep
  <2>4. ASSUME NEW t \in Threads,
               EnsureFind(t) \/ KickLock(t) \/ KickNobody(t) \/ KickEnd(t)
        PROVE  CInv'
    BY <1>2, <2>1, <2>4 DEF EnsureFind, KickLock, KickNobody, KickEnd
  <2>5. CASE TickerExit \/ Finished \/ UNCHANGED vars
    BY <1>2, <2>1, <2>5 DEF TickerExit, Finished, vars, closeVars
  <2>6. CASE CloseCancel
    BY <1>1, <2>1, <2>6 DEF CloseCancel, ListedInv, StopInv, CloseStopsFetches
  <2>7. CASE CloseSnapshot
    BY <2>7 DEF CloseSnapshot, ListedInv, StopInv, CloseStopsFetches, Open, Closed
  <2>8. ASSUME NEW d \in Ids, CloseStop(d)
        PROVE  CInv'
    BY <1>1, <2>1, <2>8 DEF CloseStop, ListedInv, StopInv, CloseStopsFetches
  <2>9. CASE CloseJoin
    BY <2>9 DEF CloseJoin, ListedInv, StopInv, CloseStopsFetches, Closed
  <2>10. CASE CloseEnd
    BY <2>10 DEF CloseEnd, ListedInv, StopInv, CloseStopsFetches, Closed
  <2>11. QED
    BY <1>4, <2>2, <2>3, <2>4, <2>5, <2>6, <2>7, <2>8, <2>9, <2>10
       DEF Next, LockNext, Kick, CloseNext
<1>5. QED
  BY <1>3, <1>4

(***************************************************************************)
(* Once Close has returned no stream can write to the item any more, as    *)
(* long as Close is not called under a reader.                             *)
(***************************************************************************)
THEOREM CloseIsFinal ==
  ASSUME CloseWithReaders = FALSE
  PROVE  Spec => []CloseStopsFetches
<1>1. Init => CInv
  BY DEF Init, CInv, ListedInv, StopInv, CloseStopsFetches, Closed, Gone
<1>2. CInv => CloseStopsFetches
  BY DEF CInv
<1>3. Spec => []RInv
  BY RInvariance
<1>4. QED
  BY <1>1, <1>2, <1>3, NextCInv, TInvariance, SInvariance, PTL DEF Spec
-----------------------------------------------------------------------------
(***************************************************************************)
(* No reader is forgotten.  While mu is held the promise to the waiters is *)
(* kept one by one: the holder has already seen to those that are not in   *)
(* todo (to its own call too, if it is a reader).  The kick of the         *)
(* goroutine that holds mu counts for nothing any more, since it dispatched*)
(* the waiters before it looked after them: that goroutine serves a waiter *)
(* only by what it will do next, which is to end or to read on.            *)
(***************************************************************************)
First(w) == FirstMissing(rd[w].pos, rd[w].pos + rd[w].size)

Spans(d, p) == dl[d].start <= p /\ p < dl[d].max

Serves(d, w) ==
    IF d = mu
    THEN /\ dl[d].pc = "kick"
         /\ dl[d].stop \/ dl[d].err # "nil" \/ Spans(d, First(w))
    ELSE WillKick(d) \/ StreamsTo(d, First(w))

Handled == (waiters \cup ({mu} \cap Readers)) \ todo

ServedInv == \A w \in Handled : ~ HasRange(w) => \E d \in Ids : Serves(d, w)

(***************************************************************************)
(* What _ensureDownloader read from the item is still good when it looks   *)
(* for a stream, although others write in between: it covers what is       *)
(* missing of the request.                                                 *)
(***************************************************************************)
Covers(w, m) == /\ m.startNew /\ m.size > 0
                /\ rd[w].pos .. m.pos - 1 \subseteq present
                /\ rd[w].pos + rd[w].size <= m.pos + m.size

MissInv == step = "start" => HasRange(cur) \/ Covers(cur, miss)

OInv == ServedInv /\ MissInv

(* The first missing block of a request that is not cached lies in it. *)
LEMMA FirstIsMissing ==
  ASSUME TInv, NEW w \in Readers
  PROVE  /\ First(w) \in Nat
         /\ ~ HasRange(w) => /\ First(w) \notin present /\ rd[w].pos <= First(w)
                            /\ First(w) < rd[w].pos + rd[w].size
<1> DEFINE pos == rd[w].pos
           size == rd[w].size
           end == pos + size
<1>1. pos \in Nat /\ size \in Nat /\ end \in Nat /\ pos <= end
  <2>1. rd[w] \in ReaderState
    BY DEF TInv, TypeOK
  <2>2. rd[w].pos \in Nat /\ rd[w].size \in Nat
    BY <2>1, ConstantsAssumption DEF ReaderState
  <2>3. QED
    BY <2>2
<1>2. First(w) = FirstMissing(pos, end) /\ RequestOf(w) = pos .. end - 1
  BY <1>1 DEF First, RequestOf
<1> HIDE DEF pos, size, end
<1>3. /\ First(w) \in pos .. end
      /\ pos .. First(w) - 1 \subseteq present
      /\ First(w) = end \/ First(w) \notin present
  BY <1>1, <1>2, FirstMissingIsFirst
<1>4. First(w) = end => HasRange(w)
  BY <1>1, <1>2, <1>3 DEF HasRange
<1>5. QED
  BY <1>1, <1>3, <1>4 DEF pos, size, end

(* What _ensureDownloader reads covers what is missing of the request. *)
LEMMA ToFetchCovers ==
  ASSUME TInv, LInv, NEW w \in Readers
  PROVE  HasRange(w) \/ Covers(w, ToFetch(rd[w].pos, rd[w].size))
<1> SUFFICES ASSUME ~ HasRange(w)
             PROVE  Covers(w, ToFetch(rd[w].pos, rd[w].size))
  OBVIOUS
<1> DEFINE pos == rd[w].pos
           size == rd[w].size
           end == pos + size + ReadAhead
           m == FindMissing(pos, end)
           q == FirstMissing(pos, end)
<1>1. pos \in Nat /\ size \in Nat /\ end \in Nat /\ pos <= end /\ pos + size <= end
  BY ConstantsAssumption DEF TInv, TypeOK, ReaderState
<1>2. PICK b \in pos .. pos + size - 1 : b \notin present
  BY DEF HasRange, RequestOf
<1>3. pos + size <= Size
  BY DEF LInv, RequestInv
<1>4. /\ q \in pos .. end /\ pos .. q - 1 \subseteq present
      /\ q = end \/ q \notin present
  BY <1>1, FirstMissingIsFirst
<1>5. q <= b
  BY <1>1, <1>2, <1>4
<1>6. m.pos = q /\ m.end = (IF end <= Size THEN end ELSE Size)
  BY <1>1, <1>2 DEF FindMissing
<1>7. m.pos < m.end /\ pos + size <= m.end /\ m.pos \in Nat /\ m.end \in Nat
  BY <1>1, <1>2, <1>3, <1>4, <1>5, <1>6, ConstantsAssumption
<1>8. ToFetch(pos, size) =
        IF m.pos < m.end
        THEN [pos |-> m.pos, size |-> m.end - m.pos, startNew |-> TRUE]
        ELSE LET w2 == FindMissing(m.pos, m.pos + Window)
             IN  IF w2.pos < w2.end
                 THEN [pos |-> w2.pos, size |-> 0, startNew |-> TRUE]
                 ELSE [pos |-> m.pos + Window, size |-> 0, startNew |-> FALSE]
  BY DEF ToFetch
<1>9. ToFetch(pos, size) = [pos |-> m.pos, size |-> m.end - m.pos, startNew |-> TRUE]
  BY <1>7, <1>8
<1>10. pos .. m.pos - 1 \subseteq present
  BY <1>4, <1>6
<1>11. QED
  <2> HIDE DEF m, q
  <2>1. QED
    BY <1>1, <1>7, <1>9, <1>10 DEF Covers
(* A promise to a reader holds as long as its stream and its request do. *)
LEMMA ServesKept ==
  ASSUME TInv, NEW d \in Ids, NEW w \in Readers, Serves(d, w), present' = present,
         dl'[d] = dl[d], rd'[w].pos = rd[w].pos, rd'[w].size = rd[w].size,
         d = mu' <=> d = mu
  PROVE  Serves(d, w)'
<1>1. First(w)' = First(w)
  BY DEF First, FirstMissing
<1>2. QED
  BY <1>1 DEF Serves, Spans, WillKick, StreamsTo

(* A step that keeps the promises to the readers it leaves handled. *)
LEMMA ServedStep ==
  ASSUME TInv, ServedInv, present' = present,
         \A w \in Handled' : /\ w \in Handled
                             /\ rd'[w].pos = rd[w].pos /\ rd'[w].size = rd[w].size,
         \A d \in Ids, w \in Handled' : Serves(d, w) => Serves(d, w)'
  PROVE  ServedInv'
BY DEF ServedInv, HasRange, RequestOf

(***************************************************************************)
(* What a step of a stream leaves: it is going to kick the waiters, or it  *)
(* waits in Write, where it was waiting already or has nothing to deliver. *)
(***************************************************************************)
LEMMA DlNextLeaves ==
  ASSUME TInv, NEW d \in Ids, DlNext(d)
  PROVE  \/ dl'[d].pc \in {"kick", "close", "count", "final"}
         \/ /\ present' = present /\ dl'[d].pc \in {"idle", "put"}
            /\ dl'[d].start = dl[d].start /\ dl'[d].max = dl[d].max
            /\ dl[d].stop => dl'[d].stop
            /\ \/ dl[d].pc = "idle"
               \/ dl[d].pc = "read" /\ dl[d].offset >= dl[d].max
<1> USE DEF TInv, TypeOK
<1>1. dl[d] \in DlState
  OBVIOUS
<1>2. ASSUME NEW r, DlStep(d, r)
      PROVE  dl'[d] = r
  BY <1>2 DEF DlStep
<1>3. ASSUME NEW buf, NEW n \in {0, 1}, NEW skipped, NEW e,
             n = 1 \/ buf \in {"eof", "err"} \/ e # "nil"
      PROVE  AfterWrite(d, buf, n, skipped, e).pc \in {"kick", "close"}
  BY <1>1, <1>3 DEF AfterWrite, DlState
<1>4. ASSUME NEW buf \in {"data", "eof", "err"}, ReadEnd(d, buf)
      PROVE  dl'[d].pc = "close"
  BY <1>1, <1>2, <1>4 DEF ReadEnd, EndStream, DlState
<1>5. ASSUME NEW buf \in {"data", "eof", "err"}, PutNothing(d, buf)
      PROVE  dl'[d].pc \in {"kick", "close"}
  BY <1>2, <1>3, <1>5 DEF PutNothing
<1>6. ASSUME NEW buf \in {"data", "eof", "err"}, IdleBegin(d, buf)
      PROVE  /\ present' = present /\ dl'[d].pc = "idle"
             /\ dl'[d].start = dl[d].start /\ dl'[d].max = dl[d].max
             /\ dl[d].stop => dl'[d].stop
             /\ dl[d].pc = "read" /\ dl[d].offset >= dl[d].max
  <2>1. dl'[d] = [dl[d] EXCEPT !.pc = "idle", !.buf = buf]
    BY <1>2, <1>6 DEF IdleBegin
  <2>2. QED
    BY <1>1, <1>6, <2>1 DEF IdleBegin, CanRead, DlState
<1>7. CASE ReadAbandoned(d)
  <2>1. dl'[d].pc = "close"
    BY <1>1, <1>2, <1>7 DEF ReadAbandoned, EndStream, DlState
  <2>2. QED
    BY <2>1
<1>8. CASE IdleQuit(d) \/ IdleKick(d) \/ IdleTimeout(d)
  <2> DEFINE pc == IF dl[d].offset >= dl[d].max THEN "idle" ELSE "put"
  <2>1. /\ present' = present /\ dl[d].pc = "idle"
        /\ \/ dl'[d] = [dl[d] EXCEPT !.pc = "put"]
           \/ dl'[d] = [dl[d] EXCEPT !.kick = FALSE, !.pc = pc]
           \/ dl'[d] = [dl[d] EXCEPT !.pc = "put", !.stop = TRUE]
    BY <1>2, <1>8 DEF IdleQuit, IdleKick, IdleTimeout
  <2>2. pc \in {"idle", "put"}
    OBVIOUS
  <2> HIDE DEF pc
  <2>3. dl'[d].pc \in {"idle", "put"}
    BY <1>1, <2>1, <2>2 DEF DlState
  <2>4. dl'[d].start = dl[d].start /\ dl'[d].max = dl[d].max
    BY <1>1, <2>1 DEF DlState
  <2>5. dl[d].stop => dl'[d].stop
    BY <1>1, <2>1 DEF DlState
  <2>6. QED
    BY <2>1, <2>3, <2>4, <2>5
<1>9. CASE PutNew(d) \/ PutSkip(d)
  <2>1. dl'[d].pc \in {"kick", "close"}
    BY <1>2, <1>3, <1>9 DEF PutNew, PutSkip
  <2>2. QED
    BY <2>1
<1>10. ASSUME NEW e \in {"nospace", "io"}, PutFails(d, e)
       PROVE  dl'[d].pc \in {"kick", "close"}
  BY <1>2, <1>3, <1>10 DEF PutFails
<1>11. CASE CloseStream(d)
  <2>1. dl'[d].pc = "count"
    BY <1>2, <1>11 DEF CloseStream, Gone
  <2>2. QED
    BY <2>1
<1>12. CASE CountErrors(d)
  <2>1. dl'[d].pc = "final"
    BY <1>12 DEF CountErrors, Gone
  <2>2. QED
    BY <2>1
<1>13. QED
  BY <1>4, <1>5, <1>6, <1>7, <1>8, <1>9, <1>10, <1>11, <1>12 DEF DlNext

(* The steps of the streams keep the promises: what is written, or what ends
   a stream, comes with a kick, and a stream does not idle before a block it
   has promised. *)
LEMMA DlNextServes ==
  ASSUME TInv, SInv, ServedInv, NEW d \in Ids, DlNext(d)
  PROVE  ServedInv'
<1> USE DEF TInv, TypeOK, SInv
<1>1. UNCHANGED <<rd, waiters, mu, todo>>
  BY DEF DlNext, ReadEnd, IdleBegin, PutNothing, ReadAbandoned, IdleQuit,
         IdleKick, IdleTimeout, PutNew, PutSkip, PutFails, CloseStream,
         CountErrors, DlStep, lockVars
<1>2. /\ d # mu /\ present \subseteq present'
      /\ \A e \in Ids \ {d} : dl'[e] = dl[e]
  BY DlNextQuiet DEF KickerInv, Quiet
<1>3. CASE dl'[d].pc \in {"kick", "close", "count", "final"}
  BY <1>1, <1>2, <1>3 DEF ServedInv, Serves, WillKick
<1>4. CASE /\ present' = present /\ dl'[d].pc \in {"idle", "put"}
           /\ dl'[d].start = dl[d].start /\ dl'[d].max = dl[d].max
           /\ dl[d].stop => dl'[d].stop
           /\ \/ dl[d].pc = "idle"
              \/ dl[d].pc = "read" /\ dl[d].offset >= dl[d].max
  <2> SUFFICES ASSUME NEW w \in Handled, ~ HasRange(w)', NEW e \in Ids, Serves(e, w)
               PROVE  Serves(e, w)'
    BY <1>1, <1>4 DEF ServedInv, Handled, HasRange, RequestOf
  <2>1. w \in Readers /\ ~ HasRange(w)
    BY <1>1, <1>4 DEF Handled, HasRange, RequestOf
  <2>2. CASE e # d
    BY <1>1, <1>2, <1>4, <2>1, <2>2, ServesKept
  <2>3. CASE e = d /\ WillKick(d)
    BY <1>1, <1>2, <1>4, <2>3 DEF Serves, WillKick
  <2>4. CASE e = d /\ StreamsTo(d, First(w))
    <3>1. First(w) \in Nat /\ First(w) \notin present /\ First(w)' = First(w)
      BY <1>1, <1>4, <2>1, FirstIsMissing DEF First, FirstMissing
    <3>2. dl[d].start \in Nat /\ dl[d].offset \in Nat /\ dl[d].max \in Nat
      BY DEF DlState
    <3>3. ~ First(w) \in dl[d].start .. dl[d].offset - 1
      BY <2>4, <3>1 DEF StreamsTo, StreamedIsPresent
    <3>4. dl[d].offset < dl[d].max
      BY <2>4, <3>1, <3>2, <3>3 DEF StreamsTo
    <3>5. StreamsTo(d, First(w))'
      BY <1>4, <2>4, <3>1 DEF StreamsTo
    <3>6. QED
      BY <1>1, <1>2, <2>4, <3>5 DEF Serves
  <2>5. QED
    BY <1>2, <2>2, <2>3, <2>4 DEF Serves
<1>5. QED
  BY <1>3, <1>4, DlNextLeaves

(***************************************************************************)
(* _ensureDownloader makes the promise to the waiter it works for: the     *)
(* stream it extends has not passed the first missing block, or it would   *)
(* be cached, and the stream it starts begins at or before it.             *)
(***************************************************************************)
LEMMA EnsureStartServes ==
  ASSUME TInv, SInv, LInv, OInv, NEW t \in Threads, EnsureStart(t)
  PROVE  ServedInv'
<1> USE DEF TInv, TypeOK, SInv, OInv
<1> PICK c \in Readers : c = cur
  BY DEF EnsureStart, LInv, TodoInv
<1>1. /\ UNCHANGED <<present, rd, waiters, mu>> /\ todo' = todo \ {c}
      /\ HasRange(c) \/ Covers(c, miss)
  BY DEF EnsureStart, MissInv
<1>2. Handled' \subseteq Handled \cup {c} /\ Handled \subseteq Readers
  BY <1>1 DEF Handled
<1>3. ASSUME NEW w \in Readers
      PROVE  /\ First(w) \in Nat /\ First(w)' = First(w)
             /\ HasRange(w)' <=> HasRange(w)
  BY <1>1, FirstIsMissing DEF First, FirstMissing, HasRange, RequestOf
<1>4. ~ HasRange(c) => /\ First(c) \in Nat /\ miss.pos <= First(c)
                         /\ First(c) < miss.pos + miss.size
                         /\ miss.startNew /\ miss.size > 0
  <2> SUFFICES ASSUME ~ HasRange(c)
               PROVE  /\ First(c) \in Nat /\ miss.pos <= First(c)
                      /\ First(c) < miss.pos + miss.size
                      /\ miss.startNew /\ miss.size > 0
    OBVIOUS
  <2>1. /\ First(c) \in Nat /\ First(c) \notin present
        /\ rd[c].pos <= First(c) /\ First(c) < rd[c].pos + rd[c].size
    BY <1>1, FirstIsMissing
  <2>2. rd[c] \in ReaderState
    OBVIOUS
  <2>3. /\ rd[c].pos \in Nat /\ rd[c].size \in Nat
        /\ miss.pos \in Nat /\ miss.size \in Nat
    BY <2>2, ConstantsAssumption DEF ReaderState
  <2>4. Covers(c, miss)
    BY <1>1
  <2>5. miss.pos <= First(c)
    BY <2>1, <2>3, <2>4 DEF Covers
  <2>6. QED
    BY <2>1, <2>3, <2>4, <2>5 DEF Covers
<1>5. ASSUME \A w \in Readers, e \in Ids : Serves(e, w) => Serves(e, w)',
             ~ HasRange(c) => \E e \in Ids : Serves(e, c)'
      PROVE  ServedInv'
  BY <1>1, <1>2, <1>3, <1>5 DEF ServedInv
<1>6. ASSUME NEW d \in Ids, EnsureReuse(d)
      PROVE  ServedInv'
  <2>1. dl[d] \in DlState /\ miss.pos \in Nat /\ miss.size \in Nat
    OBVIOUS
  <2> DEFINE end == miss.pos + miss.size
  <2>2. /\ dl'[d].start = dl[d].start /\ dl'[d].pc = dl[d].pc
        /\ dl'[d].err = dl[d].err /\ dl'[d].stop = dl[d].stop
    BY <1>6, <2>1 DEF EnsureReuse, Extended, DlState
  <2>3. dl'[d].max = IF end > dl[d].max THEN end ELSE dl[d].max
    BY <1>6, <2>1 DEF EnsureReuse, Extended, DlState
  <2>4. \A e \in Ids \ {d} : dl'[e] = dl[e]
    BY <1>6 DEF EnsureReuse
  <2>5. /\ dl[d].start <= miss.pos /\ ~ Closed(d)
    BY <1>6 DEF EnsureReuse, Reaches, Open
  <2>6. dl[d].start \in Nat /\ dl[d].max \in Nat /\ dl'[d].max \in Nat /\ end \in Nat
        /\ dl[d].max <= dl'[d].max /\ end <= dl'[d].max
    BY <2>1, <2>3 DEF DlState
  <2> HIDE DEF end
  <2>7. ASSUME NEW w \in Readers, Serves(d, w)
        PROVE  Serves(d, w)'
    <3>1. First(w) \in Nat /\ First(w)' = First(w)
      BY <1>3
    <3>2. Spans(d, First(w)) => Spans(d, First(w))'
      BY <3>1, <1>3, <2>2, <2>6 DEF Spans
    <3>3. QED
      BY <1>1, <2>2, <2>7, <3>1, <3>2 DEF Serves, WillKick, StreamsTo, Spans
  <2>8. ASSUME NEW w \in Readers, NEW e \in Ids, Serves(e, w)
        PROVE  Serves(e, w)'
    BY <1>1, <2>4, <2>7, <2>8, ServesKept
  <2>9. ~ HasRange(c) => Serves(d, c)'
    <3> SUFFICES ASSUME ~ HasRange(c)
                 PROVE  Serves(d, c)'
      OBVIOUS
    <3>1. First(c)' = First(c) /\ First(c) \in Nat
      BY <1>3
    <3>2. Spans(d, First(c))'
      BY <1>4, <2>1, <2>2, <2>5, <2>6, <3>1 DEF Spans, end
    <3>3. dl'[d].pc \in {"read", "idle", "put", "kick", "close"}
      BY <2>1, <2>2, <2>5 DEF Closed, DlState
    <3>4. CASE d = mu
      <4>1. dl'[d].pc = "kick"
        BY <2>2, <2>5, <3>4 DEF KickerInv, Closed
      <4>2. QED
        BY <1>1, <3>1, <3>2, <3>4, <4>1 DEF Serves, Spans
    <3>5. CASE d # mu
      BY <1>1, <3>1, <3>2, <3>3, <3>5 DEF Serves, StreamsTo, WillKick, Spans
    <3>6. QED
      BY <3>4, <3>5
  <2>10. QED
    BY <1>5, <2>8, <2>9
<1>7. ASSUME NEW d \in Unused, EnsureNew(d)
      PROVE  ServedInv'
  <2>1. d \in Ids /\ dl[d].pc = "gone" /\ d # mu
    BY DEF Unused, KickerInv
  <2>2. /\ dl'[d].start = miss.pos /\ dl'[d].max = miss.pos + miss.size
        /\ dl'[d].pc = "read" /\ \A e \in Ids \ {d} : dl'[e] = dl[e]
    BY <1>7, <2>1 DEF EnsureNew, Started, Gone
  <2>3. ASSUME NEW w \in Readers, NEW e \in Ids, Serves(e, w)
        PROVE  Serves(e, w)'
    <3>1. e # d
      BY <2>1, <2>3 DEF Serves, WillKick, StreamsTo
    <3>2. QED
      BY <1>1, <2>2, <2>3, <3>1, ServesKept
  <2>4. ~ HasRange(c) => Serves(d, c)'
    <3>1. First(c)' = First(c)
      BY <1>3
    <3>2. QED
      BY <1>1, <1>4, <2>1, <2>2, <3>1 DEF Serves, StreamsTo
  <2>5. QED
    BY <1>5, <2>1, <2>3, <2>4
<1>8. CASE EnsureNothing
  <2>1. HasRange(c)
    BY <1>4, <1>8 DEF EnsureNothing
  <2>2. ASSUME NEW w \in Readers, NEW e \in Ids, Serves(e, w)
        PROVE  Serves(e, w)'
    BY <1>1, <1>8, <2>2, ServesKept DEF EnsureNothing
  <2>3. QED
    BY <1>5, <2>1, <2>2
<1>9. QED
  BY <1>6, <1>7, <1>8 DEF EnsureStart

(* The kicker lets go of mu with every waiter seen to, and then ends or reads on. *)
LEMMA KickEndServes ==
  ASSUME TInv, SInv, LInv, ServedInv, NEW t \in Threads, KickEnd(t)
  PROVE  ServedInv'
<1> USE ThreadsAssumption DEF TInv, TypeOK, SInv, Threads
<1>1. mu = t /\ mu' = Free /\ t \notin Readers /\ todo = {} /\ todo' = {} /\ present' = present
  BY DEF KickEnd
<1>2. CASE GiveUp
  BY <1>1, <1>2 DEF KickEnd, ServedInv, Handled
<1>3. CASE ~ GiveUp
  <2>1. UNCHANGED <<rd, waiters>> /\ KickReturn(t, "nil")
    BY <1>3 DEF KickEnd
  <2>2. Handled' = waiters /\ Handled = waiters
    BY <1>1, <2>1 DEF Handled
  <2>3. \A d \in Ids \ {t} : dl'[d] = dl[d]
    BY <2>1 DEF KickReturn
  <2>4. ASSUME NEW d \in Ids, NEW w \in waiters, Serves(d, w), d # t
        PROVE  Serves(d, w)'
    BY <1>1, <2>1, <2>3, <2>4, ServesKept
  <2>5. ASSUME NEW w \in waiters, t \in Ids, Serves(t, w)
        PROVE  Serves(t, w)'
    <3>1. dl[t] \in DlState /\ dl[t].pc = "kick" /\ t # Ticker
      BY <1>1, <2>5 DEF Serves
    <3> DEFINE err == IF dl[t].err = "nil" THEN "nil" ELSE dl[t].err
               pc == IF err # "nil" THEN "close" ELSE "read"
    <3>2. dl'[t] = [dl[t] EXCEPT !.pc = pc, !.err = err]
      BY <2>1, <2>5, <3>1 DEF KickReturn
    <3>3. dl[t].err # "nil" => pc = "close"
      OBVIOUS
    <3>4. pc \in {"close", "read"}
      OBVIOUS
    <3> HIDE DEF err, pc
    <3>5. /\ dl'[t].pc = pc /\ dl'[t].stop = dl[t].stop
          /\ dl'[t].start = dl[t].start /\ dl'[t].max = dl[t].max
      BY <3>1, <3>2 DEF DlState
    <3>6. First(w)' = First(w)
      BY <1>1, <2>1 DEF First, FirstMissing
    <3>7. t # mu'
      BY <1>1, <2>5
    <3>8. QED
      BY <1>1, <2>5, <3>3, <3>4, <3>5, <3>6, <3>7
         DEF Serves, Spans, WillKick, StreamsTo
  <2>6. ASSUME NEW d \in Ids, NEW w \in Handled', Serves(d, w)
        PROVE  Serves(d, w)'
    BY <2>2, <2>4, <2>5, <2>6
  <2>7. QED
    BY <1>1, <2>1, <2>2, <2>6, ServedStep
<1>4. QED
  BY <1>2, <1>3

(* Close stops a stream: that is one more reason for it to end with a kick. *)
LEMMA CloseStopServes ==
  ASSUME TInv, SInv, ServedInv, NEW d \in Ids, CloseStop(d)
  PROVE  ServedInv'
<1> USE DEF TInv, TypeOK
<1>1. UNCHANGED <<present, rd, waiters, mu, todo>>
  BY DEF CloseStop, lockVars
<1>2. dl[d] \in DlState
  OBVIOUS
<1>3. /\ dl'[d].pc = dl[d].pc /\ dl'[d].start = dl[d].start
      /\ dl'[d].max = dl[d].max /\ dl'[d].err = dl[d].err
      /\ \A e \in Ids \ {d} : dl'[e] = dl[e]
  BY <1>2 DEF CloseStop, DlState
<1>4. dl'[d].stop <=> ~ Closed(d)
  BY <1>2 DEF CloseStop, DlState
<1>5. Handled' = Handled /\ Handled \subseteq Readers
  BY <1>1 DEF Handled
<1>6. ASSUME NEW w \in Readers, Serves(d, w)
      PROVE  Serves(d, w)'
  <2>1. First(w)' = First(w)
    BY <1>1 DEF First, FirstMissing
  <2>2. dl[d].pc \in {"kick", "close", "read", "idle", "put"} => dl'[d].stop
    BY <1>4 DEF Closed
  <2>3. QED
    BY <1>1, <1>2, <1>3, <1>6, <2>1, <2>2
       DEF Serves, Spans, WillKick, StreamsTo, DlState
<1>7. ASSUME NEW e \in Ids, NEW w \in Readers, Serves(e, w)
      PROVE  Serves(e, w)'
  BY <1>1, <1>3, <1>6, <1>7, ServesKept
<1>8. QED
  BY <1>1, <1>5, <1>7, ServedStep

(* Every step keeps the promises to the readers. *)
LEMMA NextServes ==
  ASSUME TInv, SInv, LInv, OInv, [Next]_vars
  PROVE  ServedInv'
<1> USE ThreadsAssumption DEF TInv, TypeOK, OInv, Threads
<1>1. ASSUME UNCHANGED <<present, dl>>,
             \A d \in Ids : d = mu' <=> d = mu,
             \A w \in Handled' : /\ w \in Handled
                                 /\ rd'[w].pos = rd[w].pos /\ rd'[w].size = rd[w].size
      PROVE  ServedInv'
  <2>1. Handled' \subseteq Readers
    BY <1>1 DEF Handled
  <2>2. ASSUME NEW d \in Ids, NEW w \in Handled', Serves(d, w)
        PROVE  Serves(d, w)'
    BY <1>1, <2>1, <2>2, ServesKept
  <2>3. QED
    BY <1>1, <2>2, ServedStep
<1>2. ASSUME NEW r \in Readers, (\E q \in Requests : Call(r, q)) \/ Return(r)
      PROVE  ServedInv'
  <2>1. /\ UNCHANGED <<present, dl, waiters, mu, todo>> /\ rd[r].pc \in {"idle", "ret"}
        /\ \A o \in Readers \ {r} : rd'[o] = rd[o]
    BY <1>2 DEF Call, Return, lockVars
  <2>2. r \notin Handled /\ Handled' = Handled
    BY <2>1 DEF Handled, LInv, CallerInv, WaiterInv
  <2>3. \A w \in Handled : rd'[w] = rd[w]
    BY <2>1, <2>2 DEF Handled
  <2>4. QED
    BY <1>1, <2>1, <2>2, <2>3
<1>3. ASSUME NEW r \in Readers, CallLock(r)
      PROVE  ServedInv'
  <2>1. /\ UNCHANGED <<present, dl, waiters, rd>> /\ mu = Free /\ mu' = r
        /\ todo' = {r} /\ todo = {}
    BY <1>3 DEF CallLock, LInv, TodoInv
  <2>2. Handled' \subseteq Handled
    BY <2>1 DEF Handled
  <2>3. QED
    BY <1>1, <2>1, <2>2
<1>4. ASSUME NEW r \in Readers, CallUnlock(r)
      PROVE  ServedInv'
  <2>1. /\ UNCHANGED <<present, dl>> /\ mu = r /\ mu' = Free
        /\ todo' = {} /\ todo = {} /\ rd[r] \in ReaderState
        /\ \A o \in Readers \ {r} : rd'[o] = rd[o]
    BY <1>4 DEF CallUnlock
  <2>2. r \notin waiters
    BY <1>4 DEF CallUnlock, LInv, CallerInv, WaiterInv
  <2>3. Handled' = waiters' /\ Handled = waiters \cup {r}
    BY <2>1 DEF Handled
  <2>4. /\ waiters' \subseteq waiters \cup {r}
        /\ r \in waiters' => rd'[r].pos = rd[r].pos /\ rd'[r].size = rd[r].size
    BY <1>4, <2>1, <2>2 DEF CallUnlock, ReaderState
  <2>5. QED
    BY <1>1, <2>1, <2>3, <2>4
<1>5. ASSUME NEW t \in Threads, EnsureFind(t)
      PROVE  ServedInv'
  <2>1. UNCHANGED <<present, dl, rd, waiters, mu, todo>>
    BY <1>5 DEF EnsureFind
  <2>2. QED
    BY <1>1, <2>1 DEF Handled
<1>6. ASSUME NEW t \in Threads, KickNobody(t) \/ KickLock(t)
      PROVE  ServedInv'
  <2>1. Handled' = {}
    BY <1>6 DEF KickNobody, KickLock, WantsKick, Handled, lockVars
  <2>2. QED
    BY <2>1 DEF ServedInv
<1>7. CASE CloseEnd
  <2>1. Handled' = {}
    BY <1>7 DEF CloseEnd, Handled, lockVars
  <2>2. QED
    BY <2>1 DEF ServedInv
<1>8. CASE TickerExit \/ Finished \/ UNCHANGED vars \/ CloseCancel \/ CloseSnapshot
           \/ CloseJoin
  <2>1. UNCHANGED <<present, dl, rd, waiters, mu, todo>>
    BY <1>8 DEF TickerExit, Finished, vars, CloseCancel, CloseSnapshot, CloseJoin,
                lockVars
  <2>2. QED
    BY <1>1, <2>1 DEF Handled
<1>9. QED
  BY <1>2, <1>3, <1>4, <1>5, <1>6, <1>7, <1>8, DlNextServes, EnsureStartServes,
     KickEndServes, CloseStopServes
     DEF Next, ReaderNext, LockNext, Kick, CloseNext

(* Every step keeps what _ensureDownloader read good. *)
LEMMA NextMiss ==
  ASSUME TInv, SInv, LInv, OInv, [Next]_vars
  PROVE  MissInv'
<1> USE ThreadsAssumption DEF TInv, TypeOK, OInv, Threads
<1>1. present \subseteq present'
  BY NextQuiet DEF Quiet, EnsureStart
<1>2. ASSUME NEW t, EnsureFind(t) \/ (t \in Readers /\ CallLock(t))
      PROVE  MissInv'
  <2>1. PICK w \in Readers : /\ cur' = w /\ miss' = ToFetch(rd[w].pos, rd[w].size)
                             /\ UNCHANGED <<present, rd>>
    BY <1>2 DEF EnsureFind, CallLock
  <2>2. HasRange(w) \/ Covers(w, ToFetch(rd[w].pos, rd[w].size))
    BY ToFetchCovers
  <2>3. QED
    BY <2>1, <2>2 DEF MissInv, Covers, HasRange, RequestOf
<1>3. ASSUME step' # "start"
      PROVE  MissInv'
  BY <1>3 DEF MissInv
<1>4. ASSUME UNCHANGED <<step, cur, miss>>,
             step = "start" => /\ rd'[cur].pos = rd[cur].pos
                               /\ rd'[cur].size = rd[cur].size
      PROVE  MissInv'
  BY <1>1, <1>4 DEF MissInv, Covers, HasRange, RequestOf
<1>5. step = "start" => /\ cur \in Readers /\ mu # Free
                        /\ rd[cur].pc \in {"call", "wait"}
  BY DEF LInv, TodoInv, CallerInv, WaiterInv
<1>6. ASSUME NEW r \in Readers, (\E q \in Requests : Call(r, q)) \/ Return(r)
      PROVE  MissInv'
  BY <1>4, <1>5, <1>6 DEF Call, Return, lockVars
<1>7. ASSUME NEW r \in Readers, CallUnlock(r)
      PROVE  MissInv'
  BY <1>3, <1>7 DEF CallUnlock
<1>8. ASSUME NEW d \in Ids, DlNext(d)
      PROVE  MissInv'
  BY <1>4, <1>8
     DEF DlNext, ReadEnd, IdleBegin, PutNothing, ReadAbandoned, IdleQuit,
         IdleKick, IdleTimeout, PutNew, PutSkip, PutFails, CloseStream,
         CountErrors, DlStep, lockVars
<1>9. ASSUME NEW t \in Threads, EnsureStart(t) \/ KickLock(t) \/ KickEnd(t)
      PROVE  MissInv'
  BY <1>3, <1>9 DEF EnsureStart, KickLock, KickEnd
<1>10. ASSUME (\E t \in Threads : KickNobody(t)) \/ CloseEnd
       PROVE  MissInv'
  BY <1>4, <1>5, <1>10 DEF KickNobody, CloseEnd, lockVars
<1>11. CASE TickerExit \/ Finished \/ UNCHANGED vars \/ CloseCancel \/ CloseSnapshot
            \/ CloseJoin \/ \E d \in Ids : CloseStop(d)
  BY <1>4, <1>11 DEF TickerExit, Finished, vars, CloseCancel, CloseSnapshot,
                     CloseJoin, CloseStop, lockVars
<1>12. QED
  BY <1>2, <1>6, <1>7, <1>8, <1>9, <1>10, <1>11
     DEF Next, ReaderNext, LockNext, Kick, CloseNext

(***************************************************************************)
(* A reader blocked on missing data is never forgotten: whenever mu is     *)
(* free, some goroutine is going to kick the waiters or streams to the     *)
(* reader's first missing block without idling before it.  It holds for    *)
(* every window and read-ahead, whatever the origin and the disk do, and   *)
(* also when Close is called under the readers.                            *)
(***************************************************************************)
THEOREM NoReaderIsForgotten == Spec => []NoOrphanWaiter
<1>1. Init => OInv
  BY ThreadsAssumption DEF Init, OInv, ServedInv, MissInv, Handled, Threads
<1>2. TInv /\ SInv /\ LInv /\ OInv /\ [Next]_vars => OInv'
  BY NextServes, NextMiss DEF OInv
<1>3. TInv /\ LInv /\ OInv => NoOrphanWaiter
  BY ThreadsAssumption
     DEF OInv, LInv, TodoInv, ServedInv, Handled, Serves, NoOrphanWaiter, First, Threads
<1>4. QED
  BY <1>1, <1>2, <1>3, TInvariance, SInvariance, LInvariance, PTL DEF Spec
=============================================================================
