-------------------------- MODULE StreamBufProofs --------------------------
(***************************************************************************)
(* What holds of the asynchronous buffer for every number and size of      *)
(* buffers, every raw reader and every use of the pool by others.          *)
(***************************************************************************)
EXTENDS StreamBuf, TLAPS

USE DEF Stoppers

-----------------------------------------------------------------------------
(* The pool's counters. *)
PoolInv ==
    /\ PoolTypeOK /\ RestIsFlushed
    /\ alloced = inUse + cached
    /\ flushPending => timer

(* dl.mu: whoever is inside StopBuffering, or in the part of the downloader *)
(* that follows it, holds it; exit is open until the one who found it open *)
(* closes it.                                                              *)
LockInv ==
    /\ \A t \in Stoppers : sb[t] # "off" => dlMu = t
    /\ \A t \in Stoppers : sb[t] = "close" => ~exit
    /\ dpc \in {"timeout", "skip", "abandon", "drain", "rawclose"} => dlMu = "dl"
    /\ dpc \in {"drain", "rawclose"} => sb["dl"] = "off"
    /\ spc = "stopping" => dlMu = "stopper"
    /\ ClosedOnce

(* The raw reader is closed after the goroutine that reads it closed ready. *)
CloseInv ==
    /\ readyClosed => fpc \in {"closeExited", "gone"}
    /\ dpc \in {"rawclose", "done"} => readyClosed
    /\ ~in.open => readyClosed

(* Inside Write there is a buffer to write. *)
CurInv == dpc \in {"write", "idle", "timeout", "skip", "kick"} => cur # <<>>

(* Every buffer of the stream was paid for with a token, and no more are   *)
(* returned than were taken.                                               *)
TokenInv ==
    /\ token + Held <= Buffers
    /\ \A i \in 1 .. Len(ready) :
          ready[i].err # "none" => i = Len(ready) /\ fpc \notin {"select", "read", "send"}

(* The pool has lent at least the buffers that this stream holds.          *)
OwnInv == Held <= inUse

(* The goroutine fills where the last buffer ends, until the buffers are   *)
(* drained.                                                                *)
Drained == dpc \in {"drain", "rawclose", "done"}
NextPos == IF cur = <<>> THEN offset ELSE offset + cur[1].len
Tip == IF ready = <<>> THEN NextPos ELSE ready[Len(ready)].pos + ready[Len(ready)].len

FillInv ==
    /\ fpc = "read" => in.pos = fbuf.pos
    /\ fpc = "send" => in.pos = fbuf.pos + fbuf.len
    /\ ~Drained \/ ready # <<>> =>
          /\ fpc = "select" => in.pos = Tip
          /\ fpc \in {"read", "send"} => fbuf.pos = Tip

Inv == TypeOK /\ PoolInv /\ LockInv /\ CloseInv /\ CurInv /\ TokenInv
       /\ OwnInv /\ InOrder /\ FillInv

-----------------------------------------------------------------------------
(* GetN takes from the cache first; what it holds never falls below        *)
(* minFill.                                                                *)
LEMMA GetNKeepsPool ==
  ASSUME PoolInv, NEW n \in Nat, GetN(n)
  PROVE  PoolInv'
BY PoolAssumption DEF PoolInv, PoolTypeOK, RestIsFlushed, GetN, Least, updateMinFill

(* PutN of what was lent keeps the counters and leaves the timer armed.    *)
LEMMA PutNKeepsPool ==
  ASSUME PoolInv, NEW n \in 0 .. inUse, PutN(n)
  PROVE  PoolInv'
<1>1. /\ cached' \in 0 .. PoolSize /\ minFill' \in Nat /\ inUse' \in Nat
      /\ alloced' \in Nat /\ alloced' = inUse' + cached' /\ minFill' <= cached'
  BY PoolAssumption
     DEF PoolInv, PoolTypeOK, RestIsFlushed, PutN, Least, updateMinFill
<1>2. flushPending' = TRUE /\ timer' = TRUE
  BY Zenon DEF PoolInv, PutN, kickFlusher
<1> QED  BY <1>1, <1>2 DEF PoolInv, PoolTypeOK, RestIsFlushed

(* flushAged frees no more than there is. *)
LEMMA FlushKeepsPool ==
  ASSUME PoolInv, FlushAged
  PROVE  PoolInv'
BY PoolAssumption DEF PoolInv, PoolTypeOK, RestIsFlushed, FlushAged

(* A step that leaves the pool alone. *)
LEMMA RestKeepsPool ==
  ASSUME PoolInv, UNCHANGED poolVars
  PROVE  PoolInv'
BY DEF PoolInv, PoolTypeOK, RestIsFlushed, poolVars

(* Whatever a step is, it uses the pool through these operations only. *)
LEMMA StepKeepsPool ==
  ASSUME TypeOK, PoolInv, OwnInv, [Next]_vars
  PROVE  PoolInv'
<1>a. /\ Held \in Nat /\ Len(ready) \in Nat /\ inUse \in Nat
      /\ cur # <<>> \/ ready # <<>> => Held > 0
  BY DEF TypeOK, PoolInv, PoolTypeOK, Held
<1>1. CASE GetN(1)  BY <1>1, GetNKeepsPool
<1>2. CASE PutN(1) /\ (cur # <<>> \/ ready # <<>>)
  <2>1. 1 \in 0 .. inUse
    BY <1>2, <1>a DEF OwnInv
  <2> QED  BY <1>2, <2>1, PutNKeepsPool
<1>3. CASE FlushAged  BY <1>3, FlushKeepsPool
<1>4. CASE UNCHANGED poolVars  BY <1>4, RestKeepsPool
<1>5. CASE \E n \in 0 .. inUse : PutN(n)  BY <1>5, PutNKeepsPool
<1>6. PoolOthers => GetN(1) \/ \E n \in 0 .. inUse : PutN(n)
  <2>1. \A n \in 0 .. inUse - Held : n \in 0 .. inUse
    BY <1>a
  <2> QED  BY <2>1 DEF PoolOthers
<1>7. StopBufferingRuns("dl") \/ StopBufferingRuns("stopper") => UNCHANGED poolVars
  BY Zenon DEF StopBufferingRuns
<1>8. Fill \/ RawRead => GetN(1) \/ UNCHANGED poolVars
  BY Zenon DEF Fill, RawRead, FillToken, FillExit, FillRead, FillSend,
               FillCloseReady, FillCloseExited
<1>9. Dl \/ DlRawClosed =>
         (PutN(1) /\ (cur # <<>> \/ ready # <<>>)) \/ UNCHANGED poolVars
  <2>1. DlPut \/ DlAbandon \/ DlDrain =>
           (PutN(1) /\ (cur # <<>> \/ ready # <<>>)) \/ UNCHANGED poolVars
    BY Zenon DEF DlPut, DlAbandon, DlDrain
  <2>2. DlTake \/ DlAbandoned \/ DlWrite \/ DlIdle \/ DlKicked \/ DlQuit \/ DlTimeout
          => UNCHANGED poolVars
    BY Zenon DEF DlTake, DlAbandoned, DlWrite, DlIdle, DlKicked, DlQuit, DlTimeout,
                 WriteRest
  <2>3. DlTimedOut \/ DlSkipped \/ DlNext \/ DlClose \/ DlRawClosed
          => UNCHANGED poolVars
    BY Zenon DEF DlTimedOut, DlSkipped, DlNext, DlClose, DlRawClosed, WriteRest
  <2> QED  BY Zenon, <2>1, <2>2, <2>3, <1>7 DEF Dl
<1>10. SetRange \/ Stopper => UNCHANGED poolVars
  BY Zenon, <1>7 DEF SetRange, Stopper, StopCall, StopLock, StopUnlock, StopWait
<1>11. PoolTimer => FlushAged
  BY DEF PoolTimer
<1>12. UNCHANGED vars => UNCHANGED poolVars
  BY DEF vars
<1> QED
  BY Zenon, <1>1, <1>2, <1>3, <1>4, <1>5, <1>6, <1>8, <1>9, <1>10, <1>11, <1>12 DEF Next

-----------------------------------------------------------------------------
(* The type invariant, by the part of the state it is about. *)
BufType ==
    /\ ready \in Seq(Buffer) /\ readyClosed \in BOOLEAN
    /\ token \in Nat /\ exit \in BOOLEAN /\ exited \in BOOLEAN
    /\ cur = <<>> \/ (cur \in Seq(Buffer) /\ Len(cur) = 1)
    /\ size \in 1 .. (2 * BufferSize + SoftStart)

FillType ==
    /\ fpc \in {"select", "read", "send", "closeReady", "closeExited", "gone"}
    /\ fbuf \in Buffer
    /\ in \in [pos : Nat, open : BOOLEAN]

DlType ==
    /\ dpc \in {"fill", "write", "idle", "timeout", "skip", "kick",
                "ended", "abandon", "drain", "rawclose", "done"}
    /\ end \in Errors
    /\ offset \in Nat /\ maxOffset \in Nat
    /\ kick \in BOOLEAN /\ stop \in BOOLEAN
    /\ dlMu \in Stoppers \cup {Idle}

StopType ==
    /\ spc \in {"off", "lock", "stopping", "wait", "done"}
    /\ cancelled \in BOOLEAN /\ panics \in BOOLEAN
    /\ sb \in [Stoppers -> {"off", "close", "wait", "ret"}]

(* A buffer that was read into, and one that was written out. *)
LEMMA ReadInto ==
  ASSUME NEW b \in Buffer, NEW n \in Nat, NEW e \in Errors, NEW c,
         c = [b EXCEPT !.len = n, !.err = e]
  PROVE  c \in Buffer /\ c.pos = b.pos /\ c.len = n /\ c.err = e
BY DEF Buffer

(* A record with a new place and length is a buffer. *)
LEMMA Moved ==
  ASSUME NEW b \in Buffer, NEW p \in Nat, NEW n \in Nat, NEW c,
         c = [b EXCEPT !.pos = p, !.len = n]
  PROVE  c \in Buffer
BY DEF Buffer

(* A buffer that was written out is empty, behind its bytes. *)
LEMMA WrittenOut ==
  ASSUME NEW b \in Buffer, NEW c, c = [b EXCEPT !.pos = @ + b.len, !.len = 0]
  PROVE  c \in Buffer /\ c.pos = b.pos + b.len /\ c.len = 0 /\ c.err = b.err
<1>1. b.pos + b.len \in Nat
  BY DEF Buffer
<1>2. c = [b EXCEPT !.pos = b.pos + b.len, !.len = 0]
  OBVIOUS
<1>3. c \in Buffer
  BY <1>1, <1>2, Moved
<1> QED  BY <1>3 DEF Buffer

(* Stored leaves an empty buffer behind, at the new offset. *)
LEMMA StoredBuffer ==
  ASSUME offset \in Nat, cur \in Seq(Buffer), Len(cur) = 1, Stored
  PROVE  /\ offset' \in Nat /\ offset' = offset + cur[1].len
         /\ cur' \in Seq(Buffer) /\ Len(cur') = 1 /\ cur' # <<>>
         /\ cur'[1].pos = cur[1].pos + cur[1].len /\ cur'[1].len = 0
         /\ cur'[1].err = cur[1].err
<1>1. cur[1] \in Buffer
  OBVIOUS
<1> DEFINE c == [cur[1] EXCEPT !.pos = @ + cur[1].len, !.len = 0]
<1>2. /\ c \in Buffer /\ c.pos = cur[1].pos + cur[1].len /\ c.len = 0
      /\ c.err = cur[1].err
  BY <1>1, WrittenOut
<1>3. cur' = <<c>> /\ offset' = offset + cur[1].len
  BY DEF Stored
<1>4. offset' \in Nat
  BY <1>1, <1>3 DEF Buffer
<1> HIDE DEF c
<1> QED  BY <1>2, <1>3, <1>4

(* The parts make up the type invariant. *)
LEMMA TypeParts == TypeOK <=> PoolTypeOK /\ BufType /\ FillType /\ DlType /\ StopType
BY Zenon DEF TypeOK, BufType, FillType, DlType, StopType

(* A part is kept by a step that leaves its variables alone. *)
LEMMA TypeRest ==
  ASSUME BufType, FillType, DlType, StopType
  PROVE  /\ UNCHANGED bufVars => BufType'
         /\ UNCHANGED fillVars => FillType'
         /\ UNCHANGED dlVars => DlType'
         /\ UNCHANGED stopVars => StopType'
BY DEF BufType, FillType, DlType, StopType, bufVars, fillVars, dlVars, stopVars

(* Each step keeps each variable in its type. *)
LEMMA TypeStep ==
  ASSUME TypeOK, PoolInv, OwnInv, CurInv, [Next]_vars
  PROVE  TypeOK'
<1> USE BufAssumption
<1>a. BufType /\ FillType /\ DlType /\ StopType
  BY TypeParts
<1>b. /\ UNCHANGED bufVars => BufType'
      /\ UNCHANGED fillVars => FillType'
      /\ UNCHANGED dlVars => DlType'
      /\ UNCHANGED stopVars => StopType'
  BY <1>a, TypeRest
<1> SUFFICES BufType' /\ FillType' /\ DlType' /\ StopType'
  BY StepKeepsPool, TypeParts DEF PoolInv, TypeOK, BufType, FillType, DlType, StopType
<1>1. CASE FillToken
  <2>1. BufType' /\ FillType'
    BY <1>1, <1>a DEF FillToken, BufType, FillType, Buffer, Errors, Least
  <2> QED  BY <1>1, <1>b, <2>1 DEF FillToken
<1>2. CASE FillExit \/ FillCloseReady \/ FillCloseExited
  <2>1. BufType' /\ FillType'
    BY <1>2, <1>a DEF FillExit, FillCloseReady, FillCloseExited, BufType, FillType, bufVars
  <2> QED  BY <1>2, <1>b, <2>1 DEF FillExit, FillCloseReady, FillCloseExited
<1>3. CASE FillSend
  <2>1. BufType' /\ FillType'
    BY <1>3, <1>a DEF FillSend, BufType, FillType
  <2> QED  BY <1>3, <1>b, <2>1 DEF FillSend
<1>4. CASE RawRead
  <2>1. PICK n \in 0 .. fbuf.len, err \in Errors : FillRead(n, err)
    BY <1>4 DEF RawRead
  <2>2. n \in Nat
    BY <1>a DEF FillType, Buffer
  <2>3. fbuf' \in Buffer
    BY <2>1, <2>2, <1>a, ReadInto DEF FillRead, FillType
  <2>4. FillType'
    BY <2>1, <2>2, <2>3, <1>a DEF FillRead, FillType
  <2> QED  BY <1>b, <2>1, <2>4 DEF FillRead
<1>5. ASSUME NEW t \in Stoppers, StopBufferingRuns(t)
      PROVE  BufType' /\ FillType' /\ DlType' /\ StopType'
  <2>1. BufType' /\ StopType'
    BY <1>5, <1>a DEF StopBufferingRuns, BufType, StopType, bufVars
  <2> QED  BY <1>5, <1>b, <2>1 DEF StopBufferingRuns
<1>6. CASE DlPut
  <2>1. BufType'
    BY <1>6, <1>a DEF DlPut, BufType
  <2> QED  BY <1>6, <1>b, <2>1 DEF DlPut
<1>7. CASE DlTake
  <2>1. Head(ready) \in Buffer /\ Tail(ready) \in Seq(Buffer)
    BY <1>7, <1>a DEF BufType, DlTake
  <2>2. BufType' /\ DlType'
    BY <1>7, <1>a, <2>1 DEF DlTake, BufType, DlType
  <2> QED  BY <1>7, <1>b, <2>2 DEF DlTake
<1>8. CASE DlAbandoned \/ DlIdle \/ DlKicked
  <2>1. DlType'
    BY <1>8, <1>a DEF DlAbandoned, DlIdle, DlKicked, DlType, Errors
  <2> QED  BY <1>8, <1>b, <2>1 DEF DlAbandoned, DlIdle, DlKicked
<1>9. CASE DlNext
  <2>0. cur[1] \in Buffer
    BY <1>9, <1>a DEF DlNext, CurInv, BufType
  <2>1. cur[1].err \in Errors
    BY <2>0 DEF Buffer
  <2>2. DlType'
    BY <1>9, <1>a, <2>1 DEF DlNext, DlType, Errors
  <2> QED  BY <1>9, <1>b, <2>2 DEF DlNext
<1>s. ASSUME dpc \in {"write", "idle", "timeout"}, Stored
      PROVE  offset' \in Nat /\ cur' \in Seq(Buffer) /\ Len(cur') = 1
  BY <1>s, <1>a, StoredBuffer DEF CurInv, BufType, DlType
<1>10. CASE DlWrite \/ DlQuit
  <2>1. WriteAt /\ WriteRest /\ UNCHANGED kick /\ dpc \in {"write", "idle"}
    BY <1>10 DEF DlWrite, DlQuit
  <2>2. BufType'
    BY <1>a, <1>s, <2>1 DEF WriteAt, WriteRest, BufType
  <2>3. DlType'
    BY <1>a, <1>s, <2>1 DEF WriteAt, WriteRest, DlType, Errors
  <2>4. StopType'
    BY <1>a, <2>1 DEF WriteAt, WriteRest, StopBuffering, StopType
  <2> QED  BY <1>b, <2>1, <2>2, <2>3, <2>4 DEF WriteRest
<1>11. CASE DlTimeout \/ DlClose
  <2>1. DlType' /\ StopType'
    BY <1>11, <1>a DEF DlTimeout, DlClose, StopBuffering, DlType, StopType
  <2> QED  BY <1>11, <1>b, <2>1 DEF DlTimeout, DlClose
<1>12. CASE DlTimedOut
  <2>1. BufType' /\ DlType'
    BY <1>12, <1>a, <1>s DEF DlTimedOut, WriteRest, BufType, DlType, Errors
  <2>2. StopType'
    BY <1>12, <1>a DEF DlTimedOut, WriteRest, StopBufferingReturns, StopType
  <2> QED  BY <1>12, <1>b, <2>1, <2>2 DEF DlTimedOut, WriteRest
<1>13. CASE DlSkipped
  <2>1. BufType' /\ DlType' /\ StopType'
    BY <1>13, <1>a DEF DlSkipped, StopBufferingReturns, WriteRest, BufType, DlType, StopType
  <2> QED  BY <1>13, <1>b, <2>1 DEF DlSkipped, WriteRest
<1>14. CASE DlAbandon
  <2>1. BufType' /\ DlType' /\ StopType'
    BY <1>14, <1>a DEF DlAbandon, StopBufferingReturns, BufType, DlType, StopType
  <2> QED  BY <1>14, <1>b, <2>1 DEF DlAbandon
<1>15. CASE DlDrain
  <2>1. BufType' /\ DlType'
    BY <1>15, <1>a DEF DlDrain, BufType, DlType
  <2> QED  BY <1>15, <1>b, <2>1 DEF DlDrain
<1>16. CASE DlRawClosed
  <2>1. FillType' /\ DlType'
    BY <1>16, <1>a DEF DlRawClosed, FillType, DlType
  <2> QED  BY <1>16, <1>b, <2>1 DEF DlRawClosed
<1>17. CASE SetRange
  <2>1. DlType'
    BY <1>17, <1>a DEF SetRange, DlType
  <2> QED  BY <1>17, <1>b, <2>1 DEF SetRange
<1>18. CASE StopCall \/ StopUnlock \/ StopWait
  <2>1. DlType' /\ StopType'
    BY <1>18, <1>a DEF StopCall, StopUnlock, StopWait, StopBufferingReturns, DlType,
                       StopType, dlVars
  <2> QED  BY <1>18, <1>b, <2>1 DEF StopCall, StopUnlock, StopWait
<1>19. CASE StopLock
  <2>1. DlType' /\ StopType'
    BY <1>19, <1>a DEF StopLock, StopBuffering, DlType, StopType
  <2> QED  BY <1>19, <1>b, <2>1 DEF StopLock
<1>20. CASE PoolTimer \/ PoolOthers \/ UNCHANGED vars
  BY <1>20, <1>b DEF PoolTimer, PoolOthers, vars
<1> QED
  BY <1>1, <1>2, <1>3, <1>4, <1>5, <1>6, <1>7, <1>8, <1>9, <1>10, <1>11, <1>12, <1>13,
     <1>14, <1>15, <1>16, <1>17, <1>18, <1>19, <1>20 DEF Next, Fill, Dl, Stopper

-----------------------------------------------------------------------------
(* The actions that matter to neither dl.mu nor the end of the stream. *)
Quiet == FillToken \/ FillSend \/ RawRead \/ SetRange \/ PoolTimer \/ PoolOthers
         \/ UNCHANGED vars

(* What the quiet actions leave alone. *)
LEMMA QuietRest ==
  ASSUME Quiet
  PROVE  /\ UNCHANGED <<exit, exited, readyClosed, cur, dpc, dlMu, offset>>
         /\ UNCHANGED stopVars
         /\ fpc' # fpc => fpc \in {"select", "read", "send"}
BY DEF Quiet, FillToken, FillSend, RawRead, FillRead, SetRange, PoolTimer, PoolOthers,
       vars, bufVars, fillVars, dlVars

(* A buffer stays with the downloader until Write is done. *)
LEMMA CurStep ==
  ASSUME TypeOK, CurInv, [Next]_vars
  PROVE  CurInv'
<1>1. CASE Quiet
  BY <1>1, QuietRest DEF CurInv
<1>2. CASE FillExit \/ FillCloseReady \/ FillCloseExited
  BY <1>2 DEF CurInv, FillExit, FillCloseReady, FillCloseExited, bufVars, dlVars
<1>3. CASE StopBufferingRuns("dl") \/ StopBufferingRuns("stopper")
  BY <1>3 DEF CurInv, StopBufferingRuns, bufVars, dlVars
<1>4. CASE DlPut \/ DlTake \/ DlAbandoned \/ DlIdle \/ DlKicked \/ DlNext
  <2>1. CASE DlTake
    BY <2>1 DEF CurInv, DlTake
  <2>2. CASE DlPut \/ DlAbandoned \/ DlNext
    BY <2>2 DEF CurInv, DlPut, DlAbandoned, DlNext, bufVars, dlVars
  <2>3. CASE DlIdle \/ DlKicked
    BY <2>3 DEF CurInv, DlIdle, DlKicked, bufVars
  <2> QED  BY <1>4, <2>1, <2>2, <2>3
<1>5. CASE DlWrite \/ DlQuit \/ DlTimedOut \/ DlSkipped
  <2>1. Stored => cur' # <<>>
    BY DEF Stored
  <2> QED
    BY <1>5, <2>1 DEF CurInv, DlWrite, DlQuit, DlTimedOut, DlSkipped, WriteAt
<1>6. CASE DlTimeout \/ DlClose \/ DlAbandon \/ DlDrain \/ DlRawClosed
  BY <1>6 DEF CurInv, DlTimeout, DlClose, DlAbandon, DlDrain, DlRawClosed, bufVars
<1>7. CASE StopCall \/ StopLock \/ StopUnlock \/ StopWait
  BY <1>7 DEF CurInv, StopCall, StopLock, StopUnlock, StopWait, bufVars, dlVars
<1> QED
  BY <1>1, <1>2, <1>3, <1>4, <1>5, <1>6, <1>7 DEF Next, Quiet, Fill, Dl, Stopper

(* No two threads are between the look at exit and its close. *)
LEMMA LockStep ==
  ASSUME TypeOK, LockInv, [Next]_vars
  PROVE  LockInv'
<1> USE BufAssumption
<1>a. sb \in [Stoppers -> {"off", "close", "wait", "ret"}]
  BY DEF TypeOK
<1>1. CASE Quiet
  BY <1>1, QuietRest DEF LockInv, ClosedOnce, stopVars
<1>2. CASE FillExit \/ FillCloseReady \/ FillCloseExited
  BY <1>2 DEF LockInv, ClosedOnce, FillExit, FillCloseReady, FillCloseExited, bufVars,
              dlVars, stopVars
<1>3. ASSUME NEW t \in Stoppers, StopBufferingRuns(t)
      PROVE  LockInv'
  <2>1. UNCHANGED <<dlMu, dpc, spc>> /\ \A u \in Stoppers \ {t} : sb'[u] = sb[u]
    BY <1>3, <1>a DEF StopBufferingRuns, dlVars
  <2>2. sb[t] \in {"close", "wait"} /\ sb'[t] \in {"wait", "ret"} /\ dlMu = t
    BY <1>3, <1>a DEF LockInv, StopBufferingRuns
  <2>3. ~panics'
    BY Zenon, <1>3 DEF LockInv, ClosedOnce, StopBufferingRuns
  <2>4. \A u \in Stoppers : sb'[u] = "close" => ~exit'
    BY <2>1, <2>2 DEF LockInv
  <2> QED  BY <2>1, <2>2, <2>3, <2>4 DEF LockInv, ClosedOnce
<1>4. CASE DlPut \/ DlTake \/ DlAbandoned \/ DlIdle \/ DlKicked \/ DlNext
  BY <1>4 DEF LockInv, ClosedOnce, DlPut, DlTake, DlAbandoned, DlIdle, DlKicked, DlNext,
              bufVars, dlVars, stopVars
<1>5. CASE DlWrite \/ DlQuit
  BY <1>5, <1>a DEF LockInv, ClosedOnce, DlWrite, DlQuit, WriteAt, WriteRest, StopBuffering
<1>6. CASE DlTimedOut \/ DlSkipped
  BY <1>6, <1>a DEF LockInv, ClosedOnce, DlTimedOut, DlSkipped, WriteRest,
                    StopBufferingReturns
<1>7. CASE DlTimeout \/ DlClose
  BY <1>7, <1>a DEF LockInv, ClosedOnce, DlTimeout, DlClose, StopBuffering, bufVars
<1>8. CASE DlAbandon
  BY <1>8, <1>a DEF LockInv, ClosedOnce, DlAbandon, StopBufferingReturns
<1>9. CASE DlDrain \/ DlRawClosed
  BY <1>9, <1>a DEF LockInv, ClosedOnce, DlDrain, DlRawClosed, bufVars, stopVars
<1>10. CASE StopCall \/ StopWait
  BY <1>10 DEF LockInv, ClosedOnce, StopCall, StopWait, bufVars, dlVars
<1>11. CASE StopLock
  BY <1>11, <1>a DEF LockInv, ClosedOnce, StopLock, StopBuffering, bufVars
<1>12. CASE StopUnlock
  BY <1>12, <1>a DEF LockInv, ClosedOnce, StopUnlock, StopBufferingReturns, bufVars
<1> QED
  BY <1>1, <1>2, <1>3, <1>4, <1>5, <1>6, <1>7, <1>8, <1>9, <1>10, <1>11, <1>12
     DEF Next, Quiet, Fill, Dl, Stopper

(* Close drains ready to its end before it closes the raw reader. *)
LEMMA CloseStep ==
  ASSUME TypeOK, CloseInv, [Next]_vars
  PROVE  CloseInv'
<1>1. CASE Quiet
  <2>1. in'.open = in.open
    BY <1>1 DEF Quiet, TypeOK, FillToken, FillSend, RawRead, FillRead, SetRange,
                PoolTimer, PoolOthers, vars, fillVars
  <2> QED  BY <1>1, <2>1, QuietRest DEF CloseInv
<1>2. CASE FillExit \/ FillCloseReady \/ FillCloseExited
  BY <1>2 DEF CloseInv, FillExit, FillCloseReady, FillCloseExited, bufVars, dlVars
<1>3. CASE StopBufferingRuns("dl") \/ StopBufferingRuns("stopper")
  BY <1>3 DEF CloseInv, StopBufferingRuns, bufVars, fillVars, dlVars
<1>4. CASE DlPut \/ DlTake \/ DlAbandoned \/ DlIdle \/ DlKicked \/ DlNext
  BY <1>4 DEF CloseInv, DlPut, DlTake, DlAbandoned, DlIdle, DlKicked, DlNext, bufVars,
              fillVars, dlVars
<1>5. CASE DlWrite \/ DlQuit \/ DlTimedOut \/ DlSkipped
  BY <1>5 DEF CloseInv, DlWrite, DlQuit, DlTimedOut, DlSkipped, WriteAt, WriteRest, fillVars
<1>6. CASE DlTimeout \/ DlClose \/ DlAbandon \/ DlDrain
  BY <1>6 DEF CloseInv, DlTimeout, DlClose, DlAbandon, DlDrain, bufVars, fillVars
<1>7. CASE DlRawClosed
  BY <1>7 DEF CloseInv, DlRawClosed, bufVars
<1>8. CASE StopCall \/ StopLock \/ StopUnlock \/ StopWait
  BY <1>8 DEF CloseInv, StopCall, StopLock, StopUnlock, StopWait, bufVars, fillVars, dlVars
<1> QED
  BY <1>1, <1>2, <1>3, <1>4, <1>5, <1>6, <1>7, <1>8 DEF Next, Quiet, Fill, Dl, Stopper

-----------------------------------------------------------------------------
(* The steps that leave the buffers where they are. *)
Apart == \/ FillCloseReady \/ FillCloseExited
         \/ StopBufferingRuns("dl") \/ StopBufferingRuns("stopper")
         \/ DlAbandoned \/ DlIdle \/ DlKicked \/ DlNext \/ DlTimeout \/ DlSkipped \/ DlClose
         \/ DlRawClosed \/ SetRange \/ StopCall \/ StopLock \/ StopUnlock \/ StopWait
         \/ PoolTimer \/ PoolOthers \/ UNCHANGED vars

(* What those steps leave alone. *)
LEMMA ApartRest ==
  ASSUME TypeOK, Apart
  PROVE  /\ UNCHANGED <<ready, token, cur, offset, fbuf>> /\ in'.pos = in.pos
         /\ fpc' = fpc \/ (fpc' \notin {"select", "read", "send"}
                          /\ fpc \notin {"select", "read", "send"})
         /\ dpc' \in {"drain", "rawclose", "done"} <=> dpc \in {"drain", "rawclose", "done"}
<1>1. CASE FillCloseReady \/ FillCloseExited \/ SetRange \/ PoolTimer \/ PoolOthers
           \/ UNCHANGED vars
  BY <1>1 DEF FillCloseReady, FillCloseExited, SetRange, PoolTimer, PoolOthers, vars,
              bufVars, fillVars, dlVars
<1>2. CASE StopBufferingRuns("dl") \/ StopBufferingRuns("stopper")
  BY <1>2 DEF StopBufferingRuns, bufVars, fillVars, dlVars
<1>3. CASE DlAbandoned \/ DlIdle \/ DlKicked
  BY <1>3 DEF DlAbandoned, DlIdle, DlKicked, bufVars, fillVars
<1>4. CASE DlNext
  BY <1>4 DEF DlNext, bufVars, fillVars
<1>5. CASE DlTimeout \/ DlSkipped \/ DlClose
  BY <1>5 DEF DlTimeout, DlSkipped, DlClose, WriteRest, bufVars, fillVars
<1>6. CASE DlRawClosed
  BY <1>6 DEF DlRawClosed, TypeOK, bufVars
<1>7. CASE StopCall \/ StopLock \/ StopUnlock \/ StopWait
  BY <1>7 DEF StopCall, StopLock, StopUnlock, StopWait, bufVars, fillVars, dlVars
<1> QED  BY <1>1, <1>2, <1>3, <1>4, <1>5, <1>6, <1>7 DEF Apart

(* A Write leaves the buffer as it is, or empty behind the new offset. *)
Writes == DlWrite \/ DlQuit \/ DlTimedOut

(* What a Write does to the buffer and the offset. *)
LEMMA WritesRest ==
  ASSUME TypeOK, CurInv, Writes
  PROVE  /\ UNCHANGED <<ready, token, fpc, fbuf, in>>
         /\ dpc \notin {"drain", "rawclose", "done"}
         /\ dpc' \notin {"drain", "rawclose", "done"}
         /\ cur \in Seq(Buffer) /\ Len(cur) = 1 /\ cur # <<>>
         /\ \/ UNCHANGED <<cur, offset>>
            \/ /\ offset' = offset + cur[1].len
               /\ cur' \in Seq(Buffer) /\ Len(cur') = 1 /\ cur' # <<>>
               /\ cur'[1].pos = cur[1].pos + cur[1].len /\ cur'[1].len = 0
<1>1. WriteRest /\ dpc \in {"write", "idle", "timeout"}
  BY DEF Writes, DlWrite, DlQuit, DlTimedOut
<1>2. dpc' \in {"kick", "skip", "ended"}
  BY DEF Writes, DlWrite, DlQuit, DlTimedOut, WriteAt
<1>3. Stored \/ UNCHANGED <<cur, offset>>
  BY DEF Writes, DlWrite, DlQuit, DlTimedOut, WriteAt
<1>4. cur \in Seq(Buffer) /\ Len(cur) = 1 /\ cur # <<>> /\ offset \in Nat
  BY <1>1 DEF TypeOK, CurInv
<1> QED  BY <1>1, <1>2, <1>3, <1>4, StoredBuffer DEF WriteRest, fillVars

(* A buffer is lent before it is filled and held until it is returned.     *)
LEMMA OwnStep ==
  ASSUME TypeOK, PoolInv, CurInv, OwnInv, [Next]_vars
  PROVE  OwnInv'
<1>a. /\ ready \in Seq(Buffer) /\ Len(ready) \in Nat /\ inUse \in Nat
      /\ (cur = <<>> \/ Len(cur) = 1) /\ fbuf \in Buffer /\ Held \in Nat /\ Held <= inUse
  BY DEF TypeOK, PoolInv, PoolTypeOK, Held, OwnInv
<1>1. CASE Apart
  <2>1. Held' = Held
    BY <1>1, <1>a, ApartRest DEF Held
  <2>2. CASE PoolOthers
    <3>1. inUse' = inUse + 1 \/ \E n \in 0 .. inUse - Held : inUse' = inUse - n
      BY <2>2 DEF PoolOthers, GetN, PutN
    <3> QED  BY <1>a, <2>1, <3>1 DEF OwnInv
  <2>3. CASE ~PoolOthers
    <3>1. inUse' = inUse
      BY <1>1, <2>3 DEF Apart, FillCloseReady, FillCloseExited, StopBufferingRuns,
         DlAbandoned, DlIdle, DlKicked, DlNext, DlTimeout, DlSkipped, DlClose, WriteRest,
         DlRawClosed, SetRange, StopCall, StopLock, StopUnlock, StopWait, PoolTimer,
         FlushAged, poolVars, vars
    <3> QED  BY <1>a, <2>1, <3>1 DEF OwnInv
  <2> QED  BY <2>2, <2>3
<1>2. CASE FillToken
  <2>1. inUse' = inUse + 1 /\ UNCHANGED <<ready, cur>>
    BY <1>2 DEF FillToken, GetN
  <2> QED  BY <1>a, <2>1 DEF OwnInv, Held
<1>3. CASE FillExit
  <2>1. UNCHANGED <<inUse, ready, cur>> /\ fpc' \notin {"read", "send"}
    BY <1>3 DEF FillExit, bufVars, poolVars
  <2> QED  BY <1>a, <2>1 DEF OwnInv, Held
<1>4. CASE RawRead
  <2>1. UNCHANGED <<inUse, ready, cur>> /\ fpc = "read"
    BY <1>4 DEF RawRead, FillRead, bufVars, poolVars
  <2> QED  BY <1>a, <2>1 DEF OwnInv, Held
<1>5. CASE FillSend
  <2>1. /\ ready' = Append(ready, fbuf) /\ UNCHANGED <<cur, inUse>>
        /\ fpc = "send" /\ fpc' \in {"closeReady", "select"}
    BY <1>5 DEF FillSend, poolVars
  <2>2. Len(ready') = Len(ready) + 1
    BY <1>a, <2>1
  <2> QED  BY <1>a, <2>1, <2>2 DEF OwnInv, Held
<1>6. CASE DlPut
  <2>1. Len(cur) = 1 /\ Len(cur') = 0 /\ UNCHANGED <<ready, fpc>> /\ inUse' = inUse - 1
    BY <1>6, <1>a DEF DlPut, PutN, fillVars
  <2> QED  BY <1>a, <2>1 DEF OwnInv, Held
<1>7. CASE DlTake
  <2>1. /\ Len(cur) = 0 /\ Len(cur') = 1 /\ UNCHANGED <<fpc, inUse>>
        /\ ready # <<>> /\ ready' = Tail(ready)
    BY <1>7, <1>a DEF DlTake, fillVars, poolVars
  <2>2. Len(ready') = Len(ready) - 1
    BY <1>a, <2>1
  <2> QED  BY <1>a, <2>1, <2>2 DEF OwnInv, Held
<1>8. CASE Writes
  <2>1. UNCHANGED <<ready, fpc, inUse>> /\ Len(cur') = Len(cur)
    BY <1>8, WritesRest DEF Writes, DlWrite, DlQuit, DlTimedOut, WriteRest, poolVars
  <2> QED  BY <1>a, <2>1 DEF OwnInv, Held
<1>9. CASE DlAbandon
  <2>1. /\ cur' = <<>> /\ UNCHANGED <<ready, fpc>>
        /\ inUse' = IF cur # <<>> THEN inUse - 1 ELSE inUse
    BY <1>9 DEF DlAbandon, PutN, fillVars, poolVars
  <2>2. CASE cur = <<>>
    BY <1>a, <2>1, <2>2 DEF OwnInv, Held
  <2>3. CASE cur # <<>>
    <3>1. Len(cur) = 1 /\ Len(cur') = 0
      BY <1>a, <2>1, <2>3
    <3> QED  BY <1>a, <2>1, <2>3, <3>1 DEF OwnInv, Held
  <2> QED  BY <2>2, <2>3
<1>10. CASE DlDrain
  <2>1. /\ UNCHANGED <<cur, fpc>>
        /\ \/ ready # <<>> /\ ready' = Tail(ready) /\ inUse' = inUse - 1
           \/ UNCHANGED <<ready, inUse>>
    BY <1>10 DEF DlDrain, PutN, fillVars, poolVars
  <2>2. CASE ready # <<>> /\ ready' = Tail(ready) /\ inUse' = inUse - 1
    <3>1. Len(ready') = Len(ready) - 1
      BY <1>a, <2>2
    <3>2. Len(cur) \in Nat /\ Len(cur') = Len(cur)
      BY <1>a, <2>1
    <3>3. Held' = Held - 1
      BY <1>a, <2>1, <3>1, <3>2 DEF Held
    <3> QED  BY <1>a, <2>2, <3>3 DEF OwnInv
  <2>3. CASE UNCHANGED <<ready, inUse>>
    BY <1>a, <2>1, <2>3 DEF OwnInv, Held
  <2> QED  BY <2>1, <2>2, <2>3
<1> QED
  BY <1>1, <1>2, <1>3, <1>4, <1>5, <1>6, <1>7, <1>8, <1>9, <1>10
     DEF Next, Apart, Writes, Fill, Dl, Stopper

(* The channels' capacities are never exceeded. *)
LEMMA TokenStep ==
  ASSUME TypeOK, CurInv, TokenInv, [Next]_vars
  PROVE  TokenInv'
<1> USE BufAssumption
<1>a. /\ ready \in Seq(Buffer) /\ token \in Nat /\ Len(ready) \in Nat
      /\ (cur = <<>> \/ Len(cur) = 1) /\ fbuf \in Buffer
  BY DEF TypeOK
<1>1. CASE Apart
  BY <1>1, <1>a, ApartRest DEF TokenInv, Held
<1>2. CASE FillToken \/ FillExit
  BY <1>2, <1>a DEF TokenInv, Held, FillToken, FillExit, bufVars
<1>3. CASE RawRead
  BY <1>3, <1>a DEF TokenInv, Held, RawRead, FillRead, bufVars
<1>4. CASE FillSend
  BY <1>4, <1>a DEF TokenInv, Held, FillSend
<1>5. CASE DlPut
  <2>1. Len(cur) = 1 /\ Len(cur') = 0 /\ token' = token + 1 /\ UNCHANGED <<ready, fpc>>
    BY <1>5, <1>a DEF DlPut, fillVars
  <2>2. Held' = Held - 1
    BY <2>1, <1>a DEF Held
  <2>3. Held \in Nat /\ token' + Held' <= Buffers
    <3>1. Held \in Nat
      BY <2>1, <1>a DEF Held
    <3> QED  BY <2>1, <2>2, <3>1, <1>a DEF TokenInv
  <2> QED  BY <2>1, <2>3, <1>a DEF TokenInv
<1>6. CASE DlTake
  BY <1>6, <1>a DEF TokenInv, Held, DlTake, fillVars
<1>7. CASE Writes
  BY <1>7, <1>a, WritesRest DEF TokenInv, Held
<1>8. CASE DlAbandon
  BY <1>8, <1>a DEF TokenInv, Held, DlAbandon, fillVars
<1>9. CASE DlDrain
  BY <1>9, <1>a DEF TokenInv, Held, DlDrain, fillVars
<1> QED
  BY <1>1, <1>2, <1>3, <1>4, <1>5, <1>6, <1>7, <1>8, <1>9
     DEF Next, Apart, Writes, Fill, Dl, Stopper

(* Bytes are read, passed on and written in the order of the object. *)
LEMMA OrderStep ==
  ASSUME TypeOK, CurInv, TokenInv, InOrder, FillInv, [Next]_vars
  PROVE  InOrder' /\ FillInv'
<1> USE BufAssumption
<1>a. /\ ready \in Seq(Buffer) /\ Len(ready) \in Nat /\ offset \in Nat
      /\ (cur = <<>> \/ (cur \in Seq(Buffer) /\ Len(cur) = 1)) /\ fbuf \in Buffer
      /\ in.pos \in Nat
  BY DEF TypeOK
<1>1. CASE Apart
  BY <1>1, <1>a, ApartRest DEF InOrder, FillInv, Drained, Tip, NextPos
<1>2. CASE FillToken
  BY <1>2, <1>a DEF InOrder, FillInv, Drained, Tip, NextPos, FillToken, dlVars
<1>3. CASE FillExit
  BY <1>3, <1>a DEF InOrder, FillInv, Drained, Tip, NextPos, FillExit, bufVars, dlVars
<1>4. CASE RawRead
  <2>1. PICK n \in 0 .. fbuf.len, err \in Errors : FillRead(n, err)
    BY <1>4 DEF RawRead
  <2>2. n \in Nat
    BY <1>a DEF Buffer
  <2>3. fbuf'.pos = fbuf.pos /\ fbuf'.len = n
    <3>1. fbuf' = [fbuf EXCEPT !.len = n, !.err = err]
      BY <2>1 DEF FillRead
    <3>2. fbuf \in Buffer
      BY <1>a
    <3> QED  BY <2>2, <3>1, <3>2 DEF Buffer
  <2>4. in'.pos = in.pos + n
    BY <2>1 DEF FillRead, TypeOK
  <2>5. UNCHANGED <<ready, cur, offset, dpc>> /\ fpc = "read" /\ fpc' = "send"
    BY <2>1 DEF FillRead, bufVars, dlVars
  <2>6. Tip' = Tip /\ NextPos' = NextPos /\ Drained' = Drained
    BY <2>5 DEF Tip, NextPos, Drained
  <2>7. InOrder'
    BY <2>5 DEF InOrder
  <2>8. FillInv'
    BY <2>3, <2>4, <2>5, <2>6 DEF FillInv
  <2> QED  BY <2>7, <2>8
<1>5. CASE FillSend
  <2>1. /\ Len(ready') = Len(ready) + 1 /\ ready'[Len(ready')] = fbuf
        /\ \A i \in 1 .. Len(ready) : ready'[i] = ready[i]
        /\ ready' # <<>>
    BY <1>5, <1>a DEF FillSend
  <2>2. /\ UNCHANGED <<cur, offset, dpc, fbuf, in>> /\ fpc = "send"
        /\ fpc' \in {"select", "closeReady"}
    BY <1>5 DEF FillSend, dlVars
  <2>3. Tip' = fbuf.pos + fbuf.len
    BY <2>1, <2>2 DEF Tip
  <2>4. FillInv'
    BY <2>2, <2>3 DEF FillInv
  <2>5. ready # <<>> => fbuf.pos = ready[Len(ready)].pos + ready[Len(ready)].len
    BY <2>2 DEF FillInv, Tip
  <2>6. ready = <<>> /\ ~Drained => fbuf.pos = NextPos
    BY <2>2 DEF FillInv, Tip
  <2>7. \A i \in 1 .. Len(ready') - 1 : ready'[i+1].pos = ready'[i].pos + ready'[i].len
    BY <2>1, <2>5, <1>a DEF InOrder
  <2>8. ~Drained => ready'[1].pos = NextPos
    BY <2>1, <2>6, <1>a DEF InOrder, NextPos, Drained
  <2> QED  BY <2>2, <2>4, <2>7, <2>8 DEF InOrder, NextPos, Drained
<1>6. CASE DlPut
  BY <1>6, <1>a DEF InOrder, FillInv, Drained, Tip, NextPos, DlPut, fillVars, dlVars
<1>t. ASSUME ready # <<>>, ready' = Tail(ready)
      PROVE  /\ Len(ready') = Len(ready) - 1 /\ (ready' = <<>> <=> Len(ready) = 1)
             /\ \A i \in 1 .. Len(ready') : ready'[i] = ready[i+1]
             /\ \A i \in 1 .. Len(ready') - 1 :
                   ready'[i+1].pos = ready'[i].pos + ready'[i].len
             /\ ready' # <<>> =>
                   /\ ready'[Len(ready')] = ready[Len(ready)]
                   /\ ready'[1].pos = ready[1].pos + ready[1].len
  <2>1. /\ Len(ready') = Len(ready) - 1 /\ (ready' = <<>> <=> Len(ready) = 1)
        /\ \A i \in 1 .. Len(ready') : ready'[i] = ready[i+1]
    <3>1. Len(ready) >= 1 /\ Len(ready') = Len(ready) - 1
      BY <1>t, <1>a
    <3>2. \A i \in 1 .. Len(ready) - 1 : Tail(ready)[i] = ready[i+1]
      BY <1>t, <1>a
    <3>3. ready' \in Seq(Buffer)
      BY <1>t, <1>a
    <3>4. \A i \in 1 .. Len(ready') : ready'[i] = ready[i+1]
      BY <3>1, <3>2, <1>t
    <3>5. ready' = <<>> <=> Len(ready') = 0
      BY <3>3
    <3> QED  BY <3>1, <3>4, <3>5
  <2> QED  BY <2>1, <1>a, <1>t DEF InOrder
<1>7. CASE DlTake
  <2>1. /\ ready # <<>> /\ ready' = Tail(ready) /\ cur = <<>> /\ cur' # <<>>
        /\ cur'[1] = ready[1]
        /\ UNCHANGED <<offset, fpc, fbuf, in>> /\ dpc = "fill" /\ dpc' = "write"
    BY <1>7, <1>a DEF DlTake, fillVars
  <2>2. ready[1].pos = offset /\ NextPos' = ready[1].pos + ready[1].len
    BY <2>1 DEF InOrder, NextPos
  <2>3. InOrder'
    BY <2>1, <2>2, <1>t DEF InOrder, NextPos
  <2>4. Tip' = Tip
    BY <2>1, <2>2, <1>t, <1>a DEF Tip
  <2> QED  BY <2>1, <2>3, <2>4 DEF FillInv, Drained
<1>8. CASE Writes
  <2>1. /\ UNCHANGED <<ready, fpc, fbuf, in>> /\ ~Drained /\ ~Drained'
        /\ cur # <<>> /\ cur' # <<>>
    BY <1>8, WritesRest DEF Drained
  <2>2. cur[1].pos = offset /\ cur[1] \in Buffer
    BY <1>8, WritesRest DEF InOrder, Drained
  <2>3. NextPos' = NextPos /\ cur'[1].pos = offset'
    BY <1>8, <1>a, <2>2, WritesRest DEF NextPos, Buffer
  <2>4. Tip' = Tip
    BY <2>1, <2>3 DEF Tip
  <2>5. InOrder'
    BY <2>1, <2>3 DEF InOrder, NextPos, Drained
  <2> QED  BY <2>1, <2>4, <2>5 DEF FillInv
<1>9. CASE DlAbandon
  BY <1>9, <1>a DEF InOrder, FillInv, Drained, Tip, NextPos, DlAbandon, fillVars
<1>10. CASE DlDrain
  <2>1. /\ UNCHANGED <<fpc, fbuf, in>> /\ Drained /\ Drained'
        /\ \/ ready # <<>> /\ ready' = Tail(ready)
           \/ ready = <<>> /\ UNCHANGED ready
    BY <1>10 DEF DlDrain, Drained, fillVars
  <2>2. InOrder'
    BY <2>1, <1>t DEF InOrder, Drained
  <2>3. ready' # <<>> => Tip' = Tip
    BY <2>1, <1>t DEF Tip
  <2> QED  BY <2>1, <2>2, <2>3 DEF FillInv
<1> QED
  BY <1>1, <1>2, <1>3, <1>4, <1>5, <1>6, <1>7, <1>8, <1>9, <1>10
     DEF Next, Apart, Writes, Fill, Dl, Stopper

-----------------------------------------------------------------------------
(* A stream that was just opened satisfies the invariant. *)
LEMMA InvInit == Init => Inv
<1> SUFFICES ASSUME NEW start \in 0 .. Size, NEW max \in start+1 .. Size,
                    InitAt(start, max)
             PROVE  Inv
  BY DEF Init
<1> USE BufAssumption, PoolAssumption
<1>1. start \in Nat /\ max \in Nat /\ fbuf \in Buffer /\ in \in [pos : Nat, open : BOOLEAN]
  BY DEF InitAt, Buffer, Errors
<1>2. PoolInv
  <2>1. /\ cached = 0 /\ minFill = 0 /\ inUse = 0 /\ alloced = 0
        /\ flushPending = FALSE /\ timer = TRUE
    BY DEF InitAt, PoolInit
  <2>2. cached \in 0 .. PoolSize /\ ~(cached > 0) /\ alloced = inUse + cached
    BY <2>1
  <2>3. flushPending \in BOOLEAN /\ timer \in BOOLEAN /\ ~flushPending
    BY Zenon, <2>1
  <2>4. minFill \in Nat /\ inUse \in Nat /\ alloced \in Nat /\ minFill <= cached
    BY <2>1
  <2> QED  BY Zenon, <2>2, <2>3, <2>4 DEF PoolInv, PoolTypeOK, RestIsFlushed
<1>3. TypeOK
  <2>1. BufType
    <3>1. size \in 1 .. (2 * BufferSize + SoftStart) /\ token \in Nat
      BY DEF InitAt
    <3>2. readyClosed \in BOOLEAN /\ exit \in BOOLEAN /\ exited \in BOOLEAN
      BY Zenon DEF InitAt
    <3>3. ready \in Seq(Buffer) /\ cur = <<>>
      BY DEF InitAt
    <3> QED  BY Zenon, <3>1, <3>2, <3>3 DEF BufType
  <2>2. FillType /\ DlType /\ StopType
    BY <1>1 DEF InitAt, FillType, DlType, StopType, Errors
  <2> QED  BY <1>2, <2>1, <2>2, TypeParts DEF PoolInv
<1>4. LockInv /\ CloseInv /\ CurInv
  BY DEF InitAt, LockInv, ClosedOnce, CloseInv, CurInv
<1>5. TokenInv /\ OwnInv
  BY DEF InitAt, PoolInit, TokenInv, OwnInv, Held
<1>6. InOrder /\ FillInv
  BY DEF InitAt, InOrder, FillInv, Tip, NextPos
<1> QED  BY <1>2, <1>3, <1>4, <1>5, <1>6 DEF Inv

(* Every step keeps it. *)
LEMMA InvNext == Inv /\ [Next]_vars => Inv'
BY StepKeepsPool, TypeStep, LockStep, CloseStep, CurStep, TokenStep, OwnStep, OrderStep
   DEF Inv

(* The inductive invariant of the asynchronous buffer. *)
THEOREM Correct == Spec => []Inv
BY InvInit, InvNext, PTL DEF Spec

(* Every variable keeps its type: the soft start never asks for more than  *)
(* twice a page, the pool's counters never fall below zero.                *)
THEOREM BufferTypes == Spec => []TypeOK
<1>1. Inv => TypeOK
  BY DEF Inv
<1> QED  BY <1>1, Correct, PTL

(* What WriteTo hands to Write at dl.offset is what the object has there,  *)
(* for every schedule of the filling goroutine, the downloader and the     *)
(* stopper, and every split of the object into reads.                      *)
THEOREM BytesInOrder == Spec => []InOrder
<1>1. Inv => InOrder
  BY DEF Inv
<1> QED  BY <1>1, Correct, PTL

(* The goroutine never blocks in its send, nor fill when it returns a      *)
(* token: StopBuffering under dl.mu waits for the raw reader at most.      *)
THEOREM SendsNeverBlock == Spec => []ChannelsNeverBlock
<1>1. Inv => ChannelsNeverBlock
  <2> SUFFICES ASSUME Inv
               PROVE  ChannelsNeverBlock
    OBVIOUS
  <2>1. /\ Buffers \in Nat /\ token \in Nat /\ Len(ready) \in Nat
        /\ cur = <<>> \/ Len(cur) = 1
    BY BufAssumption DEF Inv, TypeOK
  <2> QED  BY <2>1 DEF Inv, TokenInv, Held, ChannelsNeverBlock
<1> QED  BY <1>1, Correct, PTL

(* The unlocked check of exit in StopBuffering never closes it twice, and  *)
(* the raw reader is not read once it is closed.                           *)
THEOREM CloseOnce == Spec => []CloseIsClean
<1>1. Inv => CloseIsClean
  BY DEF Inv, LockInv, CloseInv, CloseIsClean, NoReadAfterClose
<1> QED  BY <1>1, Correct, PTL

(* No buffer rests in the pool with the flush timer off, whoever uses the  *)
(* pool besides this stream.                                               *)
THEOREM PoolIsFlushed == Spec => []RestIsFlushed
<1>1. Inv => RestIsFlushed
  BY DEF Inv, PoolInv
<1> QED  BY <1>1, Correct, PTL
=============================================================================
