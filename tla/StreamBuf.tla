----------------------------- MODULE StreamBuf -----------------------------
(***************************************************************************)
(* The asynchronous buffer between the origin and the cache                *)
(* (src/internal/engine/streambuf/reader.go) with its one user, a          *)
(* downloader of src/internal/engine/scheduler/scheduler.go.  Three        *)
(* threads meet here: the goroutine that fills buffers from the raw        *)
(* reader; the downloader goroutine, which is inside WriteTo, writes the   *)
(* buffers into the item and closes the stream at the end; and a stopper,  *)
(* Downloaders.Close, which calls stopAndClose.                            *)
(*                                                                         *)
(* A buffer holds consecutive bytes of the object: where they begin, how   *)
(* many are left, and the error that came with them.  The raw reader keeps *)
(* the contract of io.Reader: the next bytes, then an error.  Stream puts  *)
(* the chunk readers in its place.  a.mu is left out: all of its holders   *)
(* are the downloader goroutine.                                           *)
(***************************************************************************)
EXTENDS Pool, Sequences

CONSTANTS
    Buffers,      \* cap(ready) and cap(token)
    BufferSize,   \* streambuf.BufferSize, in bytes
    SoftStart,    \* softStartInitial
    Size,         \* the object's size
    Idle          \* "nobody holds dl.mu"

ASSUME BufAssumption ==
    /\ Buffers \in Nat \ {0} /\ BufferSize \in Nat \ {0}
    /\ SoftStart \in Nat \ {0} /\ Size \in Nat
    /\ Idle \notin {"dl", "stopper"}

VARIABLES
    \* streambuf.Reader
    ready, readyClosed,   \* the channel of filled buffers
    token,                \* len(token)
    exit, exited,         \* the two channels that are only ever closed
    cur,                  \* <<>> or <<the buffer being consumed>>
    size,                 \* length of the next buffer (soft start)
    \* the filling goroutine and its raw reader
    fpc, fbuf,            \* where it is, the buffer it fills
    in,                   \* the raw reader: next byte, still open
    \* downloader
    dpc, end,             \* where the goroutine is, how WriteTo ended
    offset, maxOffset, kick, stop,
    dlMu,                 \* the holder of dl.mu
    \* stopAndClose
    spc,
    cancelled,            \* the context of the downloaders
    sb,                   \* both threads' progress inside StopBuffering
    panics                \* a channel was closed twice

bufVars == <<ready, readyClosed, token, exit, exited, cur, size>>
fillVars == <<fpc, fbuf, in>>
dlVars == <<dpc, end, offset, maxOffset, kick, stop, dlMu>>
stopVars == <<spc, cancelled, sb, panics>>
vars == <<bufVars, fillVars, dlVars, stopVars, poolVars>>

Stoppers == {"dl", "stopper"}
Errors == {"none", "eof", "error", "abandoned"}
Buffer == [pos : Nat, len : Nat, err : Errors]

TypeOK ==
    /\ PoolTypeOK
    /\ ready \in Seq(Buffer) /\ readyClosed \in BOOLEAN
    /\ token \in Nat /\ exit \in BOOLEAN /\ exited \in BOOLEAN
    /\ cur = <<>> \/ (cur \in Seq(Buffer) /\ Len(cur) = 1)
    /\ size \in 1 .. (2 * BufferSize + SoftStart)
    /\ fpc \in {"select", "read", "send", "closeReady", "closeExited", "gone"}
    /\ fbuf \in Buffer
    /\ in \in [pos : Nat, open : BOOLEAN]
    /\ dpc \in {"fill", "write", "idle", "timeout", "skip", "kick",
                "ended", "abandon", "drain", "rawclose", "done"}
    /\ end \in Errors
    /\ offset \in Nat /\ maxOffset \in Nat
    /\ kick \in BOOLEAN /\ stop \in BOOLEAN
    /\ dlMu \in Stoppers \cup {Idle}
    /\ spc \in {"off", "lock", "stopping", "wait", "done"}
    /\ cancelled \in BOOLEAN /\ panics \in BOOLEAN
    /\ sb \in [Stoppers -> {"off", "close", "wait", "ret"}]

(* downloader.open at start, with everything up to max wanted. *)
InitAt(start, max) ==
    /\ PoolInit
    /\ ready = <<>> /\ readyClosed = FALSE /\ token = Buffers
    /\ exit = FALSE /\ exited = FALSE /\ cur = <<>> /\ size = SoftStart
    /\ fpc = "select" /\ fbuf = [pos |-> start, len |-> 0, err |-> "none"]
    /\ in = [pos |-> start, open |-> TRUE]
    /\ dpc = "fill" /\ end = "none" /\ offset = start /\ maxOffset = max
    /\ kick = FALSE /\ stop = FALSE /\ dlMu = Idle
    /\ spc = "off" /\ cancelled = FALSE /\ panics = FALSE
    /\ sb = [t \in Stoppers |-> "off"]

Init == \E start \in 0 .. Size : \E max \in start+1 .. Size : InitAt(start, max)

-----------------------------------------------------------------------------
\* Mutant of FillToken: the token is looked at and not taken.
FillToken_KeepsToken ==
    /\ fpc = "select" /\ token > 0
    /\ GetN(1)
    /\ fbuf' = [pos |-> in.pos, len |-> Least(size, BufferSize), err |-> "none"]
    /\ size' = IF size < BufferSize THEN 2 * size ELSE size
    /\ fpc' = "read"
    /\ UNCHANGED <<ready, readyClosed, token, exit, exited, cur, in, dlVars, stopVars>>

(* The filling goroutine.  getBuffer comes with the token; the first       *)
(* buffers are shorter than the pool's pages.                              *)
FillToken ==
    /\ fpc = "select" /\ token > 0
    /\ token' = token - 1
    /\ GetN(1)
    /\ fbuf' = [pos |-> in.pos, len |-> Least(size, BufferSize), err |-> "none"]
    /\ size' = IF size < BufferSize THEN 2 * size ELSE size
    /\ fpc' = "read"
    /\ UNCHANGED <<ready, readyClosed, exit, exited, cur, in, dlVars, stopVars>>

FillExit ==
    /\ fpc = "select" /\ exit
    /\ fpc' = "closeReady"
    /\ UNCHANGED <<bufVars, fbuf, in, dlVars, stopVars, poolVars>>

(* ReadFill(in, buf): the buffer is full, or what came with the error. *)
FillRead(n, err) ==
    /\ fpc = "read"
    /\ n = fbuf.len \/ (n < fbuf.len /\ err # "none")
    /\ fbuf' = [fbuf EXCEPT !.len = n, !.err = err]
    /\ in' = [in EXCEPT !.pos = @ + n]
    /\ fpc' = "send"
    /\ UNCHANGED <<bufVars, dlVars, stopVars, poolVars>>

FillSend ==
    /\ fpc = "send"
    /\ Len(ready) < Buffers
    /\ ready' = Append(ready, fbuf)
    /\ fpc' = IF fbuf.err # "none" THEN "closeReady" ELSE "select"
    /\ UNCHANGED <<readyClosed, token, exit, exited, cur, size, fbuf, in,
                   dlVars, stopVars, poolVars>>

(* The deferred closes: ready first, exited last. *)
FillCloseReady ==
    /\ fpc = "closeReady"
    /\ readyClosed' = TRUE /\ fpc' = "closeExited"
    /\ UNCHANGED <<ready, token, exit, exited, cur, size, fbuf, in, dlVars,
                   stopVars, poolVars>>

FillCloseExited ==
    /\ fpc = "closeExited"
    /\ exited' = TRUE /\ fpc' = "gone"
    /\ UNCHANGED <<ready, readyClosed, token, exit, cur, size, fbuf, in, dlVars,
                   stopVars, poolVars>>

Fill == FillToken \/ FillExit \/ FillSend \/ FillCloseReady \/ FillCloseExited

-----------------------------------------------------------------------------
(* StopBuffering, by the downloader goroutine or by the stopper: it looks  *)
(* whether exit is closed, closes it, and waits for the goroutine.  Only   *)
(* dl.mu keeps the two callers apart.                                      *)
StopBuffering(t) == sb' = [sb EXCEPT ![t] = IF exit THEN "ret" ELSE "close"]

StopBufferingRuns(t) ==
    \/ /\ sb[t] = "close"
       /\ exit' = TRUE /\ panics' = (panics \/ exit)
       /\ sb' = [sb EXCEPT ![t] = "wait"]
       /\ UNCHANGED <<ready, readyClosed, token, exited, cur, size, fillVars,
                      dlVars, spc, cancelled, poolVars>>
    \/ /\ sb[t] = "wait" /\ exited
       /\ sb' = [sb EXCEPT ![t] = "ret"]
       /\ UNCHANGED <<bufVars, fillVars, dlVars, spc, cancelled, panics, poolVars>>

StopBufferingReturns(t) == sb[t] = "ret" /\ sb' = [sb EXCEPT ![t] = "off"]

-----------------------------------------------------------------------------
(* The downloader goroutine inside WriteTo: fill gives an empty buffer and *)
(* its token back and receives the next.                                   *)
DlPut ==
    /\ dpc = "fill" /\ cur # <<>> /\ cur[1].len = 0
    /\ token < Buffers
    /\ PutN(1)
    /\ token' = token + 1 /\ cur' = <<>>
    /\ UNCHANGED <<ready, readyClosed, exit, exited, size, fillVars, dlVars, stopVars>>

DlTake ==
    /\ dpc = "fill" /\ cur = <<>> /\ ready # <<>>
    /\ cur' = <<Head(ready)>> /\ ready' = Tail(ready)
    /\ dpc' = "write"
    /\ UNCHANGED <<readyClosed, token, exit, exited, size, fillVars, end, offset,
                   maxOffset, kick, stop, dlMu, stopVars, poolVars>>

DlAbandoned ==
    /\ dpc = "fill" /\ cur = <<>> /\ ready = <<>> /\ readyClosed
    /\ dpc' = "ended" /\ end' = "abandoned"
    /\ UNCHANGED <<bufVars, fillVars, offset, maxOffset, kick, stop, dlMu,
                   stopVars, poolVars>>

\* Mutant of Stored: dl.offset does not follow what was written.
Stored_KeepsOffset ==
    /\ cur' = <<[cur[1] EXCEPT !.pos = @ + cur[1].len, !.len = 0]>>
    /\ UNCHANGED offset

(* Write: WriteAtNoOverwrite at dl.offset inside the critical section of   *)
(* dl.mu.  It stores everything and kicks the waiters, or fails; a run of  *)
(* bytes that were cached already makes it stop its own buffering.         *)
Stored ==
    /\ offset' = offset + cur[1].len
    /\ cur' = <<[cur[1] EXCEPT !.pos = @ + cur[1].len, !.len = 0]>>

WriteAt ==
    \/ /\ Stored
       /\ \/ dpc' = "kick" /\ dlMu' = Idle /\ UNCHANGED <<stop, sb>>
          \/ /\ ~stop /\ cur[1].len > 0
             /\ stop' = TRUE /\ dpc' = "skip" /\ dlMu' = "dl"
             /\ StopBuffering("dl")
       /\ UNCHANGED end
    \/ /\ end' = "error" /\ dpc' = "ended" /\ dlMu' = Idle
       /\ UNCHANGED <<cur, offset, stop, sb>>

WriteRest == UNCHANGED <<ready, readyClosed, token, exit, exited, size,
                         fillVars, maxOffset, spc, cancelled, panics, poolVars>>

DlWrite ==
    /\ dpc = "write" /\ dlMu = Idle /\ offset < maxOffset
    /\ WriteAt
    /\ WriteRest /\ UNCHANGED kick

(* Nobody wants more: wait for a kick, for quit or for the idle timeout. *)
DlIdle ==
    /\ dpc = "write" /\ dlMu = Idle /\ offset >= maxOffset
    /\ dpc' = "idle"
    /\ UNCHANGED <<bufVars, fillVars, end, offset, maxOffset, kick, stop, dlMu,
                   stopVars, poolVars>>

DlKicked ==
    /\ dpc = "idle" /\ kick /\ dlMu = Idle
    /\ kick' = FALSE /\ dpc' = "write"
    /\ UNCHANGED <<bufVars, fillVars, end, offset, maxOffset, stop, dlMu,
                   stopVars, poolVars>>

DlQuit ==
    /\ dpc = "idle" /\ stop /\ dlMu = Idle
    /\ WriteAt
    /\ WriteRest /\ UNCHANGED kick

DlTimeout ==
    /\ dpc = "idle" /\ ~stop /\ dlMu = Idle
    /\ stop' = TRUE /\ dlMu' = "dl" /\ dpc' = "timeout"
    /\ StopBuffering("dl")
    /\ UNCHANGED <<bufVars, fillVars, end, offset, maxOffset, kick, spc, cancelled,
                   panics, poolVars>>

(* _stop returned inside Write: after the timeout the buffer is still to   *)
(* be written, after the skipping it is.                                   *)
DlTimedOut ==
    /\ dpc = "timeout" /\ StopBufferingReturns("dl")
    /\ \/ Stored /\ dpc' = "kick" /\ UNCHANGED end
       \/ /\ end' = "error" /\ dpc' = "ended"
          /\ UNCHANGED <<cur, offset>>
    /\ dlMu' = Idle
    /\ WriteRest /\ UNCHANGED <<kick, stop>>

DlSkipped ==
    /\ dpc = "skip" /\ StopBufferingReturns("dl")
    /\ dpc' = "kick" /\ dlMu' = Idle
    /\ WriteRest /\ UNCHANGED <<cur, end, offset, kick, stop>>

(* kickWaiters may report an error; then WriteTo looks at what came with   *)
(* the buffer.                                                             *)
DlNext ==
    /\ dpc = "kick"
    /\ \E waitErr \in {"none", "error"} :
         LET err == IF waitErr # "none" THEN waitErr ELSE cur[1].err
         IN  /\ end' = err
             /\ dpc' = IF err = "none" THEN "fill" ELSE "ended"
    /\ UNCHANGED <<bufVars, fillVars, offset, maxOffset, kick, stop, dlMu,
                   stopVars, poolVars>>

-----------------------------------------------------------------------------
(* downloader.close, Reader.Close and Abandon, under dl.mu: stop the       *)
(* filling, give every buffer back, close the raw reader.                  *)
DlClose ==
    /\ dpc = "ended" /\ dlMu = Idle
    /\ dlMu' = "dl" /\ dpc' = "abandon"
    /\ StopBuffering("dl")
    /\ UNCHANGED <<bufVars, fillVars, end, offset, maxOffset, kick, stop, spc,
                   cancelled, panics, poolVars>>

DlAbandon ==
    /\ dpc = "abandon" /\ StopBufferingReturns("dl")
    /\ dpc' = "drain"
    /\ IF cur # <<>> THEN PutN(1) ELSE UNCHANGED poolVars
    /\ cur' = <<>>
    /\ UNCHANGED <<ready, readyClosed, token, exit, exited, size, fillVars, end,
                   offset, maxOffset, kick, stop, dlMu, spc, cancelled, panics>>

DlDrain ==
    /\ dpc = "drain"
    /\ \/ /\ ready # <<>>
          /\ ready' = Tail(ready) /\ PutN(1)
          /\ UNCHANGED dpc
       \/ /\ ready = <<>> /\ readyClosed
          /\ dpc' = "rawclose" /\ UNCHANGED <<ready, poolVars>>
    /\ UNCHANGED <<readyClosed, token, exit, exited, cur, size, fillVars, end,
                   offset, maxOffset, kick, stop, dlMu, stopVars>>

DlRawClosed ==
    /\ dpc = "rawclose"
    /\ in' = [in EXCEPT !.open = FALSE]
    /\ dpc' = "done" /\ dlMu' = Idle
    /\ UNCHANGED <<bufVars, fpc, fbuf, end, offset, maxOffset, kick, stop,
                   stopVars, poolVars>>

Dl == \/ DlPut \/ DlTake \/ DlAbandoned \/ DlWrite \/ DlIdle \/ DlKicked
      \/ DlQuit \/ DlTimeout \/ DlTimedOut \/ DlSkipped \/ DlNext
      \/ DlClose \/ DlAbandon \/ DlDrain
      \/ StopBufferingRuns("dl")

-----------------------------------------------------------------------------
(* setRange: a reader wants more of this stream. *)
SetRange ==
    /\ dlMu = Idle /\ dpc # "done"
    /\ \E max \in maxOffset+1 .. Size : maxOffset' = max
    /\ kick' = TRUE
    /\ UNCHANGED <<bufVars, fillVars, dpc, end, offset, stop, dlMu, stopVars, poolVars>>

(* Downloaders.Close: cancel the context, then stopAndClose. *)
StopCall ==
    /\ spc = "off"
    /\ cancelled' = TRUE /\ spc' = "lock"
    /\ UNCHANGED <<bufVars, fillVars, dlVars, sb, panics, poolVars>>

\* Mutant of StopLock: stopAndClose does not take dl.mu.
StopLock_Unlocked ==
    /\ spc = "lock"
    /\ spc' = "stopping" /\ StopBuffering("stopper")
    /\ UNCHANGED <<bufVars, fillVars, dlVars, cancelled, panics, poolVars>>

StopLock ==
    /\ spc = "lock" /\ dlMu = Idle
    /\ IF stop \/ dpc = "done"
       THEN stop' = TRUE /\ spc' = "wait" /\ UNCHANGED <<dlMu, sb>>
       ELSE /\ stop' = TRUE /\ dlMu' = "stopper" /\ spc' = "stopping"
            /\ StopBuffering("stopper")
    /\ UNCHANGED <<bufVars, fillVars, dpc, end, offset, maxOffset, kick,
                   cancelled, panics, poolVars>>

StopUnlock ==
    /\ spc = "stopping" /\ StopBufferingReturns("stopper")
    /\ dlMu' = Idle /\ spc' = "wait"
    /\ UNCHANGED <<bufVars, fillVars, dpc, end, offset, maxOffset, kick, stop,
                   cancelled, panics, poolVars>>

(* dl.wg.Wait(), and a close that finds dl.in = nil. *)
StopWait ==
    /\ spc = "wait" /\ dpc = "done"
    /\ spc' = "done"
    /\ UNCHANGED <<bufVars, fillVars, dlVars, cancelled, sb, panics, poolVars>>

Stopper == StopCall \/ StopLock \/ StopUnlock \/ StopWait \/ StopBufferingRuns("stopper")

-----------------------------------------------------------------------------
PoolTimer == FlushAged /\ UNCHANGED <<bufVars, fillVars, dlVars, stopVars>>

(* The pool is global: other streams and readers take pages and return     *)
(* theirs.                                                                 *)
Held == Len(ready) + Len(cur) + (IF fpc \in {"read", "send"} THEN 1 ELSE 0)

PoolOthers ==
    /\ GetN(1) \/ \E n \in 0 .. inUse - Held : PutN(n)
    /\ UNCHANGED <<bufVars, fillVars, dlVars, stopVars>>

RawRead == \E n \in 0 .. fbuf.len : \E err \in Errors : FillRead(n, err)

Next == \/ Fill \/ RawRead \/ Dl \/ DlRawClosed \/ SetRange \/ Stopper
        \/ PoolTimer \/ PoolOthers

Spec == Init /\ [][Next]_vars

-----------------------------------------------------------------------------
(* The bytes from offset to the raw reader's position are the buffers, in  *)
(* order and without a gap: what WriteTo hands to Write at dl.offset is    *)
(* what the object has there, and nothing is read twice or lost.           *)
InOrder ==
    LET next == IF cur = <<>> THEN offset ELSE offset + cur[1].len
    IN  /\ dpc \notin {"drain", "rawclose", "done"} /\ cur # <<>> => cur[1].pos = offset
        /\ dpc \notin {"drain", "rawclose", "done"} /\ ready # <<>> => ready[1].pos = next
        /\ \A i \in 1 .. Len(ready) - 1 : ready[i+1].pos = ready[i].pos + ready[i].len

(* Tokens bound the buffers: the filling goroutine never blocks in its     *)
(* send, fill never blocks when it gives a token back, and an error is     *)
(* the last thing that is sent.  So StopBuffering, which nobody reads      *)
(* ready during, only ever waits for the raw reader.                       *)
ChannelsNeverBlock ==
    /\ fpc = "send" => Len(ready) < Buffers
    /\ dpc = "fill" /\ cur # <<>> => token < Buffers
    /\ \A i \in 1 .. Len(ready) :
          ready[i].err # "none" => i = Len(ready) /\ fpc \notin {"select", "read", "send"}

(* StopBuffering looks at exit before it closes it, without a lock of its  *)
(* own; dl.mu makes sure that no two callers close it.  The raw reader,    *)
(* which Close closes, is not being read any more.                         *)
ClosedOnce == ~panics

NoReadAfterClose == ~in.open => fpc \in {"closeExited", "gone"}

CloseIsClean == ClosedOnce /\ NoReadAfterClose
=============================================================================
