------------------------------- MODULE Stream -------------------------------
(***************************************************************************)
(* A whole download: the downloader and its asynchronous buffer            *)
(* (StreamBuf) over a chunk reader, sequential or parallel as              *)
(* chunkstream.New chooses, and the buffer pool that the two of them use.  *)
(***************************************************************************)
EXTENDS StreamBuf, Integers, FiniteSets

CONSTANTS
    Options,     \* settings [chunk, limit, streams] of chunkstream.New
    Starts,      \* where a download begins
    Wanted,      \* bound: the ends of the ranges that later readers ask for
    MaxFaults,   \* bound: failures of the origin in one download
    MaxTries     \* Config.LowLevelRetries

(* A download begins at a byte the object has; the settings are anything. *)
ASSUME StreamAssumption ==
    /\ Options \subseteq [chunk : Int, limit : Int, streams : Int]
    /\ Starts \subseteq 0 .. Size - 1
    /\ MaxFaults \in Nat /\ MaxTries \in Nat

VARIABLES opt, call, faults, seq, par, streams

chunkVars == <<opt, call, faults, seq, par, streams>>
allVars == <<vars, chunkVars>>

Q == INSTANCE Sequential
P == INSTANCE Parallel

NoCall == [want |-> 0, p |-> <<>>, ret |-> "idle"]

(* chunkstream.New: no chunks without a size, no limit below the size. *)
Normal(o) ==
    LET chunk == IF o.chunk <= 0 THEN -1 ELSE o.chunk
    IN  [chunk |-> chunk, streams |-> o.streams,
         limit |-> IF o.limit # -1 /\ o.limit < chunk THEN chunk ELSE o.limit]

IsParallel == opt.streams > 1

StreamInit ==
    /\ \E start \in Starts :
         /\ InitAt(start, start + 1)
         /\ \E o \in Options : opt = Normal(o)
         /\ Q!SeqInit(start) /\ P!ParInit(start)
    /\ call = NoCall /\ faults = 0

-----------------------------------------------------------------------------
(* The filling goroutine calls Read of the chunk reader. *)
ReadCall ==
    /\ FillToken
    /\ call' = [want |-> fbuf'.len, p |-> <<>>, ret |-> "run"]
    /\ UNCHANGED <<opt, faults, seq, par, streams>>

ReadReturn ==
    /\ call.ret \notin {"idle", "run"}
    /\ FillRead(Len(call.p), IF call.ret = "ok" THEN "none" ELSE call.ret)
    /\ call' = NoCall
    /\ UNCHANGED <<opt, faults, seq, par, streams>>

bufRest == UNCHANGED <<bufVars, fillVars, dlVars, spc, sb, panics>>

SequentialStep ==
    /\ ~IsParallel /\ Q!SeqStep
    /\ bufRest /\ UNCHANGED <<par, streams, poolVars>>

ParallelStep ==
    /\ IsParallel /\ P!ParStep
    /\ bufRest /\ UNCHANGED seq

Goroutine(i) ==
    /\ P!StreamStep(i)
    /\ bufRest /\ UNCHANGED seq

(* in.Close. *)
CloseSequential ==
    /\ ~IsParallel /\ DlRawClosed
    /\ Q!SeqClose /\ UNCHANGED <<opt, call, faults, par, streams>>

CloseParallel ==
    /\ IsParallel /\ dpc = "rawclose"
    /\ \/ P!ParCloseStep /\ bufRest /\ UNCHANGED seq
       \/ streams = <<>> /\ DlRawClosed /\ UNCHANGED chunkVars

Filler == \/ ReadCall \/ ReadReturn
          \/ (FillExit \/ FillSend \/ FillCloseReady \/ FillCloseExited)
             /\ UNCHANGED chunkVars

Finished == dpc = "done" /\ spc = "done" /\ ~timer /\ UNCHANGED allVars

StreamNext ==
    \/ Filler \/ SequentialStep \/ ParallelStep
    \/ \E i \in DOMAIN streams : Goroutine(i)
    \/ Dl /\ UNCHANGED chunkVars
    \/ CloseSequential \/ CloseParallel
    \/ (Stopper \/ PoolTimer) /\ UNCHANGED chunkVars
    \/ SetRange /\ maxOffset' \in Wanted /\ UNCHANGED chunkVars
    \/ Finished

StreamSpec == StreamInit /\ [][StreamNext]_allVars

(***************************************************************************)
(* Fairness: every goroutine goes on while it can, but an origin may take  *)
(* for ever to answer, unless the context of the request was cancelled,    *)
(* which fails it.                                                         *)
(***************************************************************************)
Fairness ==
    /\ WF_allVars(Filler \/ ParallelStep \/ (cancelled /\ SequentialStep))
    /\ WF_allVars(\E i \in DOMAIN streams : P!Cancelled(i) /\ Goroutine(i))
    /\ WF_allVars((Dl /\ UNCHANGED chunkVars) \/ CloseSequential \/ CloseParallel)
    /\ WF_allVars(spc # "off" /\ Stopper /\ UNCHANGED chunkVars)

FairSpec == StreamSpec /\ Fairness

-----------------------------------------------------------------------------
(* The steps of the composition are steps of StreamBuf: the chunk readers  *)
(* keep the contract of its raw reader.                                    *)
ImplementsStreamBuf == Spec

(* The chunk reader returns the bytes of the object that come next, in     *)
(* order: across the chunks of the sequential reader, the streams of the   *)
(* parallel one, which tile the object from the reader's position to       *)
(* endStream, and the bodies that RetryReader opens again.                 *)
ReadsInOrder ==
    /\ \A i \in DOMAIN call.p : call.p[i] = in.pos + i - 1
    /\ \A i \in DOMAIN streams :
         LET s == streams[i]
         IN  /\ s.offset + s.size = IF i = Len(streams) THEN par.endStream
                                                        ELSE streams[i+1].offset
             /\ Len(s.data) <= s.size
             /\ \A j \in DOMAIN s.data : s.data[j] = s.offset + j - 1
    /\ streams # <<>> /\ in.open /\ dpc # "rawclose" =>
         streams[1].offset + streams[1].readBytes = in.pos + Len(call.p)

(* Every buffer that is out of the pool is held by this stream, and none   *)
(* is once it is closed; no goroutine is left behind either.               *)
Pages == UNION { {i} \X (1 .. streams[i].pages) : i \in DOMAIN streams }

BuffersReturned ==
    /\ inUse = Held + Cardinality(Pages)
    /\ alloced = inUse + cached
    /\ dpc = "done" => inUse = 0 /\ streams = <<>> /\ readyClosed

(* A Read of the parallel reader that waits has something to wait for: the *)
(* goroutine of the first stream still runs, or its bytes are there.  The  *)
(* two exceptions are hangs until the download is cancelled, because       *)
(* stream.read (parallel.go:66-83) looks neither at the report nor at what *)
(* is missing: that goroutine ended with an error, which only close looks  *)
(* at, or it ended without one after the origin had ended the body early   *)
(* and cleanly (retry_reader.go:120, reader_writer.go:198-200).            *)
WaitHasWriter ==
    call.ret = "run" /\ par.pc = "wait" /\ ~cancelled =>
        \/ streams[1].g # "done"
        \/ Len(streams[1].data) > streams[1].readBytes
        \/ streams[1].err = "error"
        \/ streams[1].short

(* A download that ends with a clean EOF, and met no failure of the        *)
(* origin, has written the object to its end.                              *)
EofIsTheEnd == end = "eof" /\ faults = 0 => offset = Size

(* "Read at %d error = %v, want EOF" (chunkstream/reader_test.go:128): a   *)
(* Read that comes to the end of the object, with an origin that does not  *)
(* fail, returns io.EOF with its last bytes.  It does not when the last    *)
(* chunk ends where the object does: the next one is refused.              *)
EndIsEof ==
    call.ret \notin {"idle", "run"} /\ Len(call.p) < call.want
    /\ faults = 0 /\ ~cancelled => call.ret = "eof"

(* Downloaders.Close returns, whatever the origin does: it cancels the     *)
(* context, and the filling goroutine, the downloader inside Write and the *)
(* goroutines of the streams all come to their end.                        *)
StopReturns == spc = "lock" ~> spc = "done"
=============================================================================
