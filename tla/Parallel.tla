----------------------------- MODULE Parallel -----------------------------
(***************************************************************************)
(* The parallel chunk reader                                               *)
(* (src/internal/engine/chunkstream/parallel.go).  Up to nstreams chunks   *)
(* are fetched ahead, each by a goroutine that copies a RetryReader        *)
(* (src/internal/engine/objectio/retry_reader.go) into the pages of an RW  *)
(* (src/internal/engine/bufferpool/reader_writer.go); Read takes the bytes *)
(* of the first stream and pops it when it has them all.                   *)
(*                                                                         *)
(* A stream is one record: the chunk, what RW holds (data, the positions   *)
(* of its bytes, in pages of the pool; page, the bytes of the Read under   *)
(* way that are not counted in RW.size yet), the RetryReader (hoff, tries, *)
(* body) and the goroutine (g, err for the channel it reports on); short   *)
(* is a history variable: the body ended cleanly before the range did.     *)
(* The written channel of RW and the one-second timer behind it only pace  *)
(* the polling: a wait ends here when there are bytes or the context ends. *)
(***************************************************************************)
EXTENDS Pool, Integers, Sequences

CONSTANTS Size, MaxFaults, BufferSize,
          MaxTries   \* Config.LowLevelRetries

VARIABLES
    opt,         \* [streams |-> nstreams, ...]
    par,         \* endStream, chunkSize, pc: where Read is
    streams,     \* the open streams, in order
    call, faults, cancelled

parVars == <<par, streams>>

Running == call.ret = "run"
Asked == call.want - Len(call.p)
Shorter(a, b) == IF a < b THEN a ELSE b
Positions(pos, n) == [i \in 1 .. n |-> pos + i - 1]

(* newParallel rounds the chunk up to whole pages. *)
RoundedChunk(c) ==
    IF c < 0 THEN BufferSize
             ELSE ((c + BufferSize - 1) \div BufferSize) * BufferSize

ParInit(start) ==
    /\ par = [endStream |-> start, chunkSize |-> RoundedChunk(opt.chunk), pc |-> "open"]
    /\ streams = <<>>

newStream(from, n) ==
    [offset |-> from, size |-> n, readBytes |-> 0, data |-> <<>>, page |-> <<>>,
     pages |-> 0, hoff |-> 0, tries |-> 0, body |-> [pos |-> from, end |-> from + n],
     g |-> "open", err |-> "none", cancel |-> FALSE, short |-> FALSE]

-----------------------------------------------------------------------------
(* Read: _open starts the streams that are missing. *)
ParOpen ==
    /\ Running /\ par.pc = "open"
    /\ LET left == (Size - par.endStream + par.chunkSize - 1) \div par.chunkSize
           new  == IF par.endStream >= Size THEN 0
                   ELSE Shorter(opt.streams - Len(streams), left)
           From(i) == par.endStream + (i - 1) * par.chunkSize
           To(i)   == Shorter(From(i) + par.chunkSize, Size)
           opened  == streams \o [i \in 1 .. new |-> newStream(From(i), To(i) - From(i))]
       IN  /\ streams' = opened
           /\ IF opened = <<>>
              THEN call' = [call EXCEPT !.ret = "eof"] /\ UNCHANGED par
              ELSE /\ par' = [par EXCEPT !.endStream = IF new = 0 THEN @ ELSE To(new),
                                         !.pc = "read"]
                   /\ UNCHANGED call
    /\ UNCHANGED <<opt, faults, cancelled, poolVars>>

(* stream.read: RW.Read gives what is there; a stream that was read to its *)
(* end is closed, beginning with its context.                              *)
ParRead ==
    /\ Running /\ par.pc = "read"
    /\ LET s == streams[1]
           n == Shorter(Asked, Len(s.data) - s.readBytes)
           p == call.p \o SubSeq(s.data, s.readBytes + 1, s.readBytes + n)
           atEnd == s.readBytes + n >= s.size
           full  == Len(p) = call.want
       IN  /\ call' = [call EXCEPT !.p = p,
                                   !.ret = IF full /\ ~atEnd THEN "ok" ELSE "run"]
           /\ streams' = [streams EXCEPT ![1].readBytes = @ + n, ![1].cancel = atEnd]
           /\ par' = [par EXCEPT !.pc = CASE atEnd -> "pop"
                                          [] full /\ ~atEnd -> "open"
                                          [] OTHER -> "wait"]
    /\ UNCHANGED <<opt, faults, cancelled, poolVars>>

(* WaitWrite, then the look at the stream's context. *)
ParWait ==
    /\ Running /\ par.pc = "wait"
    /\ \/ /\ ~cancelled /\ Len(streams[1].data) > streams[1].readBytes
          /\ par' = [par EXCEPT !.pc = "read"] /\ UNCHANGED call
       \/ /\ cancelled
          /\ call' = [call EXCEPT !.ret = "error"]
          /\ par' = [par EXCEPT !.pc = "open"]
    /\ UNCHANGED <<opt, streams, faults, cancelled, poolVars>>

\* Mutant of CloseHead: RW.Close is forgotten.
CloseHead_LeaksPages ==
    /\ streams # <<>> /\ streams[1].g = "done"
    /\ PutN(0)
    /\ streams' = Tail(streams)

\* Mutant of CloseHead: the pages are returned twice.
CloseHead_PutsTwice ==
    /\ streams # <<>> /\ streams[1].g = "done"
    /\ PutN(Shorter(2 * streams[1].pages, inUse))
    /\ streams' = Tail(streams)

(* stream.close: it waits for the goroutine's report, returns the pages    *)
(* and turns a cancelled stream into an abandoned one.                     *)
CloseHead ==
    /\ streams # <<>> /\ streams[1].g = "done"
    /\ PutN(streams[1].pages)
    /\ streams' = Tail(streams)

ParPop ==
    /\ Running /\ par.pc = "pop"
    /\ CloseHead
    /\ call' = [call EXCEPT !.ret = CASE streams[1].err = "canceled" -> "abandoned"
                                      [] streams[1].err = "error" -> "error"
                                      [] OTHER -> IF Asked = 0 THEN "ok" ELSE "run"]
    /\ par' = [par EXCEPT !.pc = "open"]
    /\ UNCHANGED <<opt, faults, cancelled>>

ParStep == ParOpen \/ ParRead \/ ParWait \/ ParPop

(* Close pops every stream: cancel, then the report. *)
ParCloseStep ==
    /\ streams # <<>>
    /\ \/ /\ ~streams[1].cancel
          /\ streams' = [streams EXCEPT ![1].cancel = TRUE]
          /\ UNCHANGED poolVars
       \/ streams[1].cancel /\ CloseHead
    /\ UNCHANGED <<opt, par, call, faults, cancelled>>

-----------------------------------------------------------------------------
(* The goroutine of stream i.                                              *)
\* Mutant of Cancelled: the request does not run under the stream's context.
Cancelled_Background(i) == FALSE

Cancelled(i) == cancelled \/ streams[i].cancel

\* Mutant of Finish: the bytes of the last Read are not counted.
Finish_DropsPage(s, err) == [s EXCEPT !.page = <<>>, !.g = "done", !.err = err]

(* RW.ReadFrom's Read returned: its bytes count, and at an error or the    *)
(* end the goroutine reports.                                              *)
Finish(s, err) ==
    [s EXCEPT !.data = @ \o s.page, !.page = <<>>, !.g = "done", !.err = err]

EndedEarly(s) == [Finish(s, "none") EXCEPT !.short = TRUE]

Room(s) == s.pages * BufferSize - Len(s.data) - Len(s.page)

(* RetryReader.Read got n bytes of the body. *)
Got(s, n) == [s EXCEPT !.page = @ \o Positions(s.body.pos, n),
                       !.hoff = @ + n, !.body.pos = @ + n]

(* reopen: the same range from the first byte not consumed.  It counts a   *)
(* try and may fail like any open; an empty rest is refused by             *)
(* sourceObject.Open.                                                      *)
CanReopen(s) == s.tries < MaxTries /\ s.hoff < s.size

\* Mutant of Reopened: the range is opened from its start again.
Reopened_FromStart(s) == [s EXCEPT !.tries = @ + 1, !.body.pos = s.offset]

Reopened(s) == [s EXCEPT !.tries = @ + 1, !.body.pos = s.offset + s.hoff]

(* writePage: with no room left, the bytes of the last page count and the  *)
(* pool gives the next.  The pool never blocks, so this is the end of the  *)
(* step that filled the page.                                              *)
WritePage(i, s) ==
    IF Room(s) = 0
    THEN /\ streams' = [streams EXCEPT ![i] =
              [s EXCEPT !.data = @ \o s.page, !.page = <<>>, !.pages = @ + 1]]
         /\ GetN(1)
    ELSE streams' = [streams EXCEPT ![i] = s] /\ UNCHANGED poolVars

Report(i, s) == streams' = [streams EXCEPT ![i] = s] /\ UNCHANGED poolVars

(* OpenRetrying: the first open is the first try. *)
StreamOpen(i) ==
    /\ streams[i].g = "open"
    /\ \/ /\ MaxTries > 0 /\ ~Cancelled(i)
          /\ WritePage(i, [streams[i] EXCEPT !.g = "read", !.tries = 1])
          /\ UNCHANGED faults
       \/ /\ Cancelled(i)
          /\ Report(i, Finish(streams[i], "canceled"))
          /\ UNCHANGED faults
       \/ /\ ~Cancelled(i) /\ (MaxTries = 0 \/ faults < MaxFaults)
          /\ Report(i, Finish(streams[i], "error"))
          /\ faults' = IF MaxTries = 0 THEN faults ELSE faults + 1
    /\ UNCHANGED <<opt, par, call, cancelled>>

(* Reads of the body inside RetryReader.Read, which goes on until the page *)
(* is full: the bytes that fit, perhaps with the end; the end; a failure   *)
(* after some bytes; and a body that ends too early.  RetryReader takes    *)
(* every io.EOF for the end and RW.ReadFrom turns it into nil.             *)
StreamRead(i) ==
    /\ streams[i].g = "read"
    /\ LET s    == streams[i]
           rest == s.body.end - s.body.pos
           most == Shorter(Room(s), rest)
       IN  \/ /\ rest > 0 /\ WritePage(i, Got(s, most))
              /\ UNCHANGED faults
           \/ /\ most = rest /\ Report(i, Finish(Got(s, rest), "none"))
              /\ UNCHANGED faults
           \/ /\ Cancelled(i)
              /\ Report(i, Finish(s, "canceled"))
              /\ UNCHANGED faults
           \/ /\ ~Cancelled(i) /\ faults < MaxFaults
              /\ faults' = faults + 1
              /\ \E n \in 0 .. most :
                   LET t == Got(s, n)
                   IN  \/ CanReopen(t) /\ WritePage(i, Reopened(t))
                       \/ Report(i, Finish(t, "error"))
                       \/ n < rest /\ Report(i, EndedEarly(t))
    /\ UNCHANGED <<opt, par, call, cancelled>>

StreamStep(i) == StreamOpen(i) \/ StreamRead(i)
=============================================================================
