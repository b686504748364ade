----------------------------- MODULE Scheduler -----------------------------
(***************************************************************************)
(* The download scheduler of one cache item                                *)
(* (src/internal/engine/scheduler/scheduler.go): readers call Download and *)
(* block until their range is cached, downloader goroutines stream blocks  *)
(* of the origin into the item, are reused or started for waiting readers, *)
(* and every write, every exit and a background ticker kick the waiters.   *)
(*                                                                         *)
(* Bytes are grouped in blocks 0 .. Size-1; a Write of the stream carries  *)
(* one block.  The item keeps the set of cached blocks (RangeSet shows     *)
(* that the list of ranges implements such a set).  What is atomic here is *)
(* what the code does inside one critical section of item.mu or of the     *)
(* downloader's own mutex; a critical section of Downloaders.mu, which     *)
(* spans many of those, is several steps of the thread that holds mu.      *)
(***************************************************************************)
EXTENDS Integers, FiniteSets

CONSTANTS
    Readers,          \* threads that call Download or EnsureDownloader
    Ids,              \* downloader goroutines; an id is reused once it exited
    Ticker, Closer,   \* the background kicker, the thread that calls Close
    Free,             \* "no thread holds mu", "no downloader"
    Size,             \* blocks of the object
    Requests,         \* ranges the readers ask for
    Window,           \* Config.BufferSize, in blocks
    MinWindow,        \* minWindow
    ReadAhead,        \* Config.ReadAhead
    MaxSkip,          \* maxSkipBytes
    MaxErrorCount,    \* maxErrorCount
    Buffered,         \* downloadInput.HasBuffer(): a streambuf sits in between
    ShortReads,       \* the origin may end a stream early without an error
    CloseWithReaders, \* Close may be called while a Download is in progress
    MaxDying          \* bound: goroutines between their close and their exit

Threads == Readers \cup Ids \cup {Ticker, Closer}

Blocks == 0 .. Size-1

ASSUME ConstantsAssumption ==
    /\ Size \in Nat \ {0}
    /\ Window \in Nat /\ MinWindow \in Nat \ {0} /\ ReadAhead \in Nat
    /\ MaxSkip \in Nat /\ MaxErrorCount \in Nat /\ MaxDying \in Nat \ {0}
    /\ Buffered \in BOOLEAN /\ ShortReads \in BOOLEAN
    /\ CloseWithReaders \in BOOLEAN
    /\ Requests \subseteq { q \in [pos : Blocks, size : 1 .. Size] :
                                q.pos + q.size <= Size }

ASSUME ThreadsAssumption ==
    /\ Readers \cap Ids = {} /\ Ticker # Closer
    /\ Ticker \notin Readers \cup Ids /\ Closer \notin Readers \cup Ids
    /\ Free \notin Threads

VARIABLES
    present,     \* Item.info.Rs, as the set of cached blocks
    rd,          \* the readers' calls
    waiters,     \* Downloaders.waiters: readers blocked on their errChan
    dl,          \* the downloaders
    dls,         \* Downloaders.dls
    mu,          \* the holder of Downloaders.mu
    step,        \* what the holder of mu does next
    todo,        \* the waiters its loop has not handled yet
    cur,         \* the waiter _ensureDownloader works for
    miss,        \* what _ensureDownloader read from the item
    errorCount, lastErr,   \* Downloaders.errorCount (capped), .lastErr
    ctxDone,     \* Downloaders.ctx is cancelled
    tpc,         \* the ticker goroutine
    cpc, closeTodo, closing   \* Close: its step, its loop, the dl it waits for

lockVars  == <<mu, step, todo, cur, miss>>
errVars   == <<errorCount, lastErr>>
closeVars == <<cpc, closeTodo, closing>>
vars == <<present, rd, waiters, dl, dls, mu, step, todo, cur, miss,
          errorCount, lastErr, ctxDone, tpc, cpc, closeTodo, closing>>

(***************************************************************************)
(* State records                                                           *)
(***************************************************************************)
Errors == {"nil", "nospace", "io"}

Idle == [pc |-> "idle", op |-> "none", pos |-> 0, size |-> 0, res |-> "none"]

Gone == [pc |-> "gone", start |-> 0, offset |-> 0, max |-> 0, kick |-> FALSE,
         stop |-> FALSE, buf |-> "none", skipped |-> 0, wrote |-> FALSE,
         err |-> "nil"]

NoMiss == [pos |-> 0, size |-> 0, startNew |-> FALSE]

ReaderState == [pc : {"idle", "call", "wait", "ret"},
                op : {"none", "download", "ensure"},
                pos : 0 .. Size, size : 0 .. Size,
                res : {"none"} \cup Errors]

DlState == [pc : {"read", "idle", "put", "kick", "close", "count", "final",
                  "gone"},
            start : 0 .. Size, offset : 0 .. Size, max : Nat,
            kick : BOOLEAN, stop : BOOLEAN,
            buf : {"none", "data", "eof", "err"},
            skipped : 0 .. MaxSkip + 1, wrote : BOOLEAN,
            err : Errors \cup {"abandoned"}]

Init ==
    /\ present \in SUBSET Blocks
    /\ rd = [r \in Readers |-> Idle]
    /\ waiters = {}
    /\ dl = [d \in Ids |-> Gone]
    /\ dls = {}
    /\ mu = Free /\ step = "none" /\ todo = {} /\ cur = Free /\ miss = NoMiss
    /\ errorCount = 0 /\ lastErr = "nil"
    /\ ctxDone = FALSE
    /\ tpc = "run"
    /\ cpc = "off" /\ closeTodo = {} /\ closing = Free

-----------------------------------------------------------------------------
(***************************************************************************)
(* The item, as the scheduler sees it                                      *)
(***************************************************************************)
RequestOf(r) == rd[r].pos .. rd[r].pos + rd[r].size - 1

HasRange(r) == RequestOf(r) \subseteq present

(* The first position at or after pos that is not cached, at most end. *)
FirstMissing(pos, end) ==
    CHOOSE q \in pos .. end : /\ pos .. q-1 \subseteq present
                              /\ q = end \/ q \notin present

(* Item.FindMissing: the missing tail of pos .. end-1, clipped to the size. *)
FindMissing(pos, end) ==
    LET q == IF pos < end THEN FirstMissing(pos, end) ELSE pos
        e == IF end <= Size THEN end ELSE Size
    IN  [pos |-> q, end |-> e]

(* The range _ensureDownloader looks for, and whether it may start a stream. *)
ToFetch(pos, size) ==
    LET m == FindMissing(pos, pos + size + ReadAhead)
        w == FindMissing(m.pos, m.pos + Window)
    IN  IF m.pos < m.end
        THEN [pos |-> m.pos, size |-> m.end - m.pos, startNew |-> TRUE]
        ELSE IF w.pos < w.end
        THEN [pos |-> w.pos, size |-> 0, startNew |-> TRUE]
        ELSE [pos |-> m.pos + Window, size |-> 0, startNew |-> FALSE]

-----------------------------------------------------------------------------
(***************************************************************************)
(* Downloaders                                                             *)
(***************************************************************************)
Closed(d) == dl[d].pc \in {"count", "final", "gone"}

(* _removeClosed *)
Open == { d \in dls : ~ Closed(d) }

ReuseWindow == IF Window < MinWindow THEN MinWindow ELSE Window

(* A downloader that has passed pos or will reach it within the window. *)
\* Mutant of Reaches: the first block of a stream is not its own.
ReachesAfterStart(d, pos) == /\ pos > dl[d].start
                             /\ pos < dl[d].offset + ReuseWindow

Reaches(d, pos) == /\ pos >= dl[d].start
                   /\ pos < dl[d].offset + ReuseWindow

(* Exited goroutines whose identity nothing refers to any more. *)
Unused == { d \in Ids : dl[d].pc = "gone" } \ (closeTodo \cup dls \cup {closing})

(***************************************************************************)
(* setRange.  A token put in the kick channel of a stream that does not    *)
(* idle only makes Write compare offset and maxOffset once more when it    *)
(* does idle, with the result it has already: such tokens are left out.    *)
(***************************************************************************)
\* Mutant of Extended: the stream is woken but keeps its old end.
ExtendedKickOnly(d, end) == [dl[d] EXCEPT !.kick = dl[d].pc = "idle"]

Extended(d, end) == [dl[d] EXCEPT !.max = IF end > @ THEN end ELSE @,
                                  !.kick = dl[d].pc = "idle"]

(* _newDownloader: open seeks to pos; the stream is read by the goroutine. *)
Started(pos, end) == [Gone EXCEPT !.pc = "read", !.start = pos,
                                  !.offset = pos, !.max = end]

(***************************************************************************)
(* _ensureDownloader, called by the holder t of mu for the waiter cur: the *)
(* item is read first; downloaders may write, stop and close before the    *)
(* list of downloaders is examined.                                        *)
(***************************************************************************)
EnsureFind(t) ==
    /\ mu = t /\ step = "find"
    /\ \E w \in todo :
         /\ cur' = w
         /\ miss' = ToFetch(rd[w].pos, rd[w].size)
    /\ step' = "start"
    /\ UNCHANGED <<present, rd, waiters, dl, dls, mu, todo, errVars, ctxDone,
                   tpc, closeVars>>

EnsureReuse(d) ==
    /\ d \in Open /\ Reaches(d, miss.pos)
    /\ dl' = [dl EXCEPT ![d] = Extended(d, miss.pos + miss.size)]
    /\ dls' = Open

EnsureNew(d) ==
    /\ \A o \in Open : ~ Reaches(o, miss.pos)
    /\ miss.startNew /\ miss.size > 0
    /\ dl' = [dl EXCEPT ![d] = Started(miss.pos, miss.pos + miss.size)]
    /\ dls' = Open \cup {d}

EnsureNothing ==
    /\ \A o \in Open : ~ Reaches(o, miss.pos)
    /\ ~ miss.startNew \/ miss.size = 0
    /\ dls' = Open
    /\ UNCHANGED dl

EnsureStart(t) ==
    /\ mu = t /\ step = "start"
    /\ \/ \E d \in Ids : EnsureReuse(d)
       \/ \E d \in Unused : EnsureNew(d)
       \/ EnsureNothing
    /\ step' = "find" /\ todo' = todo \ {cur} /\ cur' = Free /\ miss' = NoMiss
    /\ UNCHANGED <<present, rd, waiters, mu, errVars, ctxDone, tpc, closeVars>>

-----------------------------------------------------------------------------
(***************************************************************************)
(* Readers.  The caller, Item.ensureLocked, asks for a missing range with  *)
(* Download and for a cached one with EnsureDownloader.                    *)
(***************************************************************************)
Call(r, q) ==
    /\ rd[r].pc = "idle"
    /\ CloseWithReaders \/ cpc = "off"
    /\ rd' = [rd EXCEPT ![r] =
                [pc |-> "call", pos |-> q.pos, size |-> q.size, res |-> "none",
                 op |-> IF q.pos .. q.pos + q.size - 1 \subseteq present
                        THEN "ensure" ELSE "download"]]
    /\ UNCHANGED <<present, waiters, dl, dls, lockVars, errVars, ctxDone, tpc,
                   closeVars>>

CallLock(r) ==
    /\ rd[r].pc = "call" /\ mu = Free
    /\ mu' = r /\ step' = "start" /\ todo' = {r}
    /\ cur' = r /\ miss' = ToFetch(rd[r].pos, rd[r].size)
    /\ UNCHANGED <<present, rd, waiters, dl, dls, errVars, ctxDone, tpc,
                   closeVars>>

CallUnlock(r) ==
    /\ mu = r /\ step = "find" /\ todo = {}
    /\ \/ /\ rd[r].op = "download"
          /\ waiters' = waiters \cup {r}
          /\ rd' = [rd EXCEPT ![r].pc = "wait"]
       \/ /\ rd[r].op = "ensure"
          /\ rd' = [rd EXCEPT ![r] = Idle]
          /\ UNCHANGED waiters
    /\ mu' = Free /\ step' = "none"
    /\ UNCHANGED <<present, dl, dls, todo, cur, miss, errVars, ctxDone, tpc,
                   closeVars>>

(* The caller has read the answer of its call. *)
Return(r) ==
    /\ rd[r].pc = "ret"
    /\ rd' = [rd EXCEPT ![r] = Idle]
    /\ UNCHANGED <<present, waiters, dl, dls, lockVars, errVars, ctxDone, tpc,
                   closeVars>>

(* errChan <- e for every reader of S *)
Answer(S, e) == [r \in Readers |-> IF r \in S
                                   THEN [rd[r] EXCEPT !.pc = "ret", !.res = e]
                                   ELSE rd[r]]

-----------------------------------------------------------------------------
(***************************************************************************)
(* kickWaiters: run by a downloader after each write and once more when it *)
(* has closed, and by the ticker.                                          *)
(***************************************************************************)
WantsKick(t) == \/ t \in Ids /\ dl[t].pc \in {"kick", "final"}
                \/ t = Ticker /\ tpc = "run"

(* What the kicker does with the error kickWaiters returned to it. *)
KickReturn(t, e) ==
    IF t = Ticker
    THEN UNCHANGED dl
    ELSE LET err == IF dl[t].err = "nil" THEN e ELSE dl[t].err
         IN  dl' = [dl EXCEPT ![t] =
                      IF @.pc = "final" THEN Gone
                      ELSE [@ EXCEPT !.pc = IF err # "nil" THEN "close" ELSE "read",
                                     !.err = err]]

(* _dispatchWaiters: the waiters it answers. *)
\* Mutant of Served: a waiter is answered when part of its range arrived.
ServedInPart == { w \in waiters : RequestOf(w) \cap present # {} }

Served == { w \in waiters : HasRange(w) }

KickNobody(t) ==
    /\ WantsKick(t) /\ mu = Free /\ waiters = Served
    /\ rd' = Answer(Served, "nil") /\ waiters' = {}
    /\ KickReturn(t, "nil")
    /\ UNCHANGED <<present, dls, lockVars, errVars, ctxDone, tpc, closeVars>>

KickLock(t) ==
    /\ WantsKick(t) /\ mu = Free /\ waiters # Served
    /\ rd' = Answer(Served, "nil") /\ waiters' = waiters \ Served
    /\ mu' = t /\ step' = "find" /\ todo' = waiters \ Served
    /\ UNCHANGED <<present, dl, dls, cur, miss, errVars, ctxDone, tpc,
                   closeVars>>

GiveUp == lastErr = "nospace" \/ errorCount > MaxErrorCount

KickEnd(t) ==
    /\ mu = t /\ t \notin Readers /\ step = "find" /\ todo = {}
    /\ IF GiveUp
       THEN /\ rd' = Answer(waiters, lastErr)    \* _closeWaiters(lastErr)
            /\ waiters' = {}
            /\ KickReturn(t, lastErr)
       ELSE KickReturn(t, "nil") /\ UNCHANGED <<rd, waiters>>
    /\ mu' = Free /\ step' = "none"
    /\ UNCHANGED <<present, dls, todo, cur, miss, errVars, ctxDone, tpc,
                   closeVars>>

(* The goroutine of New: a tick makes it kick, a cancelled context ends it. *)
TickerExit ==
    /\ tpc = "run" /\ mu # Ticker /\ ctxDone
    /\ tpc' = "exit"
    /\ UNCHANGED <<present, rd, waiters, dl, dls, lockVars, errVars, ctxDone,
                   closeVars>>

-----------------------------------------------------------------------------
(***************************************************************************)
(* The goroutine of a downloader.  downloadInput.WriteTo reads the stream  *)
(* and passes what it got to Write: a block of data or, through an empty   *)
(* buffer if a streambuf sits in between, the end of the stream or its     *)
(* error.  Reading and writing are one step unless Write has to wait.      *)
(***************************************************************************)
DlStep(d, new) ==
    /\ dl' = [dl EXCEPT ![d] = new]
    /\ UNCHANGED <<rd, waiters, dls, lockVars, errVars, ctxDone, tpc, closeVars>>

\* Mutant of CanRead: the stream delivers one block past the object.
CanReadPastEnd(d, buf) ==
    /\ dl[d].pc = "read"
    /\ buf = "data" => dl[d].offset <= Size
    /\ buf = "eof" => ShortReads \/ dl[d].offset >= Size

CanRead(d, buf) ==
    /\ dl[d].pc = "read"
    /\ buf = "data" => dl[d].offset < Size
    /\ buf = "eof" => ShortReads \/ dl[d].offset >= Size

EndStream(d, err) == [dl[d] EXCEPT !.pc = "close", !.buf = "none", !.err = err]

(* Without a streambuf the end of the stream does not pass through Write. *)
ReadEnd(d, buf) ==
    /\ ~ Buffered /\ buf # "data" /\ CanRead(d, buf)
    /\ DlStep(d, EndStream(d, IF buf = "err" THEN "io" ELSE "nil"))
    /\ UNCHANGED present

(* A stopped streambuf ends the stream with ErrorStreamAbandoned. *)
ReadAbandoned(d) ==
    /\ dl[d].pc = "read" /\ Buffered /\ dl[d].stop
    /\ DlStep(d, EndStream(d, "abandoned"))
    /\ UNCHANGED present

(* Write waits: the stream is ahead of what anybody asked for. *)
IdleBegin(d, buf) ==
    /\ CanRead(d, buf)
    /\ Buffered \/ buf = "data"
    /\ dl[d].offset >= dl[d].max
    /\ DlStep(d, [dl[d] EXCEPT !.pc = "idle", !.buf = buf])
    /\ UNCHANGED present

IdleQuit(d) ==
    /\ dl[d].pc = "idle" /\ dl[d].stop
    /\ DlStep(d, [dl[d] EXCEPT !.pc = "put"])
    /\ UNCHANGED present

IdleKick(d) ==
    /\ dl[d].pc = "idle" /\ dl[d].kick
    /\ DlStep(d, [dl[d] EXCEPT !.kick = FALSE,
                     !.pc = IF dl[d].offset >= dl[d].max THEN "idle" ELSE "put"])
    /\ UNCHANGED present

IdleTimeout(d) ==
    /\ dl[d].pc = "idle"
    /\ DlStep(d, [dl[d] EXCEPT !.pc = "put", !.stop = TRUE])
    /\ UNCHANGED present

(* Write holds buf and does not wait (any more). *)
Writes(d, buf) == \/ dl[d].pc = "put" /\ dl[d].buf = buf
                  \/ /\ CanRead(d, buf) /\ dl[d].offset < dl[d].max
                     /\ Buffered \/ buf = "data"

(***************************************************************************)
(* The rest of Write: what it does with the outcome of WriteAtNoOverwrite. *)
(***************************************************************************)
AfterWrite(d, buf, n, skipped, e) ==
    LET total == IF skipped # n THEN 0
                 ELSE IF dl[d].skipped + skipped > MaxSkip THEN MaxSkip + 1
                 ELSE dl[d].skipped + skipped
        stop  == dl[d].stop \/ total > MaxSkip
        err   == IF stop /\ ~ Buffered THEN "abandoned"
                 ELSE IF buf = "err" THEN "io" ELSE e
    IN  [dl[d] EXCEPT !.skipped = total, !.stop = stop, !.err = err,
                      !.offset = @ + n, !.wrote = @ \/ n > 0, !.buf = "none",
                      !.pc = IF n > 0 THEN "kick"
                             ELSE IF err # "nil" \/ buf = "eof" THEN "close"
                             ELSE "read"]

PutNew(d) ==
    /\ Writes(d, "data") /\ dl[d].offset \notin present
    /\ present' = present \cup {dl[d].offset}
    /\ DlStep(d, AfterWrite(d, "data", 1, 0, "nil"))

PutSkip(d) ==
    /\ Writes(d, "data") /\ dl[d].offset \in present
    /\ DlStep(d, AfterWrite(d, "data", 1, 1, "nil"))
    /\ UNCHANGED present

\* Mutant of PutFails: the offset moves on although nothing was written.
PutFailsButMoves(d, e) ==
    /\ Writes(d, "data") /\ dl[d].offset \notin present
    /\ DlStep(d, AfterWrite(d, "data", 1, 0, e))
    /\ UNCHANGED present

PutFails(d, e) ==
    /\ Writes(d, "data") /\ dl[d].offset \notin present
    /\ DlStep(d, AfterWrite(d, "data", 0, 0, e))
    /\ UNCHANGED present

PutNothing(d, buf) ==
    /\ buf # "data" /\ Writes(d, buf)
    /\ DlStep(d, AfterWrite(d, buf, 0, 0, "nil"))
    /\ UNCHANGED present

(* close: the downloader is no longer reusable, nobody looks at it again. *)
CloseStream(d) ==
    /\ dl[d].pc = "close"
    /\ Cardinality({ o \in Ids : dl[o].pc \in {"count", "final"} }) < MaxDying
    /\ DlStep(d, [Gone EXCEPT !.pc = "count", !.err = dl[d].err,
                                !.wrote = dl[d].wrote])
    /\ UNCHANGED present

(* countErrors; download has turned ErrorStreamAbandoned into nil. *)
\* Mutant of CountErrors: an error is remembered but not counted.
CountErrorsForgets(d) ==
    /\ dl[d].pc = "count" /\ mu = Free
    /\ lastErr' = IF dl[d].err = "abandoned" THEN lastErr ELSE dl[d].err
    /\ dl' = [dl EXCEPT ![d] = [Gone EXCEPT !.pc = "final"]]
    /\ UNCHANGED <<present, rd, waiters, dls, lockVars, errorCount, ctxDone,
                   tpc, closeVars>>

CountErrors(d) ==
    LET err == IF dl[d].err = "abandoned" THEN "nil" ELSE dl[d].err
    IN  /\ dl[d].pc = "count" /\ mu = Free
        /\ IF err # "nil"
           THEN /\ errorCount' = IF errorCount > MaxErrorCount THEN errorCount
                                 ELSE errorCount + 1
                /\ lastErr' = err
           ELSE IF dl[d].wrote /\ errorCount # 0
           THEN errorCount' = 0 /\ lastErr' = "nil"
           ELSE UNCHANGED errVars
        /\ dl' = [dl EXCEPT ![d] = [Gone EXCEPT !.pc = "final"]]
        /\ UNCHANGED <<present, rd, waiters, dls, lockVars, ctxDone, tpc,
                       closeVars>>

-----------------------------------------------------------------------------
(***************************************************************************)
(* Close(nil).  The item guarantees that no reader is inside the scheduler *)
(* (Item.opens = 0, or pendingAccesses = 0 and beingReset), Cache.Close    *)
(* does not: CloseWithReaders tells the two uses apart.                    *)
(***************************************************************************)
\* Mutant of CloseCancel: the context is not cancelled.
CloseWithoutCancel ==
    /\ cpc = "off"
    /\ CloseWithReaders \/ \A r \in Readers : rd[r].pc = "idle"
    /\ cpc' = "lock"
    /\ UNCHANGED <<present, rd, waiters, dl, dls, lockVars, errVars, ctxDone,
                   tpc, closeTodo, closing>>

CloseCancel ==
    /\ cpc = "off"
    /\ CloseWithReaders \/ \A r \in Readers : rd[r].pc = "idle"
    /\ ctxDone' = TRUE /\ cpc' = "lock"
    /\ UNCHANGED <<present, rd, waiters, dl, dls, lockVars, errVars, tpc,
                   closeTodo, closing>>

(* The loop of Close ranges over the slice as it is here.  _removeClosed and *)
(* _newDownloader of a reader that is still inside may rewrite its array in  *)
(* place while Close waits; with no reader inside, the list is exact.        *)
CloseSnapshot ==
    /\ cpc = "lock" /\ mu = Free
    /\ dls' = Open /\ closeTodo' = Open /\ cpc' = "loop"
    /\ UNCHANGED <<present, rd, waiters, dl, lockVars, errVars, ctxDone, tpc,
                   closing>>

(* stopAndClose: stop one downloader, then wait for its goroutine. *)
CloseStop(d) ==
    /\ cpc = "loop" /\ d \in closeTodo
    /\ closing' = d /\ cpc' = "join" /\ closeTodo' = closeTodo \ {d}
    /\ dl' = [dl EXCEPT ![d].stop = ~ Closed(d)]
    /\ UNCHANGED <<present, rd, waiters, dls, lockVars, errVars, ctxDone, tpc>>

\* Mutant of CloseJoin: Close does not wait for the goroutine it stopped.
CloseWithoutJoin ==
    /\ cpc = "join" /\ mu = Free
    /\ closing' = Free /\ cpc' = "loop"
    /\ UNCHANGED <<present, rd, waiters, dl, dls, lockVars, errVars, ctxDone,
                   tpc, closeTodo>>

CloseJoin ==
    /\ cpc = "join" /\ dl[closing].pc = "gone" /\ mu = Free
    /\ closing' = Free /\ cpc' = "loop"
    /\ UNCHANGED <<present, rd, waiters, dl, dls, lockVars, errVars, ctxDone,
                   tpc, closeTodo>>

(* wg.Wait for the ticker, then the last critical section. *)
CloseEnd ==
    /\ cpc = "loop" /\ closeTodo = {} /\ tpc = "exit" /\ mu = Free
    /\ rd' = Answer(waiters, "nil")     \* _dispatchWaiters, _closeWaiters(nil)
    /\ waiters' = {} /\ dls' = {} /\ cpc' = "done"
    /\ UNCHANGED <<present, dl, lockVars, errVars, ctxDone, tpc, closeTodo,
                   closing>>

-----------------------------------------------------------------------------
(* The item has dropped the closed scheduler. *)
Finished == cpc = "done" /\ UNCHANGED vars

ReaderNext(r) == \/ \E q \in Requests : Call(r, q)
                 \/ CallLock(r) \/ CallUnlock(r) \/ Return(r)

Kick(t) == KickLock(t) \/ KickNobody(t)

LockNext(t) == EnsureFind(t) \/ EnsureStart(t) \/ KickEnd(t)

DlNext(d) == \/ \E buf \in {"data", "eof", "err"} :
                   ReadEnd(d, buf) \/ IdleBegin(d, buf) \/ PutNothing(d, buf)
             \/ ReadAbandoned(d)
             \/ IdleQuit(d) \/ IdleKick(d) \/ IdleTimeout(d)
             \/ PutNew(d) \/ PutSkip(d)
             \/ \E e \in {"nospace", "io"} : PutFails(d, e)
             \/ CloseStream(d) \/ CountErrors(d)

CloseNext == \/ CloseCancel \/ CloseSnapshot \/ CloseJoin \/ CloseEnd
             \/ \E d \in Ids : CloseStop(d)

Next == \/ \E r \in Readers : ReaderNext(r)
        \/ \E d \in Ids : DlNext(d)
        \/ \E t \in Threads : LockNext(t) \/ Kick(t)
        \/ TickerExit
        \/ CloseNext
        \/ Finished

Spec == Init /\ [][Next]_vars

(***************************************************************************)
(* Every goroutine the scheduler starts keeps running, and Go's mutexes do *)
(* not starve a goroutine that waits for one: strong fairness where a step *)
(* needs mu.  The ticker kicks again and again (a waiter may depend on     *)
(* it); nothing is assumed of the readers.  A stream that reads, writes    *)
(* (Write may stop the streambuf, which waits for the read ahead) or       *)
(* closes may be waiting for the origin, and nothing bounds that wait but  *)
(* the cancelled context: there is no timeout, the sequential reader does  *)
(* not retry, and a parallel reader can wait for a stream that has ended.  *)
(* So its steps are fair only once ctxDone; that the origin answers before *)
(* is a hypothesis of the property that needs it, and no part of FairSpec. *)
(***************************************************************************)
Holder(t) == LockNext(t) \/ (t \in Readers /\ CallUnlock(t))

MayAwaitOrigin(d) == dl[d].pc \in {"read", "idle", "put", "close"}

Fairness ==
    /\ WF_vars(\E t \in Threads : Holder(t))
    /\ \A r \in Readers : SF_vars(CallLock(r))
    /\ \A d \in Ids : SF_vars(/\ ctxDone \/ ~ MayAwaitOrigin(d)
                              /\ DlNext(d) \/ Kick(d))
    /\ SF_vars(Kick(Ticker))
    /\ SF_vars(TickerExit)
    /\ SF_vars(CloseNext /\ cpc # "off")

(* The origin answers every read, with bytes, with their end or an error. *)
OriginAnswers == \A d \in Ids : SF_vars(MayAwaitOrigin(d) /\ DlNext(d))

FairSpec == Spec /\ Fairness

-----------------------------------------------------------------------------
(***************************************************************************)
(* The type invariant.                                                     *)
(***************************************************************************)
TypeOK ==
    /\ present \subseteq Blocks
    /\ rd \in [Readers -> ReaderState]
    /\ waiters \subseteq Readers
    /\ dl \in [Ids -> DlState]
    /\ dls \subseteq Ids
    /\ mu \in Threads \cup {Free}
    /\ step \in {"none", "find", "start"}
    /\ todo \subseteq Readers
    /\ cur \in Readers \cup {Free}
    /\ miss \in [pos : Nat, size : Nat, startNew : BOOLEAN]
    /\ errorCount \in 0 .. MaxErrorCount + 1
    /\ lastErr \in Errors
    /\ ctxDone \in BOOLEAN
    /\ tpc \in {"run", "exit"}
    /\ cpc \in {"off", "lock", "loop", "join", "done"}
    /\ closeTodo \subseteq Ids
    /\ closing \in Ids \cup {Free}

(***************************************************************************)
(* "ensureLocked ensures r is present" (item.go:450): a Download that      *)
(* returns nil has its whole range in the cache, so that the file read     *)
(* that follows it never returns the zeros of a sparse hole.  The nil may  *)
(* come from any dispatch; an answer sent for errors must carry an error.  *)
(***************************************************************************)
DownloadNilMeansPresent ==
    \A r \in Readers :
        rd[r].pc = "ret" /\ rd[r].op = "download" /\ rd[r].res = "nil"
            => HasRange(r)

(***************************************************************************)
(* Everything a stream has passed since its start is cached: the test      *)
(* start <= pos < offset + window of _ensureDownloader may hand a waiter   *)
(* to a stream that is already beyond pos only because of this.            *)
(***************************************************************************)
StreamedIsPresent ==
    \A d \in Ids : dl[d].pc # "gone" =>
                      dl[d].start .. dl[d].offset - 1 \subseteq present

(***************************************************************************)
(* Two reusable streams never start at the same block, so the number of    *)
(* streams is bounded by the object and not by the number of kicks.        *)
(***************************************************************************)
DistinctStarts ==
    \A d, e \in Open : dl[d].start = dl[e].start => d = e

(***************************************************************************)
(* A reader blocked on missing data is never forgotten: whenever nobody is *)
(* at work on the list of waiters, some goroutine either is going to kick  *)
(* the waiters or streams towards the reader's first missing block without *)
(* idling before it.  (A reader whose data arrived between its check in    *)
(* Item.ensureLocked and its Download has nobody left to wake it: Download *)
(* does not look at the item again, and only the ticker dispatches it.)    *)
(***************************************************************************)
WillKick(d) == \/ dl[d].pc \in {"kick", "close", "count", "final"}
               \/ dl[d].pc # "gone" /\ dl[d].stop

StreamsTo(d, p) == /\ dl[d].pc \in {"read", "idle", "put"}
                   /\ dl[d].start <= p /\ p < dl[d].max

NoOrphanWaiter ==
    mu = Free =>
        \A w \in waiters :
            ~ HasRange(w) =>
                \E d \in Ids :
                    \/ WillKick(d)
                    \/ StreamsTo(d, FirstMissing(rd[w].pos, rd[w].pos + rd[w].size))

(***************************************************************************)
(* "actualCloseLocked stops range fetches before closing the sparse file"  *)
(* (item.go:375): once Close has returned, no downloader is left that      *)
(* could still write to the item.  (The goroutine of one that closed just  *)
(* before may still be on its way out: Close does not wait for it.)        *)
(***************************************************************************)
CloseStopsFetches == cpc = "done" => \A d \in Ids : Closed(d)

(***************************************************************************)
(* A Download blocked in <-errChan (scheduler.go:233) returns, with its    *)
(* data or with an error after enough failed streams, provided the origin  *)
(* answers every read, be it with errors, and whatever the disk does.  No  *)
(* deadline of the request and no limit of the scheduler replaces that     *)
(* answer: only Close cancels dls.ctx.                                     *)
(***************************************************************************)
DownloadReturns ==
    OriginAnswers => \A r \in Readers : rd[r].pc = "wait" ~> rd[r].pc = "ret"

(***************************************************************************)
(* Close returns, although it waits for goroutines that themselves wait    *)
(* for mu and for an origin that may never have answered: it has cancelled *)
(* the context of their reads first.                                       *)
(***************************************************************************)
CloseReturns == cpc = "lock" ~> cpc = "done"
=============================================================================
