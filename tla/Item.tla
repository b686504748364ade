-------------------------------- MODULE Item --------------------------------
(***************************************************************************)
(* The life of one cache key (src/cache/item.go, src/cache/cache.go): how  *)
(* Cache.Open, the reads and the closing of a Reader, the grace timer, the *)
(* quota cleaner, Cache.Close and a restart of the process share an Item,  *)
(* its sparse file, its metadata file and its scheduler.                   *)
(*                                                                         *)
(* item.mu is held for whole operations and released only around calls of  *)
(* the scheduler: inside a read (Download) and inside whatever stops the   *)
(* scheduler (Downloaders.Close).  A step here is what happens between two *)
(* such points, so the windows the code opens are the windows of the       *)
(* model.  preAccess and postAccess commute with everything but            *)
(* resetForSpace, which their counter excludes, and belong to the step     *)
(* next to them.                                                           *)
(*                                                                         *)
(* All versions of the object have the same size: a change of size makes   *)
(* the fingerprints differ and is never the harder case.  The scheduler is *)
(* abstracted to the versions of the streams it has in flight; Scheduler   *)
(* shows that Download answers nil only for a cached range.                *)
(*                                                                         *)
(* The actions have the guards of the code and no others.  Which of them   *)
(* may meet on one key is a bound of the next-state relation: four         *)
(* overlaps, which the code permits, are switched on one by one with the   *)
(* constant Overlap (see Apart, Settled, Quiet).  Cache.Close is not       *)
(* called during an Open or a read (that is CloseWithReaders of            *)
(* Scheduler); Readers may be open.                                        *)
(***************************************************************************)
EXTENDS Integers, FiniteSets

CONSTANTS
    Openers,      \* requests: each opens, reads and closes one Reader at a time
    Items,        \* Item objects; each also names its grace timer's goroutine
    Cleaner,      \* the goroutine of Cache.cleaner
    Closer,       \* the thread that calls Cache.Close
    None,         \* nil, no file, no item
    Inodes,       \* data files, linked or only held open
    Blocks,       \* blocks of the object
    MaxVersion,   \* bound: versions of the origin object
    Strong,       \* versions with a strong ETag or a modification time
    MaxRestarts,  \* bound: crashes and restarts of the process
    GraceChoices, \* whether Options.HandleCaching > 0: the settings examined
    Overlap       \* bound: the overlaps on one key that are examined

Versions == 1 .. MaxVersion
Threads  == Openers \cup Items \cup {Cleaner, Closer}

ASSUME ItemAssumption ==
    /\ MaxVersion \in Nat \ {0} /\ Strong \subseteq Versions
    /\ MaxRestarts \in Nat
    /\ GraceChoices \subseteq BOOLEAN /\ GraceChoices # {}
    /\ Overlap \subseteq {"reset", "close", "evict", "fetch"}
    /\ None \notin Items \cup Inodes

(* Requests are finitely many; goroutines are told apart; a file can be    *)
(* created while one that lost its name is still open.                     *)
ASSUME NamesAssumption ==
    /\ IsFiniteSet(Openers) /\ Openers \cap Items = {}
    /\ Cleaner \notin Openers \cup Items /\ Closer \notin Openers \cup Items
    /\ Cleaner # Closer
    /\ \E m, n \in Inodes : m # n

VARIABLES
    entry,     \* Cache.items[key]
    it,        \* the Item objects
    meta,      \* the metadata file: an itemInfo
    data,      \* the data path: the inode it names
    file,      \* the contents of the inodes: a version per block, 0 is a hole
    th,        \* the threads
    origin,    \* the version the origin serves now
    up,        \* "run", "closing" (c.closed, ctx cancelled), "closed"
    restarts,
    handleCaching  \* the setting of this run

disk == <<meta, data, file>>
env  == <<origin, up, restarts, handleCaching>>
vars == <<entry, it, meta, data, file, th, origin, up, restarts,
          handleCaching>>

-----------------------------------------------------------------------------
(***************************************************************************)
(* State records                                                           *)
(***************************************************************************)
Info == [key : BOOLEAN, fp : 0 .. MaxVersion, rs : SUBSET Blocks]

ASSUME NoneAssumption == None \notin Info

NoInfo   == [key |-> FALSE, fp |-> 0, rs |-> {}]     \* itemInfo{}
FreshInfo == [NoInfo EXCEPT !.key = TRUE]            \* itemInfo{Key: item.key}

(***************************************************************************)
(* object is the version of item.object (0: nil).  dls, dlsObject and      *)
(* flight are the scheduler: whether there is one, the version of the      *)
(* sourceObject it was given, the versions of the streams it has open;     *)
(* linked tells that item.object is that same sourceObject.  unsaved is a  *)
(* history variable: the last closing could not save the metadata.         *)
(***************************************************************************)
NewItem == [fd |-> None, info |-> NoInfo, loaded |-> FALSE, object |-> 0,
            dls |-> FALSE, dlsObject |-> 0, flight |-> {}, linked |-> FALSE,
            opens |-> 0, grace |-> FALSE, closing |-> FALSE, pending |-> 0,
            beingReset |-> FALSE, unsaved |-> FALSE]

ItemState ==
    [fd : Inodes \cup {None}, info : Info, loaded : BOOLEAN,
     object : 0 .. MaxVersion, dls : BOOLEAN, dlsObject : 0 .. MaxVersion,
     flight : SUBSET Versions, linked : BOOLEAN,
     opens : 0 .. Cardinality(Openers), grace : BOOLEAN, closing : BOOLEAN,
     pending : 0 .. Cardinality(Openers), beingReset : BOOLEAN,
     unsaved : BOOLEAN]

(* old: the streams of the scheduler this thread is closing. *)
IdleThread == [pc |-> "idle", item |-> None, ver |-> 0, blk |-> None, old |-> {}]

ThreadState ==
    [pc : {"idle", "enter", "body", "reset", "open", "ensure", "got",
           "close", "evict", "delete", "empty"},
     item : Items \cup {None}, ver : 0 .. MaxVersion,
     blk : Blocks \cup {None}, old : SUBSET Versions]

Holes == [b \in Blocks |-> 0]

Init ==
    /\ entry = None
    /\ it = [i \in Items |-> NewItem]
    /\ meta = None /\ data = None
    /\ file = [n \in Inodes |-> Holes]
    /\ th = [t \in Threads |-> IdleThread]
    /\ origin = 1 /\ up = "run" /\ restarts = 0
    /\ handleCaching \in GraceChoices

-----------------------------------------------------------------------------
(***************************************************************************)
(* Operations on an item and the disk under item.mu.  A state s has the    *)
(* fields x (the item), meta, data and file; Put stores it back, with the  *)
(* contents of inodes that nothing refers to any more forgotten.           *)
(***************************************************************************)
(* Items no goroutine and no map refers to. *)
Unused == { i \in Items : /\ i # entry /\ ~ it[i].grace /\ ~ it[i].dls
                          /\ \A t \in Threads : th[t].item # i }

At(i) == [x |-> IF i \in Unused THEN NewItem ELSE it[i],
          meta |-> meta, data |-> data, file |-> file]

Put(i, s) ==
    LET items == [it EXCEPT ![i] = s.x]
        used  == { items[j].fd : j \in Items } \cup {s.data}
    IN  /\ it' = items /\ meta' = s.meta /\ data' = s.data
        /\ file' = [n \in Inodes |-> IF n \in used THEN s.file[n] ELSE Holes]

Fingerprint(v) == IF v \in Strong THEN v ELSE 0      \* metadataFingerprint

saveLocked(s) == [s EXCEPT !.meta = s.x.info]

closeFDLocked(s) == [s EXCEPT !.x.fd = None]

\* Mutant of RemoveFiles: the metadata file is left behind.
RemoveDataOnly(s) == [s EXCEPT !.data = None]

(* os.Remove of both files *)
RemoveFiles(s) == [s EXCEPT !.data = None, !.meta = None]

(* os.OpenFile with O_CREATE; the caller truncates it to the object's size. *)
OpenFile(s) ==
    LET new == CHOOSE n \in Inodes :
                   n # s.data /\ \A j \in Items : it[j].fd # n
    IN  IF s.data # None THEN [s EXCEPT !.x.fd = s.data]
        ELSE [s EXCEPT !.x.fd = new, !.data = new, !.file[new] = Holes]

(* The item lets go of its scheduler; its caller closes it without item.mu. *)
DetachDls(s) == [s EXCEPT !.x.dls = FALSE, !.x.dlsObject = 0,
                          !.x.flight = {}, !.x.linked = FALSE]

createDownloadersLocked(s) ==
    IF s.x.dls \/ s.x.object = 0 THEN s
    ELSE [s EXCEPT !.x.dls = TRUE, !.x.dlsObject = s.x.object,
                   !.x.linked = TRUE]

(* loadLocked succeeds unless the file belongs to another key.  A file     *)
(* that cannot be decoded is removed, and the data with it.                *)
CanLoad(s, readable) ==
    ~ s.x.loaded /\ s.meta # None /\ readable => s.meta.key

loadLocked(s, readable) ==
    IF s.x.loaded THEN s
    ELSE IF s.meta # None /\ readable
         THEN [s EXCEPT !.x.loaded = TRUE, !.x.info = s.meta]
         ELSE [(IF s.meta = None THEN s ELSE RemoveFiles(s)) EXCEPT
                  !.x.loaded = TRUE, !.x.info = FreshInfo]

(* resetLocked, after the scheduler is closed *)
resetLocked(s) ==
    [RemoveFiles(closeFDLocked(s)) EXCEPT !.x.info = FreshInfo, !.x.object = 0,
                                          !.x.linked = FALSE]

\* Mutant of actualCloseLocked: the metadata is not saved again.
CloseWithoutSave(s, saves) == [closeFDLocked(s) EXCEPT !.x.unsaved = ~ saves]

(* actualCloseLocked, after the scheduler is closed.  The save can fail    *)
(* (no space); only release reports it, and nobody tries again.            *)
actualCloseLocked(s, saves) ==
    LET c == [closeFDLocked(s) EXCEPT !.x.unsaved = ~ saves]
    IN  IF saves THEN saveLocked(c) ELSE c

(* openLocked from MkdirAll to createDownloadersLocked: the data file, the *)
(* object (updated in place if the item has one) and the scheduler.        *)
WithFile(s) ==
    IF s.x.fd # None THEN s
    ELSE OpenFile([s EXCEPT !.x.info.rs = IF s.data = None THEN {} ELSE @])

WithObject(s, v) ==
    [s EXCEPT !.x.object = v,
              !.x.dlsObject = IF s.x.linked THEN v ELSE @,
              !.x.info.key = TRUE, !.x.info.fp = Fingerprint(v)]

Prepared(s, v) == createDownloadersLocked(WithObject(WithFile(s), v))

-----------------------------------------------------------------------------
(***************************************************************************)
(* Cache.Open.  openLocked waits for a grace close in progress, stops the  *)
(* grace timer, loads the metadata and compares fingerprints.              *)
(***************************************************************************)
Step(t, rec) == th' = [th EXCEPT ![t] = rec]

Closing(pc, i) == [IdleThread EXCEPT !.pc = pc, !.item = i, !.old = it[i].flight]

(* Streams of a scheduler that is being closed write until it is closed. *)
InFlight(i) ==
    it[i].flight \cup UNION { th[t].old : t \in { u \in Threads : th[u].item = i } }

(* The map lookup, which takes item.mu before it lets go of c.mu; the      *)
(* metadata the request carries may be that of an earlier version.         *)
Lookup(o, i, v) ==
    /\ th[o].pc = "idle" /\ up = "run"
    /\ i \in IF entry # None THEN {entry} ELSE Unused
    /\ v \in 1 .. origin

(* An Open that had to wait, or that tries again after an ENOSPC. *)
Resumes(o, i, v) ==
    /\ th[o].pc \in {"enter", "body"}
    /\ i = th[o].item /\ v = th[o].ver

Holds(o, i, v) == Lookup(o, i, v) \/ Resumes(o, i, v)

Opening(pc, i, v) == [IdleThread EXCEPT !.pc = pc, !.item = i, !.ver = v]

EntryAfter(o, i) == entry' = IF th[o].pc = "idle" THEN i ELSE entry

(* Wait for a reset of the cleaner (cond), or for a grace close (closing). *)
OpenWait(o, i, v) ==
    /\ Holds(o, i, v) /\ th[o].pc # "body"
    /\ \/ /\ th[o].pc = "idle" /\ it[i].beingReset
          /\ Step(o, Opening("enter", i, v)) /\ UNCHANGED it
       \/ /\ ~ it[i].beingReset /\ it[i].closing
          /\ Step(o, Opening("body", i, v))
          /\ it' = [it EXCEPT ![i].pending = @ + 1]
    /\ EntryAfter(o, i)
    /\ UNCHANGED <<disk, env>>

\* Mutant of Entered: an Open does not wait for a grace close.
EnteredWhileClosing(o, i, v) ==
    /\ Holds(o, i, v)
    /\ th[o].pc # "body" => ~ it[i].beingReset

Entered(o, i, v) ==
    /\ Holds(o, i, v)
    /\ th[o].pc # "body" => ~ it[i].beingReset
    /\ ~ it[i].closing

(* The state after the grace timer is stopped and the metadata loaded. *)
Begun(o, i, readable) ==
    loadLocked([At(i) EXCEPT !.x.grace = FALSE,
                  !.x.pending = IF th[o].pc = "body" THEN @ ELSE @ + 1],
               readable)

Changed(s, v) == s.x.opens > 0 /\ s.x.info.fp # Fingerprint(v)

\* Mutant of NeedsReset: a changed version is only noticed with no validator.
NeedsResetIfUnknown(s, v) == s.x.opens = 0 /\ s.x.info.rs # {} /\ s.x.info.fp = 0

NeedsReset(s, v) ==
    /\ s.x.opens = 0 /\ s.x.info.rs # {}
    /\ Fingerprint(v) = 0 \/ s.x.info.fp # Fingerprint(v)

\* Mutant of EndAccess: postAccess is forgotten.
EndAccessNever(s) == s

EndAccess(s) == [s EXCEPT !.x.pending = @ - 1]

(* Open returns an error: the metadata of another key, ErrObjectChanged. *)
OpenRefused(o, i, v, readable) ==
    /\ Entered(o, i, v)
    /\ \/ /\ ~ CanLoad(At(i), readable)
          /\ Put(i, [At(i) EXCEPT !.x.grace = FALSE,
                       !.x.pending = IF th[o].pc = "body" THEN @ - 1 ELSE @])
       \/ /\ CanLoad(At(i), readable) /\ Changed(Begun(o, i, readable), v)
          /\ Put(i, EndAccess(Begun(o, i, readable)))
    /\ Step(o, IdleThread)
    /\ EntryAfter(o, i)
    /\ UNCHANGED env

(* resetLocked has to close a scheduler first: item.mu is released. *)
OpenReset(o, i, v, readable) ==
    /\ Entered(o, i, v) /\ CanLoad(At(i), readable)
    /\ NeedsReset(Begun(o, i, readable), v) /\ it[i].dls
    /\ Put(i, DetachDls(Begun(o, i, readable)))
    /\ Step(o, [Opening("reset", i, v) EXCEPT !.old = it[i].flight])
    /\ EntryAfter(o, i)
    /\ UNCHANGED env

(***************************************************************************)
(* The rest of Open.  A failed saveLocked leaves file, object and          *)
(* scheduler behind; without space Open kicks the cleaner and tries again. *)
(***************************************************************************)
Finish(o, i, v, s) ==
    LET p == EndAccess(Prepared(s, v))
    IN  /\ \/ /\ Put(i, saveLocked([p EXCEPT !.x.opens = @ + 1]))
              /\ Step(o, Opening("open", i, v))
           \/ /\ Put(i, p)
              /\ Step(o, IdleThread) \/ Step(o, Opening("enter", i, v))
        /\ EntryAfter(o, i)
        /\ UNCHANGED env

OpenDone(o, i, v, readable) ==
    /\ Entered(o, i, v) /\ CanLoad(At(i), readable)
    /\ LET s == Begun(o, i, readable)
       IN  /\ ~ Changed(s, v)
           /\ NeedsReset(s, v) => ~ s.x.dls
           /\ Finish(o, i, v, IF NeedsReset(s, v) THEN resetLocked(s) ELSE s)

OpenAfterReset(o) ==
    /\ th[o].pc = "reset"
    /\ Finish(o, th[o].item, th[o].ver, resetLocked(At(th[o].item)))

-----------------------------------------------------------------------------
(***************************************************************************)
(* The scheduler.  A stream opened for a version with a validator delivers *)
(* that version or is refused; without one, whatever the origin has.       *)
(***************************************************************************)
Reading(i) == \E o \in Openers : th[o].item = i /\ th[o].pc \in {"ensure", "got"}

Fetch(i) ==
    /\ it[i].dls /\ up = "run"
    /\ Reading(i) \/ it[i].flight # {}
    /\ it[i].dlsObject \in Strong => it[i].dlsObject = origin
    /\ it' = [it EXCEPT ![i].flight = @ \cup {origin}]
    /\ UNCHANGED <<entry, disk, th, env>>

FetchEnd(i, v) ==
    /\ v \in it[i].flight
    /\ it' = [it EXCEPT ![i].flight = @ \ {v}]
    /\ UNCHANGED <<entry, disk, th, env>>

WriteAtNoOverwrite(i, v, b) ==
    /\ v \in InFlight(i)
    /\ b \notin it[i].info.rs /\ it[i].fd # None
    /\ file' = [file EXCEPT ![it[i].fd][b] = v]
    /\ it' = [it EXCEPT ![i].info.rs = @ \cup {b}]
    /\ UNCHANGED <<entry, meta, data, th, env>>

(* The origin object is replaced. *)
Change ==
    /\ origin < MaxVersion
    /\ origin' = origin + 1
    /\ UNCHANGED <<entry, it, disk, th, up, restarts, handleCaching>>

-----------------------------------------------------------------------------
(***************************************************************************)
(* Reader.ReadAt: ensureLocked, then a read of the file.                   *)
(***************************************************************************)
ReadBegin(o, b) ==
    LET i == th[o].item
        s == IF b \in it[i].info.rs THEN At(i)
             ELSE createDownloadersLocked(At(i))
    IN  /\ th[o].pc = "open" /\ ~ it[i].beingReset /\ it[i].fd # None
        /\ b \in it[i].info.rs \/ s.x.dls
        /\ Put(i, [s EXCEPT !.x.pending = @ + 1])
        /\ Step(o, [th[o] EXCEPT !.blk = b,
                      !.pc = IF b \in it[i].info.rs THEN "got" ELSE "ensure"])
        /\ UNCHANGED <<entry, env>>

(* Download returns: nil only if the range is cached, or an error. *)
ReadServed(o) ==
    /\ th[o].pc = "ensure" /\ th[o].blk \in it[th[o].item].info.rs
    /\ Step(o, [th[o] EXCEPT !.pc = "got"])
    /\ UNCHANGED <<entry, it, disk, env>>

ReadEnd(o) ==
    /\ th[o].pc \in {"ensure", "got"}
    /\ it' = [it EXCEPT ![th[o].item].pending = @ - 1]
    /\ Step(o, [th[o] EXCEPT !.pc = "open", !.blk = None])
    /\ UNCHANGED <<entry, disk, env>>

-----------------------------------------------------------------------------
(***************************************************************************)
(* Reader.Close and the grace timer.                                       *)
(***************************************************************************)
Released(i) == [At(i) EXCEPT !.x.opens = @ - 1]

Release(o, saves) ==
    LET i == th[o].item
    IN  /\ th[o].pc = "open" /\ ~ it[i].beingReset
        /\ \/ /\ it[i].opens > 1
              /\ Put(i, Released(i)) /\ Step(o, IdleThread)
           \/ /\ it[i].opens = 1 /\ handleCaching
              /\ Put(i, [Released(i) EXCEPT !.x.grace = TRUE])
              /\ Step(o, IdleThread)
           \/ /\ it[i].opens = 1 /\ ~ handleCaching /\ ~ it[i].dls
              /\ Put(i, actualCloseLocked(Released(i), saves))
              /\ Step(o, IdleThread)
           \/ /\ it[i].opens = 1 /\ ~ handleCaching /\ it[i].dls
              /\ Put(i, [DetachDls(Released(i)) EXCEPT !.x.pending = @ + 1])
              /\ Step(o, Closing("close", i))
        /\ UNCHANGED <<entry, env>>

ReleaseEnd(o, saves) ==
    /\ th[o].pc = "close"
    /\ Put(th[o].item, EndAccess(actualCloseLocked(At(th[o].item), saves)))
    /\ Step(o, IdleThread)
    /\ UNCHANGED <<entry, env>>

(* closeAfterGrace; a callback that comes too late does nothing. *)
GraceClose(i, saves) ==
    LET s == [At(i) EXCEPT !.x.grace = FALSE]
    IN  /\ it[i].grace /\ it[i].opens = 0
        /\ \/ ~ it[i].dls /\ Put(i, actualCloseLocked(s, saves)) /\ UNCHANGED th
           \/ /\ it[i].dls
              /\ Put(i, [DetachDls(s) EXCEPT !.x.closing = TRUE])
              /\ Step(i, Closing("close", i))
        /\ UNCHANGED <<entry, env>>

GraceCloseEnd(i, saves) ==
    /\ th[i].pc = "close"
    /\ Put(i, [actualCloseLocked(At(i), saves) EXCEPT !.x.closing = FALSE])
    /\ Step(i, IdleThread)
    /\ UNCHANGED <<entry, env>>

-----------------------------------------------------------------------------
(***************************************************************************)
(* The cleaner.  resetForSpace removes an idle item (and its caller then   *)
(* the entry of the map), or empties an open one in place.                 *)
(***************************************************************************)
Removed(s) == [RemoveFiles(closeFDLocked(s)) EXCEPT
                  !.x.info = NoInfo, !.x.loaded = FALSE, !.x.object = 0,
                  !.x.linked = FALSE, !.x.unsaved = FALSE]

Deleting(i) == [IdleThread EXCEPT !.pc = "delete", !.item = i]

(* A pass goes on after Cache.Close cancelled the context, until wg.Wait. *)
CleanerRuns == up = "run" \/ (up = "closing" /\ th[Closer].pc = "idle")

\* Mutant of Evict: an item in its grace period counts as idle.
EvictInGrace(i) ==
    /\ th[Cleaner].pc = "idle" /\ CleanerRuns /\ entry = i
    /\ it[i].opens = 0 /\ ~ it[i].dls
    /\ Put(i, Removed(At(i)))
    /\ Step(Cleaner, Deleting(i))
    /\ UNCHANGED <<entry, env>>

Evict(i) ==
    /\ th[Cleaner].pc = "idle" /\ CleanerRuns /\ entry = i
    /\ it[i].opens = 0 /\ ~ it[i].grace
    /\ \/ /\ it[i].dls
          /\ Put(i, DetachDls(At(i)))
          /\ Step(Cleaner, Closing("evict", i))
       \/ /\ ~ it[i].dls
          /\ Put(i, Removed(At(i)))
          /\ Step(Cleaner, Deleting(i))
    /\ UNCHANGED <<entry, env>>

EvictEnd ==
    /\ th[Cleaner].pc = "evict"
    /\ Put(th[Cleaner].item, Removed(At(th[Cleaner].item)))
    /\ Step(Cleaner, Deleting(th[Cleaner].item))
    /\ UNCHANGED <<entry, env>>

EvictDelete ==
    /\ th[Cleaner].pc = "delete"
    /\ entry' = IF entry = th[Cleaner].item THEN None ELSE entry
    /\ Step(Cleaner, IdleThread)
    /\ UNCHANGED <<it, disk, env>>

\* Mutant of Empty: reads in progress are not waited for.
EmptyDuringAccess(i) ==
    /\ th[Cleaner].pc = "idle" /\ CleanerRuns /\ entry = i
    /\ it[i].opens > 0 /\ ~ it[i].grace /\ it[i].info.rs # {}
    /\ Put(i, [DetachDls(At(i)) EXCEPT !.x.beingReset = TRUE])
    /\ Step(Cleaner, Closing("empty", i))
    /\ UNCHANGED <<entry, env>>

(* beingReset keeps everybody out until EmptyEnd, scheduler or not. *)
Empty(i) ==
    /\ th[Cleaner].pc = "idle" /\ CleanerRuns /\ entry = i
    /\ it[i].opens > 0 /\ ~ it[i].grace /\ it[i].pending = 0
    /\ it[i].info.rs # {} \/ it[i].beingReset
    /\ Put(i, [DetachDls(At(i)) EXCEPT !.x.beingReset = TRUE])
    /\ Step(Cleaner, Closing("empty", i))
    /\ UNCHANGED <<entry, env>>

(***************************************************************************)
(* The rest of resetForSpace.  It may fail to create the data file or to   *)
(* save the metadata; the reset stays pending if there was no space.       *)
(***************************************************************************)
Emptied(failed, noSpace) ==
    LET i == th[Cleaner].item
        s == [RemoveFiles(closeFDLocked(At(i))) EXCEPT !.x.info.rs = {}]
        done(r) == [r EXCEPT !.x.beingReset = FALSE]
        stop(r) == [r EXCEPT !.x.beingReset = noSpace]
    IN  /\ th[Cleaner].pc = "empty"
        /\ Put(i, CASE failed = "file" -> stop(s)
                    [] failed = "save" -> stop(OpenFile(s))
                    [] failed = "none" ->
                         done(createDownloadersLocked(saveLocked(OpenFile(s)))))
        /\ UNCHANGED <<entry, env>>

EmptyEnd(failed, noSpace) ==
    Emptied(failed, noSpace) /\ Step(Cleaner, IdleThread)

-----------------------------------------------------------------------------
(***************************************************************************)
(* Cache.Close: no more Opens, the cleaner has ended, then the item.       *)
(***************************************************************************)
CacheClose ==
    /\ up = "run" /\ \A o \in Openers : th[o].pc \in {"idle", "open"}
    /\ up' = "closing"
    /\ UNCHANGED <<entry, it, disk, th, origin, restarts, handleCaching>>

CacheCloseItem(saves) ==
    LET s == [At(entry) EXCEPT !.x.grace = FALSE]
    IN  /\ up = "closing" /\ th[Cleaner].pc = "idle" /\ th[Closer].pc = "idle"
        /\ \/ entry = None /\ up' = "closed" /\ UNCHANGED <<it, disk, th>>
           \/ /\ entry # None /\ ~ it[entry].dls
              /\ Put(entry, actualCloseLocked(s, saves))
              /\ up' = "closed" /\ UNCHANGED th
           \/ /\ entry # None /\ it[entry].dls
              /\ Put(entry, DetachDls(s))
              /\ Step(Closer, Closing("close", entry))
              /\ UNCHANGED up
        /\ UNCHANGED <<entry, origin, restarts, handleCaching>>

CacheCloseEnd(saves) ==
    /\ th[Closer].pc = "close"
    /\ Put(th[Closer].item, actualCloseLocked(At(th[Closer].item), saves))
    /\ Step(Closer, IdleThread)
    /\ up' = "closed"
    /\ UNCHANGED <<entry, origin, restarts, handleCaching>>

(***************************************************************************)
(* The process ends, at any time, and New runs loadExisting: metadata that *)
(* cannot be decoded, has no key or has no data file is removed, then      *)
(* every data file without metadata.  With cut the process ended between   *)
(* the two os.Remove of a step, or the metadata is damaged.                *)
(***************************************************************************)
Trusted == meta # None /\ meta.key /\ data # None

Restart(cut) ==
    LET trusts == Trusted /\ ~ cut
        i      == CHOOSE j \in Items : TRUE
    IN  /\ restarts < MaxRestarts /\ restarts' = restarts + 1
        /\ entry' = IF trusts THEN i ELSE None
        /\ it' = [j \in Items |-> IF j = i /\ trusts
                    THEN [NewItem EXCEPT !.info = meta, !.loaded = TRUE]
                    ELSE NewItem]
        /\ meta' = IF trusts THEN meta ELSE None
        /\ data' = IF trusts THEN data ELSE None
        /\ file' = [n \in Inodes |-> IF trusts /\ n = data THEN file[n] ELSE Holes]
        /\ th' = [t \in Threads |-> IdleThread]
        /\ up' = "run"
        /\ UNCHANGED <<origin, handleCaching>>

-----------------------------------------------------------------------------
(***************************************************************************)
(* The bound on what meets on one key, for which the code has no guards.   *)
(* An Open does not enter while                                            *)
(*   "evict"  the cleaner removes the item, and before it has left the map *)
(*   "reset"  another Open is in the window of resetLocked                 *)
(*   "close"  the last Reader is in the window of actualCloseLocked; with  *)
(*            a grace period item.closing keeps the Open out anyway        *)
(*   "fetch"  streams of another version run and nothing is cached yet     *)
(* and the cleaner removes no item that is being opened or closed.         *)
(***************************************************************************)
Apart(o, i) ==
    /\ th[o].pc = "idle" /\ th[Cleaner].pc \in {"evict", "delete"}
         => "evict" \in Overlap
    /\ \A p \in Openers \ {o} : th[p].item = i =>
         /\ th[p].pc = "reset" => "reset" \in Overlap
         /\ th[p].pc = "close" => "close" \in Overlap

Settled(o, i, v, readable) ==
    \/ "fetch" \in Overlap
    \/ NeedsReset(Begun(o, i, readable), v)
    \/ InFlight(i) \subseteq {v}

Quiet(i) ==
    \/ "evict" \in Overlap
    \/ /\ ~ it[i].closing
       /\ \A o \in Openers : th[o].item = i =>
                               th[o].pc \in {"open", "ensure", "got"}

OpenNext(o, i, v) ==
    \/ OpenWait(o, i, v)
    \/ \E readable \in BOOLEAN :
         \/ OpenRefused(o, i, v, readable) \/ OpenReset(o, i, v, readable)
         \/ Settled(o, i, v, readable) /\ OpenDone(o, i, v, readable)

OpenerNext(o) == \/ \E i \in Items, v \in Versions : Apart(o, i) /\ OpenNext(o, i, v)
                 \/ OpenAfterReset(o)
                 \/ \E b \in Blocks : ReadBegin(o, b)
                 \/ ReadServed(o) \/ ReadEnd(o)
                 \/ \E saves \in BOOLEAN : Release(o, saves) \/ ReleaseEnd(o, saves)

ItemNext(i) == \/ Fetch(i)
               \/ \E v \in Versions : FetchEnd(i, v)
               \/ \E v \in Versions, b \in Blocks : WriteAtNoOverwrite(i, v, b)
               \/ \E saves \in BOOLEAN : GraceClose(i, saves) \/ GraceCloseEnd(i, saves)

CleanerNext == \/ \E i \in Items : (Quiet(i) /\ Evict(i)) \/ Empty(i)
               \/ EvictEnd \/ EvictDelete
               \/ \E failed \in {"none", "file", "save"}, noSpace \in BOOLEAN :
                    EmptyEnd(failed, noSpace)

Next == \/ \E o \in Openers : OpenerNext(o)
        \/ \E i \in Items : ItemNext(i)
        \/ CleanerNext
        \/ Change
        \/ CacheClose
        \/ \E saves \in BOOLEAN : CacheCloseItem(saves) \/ CacheCloseEnd(saves)
        \/ \E cut \in BOOLEAN : Restart(cut)

Spec == Init /\ [][Next]_vars

-----------------------------------------------------------------------------
(***************************************************************************)
(* The type invariant.                                                     *)
(***************************************************************************)
TypeOK ==
    /\ entry \in Items \cup {None}
    /\ it \in [Items -> ItemState]
    /\ meta \in Info \cup {None}
    /\ data \in Inodes \cup {None}
    /\ file \in [Inodes -> [Blocks -> 0 .. MaxVersion]]
    /\ th \in [Threads -> ThreadState]
    /\ origin \in Versions
    /\ up \in {"run", "closing", "closed"}
    /\ restarts \in 0 .. MaxRestarts
    /\ handleCaching \in BOOLEAN

(***************************************************************************)
(* "do not risk serving bytes from mixed object versions" (handler.go:110) *)
(* and "ensureLocked ensures r is present" (item.go:450): when a read gets *)
(* to the file, the file holds the bytes of the version its Reader was     *)
(* opened with, neither another version's nor the zeros of a hole.         *)
(***************************************************************************)
ReadsReturnVersion ==
    \A o \in Openers :
        LET fd == it[th[o].item].fd
        IN  th[o].pc = "got" /\ fd # None => file[fd][th[o].blk] = th[o].ver

(***************************************************************************)
(* "Ranges describe which bytes in the apparent-size file are actually     *)
(* valid cached data" (item.go:32): every cached block of an open item is  *)
(* in its file, in the version the item's fingerprint stands for.          *)
(***************************************************************************)
RangesSound ==
    \A i \in Items :
        it[i].fd # None =>
            \A b \in it[i].info.rs :
                LET v == file[it[i].fd][b]
                IN  v # 0 /\ Fingerprint(v) = it[i].info.fp

(***************************************************************************)
(* "A corrupt metadata file must never make sparse bytes trusted"          *)
(* (item.go:163): what the disk says at any moment may be what the next    *)
(* process starts with, so every range in the metadata is in the data file *)
(* next to it, in the version of the fingerprint.                          *)
(***************************************************************************)
MetaSound ==
    Trusted => \A b \in meta.rs :
                  file[data][b] # 0 /\ Fingerprint(file[data][b]) = meta.fp

(***************************************************************************)
(* The metadata file of a key carries that key ("metadata key %q does not  *)
(* match %q", item.go:170): otherwise every later Open of the key fails.   *)
(***************************************************************************)
MetaHasKey == meta # None => meta.key

(***************************************************************************)
(* actualCloseLocked is for the last Reader, and item.closing lets an Open *)
(* wait for it (item.go:76).  With a grace period the file of an item that *)
(* has Readers is taken away by the cleaner's reset or by Cache.Close,     *)
(* never by a closing.  Without one the code has no such marker, and the   *)
(* "close" overlap breaks this.                                            *)
(***************************************************************************)
ReadersKeepFile ==
    [][handleCaching =>
         \A i \in Items :
           it[i].opens > 0 /\ it'[i].opens > 0 /\ it[i].fd # None /\ it'[i].fd = None
              => th[Cleaner].pc = "empty" \/ up # "run"]_vars

(***************************************************************************)
(* "stops range fetches before closing the sparse file, then [...] persist *)
(* the final range metadata" (item.go:375): once an item is closed, the    *)
(* metadata on disk has no range the item does not have, and it has every  *)
(* range that was fetched, the last ones too, unless the closing failed to *)
(* save it (which closeAfterGrace ignores).                                *)
(***************************************************************************)
FinalRangesPersisted ==
    \A i \in Items :
        it[i].loaded /\ it[i].fd = None /\ it[i].opens = 0 /\ entry = i =>
            LET saved == IF meta = None THEN {} ELSE meta.rs
            IN  /\ saved \subseteq it[i].info.rs
                /\ it[i].info.rs \subseteq saved \/ it[i].unsaved
=============================================================================
