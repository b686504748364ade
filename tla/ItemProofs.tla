----------------------------- MODULE ItemProofs -----------------------------
(***************************************************************************)
(* Proofs about Item, for every number of requests, item objects, data     *)
(* files and blocks, of versions and restarts, under the bound of Item on  *)
(* what meets on one key: Overlap = {}, or Overlap \subseteq {"close"} for *)
(* ReadersKeepTheFile.                                                     *)
(***************************************************************************)
EXTENDS Item, FiniteSetTheorems, TLAPS

-----------------------------------------------------------------------------
(***************************************************************************)
(* States of an item and the disk, as the operations of Item transform     *)
(* them: [x, meta, data, file].                                            *)
(***************************************************************************)
XState ==
    [fd : Inodes \cup {None}, info : Info, loaded : BOOLEAN,
     object : 0 .. MaxVersion, dls : BOOLEAN, dlsObject : 0 .. MaxVersion,
     flight : SUBSET Versions, linked : BOOLEAN, opens : Int,
     grace : BOOLEAN, closing : BOOLEAN, pending : Int, beingReset : BOOLEAN,
     unsaved : BOOLEAN]

Files == [Inodes -> [Blocks -> 0 .. MaxVersion]]

SState == [x : XState, meta : Info \cup {None}, data : Inodes \cup {None},
           file : Files]

(* The files and the item's copy of the metadata agree: the file it has    *)
(* open is the one the path names, the metadata file carries the key and   *)
(* lists no range the item does not, and an item without a file has        *)
(* nothing that is not in it, unless its closing could not save it.        *)
DiskOK(s) ==
    /\ s.x.fd \in {None, s.data}
    /\ s.meta # None => s.meta.key
    /\ s.meta # None /\ s.data = None => s.meta.rs = {}
    /\ s.meta # None /\ s.x.loaded => s.meta.rs \subseteq s.x.info.rs
    /\ s.meta # None /\ s.meta.rs # {} => s.x.loaded /\ s.meta.fp = s.x.info.fp
    /\ s.x.loaded => s.x.info.key
    /\ s.x.loaded /\ s.data = None => s.x.info.rs = {}
    /\ s.x.loaded /\ s.x.fd = None /\ ~ s.x.unsaved =>
          s.x.info.rs = IF s.meta = None THEN {} ELSE s.meta.rs

(* The item has a scheduler for the object it has, and streams only then. *)
DlsOK(x) ==
    /\ x.object # 0 => x.info.fp = Fingerprint(x.object)
    /\ IF x.dls THEN x.linked /\ x.dlsObject = x.object /\ x.object # 0
       ELSE ~ x.linked /\ x.dlsObject = 0 /\ x.flight = {}

Sound(v, fp) == v # 0 /\ Fingerprint(v) = fp

(* Every range of the item is in the data file, in the right version. *)
SoundData(s) ==
    s.data # None => \A b \in s.x.info.rs : Sound(s.file[s.data][b], s.x.info.fp)

Good(s) == s \in SState /\ DiskOK(s) /\ DlsOK(s.x)


(* The fields that count and mark the users of the item. *)
SameControl(x, y) ==
    /\ x.opens = y.opens /\ x.grace = y.grace /\ x.closing = y.closing
    /\ x.pending = y.pending /\ x.beingReset = y.beingReset

Keeps(s, r) == Good(r) /\ (SoundData(s) => SoundData(r))

(* Constants that operations store. *)
LEMMA ZeroVersion ==
  /\ 0 \in 0 .. MaxVersion
  /\ \A v \in Versions : v \in 0 .. MaxVersion /\ v # 0 /\ Fingerprint(v) \in 0 .. MaxVersion
BY ItemAssumption DEF Versions, Fingerprint

LEMMA InfoValues ==
  /\ NoInfo \in Info /\ NoInfo.rs = {} /\ NoInfo.fp = 0
  /\ FreshInfo \in Info /\ FreshInfo.rs = {} /\ FreshInfo.key /\ FreshInfo.fp = 0
<1>1. NoInfo \in Info /\ NoInfo.rs = {} /\ NoInfo.fp = 0
  BY ZeroVersion DEF NoInfo, Info
<1>2. FreshInfo \in Info /\ FreshInfo.rs = {} /\ FreshInfo.key /\ FreshInfo.fp = 0
  BY <1>1 DEF FreshInfo, Info
<1> QED
  BY <1>1, <1>2

(* loadLocked reads what the metadata file says, or removes it. *)
LEMMA LoadKeeps ==
  ASSUME NEW s, NEW readable \in BOOLEAN, Good(s), s.x.fd = None \/ s.x.loaded, s.x.loaded \/ s.x.object = 0
  PROVE  /\ Keeps(s, loadLocked(s, readable))
         /\ SameControl(loadLocked(s, readable).x, s.x) /\ loadLocked(s, readable).x.loaded
         /\ loadLocked(s, readable).x.dls = s.x.dls
         /\ loadLocked(s, readable).x.flight = s.x.flight
         /\ loadLocked(s, readable).x.fd = s.x.fd
         /\ (s.x.loaded => loadLocked(s, readable) = s)
         /\ (~ s.x.loaded /\ s.meta = None => loadLocked(s, readable).x.info = FreshInfo)
<1>1. loadLocked(s, readable) \in SState
  BY ZeroVersion, InfoValues DEF Good, SState, XState, loadLocked, RemoveFiles
<1>2. DiskOK(loadLocked(s, readable))
  BY NoneAssumption, InfoValues DEF Good, DiskOK, SState, XState, Info, loadLocked, RemoveFiles
<1>3. DlsOK(loadLocked(s, readable).x)
  BY ZeroVersion DEF Good, DlsOK, SState, XState, loadLocked, RemoveFiles
<1>4. SoundData(s) => SoundData(loadLocked(s, readable))
  BY InfoValues DEF Good, DiskOK, SoundData, SState, XState, Info, loadLocked, RemoveFiles
<1>5. SameControl(loadLocked(s, readable).x, s.x) /\ loadLocked(s, readable).x.loaded
         /\ loadLocked(s, readable).x.dls = s.x.dls
         /\ loadLocked(s, readable).x.flight = s.x.flight
         /\ loadLocked(s, readable).x.fd = s.x.fd
         /\ (s.x.loaded => loadLocked(s, readable) = s)
         /\ (~ s.x.loaded /\ s.meta = None => loadLocked(s, readable).x.info = FreshInfo)
  BY ZeroVersion, InfoValues DEF Good, DiskOK, DlsOK, SameControl, SState, XState, loadLocked, RemoveFiles
<1> QED
  BY <1>1, <1>2, <1>3, <1>4, <1>5 DEF Keeps, Good

(* actualCloseLocked saves the metadata it had in memory, or fails to. *)
LEMMA CloseKeeps ==
  ASSUME NEW s, NEW saves \in BOOLEAN, Good(s), s.x.loaded
  PROVE  /\ Keeps(s, actualCloseLocked(s, saves))
         /\ SameControl(actualCloseLocked(s, saves).x, s.x) /\ actualCloseLocked(s, saves).x.loaded
         /\ actualCloseLocked(s, saves).x.dls = s.x.dls
         /\ actualCloseLocked(s, saves).x.flight = s.x.flight
         /\ actualCloseLocked(s, saves).x.info = s.x.info
         /\ actualCloseLocked(s, saves).x.fd = None
<1>1. actualCloseLocked(s, saves) \in SState
  BY ZeroVersion DEF Good, SState, XState, actualCloseLocked, saveLocked, closeFDLocked
<1>2. DiskOK(actualCloseLocked(s, saves))
  BY NoneAssumption DEF Good, DiskOK, SState, XState, Info, actualCloseLocked, saveLocked, closeFDLocked
<1>3. DlsOK(actualCloseLocked(s, saves).x)
  BY ZeroVersion DEF Good, DlsOK, SState, XState, actualCloseLocked, saveLocked, closeFDLocked
<1>4. SoundData(s) => SoundData(actualCloseLocked(s, saves))
  BY DEF Good, DiskOK, SoundData, SState, XState, Info, actualCloseLocked, saveLocked, closeFDLocked
<1>5. SameControl(actualCloseLocked(s, saves).x, s.x) /\ actualCloseLocked(s, saves).x.loaded
         /\ actualCloseLocked(s, saves).x.dls = s.x.dls
         /\ actualCloseLocked(s, saves).x.flight = s.x.flight
         /\ actualCloseLocked(s, saves).x.info = s.x.info
         /\ actualCloseLocked(s, saves).x.fd = None
  BY ZeroVersion DEF Good, DiskOK, DlsOK, SameControl, SState, XState, actualCloseLocked, saveLocked, closeFDLocked
<1> QED
  BY <1>1, <1>2, <1>3, <1>4, <1>5 DEF Keeps, Good

(* An item that lets go of its scheduler keeps its ranges. *)
LEMMA DetachKeeps ==
  ASSUME NEW s, Good(s)
  PROVE  /\ Keeps(s, DetachDls(s))
         /\ SameControl(DetachDls(s).x, s.x) /\ DetachDls(s).x.loaded = s.x.loaded
         /\ ~ DetachDls(s).x.dls /\ DetachDls(s).x.flight = {}
         /\ DetachDls(s).x.info = s.x.info
         /\ DetachDls(s).x.fd = s.x.fd
<1>1. DetachDls(s) \in SState
  BY ZeroVersion DEF Good, SState, XState, DetachDls
<1>2. DiskOK(DetachDls(s))
  BY NoneAssumption DEF Good, DiskOK, SState, XState, Info, DetachDls
<1>3. DlsOK(DetachDls(s).x)
  BY ZeroVersion DEF Good, DlsOK, SState, XState, DetachDls
<1>4. SoundData(s) => SoundData(DetachDls(s))
  BY DEF Good, DiskOK, SoundData, SState, XState, Info, DetachDls
<1>5. SameControl(DetachDls(s).x, s.x) /\ DetachDls(s).x.loaded = s.x.loaded
         /\ ~ DetachDls(s).x.dls /\ DetachDls(s).x.flight = {}
         /\ DetachDls(s).x.info = s.x.info
         /\ DetachDls(s).x.fd = s.x.fd
  BY ZeroVersion DEF Good, DiskOK, DlsOK, SameControl, SState, XState, DetachDls
<1> QED
  BY <1>1, <1>2, <1>3, <1>4, <1>5 DEF Keeps, Good

(* resetLocked leaves an item without ranges and no files. *)
LEMMA ResetKeeps ==
  ASSUME NEW s, Good(s), ~ s.x.dls
  PROVE  /\ Keeps(s, resetLocked(s))
         /\ SameControl(resetLocked(s).x, s.x) /\ resetLocked(s).x.loaded = s.x.loaded
         /\ ~ resetLocked(s).x.dls /\ resetLocked(s).x.flight = {}
         /\ resetLocked(s).x.info.rs = {}
<1>1. resetLocked(s) \in SState
  BY ZeroVersion, InfoValues DEF Good, SState, XState, resetLocked, RemoveFiles, closeFDLocked
<1>2. DiskOK(resetLocked(s))
  BY NoneAssumption, InfoValues DEF Good, DiskOK, SState, XState, Info, resetLocked, RemoveFiles, closeFDLocked
<1>3. DlsOK(resetLocked(s).x)
  BY ZeroVersion DEF Good, DlsOK, SState, XState, resetLocked, RemoveFiles, closeFDLocked
<1>4. SoundData(s) => SoundData(resetLocked(s))
  BY InfoValues DEF Good, DiskOK, SoundData, SState, XState, Info, resetLocked, RemoveFiles, closeFDLocked
<1>5. SameControl(resetLocked(s).x, s.x) /\ resetLocked(s).x.loaded = s.x.loaded
         /\ ~ resetLocked(s).x.dls /\ resetLocked(s).x.flight = {}
         /\ resetLocked(s).x.info.rs = {}
  BY ZeroVersion, InfoValues DEF Good, DiskOK, DlsOK, SameControl, SState, XState, resetLocked, RemoveFiles, closeFDLocked
<1> QED
  BY <1>1, <1>2, <1>3, <1>4, <1>5 DEF Keeps, Good

(* An evicted item is as good as new. *)
LEMMA RemovedKeeps ==
  ASSUME NEW s, Good(s), ~ s.x.dls
  PROVE  /\ Keeps(s, Removed(s))
         /\ SameControl(Removed(s).x, s.x) /\ Removed(s).meta = None /\ Removed(s).data = None
         /\ Removed(s).x.fd = None /\ Removed(s).x.info = NoInfo
         /\ ~ Removed(s).x.loaded /\ Removed(s).x.object = 0
         /\ ~ Removed(s).x.dls /\ Removed(s).x.dlsObject = 0
         /\ Removed(s).x.flight = {} /\ ~ Removed(s).x.linked /\ ~ Removed(s).x.unsaved
<1>0. s.x \in XState /\ s \in SState
  BY DEF Good, SState
<1>a. /\ Removed(s).x = [s.x EXCEPT !.fd = None, !.info = NoInfo, !.loaded = FALSE,
                                   !.object = 0, !.linked = FALSE, !.unsaved = FALSE]
      /\ Removed(s) = [s EXCEPT !.data = None, !.meta = None, !.x = Removed(s).x]
  BY <1>0 DEF SState, XState, Removed, RemoveFiles, closeFDLocked
<1>b. Removed(s).x \in XState
  BY <1>0, <1>a, ZeroVersion, InfoValues DEF XState
<1>1. Removed(s) \in SState
  BY <1>0, <1>a, <1>b DEF SState
<1>2. DiskOK(Removed(s))
  BY NoneAssumption, InfoValues DEF Good, DiskOK, SState, XState, Info, Removed, RemoveFiles, closeFDLocked
<1>3. DlsOK(Removed(s).x)
  BY ZeroVersion DEF Good, DlsOK, SState, XState, Removed, RemoveFiles, closeFDLocked
<1>4. SoundData(s) => SoundData(Removed(s))
  BY InfoValues DEF Good, DiskOK, SoundData, SState, XState, Info, Removed, RemoveFiles, closeFDLocked
<1>5. SameControl(Removed(s).x, s.x) /\ Removed(s).meta = None /\ Removed(s).data = None
         /\ Removed(s).x.fd = None /\ Removed(s).x.info = NoInfo
         /\ ~ Removed(s).x.loaded /\ Removed(s).x.object = 0
         /\ ~ Removed(s).x.dls /\ Removed(s).x.dlsObject = 0
         /\ Removed(s).x.flight = {} /\ ~ Removed(s).x.linked /\ ~ Removed(s).x.unsaved
  BY <1>0, <1>a DEF Good, DlsOK, SameControl, SState, XState
<1> QED
  BY <1>1, <1>2, <1>3, <1>4, <1>5 DEF Keeps, Good

(* saveLocked writes what the item has. *)
LEMMA SaveKeeps ==
  ASSUME NEW s, Good(s), s.x.loaded, s.x.fd # None
  PROVE  /\ Keeps(s, saveLocked(s))
         /\ saveLocked(s).x = s.x /\ saveLocked(s).data = s.data /\ saveLocked(s).file = s.file
<1>1. saveLocked(s) \in SState
  BY ZeroVersion DEF Good, SState, XState, saveLocked
<1>2. DiskOK(saveLocked(s))
  BY NoneAssumption DEF Good, DiskOK, SState, XState, Info, saveLocked
<1>3. DlsOK(saveLocked(s).x)
  BY ZeroVersion DEF Good, DlsOK, SState, XState, saveLocked
<1>4. SoundData(s) => SoundData(saveLocked(s))
  BY DEF Good, DiskOK, SoundData, SState, XState, Info, saveLocked
<1>5. saveLocked(s).x = s.x /\ saveLocked(s).data = s.data /\ saveLocked(s).file = s.file
  BY ZeroVersion DEF Good, DiskOK, DlsOK, SameControl, SState, XState, saveLocked
<1> QED
  BY <1>1, <1>2, <1>3, <1>4, <1>5 DEF Keeps, Good

(* A new scheduler is given the item's object. *)
LEMMA CreateKeeps ==
  ASSUME NEW s, Good(s)
  PROVE  /\ Keeps(s, createDownloadersLocked(s))
         /\ SameControl(createDownloadersLocked(s).x, s.x) /\ createDownloadersLocked(s).x.loaded = s.x.loaded
         /\ createDownloadersLocked(s).x.info = s.x.info
         /\ createDownloadersLocked(s).x.fd = s.x.fd
         /\ createDownloadersLocked(s).x.flight = s.x.flight
         /\ createDownloadersLocked(s).x.dls = (s.x.dls \/ s.x.object # 0)
<1>1. createDownloadersLocked(s) \in SState
  BY ZeroVersion DEF Good, SState, XState, createDownloadersLocked
<1>2. DiskOK(createDownloadersLocked(s))
  BY NoneAssumption DEF Good, DiskOK, SState, XState, Info, createDownloadersLocked
<1>3. DlsOK(createDownloadersLocked(s).x)
  BY ZeroVersion DEF Good, DlsOK, SState, XState, createDownloadersLocked
<1>4. SoundData(s) => SoundData(createDownloadersLocked(s))
  BY DEF Good, DiskOK, SoundData, SState, XState, Info, createDownloadersLocked
<1>5. SameControl(createDownloadersLocked(s).x, s.x) /\ createDownloadersLocked(s).x.loaded = s.x.loaded
         /\ createDownloadersLocked(s).x.info = s.x.info
         /\ createDownloadersLocked(s).x.fd = s.x.fd
         /\ createDownloadersLocked(s).x.flight = s.x.flight
         /\ createDownloadersLocked(s).x.dls = (s.x.dls \/ s.x.object # 0)
  BY ZeroVersion DEF Good, DiskOK, DlsOK, SameControl, SState, XState, createDownloadersLocked
<1> QED
  BY <1>1, <1>2, <1>3, <1>4, <1>5 DEF Keeps, Good

(* The object of the item may change while it has no ranges of another. *)
LEMMA ObjectKeeps ==
  ASSUME NEW s, Good(s), s.x.loaded, NEW v \in Versions,
         s.x.info.rs = {} \/ s.x.info.fp = Fingerprint(v)
  PROVE  LET r == WithObject(s, v)
         IN  /\ Keeps(s, r) /\ SameControl(r.x, s.x) /\ r.x.loaded
             /\ r.x.info.rs = s.x.info.rs /\ r.x.info.fp = Fingerprint(v)
             /\ r.x.object = v /\ r.x.fd = s.x.fd /\ r.x.dls = s.x.dls
             /\ r.x.flight = s.x.flight
<1> DEFINE r == WithObject(s, v)
           new == [s.x.info EXCEPT !.key = TRUE, !.fp = Fingerprint(v)]
<1>1. s.x.info \in Info /\ s.x \in XState
  BY DEF Good, SState, XState
<1>2. new \in Info /\ new.rs = s.x.info.rs /\ new.fp = Fingerprint(v) /\ new.key
  BY <1>1, ZeroVersion DEF Info
<1>3. r.x.info = new
  BY <1>1 DEF Good, SState, XState, WithObject
<1>4. /\ r.meta = s.meta /\ r.data = s.data /\ r.file = s.file
      /\ SameControl(r.x, s.x) /\ r.x.loaded
      /\ r.x.object = v /\ r.x.fd = s.x.fd /\ r.x.dls = s.x.dls
      /\ r.x.flight = s.x.flight /\ r.x.linked = s.x.linked
      /\ r.x.dlsObject = IF s.x.linked THEN v ELSE s.x.dlsObject
      /\ r.x.unsaved = s.x.unsaved
  BY <1>1 DEF Good, SState, XState, WithObject, SameControl
<1>5. r \in SState
  <2>1. r.x \in XState
    BY <1>1, <1>2, ZeroVersion DEF Good, SState, XState, WithObject
  <2> QED
    BY <1>1, <2>1 DEF Good, SState, WithObject
<1> HIDE DEF r, new
<1>6. DiskOK(r)
  BY <1>2, <1>3, <1>4 DEF Good, DiskOK
<1>7. DlsOK(r.x)
  BY <1>2, <1>3, <1>4, ZeroVersion DEF Good, DlsOK
<1>8. SoundData(s) => SoundData(r)
  BY <1>2, <1>3, <1>4 DEF SoundData
<1> QED
  BY <1>2, <1>3, <1>4, <1>5, <1>6, <1>7, <1>8 DEF Keeps, Good, r

(* Fields that only count and mark the users change nothing else. *)
LEMMA ControlKeeps ==
  ASSUME NEW s, Good(s), NEW r \in SState,
         r.meta = s.meta, r.data = s.data, r.file = s.file,
         r.x.fd = s.x.fd, r.x.info = s.x.info, r.x.loaded = s.x.loaded,
         r.x.object = s.x.object, r.x.dls = s.x.dls,
         r.x.dlsObject = s.x.dlsObject, r.x.flight = s.x.flight,
         r.x.linked = s.x.linked, r.x.unsaved = s.x.unsaved
  PROVE  Keeps(s, r)
BY DEF Keeps, Good, DiskOK, DlsOK, SoundData

(* Everything but those fields. *)
SameCore(x, y) ==
    /\ x.fd = y.fd /\ x.info = y.info /\ x.loaded = y.loaded
    /\ x.object = y.object /\ x.dls = y.dls /\ x.dlsObject = y.dlsObject
    /\ x.flight = y.flight /\ x.linked = y.linked /\ x.unsaved = y.unsaved

(* Setting one of them changes nothing else. *)
LEMMA SetOpens ==
  ASSUME NEW s, Good(s), NEW n \in Int
  PROVE  LET r == [s EXCEPT !.x.opens = n]
         IN  /\ Keeps(s, r) /\ SameCore(r.x, s.x) /\ r.x.opens = n
             /\ r.x.grace = s.x.grace /\ r.x.closing = s.x.closing /\ r.x.pending = s.x.pending /\ r.x.beingReset = s.x.beingReset
<1> DEFINE r == [s EXCEPT !.x.opens = n]
<1>1. /\ r \in SState /\ r.meta = s.meta /\ r.data = s.data /\ r.file = s.file
      /\ SameCore(r.x, s.x)
  BY DEF Good, SState, XState, SameCore
<1>2. /\ r.x.opens = n
      /\ r.x.grace = s.x.grace /\ r.x.closing = s.x.closing /\ r.x.pending = s.x.pending /\ r.x.beingReset = s.x.beingReset
  BY DEF Good, SState, XState
<1> HIDE DEF r
<1>3. Keeps(s, r)
  BY <1>1, ControlKeeps DEF SameCore
<1> QED
  BY <1>1, <1>2, <1>3 DEF r

LEMMA SetGrace ==
  ASSUME NEW s, Good(s), NEW n \in BOOLEAN
  PROVE  LET r == [s EXCEPT !.x.grace = n]
         IN  /\ Keeps(s, r) /\ SameCore(r.x, s.x) /\ r.x.grace = n
             /\ r.x.opens = s.x.opens /\ r.x.closing = s.x.closing /\ r.x.pending = s.x.pending /\ r.x.beingReset = s.x.beingReset
<1> DEFINE r == [s EXCEPT !.x.grace = n]
<1>1. /\ r \in SState /\ r.meta = s.meta /\ r.data = s.data /\ r.file = s.file
      /\ SameCore(r.x, s.x)
  BY DEF Good, SState, XState, SameCore
<1>2. /\ r.x.grace = n
      /\ r.x.opens = s.x.opens /\ r.x.closing = s.x.closing /\ r.x.pending = s.x.pending /\ r.x.beingReset = s.x.beingReset
  BY DEF Good, SState, XState
<1> HIDE DEF r
<1>3. Keeps(s, r)
  BY <1>1, ControlKeeps DEF SameCore
<1> QED
  BY <1>1, <1>2, <1>3 DEF r

LEMMA SetClosing ==
  ASSUME NEW s, Good(s), NEW n \in BOOLEAN
  PROVE  LET r == [s EXCEPT !.x.closing = n]
         IN  /\ Keeps(s, r) /\ SameCore(r.x, s.x) /\ r.x.closing = n
             /\ r.x.opens = s.x.opens /\ r.x.grace = s.x.grace /\ r.x.pending = s.x.pending /\ r.x.beingReset = s.x.beingReset
<1> DEFINE r == [s EXCEPT !.x.closing = n]
<1>1. /\ r \in SState /\ r.meta = s.meta /\ r.data = s.data /\ r.file = s.file
      /\ SameCore(r.x, s.x)
  BY DEF Good, SState, XState, SameCore
<1>2. /\ r.x.closing = n
      /\ r.x.opens = s.x.opens /\ r.x.grace = s.x.grace /\ r.x.pending = s.x.pending /\ r.x.beingReset = s.x.beingReset
  BY DEF Good, SState, XState
<1> HIDE DEF r
<1>3. Keeps(s, r)
  BY <1>1, ControlKeeps DEF SameCore
<1> QED
  BY <1>1, <1>2, <1>3 DEF r

LEMMA SetPending ==
  ASSUME NEW s, Good(s), NEW n \in Int
  PROVE  LET r == [s EXCEPT !.x.pending = n]
         IN  /\ Keeps(s, r) /\ SameCore(r.x, s.x) /\ r.x.pending = n
             /\ r.x.opens = s.x.opens /\ r.x.grace = s.x.grace /\ r.x.closing = s.x.closing /\ r.x.beingReset = s.x.beingReset
<1> DEFINE r == [s EXCEPT !.x.pending = n]
<1>1. /\ r \in SState /\ r.meta = s.meta /\ r.data = s.data /\ r.file = s.file
      /\ SameCore(r.x, s.x)
  BY DEF Good, SState, XState, SameCore
<1>2. /\ r.x.pending = n
      /\ r.x.opens = s.x.opens /\ r.x.grace = s.x.grace /\ r.x.closing = s.x.closing /\ r.x.beingReset = s.x.beingReset
  BY DEF Good, SState, XState
<1> HIDE DEF r
<1>3. Keeps(s, r)
  BY <1>1, ControlKeeps DEF SameCore
<1> QED
  BY <1>1, <1>2, <1>3 DEF r

LEMMA SetBeingReset ==
  ASSUME NEW s, Good(s), NEW n \in BOOLEAN
  PROVE  LET r == [s EXCEPT !.x.beingReset = n]
         IN  /\ Keeps(s, r) /\ SameCore(r.x, s.x) /\ r.x.beingReset = n
             /\ r.x.opens = s.x.opens /\ r.x.grace = s.x.grace /\ r.x.closing = s.x.closing /\ r.x.pending = s.x.pending
<1> DEFINE r == [s EXCEPT !.x.beingReset = n]
<1>1. /\ r \in SState /\ r.meta = s.meta /\ r.data = s.data /\ r.file = s.file
      /\ SameCore(r.x, s.x)
  BY DEF Good, SState, XState, SameCore
<1>2. /\ r.x.beingReset = n
      /\ r.x.opens = s.x.opens /\ r.x.grace = s.x.grace /\ r.x.closing = s.x.closing /\ r.x.pending = s.x.pending
  BY DEF Good, SState, XState
<1> HIDE DEF r
<1>3. Keeps(s, r)
  BY <1>1, ControlKeeps DEF SameCore
<1> QED
  BY <1>1, <1>2, <1>3 DEF r

(* postAccess *)
LEMMA EndAccessKeeps ==
  ASSUME NEW s, Good(s)
  PROVE  LET r == EndAccess(s)
         IN  /\ Keeps(s, r) /\ SameCore(r.x, s.x) /\ r.x.pending = s.x.pending - 1
             /\ r.x.opens = s.x.opens /\ r.x.grace = s.x.grace
             /\ r.x.closing = s.x.closing /\ r.x.beingReset = s.x.beingReset
<1>1. s.x.pending - 1 \in Int /\ EndAccess(s) = [s EXCEPT !.x.pending = s.x.pending - 1]
  BY DEF Good, SState, XState, EndAccess
<1> QED
  BY <1>1, SetPending

-----------------------------------------------------------------------------
(***************************************************************************)
(* The invariant.                                                          *)
(***************************************************************************)
TInv ==
    /\ entry \in Items \cup {None}
    /\ it \in [Items -> XState]
    /\ meta \in Info \cup {None}
    /\ data \in Inodes \cup {None}
    /\ file \in Files
    /\ th \in [Threads -> ThreadState]
    /\ origin \in Versions
    /\ up \in {"run", "closing", "closed"}
    /\ restarts \in 0 .. MaxRestarts
    /\ handleCaching \in BOOLEAN

(* Openers that hold a Reader, and those with a pending access, when the   *)
(* threads are f.                                                          *)
OpenPcs   == {"open", "ensure", "got"}
AccessPcs == {"body", "reset", "ensure", "got", "close"}

In(f, P) == { o \in Openers : f[o].pc \in P }

(* What each thread may be doing. *)
Pcs ==
    /\ \A o \in Openers : th[o].pc \in {"idle", "enter", "body", "reset",
                                        "open", "ensure", "got", "close"}
    /\ \A o \in Openers : th[o].pc \notin {"idle", "close"} => th[o].ver \in Versions
    /\ \A i \in Items : th[i].pc = IF it[i].closing THEN "close" ELSE "idle"
    /\ th[Cleaner].pc \in {"idle", "evict", "delete", "empty"}
    /\ th[Closer].pc \in {"idle", "close"}

(* A thread works on the item e, or on nothing; it has a scheduler to wait *)
(* for only if it closes one.                                              *)
ClosePcs == {"reset", "close", "evict", "empty"}

Belongs(rec, e) ==
    IF rec.pc = "idle" THEN rec = IdleThread
    ELSE e # None /\ rec.item = e /\ (rec.pc \in ClosePcs \/ rec.old = {})

(* Every thread works on the item in the map; no other item is in use, and *)
(* without one there are no files.                                         *)
Owned ==
    /\ \A t \in Threads : Belongs(th[t], entry)
    /\ \A i \in Items \ {entry} : it[i] = NewItem
    /\ entry = None => meta = None /\ data = None

(* Who may be at work on the item x at the same time. *)
Counts(x, f) ==
    x.opens = Cardinality(In(f, OpenPcs)) /\ x.pending = Cardinality(In(f, AccessPcs))

Loaded(x, f, m, d) ==
    IF f[Cleaner].pc = "delete" THEN x = NewItem /\ m = None /\ d = None ELSE x.loaded

Evicting(x, f) ==
    f[Cleaner].pc \in {"evict", "delete"} =>
        /\ \A o \in Openers : f[o].pc = "idle"
        /\ f[Closer].pc = "idle" /\ ~ x.closing /\ ~ x.grace /\ ~ x.dls

Emptying(x, f) ==
    /\ f[Cleaner].pc = "empty" => x.beingReset /\ ~ x.dls /\ f[Closer].pc = "idle"
    /\ x.beingReset => x.opens > 0 /\ x.pending = 0

Grace(x) ==
    /\ x.grace => x.opens = 0
    /\ x.closing => x.opens = 0 /\ ~ x.grace /\ ~ x.dls

Exclusive(x, f) ==
    \A o \in Openers : f[o].pc \in {"reset", "close"} =>
        /\ x.opens = 0 /\ ~ x.grace /\ ~ x.closing /\ ~ x.dls
        /\ \A p \in Openers \ {o} : f[p].pc \notin {"reset", "close"}

Phases(x, f, m, d) == /\ Counts(x, f) /\ Loaded(x, f, m, d) /\ Evicting(x, f)
                      /\ Emptying(x, f) /\ Grace(x) /\ Exclusive(x, f)

(* Cache.Close has not begun, or finds no Open under way. *)
Shut ==
    /\ up # "run" => \A o \in Openers : th[o].pc \notin {"enter", "body", "reset"}
    /\ th[Closer].pc = "close" => up = "closing" /\ th[Cleaner].pc = "idle"

Here(i) == [x |-> it[i], meta |-> meta, data |-> data, file |-> file]

(* The bound under which this holds: no overlap, or only that of a closing *)
(* Reader, and there is none.                                              *)
Bounded ==
    /\ Overlap \subseteq {"close"}
    /\ "close" \in Overlap => \A o \in Openers : th[o].pc # "close"

SInv == /\ TInv /\ Pcs /\ Owned /\ Shut
        /\ entry # None => Phases(it[entry], th, meta, data) /\ Good(Here(entry))

(***************************************************************************)
(* What the readers of the item x rely on, and what its streams, those of  *)
(* a scheduler that is being closed too, may write.                        *)
(***************************************************************************)
ReadersOK(x, f) ==
    \A o \in Openers :
        /\ f[o].pc \in OpenPcs => Sound(f[o].ver, x.info.fp)
        /\ f[o].pc = "got" => f[o].blk \in x.info.rs

StreamsOK(x, f) ==
    /\ \A v \in x.flight : Sound(v, x.info.fp)
    /\ \A t \in Threads : \A v \in f[t].old : Sound(v, x.info.fp)

DInv == entry # None => /\ SoundData(Here(entry))
                        /\ ReadersOK(it[entry], th) /\ StreamsOK(it[entry], th)

-----------------------------------------------------------------------------
(* The threads have different names. *)
LEMMA Names ==
  /\ \A o \in Openers : o \in Threads /\ o \notin Items /\ o # Cleaner /\ o # Closer
  /\ \A i \in Items : i \in Threads /\ i \notin Openers /\ i # Cleaner /\ i # Closer
  /\ Cleaner \in Threads /\ Closer \in Threads /\ Cleaner # Closer
BY NamesAssumption DEF Threads

(* NewItem is an item that has nothing. *)
LEMMA NewItemState ==
  /\ NewItem \in XState /\ NewItem.fd = None /\ NewItem.info = NoInfo
  /\ ~ NewItem.loaded /\ NewItem.object = 0 /\ ~ NewItem.dls
  /\ NewItem.dlsObject = 0 /\ NewItem.flight = {} /\ ~ NewItem.linked
  /\ NewItem.opens = 0 /\ ~ NewItem.grace /\ ~ NewItem.closing
  /\ NewItem.pending = 0 /\ ~ NewItem.beingReset /\ ~ NewItem.unsaved
<1>1. NoInfo \in Info
  BY InfoValues
<1> QED
  BY <1>1, ZeroVersion DEF NewItem, XState

(* An operation finds the item as it is. *)
LEMMA AtIsHere ==
  ASSUME SInv, NEW i \in Items
  PROVE  At(i) = Here(i)
BY DEF SInv, Owned, At, Here, Unused

LEMMA HereState ==
  ASSUME SInv, NEW i \in Items
  PROVE  /\ Here(i) \in SState
         /\ Here(i).x = it[i] /\ Here(i).meta = meta /\ Here(i).data = data
         /\ Here(i).file = file
         /\ it[i] \in XState
BY DEF SInv, TInv, Here, SState

(* Only the item of the map has a file, and a path to one. *)
LEMMA HereGood ==
  ASSUME SInv, NEW i \in Items, entry \in {i, None}
  PROVE  /\ Good(Here(i))
         /\ \A j \in Items \ {i} : it[j] = NewItem
         /\ it[i].fd = None \/ it[i].loaded
         /\ it[i].loaded \/ it[i].object = 0
<1>1. CASE entry = i
  <2>1. entry # None
    BY <1>1, ItemAssumption
  <2>2. Good(Here(i)) /\ Loaded(it[i], th, meta, data)
    BY <1>1, <2>1 DEF SInv, Phases
  <2>3. it[i].loaded \/ it[i] = NewItem
    BY <2>2 DEF Loaded
  <2> QED
    BY <1>1, <2>2, <2>3, NewItemState DEF SInv, Owned
<1>2. CASE entry = None
  <2>1. it[i] = NewItem /\ meta = None /\ data = None
    BY <1>2, ItemAssumption DEF SInv, Owned
  <2>2. DiskOK(Here(i)) /\ DlsOK(it[i])
    BY <2>1, NewItemState, InfoValues DEF DiskOK, DlsOK, Here
  <2> QED
    BY <1>2, <2>1, <2>2, HereState, NewItemState, ItemAssumption DEF Good, SInv, Owned
<1> QED
  BY <1>1, <1>2

(* A new data file gets an inode nobody uses. *)
LEMMA FreshInode ==
  ASSUME SInv, NEW i \in Items, entry \in {i, None},
         NEW s \in SState, s.data = None
  PROVE  \E n \in Inodes : /\ n # s.data /\ \A j \in Items : it[j].fd # n
                           /\ OpenFile(s) = [s EXCEPT !.x.fd = n, !.data = n, !.file[n] = Holes]
<1> DEFINE P(n) == n # s.data /\ \A j \in Items : it[j].fd # n
<1>1. \E n \in Inodes : P(n)
  <2>1. PICK n \in Inodes : n # it[i].fd
    BY NamesAssumption
  <2>2. \A j \in Items : it[j].fd # n
    BY <2>1, HereGood, NewItemState, ItemAssumption
  <2> QED
    BY <2>2, ItemAssumption
<1>2. PICK n : n = (CHOOSE m \in Inodes : P(m))
  OBVIOUS
<1>3. n \in Inodes /\ P(n)
  BY <1>1, <1>2
<1>4. OpenFile(s) = [s EXCEPT !.x.fd = n, !.data = n, !.file[n] = Holes]
  BY <1>2 DEF OpenFile
<1> QED
  BY <1>3, <1>4

(* os.OpenFile gives the item the file of the path, or an empty new one. *)
LEMMA OpenFileKeeps ==
  ASSUME SInv, NEW i \in Items, entry \in {i, None}, NEW s, Good(s), s.x.loaded,
         s.data = None => s.x.info.rs = {}
  PROVE  LET r == OpenFile(s)
         IN  /\ Keeps(s, r) /\ r.x.fd # None /\ SameControl(r.x, s.x)
             /\ r.x.loaded /\ r.x.info = s.x.info /\ r.x.object = s.x.object
             /\ r.x.dls = s.x.dls /\ r.x.flight = s.x.flight
<1>1. CASE s.data # None
  <2> DEFINE r == [s EXCEPT !.x.fd = s.data]
  <2>1. OpenFile(s) = r
    BY <1>1 DEF OpenFile
  <2>2. /\ r \in SState /\ r.x.fd = s.data /\ r.meta = s.meta /\ r.data = s.data
        /\ r.file = s.file /\ SameControl(r.x, s.x)
        /\ r.x.info = s.x.info /\ r.x.loaded = s.x.loaded
        /\ r.x.object = s.x.object /\ r.x.dls = s.x.dls
        /\ r.x.dlsObject = s.x.dlsObject /\ r.x.flight = s.x.flight
        /\ r.x.linked = s.x.linked
    BY DEF Good, SState, XState, SameControl
  <2> HIDE DEF r
  <2>3. DiskOK(r) /\ DlsOK(r.x) /\ (SoundData(s) => SoundData(r))
    BY <1>1, <2>2 DEF Good, DiskOK, DlsOK, SoundData
  <2> QED
    BY <1>1, <2>1, <2>2, <2>3 DEF Keeps, Good
<1>2. CASE s.data = None
  <2>1. PICK n \in Inodes :
          OpenFile(s) = [s EXCEPT !.x.fd = n, !.data = n, !.file[n] = Holes]
    BY <1>2, FreshInode DEF Good
  <2> DEFINE r == [s EXCEPT !.x.fd = n, !.data = n, !.file[n] = Holes]
  <2>2. /\ r.x.fd = n /\ r.meta = s.meta /\ r.data = n
        /\ r.file = [s.file EXCEPT ![n] = Holes] /\ SameControl(r.x, s.x)
        /\ r.x.info = s.x.info /\ r.x.loaded = s.x.loaded
        /\ r.x.object = s.x.object /\ r.x.dls = s.x.dls
        /\ r.x.dlsObject = s.x.dlsObject /\ r.x.flight = s.x.flight
        /\ r.x.linked = s.x.linked
    BY DEF Good, SState, XState, SameControl
  <2>3. r \in SState
    <3>1. r.x \in XState
      BY DEF Good, SState, XState
    <3>2. Holes \in [Blocks -> 0 .. MaxVersion]
      BY ZeroVersion DEF Holes
    <3>3. s.file \in Files /\ r.file \in Files
      BY <2>2, <3>2 DEF Good, SState, Files
    <3> QED
      BY <3>1, <3>3, <2>2 DEF Good, SState
  <2>4. n # None
    BY ItemAssumption
  <2> HIDE DEF r
  <2>5. DiskOK(r) /\ DlsOK(r.x) /\ SoundData(r)
    BY <1>2, <2>2, <2>4 DEF Good, DiskOK, DlsOK, SoundData
  <2> QED
    BY <2>1, <2>2, <2>3, <2>4, <2>5 DEF Keeps, Good, r
<1> QED
  BY <1>1, <1>2

(* An item that is read into memory and has no file on disk has no ranges. *)
LEMMA NoFileNoRanges ==
  ASSUME NEW s, Good(s), s.x.loaded, s.data = None
  PROVE  s.x.info.rs = {} /\ s.x.fd = None
BY DEF Good, DiskOK

(* openLocked makes the data file usable and keeps the ranges. *)
LEMMA WithFileKeeps ==
  ASSUME SInv, NEW i \in Items, entry \in {i, None}, NEW s, Good(s), s.x.loaded
  PROVE  LET r == WithFile(s)
         IN  /\ Keeps(s, r) /\ r.x.fd # None /\ SameControl(r.x, s.x)
             /\ r.x.loaded /\ r.x.info = s.x.info
             /\ r.x.dls = s.x.dls /\ r.x.flight = s.x.flight
<1>1. CASE s.x.fd # None
  BY <1>1 DEF WithFile, Keeps, SameControl
<1>2. CASE s.x.fd = None
  <2> DEFINE q == [s EXCEPT !.x.info.rs = IF s.data = None THEN {} ELSE @]
  <2>1. q = s
    <3>1. s.x.info \in Info /\ s.x \in XState
      BY DEF Good, SState, XState
    <3>2. (IF s.data = None THEN {} ELSE s.x.info.rs) = s.x.info.rs
      BY NoFileNoRanges
    <3>3. [s.x.info EXCEPT !.rs = s.x.info.rs] = s.x.info
      BY <3>1 DEF Info
    <3>4. [s.x EXCEPT !.info = s.x.info] = s.x
      BY <3>1 DEF XState
    <3>5. [s EXCEPT !.x = s.x] = s
      BY DEF Good, SState
    <3>6. q = [s EXCEPT !.x = [s.x EXCEPT !.info = [s.x.info EXCEPT !.rs = IF s.data = None THEN {} ELSE s.x.info.rs]]]
      BY DEF Good, SState, XState
    <3> QED
      BY <3>2, <3>3, <3>4, <3>5, <3>6
  <2>2. WithFile(s) = OpenFile(s)
    BY <1>2, <2>1 DEF WithFile
  <2> QED
    BY <2>2, OpenFileKeeps, NoFileNoRanges
<1> QED
  BY <1>1, <1>2

(* openLocked up to createDownloadersLocked. *)
LEMMA PreparedKeeps ==
  ASSUME SInv, NEW i \in Items, entry \in {i, None}, NEW s, Good(s), s.x.loaded,
         NEW v \in Versions, s.x.info.rs = {} \/ s.x.info.fp = Fingerprint(v)
  PROVE  LET r == Prepared(s, v)
         IN  /\ Keeps(s, r) /\ r.x.fd # None /\ SameControl(r.x, s.x)
             /\ r.x.loaded /\ r.x.info.rs = s.x.info.rs
             /\ r.x.info.fp = Fingerprint(v)
             /\ r.x.dls /\ r.x.flight = s.x.flight
<1> DEFINE f == WithFile(s)
           g == WithObject(f, v)
           r == createDownloadersLocked(g)
<1>1. /\ Keeps(s, f) /\ f.x.fd # None /\ SameControl(f.x, s.x) /\ f.x.loaded
      /\ f.x.info = s.x.info /\ f.x.dls = s.x.dls /\ f.x.flight = s.x.flight
  BY WithFileKeeps
<1> HIDE DEF f
<1>2. /\ Keeps(f, g) /\ g.x.fd = f.x.fd /\ SameControl(g.x, f.x) /\ g.x.loaded
      /\ g.x.info.rs = f.x.info.rs /\ g.x.info.fp = Fingerprint(v)
      /\ g.x.object = v /\ g.x.flight = f.x.flight
  BY <1>1, ObjectKeeps DEF Keeps
<1> HIDE DEF g
<1>3. /\ Keeps(g, r) /\ r.x.fd = g.x.fd /\ SameControl(r.x, g.x)
      /\ r.x.loaded = g.x.loaded /\ r.x.info = g.x.info
      /\ r.x.dls = (g.x.dls \/ g.x.object # 0) /\ r.x.flight = g.x.flight
  BY <1>2, CreateKeeps DEF Keeps
<1>4. Prepared(s, v) = r
  BY DEF Prepared, r, g, f
<1> HIDE DEF r
<1> QED
  BY <1>1, <1>2, <1>3, <1>4, ZeroVersion DEF Keeps, SameControl

-----------------------------------------------------------------------------
(***************************************************************************)
(* Steps.                                                                  *)
(***************************************************************************)

(* The step leaves the item i and the disk in the state s; of the files it *)
(* need only keep the one that has a name.                                 *)
Leaves(i, s) ==
    /\ it' = [it EXCEPT ![i] = s.x] /\ meta' = s.meta /\ data' = s.data
    /\ file' \in Files /\ (data' # None => file'[data'] = s.file[s.data])

LEMMA PutLeaves ==
  ASSUME NEW i \in Items, NEW s, Good(s), Put(i, s)
  PROVE  Leaves(i, s)
<1>1. s.data \in Inodes \cup {None} /\ s.file \in Files
  BY DEF Good, SState
<1>2. /\ it' = [it EXCEPT ![i] = s.x] /\ meta' = s.meta /\ data' = s.data
      /\ \E used : /\ s.data \in used
                   /\ file' = [n \in Inodes |-> IF n \in used THEN s.file[n] ELSE Holes]
  BY DEF Put
<1>3. Holes \in [Blocks -> 0 .. MaxVersion]
  BY ZeroVersion DEF Holes
<1>4. file' \in Files /\ (data' # None => file'[data'] = s.file[s.data])
  BY <1>1, <1>2, <1>3 DEF Files
<1> QED
  BY <1>2, <1>4 DEF Leaves

(* The new state of the item is as good as s. *)
LEMMA LeavesEffect ==
  ASSUME SInv, NEW i \in Items, entry \in {i, None}, NEW s, Good(s), Leaves(i, s)
  PROVE  /\ it' \in [Items -> XState] /\ it'[i] = s.x
         /\ \A j \in Items \ {i} : it'[j] = NewItem
         /\ meta' = s.meta /\ data' = s.data /\ file' \in Files
         /\ Good(Here(i)')
         /\ SoundData(s) => SoundData(Here(i)')
<1>1. it \in [Items -> XState] /\ \A j \in Items \ {i} : it[j] = NewItem
  BY HereGood DEF SInv, TInv
<1>2. /\ s.x \in XState /\ s.meta \in Info \cup {None}
      /\ s.data \in Inodes \cup {None} /\ s.file \in Files
  BY DEF Good, SState
<1>3. /\ it' = [it EXCEPT ![i] = s.x] /\ meta' = s.meta /\ data' = s.data
      /\ file' \in Files /\ (data' # None => file'[data'] = s.file[s.data])
  BY DEF Leaves
<1>6. it' \in [Items -> XState] /\ it'[i] = s.x /\ \A j \in Items \ {i} : it'[j] = NewItem
  BY <1>1, <1>2, <1>3
<1> DEFINE h == Here(i)'
<1>7. /\ h \in SState /\ h.x = s.x /\ h.meta = s.meta /\ h.data = s.data
      /\ h.file = file'
  BY <1>2, <1>3, <1>6 DEF Here, SState
<1> HIDE DEF h
<1>8. Good(h)
  BY <1>7 DEF Good, DiskOK
<1>9. SoundData(s) => SoundData(h)
  BY <1>3, <1>7 DEF SoundData
<1> QED
  BY <1>3, <1>6, <1>8, <1>9 DEF h

(* The readers and the accesses are counted. *)
LEMMA HereCounts ==
  ASSUME SInv, NEW i \in Items, entry \in {i, None}
  PROVE  Counts(it[i], th)
<1>1. CASE entry = i
  BY <1>1, ItemAssumption DEF SInv, Phases
<1>2. CASE entry = None
  <2>1. it[i] = NewItem
    BY <1>2, ItemAssumption DEF SInv, Owned
  <2>2. \A o \in Openers : th[o].pc = "idle"
    BY <1>2, Names DEF SInv, Owned, Belongs
  <2>3. In(th, OpenPcs) = {} /\ In(th, AccessPcs) = {}
    BY <2>2 DEF In, OpenPcs, AccessPcs
  <2> QED
    BY <2>1, <2>3, NewItemState, FS_EmptySet DEF Counts
<1> QED
  BY <1>1, <1>2

One(b) == IF b THEN 1 ELSE 0

(* An opener that moves is counted in or out. *)
LEMMA CountStep ==
  ASSUME NEW f \in [Threads -> ThreadState], NEW o \in Openers,
         NEW rec \in ThreadState, NEW P
  PROVE  /\ Cardinality(In(f, P)) \in Nat
         /\ Cardinality(In([f EXCEPT ![o] = rec], P))
              = Cardinality(In(f, P)) + One(rec.pc \in P) - One(f[o].pc \in P)
<1> DEFINE g == [f EXCEPT ![o] = rec]
           S == In(f, P)
           R == In(g, P)
<1>1. g[o] = rec /\ \A p \in Openers : p # o => g[p] = f[p]
  BY Names
<1>2. IsFiniteSet(S) /\ IsFiniteSet(R)
  BY NamesAssumption, FS_Subset DEF In
<1>3. Cardinality(S) \in Nat /\ Cardinality(R) \in Nat
  BY <1>2, FS_CardinalityType
<1>4. (o \in S <=> f[o].pc \in P) /\ (o \in R <=> rec.pc \in P)
  BY <1>1 DEF In
<1>5. S \ {o} = R \ {o}
  BY <1>1 DEF In
<1> HIDE DEF S, R, g
<1>6. Cardinality(R) = Cardinality(R \ {o}) + One(o \in R)
  <2>1. CASE o \in R
    <3>1. Cardinality(R \ {o}) = Cardinality(R) - 1
      BY <1>2, <2>1, FS_RemoveElement
    <3> QED
      BY <1>3, <2>1, <3>1 DEF One
  <2>2. CASE o \notin R
    <3>1. R \ {o} = R
      BY <2>2
    <3> QED
      BY <1>3, <3>1, <2>2 DEF One
  <2> QED
    BY <2>1, <2>2
<1>7. Cardinality(S) = Cardinality(S \ {o}) + One(o \in S)
  <2>1. CASE o \in S
    <3>1. Cardinality(S \ {o}) = Cardinality(S) - 1
      BY <1>2, <2>1, FS_RemoveElement
    <3> QED
      BY <1>3, <2>1, <3>1 DEF One
  <2>2. CASE o \notin S
    <3>1. S \ {o} = S
      BY <2>2
    <3> QED
      BY <1>3, <3>1, <2>2 DEF One
  <2> QED
    BY <2>1, <2>2
<1>8. Cardinality(S \ {o}) \in Nat
  BY <1>2, FS_Subset, FS_CardinalityType
<1>9. Cardinality(R) = Cardinality(S) + One(rec.pc \in P) - One(f[o].pc \in P)
  <2>1. /\ One(o \in R) = One(rec.pc \in P) /\ One(o \in S) = One(f[o].pc \in P)
        /\ One(rec.pc \in P) \in Nat /\ One(f[o].pc \in P) \in Nat
    BY <1>4 DEF One
  <2>2. Cardinality(S \ {o}) = Cardinality(R \ {o})
    BY <1>5
  <2> QED
    BY <1>3, <1>6, <1>7, <1>8, <2>1, <2>2
<1> QED
  BY <1>3, <1>9 DEF S, R, g

(* Nobody is counted: nobody is there. *)
LEMMA CountZero ==
  ASSUME NEW f, NEW P, NEW o \in Openers
  PROVE  /\ Cardinality(In(f, P)) \in Nat
         /\ f[o].pc \in P => Cardinality(In(f, P)) > 0
         /\ Cardinality(In(f, P)) <= Cardinality(Openers)
<1>1. IsFiniteSet(Openers) /\ In(f, P) \subseteq Openers
  BY NamesAssumption DEF In
<1>2. /\ IsFiniteSet(In(f, P)) /\ Cardinality(In(f, P)) \in Nat
      /\ Cardinality(In(f, P)) <= Cardinality(Openers)
  BY <1>1, FS_Subset, FS_CardinalityType
<1>3. f[o].pc \in P => In(f, P) # {}
  BY DEF In
<1> QED
  BY <1>2, <1>3, FS_EmptySet

(* A step that leaves the item of the map in the state s. *)
LEMMA ItemStep ==
  ASSUME SInv, NEW i \in Items, entry \in {i, None}, entry' = i,
         NEW s, Good(s), Leaves(i, s),
         th' \in [Threads -> ThreadState], Pcs',
         \A t \in Threads : Belongs(th'[t], i),
         Phases(s.x, th', s.meta, s.data), Shut',
         up' \in {"run", "closing", "closed"},
         UNCHANGED <<origin, restarts, handleCaching>>
  PROVE  /\ SInv'
         /\ SoundData(s) /\ ReadersOK(s.x, th') /\ StreamsOK(s.x, th') => DInv'
<1>1. /\ it' \in [Items -> XState] /\ it'[i] = s.x
      /\ \A j \in Items \ {i} : it'[j] = NewItem
      /\ meta' = s.meta /\ data' = s.data /\ file' \in Files
      /\ Good(Here(i)') /\ (SoundData(s) => SoundData(Here(i)'))
  BY LeavesEffect
<1>2. TInv'
  BY <1>1 DEF SInv, TInv, Good, SState
<1>3. Owned'
  BY <1>1, ItemAssumption DEF Owned
<1>4. Phases(it[entry], th, meta, data)' /\ Good(Here(entry))'
  BY <1>1
<1>5. SoundData(s) /\ ReadersOK(s.x, th') /\ StreamsOK(s.x, th') => DInv'
  BY <1>1 DEF DInv
<1> QED
  BY <1>2, <1>3, <1>4, <1>5 DEF SInv

OpenerPcs == {"idle", "enter", "body", "reset", "open", "ensure", "got", "close"}

(* A step of an opener. *)
LEMMA OpenerStep ==
  ASSUME SInv, NEW o \in Openers, NEW i \in Items, entry \in {i, None}, entry' = i,
         NEW rec \in ThreadState, Step(o, rec), rec.pc \in OpenerPcs, Belongs(rec, i),
         rec.pc \notin {"idle", "close"} => rec.ver \in Versions,
         NEW s, Good(s), Leaves(i, s), s.x.loaded, UNCHANGED env,
         th[Cleaner].pc \notin {"evict", "delete"},
         s.x.closing <=> it[i].closing,
         s.x.opens = it[i].opens + One(rec.pc \in OpenPcs) - One(th[o].pc \in OpenPcs),
         s.x.pending = it[i].pending + One(rec.pc \in AccessPcs)
                                     - One(th[o].pc \in AccessPcs),
         up # "run" => rec.pc \notin {"enter", "body", "reset"},
         Emptying(s.x, th), Grace(s.x), Exclusive(s.x, th')
  PROVE  /\ SInv'
         /\ SoundData(s) /\ ReadersOK(s.x, th') /\ StreamsOK(s.x, th') => DInv'
<1>1. th \in [Threads -> ThreadState] /\ th' = [th EXCEPT ![o] = rec]
  BY DEF SInv, TInv, Step
<1>2. /\ th' \in [Threads -> ThreadState] /\ th'[o] = rec
      /\ \A t \in Threads : t # o => th'[t] = th[t]
  BY <1>1, Names
<1>3. Pcs'
  <2>1. \A j \in Items : it'[j].closing <=> it[j].closing
    BY LeavesEffect, HereGood
  <2> QED
    BY <1>2, <2>1, Names DEF SInv, Pcs, OpenerPcs
<1>4. \A t \in Threads : Belongs(th'[t], i)
  BY <1>2, ItemAssumption DEF SInv, Owned, Belongs
<1>5. Shut'
  BY <1>2, Names DEF SInv, Shut, env
<1>6. Counts(s.x, th')
  <2>1. Cardinality(In(th', OpenPcs)) = Cardinality(In(th, OpenPcs))
            + One(rec.pc \in OpenPcs) - One(th[o].pc \in OpenPcs)
    BY <1>1, CountStep
  <2>2. Cardinality(In(th', AccessPcs)) = Cardinality(In(th, AccessPcs))
            + One(rec.pc \in AccessPcs) - One(th[o].pc \in AccessPcs)
    BY <1>1, CountStep
  <2>3. Counts(it[i], th)
    BY HereCounts
  <2> QED
    BY <2>1, <2>2, <2>3 DEF Counts
<1>7. Loaded(s.x, th', s.meta, s.data) /\ Evicting(s.x, th') /\ Emptying(s.x, th')
  BY <1>2, Names DEF Loaded, Evicting, Emptying
<1>8. Phases(s.x, th', s.meta, s.data)
  BY <1>6, <1>7 DEF Phases
<1>9. up' \in {"run", "closing", "closed"} /\ UNCHANGED <<origin, restarts, handleCaching>>
  BY DEF env, SInv, TInv
<1> QED
  BY <1>2, <1>3, <1>4, <1>5, <1>8, <1>9, ItemStep

-----------------------------------------------------------------------------
(* The metadata of the key can always be loaded. *)
LEMMA AlwaysLoads ==
  ASSUME SInv, NEW i \in Items, entry \in {i, None}
  PROVE  \A readable \in BOOLEAN : CanLoad(At(i), readable)
BY AtIsHere, HereState, HereGood DEF CanLoad, Good, DiskOK

(* Who is around when an Open gets hold of the item. *)
LEMMA HoldsFacts ==
  ASSUME SInv, Bounded, NEW o \in Openers, NEW i \in Items, Apart(o, i), NEW v, Holds(o, i, v)
  PROVE  /\ entry \in {i, None}
         /\ th[o].pc \in {"idle", "enter", "body"}
         /\ v \in 0 .. MaxVersion /\ up = "run"
         /\ th[Cleaner].pc \notin {"evict", "delete"}
         /\ th[o].pc # "idle" => entry = i
<1>1. CASE Lookup(o, i, v)
  <2>1. entry \in {i, None}
    BY <1>1 DEF Lookup
  <2>2. v \in 0 .. MaxVersion
    <3>1. v \in 1 .. origin /\ origin \in 1 .. MaxVersion
      BY <1>1 DEF Lookup, SInv, TInv, Versions
    <3> QED
      BY <3>1, ItemAssumption
  <2> QED
    BY <1>1, <2>1, <2>2 DEF Lookup, Apart, Bounded
<1>2. CASE Resumes(o, i, v)
  <2>1. th[o].pc \in {"enter", "body"} /\ i = th[o].item /\ v = th[o].ver
    BY <1>2 DEF Resumes
  <2>2. entry = i /\ entry # None
    BY <2>1, Names DEF SInv, Owned, Belongs
  <2>3. th[o] \in ThreadState
    BY Names DEF SInv, TInv
  <2>4. v \in 0 .. MaxVersion
    BY <2>1, <2>3 DEF ThreadState
  <2>5. up = "run" /\ th[Cleaner].pc \notin {"evict", "delete"}
    BY <2>1, <2>2 DEF SInv, Shut, Phases, Evicting
  <2> QED
    BY <2>1, <2>2, <2>4, <2>5
<1> QED
  BY <1>1, <1>2 DEF Holds

(* The item as an Open finds it. *)
LEMMA EnteredFacts ==
  ASSUME SInv, Bounded, NEW o \in Openers, NEW i \in Items, Apart(o, i), NEW v, Entered(o, i, v)
  PROVE  /\ entry \in {i, None} /\ th[o].pc \in {"idle", "enter", "body"}
         /\ v \in 0 .. MaxVersion /\ up = "run"
         /\ th[Cleaner].pc = "idle" /\ th[Closer].pc = "idle"
         /\ ~ it[i].closing /\ ~ it[i].beingReset
         /\ \A p \in Openers : th[p].pc \notin {"reset", "close"}
         /\ \A t \in Threads \ Openers : th[t].pc = "idle"
<1>1. /\ entry \in {i, None} /\ th[o].pc \in {"idle", "enter", "body"}
      /\ v \in 0 .. MaxVersion /\ up = "run" /\ ~ it[i].closing
      /\ th[Cleaner].pc \notin {"evict", "delete"}
      /\ th[o].pc # "idle" => entry = i
  BY HoldsFacts DEF Entered
<1>2. ~ it[i].beingReset
  <2>1. CASE th[o].pc # "body"
    BY <2>1 DEF Entered
  <2>2. CASE th[o].pc = "body"
    <3>1. entry = i /\ entry # None
      BY <1>1, <2>2, ItemAssumption
    <3>2. it[i].pending = Cardinality(In(th, AccessPcs)) /\ Emptying(it[i], th)
      BY <3>1, HereCounts DEF Counts, SInv, Phases
    <3>3. it[i].pending > 0
      BY <2>2, <3>2, CountZero DEF AccessPcs
    <3> QED
      BY <3>2, <3>3 DEF Emptying
  <2> QED
    BY <2>1, <2>2
<1>3. th[Cleaner].pc # "empty"
  <2>1. CASE entry = None
    BY <2>1, Names DEF SInv, Owned, Belongs
  <2>2. CASE entry # None
    BY <1>1, <1>2, <2>2 DEF SInv, Phases, Emptying
  <2> QED
    BY <2>1, <2>2
<1>4. th[Cleaner].pc = "idle" /\ th[Closer].pc = "idle"
  BY <1>1, <1>3 DEF SInv, Pcs, Shut
<1>5. \A p \in Openers : th[p].pc \notin {"reset", "close"}
  <2> SUFFICES ASSUME NEW p \in Openers, p # o, th[p].pc \in {"reset", "close"}
               PROVE  FALSE
    BY <1>1
  <2>1. th[p].item = i
    BY <1>1, Names DEF SInv, Owned, Belongs
  <2>2. th[p].pc = "close" => "close" \notin Overlap
    BY DEF Bounded
  <2> QED
    BY <2>1, <2>2 DEF Apart, Bounded
<1>6. \A j \in Items : th[j].pc = "idle"
  BY <1>1, HereGood, NewItemState DEF SInv, Pcs
<1> QED
  BY <1>1, <1>2, <1>4, <1>5, <1>6 DEF Threads

(* The item is the one of the map after an Open has looked it up. *)
LEMMA EntryAfterIs ==
  ASSUME SInv, Bounded, NEW o \in Openers, NEW i \in Items, Apart(o, i), NEW v,
         Holds(o, i, v), EntryAfter(o, i)
  PROVE  entry' = i
BY HoldsFacts, ItemAssumption DEF EntryAfter

(* A step of an Open that has the item to itself. *)
LEMMA EnteredStep ==
  ASSUME SInv, Bounded, NEW o \in Openers, NEW i \in Items, Apart(o, i), NEW v \in Versions,
         Entered(o, i, v), EntryAfter(o, i),
         NEW rec \in ThreadState, Step(o, rec), Belongs(rec, i),
         rec.pc \in {"idle", "enter", "reset", "open"}, rec.pc # "idle" => rec.ver = v,
         NEW s, Good(s), Leaves(i, s), UNCHANGED env,
         s.x.loaded, ~ s.x.grace, ~ s.x.closing, ~ s.x.beingReset,
         s.x.opens = it[i].opens + One(rec.pc = "open"),
         s.x.pending = it[i].pending + One(rec.pc = "reset") - One(th[o].pc = "body"),
         rec.pc = "reset" => s.x.opens = 0 /\ ~ s.x.dls
  PROVE  /\ SInv'
         /\ SoundData(s) /\ ReadersOK(s.x, th') /\ StreamsOK(s.x, th') => DInv'
<1>1. /\ entry \in {i, None} /\ th[o].pc \in {"idle", "enter", "body"}
      /\ up = "run" /\ th[Cleaner].pc = "idle" /\ ~ it[i].closing
      /\ \A p \in Openers : th[p].pc \notin {"reset", "close"}
  BY EnteredFacts
<1>2. entry' = i
  BY EntryAfterIs DEF Entered
<1>3. /\ s.x.opens = it[i].opens + One(rec.pc \in OpenPcs) - One(th[o].pc \in OpenPcs)
      /\ s.x.pending = it[i].pending + One(rec.pc \in AccessPcs)
                                     - One(th[o].pc \in AccessPcs)
  <2>1. it[i].opens \in Int /\ it[i].pending \in Int
    BY HereState DEF XState
  <2> QED
    BY <1>1, <2>1 DEF One, OpenPcs, AccessPcs
<1>4. Emptying(s.x, th) /\ Grace(s.x)
  BY <1>1 DEF Emptying, Grace
<1>5. Exclusive(s.x, th')
  <2>1. th'[o] = rec /\ \A p \in Openers : p # o => th'[p] = th[p]
    BY Names DEF SInv, TInv, Step
  <2> QED
    BY <1>1, <2>1 DEF Exclusive
<1>6. rec.pc \in OpenerPcs
  BY DEF OpenerPcs
<1> QED
  BY <1>1, <1>2, <1>3, <1>4, <1>5, <1>6, OpenerStep

(* What openLocked has found when it compares fingerprints. *)
LEMMA BegunFacts ==
  ASSUME SInv, Bounded, NEW o \in Openers, NEW i \in Items, Apart(o, i), NEW v,
         NEW readable \in BOOLEAN, Entered(o, i, v)
  PROVE  LET b == Begun(o, i, readable)
         IN  /\ Keeps(Here(i), b) /\ b.x.loaded
             /\ ~ b.x.grace /\ ~ b.x.closing /\ ~ b.x.beingReset
             /\ b.x.opens = it[i].opens
             /\ b.x.pending = it[i].pending + 1 - One(th[o].pc = "body")
             /\ b.x.dls = it[i].dls /\ b.x.flight = it[i].flight
             /\ it[i].loaded => b.x.info = it[i].info
             /\ ~ it[i].loaded /\ meta = None => b.x.info = FreshInfo
<1> DEFINE h == Here(i)
           q == [h EXCEPT !.x.grace = FALSE,
                   !.x.pending = IF th[o].pc = "body" THEN @ ELSE @ + 1]
           b == loadLocked(q, readable)
<1>1. entry \in {i, None} /\ ~ it[i].closing /\ ~ it[i].beingReset
  BY EnteredFacts
<1>2. h \in SState /\ h.x = it[i] /\ h.meta = meta /\ Good(h)
  BY <1>1, HereState, HereGood
<1>3. it[i].fd = None \/ it[i].loaded
  BY <1>1, HereGood
<1>4. it[i].loaded \/ it[i].object = 0
  BY <1>1, HereGood
<1> HIDE DEF h
<1>5. /\ q \in SState /\ q.meta = h.meta /\ q.data = h.data /\ q.file = h.file
      /\ q.x.fd = h.x.fd /\ q.x.info = h.x.info /\ q.x.loaded = h.x.loaded
      /\ q.x.object = h.x.object /\ q.x.dls = h.x.dls
      /\ q.x.dlsObject = h.x.dlsObject /\ q.x.flight = h.x.flight
      /\ q.x.linked = h.x.linked /\ q.x.unsaved = h.x.unsaved
      /\ q.x.opens = h.x.opens /\ ~ q.x.grace /\ q.x.closing = h.x.closing
      /\ q.x.beingReset = h.x.beingReset
      /\ q.x.pending = h.x.pending + 1 - One(th[o].pc = "body")
  <2> DEFINE n == IF th[o].pc = "body" THEN h.x.pending ELSE h.x.pending + 1
             y == [h.x EXCEPT !.grace = FALSE, !.pending = n]
  <2>1. h.x \in XState /\ n \in Int /\ n = h.x.pending + 1 - One(th[o].pc = "body")
    BY <1>2 DEF SState, XState, One
  <2>2. q = [h EXCEPT !.x = y]
    BY <1>2 DEF SState, XState
  <2> HIDE DEF n
  <2>3. /\ y \in XState
        /\ y.fd = h.x.fd /\ y.info = h.x.info /\ y.loaded = h.x.loaded
        /\ y.object = h.x.object /\ y.dls = h.x.dls
        /\ y.dlsObject = h.x.dlsObject /\ y.flight = h.x.flight
        /\ y.linked = h.x.linked /\ y.unsaved = h.x.unsaved
        /\ y.opens = h.x.opens /\ ~ y.grace /\ y.closing = h.x.closing
        /\ y.beingReset = h.x.beingReset /\ y.pending = n
    BY <2>1 DEF XState
  <2> HIDE DEF y, q
  <2>4. /\ q \in SState /\ q.meta = h.meta /\ q.data = h.data /\ q.file = h.file
        /\ q.x = y
    BY <1>2, <2>2, <2>3 DEF SState
  <2> QED
    BY <2>1, <2>3, <2>4
<1> HIDE DEF q
<1>6. Keeps(h, q)
  BY <1>2, <1>5, ControlKeeps
<1>7. /\ Keeps(q, b) /\ SameControl(b.x, q.x) /\ b.x.loaded
      /\ b.x.dls = q.x.dls /\ b.x.flight = q.x.flight
      /\ q.x.loaded => b = q
      /\ ~ q.x.loaded /\ q.meta = None => b.x.info = FreshInfo
  BY <1>2, <1>3, <1>4, <1>5, <1>6, LoadKeeps DEF Keeps
<1>8. Begun(o, i, readable) = b
  BY AtIsHere DEF Begun, b, q, h
<1> HIDE DEF b
<1> QED
  BY <1>1, <1>2, <1>5, <1>6, <1>7, <1>8 DEF Keeps, SameControl, h

(* The item before the step, in the map or not. *)
LEMMA HereData ==
  ASSUME SInv, DInv, NEW i \in Items, entry \in {i, None}
  PROVE  SoundData(Here(i)) /\ ReadersOK(it[i], th) /\ StreamsOK(it[i], th)
<1>1. CASE entry = i
  BY <1>1, ItemAssumption DEF DInv
<1>2. CASE entry = None
  <2>1. it[i] = NewItem /\ data = None
    BY <1>2, ItemAssumption DEF SInv, Owned
  <2>2. \A t \in Threads : th[t].pc = "idle" /\ th[t].old = {}
    BY <1>2 DEF SInv, Owned, Belongs, IdleThread
  <2> QED
    BY <2>1, <2>2, Names, NewItemState DEF SoundData, Here, ReadersOK, StreamsOK, OpenPcs
<1> QED
  BY <1>1, <1>2

(* The item keeps its version and its ranges, and starts no stream. *)
Follows(y, x) == /\ y.info.fp = x.info.fp /\ x.info.rs \subseteq y.info.rs
                 /\ y.flight \subseteq x.flight

(* A step of an opener that leaves the readers what they rely on. *)
LEMMA OpenerData ==
  ASSUME SInv, DInv, NEW o \in Openers, NEW i \in Items, entry \in {i, None},
         NEW rec, Step(o, rec), NEW y, Follows(y, it[i]),
         rec.pc \in OpenPcs => Sound(rec.ver, y.info.fp),
         rec.pc = "got" => rec.blk \in y.info.rs,
         rec.old \subseteq it[i].flight
  PROVE  ReadersOK(y, th') /\ StreamsOK(y, th')
<1>1. th'[o] = rec /\ \A t \in Threads : t # o => th'[t] = th[t]
  BY Names DEF SInv, TInv, Step
<1>2. ReadersOK(it[i], th) /\ StreamsOK(it[i], th)
  BY HereData
<1>3. ReadersOK(y, th')
  BY <1>1, <1>2, Names DEF ReadersOK, Follows
<1>4. StreamsOK(y, th')
  BY <1>1, <1>2, Names DEF StreamsOK, Follows
<1> QED
  BY <1>3, <1>4

(* An Open that has to wait. *)
LEMMA OpenWaitStep ==
  ASSUME SInv, Bounded, NEW o \in Openers, NEW i \in Items, Apart(o, i), NEW v \in Versions,
         OpenWait(o, i, v)
  PROVE  SInv' /\ (DInv => DInv')
<1>1. /\ entry \in {i, None} /\ th[o].pc \in {"idle", "enter"} /\ up = "run"
      /\ v \in 0 .. MaxVersion
      /\ th[Cleaner].pc \notin {"evict", "delete"} /\ entry' = i
  BY HoldsFacts, EntryAfterIs DEF OpenWait
<1>2. Good(Here(i)) /\ Here(i).x = it[i] /\ it[i].opens \in Int /\ it[i].pending \in Int
  BY <1>1, HereGood, HereState DEF XState
<1>3. entry = i
  <2>1. it[i].beingReset \/ it[i].closing
    BY DEF OpenWait
  <2>2. it[i] # NewItem
    BY <2>1, NewItemState
  <2> QED
    BY <1>1, <2>2 DEF SInv, Owned
<1>4. Phases(it[i], th, meta, data)
  BY <1>3, ItemAssumption DEF SInv
<1>5. it[i].loaded
  BY <1>1, <1>4 DEF Phases, Loaded
<1>6. CASE it[i].beingReset
  <2> DEFINE rec == Opening("enter", i, v)
  <2>1. Step(o, rec) /\ it' = it /\ th[o].pc = "idle" /\ UNCHANGED <<disk, env>>
    BY <1>6 DEF OpenWait
  <2>2. /\ rec \in ThreadState /\ rec.pc = "enter" /\ rec.ver = v /\ rec.old = {} /\ Belongs(rec, i)
    BY <1>1, ItemAssumption DEF Opening, IdleThread, ThreadState, Belongs
  <2>3. Leaves(i, Here(i))
    BY <2>1, <1>2 DEF Leaves, Here, disk, SInv, TInv
  <2>4. Exclusive(it[i], th')
    <3>1. th'[o] = rec /\ \A p \in Openers : p # o => th'[p] = th[p]
      BY <2>1, Names DEF SInv, TInv, Step
    <3> QED
      BY <1>4, <2>2, <3>1 DEF Phases, Exclusive
  <2> HIDE DEF rec
  <2>5. /\ it[i].opens = it[i].opens + One(rec.pc \in OpenPcs) - One(th[o].pc \in OpenPcs)
        /\ it[i].pending = it[i].pending + One(rec.pc \in AccessPcs)
                                         - One(th[o].pc \in AccessPcs)
    BY <1>2, <2>1, <2>2 DEF One, OpenPcs, AccessPcs
  <2>6. Emptying(it[i], th) /\ Grace(it[i]) /\ UNCHANGED env /\ rec.pc \in OpenerPcs
    BY <1>4, <2>1, <2>2 DEF Phases, OpenerPcs
  <2> QED
    <3>1. DInv => SoundData(Here(i)) /\ ReadersOK(it[i], th') /\ StreamsOK(it[i], th')
      BY <1>1, <2>1, <2>2, OpenerData, HereData DEF Follows, OpenPcs
    <3> QED
      BY <1>1, <1>2, <1>5, <2>1, <2>2, <2>3, <2>4, <2>5, <2>6, <3>1, OpenerStep
<1>7. CASE ~ it[i].beingReset
  <2> DEFINE rec == Opening("body", i, v)
             s == [Here(i) EXCEPT !.x.pending = it[i].pending + 1]
  <2>1. /\ Step(o, rec) /\ it' = [it EXCEPT ![i].pending = @ + 1]
        /\ it[i].closing /\ UNCHANGED <<disk, env>>
    BY <1>7 DEF OpenWait
  <2>2. /\ rec \in ThreadState /\ rec.pc = "body" /\ rec.ver = v /\ rec.old = {} /\ Belongs(rec, i)
    BY <1>1, ItemAssumption DEF Opening, IdleThread, ThreadState, Belongs
  <2>3. Leaves(i, s)
    BY <2>1, <1>2 DEF Leaves, Here, disk, SInv, TInv
  <2>4. /\ Good(s) /\ (SoundData(Here(i)) => SoundData(s)) /\ SameCore(s.x, it[i]) /\ s.x.pending = it[i].pending + 1
        /\ s.x.opens = it[i].opens /\ s.x.grace = it[i].grace
        /\ s.x.closing = it[i].closing /\ s.x.beingReset = it[i].beingReset
    <3>1. it[i].pending + 1 \in Int
      BY <1>2
    <3> QED
      BY <1>2, <3>1, SetPending DEF Keeps
  <2> HIDE DEF rec, s
  <2>5. Exclusive(s.x, th')
    <3>1. th'[o] = rec /\ \A p \in Openers : p # o => th'[p] = th[p]
      BY <2>1, Names DEF SInv, TInv, Step
    <3> QED
      BY <1>4, <2>2, <2>4, <3>1 DEF Phases, Exclusive, SameCore
  <2>6. /\ s.x.opens = it[i].opens + One(rec.pc \in OpenPcs) - One(th[o].pc \in OpenPcs)
        /\ s.x.pending = it[i].pending + One(rec.pc \in AccessPcs)
                                         - One(th[o].pc \in AccessPcs)
    BY <1>1, <1>2, <2>2, <2>4 DEF One, OpenPcs, AccessPcs
  <2>7. /\ Emptying(s.x, th) /\ Grace(s.x) /\ UNCHANGED env /\ rec.pc \in OpenerPcs
        /\ s.x.loaded
    BY <1>4, <1>5, <1>7, <2>1, <2>2, <2>4 DEF Phases, OpenerPcs, Emptying, Grace, SameCore
  <2> QED
    <3>1. DInv => SoundData(s) /\ ReadersOK(s.x, th') /\ StreamsOK(s.x, th')
      BY <1>1, <2>1, <2>2, <2>4, OpenerData, HereData DEF Follows, OpenPcs, SameCore
    <3> QED
      BY <1>1, <2>1, <2>2, <2>3, <2>4, <2>5, <2>6, <2>7, <3>1, OpenerStep
<1> QED
  BY <1>6, <1>7

(* Loading the metadata leaves the readers, if any, what they rely on. *)
LEMMA BegunFollows ==
  ASSUME SInv, DInv, Bounded, NEW o \in Openers, NEW i \in Items, Apart(o, i), NEW v,
         NEW readable \in BOOLEAN, Entered(o, i, v)
  PROVE  SoundData(Begun(o, i, readable)) /\ Follows(Begun(o, i, readable).x, it[i])
<1>1. entry \in {i, None} /\ th[Cleaner].pc = "idle"
  BY EnteredFacts
<1>2. /\ SoundData(Here(i)) => SoundData(Begun(o, i, readable))
      /\ Begun(o, i, readable).x.flight = it[i].flight
      /\ it[i].loaded => Begun(o, i, readable).x.info = it[i].info
      /\ ~ it[i].loaded /\ meta = None => Begun(o, i, readable).x.info = FreshInfo
  BY BegunFacts DEF Keeps
<1>3. it[i].loaded \/ (it[i] = NewItem /\ meta = None)
  BY <1>1, ItemAssumption DEF SInv, Owned, Phases, Loaded
<1> QED
  BY <1>1, <1>2, <1>3, HereData, NewItemState, InfoValues DEF Follows

(* Open returns an error. *)
LEMMA OpenRefusedStep ==
  ASSUME SInv, Bounded, NEW o \in Openers, NEW i \in Items, Apart(o, i), NEW v \in Versions,
         NEW readable \in BOOLEAN, OpenRefused(o, i, v, readable)
  PROVE  SInv' /\ (DInv => DInv')
<1> DEFINE b == Begun(o, i, readable)
           s == EndAccess(b)
<1>1. Entered(o, i, v) /\ EntryAfter(o, i) /\ Step(o, IdleThread) /\ UNCHANGED env
  BY DEF OpenRefused
<1>2. entry \in {i, None}
  BY <1>1, EnteredFacts
<1>3. Put(i, s)
  BY <1>2, AlwaysLoads DEF OpenRefused
<1>4. /\ Keeps(Here(i), b) /\ b.x.loaded /\ ~ b.x.grace /\ ~ b.x.closing
      /\ ~ b.x.beingReset /\ b.x.opens = it[i].opens
      /\ b.x.pending = it[i].pending + 1 - One(th[o].pc = "body")
  BY <1>1, BegunFacts
<1>5. DInv => SoundData(b) /\ Follows(b.x, it[i])
  BY <1>1, BegunFollows
<1> HIDE DEF b
<1>6. /\ Keeps(b, s) /\ SameCore(s.x, b.x) /\ s.x.pending = b.x.pending - 1
      /\ s.x.opens = b.x.opens /\ s.x.grace = b.x.grace
      /\ s.x.closing = b.x.closing /\ s.x.beingReset = b.x.beingReset
  BY <1>4, EndAccessKeeps DEF Keeps
<1> HIDE DEF s
<1>7. /\ IdleThread \in ThreadState /\ IdleThread.pc = "idle" /\ IdleThread.old = {}
      /\ Belongs(IdleThread, i)
  BY ZeroVersion DEF IdleThread, ThreadState, Belongs
<1>8. Leaves(i, s)
  BY <1>3, <1>6, PutLeaves DEF Keeps
<1>9. /\ s.x.opens = it[i].opens + One(IdleThread.pc = "open")
      /\ s.x.pending = it[i].pending + One(IdleThread.pc = "reset") - One(th[o].pc = "body")
  <2>1. it[i].opens \in Int /\ it[i].pending \in Int
    BY HereState DEF SInv, XState
  <2> QED
    BY <1>4, <1>6, <1>7, <2>1 DEF One
<1>10. DInv => SoundData(s) /\ ReadersOK(s.x, th') /\ StreamsOK(s.x, th')
  BY <1>1, <1>2, <1>5, <1>6, <1>7, OpenerData DEF Keeps, SameCore, Follows, OpenPcs
<1>11. Good(s) /\ s.x.loaded /\ ~ s.x.grace /\ ~ s.x.closing /\ ~ s.x.beingReset
  BY <1>4, <1>6 DEF Keeps, SameCore
<1> QED
  BY <1>1, <1>7, <1>8, <1>9, <1>10, <1>11, EnteredStep

(* An Open that has to close a scheduler before it can reset the item. *)
LEMMA OpenResetStep ==
  ASSUME SInv, Bounded, NEW o \in Openers, NEW i \in Items, Apart(o, i), NEW v \in Versions,
         NEW readable \in BOOLEAN, OpenReset(o, i, v, readable)
  PROVE  SInv' /\ (DInv => DInv')
<1> DEFINE b == Begun(o, i, readable)
           s == DetachDls(b)
           rec == [Opening("reset", i, v) EXCEPT !.old = it[i].flight]
<1>1. /\ Entered(o, i, v) /\ EntryAfter(o, i) /\ Step(o, rec) /\ UNCHANGED env
      /\ Put(i, s) /\ b.x.opens = 0
  BY DEF OpenReset, NeedsReset
<1>2. entry \in {i, None} /\ v \in 0 .. MaxVersion
  BY <1>1, EnteredFacts
<1>4. /\ Keeps(Here(i), b) /\ b.x.loaded /\ ~ b.x.grace /\ ~ b.x.closing
      /\ ~ b.x.beingReset /\ b.x.opens = it[i].opens
      /\ b.x.pending = it[i].pending + 1 - One(th[o].pc = "body")
  BY <1>1, BegunFacts
<1>5. DInv => SoundData(b) /\ Follows(b.x, it[i])
  BY <1>1, BegunFollows
<1>6. /\ rec \in ThreadState /\ rec.pc = "reset" /\ rec.old = it[i].flight
      /\ rec.ver = v /\ Belongs(rec, i)
  <2>1. it[i].flight \subseteq Versions
    BY HereState DEF XState
  <2> QED
    BY <1>2, <2>1, ItemAssumption
    DEF Opening, IdleThread, ThreadState, Belongs, ClosePcs
<1> HIDE DEF b, rec
<1>7. /\ Keeps(b, s) /\ SameControl(s.x, b.x) /\ s.x.loaded = b.x.loaded
      /\ ~ s.x.dls /\ s.x.flight = {} /\ s.x.info = b.x.info
  BY <1>4, DetachKeeps DEF Keeps
<1> HIDE DEF s
<1>8. Leaves(i, s)
  BY <1>1, <1>7, PutLeaves DEF Keeps
<1>9. /\ s.x.opens = it[i].opens + One(rec.pc = "open")
      /\ s.x.pending = it[i].pending + One(rec.pc = "reset") - One(th[o].pc = "body")
  <2>1. it[i].opens \in Int /\ it[i].pending \in Int
    BY HereState DEF SInv, XState
  <2> QED
    BY <1>4, <1>6, <1>7, <2>1 DEF One, SameControl
<1>10. DInv => SoundData(s) /\ ReadersOK(s.x, th') /\ StreamsOK(s.x, th')
  BY <1>1, <1>2, <1>5, <1>6, <1>7, OpenerData DEF Keeps, Follows, OpenPcs
<1>11. /\ Good(s) /\ s.x.loaded /\ ~ s.x.grace /\ ~ s.x.closing /\ ~ s.x.beingReset
       /\ s.x.opens = 0
  BY <1>1, <1>4, <1>7 DEF Keeps, SameControl
<1> QED
  BY <1>1, <1>6, <1>7, <1>8, <1>9, <1>10, <1>11, EnteredStep

(* The state in which a successful or a failed Open leaves the item. *)
LEMMA FinishStates ==
  ASSUME SInv, NEW i \in Items, entry \in {i, None}, NEW s, Good(s), s.x.loaded,
         NEW v \in Versions, s.x.info.rs = {} \/ s.x.info.fp = Fingerprint(v)
  PROVE  LET p == EndAccess(Prepared(s, v))
             q == saveLocked([p EXCEPT !.x.opens = @ + 1])
         IN  /\ Keeps(s, p) /\ p.x.loaded /\ p.x.flight = s.x.flight
             /\ p.x.info.rs = s.x.info.rs /\ p.x.info.fp = Fingerprint(v)
             /\ p.x.pending = s.x.pending - 1 /\ p.x.opens = s.x.opens
             /\ p.x.grace = s.x.grace /\ p.x.closing = s.x.closing
             /\ p.x.beingReset = s.x.beingReset
             /\ Keeps(s, q) /\ SameCore(q.x, p.x)
             /\ q.x.pending = p.x.pending /\ q.x.opens = p.x.opens + 1
             /\ q.x.grace = p.x.grace /\ q.x.closing = p.x.closing
             /\ q.x.beingReset = p.x.beingReset
             /\ p.x.fd # None
<1> DEFINE r == Prepared(s, v)
           p == EndAccess(r)
           m == [p EXCEPT !.x.opens = @ + 1]
           q == saveLocked(m)
<1>1. /\ Keeps(s, r) /\ r.x.fd # None /\ SameControl(r.x, s.x)
      /\ r.x.loaded /\ r.x.info.rs = s.x.info.rs
      /\ r.x.info.fp = Fingerprint(v) /\ r.x.flight = s.x.flight
  BY PreparedKeeps
<1> HIDE DEF r
<1>2. /\ Keeps(r, p) /\ SameCore(p.x, r.x) /\ p.x.pending = r.x.pending - 1
      /\ p.x.opens = r.x.opens /\ p.x.grace = r.x.grace
      /\ p.x.closing = r.x.closing /\ p.x.beingReset = r.x.beingReset
  BY <1>1, EndAccessKeeps DEF Keeps
<1> HIDE DEF p
<1>3. p.x.opens + 1 \in Int /\ m = [p EXCEPT !.x.opens = p.x.opens + 1]
  BY <1>2 DEF Keeps, Good, SState, XState
<1> HIDE DEF m
<1>4. /\ Keeps(p, m) /\ SameCore(m.x, p.x) /\ m.x.opens = p.x.opens + 1
      /\ m.x.pending = p.x.pending /\ m.x.grace = p.x.grace
      /\ m.x.closing = p.x.closing /\ m.x.beingReset = p.x.beingReset
  BY <1>2, <1>3, SetOpens DEF Keeps
<1>5. Keeps(m, q) /\ q.x = m.x
  BY <1>1, <1>2, <1>4, SaveKeeps DEF Keeps, SameCore
<1> HIDE DEF q
<1>6. /\ Keeps(s, p) /\ p.x.loaded /\ p.x.flight = s.x.flight
      /\ p.x.info.rs = s.x.info.rs /\ p.x.info.fp = Fingerprint(v)
      /\ p.x.pending = s.x.pending - 1 /\ p.x.opens = s.x.opens
      /\ p.x.grace = s.x.grace /\ p.x.closing = s.x.closing
      /\ p.x.beingReset = s.x.beingReset /\ p.x.fd # None
  BY <1>1, <1>2 DEF Keeps, SameControl, SameCore
<1>7. /\ Keeps(s, q) /\ SameCore(q.x, p.x)
      /\ q.x.pending = p.x.pending /\ q.x.opens = p.x.opens + 1
      /\ q.x.grace = p.x.grace /\ q.x.closing = p.x.closing
      /\ q.x.beingReset = p.x.beingReset
  BY <1>4, <1>5, <1>6 DEF Keeps
<1> QED
  BY <1>6, <1>7 DEF q, m, p, r

(* The end of an Open, from the state s that its reset, if any, has left. *)
LEMMA FinishStep ==
  ASSUME SInv, NEW o \in Openers, NEW i \in Items, NEW v \in Versions,
         entry \in {i, None}, th[o].pc = "idle" \/ entry = i,
         th[o].pc \in {"idle", "enter", "body", "reset"},
         up = "run", th[Cleaner].pc = "idle", ~ it[i].closing,
         \A p \in Openers \ {o} : th[p].pc \notin {"reset", "close"},
         NEW s, Good(s), s.x.loaded, ~ s.x.grace, ~ s.x.closing, ~ s.x.beingReset,
         s.x.opens = it[i].opens,
         s.x.pending = it[i].pending + 1 - One(th[o].pc \in AccessPcs),
         s.x.info.rs = {} \/ s.x.info.fp = Fingerprint(v),
         Finish(o, i, v, s),
         DInv => /\ SoundData(s)
                 /\ it[i].opens > 0 => /\ s.x.info.fp = it[i].info.fp
                                       /\ s.x.info.fp = Fingerprint(v)
                                       /\ it[i].info.rs \subseteq s.x.info.rs
                 /\ s.x.flight \subseteq {v}
                 /\ \A t \in Threads \ {o} : th[t].old \subseteq {v}
  PROVE  SInv' /\ (DInv => DInv')
<1> DEFINE p == EndAccess(Prepared(s, v))
           q == saveLocked([p EXCEPT !.x.opens = @ + 1])
<1>1. /\ Keeps(s, p) /\ p.x.loaded /\ p.x.flight = s.x.flight
      /\ p.x.info.rs = s.x.info.rs /\ p.x.info.fp = Fingerprint(v)
      /\ p.x.pending = s.x.pending - 1 /\ p.x.opens = s.x.opens
      /\ p.x.grace = s.x.grace /\ p.x.closing = s.x.closing
      /\ p.x.beingReset = s.x.beingReset
  BY FinishStates
<1>2. /\ Keeps(s, q) /\ SameCore(q.x, p.x)
      /\ q.x.pending = p.x.pending /\ q.x.opens = p.x.opens + 1
      /\ q.x.grace = p.x.grace /\ q.x.closing = p.x.closing
      /\ q.x.beingReset = p.x.beingReset
  BY FinishStates
<1>3. /\ \/ Put(i, q) /\ Step(o, Opening("open", i, v))
         \/ Put(i, p) /\ Step(o, IdleThread)
         \/ Put(i, p) /\ Step(o, Opening("enter", i, v))
      /\ EntryAfter(o, i) /\ UNCHANGED env
  BY DEF Finish
<1> HIDE DEF p, q
<1>4. entry' = i
  BY <1>3, ItemAssumption DEF EntryAfter
<1>5. it[i].opens \in Int /\ it[i].pending \in Int /\ it[i].opens = Cardinality(In(th, OpenPcs))
  BY HereState, HereCounts DEF Counts, XState
<1>6. \A r \in Openers : th[r].pc \in OpenPcs => it[i].opens > 0
  BY <1>5, CountZero
<1>7. ASSUME NEW rec, Step(o, rec), rec \in ThreadState, Belongs(rec, i),
             rec.pc \in {"idle", "enter", "open"}, rec.pc # "idle" => rec.ver = v,
             NEW r, Keeps(s, r), Leaves(i, r), r.x.loaded,
             ~ r.x.grace, ~ r.x.closing, ~ r.x.beingReset,
             r.x.flight = s.x.flight, r.x.info.rs = s.x.info.rs,
             r.x.info.fp = Fingerprint(v),
             r.x.pending = it[i].pending - One(th[o].pc \in AccessPcs),
             r.x.opens = it[i].opens + One(rec.pc = "open")
      PROVE  SInv' /\ (DInv => DInv')
  <2>1. th'[o] = rec /\ \A t \in Threads : t # o => th'[t] = th[t]
    BY <1>7, Names DEF SInv, TInv, Step
  <2>2. Exclusive(r.x, th')
    BY <1>7, <2>1, Names DEF Exclusive
  <2>3. Emptying(r.x, th) /\ Grace(r.x) /\ rec.pc \in OpenerPcs
    BY <1>7 DEF Emptying, Grace, OpenerPcs
  <2>4. /\ r.x.opens = it[i].opens + One(rec.pc \in OpenPcs) - One(th[o].pc \in OpenPcs)
        /\ r.x.pending = it[i].pending + One(rec.pc \in AccessPcs)
                                       - One(th[o].pc \in AccessPcs)
    BY <1>5, <1>7 DEF One, OpenPcs, AccessPcs
  <2>5. rec.old = {}
    BY <1>7 DEF Belongs, ClosePcs, IdleThread
  <2>6. Sound(v, Fingerprint(v))
    BY ZeroVersion DEF Sound
  <2>7. DInv => SoundData(r) /\ ReadersOK(r.x, th') /\ StreamsOK(r.x, th')
    <3> SUFFICES ASSUME DInv
                 PROVE  SoundData(r) /\ ReadersOK(r.x, th') /\ StreamsOK(r.x, th')
      OBVIOUS
    <3>1. ReadersOK(it[i], th)
      BY HereData
    <3>2. ASSUME NEW t \in Openers, t # o, th[t].pc \in OpenPcs
          PROVE  /\ Sound(th[t].ver, r.x.info.fp)
                 /\ th[t].pc = "got" => th[t].blk \in r.x.info.rs
      BY <1>6, <1>7, <3>1, <3>2 DEF ReadersOK
    <3>3. ReadersOK(r.x, th')
      BY <1>7, <2>1, <2>6, <3>2, Names DEF ReadersOK, OpenPcs
    <3>4. StreamsOK(r.x, th')
      BY <1>7, <2>1, <2>5, <2>6 DEF StreamsOK
    <3> QED
      BY <1>7, <3>3, <3>4 DEF Keeps
  <2>8. /\ Good(r) /\ (r.x.closing <=> it[i].closing) /\ UNCHANGED env
        /\ rec.pc \notin {"idle", "close"} => rec.ver \in Versions
        /\ up # "run" => rec.pc \notin {"enter", "body", "reset"}
        /\ th[Cleaner].pc \notin {"evict", "delete"}
    BY <1>3, <1>7 DEF Keeps
  <2>9. SInv' /\ (SoundData(r) /\ ReadersOK(r.x, th') /\ StreamsOK(r.x, th') => DInv')
    BY <1>4, <1>7, <2>2, <2>3, <2>4, <2>8, OpenerStep
  <2> QED
    BY <2>7, <2>9
<1>8. /\ v \in 0 .. MaxVersion /\ i # None
      /\ IdleThread \in ThreadState /\ IdleThread.pc = "idle" /\ Belongs(IdleThread, i)
  BY ZeroVersion, ItemAssumption DEF IdleThread, ThreadState, Belongs
<1>9. ASSUME NEW pc \in {"enter", "open"}
      PROVE  /\ Opening(pc, i, v) \in ThreadState /\ Belongs(Opening(pc, i, v), i)
             /\ Opening(pc, i, v).pc = pc /\ Opening(pc, i, v).ver = v
  BY <1>8 DEF Opening, IdleThread, ThreadState, Belongs, ClosePcs
<1>10. CASE Put(i, q) /\ Step(o, Opening("open", i, v))
  <2>1. Leaves(i, q)
    BY <1>2, <1>10, PutLeaves DEF Keeps
  <2>2. /\ q.x.pending = it[i].pending - One(th[o].pc \in AccessPcs)
        /\ q.x.opens = it[i].opens + One(Opening("open", i, v).pc = "open")
    BY <1>1, <1>2, <1>5, <1>9 DEF One
  <2>3. /\ q.x.loaded /\ ~ q.x.grace /\ ~ q.x.closing /\ ~ q.x.beingReset
        /\ q.x.flight = s.x.flight /\ q.x.info.rs = s.x.info.rs
        /\ q.x.info.fp = Fingerprint(v)
    BY <1>1, <1>2 DEF SameCore
  <2>4. /\ Opening("open", i, v) \in ThreadState /\ Belongs(Opening("open", i, v), i)
        /\ Opening("open", i, v).pc = "open" /\ Opening("open", i, v).ver = v
    BY <1>9
  <2> QED
    BY <1>2, <1>7, <1>10, <2>1, <2>2, <2>3, <2>4
<1>11. CASE Put(i, p) /\ Step(o, IdleThread)
  <2>1. Leaves(i, p)
    BY <1>1, <1>11, PutLeaves DEF Keeps
  <2>2. /\ p.x.pending = it[i].pending - One(th[o].pc \in AccessPcs)
        /\ p.x.opens = it[i].opens + One(IdleThread.pc = "open")
    BY <1>1, <1>5, <1>8 DEF One
  <2> QED
    BY <1>1, <1>7, <1>8, <1>11, <2>1, <2>2
<1>12. CASE Put(i, p) /\ Step(o, Opening("enter", i, v))
  <2>1. Leaves(i, p)
    BY <1>1, <1>12, PutLeaves DEF Keeps
  <2>2. /\ p.x.pending = it[i].pending - One(th[o].pc \in AccessPcs)
        /\ p.x.opens = it[i].opens + One(Opening("enter", i, v).pc = "open")
    BY <1>1, <1>5, <1>9 DEF One
  <2> QED
    BY <1>1, <1>7, <1>9, <1>12, <2>1, <2>2
<1> QED
  BY <1>3, <1>10, <1>11, <1>12

(* The end of an Open that had no scheduler to close first. *)
LEMMA OpenDoneStep ==
  ASSUME SInv, Bounded, NEW o \in Openers, NEW i \in Items, Apart(o, i), NEW v \in Versions,
         NEW readable \in BOOLEAN, OpenDone(o, i, v, readable),
         Settled(o, i, v, readable)
  PROVE  SInv' /\ (DInv => DInv')
<1> DEFINE b == Begun(o, i, readable)
           s == IF NeedsReset(b, v) THEN resetLocked(b) ELSE b
<1>1. Entered(o, i, v) /\ ~ Changed(b, v) /\ Finish(o, i, v, s)
  BY DEF OpenDone
<1>2. /\ NeedsReset(b, v) => ~ b.x.dls
      /\ ~ NeedsReset(b, v) => InFlight(i) \subseteq {v}
  BY DEF OpenDone, Settled, Bounded
<1>3. /\ entry \in {i, None} /\ th[o].pc \in {"idle", "enter", "body"}
      /\ up = "run" /\ th[Cleaner].pc = "idle" /\ ~ it[i].closing
      /\ \A p \in Openers : th[p].pc \notin {"reset", "close"}
      /\ \A t \in Threads \ Openers : th[t].pc = "idle"
  BY <1>1, EnteredFacts
<1>4. th[o].pc = "idle" \/ entry = i
  BY <1>1, HoldsFacts DEF Entered
<1>5. /\ Keeps(Here(i), b) /\ b.x.loaded /\ ~ b.x.grace /\ ~ b.x.closing
      /\ ~ b.x.beingReset /\ b.x.opens = it[i].opens
      /\ b.x.pending = it[i].pending + 1 - One(th[o].pc = "body")
      /\ b.x.flight = it[i].flight /\ b.x.dls = it[i].dls
  BY <1>1, BegunFacts
<1>6. DInv => SoundData(b) /\ Follows(b.x, it[i])
  BY <1>1, BegunFollows
<1>7. \A t \in Threads : th[t].old = {}
  BY <1>3 DEF SInv, Owned, Belongs, ClosePcs, IdleThread, SInv, Pcs
<1>8. b.x.pending = it[i].pending + 1 - One(th[o].pc \in AccessPcs)
  BY <1>3, <1>5 DEF One, AccessPcs
<1> HIDE DEF b
<1>9. CASE NeedsReset(b, v)
  <2> DEFINE r == resetLocked(b)
  <2>1. b.x.opens = 0 /\ ~ b.x.dls /\ s = r
    BY <1>2, <1>9 DEF NeedsReset
  <2>2. /\ Keeps(b, r) /\ SameControl(r.x, b.x) /\ r.x.loaded
        /\ r.x.flight = {} /\ r.x.info.rs = {}
    BY <1>5, <2>1, ResetKeeps DEF Keeps
  <2>3. Finish(o, i, v, r)
    BY <1>1, <2>1
  <2> HIDE DEF r, s
  <2>4. /\ Good(r) /\ ~ r.x.grace /\ ~ r.x.closing /\ ~ r.x.beingReset
        /\ r.x.opens = it[i].opens /\ ~ (it[i].opens > 0)
        /\ r.x.pending = it[i].pending + 1 - One(th[o].pc \in AccessPcs)
    BY <1>5, <1>8, <2>1, <2>2 DEF Keeps, SameControl
  <2>5. DInv => SoundData(r)
    BY <1>6, <2>2 DEF Keeps
  <2> QED
    BY <1>3, <1>4, <1>7, <2>2, <2>3, <2>4, <2>5, FinishStep
<1>10. CASE ~ NeedsReset(b, v)
  <2>1. s = b /\ b.x.flight \subseteq {v}
    BY <1>2, <1>5, <1>10 DEF InFlight
  <2>2. Good(b)
    BY <1>5 DEF Keeps
  <2>3. /\ b.x.info.rs = {} \/ b.x.info.fp = Fingerprint(v)
        /\ b.x.opens > 0 => b.x.info.fp = Fingerprint(v)
    <3>1. b.x.opens = 0 \/ b.x.opens > 0
      <4>1. Cardinality(In(th, OpenPcs)) \in Nat
        BY CountZero
      <4>2. b.x.opens = Cardinality(In(th, OpenPcs))
        BY <1>3, <1>5, HereCounts DEF Counts
      <4> QED
        BY <4>1, <4>2
    <3> QED
      BY <1>1, <1>10, <3>1 DEF NeedsReset, Changed
  <2>4. Finish(o, i, v, b)
    BY <1>1, <2>1
  <2>5. DInv => /\ SoundData(b)
                /\ it[i].opens > 0 => /\ b.x.info.fp = it[i].info.fp
                                      /\ b.x.info.fp = Fingerprint(v)
                                      /\ it[i].info.rs \subseteq b.x.info.rs
    BY <1>5, <1>6, <2>3 DEF Follows
  <2> HIDE DEF s
  <2> QED
    BY <1>3, <1>4, <1>5, <1>7, <1>8, <2>1, <2>2, <2>3, <2>4, <2>5, FinishStep
<1> QED
  BY <1>9, <1>10

(* The end of an Open that had. *)
LEMMA OpenAfterResetStep ==
  ASSUME SInv, NEW o \in Openers, OpenAfterReset(o)
  PROVE  SInv' /\ (DInv => DInv')
<1> DEFINE i == th[o].item
           v == th[o].ver
           r == resetLocked(Here(i))
<1>1. th[o].pc = "reset"
  BY DEF OpenAfterReset
<1>2. entry # None /\ i = entry /\ i \in Items
  BY <1>1, Names DEF SInv, TInv, Owned, Belongs
<1>3. v \in Versions /\ up = "run"
  BY <1>1 DEF SInv, Pcs, Shut
<1>4. Phases(it[i], th, meta, data) /\ Good(Here(i)) /\ Here(i).x = it[i]
  BY <1>2, HereState DEF SInv
<1>5. /\ it[i].opens = 0 /\ ~ it[i].grace /\ ~ it[i].closing /\ ~ it[i].dls
      /\ \A p \in Openers \ {o} : th[p].pc \notin {"reset", "close"}
  BY <1>1, <1>4 DEF Phases, Exclusive
<1>6. /\ ~ it[i].beingReset /\ th[Cleaner].pc = "idle" /\ it[i].loaded
  <2>1. ~ it[i].beingReset /\ th[Cleaner].pc \notin {"empty", "evict", "delete"}
    BY <1>1, <1>4, <1>5 DEF Phases, Emptying, Evicting
  <2> QED
    BY <1>4, <2>1 DEF Phases, Loaded, SInv, Pcs
<1>7. /\ Keeps(Here(i), r) /\ SameControl(r.x, it[i]) /\ r.x.loaded
      /\ r.x.flight = {} /\ r.x.info.rs = {}
  BY <1>4, <1>5, <1>6, ResetKeeps
<1>8. Finish(o, i, v, r)
  BY <1>2, AtIsHere DEF OpenAfterReset
<1>9. \A t \in Threads \ {o} : th[t].old = {}
  <2>1. th[Closer].pc = "idle" /\ \A j \in Items : th[j].pc = "idle"
    BY <1>2, <1>3, <1>5, HereGood, NewItemState DEF SInv, Pcs, Shut
  <2> QED
    BY <1>5, <1>6, <2>1 DEF SInv, Owned, Belongs, ClosePcs, IdleThread, Pcs, Threads
<1>10. r.x.pending = it[i].pending + 1 - One(th[o].pc \in AccessPcs)
  <2>1. it[i].pending \in Int
    BY <1>2, HereState DEF XState
  <2> QED
    BY <1>1, <1>7, <2>1 DEF One, AccessPcs, SameControl
<1>11. DInv => SoundData(r)
  BY <1>2, <1>7, HereData DEF Keeps
<1> HIDE DEF r
<1>12. /\ Good(r) /\ ~ r.x.grace /\ ~ r.x.closing /\ ~ r.x.beingReset
       /\ r.x.opens = it[i].opens /\ ~ (it[i].opens > 0)
  BY <1>5, <1>6, <1>7 DEF Keeps, SameControl
<1> HIDE DEF i, v
<1> QED
  BY <1>1, <1>2, <1>3, <1>5, <1>6, <1>7, <1>8, <1>9, <1>10, <1>11, <1>12, FinishStep

-----------------------------------------------------------------------------
(* The item of a request that is past its Open. *)
LEMMA OpenerAt ==
  ASSUME SInv, NEW o \in Openers, th[o].pc # "idle"
  PROVE  LET i == th[o].item
         IN  /\ i \in Items /\ entry = i /\ entry # None
             /\ th[Cleaner].pc \notin {"evict", "delete"}
             /\ it[i] \in XState /\ it[i].loaded /\ Phases(it[i], th, meta, data)
             /\ it[i].opens \in Int /\ it[i].pending \in Int
             /\ Good(Here(i)) /\ At(i) = Here(i)
             /\ Here(i).x = it[i] /\ th[o] \in ThreadState
<1> DEFINE i == th[o].item
<1>1. i \in Items /\ entry = i /\ entry # None /\ th[o] \in ThreadState
  BY Names DEF SInv, TInv, Owned, Belongs
<1>2. /\ Phases(it[i], th, meta, data) /\ Good(Here(i)) /\ Here(i).x = it[i]
      /\ it[i] \in XState /\ At(i) = Here(i)
  BY <1>1, HereState, AtIsHere DEF SInv
<1>3. th[Cleaner].pc \notin {"evict", "delete"}
  BY <1>2 DEF Phases, Evicting
<1>4. it[i].loaded
  BY <1>2, <1>3 DEF Phases, Loaded
<1>5. it[i].opens \in Int /\ it[i].pending \in Int
  BY <1>2 DEF XState
<1> QED
  BY <1>1, <1>2, <1>3, <1>4, <1>5

(* A read finds its range in the cache, or asks the scheduler for it. *)
LEMMA ReadBeginStep ==
  ASSUME SInv, NEW o \in Openers, NEW blk \in Blocks, ReadBegin(o, blk)
  PROVE  SInv' /\ (DInv => DInv')
<1> DEFINE i == th[o].item
           h == Here(i)
           c == IF blk \in it[i].info.rs THEN h ELSE createDownloadersLocked(h)
           s == [c EXCEPT !.x.pending = @ + 1]
           rec == [th[o] EXCEPT !.blk = blk,
                     !.pc = IF blk \in it[i].info.rs THEN "got" ELSE "ensure"]
<1>1. /\ i \in Items /\ entry = i /\ entry # None
      /\ th[Cleaner].pc \notin {"evict", "delete"}
      /\ it[i].loaded /\ Phases(it[i], th, meta, data)
      /\ it[i].opens \in Int /\ it[i].pending \in Int
      /\ Good(h) /\ At(i) = h /\ h.x = it[i] /\ th[o] \in ThreadState
  BY OpenerAt DEF ReadBegin
<1>2. /\ th[o].pc = "open" /\ ~ it[i].beingReset /\ Put(i, s) /\ Step(o, rec)
      /\ UNCHANGED <<entry, env>>
  BY <1>1 DEF ReadBegin
<1>3. /\ rec \in ThreadState /\ rec.pc \in {"ensure", "got"} /\ rec.ver = th[o].ver
      /\ rec.item = i /\ rec.old = th[o].old /\ rec.blk = blk
      /\ rec.pc = "got" => blk \in it[i].info.rs
  BY <1>1 DEF ThreadState
<1>4. rec.old = {} /\ Belongs(rec, i)
  BY <1>1, <1>2, <1>3, Names DEF SInv, Owned, Belongs, ClosePcs
<1>5. th[o].ver \in Versions
  BY <1>2 DEF SInv, Pcs
<1>6. it[i].opens > 0
  BY <1>1, <1>2, CountZero DEF Phases, Counts, OpenPcs
<1>7. /\ Keeps(h, c) /\ SameControl(c.x, h.x) /\ c.x.loaded /\ c.x.info = h.x.info
      /\ c.x.flight = h.x.flight
  BY <1>1, CreateKeeps DEF Keeps, SameControl
<1> HIDE DEF h, c, rec
<1>8. c.x.pending + 1 \in Int /\ s = [c EXCEPT !.x.pending = c.x.pending + 1]
  BY <1>7 DEF Keeps, Good, SState, XState
<1> HIDE DEF s
<1>9. /\ Keeps(c, s) /\ SameCore(s.x, c.x) /\ s.x.pending = c.x.pending + 1
      /\ s.x.opens = c.x.opens /\ s.x.grace = c.x.grace
      /\ s.x.closing = c.x.closing /\ s.x.beingReset = c.x.beingReset
  BY <1>7, <1>8, SetPending DEF Keeps
<1>10. Leaves(i, s) /\ Good(s) /\ s.x.loaded
  BY <1>1, <1>2, <1>7, <1>9, PutLeaves DEF Keeps, SameCore
<1>11. /\ s.x.opens = it[i].opens + One(rec.pc \in OpenPcs) - One(th[o].pc \in OpenPcs)
       /\ s.x.pending = it[i].pending + One(rec.pc \in AccessPcs)
                                      - One(th[o].pc \in AccessPcs)
  BY <1>1, <1>2, <1>3, <1>7, <1>9 DEF One, OpenPcs, AccessPcs, SameControl
<1>12. ~ it[i].grace /\ ~ it[i].closing
  BY <1>1, <1>6 DEF Phases, Grace
<1>13. ~ s.x.grace /\ ~ s.x.closing /\ ~ s.x.beingReset
  BY <1>1, <1>2, <1>7, <1>9, <1>12 DEF SameControl
<1>14. th'[o] = rec /\ \A p \in Openers : p # o => th'[p] = th[p]
  BY <1>2, Names DEF SInv, TInv, Step
<1>15. Exclusive(s.x, th')
  <2>1. \A p \in Openers : th[p].pc \notin {"reset", "close"}
    BY <1>1, <1>6 DEF Phases, Exclusive
  <2> QED
    BY <1>3, <1>14, <2>1 DEF Exclusive
<1>16. Emptying(s.x, th) /\ Grace(s.x) /\ rec.pc \in OpenerPcs
  <2>1. th[Cleaner].pc # "empty"
    BY <1>1, <1>2 DEF Phases, Emptying
  <2> QED
    BY <1>3, <1>13, <2>1 DEF Emptying, Grace, OpenerPcs
<1>17. DInv => SoundData(s) /\ ReadersOK(s.x, th') /\ StreamsOK(s.x, th')
  <2> SUFFICES ASSUME DInv
               PROVE  SoundData(s) /\ ReadersOK(s.x, th') /\ StreamsOK(s.x, th')
    OBVIOUS
  <2>1. SoundData(h) /\ ReadersOK(it[i], th)
    BY <1>1, HereData DEF h
  <2>2. Sound(rec.ver, it[i].info.fp)
    BY <1>2, <1>3, <2>1 DEF ReadersOK, OpenPcs
  <2>3. s.x.info = it[i].info /\ s.x.flight = it[i].flight
    BY <1>1, <1>7, <1>9 DEF SameCore
  <2>4. Follows(s.x, it[i])
    BY <2>3 DEF Follows
  <2> HIDE DEF i
  <2>5. ReadersOK(s.x, th') /\ StreamsOK(s.x, th')
    BY <1>1, <1>2, <1>3, <1>4, <2>2, <2>3, <2>4, OpenerData
  <2> QED
    BY <1>7, <1>9, <2>1, <2>5 DEF Keeps
<1> HIDE DEF i
<1> QED
  BY <1>1, <1>2, <1>3, <1>4, <1>5, <1>10, <1>11, <1>12, <1>13, <1>15, <1>16,
     <1>17, OpenerStep

(* A step of a request that has its Reader, or gives it back. *)
LEMMA UserStep ==
  ASSUME SInv, NEW o \in Openers, th[o].pc \in {"open", "ensure", "got", "close"},
         NEW i \in Items, i = th[o].item, UNCHANGED <<entry, env>>,
         NEW rec \in ThreadState, Step(o, rec), Belongs(rec, i),
         rec.pc \in {"idle", "open", "got", "close"},
         rec.pc \in OpenPcs => rec.ver = th[o].ver /\ th[o].pc \in OpenPcs,
         rec.pc = "got" => rec.blk \in it[i].info.rs,
         rec.old \subseteq it[i].flight,
         NEW s, Keeps(Here(i), s), Leaves(i, s), s.x.loaded, Follows(s.x, it[i]),
         s.x.closing <=> it[i].closing,
         s.x.opens = it[i].opens + One(rec.pc \in OpenPcs) - One(th[o].pc \in OpenPcs),
         s.x.pending = it[i].pending + One(rec.pc \in AccessPcs)
                                     - One(th[o].pc \in AccessPcs),
         Emptying(s.x, th), Grace(s.x), Exclusive(s.x, th')
  PROVE  SInv' /\ (DInv => DInv')
<1>1. entry = i /\ entry' = i /\ th[Cleaner].pc \notin {"evict", "delete"} /\ UNCHANGED env
  BY OpenerAt
<1>2. rec.pc \notin {"idle", "close"} => rec.ver \in Versions
  BY DEF OpenPcs, SInv, Pcs
<1>3. rec.pc \in OpenerPcs /\ (up # "run" => rec.pc \notin {"enter", "body", "reset"})
  BY DEF OpenerPcs
<1>4. SInv' /\ (SoundData(s) /\ ReadersOK(s.x, th') /\ StreamsOK(s.x, th') => DInv')
  BY <1>1, <1>2, <1>3, OpenerStep DEF Keeps
<1>5. ASSUME DInv PROVE SoundData(s) /\ ReadersOK(s.x, th') /\ StreamsOK(s.x, th')
  <2>1. SoundData(Here(i)) /\ ReadersOK(it[i], th)
    BY <1>1, <1>5, HereData
  <2>2. rec.pc \in OpenPcs => Sound(rec.ver, s.x.info.fp)
    BY <2>1 DEF ReadersOK, Follows
  <2>3. rec.pc = "got" => rec.blk \in s.x.info.rs
    BY DEF Follows
  <2>4. ReadersOK(s.x, th') /\ StreamsOK(s.x, th')
    BY <1>1, <1>5, <2>2, <2>3, OpenerData
  <2> QED
    BY <2>1, <2>4 DEF Keeps
<1> QED
  BY <1>4, <1>5

(* Nobody resets or closes the item while it has readers. *)
LEMMA ReadersExclude ==
  ASSUME SInv, NEW o \in Openers, NEW rec, NEW i \in Items, entry = i, Step(o, rec),
         it[i].opens > 0, NEW x,
         rec.pc \in {"reset", "close"} =>
             x.opens = 0 /\ ~ x.grace /\ ~ x.closing /\ ~ x.dls
  PROVE  Exclusive(x, th') /\ ~ it[i].grace /\ ~ it[i].closing
<1>1. th'[o] = rec /\ \A p \in Openers : p # o => th'[p] = th[p]
  BY Names DEF SInv, TInv, Step
<1>2. Phases(it[i], th, meta, data)
  BY ItemAssumption DEF SInv
<1>3. \A p \in Openers : th[p].pc \notin {"reset", "close"}
  BY <1>2 DEF Phases, Exclusive
<1>4. ~ it[i].grace /\ ~ it[i].closing
  BY <1>2 DEF Phases, Grace
<1> QED
  BY <1>1, <1>3, <1>4 DEF Exclusive

(* Download returns nil: the range is cached. *)
LEMMA ReadServedStep ==
  ASSUME SInv, NEW o \in Openers, ReadServed(o)
  PROVE  SInv' /\ (DInv => DInv')
<1> DEFINE i == th[o].item
           s == Here(i)
           rec == [th[o] EXCEPT !.pc = "got"]
<1>1. /\ i \in Items /\ entry = i /\ it[i].loaded /\ Phases(it[i], th, meta, data)
      /\ it[i].opens \in Int /\ it[i].pending \in Int /\ Good(s) /\ s.x = it[i]
      /\ th[o] \in ThreadState
  BY OpenerAt DEF ReadServed
<1>2. /\ th[o].pc = "ensure" /\ Step(o, rec) /\ th[o].blk \in it[i].info.rs
      /\ UNCHANGED <<entry, it, disk, env>>
  BY DEF ReadServed
<1>3. /\ rec \in ThreadState /\ rec.pc = "got" /\ rec.ver = th[o].ver
      /\ rec.blk = th[o].blk /\ rec.old = {} /\ Belongs(rec, i)
  BY <1>1, <1>2, Names DEF ThreadState, SInv, Owned, Belongs, ClosePcs
<1>4. Leaves(i, s) /\ Keeps(s, s) /\ Follows(s.x, it[i])
  BY <1>1, <1>2 DEF Leaves, Keeps, Follows, Here, disk, SInv, TInv
<1>5. it[i].opens > 0
  BY <1>1, <1>2, CountZero DEF Phases, Counts, OpenPcs
<1> HIDE DEF rec
<1>6. Exclusive(it[i], th')
  BY <1>1, <1>2, <1>3, <1>5, ReadersExclude
<1>7. /\ s.x.opens = it[i].opens + One(rec.pc \in OpenPcs) - One(th[o].pc \in OpenPcs)
      /\ s.x.pending = it[i].pending + One(rec.pc \in AccessPcs)
                                     - One(th[o].pc \in AccessPcs)
  BY <1>1, <1>2, <1>3 DEF One, OpenPcs, AccessPcs
<1>8. Emptying(s.x, th) /\ Grace(s.x)
  BY <1>1 DEF Phases
<1> HIDE DEF s, i
<1> QED
  BY <1>1, <1>2, <1>3, <1>4, <1>6, <1>7, <1>8, UserStep DEF s, i, OpenPcs

(* The end of a read. *)
LEMMA ReadEndStep ==
  ASSUME SInv, NEW o \in Openers, ReadEnd(o)
  PROVE  SInv' /\ (DInv => DInv')
<1> DEFINE i == th[o].item
           h == Here(i)
           s == [h EXCEPT !.x.pending = it[i].pending - 1]
           rec == [th[o] EXCEPT !.pc = "open", !.blk = None]
<1>1. /\ i \in Items /\ entry = i /\ it[i].loaded /\ Phases(it[i], th, meta, data)
      /\ it[i].opens \in Int /\ it[i].pending \in Int /\ Good(h) /\ h.x = it[i]
      /\ th[o] \in ThreadState
  BY OpenerAt DEF ReadEnd
<1>2. /\ th[o].pc \in {"ensure", "got"} /\ Step(o, rec)
      /\ it' = [it EXCEPT ![i].pending = @ - 1]
      /\ UNCHANGED <<entry, disk, env>>
  BY DEF ReadEnd
<1>3. /\ rec \in ThreadState /\ rec.pc = "open" /\ rec.ver = th[o].ver
      /\ rec.old = {} /\ Belongs(rec, i)
  BY <1>1, <1>2, Names DEF ThreadState, SInv, Owned, Belongs, ClosePcs
<1>4. Leaves(i, s)
  BY <1>1, <1>2 DEF Leaves, Here, disk, SInv, TInv
<1>5. it[i].opens > 0 /\ it[i].pending > 0
  BY <1>1, <1>2, CountZero DEF Phases, Counts, OpenPcs, AccessPcs
<1>6. /\ Keeps(h, s) /\ SameCore(s.x, it[i]) /\ s.x.pending = it[i].pending - 1
      /\ s.x.opens = it[i].opens /\ s.x.grace = it[i].grace
      /\ s.x.closing = it[i].closing /\ s.x.beingReset = it[i].beingReset
  <2> HIDE DEF i, h
  <2>1. it[i].pending - 1 \in Int
    BY <1>1
  <2>2. Good(h) /\ h.x = it[i]
    BY <1>1
  <2> QED
    BY <2>1, <2>2, SetPending
<1> HIDE DEF rec, s, h
<1>7. Exclusive(s.x, th')
  BY <1>1, <1>2, <1>3, <1>5, ReadersExclude
<1>8. /\ s.x.opens = it[i].opens + One(rec.pc \in OpenPcs) - One(th[o].pc \in OpenPcs)
      /\ s.x.pending = it[i].pending + One(rec.pc \in AccessPcs)
                                     - One(th[o].pc \in AccessPcs)
  BY <1>1, <1>2, <1>3, <1>6 DEF One, OpenPcs, AccessPcs
<1>9. /\ Emptying(s.x, th) /\ Grace(s.x) /\ Follows(s.x, it[i]) /\ s.x.loaded
      /\ (s.x.closing <=> it[i].closing)
  BY <1>1, <1>5, <1>6 DEF Phases, Emptying, Grace, Follows, SameCore
<1> HIDE DEF i
<1> QED
  BY <1>1, <1>2, <1>3, <1>4, <1>6, <1>7, <1>8, <1>9, UserStep DEF h, i, OpenPcs

(* A thread that is done, and one that waits for a scheduler to close. *)
LEMMA ThreadRecords ==
  ASSUME NEW i \in Items, NEW pc \in ClosePcs, it[i] \in XState
  PROVE  /\ IdleThread \in ThreadState /\ IdleThread.pc = "idle" /\ IdleThread.old = {}
         /\ Belongs(IdleThread, i)
         /\ Closing(pc, i) \in ThreadState /\ Closing(pc, i).pc = pc
         /\ Closing(pc, i).old = it[i].flight /\ Belongs(Closing(pc, i), i)
<1>1. it[i].flight \subseteq Versions /\ i # None
  BY ItemAssumption DEF XState
<1>2. /\ IdleThread \in ThreadState /\ IdleThread.pc = "idle" /\ IdleThread.old = {}
      /\ Belongs(IdleThread, i)
  BY ZeroVersion DEF IdleThread, ThreadState, Belongs
<1>3. /\ Closing(pc, i) \in ThreadState /\ Closing(pc, i).pc = pc
      /\ Closing(pc, i).old = it[i].flight /\ Closing(pc, i).item = i
  BY <1>1, ZeroVersion DEF Closing, IdleThread, ThreadState, ClosePcs
<1>4. Belongs(Closing(pc, i), i)
  BY <1>1, <1>3 DEF Belongs, ClosePcs
<1> QED
  BY <1>2, <1>3, <1>4

(* A Reader is closed. *)
LEMMA ReleaseStep ==
  ASSUME SInv, NEW o \in Openers, NEW saves \in BOOLEAN, Release(o, saves)
  PROVE  SInv' /\ (DInv => DInv')
<1> DEFINE i == th[o].item
           d == Released(i)
<1>1. /\ i \in Items /\ entry = i /\ it[i].loaded /\ Phases(it[i], th, meta, data)
      /\ it[i].opens \in Int /\ it[i].pending \in Int /\ it[i] \in XState
  BY OpenerAt DEF Release
<1>2. Good(Here(i)) /\ At(i) = Here(i) /\ Here(i).x = it[i] /\ th[o] \in ThreadState
  BY OpenerAt DEF Release
<1>3. /\ th[o].pc = "open" /\ ~ it[i].beingReset /\ UNCHANGED <<entry, env>>
      /\ \/ it[i].opens > 1 /\ Put(i, d) /\ Step(o, IdleThread)
         \/ /\ it[i].opens = 1 /\ Put(i, [d EXCEPT !.x.grace = TRUE])
            /\ Step(o, IdleThread)
         \/ it[i].opens = 1 /\ Put(i, actualCloseLocked(d, saves)) /\ Step(o, IdleThread)
         \/ /\ it[i].opens = 1
            /\ Put(i, [DetachDls(d) EXCEPT !.x.pending = @ + 1])
            /\ Step(o, Closing("close", i))
  BY DEF Release
<1>4. it[i].opens > 0
  BY <1>1, <1>3
<1>5. th[Cleaner].pc # "empty"
  BY <1>1, <1>3 DEF Phases, Emptying
<1>6. /\ IdleThread \in ThreadState /\ IdleThread.pc = "idle" /\ IdleThread.old = {}
      /\ Belongs(IdleThread, i)
      /\ Closing("close", i) \in ThreadState /\ Closing("close", i).pc = "close"
      /\ Closing("close", i).old = it[i].flight /\ Belongs(Closing("close", i), i)
  BY <1>1, ThreadRecords DEF ClosePcs
<1>7. th[o].pc \in {"open", "ensure", "got", "close"} /\ i = th[o].item
  BY <1>3
<1> HIDE DEF i
<1>8. /\ Keeps(Here(i), d) /\ SameCore(d.x, it[i]) /\ d.x.opens = it[i].opens - 1
      /\ d.x.grace = it[i].grace /\ d.x.closing = it[i].closing
      /\ d.x.pending = it[i].pending /\ d.x.beingReset = it[i].beingReset
  <2>1. it[i].opens - 1 \in Int /\ d = [Here(i) EXCEPT !.x.opens = it[i].opens - 1]
    BY <1>1, <1>2 DEF Released
  <2> HIDE DEF d
  <2> QED
    BY <1>2, <2>1, SetOpens
<1> HIDE DEF d
<1>9. ~ it[i].grace /\ ~ it[i].closing
  BY <1>1, <1>4 DEF Phases, Grace
<1>10. ASSUME NEW rec \in ThreadState, Step(o, rec), Belongs(rec, i),
              rec.pc \in {"idle", "close"}, rec.old \subseteq it[i].flight,
              NEW s, Keeps(d, s), Put(i, s), s.x.loaded, s.x.info = it[i].info,
              s.x.flight \subseteq it[i].flight, ~ s.x.closing, ~ s.x.beingReset,
              s.x.opens = it[i].opens - 1,
              s.x.pending = it[i].pending + One(rec.pc = "close"),
              s.x.grace => s.x.opens = 0,
              rec.pc = "close" => s.x.opens = 0 /\ ~ s.x.grace /\ ~ s.x.dls
       PROVE  SInv' /\ (DInv => DInv')
  <2>1. Leaves(i, s) /\ Keeps(Here(i), s)
    BY <1>1, <1>8, <1>10, PutLeaves DEF Keeps
  <2>2. Exclusive(s.x, th')
    BY <1>1, <1>4, <1>10, ReadersExclude
  <2>3. Emptying(s.x, th) /\ Grace(s.x) /\ Follows(s.x, it[i])
    BY <1>5, <1>10 DEF Emptying, Grace, Follows
  <2>4. /\ s.x.opens = it[i].opens + One(rec.pc \in OpenPcs) - One(th[o].pc \in OpenPcs)
        /\ s.x.pending = it[i].pending + One(rec.pc \in AccessPcs)
                                       - One(th[o].pc \in AccessPcs)
    BY <1>1, <1>3, <1>10 DEF One, OpenPcs, AccessPcs
  <2>5. /\ rec.pc \in {"idle", "open", "got", "close"} /\ ~ (rec.pc \in OpenPcs)
        /\ rec.pc # "got" /\ (s.x.closing <=> it[i].closing)
    BY <1>9, <1>10 DEF OpenPcs
  <2> QED
    BY <1>1, <1>3, <1>7, <1>10, <2>1, <2>2, <2>3, <2>4, <2>5, UserStep
<1>11. CASE it[i].opens > 1 /\ Put(i, d) /\ Step(o, IdleThread)
  <2>1. /\ Keeps(d, d) /\ d.x.loaded /\ d.x.info = it[i].info
        /\ d.x.flight \subseteq it[i].flight /\ ~ d.x.closing /\ ~ d.x.beingReset
        /\ d.x.opens = it[i].opens - 1 /\ ~ d.x.grace
    BY <1>1, <1>3, <1>8, <1>9 DEF Keeps, SameCore
  <2>2. d.x.pending = it[i].pending + One(IdleThread.pc = "close")
    BY <1>1, <1>6, <1>8 DEF One
  <2> QED
    BY <1>6, <1>10, <1>11, <2>1, <2>2
<1>12. CASE it[i].opens = 1 /\ Put(i, [d EXCEPT !.x.grace = TRUE]) /\ Step(o, IdleThread)
  <2> DEFINE s == [d EXCEPT !.x.grace = TRUE]
  <2>1. /\ Keeps(d, s) /\ SameCore(s.x, d.x) /\ s.x.opens = d.x.opens
        /\ s.x.closing = d.x.closing /\ s.x.pending = d.x.pending
        /\ s.x.beingReset = d.x.beingReset /\ Put(i, s)
    BY <1>8, <1>12, SetGrace DEF Keeps
  <2> HIDE DEF s
  <2>2. /\ s.x.loaded /\ s.x.info = it[i].info
        /\ s.x.flight \subseteq it[i].flight /\ ~ s.x.closing /\ ~ s.x.beingReset
        /\ s.x.opens = it[i].opens - 1 /\ s.x.opens = 0
    BY <1>1, <1>3, <1>8, <1>9, <1>12, <2>1 DEF SameCore
  <2>3. s.x.pending = it[i].pending + One(IdleThread.pc = "close")
    BY <1>1, <1>6, <1>8, <2>1 DEF One
  <2> QED
    BY <1>6, <1>10, <1>12, <2>1, <2>2, <2>3
<1>13. CASE it[i].opens = 1 /\ Put(i, actualCloseLocked(d, saves)) /\ Step(o, IdleThread)
  <2> DEFINE s == actualCloseLocked(d, saves)
  <2>1. /\ Keeps(d, s) /\ SameControl(s.x, d.x) /\ s.x.loaded /\ s.x.info = d.x.info
        /\ s.x.flight = d.x.flight /\ Put(i, s)
    BY <1>1, <1>8, <1>13, CloseKeeps DEF Keeps, SameCore
  <2> HIDE DEF s
  <2> QED
    BY <1>1, <1>3, <1>6, <1>8, <1>9, <1>10, <1>13, <2>1 DEF SameCore, SameControl, One
<1>14. CASE /\ it[i].opens = 1
            /\ Put(i, [DetachDls(d) EXCEPT !.x.pending = @ + 1])
            /\ Step(o, Closing("close", i))
  <2> DEFINE c == DetachDls(d)
             s == [c EXCEPT !.x.pending = @ + 1]
  <2>1. /\ Keeps(d, c) /\ SameControl(c.x, d.x) /\ c.x.loaded = d.x.loaded
        /\ ~ c.x.dls /\ c.x.flight = {} /\ c.x.info = d.x.info
    BY <1>8, DetachKeeps DEF Keeps
  <2> HIDE DEF c
  <2>2. c.x.pending + 1 \in Int /\ s = [c EXCEPT !.x.pending = c.x.pending + 1]
    BY <2>1 DEF Keeps, Good, SState, XState
  <2>3. Put(i, s)
    BY <1>14 DEF c
  <2> HIDE DEF s
  <2>4. /\ Keeps(c, s) /\ SameCore(s.x, c.x) /\ s.x.pending = c.x.pending + 1
        /\ s.x.opens = c.x.opens /\ s.x.grace = c.x.grace
        /\ s.x.closing = c.x.closing /\ s.x.beingReset = c.x.beingReset
    BY <2>1, <2>2, SetPending DEF Keeps
  <2>5. /\ Keeps(d, s) /\ s.x.loaded /\ s.x.info = it[i].info
        /\ s.x.flight \subseteq it[i].flight /\ ~ s.x.closing /\ ~ s.x.beingReset
        /\ s.x.opens = it[i].opens - 1 /\ ~ s.x.grace /\ ~ s.x.dls
        /\ s.x.pending = it[i].pending + 1
    BY <1>1, <1>3, <1>8, <1>9, <2>1, <2>4 DEF Keeps, SameCore, SameControl
  <2>6. One(Closing("close", i).pc = "close") = 1 /\ s.x.opens = 0
    BY <1>6, <1>14, <2>5 DEF One
  <2> QED
    BY <1>6, <1>10, <1>14, <2>3, <2>5, <2>6
<1> QED
  BY <1>3, <1>11, <1>12, <1>13, <1>14

(* The scheduler of a closed Reader's item has ended. *)
LEMMA ReleaseEndStep ==
  ASSUME SInv, NEW o \in Openers, NEW saves \in BOOLEAN, ReleaseEnd(o, saves)
  PROVE  SInv' /\ (DInv => DInv')
<1> DEFINE i == th[o].item
           c == actualCloseLocked(Here(i), saves)
           s == EndAccess(c)
<1>1. /\ i \in Items /\ entry = i /\ it[i].loaded /\ Phases(it[i], th, meta, data)
      /\ it[i].opens \in Int /\ it[i].pending \in Int /\ it[i] \in XState
  BY OpenerAt DEF ReleaseEnd
<1>2. Good(Here(i)) /\ At(i) = Here(i) /\ Here(i).x = it[i] /\ th[o] \in ThreadState
  BY OpenerAt DEF ReleaseEnd
<1>3. /\ th[o].pc = "close" /\ Put(i, s) /\ Step(o, IdleThread)
      /\ UNCHANGED <<entry, env>>
  BY <1>2 DEF ReleaseEnd
<1>4. /\ IdleThread \in ThreadState /\ IdleThread.pc = "idle" /\ IdleThread.old = {}
      /\ Belongs(IdleThread, i)
  BY <1>1, ThreadRecords DEF ClosePcs
<1>5. /\ it[i].opens = 0 /\ ~ it[i].grace /\ ~ it[i].closing /\ ~ it[i].dls
      /\ \A p \in Openers \ {o} : th[p].pc \notin {"reset", "close"}
  BY <1>1, <1>3 DEF Phases, Exclusive
<1>6. ~ it[i].beingReset /\ th[Cleaner].pc # "empty"
  BY <1>1, <1>5 DEF Phases, Emptying
<1>7. i = th[o].item
  OBVIOUS
<1> HIDE DEF i
<1>8. /\ Keeps(Here(i), c) /\ SameControl(c.x, it[i]) /\ c.x.loaded
      /\ c.x.flight = it[i].flight /\ c.x.info = it[i].info /\ c.x.dls = it[i].dls
  BY <1>1, <1>2, CloseKeeps
<1> HIDE DEF c
<1>9. /\ Keeps(c, s) /\ SameCore(s.x, c.x) /\ s.x.pending = c.x.pending - 1
      /\ s.x.opens = c.x.opens /\ s.x.grace = c.x.grace
      /\ s.x.closing = c.x.closing /\ s.x.beingReset = c.x.beingReset
  BY <1>8, EndAccessKeeps DEF Keeps
<1> HIDE DEF s
<1>10. Keeps(Here(i), s) /\ Leaves(i, s)
  BY <1>1, <1>3, <1>8, <1>9, PutLeaves DEF Keeps
<1>11. /\ s.x.loaded /\ ~ s.x.grace /\ ~ s.x.closing /\ ~ s.x.beingReset
       /\ s.x.opens = it[i].opens /\ s.x.pending = it[i].pending - 1
  BY <1>5, <1>6, <1>8, <1>9 DEF SameControl, SameCore
<1>12. Emptying(s.x, th) /\ Grace(s.x) /\ Follows(s.x, it[i])
  BY <1>6, <1>8, <1>9, <1>11 DEF Emptying, Grace, Follows, SameCore
<1>13. Exclusive(s.x, th')
  <2>1. th'[o] = IdleThread /\ \A p \in Openers : p # o => th'[p] = th[p]
    BY <1>3, Names DEF SInv, TInv, Step
  <2> QED
    BY <1>4, <1>5, <2>1 DEF Exclusive
<1>14. /\ s.x.opens = it[i].opens + One(IdleThread.pc \in OpenPcs) - One(th[o].pc \in OpenPcs)
       /\ s.x.pending = it[i].pending + One(IdleThread.pc \in AccessPcs)
                                      - One(th[o].pc \in AccessPcs)
  BY <1>1, <1>3, <1>4, <1>11 DEF One, OpenPcs, AccessPcs
<1>15. /\ ~ (IdleThread.pc \in OpenPcs) /\ IdleThread.pc # "got"
       /\ (s.x.closing <=> it[i].closing)
  BY <1>4, <1>5, <1>11 DEF OpenPcs
<1> QED
  BY <1>1, <1>3, <1>4, <1>7, <1>10, <1>11, <1>12, <1>13, <1>14, <1>15, UserStep

-----------------------------------------------------------------------------
(* The item of the map. *)
LEMMA EntryAt ==
  ASSUME SInv, NEW i \in Items, entry = i
  PROVE  /\ it[i] \in XState /\ Phases(it[i], th, meta, data)
         /\ it[i].opens \in Int /\ it[i].pending \in Int
         /\ Good(Here(i)) /\ At(i) = Here(i) /\ Here(i).x = it[i]
         /\ \A t \in Threads : th[t] \in ThreadState /\ Belongs(th[t], i)
<1>1. Phases(it[i], th, meta, data) /\ Good(Here(i))
  BY ItemAssumption DEF SInv
<1>2. it[i] \in XState /\ At(i) = Here(i) /\ Here(i).x = it[i]
  BY HereState, AtIsHere
<1>3. it[i].opens \in Int /\ it[i].pending \in Int
  BY <1>2 DEF XState
<1> QED
  BY <1>1, <1>2, <1>3 DEF SInv, TInv, Owned

(* An item that is not as good as new is the one of the map. *)
LEMMA InUse ==
  ASSUME SInv, NEW i \in Items, it[i] # NewItem
  PROVE  entry = i
BY DEF SInv, Owned

(* So is the item a thread works on. *)
LEMMA ThreadAt ==
  ASSUME SInv, NEW t \in Threads, th[t].pc # "idle"
  PROVE  th[t].item \in Items /\ entry = th[t].item
BY DEF SInv, TInv, Owned, Belongs

(* A step of a timer, of the cleaner or of Cache.Close. *)
LEMMA OtherStep ==
  ASSUME SInv, NEW i \in Items, entry = i, UNCHANGED entry,
         NEW t \in {i, Cleaner, Closer},
         NEW rec \in ThreadState, Step(t, rec), Belongs(rec, i),
         NEW s, Good(s), Leaves(i, s),
         IF t = i THEN rec.pc = IF s.x.closing THEN "close" ELSE "idle"
         ELSE s.x.closing <=> it[i].closing,
         t = Cleaner => rec.pc \in {"idle", "evict", "delete", "empty"},
         t = Closer => rec.pc \in {"idle", "close"},
         s.x.opens = it[i].opens, s.x.pending = it[i].pending,
         Loaded(s.x, th', s.meta, s.data), Evicting(s.x, th'), Emptying(s.x, th'),
         Grace(s.x), Exclusive(s.x, th), Shut',
         up' \in {"run", "closing", "closed"},
         UNCHANGED <<origin, restarts, handleCaching>>
  PROVE  /\ SInv'
         /\ SoundData(s) /\ ReadersOK(s.x, th') /\ StreamsOK(s.x, th') => DInv'
<1>1. th \in [Threads -> ThreadState] /\ th' = [th EXCEPT ![t] = rec] /\ t \in Threads
  BY Names DEF SInv, TInv, Step
<1>2. /\ th' \in [Threads -> ThreadState] /\ th'[t] = rec
      /\ \A u \in Threads : u # t => th'[u] = th[u]
  BY <1>1
<1>3. \A o \in Openers : th'[o] = th[o]
  BY <1>2, Names
<1>4. Pcs'
  <2>1. /\ it'[i] = s.x /\ NewItem.closing = FALSE
        /\ \A j \in Items \ {i} : it'[j] = NewItem /\ it[j] = NewItem
    BY LeavesEffect, HereGood, NewItemState DEF NewItem
  <2>2. \A j \in Items \ {i} : j # t
    BY Names
  <2>3. \A j \in Items \ {i} : th'[j].pc = "idle"
    BY <1>2, <2>1, <2>2, Names DEF SInv, Pcs
  <2>4. \A j \in Items : th'[j].pc = IF it'[j].closing THEN "close" ELSE "idle"
    BY <1>2, <2>1, <2>3, Names DEF SInv, Pcs
  <2>5. /\ th'[Cleaner].pc \in {"idle", "evict", "delete", "empty"}
        /\ th'[Closer].pc \in {"idle", "close"}
    BY <1>2, Names DEF SInv, Pcs
  <2> QED
    BY <1>3, <2>4, <2>5 DEF SInv, Pcs
<1>5. \A u \in Threads : Belongs(th'[u], i)
  BY <1>2, EntryAt
<1>6. Counts(s.x, th')
  <2>1. In(th', OpenPcs) = In(th, OpenPcs) /\ In(th', AccessPcs) = In(th, AccessPcs)
    BY <1>3 DEF In
  <2> QED
    BY <2>1, HereCounts DEF Counts
<1>7. Exclusive(s.x, th')
  BY <1>3 DEF Exclusive
<1>8. Phases(s.x, th', s.meta, s.data)
  BY <1>6, <1>7 DEF Phases
<1> QED
  BY <1>2, <1>4, <1>5, <1>8, ItemStep

(* A thread that is not a request leaves the readers what they rely on. *)
LEMMA OtherData ==
  ASSUME SInv, DInv, NEW i \in Items, entry = i, NEW t \in Threads \ Openers,
         NEW rec, Step(t, rec), NEW y, Follows(y, it[i]), rec.old \subseteq it[i].flight
  PROVE  ReadersOK(y, th') /\ StreamsOK(y, th')
<1>1. th'[t] = rec /\ \A u \in Threads : u # t => th'[u] = th[u]
  BY Names DEF SInv, TInv, Step
<1>2. ReadersOK(it[i], th) /\ StreamsOK(it[i], th)
  BY HereData
<1>3. ReadersOK(y, th')
  BY <1>1, <1>2, Names DEF ReadersOK, Follows
<1>4. StreamsOK(y, th')
  BY <1>1, <1>2, Names DEF StreamsOK, Follows
<1> QED
  BY <1>3, <1>4

(* The grace period of an item ends. *)
LEMMA GraceCloseStep ==
  ASSUME SInv, NEW i \in Items, NEW saves \in BOOLEAN, GraceClose(i, saves)
  PROVE  SInv' /\ (DInv => DInv')
<1> DEFINE g == [Here(i) EXCEPT !.x.grace = FALSE]
<1>1. it[i].grace /\ it[i].opens = 0 /\ entry = i
  BY InUse, NewItemState DEF GraceClose
<1>2. /\ it[i] \in XState /\ Phases(it[i], th, meta, data)
      /\ Good(Here(i)) /\ At(i) = Here(i) /\ Here(i).x = it[i]
      /\ \A t \in Threads : th[t] \in ThreadState /\ Belongs(th[t], i)
  BY <1>1, EntryAt
<1>3. /\ ~ it[i].closing /\ ~ it[i].beingReset /\ th[Cleaner].pc = "idle"
      /\ \A o \in Openers : th[o].pc \notin {"reset", "close"}
  BY <1>1, <1>2 DEF Phases, Grace, Evicting, Emptying, Exclusive, SInv, Pcs
<1>4. it[i].loaded /\ i \in Threads
  BY <1>2, <1>3, Names DEF Phases, Loaded
<1>5. /\ UNCHANGED <<entry, env>>
      /\ \/ Put(i, actualCloseLocked(g, saves)) /\ UNCHANGED th
         \/ /\ Put(i, [DetachDls(g) EXCEPT !.x.closing = TRUE])
            /\ Step(i, Closing("close", i))
  BY <1>2 DEF GraceClose
<1>6. /\ Keeps(Here(i), g) /\ SameCore(g.x, it[i]) /\ g.x.grace = FALSE
      /\ g.x.opens = it[i].opens /\ g.x.closing = it[i].closing
      /\ g.x.pending = it[i].pending /\ g.x.beingReset = it[i].beingReset
  <2> DEFINE h == Here(i)
  <2>1. Good(h) /\ h.x = it[i] /\ g = [h EXCEPT !.x.grace = FALSE]
    BY <1>2
  <2> HIDE DEF h, g
  <2>2. /\ Keeps(h, g) /\ SameCore(g.x, h.x) /\ g.x.grace = FALSE
       /\ g.x.opens = h.x.opens /\ g.x.closing = h.x.closing
       /\ g.x.pending = h.x.pending /\ g.x.beingReset = h.x.beingReset
    BY <2>1, SetGrace
  <2> QED
    BY <2>1, <2>2 DEF h
<1> HIDE DEF g
<1>7. ASSUME NEW rec \in ThreadState, Step(i, rec), Belongs(rec, i),
             rec.old \subseteq it[i].flight,
             NEW s, Keeps(g, s), Put(i, s), s.x.loaded, s.x.info = it[i].info,
             s.x.flight \subseteq it[i].flight,
             rec.pc = IF s.x.closing THEN "close" ELSE "idle",
             s.x.opens = it[i].opens, s.x.pending = it[i].pending,
             ~ s.x.beingReset, ~ s.x.grace, s.x.closing => ~ s.x.dls
      PROVE  SInv' /\ (DInv => DInv')
  <2>1. Leaves(i, s) /\ Keeps(Here(i), s) /\ Good(s)
    BY <1>6, <1>7, PutLeaves DEF Keeps
  <2>2. th'[Cleaner] = th[Cleaner] /\ th'[Closer] = th[Closer] /\ i # Cleaner /\ i # Closer
        /\ \A o \in Openers : th'[o] = th[o]
    BY <1>7, Names DEF SInv, TInv, Step
  <2>3. /\ Loaded(s.x, th', s.meta, s.data) /\ Evicting(s.x, th') /\ Emptying(s.x, th')
        /\ Grace(s.x) /\ Exclusive(s.x, th)
    BY <1>1, <1>3, <1>7, <2>2 DEF Loaded, Evicting, Emptying, Grace, Exclusive
  <2>4. Shut' /\ up' \in {"run", "closing", "closed"} /\ UNCHANGED <<origin, restarts, handleCaching>>
    BY <1>5, <2>2 DEF SInv, TInv, Shut, env
  <2>5. SInv' /\ (SoundData(s) /\ ReadersOK(s.x, th') /\ StreamsOK(s.x, th') => DInv')
    BY <1>1, <1>5, <1>7, <2>1, <2>2, <2>3, <2>4, OtherStep
  <2>6. i \in Threads \ Openers /\ Follows(s.x, it[i])
    BY <1>7, Names DEF Follows
  <2>7. ASSUME DInv PROVE SoundData(s) /\ ReadersOK(s.x, th') /\ StreamsOK(s.x, th')
    BY <1>1, <1>7, <2>1, <2>6, <2>7, HereData, OtherData DEF Keeps
  <2> QED
    BY <2>5, <2>7
<1>8. CASE Put(i, actualCloseLocked(g, saves)) /\ UNCHANGED th
  <2> DEFINE s == actualCloseLocked(g, saves)
  <2>1. /\ Keeps(g, s) /\ SameControl(s.x, g.x) /\ s.x.loaded /\ s.x.info = g.x.info
        /\ s.x.flight = g.x.flight /\ Put(i, s)
    BY <1>4, <1>6, <1>8, CloseKeeps DEF Keeps, SameCore
  <2> HIDE DEF s
  <2>2. /\ th[i] \in ThreadState /\ Step(i, th[i]) /\ Belongs(th[i], i) /\ th[i].pc = "idle"
    BY <1>2, <1>3, <1>4, <1>8 DEF Step, SInv, TInv, Pcs
  <2>3. th[i].old = {}
    BY <2>2 DEF Belongs, IdleThread
  <2>4. /\ s.x.info = it[i].info /\ s.x.flight \subseteq it[i].flight
        /\ s.x.opens = it[i].opens /\ s.x.pending = it[i].pending
        /\ ~ s.x.beingReset /\ ~ s.x.grace /\ ~ s.x.closing
    BY <1>3, <1>6, <2>1 DEF SameControl, SameCore
  <2> QED
    BY <1>7, <2>1, <2>2, <2>3, <2>4
<1>9. CASE /\ Put(i, [DetachDls(g) EXCEPT !.x.closing = TRUE])
           /\ Step(i, Closing("close", i))
  <2> DEFINE c == DetachDls(g)
             s == [c EXCEPT !.x.closing = TRUE]
  <2>1. /\ Keeps(g, c) /\ SameControl(c.x, g.x) /\ c.x.loaded = g.x.loaded
        /\ ~ c.x.dls /\ c.x.flight = {} /\ c.x.info = g.x.info
    BY <1>6, DetachKeeps DEF Keeps
  <2>2. Put(i, s)
    BY <1>9
  <2> HIDE DEF c
  <2>3. /\ Keeps(c, s) /\ SameCore(s.x, c.x) /\ s.x.closing = TRUE
        /\ s.x.opens = c.x.opens /\ s.x.grace = c.x.grace
        /\ s.x.pending = c.x.pending /\ s.x.beingReset = c.x.beingReset
    BY <2>1, SetClosing DEF Keeps
  <2> HIDE DEF s
  <2>4. /\ Keeps(g, s) /\ s.x.loaded
        /\ s.x.info = it[i].info /\ s.x.flight \subseteq it[i].flight
        /\ s.x.opens = it[i].opens /\ s.x.pending = it[i].pending
        /\ ~ s.x.beingReset /\ ~ s.x.grace /\ s.x.closing /\ ~ s.x.dls
    BY <1>3, <1>4, <1>6, <2>1, <2>3 DEF Keeps, SameControl, SameCore
  <2>5. /\ Closing("close", i) \in ThreadState /\ Closing("close", i).pc = "close"
        /\ Closing("close", i).old = it[i].flight /\ Belongs(Closing("close", i), i)
    BY <1>2, ThreadRecords DEF ClosePcs
  <2> QED
    BY <1>7, <1>9, <2>2, <2>4, <2>5
<1> QED
  BY <1>5, <1>8, <1>9

(* A step of a thread that is not a request, after which the item has its  *)
(* version and its ranges as before.                                       *)
LEMMA FollowsStep ==
  ASSUME SInv, NEW i \in Items, entry = i, UNCHANGED entry,
         NEW t \in {i, Cleaner, Closer},
         NEW rec \in ThreadState, Step(t, rec), Belongs(rec, i),
         rec.old \subseteq it[i].flight,
         NEW s, Keeps(Here(i), s), Put(i, s), Follows(s.x, it[i]),
         IF t = i THEN rec.pc = IF s.x.closing THEN "close" ELSE "idle"
         ELSE s.x.closing <=> it[i].closing,
         t = Cleaner => rec.pc \in {"idle", "evict", "delete", "empty"},
         t = Closer => rec.pc \in {"idle", "close"},
         s.x.opens = it[i].opens, s.x.pending = it[i].pending,
         Loaded(s.x, th', s.meta, s.data), Evicting(s.x, th'), Emptying(s.x, th'),
         Grace(s.x), Exclusive(s.x, th), Shut',
         up' \in {"run", "closing", "closed"},
         UNCHANGED <<origin, restarts, handleCaching>>
  PROVE  SInv' /\ (DInv => DInv')
<1>1. Leaves(i, s) /\ Good(s)
  BY PutLeaves DEF Keeps
<1>2. SInv' /\ (SoundData(s) /\ ReadersOK(s.x, th') /\ StreamsOK(s.x, th') => DInv')
  BY <1>1, OtherStep
<1>3. t \in Threads \ Openers
  BY Names
<1>4. ASSUME DInv PROVE SoundData(s) /\ ReadersOK(s.x, th') /\ StreamsOK(s.x, th')
  BY <1>3, <1>4, HereData, OtherData DEF Keeps
<1> QED
  BY <1>2, <1>4

(* The scheduler of an item past its grace period has ended. *)
LEMMA GraceCloseEndStep ==
  ASSUME SInv, NEW i \in Items, NEW saves \in BOOLEAN, GraceCloseEnd(i, saves)
  PROVE  SInv' /\ (DInv => DInv')
<1> DEFINE c == actualCloseLocked(Here(i), saves)
           s == [c EXCEPT !.x.closing = FALSE]
<1>1. it[i].closing /\ entry = i
  BY InUse, NewItemState DEF GraceCloseEnd, SInv, Pcs
<1>2. /\ it[i] \in XState /\ Phases(it[i], th, meta, data)
      /\ Good(Here(i)) /\ At(i) = Here(i) /\ Here(i).x = it[i]
  BY <1>1, EntryAt
<1>3. /\ it[i].opens = 0 /\ ~ it[i].grace /\ ~ it[i].beingReset /\ th[Cleaner].pc = "idle"
      /\ \A o \in Openers : th[o].pc \notin {"reset", "close"}
  BY <1>1, <1>2 DEF Phases, Grace, Evicting, Emptying, Exclusive, SInv, Pcs
<1>4. it[i].loaded
  BY <1>2, <1>3 DEF Phases, Loaded
<1>5. Put(i, s) /\ Step(i, IdleThread) /\ UNCHANGED <<entry, env>>
  BY <1>2 DEF GraceCloseEnd
<1>6. /\ Keeps(Here(i), c) /\ SameControl(c.x, it[i]) /\ c.x.loaded
      /\ c.x.flight = it[i].flight /\ c.x.info = it[i].info
  BY <1>2, <1>4, CloseKeeps
<1> HIDE DEF c
<1>7. /\ Keeps(c, s) /\ SameCore(s.x, c.x) /\ s.x.closing = FALSE
      /\ s.x.opens = c.x.opens /\ s.x.grace = c.x.grace
      /\ s.x.pending = c.x.pending /\ s.x.beingReset = c.x.beingReset
  BY <1>6, SetClosing DEF Keeps
<1> HIDE DEF s
<1>8. /\ Keeps(Here(i), s) /\ s.x.loaded /\ Follows(s.x, it[i])
      /\ s.x.opens = it[i].opens /\ s.x.pending = it[i].pending
      /\ ~ s.x.beingReset /\ ~ s.x.grace /\ ~ s.x.closing
  BY <1>3, <1>6, <1>7 DEF Keeps, SameControl, SameCore, Follows
<1>9. th'[Cleaner] = th[Cleaner] /\ th'[Closer] = th[Closer] /\ i # Cleaner /\ i # Closer
      /\ \A o \in Openers : th'[o] = th[o]
  BY <1>5, Names DEF SInv, TInv, Step
<1>10. /\ Loaded(s.x, th', s.meta, s.data) /\ Evicting(s.x, th') /\ Emptying(s.x, th')
       /\ Grace(s.x) /\ Exclusive(s.x, th)
  BY <1>3, <1>8, <1>9 DEF Loaded, Evicting, Emptying, Grace, Exclusive
<1>11. Shut' /\ up' \in {"run", "closing", "closed"} /\ UNCHANGED <<origin, restarts, handleCaching>>
  BY <1>5, <1>9 DEF SInv, TInv, Shut, env
<1>12. /\ IdleThread \in ThreadState /\ IdleThread.pc = "idle" /\ IdleThread.old = {}
       /\ Belongs(IdleThread, i)
  BY <1>2, ThreadRecords DEF ClosePcs
<1> QED
  BY <1>1, <1>5, <1>8, <1>9, <1>10, <1>11, <1>12, FollowsStep

-----------------------------------------------------------------------------
(* The cleaner works while Cache.Close has not come to the items. *)
LEMMA CleanerAlone ==
  ASSUME SInv, CleanerRuns
  PROVE  th[Closer].pc = "idle"
BY DEF SInv, Pcs, Shut, CleanerRuns

(* Fields of an item that is as good as new. *)
LEMMA FieldsAreNew ==
  ASSUME NEW x \in XState, x.fd = None, x.info = NoInfo, ~ x.loaded, x.object = 0,
         ~ x.dls, x.dlsObject = 0, x.flight = {}, ~ x.linked, x.opens = 0,
         ~ x.grace, ~ x.closing, x.pending = 0, ~ x.beingReset, ~ x.unsaved
  PROVE  x = NewItem
BY DEF XState, NewItem

(* The files of an item nobody uses are removed. *)
LEMMA RemovedStep ==
  ASSUME SInv, NEW i \in Items, entry = i, UNCHANGED <<entry, env>>,
         \A o \in Openers : th[o].pc = "idle", th[Closer].pc = "idle",
         ~ it[i].closing, ~ it[i].grace, ~ it[i].dls,
         Put(i, Removed(At(i))), Step(Cleaner, Deleting(i))
  PROVE  SInv' /\ (DInv => DInv')
<1> DEFINE s == Removed(Here(i))
<1>1. /\ it[i] \in XState /\ Phases(it[i], th, meta, data)
      /\ Good(Here(i)) /\ At(i) = Here(i) /\ Here(i).x = it[i]
      /\ \A t \in Threads : Belongs(th[t], i)
  BY EntryAt
<1>2. In(th, OpenPcs) = {} /\ In(th, AccessPcs) = {}
  BY DEF In, OpenPcs, AccessPcs
<1>3. it[i].opens = 0 /\ it[i].pending = 0
  BY <1>1, <1>2, FS_EmptySet DEF Phases, Counts
<1>4. ~ it[i].beingReset
  BY <1>1, <1>3 DEF Phases, Emptying
<1>5. /\ Keeps(Here(i), s) /\ SameControl(s.x, it[i]) /\ s.meta = None /\ s.data = None
      /\ s.x.fd = None /\ s.x.info = NoInfo /\ ~ s.x.loaded /\ s.x.object = 0
      /\ ~ s.x.dls /\ s.x.dlsObject = 0 /\ s.x.flight = {} /\ ~ s.x.linked
      /\ ~ s.x.unsaved
  BY <1>1, RemovedKeeps
<1>6. Put(i, s)
  BY <1>1
<1> HIDE DEF s
<1>7. Good(s) /\ Leaves(i, s) /\ s.x \in XState
  BY <1>5, <1>6, PutLeaves DEF Keeps, Good, SState
<1>8. s.x = NewItem
  BY <1>3, <1>4, <1>5, <1>7, FieldsAreNew DEF SameControl
<1>9. /\ Deleting(i) \in ThreadState /\ Deleting(i).pc = "delete" /\ Deleting(i).old = {}
      /\ Deleting(i).item = i
  BY ZeroVersion DEF Deleting, IdleThread, ThreadState
<1>10. Belongs(Deleting(i), i)
  BY <1>9, ItemAssumption DEF Belongs
<1>11. /\ th'[Cleaner] = Deleting(i) /\ Cleaner # Closer /\ Cleaner # i
       /\ \A t \in Threads : t # Cleaner => th'[t] = th[t]
  BY Names DEF SInv, TInv, Step
<1>12. /\ Loaded(s.x, th', s.meta, s.data) /\ Evicting(s.x, th') /\ Emptying(s.x, th')
       /\ Grace(s.x) /\ Exclusive(s.x, th)
  BY <1>5, <1>8, <1>9, <1>11, Names, NewItemState
     DEF Loaded, Evicting, Emptying, Grace, Exclusive
<1>13. Shut' /\ up' \in {"run", "closing", "closed"} /\ UNCHANGED <<origin, restarts, handleCaching>>
  BY <1>11, Names DEF SInv, TInv, Shut, env
<1>14. s.x.opens = it[i].opens /\ s.x.pending = it[i].pending /\ ~ s.x.closing
  BY <1>3, <1>8, NewItemState
<1>15. SInv' /\ (SoundData(s) /\ ReadersOK(s.x, th') /\ StreamsOK(s.x, th') => DInv')
  BY <1>7, <1>9, <1>10, <1>11, <1>12, <1>13, <1>14, OtherStep
<1>16. ReadersOK(s.x, th') /\ StreamsOK(s.x, th')
  <2>1. \A t \in Threads : th'[t].old = {}
    <3>1. \A t \in Threads \ {Cleaner} : th[t].pc = "idle"
      BY NewItemState DEF SInv, Pcs, Owned, Threads
    <3> QED
      BY <1>1, <1>9, <1>11, <3>1 DEF Belongs, IdleThread
  <2> QED
    BY <1>8, <1>11, <2>1, Names, NewItemState DEF ReadersOK, StreamsOK, OpenPcs
<1> QED
  BY <1>5, <1>15, <1>16, HereData DEF Keeps

(* The cleaner evicts an idle item. *)
LEMMA EvictStep ==
  ASSUME SInv, Bounded, NEW i \in Items, Quiet(i), Evict(i)
  PROVE  SInv' /\ (DInv => DInv')
<1>1. /\ th[Cleaner].pc = "idle" /\ CleanerRuns /\ entry = i /\ it[i].opens = 0
      /\ ~ it[i].grace /\ UNCHANGED <<entry, env>>
  BY DEF Evict
<1>2. /\ it[i] \in XState /\ Phases(it[i], th, meta, data)
      /\ Good(Here(i)) /\ At(i) = Here(i) /\ Here(i).x = it[i]
      /\ \A t \in Threads : Belongs(th[t], i)
  BY <1>1, EntryAt
<1>3. th[Closer].pc = "idle" /\ ~ it[i].closing /\ it[i].loaded /\ ~ it[i].beingReset
  BY <1>1, <1>2, CleanerAlone DEF Quiet, Bounded, Phases, Loaded, Emptying
<1>4. \A o \in Openers : th[o].pc = "idle"
  <2>1. \A o \in Openers : th[o].pc \notin OpenPcs
    BY <1>1, <1>2, CountZero DEF Phases, Counts
  <2>2. \A o \in Openers : th[o].pc # "idle" => th[o].item = i
    BY <1>2, Names DEF Belongs
  <2> QED
    BY <1>1, <2>1, <2>2 DEF Quiet, Bounded, OpenPcs
<1>5. CASE it[i].dls /\ Put(i, DetachDls(At(i))) /\ Step(Cleaner, Closing("evict", i))
  <2> DEFINE s == DetachDls(Here(i))
  <2>1. /\ Keeps(Here(i), s) /\ SameControl(s.x, it[i]) /\ s.x.loaded = it[i].loaded
        /\ ~ s.x.dls /\ s.x.flight = {} /\ s.x.info = it[i].info
    BY <1>2, DetachKeeps
  <2>2. Put(i, s)
    BY <1>2, <1>5
  <2> HIDE DEF s
  <2>3. /\ Closing("evict", i) \in ThreadState /\ Closing("evict", i).pc = "evict"
        /\ Closing("evict", i).old = it[i].flight /\ Belongs(Closing("evict", i), i)
    BY <1>2, ThreadRecords DEF ClosePcs
  <2>4. /\ th'[Cleaner] = Closing("evict", i) /\ Cleaner # Closer /\ Cleaner # i
        /\ \A t \in Threads : t # Cleaner => th'[t] = th[t]
    BY <1>5, Names DEF SInv, TInv, Step
  <2>5. /\ s.x.opens = it[i].opens /\ s.x.pending = it[i].pending /\ s.x.loaded
        /\ ~ s.x.beingReset /\ ~ s.x.grace /\ ~ s.x.closing /\ Follows(s.x, it[i])
    BY <1>1, <1>3, <2>1 DEF SameControl, Follows
  <2>6. /\ Loaded(s.x, th', s.meta, s.data) /\ Evicting(s.x, th') /\ Emptying(s.x, th')
        /\ Grace(s.x) /\ Exclusive(s.x, th)
    BY <1>3, <1>4, <2>1, <2>3, <2>4, <2>5, Names
       DEF Loaded, Evicting, Emptying, Grace, Exclusive
  <2>7. Shut' /\ up' \in {"run", "closing", "closed"} /\ UNCHANGED <<origin, restarts, handleCaching>>
    BY <1>1, <1>3, <1>4, <2>4, Names DEF SInv, TInv, Shut, env
  <2> QED
    BY <1>1, <1>3, <1>5, <2>1, <2>2, <2>3, <2>4, <2>5, <2>6, <2>7, FollowsStep
<1>6. CASE ~ it[i].dls /\ Put(i, Removed(At(i))) /\ Step(Cleaner, Deleting(i))
  BY <1>1, <1>3, <1>4, <1>6, RemovedStep
<1> QED
  BY <1>5, <1>6 DEF Evict

(* Its scheduler has ended. *)
LEMMA EvictEndStep ==
  ASSUME SInv, EvictEnd
  PROVE  SInv' /\ (DInv => DInv')
<1> DEFINE i == th[Cleaner].item
<1>1. th[Cleaner].pc = "evict" /\ i \in Items /\ entry = i
  BY ThreadAt, Names DEF EvictEnd
<1>2. /\ Put(i, Removed(At(i))) /\ Step(Cleaner, Deleting(i)) /\ UNCHANGED <<entry, env>>
  BY DEF EvictEnd
<1> HIDE DEF i
<1>3. /\ \A o \in Openers : th[o].pc = "idle"
      /\ th[Closer].pc = "idle" /\ ~ it[i].closing /\ ~ it[i].grace /\ ~ it[i].dls
  BY <1>1, EntryAt DEF Phases, Evicting
<1> QED
  BY <1>1, <1>2, <1>3, RemovedStep

(* The entry of an evicted item is taken out of the map. *)
LEMMA EvictDeleteStep ==
  ASSUME SInv, EvictDelete
  PROVE  SInv' /\ DInv'
<1> DEFINE i == th[Cleaner].item
<1>1. /\ th[Cleaner].pc = "delete" /\ i \in Items /\ entry = i
  BY ThreadAt, Names DEF EvictDelete
<1>2. entry' = None /\ Step(Cleaner, IdleThread) /\ UNCHANGED <<it, disk, env>>
  BY <1>1 DEF EvictDelete
<1> HIDE DEF i
<1>3. /\ \A o \in Openers : th[o].pc = "idle" /\ th[Closer].pc = "idle"
      /\ it[i] = NewItem /\ meta = None /\ data = None
  BY <1>1, EntryAt DEF Phases, Evicting, Loaded
<1>4. /\ th' \in [Threads -> ThreadState] /\ th'[Cleaner] = IdleThread
      /\ \A t \in Threads : t # Cleaner => th'[t] = th[t]
  BY <1>1, <1>2, Names, ThreadRecords, EntryAt DEF SInv, TInv, Step, ClosePcs
<1>5. \A t \in Threads : th'[t] = IdleThread
  <2>1. \A t \in Threads \ {Cleaner} : th[t].pc = "idle"
    BY <1>1, <1>3, NewItemState, EntryAt DEF SInv, Pcs, Owned, Threads, Phases, Evicting
  <2> QED
    BY <1>1, <1>4, <2>1, EntryAt DEF Belongs
<1>6. TInv'
  BY <1>2, <1>4 DEF SInv, TInv, disk, env
<1>7. \A j \in Items : it'[j] = NewItem
  BY <1>1, <1>2, <1>3 DEF SInv, Owned
<1>8. IdleThread.pc = "idle"
  BY DEF IdleThread
<1>9. Pcs' /\ Shut'
  BY <1>5, <1>7, <1>8, Names, NewItemState DEF Pcs, Shut
<1>10. Owned'
  BY <1>2, <1>3, <1>5, <1>7, <1>8 DEF Owned, Belongs, disk
<1> QED
  BY <1>2, <1>6, <1>9, <1>10 DEF SInv, DInv

(* The cleaner keeps everybody out of an open item. *)
LEMMA EmptyStep ==
  ASSUME SInv, NEW i \in Items, Empty(i)
  PROVE  SInv' /\ (DInv => DInv')
<1> DEFINE c == DetachDls(Here(i))
           s == [c EXCEPT !.x.beingReset = TRUE]
<1>1. /\ th[Cleaner].pc = "idle" /\ CleanerRuns /\ entry = i /\ it[i].opens > 0
      /\ it[i].pending = 0 /\ Step(Cleaner, Closing("empty", i)) /\ UNCHANGED <<entry, env>>
  BY DEF Empty
<1>2. /\ it[i] \in XState /\ Phases(it[i], th, meta, data) /\ it[i].opens \in Int
      /\ Good(Here(i)) /\ At(i) = Here(i) /\ Here(i).x = it[i]
  BY <1>1, EntryAt
<1>3. /\ th[Closer].pc = "idle" /\ ~ it[i].closing /\ ~ it[i].grace /\ it[i].loaded
      /\ \A o \in Openers : th[o].pc \notin {"reset", "close"}
  BY <1>1, <1>2, CleanerAlone DEF Phases, Loaded, Grace, Exclusive
<1>4. Put(i, s)
  BY <1>2 DEF Empty
<1>5. /\ Keeps(Here(i), c) /\ SameControl(c.x, it[i]) /\ c.x.loaded = it[i].loaded
      /\ ~ c.x.dls /\ c.x.flight = {} /\ c.x.info = it[i].info
  BY <1>2, DetachKeeps
<1> HIDE DEF c
<1>6. /\ Keeps(c, s) /\ SameCore(s.x, c.x) /\ s.x.beingReset = TRUE
      /\ s.x.opens = c.x.opens /\ s.x.grace = c.x.grace
      /\ s.x.closing = c.x.closing /\ s.x.pending = c.x.pending
  BY <1>5, SetBeingReset DEF Keeps
<1> HIDE DEF s
<1>7. /\ Keeps(Here(i), s) /\ s.x.opens = it[i].opens /\ s.x.pending = it[i].pending
      /\ s.x.loaded /\ s.x.beingReset /\ ~ s.x.grace /\ ~ s.x.closing /\ ~ s.x.dls
      /\ Follows(s.x, it[i])
  BY <1>3, <1>5, <1>6 DEF Keeps, SameControl, SameCore, Follows
<1>8. /\ Closing("empty", i) \in ThreadState /\ Closing("empty", i).pc = "empty"
      /\ Closing("empty", i).old = it[i].flight /\ Belongs(Closing("empty", i), i)
  BY <1>2, ThreadRecords DEF ClosePcs
<1>9. /\ th'[Cleaner] = Closing("empty", i) /\ Cleaner # Closer /\ Cleaner # i
      /\ \A t \in Threads : t # Cleaner => th'[t] = th[t]
  BY <1>1, Names DEF SInv, TInv, Step
<1>10. /\ Loaded(s.x, th', s.meta, s.data) /\ Evicting(s.x, th') /\ Emptying(s.x, th')
       /\ Grace(s.x) /\ Exclusive(s.x, th)
  BY <1>1, <1>3, <1>7, <1>8, <1>9, Names DEF Loaded, Evicting, Emptying, Grace, Exclusive
<1>11. Shut' /\ up' \in {"run", "closing", "closed"} /\ UNCHANGED <<origin, restarts, handleCaching>>
  BY <1>1, <1>3, <1>9, Names DEF SInv, TInv, Shut, env
<1> QED
  BY <1>1, <1>3, <1>4, <1>7, <1>8, <1>9, <1>10, <1>11, FollowsStep

(* What resetForSpace leaves of an open item. *)
Bare(s) == [RemoveFiles(closeFDLocked(s)) EXCEPT !.x.info.rs = {}]

LEMMA BareKeeps ==
  ASSUME NEW s, Good(s), s.x.loaded
  PROVE  LET r == Bare(s)
         IN  /\ Keeps(s, r) /\ SameControl(r.x, s.x) /\ r.x.loaded
             /\ r.x.info.rs = {} /\ r.x.info.fp = s.x.info.fp
             /\ r.x.dls = s.x.dls /\ r.x.flight = s.x.flight
             /\ r.data = None
<1> DEFINE r == Bare(s)
           new == [s.x.info EXCEPT !.rs = {}]
<1>1. s.x.info \in Info /\ s.x \in XState
  BY DEF Good, SState, XState
<1>2. new \in Info /\ new.rs = {} /\ new.fp = s.x.info.fp /\ new.key = s.x.info.key
  BY <1>1 DEF Info
<1>3. r.x = [s.x EXCEPT !.fd = None, !.info = new]
  BY <1>1 DEF Good, SState, XState, Bare, RemoveFiles, closeFDLocked
<1>4. r.meta = None /\ r.data = None /\ r.file = s.file /\ r.x \in XState /\ r \in SState
  <2>1. r.x \in XState
    BY <1>1, <1>2, <1>3 DEF XState
  <2> QED
    BY <1>1, <2>1 DEF Good, SState, Bare, RemoveFiles, closeFDLocked
<1> HIDE DEF r, new
<1>5. /\ r.x.info = new /\ r.x.fd = None /\ SameControl(r.x, s.x)
      /\ r.x.loaded = s.x.loaded /\ r.x.object = s.x.object /\ r.x.dls = s.x.dls
      /\ r.x.dlsObject = s.x.dlsObject /\ r.x.flight = s.x.flight
      /\ r.x.linked = s.x.linked
  <2>1. r.x.info = new /\ r.x.fd = None
    BY <1>1, <1>3 DEF XState
  <2>2. SameControl(r.x, s.x)
    BY <1>1, <1>3, <1>4 DEF XState, SameControl
  <2>3. /\ r.x.loaded = s.x.loaded /\ r.x.object = s.x.object /\ r.x.dls = s.x.dls
        /\ r.x.dlsObject = s.x.dlsObject /\ r.x.flight = s.x.flight
        /\ r.x.linked = s.x.linked
    BY <1>1, <1>3, <1>4 DEF XState
  <2> QED
    BY <2>1, <2>2, <2>3
<1>6. DiskOK(r)
  BY <1>2, <1>4, <1>5 DEF Good, DiskOK
<1>7. DlsOK(r.x)
  BY <1>2, <1>5 DEF Good, DlsOK
<1>8. SoundData(r)
  BY <1>4 DEF SoundData
<1> QED
  BY <1>2, <1>4, <1>5, <1>6, <1>7, <1>8 DEF Keeps, Good, r

(* The end of resetForSpace, with or without an error. *)
LEMMA EmptyEndStep ==
  ASSUME SInv, NEW failed \in {"none", "file", "save"}, NEW noSpace \in BOOLEAN,
         EmptyEnd(failed, noSpace)
  PROVE  SInv' /\ (DInv => DInv')
<1> DEFINE i == th[Cleaner].item
           b == Bare(Here(i))
           f == OpenFile(b)
           d == createDownloadersLocked(saveLocked(f))
<1>1. th[Cleaner].pc = "empty" /\ i \in Items /\ entry = i
  BY ThreadAt, Names DEF EmptyEnd, Emptied
<1>2. /\ it[i] \in XState /\ Phases(it[i], th, meta, data) /\ it[i].opens \in Int
      /\ Good(Here(i)) /\ At(i) = Here(i) /\ Here(i).x = it[i]
  BY <1>1, EntryAt
<1>3. /\ UNCHANGED <<entry, env>> /\ Step(Cleaner, IdleThread)
      /\ \/ Put(i, [b EXCEPT !.x.beingReset = noSpace])
         \/ Put(i, [f EXCEPT !.x.beingReset = noSpace])
         \/ Put(i, [d EXCEPT !.x.beingReset = FALSE])
  BY <1>2 DEF EmptyEnd, Emptied, Bare
<1> HIDE DEF i
<1>4. /\ it[i].beingReset /\ ~ it[i].dls /\ th[Closer].pc = "idle" /\ it[i].loaded
      /\ it[i].opens > 0 /\ it[i].pending = 0
  BY <1>1, <1>2 DEF Phases, Emptying, Loaded
<1>5. /\ ~ it[i].grace /\ ~ it[i].closing
      /\ \A o \in Openers : th[o].pc \notin {"reset", "close", "ensure", "got"}
  <2>1. Cardinality(In(th, AccessPcs)) = 0
    BY <1>2, <1>4 DEF Phases, Counts
  <2>2. \A o \in Openers : th[o].pc \notin AccessPcs
    BY <2>1, CountZero
  <2> QED
    BY <1>2, <1>4, <2>2 DEF Phases, Grace, AccessPcs
<1>6. /\ IdleThread \in ThreadState /\ IdleThread.pc = "idle" /\ IdleThread.old = {}
      /\ Belongs(IdleThread, i)
  BY <1>1, <1>2, ThreadRecords DEF ClosePcs
<1>7. /\ th'[Cleaner] = IdleThread /\ Cleaner # Closer /\ Cleaner # i
      /\ \A t \in Threads : t # Cleaner => th'[t] = th[t]
  BY <1>1, <1>3, Names DEF SInv, TInv, Step
<1>8. ASSUME NEW r, NEW n \in BOOLEAN, Keeps(Here(i), r), SameControl(r.x, it[i]),
             r.x.loaded, r.x.info.fp = it[i].info.fp, r.x.flight = it[i].flight,
             Put(i, [r EXCEPT !.x.beingReset = n])
      PROVE  SInv' /\ (DInv => DInv')
  <2> DEFINE s == [r EXCEPT !.x.beingReset = n]
  <2>1. /\ Keeps(r, s) /\ SameCore(s.x, r.x) /\ s.x.beingReset = n
        /\ s.x.opens = r.x.opens /\ s.x.grace = r.x.grace
        /\ s.x.closing = r.x.closing /\ s.x.pending = r.x.pending /\ Put(i, s)
    BY <1>8, SetBeingReset DEF Keeps
  <2> HIDE DEF s
  <2>2. /\ Keeps(Here(i), s) /\ Good(s) /\ Leaves(i, s)
        /\ s.x.opens = it[i].opens /\ s.x.pending = it[i].pending
        /\ s.x.loaded /\ ~ s.x.grace /\ ~ s.x.closing
        /\ s.x.info.fp = it[i].info.fp /\ s.x.flight = it[i].flight
    BY <1>1, <1>5, <1>8, <2>1, PutLeaves DEF Keeps, SameControl, SameCore
  <2>3. /\ Loaded(s.x, th', s.meta, s.data) /\ Evicting(s.x, th') /\ Emptying(s.x, th')
        /\ Grace(s.x) /\ Exclusive(s.x, th)
    BY <1>4, <1>5, <1>6, <1>7, <2>2 DEF Loaded, Evicting, Emptying, Grace, Exclusive
  <2>4. Shut' /\ up' \in {"run", "closing", "closed"} /\ UNCHANGED <<origin, restarts, handleCaching>>
    BY <1>3, <1>4, <1>6, <1>7, Names DEF SInv, TInv, Shut, env
  <2>5. SInv' /\ (SoundData(s) /\ ReadersOK(s.x, th') /\ StreamsOK(s.x, th') => DInv')
    BY <1>1, <1>3, <1>5, <1>6, <1>7, <2>2, <2>3, <2>4, OtherStep
  <2>6. ASSUME DInv PROVE SoundData(s) /\ ReadersOK(s.x, th') /\ StreamsOK(s.x, th')
    <3>1. SoundData(Here(i)) /\ ReadersOK(it[i], th) /\ StreamsOK(it[i], th)
      BY <1>1, <2>6, HereData
    <3>2. ReadersOK(s.x, th')
      BY <1>5, <1>7, <2>2, <3>1, Names DEF ReadersOK
    <3>3. StreamsOK(s.x, th')
      BY <1>6, <1>7, <2>2, <3>1 DEF StreamsOK
    <3> QED
      BY <2>2, <3>1, <3>2, <3>3 DEF Keeps
  <2> QED
    BY <2>5, <2>6
<1>9. /\ Keeps(Here(i), b) /\ SameControl(b.x, it[i]) /\ b.x.loaded /\ b.x.info.rs = {}
      /\ b.x.info.fp = it[i].info.fp /\ b.x.flight = it[i].flight
  BY <1>2, <1>4, BareKeeps
<1> HIDE DEF b
<1>10. /\ Keeps(b, f) /\ f.x.fd # None /\ SameControl(f.x, b.x) /\ f.x.loaded
       /\ f.x.info = b.x.info /\ f.x.flight = b.x.flight
  BY <1>1, <1>9, OpenFileKeeps DEF Keeps
<1> HIDE DEF f
<1>11. Keeps(Here(i), f) /\ SameControl(f.x, it[i])
  BY <1>9, <1>10 DEF Keeps, SameControl
<1>12. /\ Keeps(Here(i), d) /\ SameControl(d.x, it[i]) /\ d.x.loaded
       /\ d.x.info = f.x.info /\ d.x.flight = f.x.flight
  <2> DEFINE g == saveLocked(f)
  <2>1. Keeps(f, g) /\ g.x = f.x
    BY <1>10, SaveKeeps DEF Keeps
  <2> HIDE DEF g
  <2>2. /\ Keeps(g, createDownloadersLocked(g))
        /\ SameControl(createDownloadersLocked(g).x, g.x)
        /\ createDownloadersLocked(g).x.loaded = g.x.loaded
        /\ createDownloadersLocked(g).x.info = g.x.info
        /\ createDownloadersLocked(g).x.flight = g.x.flight
    BY <2>1, CreateKeeps DEF Keeps
  <2>3. d = createDownloadersLocked(g)
    BY DEF g
  <2> HIDE DEF d
  <2> QED
    BY <1>10, <1>11, <2>1, <2>2, <2>3 DEF Keeps, SameControl
<1> HIDE DEF d
<1>13. CASE Put(i, [b EXCEPT !.x.beingReset = noSpace])
  BY <1>8, <1>9, <1>13
<1>14. CASE Put(i, [f EXCEPT !.x.beingReset = noSpace])
  BY <1>8, <1>9, <1>10, <1>11, <1>14
<1>15. CASE Put(i, [d EXCEPT !.x.beingReset = FALSE])
  BY <1>8, <1>9, <1>10, <1>12, <1>15
<1> QED
  BY <1>3, <1>13, <1>14, <1>15

-----------------------------------------------------------------------------
(* Nothing but the origin or the life of the cache changes. *)
LEMMA SameStep ==
  ASSUME SInv, UNCHANGED <<entry, it, disk, th>>, Shut', origin' \in Versions,
         up' \in {"run", "closing", "closed"}, UNCHANGED <<restarts, handleCaching>>
  PROVE  SInv' /\ (DInv => DInv')
<1>1. TInv' /\ Pcs' /\ Owned'
  BY DEF SInv, TInv, Pcs, Owned, disk
<1>2. \A i \in Items : Here(i)' = Here(i)
  BY DEF Here, disk
<1>3. entry # None => entry \in Items
  BY DEF SInv, TInv
<1>4. (entry # None => Phases(it[entry], th, meta, data) /\ Good(Here(entry)))'
  BY <1>2, <1>3 DEF SInv, disk
<1>5. DInv => DInv'
  BY <1>2, <1>3 DEF DInv
<1> QED
  BY <1>1, <1>4, <1>5 DEF SInv

LEMMA ChangeStep ==
  ASSUME SInv, Change
  PROVE  SInv' /\ (DInv => DInv')
<1>1. /\ UNCHANGED <<entry, it, disk, th, up, restarts, handleCaching>>
      /\ origin' = origin + 1 /\ origin < MaxVersion
  BY DEF Change
<1>2. origin' \in Versions
  BY <1>1, ItemAssumption DEF SInv, TInv, Versions
<1>3. Shut' /\ up' \in {"run", "closing", "closed"}
  BY <1>1 DEF SInv, TInv, Shut
<1> QED
  BY <1>1, <1>2, <1>3, SameStep

(* Cache.Close begins. *)
LEMMA CacheCloseStep ==
  ASSUME SInv, CacheClose
  PROVE  SInv' /\ (DInv => DInv')
<1>1. /\ UNCHANGED <<entry, it, disk, th, origin, restarts, handleCaching>>
      /\ up = "run" /\ up' = "closing" /\ \A o \in Openers : th[o].pc \in {"idle", "open"}
  BY DEF CacheClose
<1>2. Shut'
  BY <1>1 DEF SInv, Shut
<1> QED
  BY <1>1, <1>2, SameStep DEF SInv, TInv

(* Cache.Close closes the item. *)
LEMMA CacheCloseItemStep ==
  ASSUME SInv, NEW saves \in BOOLEAN, CacheCloseItem(saves)
  PROVE  SInv' /\ (DInv => DInv')
<1>1. /\ up = "closing" /\ th[Cleaner].pc = "idle" /\ th[Closer].pc = "idle"
      /\ UNCHANGED <<entry, origin, restarts, handleCaching>>
  BY DEF CacheCloseItem
<1>2. CASE entry = None /\ up' = "closed" /\ UNCHANGED <<it, disk, th>>
  <2>1. Shut'
    BY <1>1, <1>2 DEF SInv, Shut
  <2> QED
    BY <1>1, <1>2, <2>1, SameStep DEF SInv, TInv
<1>3. CASE entry # None
  <2> DEFINE i == entry
             g == [Here(i) EXCEPT !.x.grace = FALSE]
  <2>1. i \in Items /\ entry = i
    BY <1>3 DEF SInv, TInv
  <2>2. /\ it[i] \in XState /\ Phases(it[i], th, meta, data)
        /\ Good(Here(i)) /\ At(i) = Here(i) /\ Here(i).x = it[i]
        /\ \A t \in Threads : th[t] \in ThreadState /\ Belongs(th[t], i)
    BY <2>1, EntryAt
  <2>3. \/ Put(i, actualCloseLocked(g, saves)) /\ up' = "closed" /\ UNCHANGED th
        \/ Put(i, DetachDls(g)) /\ Step(Closer, Closing("close", i)) /\ UNCHANGED up
    BY <1>3, <2>2 DEF CacheCloseItem
  <2> HIDE DEF i
  <2>4. it[i].loaded
    BY <1>1, <2>2 DEF Phases, Loaded
  <2>5. /\ Keeps(Here(i), g) /\ SameCore(g.x, it[i]) /\ g.x.grace = FALSE
        /\ g.x.opens = it[i].opens /\ g.x.closing = it[i].closing
        /\ g.x.pending = it[i].pending /\ g.x.beingReset = it[i].beingReset
    <3> DEFINE h == Here(i)
    <3>1. Good(h) /\ h.x = it[i] /\ g = [h EXCEPT !.x.grace = FALSE]
      BY <2>2
    <3> HIDE DEF h, g
    <3>2. /\ Keeps(h, g) /\ SameCore(g.x, h.x) /\ g.x.grace = FALSE
         /\ g.x.opens = h.x.opens /\ g.x.closing = h.x.closing
         /\ g.x.pending = h.x.pending /\ g.x.beingReset = h.x.beingReset
      BY <3>1, SetGrace
    <3> QED
      BY <3>1, <3>2 DEF h
  <2> HIDE DEF g
  <2>6. ASSUME NEW rec \in ThreadState, Step(Closer, rec), Belongs(rec, i),
               rec.pc \in {"idle", "close"}, rec.old \subseteq it[i].flight,
               rec.pc = "close" => up' = "closing", up' \in {"closing", "closed"},
               NEW s, Keeps(g, s), Put(i, s), s.x.loaded, SameControl(s.x, g.x),
               s.x.info = it[i].info, s.x.flight \subseteq it[i].flight,
               s.x.dls => it[i].dls
        PROVE  SInv' /\ (DInv => DInv')
    <3>1. Keeps(Here(i), s)
      BY <2>5, <2>6 DEF Keeps
    <3>2. /\ th'[Closer] = rec /\ Closer # Cleaner /\ Closer # i
          /\ \A t \in Threads : t # Closer => th'[t] = th[t]
      BY <2>1, <2>6, Names DEF SInv, TInv, Step
    <3>3. th'[Cleaner].pc = "idle"
      BY <1>1, <3>2, Names
    <3>4. /\ s.x.opens = it[i].opens /\ s.x.pending = it[i].pending /\ ~ s.x.grace
          /\ s.x.closing = it[i].closing /\ s.x.beingReset = it[i].beingReset
          /\ Follows(s.x, it[i])
      BY <2>5, <2>6 DEF SameControl, Follows
    <3>5. Loaded(s.x, th', s.meta, s.data) /\ Evicting(s.x, th') /\ Emptying(s.x, th')
      BY <2>2, <2>6, <3>3, <3>4 DEF Phases, Loaded, Evicting, Emptying
    <3>6. Grace(s.x) /\ Exclusive(s.x, th)
      BY <2>2, <2>6, <3>4 DEF Phases, Grace, Exclusive
    <3>7. Shut' /\ up' \in {"run", "closing", "closed"}
      BY <1>1, <2>6, <3>2, <3>3, Names DEF SInv, Shut
    <3> QED
      BY <1>1, <2>1, <2>6, <3>1, <3>2, <3>4, <3>5, <3>6, <3>7, FollowsStep
  <2>7. CASE Put(i, actualCloseLocked(g, saves)) /\ up' = "closed" /\ UNCHANGED th
    <3> DEFINE s == actualCloseLocked(g, saves)
    <3>1. /\ Keeps(g, s) /\ SameControl(s.x, g.x) /\ s.x.loaded /\ s.x.info = g.x.info
          /\ s.x.flight = g.x.flight /\ s.x.dls = g.x.dls /\ Put(i, s)
      BY <2>4, <2>5, <2>7, CloseKeeps DEF Keeps, SameCore
    <3> HIDE DEF s
    <3>2. /\ th[Closer] \in ThreadState /\ Step(Closer, th[Closer]) /\ Belongs(th[Closer], i)
      BY <2>2, <2>7, Names DEF Step, SInv, TInv
    <3>3. th[Closer].old = {}
      BY <1>1, <3>2 DEF Belongs, IdleThread
    <3> QED
      BY <1>1, <2>5, <2>6, <2>7, <3>1, <3>2, <3>3 DEF SameCore
  <2>8. CASE Put(i, DetachDls(g)) /\ Step(Closer, Closing("close", i)) /\ UNCHANGED up
    <3> DEFINE s == DetachDls(g)
    <3>1. /\ Keeps(g, s) /\ SameControl(s.x, g.x) /\ s.x.loaded = g.x.loaded
          /\ ~ s.x.dls /\ s.x.flight = {} /\ s.x.info = g.x.info /\ Put(i, s)
      BY <2>5, <2>8, DetachKeeps DEF Keeps
    <3> HIDE DEF s
    <3>2. /\ Closing("close", i) \in ThreadState /\ Closing("close", i).pc = "close"
          /\ Closing("close", i).old = it[i].flight /\ Belongs(Closing("close", i), i)
      BY <2>1, <2>2, ThreadRecords DEF ClosePcs
    <3>3. up' = "closing"
      BY <1>1, <2>8
    <3> QED
      BY <2>4, <2>5, <2>6, <2>8, <3>1, <3>2, <3>3 DEF SameCore
  <2> QED
    BY <2>3, <2>7, <2>8
<1> QED
  BY <1>2, <1>3 DEF CacheCloseItem

(* The scheduler Cache.Close had to wait for has ended. *)
LEMMA CacheCloseEndStep ==
  ASSUME SInv, NEW saves \in BOOLEAN, CacheCloseEnd(saves)
  PROVE  SInv' /\ (DInv => DInv')
<1> DEFINE i == th[Closer].item
           s == actualCloseLocked(Here(i), saves)
<1>1. th[Closer].pc = "close" /\ i \in Items /\ entry = i
  BY ThreadAt, Names DEF CacheCloseEnd
<1>2. /\ it[i] \in XState /\ Phases(it[i], th, meta, data)
      /\ Good(Here(i)) /\ At(i) = Here(i) /\ Here(i).x = it[i]
  BY <1>1, EntryAt
<1>3. /\ Put(i, s) /\ Step(Closer, IdleThread) /\ up' = "closed"
      /\ UNCHANGED <<entry, origin, restarts, handleCaching>>
  BY <1>2 DEF CacheCloseEnd
<1> HIDE DEF i
<1>4. up = "closing" /\ th[Cleaner].pc = "idle"
  BY <1>1 DEF SInv, Shut
<1>5. it[i].loaded
  BY <1>2, <1>4 DEF Phases, Loaded
<1>6. /\ Keeps(Here(i), s) /\ SameControl(s.x, it[i]) /\ s.x.loaded
      /\ s.x.flight = it[i].flight /\ s.x.info = it[i].info /\ s.x.dls = it[i].dls
  BY <1>2, <1>5, CloseKeeps
<1> HIDE DEF s
<1>7. /\ IdleThread \in ThreadState /\ IdleThread.pc = "idle" /\ IdleThread.old = {}
      /\ Belongs(IdleThread, i)
  BY <1>1, <1>2, ThreadRecords DEF ClosePcs
<1>8. /\ th'[Closer] = IdleThread /\ Closer # Cleaner /\ Closer # i
      /\ \A t \in Threads : t # Closer => th'[t] = th[t]
  BY <1>1, <1>3, Names DEF SInv, TInv, Step
<1>9. th'[Cleaner].pc = "idle" /\ Follows(s.x, it[i])
  BY <1>4, <1>6, <1>8, Names DEF Follows
<1>10. /\ Loaded(s.x, th', s.meta, s.data) /\ Evicting(s.x, th') /\ Emptying(s.x, th')
       /\ Grace(s.x) /\ Exclusive(s.x, th)
  BY <1>2, <1>6, <1>9 DEF Phases, SameControl, Loaded, Evicting, Emptying, Grace, Exclusive
<1>11. Shut' /\ up' \in {"run", "closing", "closed"}
  BY <1>3, <1>4, <1>7, <1>8, Names DEF SInv, Shut
<1>12. s.x.opens = it[i].opens /\ s.x.pending = it[i].pending /\ (s.x.closing <=> it[i].closing)
  BY <1>6 DEF SameControl
<1> QED
  BY <1>1, <1>3, <1>6, <1>7, <1>8, <1>9, <1>10, <1>11, <1>12, FollowsStep

-----------------------------------------------------------------------------
(* A step of the item's streams. *)
LEMMA StreamStep ==
  ASSUME SInv, NEW i \in Items, it[i] # NewItem, UNCHANGED <<entry, th, env>>,
         NEW s, Good(s), Leaves(i, s), SameControl(s.x, it[i]),
         s.x.dls = it[i].dls, s.x.loaded
  PROVE  /\ SInv'
         /\ SoundData(s) /\ ReadersOK(s.x, th) /\ StreamsOK(s.x, th) => DInv'
<1>1. entry = i
  BY InUse
<1>2. /\ Phases(it[i], th, meta, data)
      /\ \A t \in Threads : th[t] \in ThreadState /\ Belongs(th[t], i)
  BY <1>1, EntryAt
<1>3. th[Cleaner].pc # "delete"
  BY <1>2 DEF Phases, Loaded
<1>4. /\ Loaded(s.x, th, s.meta, s.data) /\ Evicting(s.x, th) /\ Emptying(s.x, th)
      /\ Grace(s.x) /\ Exclusive(s.x, th)
  BY <1>2, <1>3 DEF Phases, SameControl, Loaded, Evicting, Emptying, Grace, Exclusive
<1>5. th[Closer] \in ThreadState /\ Step(Closer, th[Closer]) /\ Belongs(th[Closer], i)
  BY <1>2, Names DEF Step, SInv, TInv
<1>6. /\ th[Closer].pc \in {"idle", "close"} /\ Closer # i /\ Closer # Cleaner
      /\ Shut' /\ up' \in {"run", "closing", "closed"}
      /\ UNCHANGED <<origin, restarts, handleCaching>>
  BY Names DEF SInv, TInv, Pcs, Shut, env
<1>7. s.x.opens = it[i].opens /\ s.x.pending = it[i].pending /\ (s.x.closing <=> it[i].closing)
  BY DEF SameControl
<1>8. th' = th
  OBVIOUS
<1> QED
  BY <1>1, <1>4, <1>5, <1>6, <1>7, <1>8, OtherStep

(* The item's scheduler opens a stream: of the item's version. *)
LEMMA FetchStep ==
  ASSUME SInv, NEW i \in Items, Fetch(i)
  PROVE  SInv' /\ (Strong = Versions /\ DInv => DInv')
<1> DEFINE h == Here(i)
           fl == it[i].flight \cup {origin}
           s == [h EXCEPT !.x.flight = fl]
<1>1. /\ it[i].dls /\ it' = [it EXCEPT ![i].flight = @ \cup {origin}]
      /\ (it[i].dlsObject \in Strong => it[i].dlsObject = origin)
      /\ UNCHANGED <<entry, disk, th, env>>
  BY DEF Fetch
<1>2. it[i] # NewItem /\ entry = i
  BY <1>1, InUse, NewItemState
<1>3. /\ it[i] \in XState /\ Good(h) /\ h.x = it[i] /\ h.file = file /\ h.data = data
      /\ h.meta = meta /\ it[i].loaded
  BY <1>2, EntryAt, HereState, HereGood DEF Phases, Loaded
<1>4. fl \subseteq Versions
  BY <1>3 DEF XState, SInv, TInv
<1>5. /\ Leaves(i, s) /\ s.data = data /\ s.file = file /\ s.meta = meta
  BY <1>1, <1>3 DEF Leaves, SInv, TInv, disk, Good, SState
<1> HIDE DEF h, fl
<1>6. s \in SState /\ SameControl(s.x, h.x) /\ s.x.flight = fl
  BY <1>3, <1>4 DEF Good, SState, XState, SameControl
<1>7. /\ s.x.info = h.x.info /\ s.x.dls = h.x.dls /\ s.x.loaded = h.x.loaded
      /\ s.x.fd = h.x.fd /\ s.x.object = h.x.object /\ s.x.linked = h.x.linked
      /\ s.x.dlsObject = h.x.dlsObject /\ s.x.unsaved = h.x.unsaved
  BY <1>3 DEF Good, SState, XState
<1> HIDE DEF s
<1>8. Good(s)
  BY <1>1, <1>3, <1>5, <1>6, <1>7 DEF Good, DiskOK, DlsOK
<1>9. SInv' /\ (SoundData(s) /\ ReadersOK(s.x, th) /\ StreamsOK(s.x, th) => DInv')
  BY <1>1, <1>2, <1>3, <1>5, <1>6, <1>7, <1>8, StreamStep
<1>10. ASSUME DInv, Strong = Versions
       PROVE  SoundData(s) /\ ReadersOK(s.x, th) /\ StreamsOK(s.x, th)
  <2>1. SoundData(h) /\ ReadersOK(it[i], th) /\ StreamsOK(it[i], th)
    BY <1>2, <1>10, HereData DEF h
  <2>2. origin \in Versions /\ it[i].object = origin /\ origin # 0
    <3>1. it[i].dlsObject = it[i].object /\ it[i].object # 0 /\ it[i].object \in 0 .. MaxVersion
      BY <1>1, <1>3 DEF Good, DlsOK, XState
    <3>2. it[i].object \in Versions
      BY <3>1, ItemAssumption DEF Versions
    <3> QED
      BY <1>1, <1>10, <3>1, <3>2
  <2>3. Sound(origin, it[i].info.fp)
    BY <1>3, <2>2 DEF Good, DlsOK, Sound
  <2>4. SoundData(s)
    BY <1>3, <1>5, <1>7, <2>1 DEF SoundData
  <2>5. ReadersOK(s.x, th)
    BY <1>3, <1>7, <2>1 DEF ReadersOK
  <2>6. StreamsOK(s.x, th)
    BY <1>3, <1>6, <1>7, <2>1, <2>3 DEF StreamsOK, fl
  <2> QED
    BY <2>4, <2>5, <2>6
<1> QED
  BY <1>9, <1>10

(* A stream ends. *)
LEMMA FetchEndStep ==
  ASSUME SInv, NEW i \in Items, NEW v \in Versions, FetchEnd(i, v)
  PROVE  SInv' /\ (DInv => DInv')
<1> DEFINE h == Here(i)
           fl == it[i].flight \ {v}
           s == [h EXCEPT !.x.flight = fl]
<1>1. /\ v \in it[i].flight /\ it' = [it EXCEPT ![i].flight = @ \ {v}]
      /\ UNCHANGED <<entry, disk, th, env>>
  BY DEF FetchEnd
<1>2. it[i] # NewItem /\ entry = i
  BY <1>1, InUse, NewItemState
<1>3. /\ it[i] \in XState /\ Good(h) /\ h.x = it[i] /\ h.file = file /\ h.data = data
      /\ h.meta = meta /\ it[i].loaded
  BY <1>2, EntryAt, HereState, HereGood DEF Phases, Loaded
<1>4. fl \subseteq Versions /\ fl \subseteq it[i].flight
  BY <1>3 DEF XState
<1>5. /\ Leaves(i, s) /\ s.data = data /\ s.file = file /\ s.meta = meta
  BY <1>1, <1>3 DEF Leaves, SInv, TInv, disk, Good, SState
<1> HIDE DEF h, fl
<1>6. s \in SState /\ SameControl(s.x, h.x) /\ s.x.flight = fl
  BY <1>3, <1>4 DEF Good, SState, XState, SameControl
<1>7. /\ s.x.info = h.x.info /\ s.x.dls = h.x.dls /\ s.x.loaded = h.x.loaded
      /\ s.x.fd = h.x.fd /\ s.x.object = h.x.object /\ s.x.linked = h.x.linked
      /\ s.x.dlsObject = h.x.dlsObject /\ s.x.unsaved = h.x.unsaved
  BY <1>3 DEF Good, SState, XState
<1> HIDE DEF s
<1>8. Good(s)
  BY <1>1, <1>3, <1>5, <1>6, <1>7 DEF Good, DiskOK, DlsOK
<1>9. SInv' /\ (SoundData(s) /\ ReadersOK(s.x, th) /\ StreamsOK(s.x, th) => DInv')
  BY <1>1, <1>2, <1>3, <1>5, <1>6, <1>7, <1>8, StreamStep
<1>10. ASSUME DInv
       PROVE  SoundData(s) /\ ReadersOK(s.x, th) /\ StreamsOK(s.x, th)
  <2>1. SoundData(h) /\ ReadersOK(it[i], th) /\ StreamsOK(it[i], th)
    BY <1>2, <1>10, HereData DEF h
  <2>2. SoundData(s)
    BY <1>3, <1>5, <1>7, <2>1 DEF SoundData
  <2>3. ReadersOK(s.x, th)
    BY <1>3, <1>7, <2>1 DEF ReadersOK
  <2>4. StreamsOK(s.x, th)
    BY <1>3, <1>4, <1>6, <1>7, <2>1 DEF StreamsOK
  <2> QED
    BY <2>2, <2>3, <2>4
<1> QED
  BY <1>9, <1>10

(* A stream, or one of a scheduler that is being closed, stores a block. *)
LEMMA WriteStep ==
  ASSUME SInv, NEW i \in Items, NEW v \in Versions, NEW b \in Blocks,
         WriteAtNoOverwrite(i, v, b)
  PROVE  SInv' /\ (DInv => DInv')
<1> DEFINE h == Here(i)
           n == it[i].fd
           new == [it[i].info EXCEPT !.rs = @ \cup {b}]
           x == [it[i] EXCEPT !.info = new]
           fs == [file EXCEPT ![n] = [file[n] EXCEPT ![b] = v]]
           s == [x |-> x, meta |-> meta, data |-> data, file |-> fs]
<1>1. /\ v \in InFlight(i) /\ b \notin it[i].info.rs /\ n # None
      /\ file' = [file EXCEPT ![n][b] = v]
      /\ it' = [it EXCEPT ![i].info.rs = @ \cup {b}]
      /\ UNCHANGED <<entry, meta, data, th, env>>
  BY DEF WriteAtNoOverwrite
<1>2. it[i] # NewItem /\ entry = i
  BY <1>1, InUse, NewItemState
<1>3. /\ it[i] \in XState /\ Good(h) /\ h.x = it[i] /\ h.file = file /\ h.data = data
      /\ h.meta = meta /\ it[i].loaded
  BY <1>1, <1>2, EntryAt, HereState, HereGood DEF Phases, Loaded
<1>4. n = data /\ n \in Inodes /\ it[i].info \in Info
  BY <1>1, <1>3 DEF Good, DiskOK, XState
<1>5. new \in Info /\ new.fp = it[i].info.fp /\ new.key = it[i].info.key
      /\ new.rs = it[i].info.rs \cup {b}
  BY <1>4 DEF Info
<1>6. file' = fs /\ it' = [it EXCEPT ![i] = x]
  <2>1. file' = fs
    BY <1>1
  <2>2. it' = [it EXCEPT ![i] = [it[i] EXCEPT !.info = [it[i].info EXCEPT !.rs = @ \cup {b}]]]
    BY <1>1
  <2> QED
    BY <2>1, <2>2
<1>7. fs \in Files /\ fs[n] = [file[n] EXCEPT ![b] = v]
  <2>1. file \in Files /\ v \in 0 .. MaxVersion
    BY ZeroVersion DEF SInv, TInv
  <2> QED
    BY <1>4, <2>1 DEF Files
<1>8. /\ s.x = x /\ s.meta = meta /\ s.data = data /\ s.file = fs
  OBVIOUS
<1> HIDE DEF h, fs, new
<1>9. x \in XState /\ SameControl(x, it[i])
  BY <1>3, <1>5 DEF XState, SameControl
<1>10. /\ x.info = new /\ x.dls = it[i].dls /\ x.loaded = it[i].loaded
       /\ x.fd = it[i].fd /\ x.object = it[i].object /\ x.linked = it[i].linked
       /\ x.dlsObject = it[i].dlsObject /\ x.flight = it[i].flight
  BY <1>3 DEF XState
<1> HIDE DEF x, n
<1>11. s \in SState
  BY <1>7, <1>9 DEF SInv, TInv, SState
<1> HIDE DEF s
<1>12. Leaves(i, s)
  BY <1>1, <1>6, <1>7, <1>8 DEF Leaves
<1>13. Good(s)
  BY <1>1, <1>3, <1>4, <1>5, <1>8, <1>10, <1>11 DEF Good, DiskOK, DlsOK, n
<1>14. SInv' /\ (SoundData(s) /\ ReadersOK(s.x, th) /\ StreamsOK(s.x, th) => DInv')
  BY <1>1, <1>2, <1>3, <1>8, <1>9, <1>10, <1>12, <1>13, StreamStep
<1>15. ASSUME DInv
       PROVE  SoundData(s) /\ ReadersOK(s.x, th) /\ StreamsOK(s.x, th)
  <2>1. SoundData(h) /\ ReadersOK(it[i], th) /\ StreamsOK(it[i], th)
    BY <1>2, <1>15, HereData DEF h
  <2>2. Sound(v, it[i].info.fp)
    BY <1>1, <2>1 DEF StreamsOK, InFlight
  <2>3. file[n] \in [Blocks -> 0 .. MaxVersion] /\ new.rs \subseteq Blocks
    BY <1>4, <1>5 DEF SInv, TInv, Files, Info
  <2>4. \A c \in new.rs : Sound(fs[n][c], new.fp)
    BY <1>1, <1>3, <1>4, <1>5, <1>7, <2>1, <2>2, <2>3 DEF SoundData
  <2>5. SoundData(s)
    BY <1>4, <1>8, <1>10, <2>4 DEF SoundData
  <2>6. ReadersOK(s.x, th)
    BY <1>5, <1>8, <1>10, <2>1 DEF ReadersOK
  <2>7. StreamsOK(s.x, th)
    BY <1>5, <1>8, <1>10, <2>1 DEF StreamsOK
  <2> QED
    BY <2>5, <2>6, <2>7
<1> QED
  BY <1>14, <1>15

-----------------------------------------------------------------------------
(* A process starts without an item and without files. *)
LEMMA InitInv ==
  ASSUME Init
  PROVE  SInv /\ DInv
<1>1. \A t \in Threads : IdleThread \in ThreadState
  BY ZeroVersion DEF IdleThread, ThreadState
<1>2. Holes \in [Blocks -> 0 .. MaxVersion]
  BY ZeroVersion DEF Holes
<1>3. origin \in Versions /\ restarts \in 0 .. MaxRestarts
  BY ItemAssumption DEF Init, Versions
<1>4. it \in [Items -> XState] /\ th \in [Threads -> ThreadState] /\ file \in Files
  BY <1>1, <1>2, NewItemState DEF Init, Files
<1>5. TInv
  BY <1>3, <1>4, ItemAssumption DEF Init, TInv
<1>6. IdleThread.pc = "idle"
  BY DEF IdleThread
<1>7. Pcs /\ Shut
  BY <1>6, Names, NewItemState DEF Init, Pcs, Shut
<1>8. Owned
  BY <1>6 DEF Init, Owned, Belongs
<1> QED
  BY <1>5, <1>7, <1>8 DEF Init, SInv, DInv

(* The process ends and a new one finds the files. *)
LEMMA RestartStep ==
  ASSUME SInv, NEW cut \in BOOLEAN, Restart(cut)
  PROVE  SInv' /\ (DInv => DInv')
<1>1. /\ th' = [t \in Threads |-> IdleThread] /\ up' = "run" /\ restarts' \in 0 .. MaxRestarts
      /\ UNCHANGED <<origin, handleCaching>>
  <2>1. restarts < MaxRestarts /\ restarts' = restarts + 1
    BY DEF Restart
  <2>2. restarts' \in 0 .. MaxRestarts
    BY <2>1, ItemAssumption DEF SInv, TInv
  <2> QED
    BY <2>2 DEF Restart
<1>2. file' = [n \in Inodes |-> IF Trusted /\ ~ cut /\ n = data THEN file[n] ELSE Holes]
  BY DEF Restart
<1>3. Holes \in [Blocks -> 0 .. MaxVersion]
  BY ZeroVersion DEF Holes
<1>4. file' \in Files
  BY <1>2, <1>3 DEF SInv, TInv, Files
<1>5. IdleThread \in ThreadState /\ IdleThread.pc = "idle" /\ IdleThread.old = {}
  BY ZeroVersion DEF IdleThread, ThreadState
<1>6. th' \in [Threads -> ThreadState] /\ \A t \in Threads : th'[t] = IdleThread
  BY <1>1, <1>5
<1>7. CASE ~ Trusted \/ cut
  <2>1. /\ entry' = None /\ meta' = None /\ data' = None /\ it' = [j \in Items |-> NewItem]
    BY <1>7 DEF Restart
  <2>2. TInv'
    BY <1>1, <1>4, <1>6, <2>1, NewItemState DEF SInv, TInv
  <2>3. \A i \in Items : it'[i] = NewItem
    BY <2>1
  <2>4. Pcs' /\ Shut'
    BY <1>5, <1>6, <2>3, Names, NewItemState DEF Pcs, Shut
  <2>5. Owned'
    BY <1>5, <1>6, <2>1, <2>3 DEF Owned, Belongs
  <2> QED
    BY <2>1, <2>2, <2>4, <2>5 DEF SInv, DInv
<1>8. CASE Trusted /\ ~ cut
  <2>1. meta # None /\ meta.key /\ data # None /\ entry # None /\ entry \in Items
        /\ meta \in Info /\ data \in Inodes /\ Good(Here(entry))
    BY <1>8 DEF Trusted, SInv, TInv, Owned
  <2>2. PICK i : i = (CHOOSE j \in Items : TRUE)
    OBVIOUS
  <2>3. i \in Items
    BY <2>1, <2>2
  <2> DEFINE x == [NewItem EXCEPT !.info = meta, !.loaded = TRUE]
  <2>4. /\ entry' = i /\ meta' = meta /\ data' = data
        /\ it' = [j \in Items |-> IF j = i THEN x ELSE NewItem]
    BY <1>8, <2>2 DEF Restart
  <2>5. /\ x \in XState /\ x.info = meta /\ x.loaded /\ x.fd = None /\ x.object = 0
        /\ ~ x.dls /\ x.dlsObject = 0 /\ x.flight = {} /\ ~ x.linked /\ x.opens = 0
        /\ ~ x.grace /\ ~ x.closing /\ x.pending = 0 /\ ~ x.beingReset
        /\ ~ x.unsaved
    BY <2>1, NewItemState DEF XState
  <2> HIDE DEF x
  <2>6. it' \in [Items -> XState] /\ it'[i] = x /\ \A j \in Items \ {i} : it'[j] = NewItem
    BY <2>3, <2>4, <2>5, NewItemState
  <2>7. TInv'
    BY <1>1, <1>4, <1>6, <2>1, <2>3, <2>4, <2>6 DEF SInv, TInv
  <2>8. Pcs' /\ Shut'
    <3>1. \A j \in Items : ~ it'[j].closing
      BY <2>5, <2>6, NewItemState
    <3>2. \A t \in Threads : th'[t].pc = "idle"
      BY <1>5, <1>6
    <3>3. Pcs'
      BY <3>1, <3>2, Names DEF Pcs
    <3>4. Shut'
      BY <3>2, Names DEF Shut
    <3> QED
      BY <3>3, <3>4
  <2>9. Owned'
    BY <1>5, <1>6, <2>1, <2>3, <2>4, <2>6, ItemAssumption DEF Owned, Belongs
  <2>10. Phases(x, th', meta', data')
    <3>1. \A o \in Openers : th'[o].pc = "idle"
      BY <1>5, <1>6, Names
    <3>2. th'[Cleaner].pc = "idle" /\ th'[Closer].pc = "idle"
      BY <1>5, <1>6, Names
    <3>3. In(th', OpenPcs) = {} /\ In(th', AccessPcs) = {}
      BY <3>1 DEF In, OpenPcs, AccessPcs
    <3>4. Counts(x, th')
      BY <2>5, <3>3, FS_EmptySet DEF Counts
    <3> QED
      BY <2>5, <3>1, <3>2, <3>4
         DEF Phases, Loaded, Evicting, Emptying, Grace, Exclusive
  <2> DEFINE h == Here(i)'
  <2>11. /\ h.x = x /\ h.meta = meta /\ h.data = data /\ h.file = file' /\ h \in SState
    BY <1>4, <2>1, <2>4, <2>5, <2>6 DEF Here, SState
  <2> HIDE DEF h
  <2>12. Good(h)
    BY <2>1, <2>5, <2>11 DEF Good, DiskOK, DlsOK
  <2>13. SInv'
    BY <2>4, <2>6, <2>7, <2>8, <2>9, <2>10, <2>12 DEF SInv, h
  <2>14. ASSUME DInv PROVE DInv'
    <3>1. SoundData(Here(entry))
      BY <2>1, <2>14 DEF DInv
    <3>2. \A b \in meta.rs : Sound(file[data][b], meta.fp)
      BY <2>1, <3>1, HereState DEF Good, DiskOK, SoundData
    <3>3. file'[data] = file[data]
      BY <1>2, <1>8, <2>1
    <3>4. SoundData(h)
      BY <2>5, <2>11, <3>2, <3>3 DEF SoundData
    <3>5. ReadersOK(x, th') /\ StreamsOK(x, th')
      BY <1>5, <1>6, <2>5, Names DEF ReadersOK, StreamsOK, OpenPcs
    <3> QED
      BY <2>4, <2>6, <3>4, <3>5 DEF DInv, h
  <2> QED
    BY <2>13, <2>14
<1> QED
  BY <1>7, <1>8

-----------------------------------------------------------------------------
(***************************************************************************)
(* The theorems.                                                           *)
(***************************************************************************)

(* The invariant is inductive. *)
LEMMA NextInv ==
  ASSUME Bounded, SInv, [Next]_vars
  PROVE  SInv' /\ (Strong = Versions /\ DInv => DInv')
<1>1. ASSUME NEW o \in Openers, OpenerNext(o)
      PROVE  SInv' /\ (DInv => DInv')
  <2>1. ASSUME NEW i \in Items, NEW v \in Versions, Apart(o, i), OpenNext(o, i, v)
        PROVE  SInv' /\ (DInv => DInv')
    <3>1. ASSUME NEW readable \in BOOLEAN,
                 \/ OpenRefused(o, i, v, readable) \/ OpenReset(o, i, v, readable)
                 \/ Settled(o, i, v, readable) /\ OpenDone(o, i, v, readable)
          PROVE  SInv' /\ (DInv => DInv')
      BY <2>1, <3>1, OpenRefusedStep, OpenResetStep, OpenDoneStep
    <3> QED
      BY <2>1, <3>1, OpenWaitStep DEF OpenNext
  <2>2. ASSUME NEW saves \in BOOLEAN, Release(o, saves) \/ ReleaseEnd(o, saves)
        PROVE  SInv' /\ (DInv => DInv')
    BY <2>2, ReleaseStep, ReleaseEndStep
  <2>3. CASE \E b \in Blocks : ReadBegin(o, b)
    BY <2>3, ReadBeginStep
  <2> QED
    BY <1>1, <2>1, <2>2, <2>3, OpenAfterResetStep, ReadServedStep,
       ReadEndStep DEF OpenerNext
<1>2. ASSUME NEW i \in Items, ItemNext(i)
      PROVE  SInv' /\ (Strong = Versions /\ DInv => DInv')
  <2>1. CASE \E v \in Versions : FetchEnd(i, v)
    BY <2>1, FetchEndStep
  <2>2. CASE \E v \in Versions, b \in Blocks : WriteAtNoOverwrite(i, v, b)
    BY <2>2, WriteStep
  <2>3. ASSUME NEW saves \in BOOLEAN, GraceClose(i, saves) \/ GraceCloseEnd(i, saves)
        PROVE  SInv' /\ (DInv => DInv')
    BY <2>3, GraceCloseStep, GraceCloseEndStep
  <2> QED
    BY <1>2, <2>1, <2>2, <2>3, FetchStep DEF ItemNext
<1>3. ASSUME CleanerNext
      PROVE  SInv' /\ (DInv => DInv')
  <2>1. CASE \E i \in Items : (Quiet(i) /\ Evict(i)) \/ Empty(i)
    BY <2>1, EvictStep, EmptyStep
  <2>2. CASE \E failed \in {"none", "file", "save"}, noSpace \in BOOLEAN :
               EmptyEnd(failed, noSpace)
    BY <2>2, EmptyEndStep
  <2> QED
    BY <1>3, <2>1, <2>2, EvictEndStep, EvictDeleteStep DEF CleanerNext
<1>4. ASSUME UNCHANGED vars
      PROVE  SInv' /\ (DInv => DInv')
  <2>1. /\ UNCHANGED <<entry, it, disk, th>> /\ UNCHANGED <<restarts, handleCaching>>
        /\ UNCHANGED origin /\ UNCHANGED up
    BY <1>4 DEF vars, disk
  <2>2. Shut' /\ origin' \in Versions /\ up' \in {"run", "closing", "closed"}
    BY <2>1 DEF SInv, TInv, Shut
  <2> QED
    BY <2>1, <2>2, SameStep
<1>5. ASSUME NEW saves \in BOOLEAN, CacheCloseItem(saves) \/ CacheCloseEnd(saves)
      PROVE  SInv' /\ (DInv => DInv')
  BY <1>5, CacheCloseItemStep, CacheCloseEndStep
<1>6. ASSUME NEW cut \in BOOLEAN, Restart(cut)
      PROVE  SInv' /\ (DInv => DInv')
  BY <1>6, RestartStep
<1> QED
  BY <1>1, <1>2, <1>3, <1>4, <1>5, <1>6, ChangeStep, CacheCloseStep DEF Next

LEMMA StructureHolds ==
  ASSUME Overlap = {}
  PROVE  Spec => []SInv
<1>1. Init => SInv
  BY InitInv
<1>2. SInv /\ [Next]_vars => SInv'
  BY NextInv DEF Bounded
<1> QED
  BY <1>1, <1>2, PTL DEF Spec

LEMMA DataHolds ==
  ASSUME Overlap = {}, Strong = Versions
  PROVE  Spec => [](SInv /\ DInv)
<1>1. Init => SInv /\ DInv
  BY InitInv
<1>2. SInv /\ DInv /\ [Next]_vars => (SInv /\ DInv)'
  BY NextInv DEF Bounded
<1> QED
  BY <1>1, <1>2, PTL DEF Spec

(***************************************************************************)
(* Every variable of the item and the disk keeps its type: the readers and *)
(* the accesses preAccess counts are never fewer than none and never more  *)
(* than the requests there are.                                            *)
(***************************************************************************)
THEOREM ItemTypes ==
  ASSUME Overlap = {}
  PROVE  Spec => []TypeOK
<1>1. ASSUME SInv PROVE TypeOK
  <2>1. IsFiniteSet(Openers) /\ Cardinality(Openers) \in Nat
    BY NamesAssumption, FS_CardinalityType
  <2>2. \A i \in Items : it[i].opens \in 0 .. Cardinality(Openers)
                         /\ it[i].pending \in 0 .. Cardinality(Openers)
    <3> SUFFICES ASSUME NEW i \in Items
                 PROVE  /\ it[i].opens \in 0 .. Cardinality(Openers)
                        /\ it[i].pending \in 0 .. Cardinality(Openers)
      OBVIOUS
    <3>1. CASE entry = i
      <4>1. Counts(it[i], th)
        BY <1>1, <3>1, HereCounts
      <4>2. \A P : /\ Cardinality(In(th, P)) \in Nat
                   /\ Cardinality(In(th, P)) <= Cardinality(Openers)
        <5>1. \A P : In(th, P) \subseteq Openers
          BY DEF In
        <5> QED
          BY <2>1, <5>1, FS_Subset, FS_CardinalityType
      <4> QED
        BY <2>1, <4>1, <4>2 DEF Counts
    <3>2. CASE entry # i
      BY <1>1, <2>1, <3>2, NewItemState DEF SInv, Owned
    <3> QED
      BY <3>1, <3>2
  <2>3. it \in [Items -> ItemState]
    BY <1>1, <2>2 DEF SInv, TInv, XState, ItemState
  <2> QED
    BY <1>1, <2>3 DEF SInv, TInv, TypeOK, Files
<1> QED
  BY <1>1, StructureHolds, PTL

(***************************************************************************)
(* The metadata file of the key always carries the key, whatever Open, the *)
(* cleaner, Cache.Close or a crash between two writes did last: an Open is *)
(* never refused for the "metadata key" of loadLocked.                     *)
(***************************************************************************)
THEOREM MetadataKey ==
  ASSUME Overlap = {}
  PROVE  Spec => []MetaHasKey
<1>1. ASSUME SInv PROVE MetaHasKey
  <2>1. CASE entry = None
    BY <1>1, <2>1 DEF SInv, Owned, MetaHasKey
  <2>2. CASE entry # None
    <3>1. Good(Here(entry)) /\ Here(entry).meta = meta
      BY <1>1, <2>2 DEF SInv, Here
    <3> QED
      BY <3>1 DEF Good, DiskOK, MetaHasKey
  <2> QED
    BY <2>1, <2>2
<1> QED
  BY <1>1, StructureHolds, PTL

(***************************************************************************)
(* The metadata on disk has the ranges of a closed item: whichever of the  *)
(* last Reader, the grace timer or Cache.Close closes it, it saves after   *)
(* the last write of the streams.  If that save fails, the metadata has    *)
(* fewer ranges and never one that the item does not have.                 *)
(***************************************************************************)
THEOREM FinalRanges ==
  ASSUME Overlap = {}
  PROVE  Spec => []FinalRangesPersisted
<1>1. ASSUME SInv PROVE FinalRangesPersisted
  <2> SUFFICES ASSUME NEW i \in Items, it[i].loaded, it[i].fd = None, entry = i
               PROVE  /\ (IF meta = None THEN {} ELSE meta.rs) \subseteq it[i].info.rs
                      /\ \/ it[i].info.rs \subseteq IF meta = None THEN {} ELSE meta.rs
                         \/ it[i].unsaved
    BY DEF FinalRangesPersisted
  <2>1. Good(Here(i)) /\ Here(i).x = it[i] /\ Here(i).meta = meta
    BY <1>1, EntryAt, HereState
  <2> QED
    BY <2>1 DEF Good, DiskOK
<1> QED
  BY <1>1, StructureHolds, PTL

(***************************************************************************)
(* Every cached range of an open item is in its file, in the version the   *)
(* fingerprint stands for, when every version has a validator.             *)
(***************************************************************************)
THEOREM CachedRanges ==
  ASSUME Overlap = {}, Strong = Versions
  PROVE  Spec => []RangesSound
<1>1. ASSUME SInv, DInv PROVE RangesSound
  <2> SUFFICES ASSUME NEW i \in Items, it[i].fd # None, NEW b \in it[i].info.rs
               PROVE  Sound(file[it[i].fd][b], it[i].info.fp)
    BY DEF RangesSound, Sound
  <2>1. entry = i
    BY <1>1, InUse, NewItemState
  <2>2. /\ Good(Here(i)) /\ Here(i).x = it[i] /\ Here(i).data = data
        /\ Here(i).file = file /\ SoundData(Here(i))
    BY <1>1, <2>1, EntryAt, HereState, HereData
  <2>3. it[i].fd = data
    BY <2>2 DEF Good, DiskOK
  <2> QED
    BY <2>2, <2>3 DEF SoundData
<1> QED
  BY <1>1, DataHolds, PTL

(***************************************************************************)
(* What a process that starts now would trust is true of the data file, at *)
(* every moment, so a crash at any point makes no sparse byte trusted.     *)
(***************************************************************************)
THEOREM TrustedMetadata ==
  ASSUME Overlap = {}, Strong = Versions
  PROVE  Spec => []MetaSound
<1>1. ASSUME SInv, DInv PROVE MetaSound
  <2> SUFFICES ASSUME Trusted, NEW b \in meta.rs
               PROVE  Sound(file[data][b], meta.fp)
    BY DEF MetaSound, Sound
  <2>1. meta # None /\ data # None /\ entry # None /\ entry \in Items
    BY <1>1 DEF Trusted, SInv, TInv, Owned
  <2>2. /\ Good(Here(entry)) /\ Here(entry).x = it[entry] /\ Here(entry).data = data
        /\ Here(entry).file = file /\ Here(entry).meta = meta /\ SoundData(Here(entry))
    BY <1>1, <2>1, EntryAt, HereState, HereData
  <2>3. b \in it[entry].info.rs /\ meta.fp = it[entry].info.fp
    BY <2>1, <2>2 DEF Good, DiskOK
  <2> QED
    BY <2>1, <2>2, <2>3 DEF SoundData
<1> QED
  BY <1>1, DataHolds, PTL

(***************************************************************************)
(* A read of a Reader never returns bytes of another version or of a hole, *)
(* whatever the cleaner, the other requests, changes of the origin and     *)
(* restarts do meanwhile.                                                  *)
(***************************************************************************)
THEOREM ReadVersion ==
  ASSUME Overlap = {}, Strong = Versions
  PROVE  Spec => []ReadsReturnVersion
<1>1. ASSUME SInv, DInv PROVE ReadsReturnVersion
  <2> SUFFICES ASSUME NEW o \in Openers, th[o].pc = "got", it[th[o].item].fd # None
               PROVE  file[it[th[o].item].fd][th[o].blk] = th[o].ver
    BY DEF ReadsReturnVersion
  <2> DEFINE i == th[o].item
  <2>1. i \in Items /\ entry = i /\ it[i].fd # None
    BY <1>1, OpenerAt
  <2>2. /\ Good(Here(i)) /\ Here(i).x = it[i] /\ Here(i).data = data
        /\ Here(i).file = file /\ SoundData(Here(i)) /\ ReadersOK(it[i], th)
    BY <1>1, <2>1, EntryAt, HereState, HereData
  <2>3. it[i].fd = data /\ data \in Inodes
    BY <1>1, <2>1, <2>2 DEF Good, DiskOK, SInv, TInv
  <2>4. /\ th[o].blk \in it[i].info.rs /\ Sound(th[o].ver, it[i].info.fp)
        /\ Sound(file[data][th[o].blk], it[i].info.fp)
    BY <2>1, <2>2, <2>3 DEF ReadersOK, SoundData, OpenPcs
  <2>5. th[o].ver \in Versions /\ file[data][th[o].blk] \in Versions
    <3>1. it[i].info.rs \subseteq Blocks
      BY <1>1, <2>1, EntryAt DEF XState, Info
    <3>2. file[data][th[o].blk] \in 0 .. MaxVersion
      BY <1>1, <2>3, <2>4, <3>1 DEF SInv, TInv, Files
    <3> QED
      BY <1>1, <2>4, <3>2, ItemAssumption DEF SInv, Pcs, Sound, Versions
  <2> QED
    BY <2>3, <2>4, <2>5 DEF Sound, Fingerprint
<1> QED
  BY <1>1, DataHolds, PTL

-----------------------------------------------------------------------------
(* Operations that leave the item its file. *)
LEMMA FileOps ==
  ASSUME NEW s, Good(s)
  PROVE  /\ DetachDls(s).x.fd = s.x.fd /\ createDownloadersLocked(s).x.fd = s.x.fd
         /\ EndAccess(s).x.fd = s.x.fd
         /\ \A n : [s EXCEPT !.x.pending = n].x.fd = s.x.fd
         /\ \A n : [s EXCEPT !.x.opens = n].x.fd = s.x.fd
         /\ \A n : [s EXCEPT !.x.beingReset = n].x.fd = s.x.fd
BY DEF Good, SState, XState, DetachDls, createDownloadersLocked, EndAccess

(* A step of a request leaves an item that had Readers and has some, its   *)
(* file.                                                                   *)
LEMMA OpenerKeepsFile ==
  ASSUME Bounded, SInv, NEW o \in Openers, OpenerNext(o), NEW i \in Items,
         it[i].opens > 0, it[i].fd # None, it'[i].opens > 0
  PROVE  it'[i].fd # None
<1>1. entry = i
  BY InUse, NewItemState
<1>2. /\ it[i] \in XState /\ Phases(it[i], th, meta, data) /\ Good(Here(i))
      /\ At(i) = Here(i) /\ Here(i).x = it[i] /\ it \in [Items -> XState]
  BY <1>1, EntryAt DEF SInv, TInv
<1>3. ASSUME NEW j \in Items, NEW s, Put(j, s), j = i => s.x.fd # None
      PROVE  it'[i].fd # None
  BY <1>2, <1>3 DEF Put
<1>4. ASSUME NEW v, NEW j \in Items, Apart(o, j), Entered(o, j, v) PROVE j = i
  BY <1>1, <1>4, EnteredFacts, ItemAssumption
<1>5. th[o].pc # "idle" => th[o].item = i
  BY <1>1, ThreadAt, Names
<1>6. ASSUME NEW v, NEW readable \in BOOLEAN, Apart(o, i), Entered(o, i, v)
      PROVE  /\ Good(Begun(o, i, readable)) /\ Begun(o, i, readable).x.fd = it[i].fd
             /\ Begun(o, i, readable).x.loaded /\ Begun(o, i, readable).x.opens = it[i].opens
  <2>1. /\ Keeps(Here(i), Begun(o, i, readable)) /\ Begun(o, i, readable).x.loaded
        /\ Begun(o, i, readable).x.opens = it[i].opens
    BY <1>6, BegunFacts
  <2>2. Begun(o, i, readable).x.fd = it[i].fd
    <3>1. it[i].loaded
      BY <1>1, <1>2, <1>6, EnteredFacts DEF Phases, Loaded
    <3> QED
      BY <1>2, <3>1 DEF Begun, loadLocked, Good, SState, XState
  <2> QED
    BY <2>1, <2>2 DEF Keeps
<1>7. CASE \E j \in Items, v \in Versions : OpenWait(o, j, v)
  <2>1. PICK j \in Items : it' = it \/ it' = [it EXCEPT ![j].pending = @ + 1]
    BY <1>7 DEF OpenWait
  <2> QED
    BY <1>2, <2>1 DEF XState
<1>8. CASE \E j \in Items, v \in Versions, readable \in BOOLEAN :
               Apart(o, j) /\ OpenRefused(o, j, v, readable)
  <2>1. PICK j \in Items, v \in Versions, readable \in BOOLEAN :
           Apart(o, j) /\ OpenRefused(o, j, v, readable)
    BY <1>8
  <2>2. j = i /\ Entered(o, i, v) /\ Apart(o, i)
    BY <1>4, <2>1 DEF OpenRefused
  <2>3. Put(i, EndAccess(Begun(o, i, readable)))
    BY <1>1, <2>1, <2>2, AlwaysLoads DEF OpenRefused
  <2> QED
    BY <1>3, <1>6, <2>2, <2>3, FileOps
<1>9. CASE \E j \in Items, v \in Versions, readable \in BOOLEAN :
               Apart(o, j) /\ OpenReset(o, j, v, readable)
  <2>1. PICK j \in Items, v \in Versions, readable \in BOOLEAN :
           Apart(o, j) /\ OpenReset(o, j, v, readable)
    BY <1>9
  <2>2. j = i /\ Entered(o, i, v) /\ Apart(o, i) /\ NeedsReset(Begun(o, i, readable), v)
    BY <1>4, <2>1 DEF OpenReset
  <2> QED
    BY <1>6, <2>2 DEF NeedsReset
<1>10. CASE \E j \in Items, v \in Versions, readable \in BOOLEAN :
               Apart(o, j) /\ OpenDone(o, j, v, readable)
  <2>1. PICK j \in Items, v \in Versions, readable \in BOOLEAN :
           Apart(o, j) /\ OpenDone(o, j, v, readable)
    BY <1>10
  <2> DEFINE b == Begun(o, i, readable)
             p == EndAccess(Prepared(b, v))
             q == saveLocked([p EXCEPT !.x.opens = @ + 1])
  <2>2. j = i /\ Entered(o, i, v) /\ Apart(o, i)
    BY <1>4, <2>1 DEF OpenDone
  <2>3. Good(b) /\ b.x.loaded /\ b.x.opens = it[i].opens
    BY <1>6, <2>2
  <2>4. ~ Changed(b, v) /\ ~ NeedsReset(b, v)
    BY <2>1, <2>2, <2>3 DEF OpenDone, NeedsReset
  <2>5. b.x.info.fp = Fingerprint(v)
    BY <2>3, <2>4 DEF Changed
  <2>6. Finish(o, i, v, b)
    BY <2>1, <2>2, <2>4 DEF OpenDone
  <2>7. Put(i, p) \/ Put(i, q)
    BY <2>6 DEF Finish
  <2> HIDE DEF b
  <2>8. p.x.fd # None /\ SameCore(q.x, p.x)
    BY <1>1, <2>3, <2>5, FinishStates
  <2> HIDE DEF p, q
  <2> QED
    BY <1>3, <2>7, <2>8 DEF SameCore
<1>11. CASE OpenAfterReset(o) \/ \E saves \in BOOLEAN : ReleaseEnd(o, saves)
  <2>1. th[o].pc \in {"reset", "close"}
    BY <1>11 DEF OpenAfterReset, ReleaseEnd
  <2> QED
    BY <1>2, <2>1 DEF Phases, Exclusive
<1>12. CASE \E b \in Blocks : ReadBegin(o, b)
  <2>1. PICK b \in Blocks : ReadBegin(o, b)
    BY <1>12
  <2> DEFINE s == IF b \in it[i].info.rs THEN Here(i) ELSE createDownloadersLocked(Here(i))
  <2>2. Put(i, [s EXCEPT !.x.pending = @ + 1])
    BY <1>2, <1>5, <2>1 DEF ReadBegin
  <2>3. Good(s) /\ s.x.fd = it[i].fd
    BY <1>2, FileOps, CreateKeeps DEF Keeps
  <2> HIDE DEF s
  <2>4. [s EXCEPT !.x.pending = @ + 1].x.fd = s.x.fd
    BY <2>3, FileOps
  <2> QED
    BY <1>3, <2>2, <2>3, <2>4
<1>13. CASE ReadServed(o) \/ ReadEnd(o)
  BY <1>2, <1>13 DEF ReadServed, ReadEnd, XState
<1>14. ASSUME NEW saves \in BOOLEAN, Release(o, saves)
       PROVE  it'[i].fd # None
  <2>1. \/ it[i].opens > 1 /\ Put(i, Released(i))
        \/ it[i].opens = 1
    BY <1>5, <1>14 DEF Release
  <2>2. CASE it[i].opens > 1 /\ Put(i, Released(i))
    <3>1. Released(i).x.fd = it[i].fd
      BY <1>2, FileOps DEF Released
    <3> QED
      BY <1>3, <2>2, <3>1
  <2>3. CASE it[i].opens = 1
    <3> DEFINE e == th[o].item
               d == Released(e)
               c == DetachDls(d)
    <3>1. e = i
      BY <1>14, <1>5 DEF Release
    <3>2. it[i].loaded /\ it[i].pending \in Int /\ it[i].opens \in Int
      BY <1>14, <1>5, OpenerAt DEF Release
    <3>3. \/ Put(e, [d EXCEPT !.x.grace = TRUE]) \/ Put(e, actualCloseLocked(d, saves))
          \/ Put(e, [c EXCEPT !.x.pending = @ + 1])
      BY <1>14, <2>3, <3>1 DEF Release
    <3>4. Good(d) /\ d.x.opens = 0 /\ d.x.loaded
      <4>1. d = [Here(i) EXCEPT !.x.opens = 0]
        BY <1>2, <2>3, <3>1 DEF Released
      <4> HIDE DEF d
      <4> QED
        BY <1>2, <3>2, <4>1, SetOpens DEF Keeps, SameCore
    <3> HIDE DEF d, e
    <3>5. [d EXCEPT !.x.grace = TRUE].x.opens = 0
      BY <3>4, SetGrace
    <3>6. actualCloseLocked(d, saves).x.opens = 0
      BY <3>4, CloseKeeps DEF SameControl
    <3>7. Good(c) /\ c.x.opens = 0
      BY <3>4, DetachKeeps DEF Keeps, SameControl
    <3> HIDE DEF c
    <3>8. [c EXCEPT !.x.pending = @ + 1].x.opens = 0
      BY <3>7 DEF Good, SState, XState
    <3>9. it'[i].opens = 0
      BY <1>2, <3>1, <3>3, <3>5, <3>6, <3>8 DEF Put
    <3> QED
      BY <3>9
  <2> QED
    BY <2>1, <2>2, <2>3
<1> QED
  BY <1>7, <1>8, <1>9, <1>10, <1>11, <1>12, <1>13, <1>14 DEF OpenerNext, OpenNext

(* So does every other step but a reset for space, Cache.Close and a       *)
(* restart.                                                                *)
LEMMA FileKept ==
  ASSUME Bounded, SInv, [Next]_vars, NEW i \in Items,
         it[i].opens > 0, it[i].fd # None, it'[i].opens > 0,
         th[Cleaner].pc # "empty", up = "run"
  PROVE  it'[i].fd # None
<1>1. entry = i
  BY InUse, NewItemState
<1>2. /\ it[i] \in XState /\ Phases(it[i], th, meta, data) /\ Good(Here(i))
      /\ At(i) = Here(i) /\ Here(i).x = it[i] /\ it \in [Items -> XState]
  BY <1>1, EntryAt DEF SInv, TInv
<1>3. CASE \E o \in Openers : OpenerNext(o)
  BY <1>3, OpenerKeepsFile
<1>4. CASE \E j \in Items : ItemNext(j)
  <2>1. PICK j \in Items : ItemNext(j)
    BY <1>4
  <2>2. CASE Fetch(j)
    BY <1>2, <2>2 DEF Fetch, XState
  <2>3. CASE \E v \in Versions : FetchEnd(j, v)
    BY <1>2, <2>3 DEF FetchEnd, XState
  <2>4. CASE \E v \in Versions, b \in Blocks : WriteAtNoOverwrite(j, v, b)
    <3>1. \E inf : it' = [it EXCEPT ![j].info = inf]
      BY <2>4 DEF WriteAtNoOverwrite
    <3> QED
      BY <1>2, <3>1 DEF XState
  <2>5. CASE \E saves \in BOOLEAN : GraceClose(j, saves) \/ GraceCloseEnd(j, saves)
    <3>1. it[j] # NewItem /\ it[j].opens = 0
      <4>1. CASE \E saves \in BOOLEAN : GraceClose(j, saves)
        BY <4>1, NewItemState DEF GraceClose
      <4>2. CASE \E saves \in BOOLEAN : GraceCloseEnd(j, saves)
        <5>1. it[j].closing
          BY <4>2 DEF GraceCloseEnd, SInv, Pcs
        <5>2. entry = j
          BY <5>1, InUse, NewItemState
        <5> QED
          BY <5>1, <5>2, EntryAt, NewItemState DEF Phases, Grace
      <4> QED
        BY <2>5, <4>1, <4>2
    <3>2. j = i
      BY <1>1, <3>1, InUse
    <3> QED
      BY <3>1, <3>2
  <2> QED
    BY <2>1, <2>2, <2>3, <2>4, <2>5 DEF ItemNext
<1>5. CASE CleanerNext
  <2>1. CASE \E j \in Items : Evict(j)
    BY <1>1, <2>1 DEF Evict
  <2>2. CASE \E j \in Items : Empty(j)
    <3>1. PICK j \in Items : Empty(j)
      BY <2>2
    <3> DEFINE c == DetachDls(Here(i))
    <3>2. Put(i, [c EXCEPT !.x.beingReset = TRUE])
      BY <1>1, <1>2, <3>1 DEF Empty
    <3>3. Good(c) /\ c.x.fd = it[i].fd
      BY <1>2, DetachKeeps DEF Keeps
    <3> HIDE DEF c
    <3>4. [c EXCEPT !.x.beingReset = TRUE].x.fd = c.x.fd
      BY <3>3, FileOps
    <3> QED
      BY <1>2, <3>2, <3>3, <3>4 DEF Put
  <2>3. CASE EvictEnd
    <3>1. In(th, OpenPcs) = {}
      BY <1>2, <2>3 DEF EvictEnd, Phases, Evicting, In, OpenPcs
    <3> QED
      BY <1>2, <3>1, FS_EmptySet DEF Phases, Counts
  <2>4. CASE EvictDelete
    BY <2>4 DEF EvictDelete
  <2>5. CASE \E failed \in {"none", "file", "save"}, noSpace \in BOOLEAN :
               EmptyEnd(failed, noSpace)
    BY <2>5 DEF EmptyEnd, Emptied
  <2> QED
    BY <1>5, <2>1, <2>2, <2>3, <2>4, <2>5 DEF CleanerNext
<1>6. CASE Change \/ CacheClose \/ UNCHANGED vars
  BY <1>6 DEF Change, CacheClose, vars
<1>7. CASE \E saves \in BOOLEAN : CacheCloseItem(saves) \/ CacheCloseEnd(saves)
  BY <1>7 DEF CacheCloseItem, CacheCloseEnd, SInv, Shut
<1>8. CASE \E cut \in BOOLEAN : Restart(cut)
  <2>1. \A j \in Items : it'[j].opens = 0
    BY <1>8, NewItemState DEF Restart, NewItem
  <2> QED
    BY <2>1
<1> QED
  BY <1>3, <1>4, <1>5, <1>6, <1>7, <1>8 DEF Next

(* With a grace period no Reader's Close is ever in the window of          *)
(* actualCloseLocked: the timer closes the item.                           *)
Graced == handleCaching => SInv /\ \A o \in Openers : th[o].pc # "close"

LEMMA GraceNext ==
  ASSUME Overlap \subseteq {"close"}, Graced, [Next]_vars
  PROVE  Graced'
<1> SUFFICES ASSUME handleCaching'
             PROVE  SInv' /\ \A o \in Openers : th'[o].pc # "close"
  BY DEF Graced
<1>1. handleCaching' = handleCaching
  <2>1. CASE \E o \in Openers : OpenerNext(o)
    <3>1. PICK o \in Openers : OpenerNext(o)
      BY <2>1
    <3>2. ASSUME NEW i, NEW v, OpenNext(o, i, v)
          PROVE  UNCHANGED env
      BY <3>2 DEF OpenNext, OpenWait, OpenRefused, OpenReset, OpenDone, Finish
    <3>3. UNCHANGED env
      BY <3>1, <3>2 DEF OpenerNext, OpenAfterReset, Finish, ReadBegin, ReadServed,
                        ReadEnd, Release, ReleaseEnd
    <3> QED
      BY <3>3 DEF env
  <2>2. CASE \E i \in Items : ItemNext(i)
    BY <2>2 DEF ItemNext, Fetch, FetchEnd, WriteAtNoOverwrite, GraceClose, GraceCloseEnd, env
  <2>3. CASE CleanerNext
    BY <2>3 DEF CleanerNext, Evict, Empty, EvictEnd, EvictDelete, EmptyEnd, Emptied, env
  <2>4. CASE Change \/ CacheClose \/ UNCHANGED vars
    BY <2>4 DEF Change, CacheClose, vars
  <2>5. CASE \E saves \in BOOLEAN : CacheCloseItem(saves) \/ CacheCloseEnd(saves)
    BY <2>5 DEF CacheCloseItem, CacheCloseEnd
  <2>6. CASE \E cut \in BOOLEAN : Restart(cut)
    BY <2>6 DEF Restart
  <2> QED
    BY <2>1, <2>2, <2>3, <2>4, <2>5, <2>6 DEF Next
<1>2. SInv /\ \A o \in Openers : th[o].pc # "close"
  BY <1>1 DEF Graced
<1>3. Bounded
  BY <1>2 DEF Bounded
<1>4. SInv'
  BY <1>2, <1>3, NextInv
<1> SUFFICES \A o \in Openers : th'[o].pc # "close"
  BY <1>4
<1>5. ASSUME NEW t \in Threads, NEW rec, Step(t, rec), t \in Openers => rec.pc # "close"
      PROVE  \A o \in Openers : th'[o].pc # "close"
  BY <1>2, <1>5, Names DEF SInv, TInv, Step
<1>6. ASSUME UNCHANGED th
      PROVE  \A o \in Openers : th'[o].pc # "close"
  BY <1>2, <1>6
<1>7. /\ IdleThread.pc # "close"
      /\ \A pc, i, v : Opening(pc, i, v).pc = pc
      /\ \A i, v, old : [Opening("reset", i, v) EXCEPT !.old = old].pc = "reset"
  BY DEF IdleThread, Opening
<1>8. ASSUME NEW o \in Openers, OpenerNext(o)
      PROVE  \E rec : Step(o, rec) /\ rec.pc # "close"
  <2>1. ASSUME NEW i, NEW v, NEW s, Finish(o, i, v, s)
        PROVE  \E rec : Step(o, rec) /\ rec.pc # "close"
    BY <1>7, <2>1 DEF Finish
  <2>2. ASSUME NEW i, NEW v, OpenNext(o, i, v)
        PROVE  \E rec : Step(o, rec) /\ rec.pc # "close"
    BY <1>7, <2>1, <2>2 DEF OpenNext, OpenWait, OpenRefused, OpenReset, OpenDone
  <2>3. CASE OpenAfterReset(o)
    BY <2>1, <2>3 DEF OpenAfterReset
  <2>4. CASE \/ ReadServed(o) \/ ReadEnd(o)
             \/ \E b \in Blocks : ReadBegin(o, b)
    <3>1. th[o] \in ThreadState
      BY <1>2, Names DEF SInv, TInv
    <3>2. /\ [th[o] EXCEPT !.pc = "got"].pc = "got"
          /\ [th[o] EXCEPT !.pc = "open", !.blk = None].pc = "open"
          /\ \A b, pc : [th[o] EXCEPT !.blk = b, !.pc = pc].pc = pc
      BY <3>1 DEF ThreadState
    <3>3. CASE ReadServed(o) \/ ReadEnd(o)
      BY <3>2, <3>3 DEF ReadServed, ReadEnd
    <3>4. CASE \E b \in Blocks : ReadBegin(o, b)
      <4>1. PICK b \in Blocks, pc \in {"got", "ensure"} :
               Step(o, [th[o] EXCEPT !.blk = b, !.pc = pc])
        BY <3>4 DEF ReadBegin
      <4> QED
        BY <3>2, <4>1
    <3> QED
      BY <2>4, <3>3, <3>4
  <2>5. CASE \E saves \in BOOLEAN : Release(o, saves)
    BY <1>1, <1>7, <2>5 DEF Release
  <2>6. CASE \E saves \in BOOLEAN : ReleaseEnd(o, saves)
    BY <1>2, <2>6 DEF ReleaseEnd
  <2> QED
    BY <1>8, <2>2, <2>3, <2>4, <2>5, <2>6 DEF OpenerNext
<1>9. CASE \E o \in Openers : OpenerNext(o)
  BY <1>5, <1>8, <1>9, Names
<1>10. CASE \E i \in Items : ItemNext(i)
  <2>1. PICK i \in Items : ItemNext(i)
    BY <1>10
  <2>2. UNCHANGED th \/ \E rec : Step(i, rec)
    BY <2>1 DEF ItemNext, Fetch, FetchEnd, WriteAtNoOverwrite, GraceClose, GraceCloseEnd
  <2> QED
    BY <1>5, <1>6, <2>2, Names
<1>11. CASE CleanerNext
  <2>1. \E rec : Step(Cleaner, rec)
    BY <1>11 DEF CleanerNext, Evict, Empty, EvictEnd, EvictDelete, EmptyEnd
  <2> QED
    BY <1>5, <2>1, Names
<1>12. CASE Change \/ CacheClose \/ UNCHANGED vars
  BY <1>6, <1>12 DEF Change, CacheClose, vars
<1>13. CASE \E saves \in BOOLEAN : CacheCloseItem(saves) \/ CacheCloseEnd(saves)
  <2>1. UNCHANGED th \/ \E rec : Step(Closer, rec)
    BY <1>13 DEF CacheCloseItem, CacheCloseEnd
  <2> QED
    BY <1>5, <1>6, <2>1, Names
<1>14. CASE \E cut \in BOOLEAN : Restart(cut)
  BY <1>7, <1>14, Names DEF Restart
<1> QED
  BY <1>4, <1>9, <1>10, <1>11, <1>12, <1>13, <1>14 DEF Next

(***************************************************************************)
(* With a grace period the file of an item that has Readers is closed      *)
(* under them only by the cleaner's reset or by Cache.Close: a Reader that *)
(* closes, the grace timer and an eviction find that it is not theirs to   *)
(* close.  Opens during a closing are allowed (the "close" overlap): the   *)
(* grace timer and item.closing keep them apart.                           *)
(***************************************************************************)
THEOREM ReadersKeepTheFile ==
  ASSUME Overlap \subseteq {"close"}
  PROVE  Spec => ReadersKeepFile
<1>1. Init => Graced
  <2>1. IdleThread.pc # "close"
    BY DEF IdleThread
  <2> QED
    BY <2>1, InitInv, Names DEF Graced, Init
<1>2. Graced /\ [Next]_vars => Graced'
  BY GraceNext
<1>3. Graced /\ [Next]_vars =>
        [handleCaching =>
           \A i \in Items :
             it[i].opens > 0 /\ it'[i].opens > 0 /\ it[i].fd # None /\ it'[i].fd = None
                => th[Cleaner].pc = "empty" \/ up # "run"]_vars
  BY FileKept DEF Graced, Bounded
<1> QED
  BY <1>1, <1>2, <1>3, PTL DEF Spec, ReadersKeepFile
=============================================================================
