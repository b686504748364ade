--------------------------- MODULE CleanerProofs ---------------------------
(***************************************************************************)
(* Proofs about Cleaner, for every set of kickers and of callers of Clean. *)
(***************************************************************************)
EXTENDS Cleaner, TLAPS

(***************************************************************************)
(* The mutexes of KickCleaner: who is between taking and releasing them.   *)
(* A kicker that sends has raised outOfSpace and keeps c.mu, so that no    *)
(* pass can clear the flag before its kick is received.                    *)
(***************************************************************************)
MutexInv ==
    /\ \A k \in Kickers : kpc[k] \in {"kick", "send"} => kickerMu = k
    /\ \A k \in Kickers : kpc[k] = "send" => mu = k /\ outOfSpace

(* A kicked pass is a pass under way. *)
KickedPassInv ==
    kickedPass => pass[Cleaner] \in {"snapshot", "evict", "unkick", "clear"}

IInv == /\ TypeOK /\ MutexInv /\ KickedPassInv
        /\ SleeperHasPass /\ KickedHasPass

(***************************************************************************)
(* No step takes a field out of its type: a kicker's, a pass's or Close's. *)
(***************************************************************************)
LEMMA KickerKeepsTypes ==
    ASSUME TypeOK, NEW k \in Kickers, KickNext(k)
    PROVE  TypeOK'
BY DEF TypeOK, Passers, KickNext, KickCall, KickJoin, KickFirst, KickFlag,
       KickSend, KickSleep, KickReturn, GoTo

(* The steps of a pass keep the types. *)
LEMMA PassKeepsTypes ==
    ASSUME TypeOK, NEW t \in Passers, PassBegin(t) \/ PassRuns(t)
    PROVE  TypeOK'
<1> USE DEF TypeOK, Passers
<1>clear. CASE PassClear(t)
  BY <1>clear DEF PassClear, PassTo
<1>other. CASE PassBegin(t) \/ PassSnapshot(t) \/ PassEvict(t) \/ PassUnkick(t)
  BY <1>other DEF PassBegin, PassSnapshot, PassEvict, PassUnkick, PassTo
<1> QED
  BY <1>clear, <1>other DEF PassRuns

(* So do the steps of Cache.Close. *)
LEMMA CloseKeepsTypes ==
    ASSUME TypeOK, CleanerExit \/ CloseMark \/ CloseRuns
    PROVE  TypeOK'
BY DEF TypeOK, Passers, CleanerExit, PassTo, CloseMark, CloseRuns,
       CloseCancel, CloseWait, CloseItems

(***************************************************************************)
(* The state of the cleaner, its mutexes and its flags stay in their       *)
(* types.                                                                  *)
(***************************************************************************)
THEOREM TypeCorrect == Spec => []TypeOK
<1>init. Init => TypeOK
  BY DEF Init, TypeOK, Passers
<1>step. TypeOK /\ Next => TypeOK'
  BY KickerKeepsTypes, PassKeepsTypes, CloseKeepsTypes DEF Next
<1>stutter. TypeOK /\ UNCHANGED vars => TypeOK'
  BY DEF vars, TypeOK
<1> QED
  BY <1>init, <1>step, <1>stutter, PTL DEF Spec

(***************************************************************************)
(* The invariant is inductive.  outOfSpace and cleanerKicked each change   *)
(* hands once: from the kicker that raised them to the pass it started.    *)
(***************************************************************************)
LEMMA InitIInv == Init => IInv
BY TypeCorrect DEF Init, IInv, TypeOK, Passers, MutexInv, KickedPassInv,
                   SleeperHasPass, KickedHasPass

(* Every step keeps the invariant. *)
LEMMA NextIInv == IInv /\ [Next]_vars /\ TypeOK' => IInv'
<1> SUFFICES ASSUME IInv, [Next]_vars, TypeOK'
             PROVE  MutexInv' /\ KickedPassInv' /\ SleeperHasPass' /\ KickedHasPass'
  BY DEF IInv
<1> USE ThreadsAssumption DEF IInv, TypeOK, Passers
<1>1. ASSUME NEW k \in Kickers, KickCall(k) \/ KickJoin(k) \/ KickReturn(k)
      PROVE  MutexInv' /\ KickedPassInv' /\ SleeperHasPass' /\ KickedHasPass'
  <2> USE <1>1 DEF KickCall, KickJoin, KickReturn, GoTo
  <2>1. MutexInv' /\ KickedPassInv'
    BY DEF MutexInv, KickedPassInv
  <2>2. SleeperHasPass'
    <3>1. \A o \in Kickers : kpc'[o] = "sleep" <=> kpc[o] = "sleep"
      OBVIOUS
    <3>2. \A o \in Kickers : kpc[o] = "send" => kpc'[o] = "send"
      OBVIOUS
    <3>3. QED
      BY <3>1, <3>2 DEF SleeperHasPass
  <2>3. KickedHasPass'
    BY DEF KickedHasPass
  <2>4. QED
    BY <2>1, <2>2, <2>3
<1>2. ASSUME NEW k \in Kickers, KickFirst(k)
      PROVE  MutexInv' /\ KickedPassInv' /\ SleeperHasPass' /\ KickedHasPass'
  <2> USE <1>2 DEF KickFirst, GoTo
  <2>1. MutexInv' /\ KickedPassInv'
    BY DEF MutexInv, KickedPassInv
  <2>2. SleeperHasPass'
    BY DEF SleeperHasPass
  <2>3. KickedHasPass'
    BY DEF KickedHasPass
  <2>4. QED
    BY <2>1, <2>2, <2>3
<1>3. ASSUME NEW k \in Kickers, KickFlag(k)
      PROVE  MutexInv' /\ KickedPassInv' /\ SleeperHasPass' /\ KickedHasPass'
  <2> USE <1>3 DEF KickFlag, GoTo
  <2>1. MutexInv' /\ KickedPassInv'
    BY DEF MutexInv, KickedPassInv
  <2>2. kpc'[k] = "send"
    OBVIOUS
  <2>3. SleeperHasPass' /\ KickedHasPass'
    BY <2>2 DEF SleeperHasPass, KickedHasPass
  <2>4. QED
    BY <2>1, <2>3
<1>4. ASSUME NEW k \in Kickers, KickSend(k)
      PROVE  MutexInv' /\ KickedPassInv' /\ SleeperHasPass' /\ KickedHasPass'
  <2> USE <1>4 DEF KickSend, GoTo
  <2>1. pass'[Cleaner] = "snapshot" /\ kickedPass'
    OBVIOUS
  <2>2. MutexInv'
    BY DEF MutexInv
  <2>3. QED
    BY <2>1, <2>2 DEF KickedPassInv, SleeperHasPass, KickedHasPass
<1>5. ASSUME NEW k \in Kickers, KickSleep(k)
      PROVE  MutexInv' /\ KickedPassInv' /\ SleeperHasPass' /\ KickedHasPass'
  <2> USE <1>5 DEF KickSleep, GoTo
  <2>1. MutexInv' /\ KickedPassInv'
    BY DEF MutexInv, KickedPassInv
  <2>2. SleeperHasPass'
    BY DEF SleeperHasPass
  <2>3. KickedHasPass'
    BY DEF KickedHasPass
  <2>4. QED
    BY <2>1, <2>2, <2>3
<1>6. ASSUME NEW t \in Passers,
             PassBegin(t) \/ PassSnapshot(t) \/ PassEvict(t) \/ PassUnkick(t)
      PROVE  MutexInv' /\ KickedPassInv' /\ SleeperHasPass' /\ KickedHasPass'
  <2> USE <1>6 DEF PassBegin, PassSnapshot, PassEvict, PassUnkick, PassTo
  <2>1. MutexInv' /\ KickedPassInv'
    BY DEF MutexInv, KickedPassInv
  <2>2. SleeperHasPass'
    BY DEF SleeperHasPass, KickedPassInv
  <2>3. KickedHasPass'
    BY DEF KickedHasPass, KickedPassInv
  <2>4. QED
    BY <2>1, <2>2, <2>3
<1>7. ASSUME NEW t \in Passers, PassClear(t)
      PROVE  MutexInv' /\ KickedPassInv' /\ SleeperHasPass' /\ KickedHasPass'
  <2> USE <1>7 DEF PassClear, PassTo
  <2>1. \A k \in Kickers : kpc[k] # "send" /\ kpc'[k] # "sleep"
    BY DEF MutexInv
  <2>2. MutexInv' /\ KickedPassInv'
    BY <2>1 DEF MutexInv, KickedPassInv
  <2>3. SleeperHasPass'
    BY <2>1 DEF SleeperHasPass
  <2>4. KickedHasPass'
    BY DEF KickedHasPass
  <2>5. QED
    BY <2>2, <2>3, <2>4
<1>8. CASE CleanerExit
  BY <1>8 DEF CleanerExit, PassTo, MutexInv, KickedPassInv, SleeperHasPass,
              KickedHasPass
<1>9. CASE CloseMark \/ CloseRuns
  BY <1>9 DEF CloseMark, CloseRuns, CloseCancel, CloseWait, CloseItems,
              MutexInv, KickedPassInv, SleeperHasPass, KickedHasPass
<1>10. CASE UNCHANGED vars
  BY <1>10 DEF vars, MutexInv, KickedPassInv, SleeperHasPass, KickedHasPass
<1>11. QED
  BY <1>1, <1>2, <1>3, <1>4, <1>5, <1>6, <1>7, <1>8, <1>9, <1>10
     DEF Next, KickNext, PassRuns

(* The invariant holds in every reachable state. *)
LEMMA Invariance == Spec => []IInv
<1>1. Spec => []TypeOK
  BY TypeCorrect
<1>2. QED
  BY <1>1, InitIInv, NextIInv, PTL DEF Spec

(***************************************************************************)
(* Nobody sleeps on outOfSpace, and the flag is never up, without a kick   *)
(* about to be handed over or a kicked pass on its way to clear it.        *)
(***************************************************************************)
THEOREM SleeperIsServed == Spec => []SleeperHasPass
<1>1. IInv => SleeperHasPass
  BY DEF IInv
<1>2. QED
  BY <1>1, Invariance, PTL

(***************************************************************************)
(* cleanerKicked never stays up without a kick or a pass behind it, so a   *)
(* later ENOSPC always starts a pass.                                      *)
(***************************************************************************)
THEOREM KickIsServed == Spec => []KickedHasPass
<1>1. IInv => KickedHasPass
  BY DEF IInv
<1>2. QED
  BY <1>1, Invariance, PTL

-----------------------------------------------------------------------------
(***************************************************************************)
(* KickCleaner waits for a pass, where nobody calls Clean from outside: a  *)
(* kicker that has seen no pass end since its call finds the flag up, and  *)
(* a kicked pass keeps it up until it clears it for everybody.             *)
(***************************************************************************)
WaitInv ==
    /\ \A k \in Kickers : kpc[k] \in {"wait", "sleep"} /\ k \notin cleared => outOfSpace
    /\ kickedPass /\ pass[Cleaner] \in {"snapshot", "evict", "unkick"} => outOfSpace

(* Every step keeps what a waiting kicker has seen. *)
LEMMA NextWaitInv ==
  ASSUME Callers = {}
  PROVE  IInv /\ WaitInv /\ [Next]_vars => WaitInv'
<1> SUFFICES ASSUME IInv, WaitInv, [Next]_vars
             PROVE  WaitInv'
  OBVIOUS
<1> USE ThreadsAssumption DEF IInv, TypeOK, Passers, WaitInv
<1>1. ASSUME NEW k \in Kickers, KickJoin(k)
      PROVE  WaitInv'
  <2>1. outOfSpace
    BY <1>1 DEF KickJoin, MutexInv, KickedHasPass
  <2>2. QED
    BY <1>1, <2>1 DEF KickJoin, GoTo
<1>2. ASSUME NEW k \in Kickers, KickSend(k)
      PROVE  WaitInv'
  BY <1>2 DEF KickSend, GoTo, MutexInv
<1>3. ASSUME NEW k \in Kickers,
             KickCall(k) \/ KickFirst(k) \/ KickFlag(k) \/ KickSleep(k) \/ KickReturn(k)
      PROVE  WaitInv'
  BY <1>3 DEF KickCall, KickFirst, KickFlag, KickSleep, KickReturn, GoTo
<1>4. ASSUME PassBegin(Cleaner)
      PROVE  WaitInv'
  BY <1>4 DEF PassBegin, PassTo, KickedPassInv
<1>5. ASSUME PassSnapshot(Cleaner) \/ PassEvict(Cleaner) \/ PassUnkick(Cleaner)
      PROVE  WaitInv'
  BY <1>5 DEF PassSnapshot, PassEvict, PassUnkick, PassTo
<1>6. ASSUME PassClear(Cleaner)
      PROVE  WaitInv'
  BY <1>6 DEF PassClear, PassTo
<1>7. CASE CleanerExit \/ CloseMark \/ CloseRuns \/ UNCHANGED vars
  BY <1>7 DEF CleanerExit, CloseMark, CloseRuns, CloseCancel, CloseWait,
              CloseItems, PassTo, vars
<1>8. QED
  BY <1>1, <1>2, <1>3, <1>4, <1>5, <1>6, <1>7 DEF Next, KickNext, PassRuns

(***************************************************************************)
(* KickCleaner never returns before a pass has ended since it was called,  *)
(* if only the cleaner goroutine cleans.                                   *)
(***************************************************************************)
THEOREM KickWaits ==
  ASSUME Callers = {}
  PROVE  Spec => KickWaitsForPass
<1>1. Init => WaitInv
  BY DEF Init, WaitInv
<1>2. IInv /\ WaitInv /\ [Next]_vars => WaitInv'
  BY NextWaitInv
<1>3. Spec => []WaitInv
  BY <1>1, <1>2, Invariance, PTL DEF Spec
<1>4. WaitInv /\ [Next]_vars => [\A k \in Kickers : KickReturn(k) => k \in cleared]_vars
  BY DEF WaitInv, KickReturn
<1>5. QED
  BY <1>3, <1>4, PTL DEF Spec, KickWaitsForPass
=============================================================================
