------------------------------ MODULE Cleaner ------------------------------
(***************************************************************************)
(* The cleaner goroutine of the cache and the threads that wake it         *)
(* (src/cache/cache.go: cleaner, clean, KickCleaner, Close): two mutexes,  *)
(* an unbuffered channel and a condition variable.                         *)
(*                                                                         *)
(* A reader or an opener that met ENOSPC calls KickCleaner and blocks on   *)
(* c.cond until a pass has cleared c.outOfSpace.  What a pass evicts is    *)
(* the business of the item; here a pass is the critical sections of c.mu  *)
(* and c.kickerMu it goes through.  A critical section that never blocks   *)
(* inside is one step that needs the mutex to be free; KickCleaner keeps   *)
(* both mutexes while it sends, so it holds them over several steps.       *)
(***************************************************************************)
EXTENDS Integers, FiniteSets

CONSTANTS
    Kickers,    \* threads that call KickCleaner
    Callers,    \* threads that call Clean
    Cleaner,    \* the cleaner goroutine
    Free        \* "nobody holds the mutex"

ASSUME ThreadsAssumption ==
    /\ Kickers \cap Callers = {}
    /\ Cleaner \notin Kickers \cup Callers
    /\ Free \notin Kickers

VARIABLES
    kickerMu,        \* its holder
    mu,              \* Cache.mu: its holder
    cleanerKicked,   \* Cache.cleanerKicked
    outOfSpace,      \* Cache.outOfSpace
    kpc,             \* the kickers
    pass,            \* the passes: of the cleaner and of the callers of Clean
    kickedPass,      \* the cleaner's pass is clean(true)
    ctxDone, cpc,    \* Cache.ctx is cancelled; the thread in Cache.Close
    cleared          \* history: kickers that saw a pass end since their call

vars == <<kickerMu, mu, cleanerKicked, outOfSpace, kpc, pass, kickedPass,
          ctxDone, cpc, cleared>>

Passers == Callers \cup {Cleaner}

TypeOK ==
    /\ kickerMu \in Kickers \cup {Free}
    /\ mu \in Kickers \cup {Free}
    /\ cleanerKicked \in BOOLEAN /\ outOfSpace \in BOOLEAN
    /\ kpc \in [Kickers -> {"idle", "call", "kick", "send", "wait", "sleep"}]
    /\ pass \in [Passers -> {"off", "snapshot", "evict", "unkick", "clear",
                             "exit"}]
    /\ kickedPass \in BOOLEAN /\ ctxDone \in BOOLEAN
    /\ cpc \in {"open", "cancel", "wait", "items", "done"}
    /\ cleared \subseteq Kickers

Init ==
    /\ kickerMu = Free /\ mu = Free
    /\ cleanerKicked = FALSE /\ outOfSpace = FALSE
    /\ kpc = [k \in Kickers |-> "idle"]
    /\ pass = [t \in Passers |-> "off"]
    /\ kickedPass = FALSE
    /\ ctxDone = FALSE /\ cpc = "open"
    /\ cleared = {}

-----------------------------------------------------------------------------
(***************************************************************************)
(* KickCleaner                                                             *)
(***************************************************************************)
GoTo(k, to) == kpc' = [kpc EXCEPT ![k] = to]

(* A read or an open failed with ENOSPC. *)
KickCall(k) ==
    /\ kpc[k] = "idle"
    /\ GoTo(k, "call") /\ cleared' = cleared \ {k}
    /\ UNCHANGED <<kickerMu, mu, cleanerKicked, outOfSpace, pass, kickedPass,
                   ctxDone, cpc>>

(* kickerMu is taken; if the cleaner has been kicked already it is let go. *)
KickJoin(k) ==
    /\ kpc[k] = "call" /\ kickerMu = Free /\ cleanerKicked
    /\ GoTo(k, "wait")
    /\ UNCHANGED <<kickerMu, mu, cleanerKicked, outOfSpace, pass, kickedPass,
                   ctxDone, cpc, cleared>>

KickFirst(k) ==
    /\ kpc[k] = "call" /\ kickerMu = Free /\ ~ cleanerKicked
    /\ kickerMu' = k /\ cleanerKicked' = TRUE
    /\ GoTo(k, "kick")
    /\ UNCHANGED <<mu, outOfSpace, pass, kickedPass, ctxDone, cpc, cleared>>

\* Mutant of KickFlag: the kick is sent without raising the flag.
KickWithoutFlag(k) ==
    /\ kpc[k] = "kick" /\ mu = Free
    /\ mu' = k
    /\ GoTo(k, "send")
    /\ UNCHANGED <<kickerMu, cleanerKicked, outOfSpace, pass, kickedPass,
                   ctxDone, cpc, cleared>>

KickFlag(k) ==
    /\ kpc[k] = "kick" /\ mu = Free
    /\ mu' = k /\ outOfSpace' = TRUE
    /\ GoTo(k, "send")
    /\ UNCHANGED <<kickerMu, cleanerKicked, pass, kickedPass, ctxDone, cpc,
                   cleared>>

\* Mutant of KickSend: the mutex goes to the receiver with the kick.
KickSendsMutex(k) ==
    /\ kpc[k] = "send" /\ pass[Cleaner] = "off"
    /\ pass' = [pass EXCEPT ![Cleaner] = "snapshot"] /\ kickedPass' = TRUE
    /\ mu' = Cleaner /\ kickerMu' = Free
    /\ GoTo(k, "wait")
    /\ UNCHANGED <<cleanerKicked, outOfSpace, ctxDone, cpc, cleared>>

(* c.kick <- struct{}{} meets the receive of the cleaner's select. *)
KickSend(k) ==
    /\ kpc[k] = "send" /\ pass[Cleaner] = "off"
    /\ pass' = [pass EXCEPT ![Cleaner] = "snapshot"] /\ kickedPass' = TRUE
    /\ mu' = Free /\ kickerMu' = Free
    /\ GoTo(k, "wait")
    /\ UNCHANGED <<cleanerKicked, outOfSpace, ctxDone, cpc, cleared>>

(* The loop around c.cond.Wait. *)
\* Mutant of KickSleep: the flag is tested the wrong way round.
KickSleepWhenClear(k) ==
    /\ kpc[k] = "wait" /\ mu = Free /\ ~ outOfSpace
    /\ GoTo(k, "sleep")
    /\ UNCHANGED <<kickerMu, mu, cleanerKicked, outOfSpace, pass, kickedPass,
                   ctxDone, cpc, cleared>>

KickSleep(k) ==
    /\ kpc[k] = "wait" /\ mu = Free /\ outOfSpace
    /\ GoTo(k, "sleep")
    /\ UNCHANGED <<kickerMu, mu, cleanerKicked, outOfSpace, pass, kickedPass,
                   ctxDone, cpc, cleared>>

KickReturn(k) ==
    /\ kpc[k] = "wait" /\ mu = Free /\ ~ outOfSpace
    /\ GoTo(k, "idle")
    /\ UNCHANGED <<kickerMu, mu, cleanerKicked, outOfSpace, pass, kickedPass,
                   ctxDone, cpc, cleared>>

-----------------------------------------------------------------------------
(***************************************************************************)
(* clean(kicked)                                                           *)
(***************************************************************************)
PassTo(t, to) == pass' = [pass EXCEPT ![t] = to]

(* snapshotCandidates *)
PassSnapshot(t) ==
    /\ pass[t] = "snapshot" /\ mu = Free
    /\ PassTo(t, "evict")
    /\ UNCHANGED <<kickerMu, mu, cleanerKicked, outOfSpace, kpc, kickedPass,
                   ctxDone, cpc, cleared>>

(* removeUnused, rememberFailedReset, retryFailedResets. *)
PassEvict(t) ==
    /\ pass[t] = "evict" /\ mu = Free
    /\ PassTo(t, IF t = Cleaner /\ kickedPass THEN "unkick" ELSE "clear")
    /\ UNCHANGED <<kickerMu, mu, cleanerKicked, outOfSpace, kpc, kickedPass,
                   ctxDone, cpc, cleared>>

\* Mutant of PassUnkick: the kick is forgotten.
PassUnkickNot(t) ==
    /\ pass[t] = "unkick" /\ kickerMu = Free
    /\ PassTo(t, "clear")
    /\ UNCHANGED <<kickerMu, mu, cleanerKicked, outOfSpace, kpc, kickedPass,
                   ctxDone, cpc, cleared>>

PassUnkick(t) ==
    /\ pass[t] = "unkick" /\ kickerMu = Free
    /\ cleanerKicked' = FALSE
    /\ PassTo(t, "clear")
    /\ UNCHANGED <<kickerMu, mu, outOfSpace, kpc, kickedPass, ctxDone, cpc,
                   cleared>>

(* outOfSpace = false; c.cond.Broadcast() *)
PassClear(t) ==
    /\ pass[t] = "clear" /\ mu = Free
    /\ outOfSpace' = FALSE
    /\ kpc' = [k \in Kickers |-> IF kpc[k] = "sleep" THEN "wait" ELSE kpc[k]]
    /\ cleared' = { k \in Kickers : kpc[k] # "idle" }
    /\ PassTo(t, "off")
    /\ kickedPass' = IF t = Cleaner THEN FALSE ELSE kickedPass
    /\ UNCHANGED <<kickerMu, mu, cleanerKicked, ctxDone, cpc>>

(* The cleaner's ticker, and Clean called from outside. *)
PassBegin(t) ==
    /\ pass[t] = "off"
    /\ PassTo(t, "snapshot")
    /\ UNCHANGED <<kickerMu, mu, cleanerKicked, outOfSpace, kpc, kickedPass,
                   ctxDone, cpc, cleared>>

CleanerExit ==
    /\ pass[Cleaner] = "off" /\ ctxDone
    /\ PassTo(Cleaner, "exit")
    /\ UNCHANGED <<kickerMu, mu, cleanerKicked, outOfSpace, kpc, kickedPass,
                   ctxDone, cpc, cleared>>

-----------------------------------------------------------------------------
(***************************************************************************)
(* Cache.Close                                                             *)
(***************************************************************************)
CloseMark ==
    /\ cpc = "open" /\ mu = Free
    /\ cpc' = "cancel"
    /\ UNCHANGED <<kickerMu, mu, cleanerKicked, outOfSpace, kpc, pass,
                   kickedPass, ctxDone, cleared>>

CloseCancel ==
    /\ cpc = "cancel"
    /\ ctxDone' = TRUE /\ cpc' = "wait"
    /\ UNCHANGED <<kickerMu, mu, cleanerKicked, outOfSpace, kpc, pass,
                   kickedPass, cleared>>

CloseWait ==
    /\ cpc = "wait" /\ pass[Cleaner] = "exit"
    /\ cpc' = "items"
    /\ UNCHANGED <<kickerMu, mu, cleanerKicked, outOfSpace, kpc, pass,
                   kickedPass, ctxDone, cleared>>

CloseItems ==
    /\ cpc = "items" /\ mu = Free
    /\ cpc' = "done"
    /\ UNCHANGED <<kickerMu, mu, cleanerKicked, outOfSpace, kpc, pass,
                   kickedPass, ctxDone, cleared>>

-----------------------------------------------------------------------------
KickNext(k) == \/ KickCall(k) \/ KickJoin(k) \/ KickFirst(k) \/ KickFlag(k)
               \/ KickSend(k) \/ KickSleep(k) \/ KickReturn(k)

KickRuns(k) == KickNext(k) /\ kpc[k] # "idle"

PassRuns(t) == PassSnapshot(t) \/ PassEvict(t) \/ PassUnkick(t) \/ PassClear(t)

CloseRuns == CloseCancel \/ CloseWait \/ CloseItems

Next == \/ \E k \in Kickers : KickNext(k)
        \/ \E t \in Passers : PassBegin(t) \/ PassRuns(t)
        \/ CleanerExit
        \/ CloseMark \/ CloseRuns

Spec == Init /\ [][Next]_vars

(***************************************************************************)
(* Every goroutine that can run does; mutexes do not starve (strong        *)
(* fairness for the steps that take one).  Nobody has to call KickCleaner, *)
(* Clean or Close, and the ticker need not tick.                           *)
(***************************************************************************)
FairSpec == /\ Spec
            /\ \A k \in Kickers : SF_vars(KickRuns(k))
            /\ \A t \in Passers : SF_vars(PassRuns(t))
            /\ SF_vars(CleanerExit)
            /\ SF_vars(CloseRuns)

-----------------------------------------------------------------------------
(***************************************************************************)
(* Whoever waits for outOfSpace to be cleared has somebody who clears it:  *)
(* the flag is only up while a kicker is about to hand over its kick or a  *)
(* pass that ends by clearing it is under way, whatever passes of the      *)
(* ticker, calls of Clean and kicks overlap.                               *)
(***************************************************************************)
SleeperHasPass ==
    outOfSpace \/ (\E k \in Kickers : kpc[k] = "sleep")
        => \/ \E k \in Kickers : kpc[k] = "send"
           \/ kickedPass /\ pass[Cleaner] \in {"snapshot", "evict", "unkick", "clear"}

(***************************************************************************)
(* cleanerKicked never outlives the kick it stands for: if it stayed up,   *)
(* KickCleaner would return at once for ever after and no later ENOSPC     *)
(* would start a pass.                                                     *)
(***************************************************************************)
KickedHasPass ==
    cleanerKicked
        => \/ \E k \in Kickers : kpc[k] \in {"kick", "send"}
           \/ kickedPass /\ pass[Cleaner] \in {"snapshot", "evict", "unkick"}

(***************************************************************************)
(* "waits until that cleaning pass releases blocked I/O" (cache.go:476):   *)
(* KickCleaner does not return before a pass has ended since it was        *)
(* called, also for a kicker that finds the cleaner kicked already.        *)
(***************************************************************************)
KickWaitsForPass ==
    [][\A k \in Kickers : KickReturn(k) => k \in cleared]_vars

(***************************************************************************)
(* KickCleaner returns (cache.go:476, "wakes the cleaner after an ENOSPC   *)
(* error and waits until that cleaning pass releases blocked I/O").        *)
(***************************************************************************)
KickReturns == \A k \in Kickers : kpc[k] = "call" ~> kpc[k] = "idle"
=============================================================================
