------------------------------- MODULE Pool -------------------------------
(***************************************************************************)
(* The global pool of page-sized buffers                                   *)
(* (src/internal/engine/bufferpool/pool.go): a cache of free buffers, the  *)
(* counters inUse and alloced, and a timer that frees what has not been    *)
(* needed since it last fired.  A buffer has no identity here: the pool    *)
(* only counts them.  The memory semaphore is never created, since the     *)
(* pool is built from the default Config, whose MaxBufferMemory is 0, and  *)
(* an allocation without mmap cannot fail: GetN's retry loop runs once.    *)
(***************************************************************************)
EXTENDS Naturals

CONSTANT PoolSize   \* BufferCacheSize, the capacity of cache

ASSUME PoolAssumption == PoolSize \in Nat

VARIABLES
    cached,        \* len(cache)
    minFill,       \* the least len(cache) since the last flush
    inUse, alloced,
    flushPending,
    timer          \* time.AfterFunc is armed

poolVars == <<cached, minFill, inUse, alloced, flushPending, timer>>

PoolTypeOK ==
    /\ cached \in 0 .. PoolSize
    /\ minFill \in Nat /\ inUse \in Nat /\ alloced \in Nat
    /\ flushPending \in BOOLEAN /\ timer \in BOOLEAN

PoolInit ==
    /\ cached = 0 /\ minFill = 0 /\ inUse = 0 /\ alloced = 0
    /\ flushPending = FALSE /\ timer = TRUE

Least(a, b) == IF b < a THEN b ELSE a

updateMinFill == minFill' = Least(minFill, cached')

(* A timer that is already pending is not pushed back. *)
kickFlusher ==
    /\ flushPending' = TRUE
    /\ timer' = IF flushPending THEN timer ELSE TRUE

\* Mutant of GetN: the fill level is not recorded.
GetN_NoUpdateMinFill(n) ==
    LET have == Least(cached, n)
    IN  /\ cached' = cached - have
        /\ alloced' = alloced + (n - have)
        /\ inUse' = inUse + n
        /\ UNCHANGED <<minFill, flushPending, timer>>

GetN(n) ==
    LET have == Least(cached, n)
    IN  /\ cached' = cached - have
        /\ alloced' = alloced + (n - have)
        /\ inUse' = inUse + n
        /\ updateMinFill
        /\ UNCHANGED <<flushPending, timer>>

\* Mutant of PutN: the cache's capacity is ignored.
PutN_NoLimit(n) ==
    /\ cached' = cached + n
    /\ inUse' = inUse - n
    /\ updateMinFill
    /\ kickFlusher
    /\ UNCHANGED alloced

(* Put is PutN of one buffer: what does not fit into the cache is freed. *)
PutN(n) ==
    /\ cached' = Least(cached + n, PoolSize)
    /\ alloced' = alloced - (cached + n - cached')
    /\ inUse' = inUse - n
    /\ updateMinFill
    /\ kickFlusher

(* flushAged, when the timer fires: the buffers that stayed in the cache   *)
(* since the last time are freed, and the timer is armed again as long as  *)
(* some are left.                                                          *)
FlushAged ==
    /\ timer
    /\ cached' = cached - minFill
    /\ alloced' = alloced - minFill
    /\ minFill' = cached'
    /\ flushPending' = (cached' # 0)
    /\ timer' = (cached' # 0)
    /\ UNCHANGED inUse

(* Buffers that rest in the pool are due to be freed: the flush timer is   *)
(* armed as long as there is one, and it never frees more than there are.  *)
RestIsFlushed == /\ cached > 0 => timer /\ flushPending
                 /\ minFill <= cached
=============================================================================
