# A TLA+ model of varc

varc is a sparse, range-addressed cache in front of an HTTP origin. A request
opens a *reader* on a cached object; a read of a range that is not in the sparse
file is answered by *streams* that fetch it from the origin and write it to the
file; a cleaner evicts, and the ranges survive a restart in a metadata file.

This directory holds the models of that program, the TLC configurations that
check them, and TLAPS proofs. `PROJECT.json` lists components, runs, mutants, the
definition-to-source map, findings, hazards and theorems.

    tlc -workers 2 -config MCScheduler.cfg MCScheduler
    tlapm SchedulerProofs.tla

## 1. Inventory

| component | state | operations | who calls it, what it shares |
|---|---|---|---|
| `ranges` | a sorted list of disjoint ranges | `Insert`, `Find`, `FindAll`, `Present`, `FindMissing`, `Intersection`, `Size` | the item, under `item.mu` |
| `scheduler` | waiters, streams, `errorCount`, `lastErr`, ctx; per stream `start`, `offset`, `maxOffset`, `skipped`, `stop`, a kick channel | `Download`, `EnsureDownloader`, `Close`; goroutines: one per stream, one ticker | called by the item without `item.mu`; calls `HasRange`, `FindMissing`, `WriteAtNoOverwrite` of the item |
| `cache.Item` | fd, `info` (key, fingerprint, ranges), object, scheduler, `opens`, grace timer, `closing`, `pendingAccesses`, `beingReset` | open, read, release, close after grace, reset for a new version, reset for space, save, load | requests, the timer's goroutine, the cleaner, `Cache.Close` |
| `cache.Cache` | the map of items, `closed`, `cleanerKicked`, `outOfSpace`, `kick`, `failedResets` | `New`, `Open`, `Clean`, `KickCleaner`, `Close`, `Stats` | the proxy; the cleaner goroutine |
| `sourceObject` | the origin object and metadata of the last Open | `update`, `snapshot`, `Open` | written by the item's Open, read by the streams |
| `source/http` | none; an `Object` keeps its metadata | `Open` (HEAD, or a range of one byte), `OpenRange` | the proxy and the streams; the origin answers |
| `streambuf` | tokens, a queue of filled buffers, the error of the stream | `WriteTo`, `StopBuffering`, `Abandon`, `Close` (and `Read`, `SkipBytes`, for tests) | between a chunk reader and a stream's `Write`; one goroutine fills |
| `chunkstream` | offset, growing chunk size; or a list of parallel streams, each with a goroutine | `Read`, `Seek`, `RangeSeek`, `Close` | streambuf's goroutine; the downloader closes it |
| `bufferpool` | free buffers, counters, aged flush; `RW`: pages, `out`, `size` | `GetN`, `PutN`, `Flush`; `Read`, `ReadFrom`, `WaitWrite`, `Close` | streambuf, parallel chunk streams |
| `objectio.RetryReader` | offset, tries, sticky error | `Read`, `reopen`, `Close` | chunk streams |
| `proxy` | none; per request an offset | `ServeHTTP`, `serveError`, the seeking reader | the HTTP server; calls the source, then the cache |
| `caddy` | one Cache per configuration load | `Provision`, `Cleanup` | the host server |

What is hard here:

* **locks given up in the middle.** `item.mu` is released around `Download` and
  around every `Downloaders.Close`; `Downloaders.mu` around every join.
* **wake-ups.** A blocked `Download` is woken by whoever kicks next: a write, an
  exiting stream or the ticker. A thread that met ENOSPC sleeps on a condition
  variable until a pass of the cleaner.
* **staleness.** A stream is chosen by offsets that move while they are compared;
  an Open compares fingerprints with an item others are resetting; the origin changes
  between the request that read its metadata and the ones that read its bytes.
* **stopping.** A stream is stopped by its own timeout, by a run of cached bytes, by
  its end, by an error and by `Close`, while its goroutines are blocked in channels
  and in reads of the origin.
* **failure.** The origin can fail or end a body early, the disk can be full at
  any write, and the process can stop between two file operations.

What makes each part correct: the list of ranges must be *exactly* a set of
bytes; a nil from `Download` must mean cached data, every `Download` and `Close`
must return, and no stream may outlive `Close`; a reader must only see bytes of
its own version; memory and disk must never claim a byte the file does not hold;
nobody may sleep on a cleaner that will not come; the bytes of a stream must reach
the cache once and in order whatever fails and is retried below it, and every buffer
must return to the pool; a response must not mix versions.

## 2. Modules

| module | models | notes |
|---|---|---|
| `Ranges` | `src/ranges/ranges.go` as operators | recursive functions; no RECURSIVE operators |
| `ByteSet` | the abstract specification: a set of bytes, added to and cut to a window | |
| `RangeSet` | the list as the item uses it (`InsertRange`, `KeepWindow`); refines `ByteSet` with `bytes <- Covered(rs)` | instance `MCRangeSet` |
| `RangeSetProofs` | theorems about `Ranges` and `RangeSet` | |
| `Scheduler` | `scheduler.go`, with the item as a set of cached blocks | instance `MCScheduler` |
| `SchedulerProofs` | theorems about `Scheduler` | |
| `Cleaner` | the cleaner goroutine, `KickCleaner` and `Close` of `cache.go` | instance `MCCleaner` |
| `CleanerProofs` | theorems about `Cleaner` | |
| `Item` | one cache key: `item.go`, and Open, eviction, Close and restart of `cache.go` | instance `MCItem` |
| `ItemProofs` | theorems about `Item` | |
| `Pool` | `bufferpool/pool.go`: counters, aged flush | used by the next three |
| `StreamBuf` | `streambuf/reader.go` with its user, a downloader, and `stopAndClose`; the raw reader is any `io.Reader` | abstract specification of a download |
| `StreamBufProofs` | theorems about `StreamBuf` and `Pool` | |
| `Sequential` | `chunkstream/sequential.go` over `sourceObject.Open` | |
| `Parallel` | `chunkstream/parallel.go`, `RetryReader`, and `RW` of `bufferpool` | |
| `Stream` | the composition: `StreamBuf` whose raw reader is `Sequential` or `Parallel`, over one `Pool`; refines `StreamBuf` | instance `MCStream` |
| `StreamProofs` | theorems about `Stream`: the refinement, and what it adds | |
| `Proxy` | `proxy/handler.go`, `source/http/source.go` and the decisions of `openLocked` | instance `MCProxy` |
| `ProxyProofs` | theorems about `Proxy` | |

The levels rest on each other: `RangeSet` shows that a list of ranges is a
set, which is what `Scheduler` and `Item` keep; `Scheduler` shows that `Download`
answers nil only for cached data and that no stream is left after `Close`, which
is what `Item` assumes of the scheduler (`ReadServed`; `InFlight` becoming empty
when the closing thread goes on). `Stream` shows what `Scheduler` assumes of the
stream it reads from: blocks in order, an end that is an EOF, an error or an
abandoned stream, and a `StopBuffering` that returns. `Proxy` shows that what
`OpenRange` answers and what a fingerprint covers is enough for `Item`'s notion of
one version per item.

### Scheduler

A step is one critical section of `item.mu` or of a stream's `dl.mu`. A critical
section of `Downloaders.mu` contains many of those, so it is several steps of its
holder (`mu`, `step`, `todo`, `cur`, `miss`): `EnsureFind` reads the item,
`EnsureStart` then looks at the streams, and writes of other streams may come in
between. The stream goroutine goes `read -> (idle) -> put -> kick -> read ... ->
close -> count -> final -> gone`; `kick` and `final` are its two uses of
`kickWaiters`. Abstractions:

* bytes are blocks and one `Write` carries one block; a short file write therefore
  is a failed one (`PutFails`), with the offset unmoved;
* `_dispatchWaiters` decides about all waiters at one instant. The code asks the
  item once per waiter; cached data only grows here, so a waiter missed by that is
  in the position of one whose data arrives just after the dispatch;
* opening a stream does not fail by itself: `Seek` on a fresh chunk reader does no
  I/O, and the first read is where an unreachable origin shows;
* a kick token left for a stream that does not idle is left out: `Write` would
  only repeat a comparison;
* the loop of `Close` works on the list as it was when the loop began. A reader
  that is still inside could rewrite the slice's array; see the hazard at
  `scheduler.go:206`.

Constants choose the configuration: `Buffered` (a streambuf between origin and
`Write`), `ShortReads` (a body may end early without an error), and
`CloseWithReaders` (Close while a Download is blocked: only `Cache.Close` does
it). `MaxDying` bounds goroutines between their close and their exit, and the
error counter stops one above its limit, where nothing distinguishes larger
values.

### Cleaner

`KickCleaner` holds `kickerMu` and `c.mu` while it sends on the unbuffered
channel, so these are variables with a holder; all other critical sections never
block inside and are single steps that need the mutex free. A pass is
`snapshot -> evict -> (unkick) -> clear`. What it evicts is the business of `Item`.
`cleared` is a history variable: the kickers that have seen a pass end.

### Item

A step is what happens between two releases of `item.mu`; the threads are the
requests, the grace timer of each item, the cleaner and the closer. The disk is
the metadata file, the data path and the inodes, so a removed file can still be
open. `file` says which version of the object each block of an inode holds.
`Restart` can happen in any state and is a crash of the *process*: the page cache
survives. All versions have the same size (a different size also makes the
fingerprints differ). An Open may carry the metadata of an earlier version, as a
request that resolved the object before it changed does.

Saves fail wherever `saveLocked` can: the closing of an item, whose error the grace
timer's callback ignores, is one of the places (`unsaved` remembers it for a property).
A crash may fall between the two removals of a reset or leave a metadata file that cannot
be parsed (`Restart(cut)`), and an Open may find one (`loadLocked`).

Every action has the guards of the code and no others. Four overlaps of operations on the
same key, all permitted by the code, break properties; which of them are examined is a bound
of the *next-state relation* (`Apart`, `Settled`, `Quiet`), set by the constant `Overlap`:

| overlap | what the code permits | what it breaks |
|---|---|---|
| `reset` | an Open during the window of another Open's `resetLocked` | `ReadsReturnVersion` (run `item_reset`), `RangesSound`, `MetaSound`, `ReadersKeepFile` |
| `close` | an Open during `actualCloseLocked` of the last reader, with no grace period | `ReadsReturnVersion`, `RangesSound`, `MetaSound`; the file of a reader is closed under it |
| `evict` | a close or an Open while `resetForSpace` removes an idle item | `MetaHasKey` (run `item_evict`), `ReadsReturnVersion`, `RangesSound`, `MetaSound`, `FinalRangesPersisted`, `ReadersKeepFile`; a second item for the key |
| `fetch` | an Open of a new version while a stream of the old one is in flight and nothing is cached | `ReadsReturnVersion`, `RangesSound`, `MetaSound` |

`MetaHasKey` and `FinalRangesPersisted` hold under the other three. With a grace period
the grace timer and `item.closing` do exclude the `close` window, and `ReadersKeepFile` holds
with that overlap on. `Cache.Close` is not called during an Open or a read in this model: what
it does then is the subject of `scheduler_shutdown`.

Run `item` is the system without these overlaps: everything else interleaves.

### Pool, StreamBuf, Sequential, Parallel, Stream

A download has these threads: the goroutine that fills buffers (`fpc`), the
downloader inside `WriteTo` and `Write` (`dpc`), `Downloaders.Close` in
`stopAndClose` (`spc`), the goroutines of the parallel streams (`g` of each
record in `streams`), and the timer of the pool. A step is one channel operation,
one critical section, or one read of a body.

`StopBuffering` is split where it can be interrupted: the look at `exit`, the
`close(exit)`, the wait for `exited` (`sb`, for each of its two callers). `dl.mu` is
held across all of it (`dlMu`). The channels `ready` and `token` are a sequence and a
count with the capacity `Buffers`; `exit` and `exited` are flags. `a.mu` is left out,
because all of its holders are the downloader's goroutine.

A buffer is the position where its bytes begin, how many are left and the error that
came with them; a `Read` under way (`call`) carries the positions of the bytes it
copied, so order, loss and repetition are visible and contents are not needed.
In `StreamBuf` the raw reader may return anything that the contract of `io.Reader`
allows (`RawRead`), and other users of the global pool come and go (`PoolOthers`).
`Stream` replaces the former by the chunk readers' own steps and has no other users,
and every step is still a step of `StreamBuf` (`ImplementsStreamBuf`, checked and proved).

Abstractions:

* `Write` stores the whole buffer or fails; a short file write followed by an error is
  such a failure. How many bytes were cached already is left open: the skip limit may
  be passed by any write that stores something;
* `setRange` is one step with its kick, and only an extension is modelled: another
  kick makes `Write` repeat a comparison;
* the waiters' error in `DlNext` may come after any write; the code asks for it only if
  the write had bytes, and a write without bytes ends the stream anyway;
* the one-second poll of `WaitWrite` ends here when there are bytes or the context is
  cancelled, which is what the poll looks for;
* a body delivers what fits into the page in one read, or less and then fails; smaller
  reads change nothing that anybody sees, because `ReadFrom` counts whole reads only;
* the memory semaphore and mmap of the pool are never switched on by the program.

### Proxy

One key, several requests, an origin that goes through a history of versions. A
request is `head -> (statRange) -> open -> serve -> read ... -> close`; each arrow is a
point where the origin may change and other requests may run. `server` says what the
origin can do: refuse HEAD, not know the length, ignore `Range`, ignore `If-Range`,
leave validators out of a partial answer. The decisions of `statHEAD`, `statRange`,
`OpenRange`, `ifRangeValidator` and `metadataFingerprint` are operators of the same
name on answers that are records. `Cache.Open` and a block read are one step each,
because their inside is the subject of `Item` and `Scheduler`; `since` is a history
variable. An Open may also fail for a local reason, which is a 502 and may leave the item
emptied, or set up but not counted (`HalfOpened`).

`http.ServeContent` is external. It evaluates the client's own preconditions against the
metadata of the reader (`Precondition`: 412 for `If-Match` and `If-Unmodified-Since`, 304 for
`If-None-Match` and `If-Modified-Since`) and ignores a `Range` whose `If-Range` names another
version (`RangeIgnored`). A request has at most one of these headers, with a validator of a
version the origin has served: a bound. The status is sent before the first read; a failing
read then cuts the response (`Abort`). The content type is taken as known, so that
`ServeContent` does not read to guess it.

## 3. Runs

| run | size | result |
|---|---|---|
| `rangeset` | 8 bytes: all 256 sets, every query | 5 properties hold |
| `scheduler` | 2 readers, 3 streams, 2 blocks, requests for the first, the last or both, short bodies | 6 invariants hold, 2.6M states |
| `scheduler_live` | 1 reader, 2 streams, 2 blocks, read-ahead, streambuf, fairness | both liveness properties hold, 43k states |
| `scheduler_shutdown` | Close with a reader blocked | `DownloadNilMeansPresent` violated |
| `cleaner` | 3 kickers, ticker, Close | 4 properties hold |
| `cleaner_live` | 1 kicker, ticker, fairness | `KickReturns` violated: deadlock |
| `item` | 3 requests, 2 blocks, 2 versions, 1 restart, with and without a grace period | 7 properties hold, 226k states |
| `item_reset`, `item_evict` | 2 requests, one overlap each | one property violated each |
| `stream` | 3 bytes, 2 buffers of up to 2 bytes, a pool of 1, chunks none / 1 then 2 / 2 streams of 2, one origin failure, 2 tries | 11 properties hold, 477k states |
| `stream_end` | the same, sequential chunks of 1 and 2 bytes | `EndIsEof` violated |
| `proxy` | 2 requests, 5 histories of up to 4 versions, 5 kinds of servers, 2 blocks | 4 properties hold, 4.5M states |

**Are the bounds enough?** With 8 bytes, three separate ranges, a merge of two and
of three and every kind of boundary query occur. Two readers are needed for one to
be dispatched while the other waits and to see each other's streams; three streams
for one that is closing, one that runs and one that starts. Two blocks are needed
for a stream with a part behind it and a part ahead of it, and for one that idles
after the first and is extended to the second. Three kickers give a sender, a joiner and a
latecomer. Two versions and one restart give every mixed state of disk and memory;
two requests show each overlap, a third changes nothing new but is affordable.
A download of three bytes needs three buffers of one and two bytes while two exist, so
tokens run out and return; its chunks end inside and at the end of a buffer; the second
parallel stream is a short one, and with a page of two bytes the first fills its page
exactly. One failure is enough for a retry in the middle of a chunk, for a failed open
and for a body cut short; two would only exhaust the tries, which one failed reopen
does as well. A pool of one overflows when two buffers come back. The histories of
`MCProxy` cover strong tags, weak tags with and without dates, dates alone (with a change
within one second that only the size shows) and nothing at all with a removal.
The theorems below are independent of the bounds.

**Deadlock** is checked in the scheduler runs, where the state after `Close` stutters
explicitly. It is off for `cleaner`, whose deadlock is the finding of
`cleaner_live`, and for `item`, where the process ends after `Cache.Close` and the last
permitted restart. It is checked in `stream`, where a finished download stutters
explicitly, and in `proxy`, whose requests begin again.

**Fairness** (`Scheduler!FairSpec`, `Cleaner!FairSpec`, `Stream!FairSpec`). The Go scheduler runs
every runnable goroutine; Go mutexes hand over to a starved waiter after a
millisecond, so steps that need a mutex are strongly fair; the ticker of the
scheduler ticks again and again. Nothing is assumed of the readers, of
callers of `Close` and `KickCleaner`, or of the cleaner's ticker.

Of the origin nothing is assumed until `dls.ctx` is cancelled, which only `Close` does and
which makes any read return: a stream's goroutine is fair only then, or where it cannot be
waiting for the origin (`MayAwaitOrigin`). No deadline, retry limit or client timeout
bounds a read before that; the sequential reader does not retry and `readAtOnce` waits
whatever happens to its request. So `DownloadReturns` has a hypothesis, `OriginAnswers`: every
read of the origin ends, with bytes, an end or an error. `CloseReturns` does not have it.
`DownloadReturns` is also for an origin that ends a stream early only with an error: one that
keeps ending bodies early and cleanly with no bytes is restarted for ever (hazard at
`sequential.go:76`). And `OriginAnswers` speaks of the `Read` of the chunk reader, which the
parallel one does not answer in the two cases of section 4.

`Stream` assumes less of the origin: nothing, until the request's context is cancelled,
which makes any read of net/http return. The goroutines themselves go on while they
can. `StopReturns` holds under that: neither a stalled origin nor a reader that hangs in
the parallel reader's wait keeps `Close` from returning.

## 4. What is found

1. `scheduler_shutdown` — `Cache.Close` makes a blocked `Download` return nil
   although the range is missing (`scheduler.go:219`).
2. `cleaner_live` — `KickCleaner` sends with `c.mu` held; a ticker pass that has
   just begun needs `c.mu`: neither goes on (`cache.go:487`). The same send finds
   no receiver at all after `Cache.Close`.
3. `item_reset` — an Open of the old version enters the window of `resetLocked`
   and its reader is served another version (`item.go:219`).
4. `item_evict` — an item evicted while it is being closed is saved without its
   key, and cannot be opened again before a restart (`item.go:246`).
5. `stream_end` — a sequential stream whose last chunk ends where the object ends returns
   `ErrRangeNotSatisfiable` instead of EOF (`sequential.go:59`, `source_object.go:48`).
   The bytes are all there, but the scheduler counts an error for each such download.

More disagreements between the program and its texts were met that have no run of their own.
To reproduce one in `Item`, set `Overlap` and the property in `MCItemReset.cfg`.

* `FindMissing` is documented to return an empty block if the range is not present
  (`ranges.go:262-263`); it returns the whole range, as its test wants
  (`ranges_test.go:816-821`), as its callers need, and as `QueriesAreExact` says.
* `Overlap = {"fetch"}`, `RangesSound`: `openLocked` resets only an item that has something
  cached (`item.go:98`). If nothing is, a stream of the old version goes on and writes under
  the new fingerprint, against "do not risk serving bytes from mixed object versions"
  (`handler.go:110`).
* `Overlap = {"close"}`, `ReadsReturnVersion`, with `GraceChoices = {FALSE}`: without a grace
  period an Open enters while the last reader is being closed (`item.go:381`), and the closing
  takes its file; against the same sentence.
* `Overlap = {"evict"}`: the cleaner removes an item from the map after it has emptied it,
  under another mutex (`cache.go:341-352`). An Open in between, or one that retries after
  ENOSPC (`cache.go:274-276`), works on an item that is no longer in the map; the next Open
  makes a second item over the same two files. Nothing claims one item per key here.

And some behaviours that no text contradicts, so they are hazards only:

* the save of a closing can fail, and the callback of the grace timer ignores it
  (`item.go:370`, `391-393`): memory then has ranges the metadata lacks. They are fetched again
  after a restart. `FinalRangesPersisted` says that this is the only difference;
* a read of the parallel reader waits without a writer in two cases, until the
  download is cancelled: the goroutine of its stream ended with an error, put in a channel that
  only `close` reads (`parallel.go:52`); or it ended without one because the body ended early
  and cleanly, which `RetryReader` takes for the end (`retry_reader.go:120`) and `ReadFrom`
  for success (`reader_writer.go:198`). `WaitHasWriter` says that there is no third;
* `close` cancels a parallel stream whose bytes have all been read: if its goroutine had not
  seen the end of the body yet, the whole download ends as abandoned (`parallel.go:94`), and
  the next kick starts another.

## 5. Theorems

`RangeSetProofs`, for a file of any size (`NAssumption`): `RangeTypes`, `ListIsCanonical`,
`QueriesAnswerTheSet`, `StepsChangeTheSet` and the refinement `ListImplementsSet`, all from
`ListInv` — the list is sorted and coalesced, and its bytes are in the file. What carries
it are lemmas about the operators, for any sorted list and any range: `InsertAdds`,
`IntersectionKeeps`, `FindFirstPiece`, `FindAllIsTiling`, `PresentExact`,
`FindMissingExact`, `SizeExact`.

* The loops are recursive functions, and each has a lemma that such a function exists
  (`AccExists`, `FromExists`, `KeptExists`, `SumExists`) and one that says what it returns.
  The library's induction rules take an operator, which the provers cannot instantiate;
  these inductions are over a *set* of numbers instead (`Induct`, from the well-foundedness
  of the naturals).
* `Insert` first breaks the form and `coalesce` restores it. In between the list is
  `NearlySorted`: only the element at the place of insertion may touch or overlap others.
  Once the loop has come to `j`, that element has the bytes of all those it has taken in
  (`TookIn`), so where the loop stops the list can be spliced (`SplicedIsList`).
* `FindAll` needs that `Find` cuts off the *longest* piece that is wholly present or
  wholly absent (`FirstPiece`); otherwise two pieces in a row could be of the same kind.

`SchedulerProofs`, for all readers, streams, sizes and settings under
`ConstantsAssumption` and `ThreadsAssumption`:

* `TypeCorrect`. Inductive invariant `TInv`: the types, plus that a stream holding
  data is inside the object (`BufInv`), and that a missing range `_ensureDownloader`
  has read from the item lies inside the object (`Fetchable(miss)`).
* `StreamsLeaveNoHoles` and `StreamsAreDistinct`. `SInv` adds that offsets never fall
  behind starts (`Forward`) and that a stream that holds `mu` is in one of its two
  kicks (`KickerInv`). Most steps are *quiet* — the cache grows, no stream starts, streams
  move only over cached blocks — and keep `SInv` by one lemma; only the start of a
  stream and a write have to be examined.
* `DownloadIsCorrect`, if `CloseWithReaders` is FALSE. `RInv` says what a reader in
  each state is doing, that waiters are blocked in `Download`, that a kicker which
  gives up has a real error (`errorCount > MaxErrorCount` implies `lastErr # nil`),
  and that nobody waits once Close has begun. The assumption is necessary: without
  it the statement is false (`scheduler_shutdown`).
* `CloseIsFinal`, if `CloseWithReaders` is FALSE. `CInv` says that every open
  stream is listed, that during Close the listed streams are those still to be
  stopped or being joined, and that nobody is left who could start one.

* `NoReaderIsForgotten`, with no hypothesis, so for `Cache.Close` with readers inside too.
  `LInv` says who can be where: a reader that holds `mu` is inside its call, waiters are
  blocked in `Download`, and what the holder still has to do concerns waiters or its own
  call. `OInv` says why a waiter that is not on the holder's list is not lost: a stream will
  come to its first missing block or will kick (`ServedInv`). `NoOrphanWaiter` alone is not
  inductive, since between `EnsureFind` and `EnsureStart` it rests on what the holder has read
  from the item, which must still cover what is missing although others write meanwhile
  (`MissInv`).

`LeastElement` (every non-empty set of naturals has a least element, from
`WellFoundedInduction`) is what shows that `FirstMissing` is defined.

`CleanerProofs`, for any number of kickers: `TypeCorrect`, `SleeperIsServed`,
`KickIsServed` from one invariant (`IInv`: who holds which mutex at which step,
and that the kicked pass and the flags belong together), and `KickWaits` — no
`KickCleaner` returns before a pass has ended — if nobody calls `Clean` from outside
(`Callers = {}`). With outside callers a `Clean` that began before the kick can
clear the flag, and the statement is false.

`StreamBufProofs`, for any number and size of buffers, any object and pool, and any raw
reader and other pool users, from `BufAssumption` and `PoolAssumption`: `Correct` shows
that `Inv` is inductive, and the five theorems follow from its conjuncts.

* `BufferTypes`, `PoolIsFlushed` from the types and `PoolInv` (what is allocated is in use
  or cached, `minFill` never exceeds what is cached, a pending flush has an armed timer).
* `SendsNeverBlock` from `TokenInv`: tokens, queued buffers, the current buffer and the
  one being filled are together at most `Buffers`.
* `BytesInOrder` from `InOrder` with `FillInv`: the queue is contiguous, and its end is
  where the raw reader stands.
* `CloseOnce` from `LockInv` (who is where inside `StopBuffering`, given who holds
  `dl.mu`) and `CloseInv` (what has been closed when). `CloseIsClean` alone is not
  inductive: that two callers are not both past the look at `exit` needs the lock.
* `PutN` takes what it is given, as the code does; that a reader only returns what it has taken
  out is `OwnInv` (what is held is at most what is in use).

`StreamProofs`, for any object, buffers, chunk sizes, number of streams and tries, from
those assumptions and `StreamAssumption`: `StreamCorrect` shows that `CInv` is inductive.

* `StreamImplements`: the sequential and the parallel chunk reader are raw readers as
  `StreamBuf` allows them. By `DownloadKeepsPromises` the theorems above hold of every
  download.
* `DownloadInOrder`, `DownloadReturnsBuffers`, `DownloadEnds` and `DownloadWaits` are the
  properties that `Stream` adds.

`CInv` is the invariant of `StreamBuf` and what connects it with the chunk readers: a
`Read` under way has the bytes that follow those read before (`CallInv`); the sequential
reader's body is open at the next byte and ends with its chunk (`SeqInv`); the parallel
streams tile the object up to `endStream`, and only the first was read from (`ParInv`);
the first is popped and cancelled in the step order of `Read`, so that what is read next is
where the call goes on (`HeadInv`); an EOF on its way is at the end of the object, unless
the origin failed (`EofInv`); a buffer out of the pool is queued, current, being filled or a
page of a stream (`HeldInv`). None of these is inductive without the others: that a page is
returned once needs to know which stream is the head, and the order of bytes needs both.

`ItemProofs`, for any requests, blocks, versions, items and inodes, with or without a grace
period, and with any number of restarts, from the assumptions of `Item`. If there is at most
the overlap `close` (`Overlap \subseteq {"close"}`): the action property `ReadersKeepTheFile`,
which speaks of a cache with a grace period, from the invariant `Graced`. If there is no
overlap (`Overlap = {}`): `ItemTypes`, `MetadataKey` and `FinalRanges` (what is on disk is
exact unless the closing could not save), from the invariant `SInv` about structure: every thread
works on the item in the map and no other item is in use (`Owned`); who may be at work on
it at the same time, with its counters the numbers of those threads (`Phases`); what item,
metadata and files have to do with each other outside of a step (`Good`).
If moreover all fingerprints are strong (`Strong = Versions`): `CachedRanges`,
`TrustedMetadata` and `ReadVersion`, from `DInv` about data: what the cached ranges, a
reader that has been told a block is there, and every stream still in flight stand for is
of the version that the fingerprint names. Both hypotheses are necessary. Each overlap breaks
a property (section 2). And a version without a validator that is followed by another one
breaks the three: nothing makes its streams be refused, so they write what the origin has
by then (TLC shows it with `Strong = {2}` in `MCItem.cfg`). `Strong = Versions` is used at that
one place, in the step `Fetch`. What does hold without validators, that bytes are not reused
once the item was idle, is the subject of `UnvalidatedIsFresh` below.

`ProxyProofs`, for any requests, histories and servers under `ProxyAssumption`:
`ProxyInvariant`, then `ProxyTypes`, `ResponsesDoNotMix`, `UnvalidatedIsFresh` and
`RetryableConflict`. The invariant says that the metadata of a request is that of the
version it saw (`FromOrigin`), that the number of readers is the number of requests in
use, all of the item's fingerprint (`InUse`), that every cached block is of a version with
the item's fingerprint, or not older than its use (`FileSound`), and the same of what has
been sent (`BodySound`). The lemma that carries it is `OpenRangeValidates`: if `OpenRange`
returns nil, the origin's version has the fingerprint of the metadata it was asked with.
Opens that fail half way keep it too (`HalfOpenStep`). `RetryableConflict` is about the 412 of
the cache: one that answers the client's own precondition needs no other request.
`ProxyAssumption` is what it takes of the origin: a server that ignores `If-Range` sends
validators; all versions of an object have the same kinds of validators; a strong tag
belongs to one modification time. Without the last two a byte can be of another version
than its metadata says, and no check of the code could notice.

**Only model-checked:** liveness (`DownloadReturns`, `CloseReturns`, `StopReturns`), which the
prover does not handle. Every invariant, every action property and both refinements that a
passing run checks are also proved.

## 6. Not modelled

* operations that only tests call: `streambuf.Read` and `SkipBytes`, seeks of a chunk
  reader in use, `RangeSeek` with a length, `chunkstream.Open`, `RW.Reserve`, `Write`,
  `WriteTo`, `Seek`, `Pool.Flush`, `NoLowLevelRetry` errors, `Ranges.Equal`;
* which items a cleaning pass picks (age, LRU order, quota arithmetic): the model
  lets it pick any, which is more behaviour than the code has; `Stats`;
* power failures: the data file is not synced before the metadata (hazard at
  `item.go:198`), and what survives is up to the file system;
* the slice that `Downloaders.Close` ranges over as an array others rewrite (hazard at
  `scheduler.go:206`);
* two caches over one directory: a Caddy reload provisions the new instance before the
  old one is cleaned up (hazard at `module.go:158`); a Reader closed twice;
* the validation of options, parsing of a Caddyfile and the life of cache instances in
  the Caddy host, HTTP header copying, the parsing of `Content-Range`, key sharding and its
  migration: checks and conversions of single values, with no state of their own;
* system-call wrappers.

## 7. Plan

1. Proofs: the `Item` theorems in the presence of versions without a validator, restricted
   to items whose own version has one.
2. `Scheduler`: the list of streams as a shared array, for Close with readers inside.
3. `Item`: unsynced writes, if the program comes to promise anything about power failures.
