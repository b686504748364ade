------------------------------- MODULE Proxy -------------------------------
(***************************************************************************)
(* A request through the proxy (src/proxy/handler.go): the HTTP source     *)
(* (src/source/http/source.go) asks the origin for the object's metadata,  *)
(* Cache.Open decides what that metadata has to do with the bytes that are *)
(* cached, and the body is read block by block, from the file or with one  *)
(* more ranged request.  The origin replaces the object at any moment,     *)
(* between any two of these steps of any request.                          *)
(*                                                                         *)
(* All requests are for one key.  Cache.Open and a read are one step each: *)
(* their own interleavings are the subject of Item and Scheduler.  What is *)
(* a value here is the version a byte is of and the validators it has.  A  *)
(* validator is <<>> (none), <<"S", n>> and <<"W", n>> (a strong and a     *)
(* weak entity tag) or <<"L", n>> (a modification time, to the second).    *)
(***************************************************************************)
EXTENDS Integers, Sequences, FiniteSets

CONSTANTS
    Requests,    \* requests being served at the same time
    Histories,   \* the versions an origin may go through, in order
    Servers,     \* what the origin's server can do
    MaxSize      \* bound: blocks of the longest version

VARIABLES
    history, server,   \* the choices of this run
    now,               \* the version the origin serves
    item,              \* the cached object
    req                \* the requests

vars == <<history, server, now, item, req>>

(* A version of the object; Gone is no object. *)
Gone == [size |-> -1, etag |-> <<>>, lm |-> <<>>]

Blocks   == 0 .. MaxSize - 1
Tags     == {<<>>} \cup ({"S", "W"} \X Nat)
Dates    == {<<>>} \cup ({"L"} \X Nat)
Metadata == [size : -1 .. MaxSize, etag : Tags, lm : Dates]

IsStrong(tag) == tag # <<>> /\ tag[1] = "S"

(***************************************************************************)
(* What validators mean: an origin gives the same kinds of them to all of  *)
(* its versions, and a strong entity tag to one modification time only.    *)
(***************************************************************************)
Consistent(v, w) ==
    v # Gone /\ w # Gone =>
        /\ IsStrong(v.etag) <=> IsStrong(w.etag)
        /\ v.lm = <<>> <=> w.lm = <<>>
        /\ IsStrong(v.etag) /\ v.etag = w.etag => v.lm = w.lm

ASSUME ProxyAssumption ==
    /\ MaxSize \in Nat /\ IsFiniteSet(Requests)
    /\ \A h \in Histories :
         /\ h \in Seq(Metadata) /\ h # <<>>
         /\ \A i, j \in DOMAIN h : Consistent(h[i], h[j])
    /\ \A s \in Servers :
         /\ s.head \in {"ok", "refused", "lengthless"}
         /\ s.ranges \in BOOLEAN /\ s.ifRange \in BOOLEAN /\ s.tags \in BOOLEAN
         /\ s.ifRange \/ s.tags

-----------------------------------------------------------------------------
(***************************************************************************)
(* The origin's answers.  A server may refuse HEAD or not know the length, *)
(* ignore Range, ignore If-Range, or leave the validators out of a partial *)
(* response; one that ignores If-Range sends them.                         *)
(***************************************************************************)
Origin == history[now]

Answer(status, v) == [status |-> status, start |-> 0, end |-> 0, meta |-> v]

FullAnswer == Answer(200, IF server.head = "lengthless"
                          THEN [Origin EXCEPT !.size = -1] ELSE Origin)

HeadAnswer ==
    IF Origin = Gone THEN Answer(404, Gone)
    ELSE IF server.head = "refused" THEN Answer(405, Origin)
    ELSE FullAnswer

GetAnswer(start, end, ifRange) ==
    LET last == IF end < Origin.size THEN end ELSE Origin.size
        tags == IF server.tags \/ ifRange = <<>> THEN Origin
                ELSE [Origin EXCEPT !.etag = <<>>, !.lm = <<>>]
        same == ifRange \in {<<>>, Origin.etag, Origin.lm}
    IN  IF Origin = Gone THEN Answer(404, Gone)
        ELSE IF ~server.ranges \/ (server.ifRange /\ ~same) THEN FullAnswer
        ELSE IF start >= Origin.size THEN Answer(416, Origin)
        ELSE [Answer(206, tags) EXCEPT !.start = start, !.end = last]

-----------------------------------------------------------------------------
(***************************************************************************)
(* The HTTP source.  A result has an error, or metadata.                   *)
(***************************************************************************)
Ok(meta)  == [err |-> "nil", meta |-> meta]
Err(e)    == [err |-> e, meta |-> Gone]

statHEAD(a) ==
    IF a.status = 404 THEN Err("notFound")
    ELSE IF a.status = 405 \/ a.meta.size < 0 THEN Err("fallback")
    ELSE Ok(a.meta)

statRange(a) ==
    CASE a.status = 404 -> Err("notFound")
      [] a.status = 416 -> IF a.meta.size = 0 THEN Ok(a.meta)
                           ELSE Err("rangeNotSatisfiable")
      [] a.status = 200 /\ a.meta.size < 0 -> Err("unknownSize")
      [] OTHER -> Ok(a.meta)

ifRangeValidator(meta) == IF IsStrong(meta.etag) THEN meta.etag ELSE meta.lm

(* A validator that the answer does not have is not compared. *)
Differs(expected, got) == expected # <<>> /\ got # <<>> /\ got # expected

\* Mutant of OpenRange: the validators of a partial response are not compared.
OpenRange_SizeOnly(meta, start, end) ==
    LET a == GetAnswer(start, end, ifRangeValidator(meta))
    IN  IF a.status = 206 /\ a.meta.size = meta.size THEN "nil" ELSE "error"

OpenRange(meta, start, end) ==
    LET sent == ifRangeValidator(meta)
        a    == GetAnswer(start, end, sent)
    IN  IF end > meta.size \/ a.status = 416 THEN "rangeNotSatisfiable"
        ELSE IF a.status = 404 THEN "notFound"
        ELSE IF a.status = 200 THEN IF sent = <<>> THEN "rangeUnsupported"
                                                   ELSE "objectChanged"
        ELSE IF a.start # start \/ a.end # end THEN "error"
        ELSE IF \/ a.meta.size # meta.size
                \/ Differs(meta.etag, a.meta.etag)
                \/ Differs(meta.lm, a.meta.lm) THEN "objectChanged"
        ELSE "nil"

-----------------------------------------------------------------------------
(***************************************************************************)
(* Cache.Open of one key: object is the metadata of the origin object that *)
(* opened the item last, file the version of each block that rs lists.     *)
(* since, which the code does not have, is the version the origin served   *)
(* when the item went into use.                                            *)
(***************************************************************************)
metadataFingerprint(meta) ==
    LET etag == IF IsStrong(meta.etag) THEN meta.etag ELSE <<>>
    IN  IF etag = <<>> /\ meta.lm = <<>> THEN <<>> ELSE <<meta.size, etag, meta.lm>>

Closed == [opens |-> 0, fp |-> <<>>, rs |-> {}, file |-> [b \in Blocks |-> 0],
           object |-> Gone, since |-> 0]

\* Mutant of Conflicts: nobody needs to use the item.
Conflicts_EvenIdle(meta) == item.rs # {} /\ item.fp # metadataFingerprint(meta)

(* An item in use is for one fingerprint. *)
Conflicts(meta) == item.opens > 0 /\ item.fp # metadataFingerprint(meta)

\* Mutant of Stale: two unknown versions are taken for the same.
Stale_TrustsUnknown(meta) == item.opens = 0 /\ item.fp # metadataFingerprint(meta)

(* What is cached is emptied for another, or an unknown, version; streams  *)
(* that fetch for an item with nothing cached yet are the subject of Item. *)
Stale(meta) ==
    LET fp == metadataFingerprint(meta)
    IN  /\ item.opens = 0 /\ item.rs # {}
        /\ fp = <<>> \/ item.fp = <<>> \/ item.fp # fp

Opened(meta) ==
    [item EXCEPT !.opens = @ + 1, !.fp = metadataFingerprint(meta),
                 !.object = meta,
                 !.rs = IF Stale(meta) THEN {} ELSE @ \cap 0 .. meta.size - 1,
                 !.since = IF item.opens = 0 THEN now ELSE @]

(* What an Open that fails leaves behind: nothing new (the cache is closed *)
(* or the metadata not readable), an emptied item (the file cannot be made *)
(* again), or everything but the count (the metadata cannot be saved).     *)
HalfOpened(meta) ==
    {item} \cup
    IF Conflicts(meta) THEN {}
    ELSE { [Opened(meta) EXCEPT !.opens = item.opens] } \cup
         IF Stale(meta) THEN { [item EXCEPT !.fp = <<>>, !.rs = {}, !.object = Gone] }
         ELSE {}

\* Mutant of Released: the count is not taken back.
Released_Never == item

Released == [item EXCEPT !.opens = @ - 1]

-----------------------------------------------------------------------------
(***************************************************************************)
(* Handler.ServeHTTP.  seen is the version whose metadata the request has, *)
(* off and last what it still has to send, body the versions of the blocks *)
(* it has sent.                                                            *)
(***************************************************************************)
Idle == [pc |-> "idle", method |-> "GET", meta |-> Gone, seen |-> 0, off |-> 0,
         last |-> 0, body |-> <<>>, status |-> 0]

Init ==
    /\ history \in Histories /\ server \in Servers /\ now = 1
    /\ item = Closed
    /\ req = [r \in Requests |-> Idle]

(* serveError *)
Status(err) == CASE err = "notFound" -> 404
                 [] err = "rangeNotSatisfiable" -> 416
                 [] err = "objectChanged" -> 412
                 [] OTHER -> 502

Step(r, x) == req' = [req EXCEPT ![r] = x] /\ UNCHANGED <<history, server>>

Respond(r, status) == Step(r, [Idle EXCEPT !.status = status])

(* A method other than GET and HEAD, or a path without a key, is refused   *)
(* before the source is asked.                                             *)
Receive(r) ==
    /\ req[r].pc = "idle"
    /\ \/ \E m \in {"GET", "HEAD"} : \E off \in Blocks : \E last \in Blocks :
            /\ off <= last
            /\ Step(r, [Idle EXCEPT !.pc = "head", !.method = m, !.off = off,
                                    !.last = last])
       \/ Respond(r, 405) \/ Respond(r, 400)
    /\ UNCHANGED <<now, item>>

(* Source.Open: HEAD, or a range of one byte.  The transport may fail.     *)
Stat(r, result) ==
    CASE result.err = "nil" ->
           Step(r, [req[r] EXCEPT !.pc = "open", !.meta = result.meta, !.seen = now])
      [] result.err = "fallback" -> Step(r, [req[r] EXCEPT !.pc = "statRange"])
      [] OTHER -> Respond(r, Status(result.err))

StatHEAD(r) ==
    /\ req[r].pc = "head"
    /\ Stat(r, statHEAD(HeadAnswer)) \/ Stat(r, Err("transport"))
    /\ UNCHANGED <<now, item>>

StatRange(r) ==
    /\ req[r].pc = "statRange"
    /\ Stat(r, statRange(GetAnswer(0, 1, <<>>))) \/ Stat(r, Err("transport"))
    /\ UNCHANGED <<now, item>>

CacheOpen(r) ==
    /\ req[r].pc = "open"
    /\ \/ IF Conflicts(req[r].meta)
          THEN Respond(r, Status("objectChanged")) /\ UNCHANGED item
          ELSE Step(r, [req[r] EXCEPT !.pc = "serve"]) /\ item' = Opened(req[r].meta)
       \/ Respond(r, Status("local")) /\ item' \in HalfOpened(req[r].meta)
    /\ UNCHANGED now

(***************************************************************************)
(* http.ServeContent evaluates the client's own preconditions against the  *)
(* metadata of the reader: the source strips them from what it asks the    *)
(* origin.  A request has at most one (bound), a header with a validator   *)
(* of a version that the origin has served; it is chosen where it is read. *)
(***************************************************************************)
Conditions ==
    LET served == {history[i] : i \in 1 .. now}
        tags   == {v.etag : v \in served} \ {<<>>}
        dates  == {v.lm : v \in served} \ {<<>>}
    IN  {<<"none", <<>>>>}
        \cup {"If-Match", "If-None-Match", "If-Range"} \X tags
        \cup {"If-Unmodified-Since", "If-Modified-Since", "If-Range"} \X dates

(* The entity tag must match strongly, or may match weakly; an object      *)
(* without a modification time passes every comparison of dates.           *)
Precondition(meta, c) ==
    LET v == c[2]
    IN  CASE c[1] = "If-Match" /\ ~(IsStrong(v) /\ v = meta.etag) -> 412
          [] c[1] = "If-Unmodified-Since" /\ meta.lm # <<>> /\ meta.lm[2] > v[2] -> 412
          [] c[1] = "If-None-Match" /\ meta.etag # <<>> /\ meta.etag[2] = v[2] -> 304
          [] c[1] = "If-Modified-Since" /\ meta.lm # <<>> /\ meta.lm[2] <= v[2] -> 304
          [] OTHER -> 200

(* A range under If-Range is asked for of one version only. *)
RangeIgnored(meta, c) ==
    c[1] = "If-Range" /\ ~(c[2] = meta.lm \/ (IsStrong(c[2]) /\ c[2] = meta.etag))

(* The status and the headers are sent before the first block is read (the *)
(* content type is known).  200 stands for 206 too.                        *)
Finish(r, status) == Step(r, [req[r] EXCEPT !.pc = "close", !.status = status])

Transfer(r, off, last) ==
    Step(r, [req[r] EXCEPT !.pc = "read", !.status = 200, !.off = off, !.last = last])

Serve(r) ==
    LET x    == req[r]
        size == x.meta.size
    IN  /\ x.pc = "serve"
        /\ \E c \in Conditions :
             IF Precondition(x.meta, c) # 200 THEN Finish(r, Precondition(x.meta, c))
             ELSE IF size > 0 /\ x.off >= size /\ ~RangeIgnored(x.meta, c) THEN Finish(r, 416)
             ELSE IF size = 0 \/ x.method = "HEAD" THEN Finish(r, 200)
             ELSE IF RangeIgnored(x.meta, c) THEN Transfer(r, 0, size - 1)
             ELSE Transfer(r, x.off, IF x.last < size THEN x.last ELSE size - 1)
        /\ UNCHANGED <<now, item>>

Send(r, v) == Step(r, [req[r] EXCEPT !.body = Append(@, v), !.off = @ + 1,
                          !.pc = IF req[r].off = req[r].last THEN "close" ELSE "read"])

(* The response ends early: its status is out already. *)
Abort(r) == Step(r, [req[r] EXCEPT !.pc = "close", !.status = -200])

(* readSeeker.Read and Reader.ReadAt: a block that is cached, or one that  *)
(* the item's object fetches.                                              *)
ReadCached(r) ==
    /\ req[r].pc = "read" /\ req[r].off \in item.rs
    /\ Send(r, item.file[req[r].off])
    /\ UNCHANGED <<now, item>>

ReadFetched(r) ==
    LET b == req[r].off
    IN  /\ req[r].pc = "read" /\ b \notin item.rs
        /\ \/ /\ OpenRange(item.object, b, b + 1) = "nil"
              /\ Send(r, now)
              /\ item' = [item EXCEPT !.rs = @ \cup {b}, !.file[b] = now]
           \/ Abort(r) /\ UNCHANGED item
        /\ UNCHANGED now

(* The deferred reader.Close(). *)
Close(r) ==
    /\ req[r].pc = "close"
    /\ Respond(r, req[r].status)
    /\ item' = Released
    /\ UNCHANGED now

Change ==
    /\ now < Len(history)
    /\ now' = now + 1
    /\ UNCHANGED <<history, server, item, req>>

Next == \/ Change
        \/ \E r \in Requests :
             \/ Receive(r) \/ StatHEAD(r) \/ StatRange(r) \/ CacheOpen(r)
             \/ Serve(r) \/ ReadCached(r) \/ ReadFetched(r) \/ Close(r)

Spec == Init /\ [][Next]_vars

-----------------------------------------------------------------------------
TypeOK ==
    /\ now \in DOMAIN history
    /\ item.opens \in 0 .. Cardinality(Requests) /\ item.rs \subseteq Blocks
    /\ item.object \in Metadata /\ item.file \in [Blocks -> 0 .. now]
    /\ \A r \in Requests :
         /\ req[r].meta \in Metadata /\ req[r].seen \in 0 .. now
         /\ req[r].body \in Seq(DOMAIN history)
         /\ req[r].off \in 0 .. MaxSize /\ req[r].last \in 0 .. MaxSize

Same(v, w) == metadataFingerprint(v) = metadataFingerprint(w)

(* Every byte of a response is of a version that its metadata validates,   *)
(* as far as the origin gives validators at all: the same size, strong     *)
(* entity tag and modification time.  Neither a change between the stat    *)
(* and a range request, nor one between two range requests, nor bytes that *)
(* another request fetched earlier or with other metadata, get past        *)
(* If-Range, the comparisons of OpenRange and the fingerprint.             *)
NoMixedVersions ==
    \A r \in Requests :
       metadataFingerprint(req[r].meta) # <<>> =>
          \A i \in DOMAIN req[r].body : Same(history[req[r].body[i]], req[r].meta)

(* Without validators nothing outlives its use: a response holds no byte   *)
(* that was fetched before the item was last opened from idle.             *)
FreshWithoutValidators ==
    \A r \in Requests :
       metadataFingerprint(req[r].meta) = <<>> /\ req[r].pc \in {"read", "close"} =>
          \A i \in DOMAIN req[r].body : req[r].body[i] >= item.since

(* "A request which races an upstream mutation is retryable by the         *)
(* client" (handler.go:110): a 412 that is not the answer to the client's  *)
(* own If-Match or If-Unmodified-Since is given only if another request    *)
(* that is being served right now has seen another version, so that a      *)
(* retry once it is done does not meet the conflict again.                 *)
ConflictMeansChange ==
    [][\A r \in Requests :
         req[r].status # 412 /\ req'[r].status = 412 =>
            \/ /\ req[r].pc = "serve"
               /\ \E c \in Conditions : Precondition(req[r].meta, c) = 412
            \/ \E q \in Requests \ {r} : /\ req[q].pc \in {"serve", "read", "close"}
                                         /\ req[q].seen # req[r].seen]_vars
=============================================================================
