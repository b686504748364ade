---------------------------- MODULE ProxyProofs ----------------------------
(***************************************************************************)
(* What holds of the proxy for every number of requests, every origin      *)
(* whose validators are consistent, and every history of the object.       *)
(***************************************************************************)
EXTENDS Proxy, FiniteSetTheorems, TLAPS

-----------------------------------------------------------------------------
(* The fields of the records.                                              *)
Fingerprints == {metadataFingerprint(m) : m \in Metadata}

ItemRecord ==
    [opens : Nat, fp : Fingerprints, rs : SUBSET Blocks, file : [Blocks -> Nat],
     object : Metadata, since : Nat]

Phases == {"idle", "head", "statRange", "open", "serve", "read", "close"}

RequestRecord ==
    [pc : Phases, method : {"GET", "HEAD"}, meta : Metadata, seen : Nat, off : Int,
     last : Int, body : Seq(Nat), status : Int]

Open == {r \in Requests : req[r].pc \in {"serve", "read", "close"}}

Types ==
    /\ history \in Histories /\ server \in Servers /\ now \in DOMAIN history
    /\ item \in ItemRecord
    /\ req \in [Requests -> RequestRecord]

(* Metadata is what the origin had: the request's when it was looked at,   *)
(* the item's that of some version.                                        *)
FromOrigin ==
    /\ \A r \in Requests : req[r].pc \in {"open", "serve", "read", "close"} =>
          req[r].seen \in DOMAIN history /\ req[r].meta = history[req[r].seen]
    /\ item.object = Gone \/ \E i \in DOMAIN history : item.object = history[i]

(* The item is in use by the open requests, for one fingerprint. *)
InUse ==
    /\ item.opens = Cardinality(Open)
    /\ item.fp = metadataFingerprint(item.object)
    /\ \A r \in Open : metadataFingerprint(req[r].meta) = item.fp

(* A block that the item may hold: it is of a version with the item's      *)
(* fingerprint; without one, it was fetched since the item went into use.  *)
Fits(v) ==
    /\ v \in DOMAIN history
    /\ item.fp # <<>> => metadataFingerprint(history[v]) = item.fp
    /\ item.fp = <<>> => v >= item.since

FileSound == item.since <= now /\ \A b \in item.rs : Fits(item.file[b])

BodySound == \A r \in Requests : \A i \in DOMAIN req[r].body :
                r \in Open /\ Fits(req[r].body[i])

Inv == Types /\ FromOrigin /\ InUse /\ FileSound /\ BodySound

(* The range that a request still has to send lies within the object. *)
Serving == {"serve", "read", "close"}
Known == {"open"} \cup Serving

Within(x) ==
    /\ x.off \in 0 .. MaxSize /\ x.last \in 0 .. MaxSize /\ x.seen <= now
    /\ x.pc \in Known => x.meta.size >= 0
    /\ x.pc \notin {"idle", "close"} => x.off <= x.last /\ x.last < MaxSize

InRange == /\ \A r \in Requests : Within(req[r])
           /\ \A b \in Blocks : item.file[b] <= now

-----------------------------------------------------------------------------
(* The members of a history. *)
LEMMA HistoryFacts ==
  ASSUME NEW h \in Histories
  PROVE  /\ h \in Seq(Metadata) /\ h # <<>>
         /\ \A i \in DOMAIN h : h[i] \in Metadata
         /\ \A i, j \in DOMAIN h : Consistent(h[i], h[j])
BY ProxyAssumption

(* An entity tag is never equal to a modification time. *)
LEMMA TagIsNoDate ==
  ASSUME NEW t \in Tags, NEW d \in Dates, t = d
  PROVE  t = <<>>
BY DEF Tags, Dates

(* A fingerprint is empty just if there is nothing to send in If-Range. *)
LEMMA FingerprintValidator ==
  ASSUME NEW m \in Metadata
  PROVE  metadataFingerprint(m) # <<>> <=> ifRangeValidator(m) # <<>>
BY DEF metadataFingerprint, ifRangeValidator, IsStrong

(* Equal sizes, strong tags and dates are equal fingerprints. *)
LEMMA SameFingerprint ==
  ASSUME NEW m \in Metadata, NEW o \in Metadata, m.size = o.size, m.lm = o.lm,
         IsStrong(m.etag) <=> IsStrong(o.etag),
         IsStrong(m.etag) => m.etag = o.etag
  PROVE  metadataFingerprint(m) = metadataFingerprint(o)
BY DEF metadataFingerprint

(* What OpenRange accepts is a range of a version that the fingerprint     *)
(* cannot tell from the expected one.                                      *)
LEMMA OpenRangeValidates ==
  ASSUME Types, NEW m \in Metadata, NEW i \in DOMAIN history, m = history[i],
         metadataFingerprint(m) # <<>>,
         NEW b \in Blocks, OpenRange(m, b, b + 1) = "nil"
  PROVE  metadataFingerprint(Origin) = metadataFingerprint(m)
<1> DEFINE o == Origin
           sent == ifRangeValidator(m)
           a == GetAnswer(b, b + 1, sent)
<1>1. o \in Metadata /\ Consistent(m, o) /\ o = history[now]
  BY HistoryFacts DEF Types, Origin
<1>2. sent # <<>>
  BY FingerprintValidator
<1>3. a.status \in {200, 206, 404, 416}
  BY DEF GetAnswer, Answer, FullAnswer
<1>4. /\ a.status = 206 /\ a.meta.size = m.size
      /\ ~Differs(m.etag, a.meta.etag) /\ ~Differs(m.lm, a.meta.lm)
  <2> HIDE DEF a
  <2>1. a = GetAnswer(b, b + 1, ifRangeValidator(m))
    BY DEF a
  <2> QED  BY <2>1, <1>2, <1>3 DEF OpenRange
<1>5. /\ o # Gone /\ (server.ifRange => sent \in {<<>>, o.etag, o.lm})
      /\ a.meta = IF server.tags \/ sent = <<>> THEN o
                   ELSE [o EXCEPT !.etag = <<>>, !.lm = <<>>]
  BY <1>4 DEF GetAnswer, Answer, FullAnswer
<1>6. o.size = m.size
  BY <1>1, <1>4, <1>5 DEF Metadata
<1>7. /\ IsStrong(m.etag) <=> IsStrong(o.etag)
      /\ m.lm = <<>> <=> o.lm = <<>>
      /\ IsStrong(m.etag) /\ m.etag = o.etag => m.lm = o.lm
  <2>1. m # Gone
    BY DEF metadataFingerprint, Gone, IsStrong
  <2> QED  BY <2>1, <1>1, <1>5 DEF Consistent
<1>8. CASE server.ifRange
  <2>1. sent \in {o.etag, o.lm}
    BY <1>8, <1>2, <1>5
  <2>2. m.etag \in Tags /\ o.etag \in Tags /\ m.lm \in Dates /\ o.lm \in Dates
    BY <1>1 DEF Metadata
  <2>3. CASE IsStrong(m.etag)
    <3>1. m.etag = o.etag
      BY <1>2, <2>1, <2>2, <2>3, TagIsNoDate DEF ifRangeValidator
    <3> QED  BY <3>1, <1>1, <1>6, <1>7, <2>3, SameFingerprint
  <2>4. CASE ~IsStrong(m.etag)
    <3>1. m.lm = o.lm
      BY <1>2, <2>1, <2>2, <2>4, TagIsNoDate DEF ifRangeValidator
    <3> QED  BY <3>1, <1>1, <1>6, <1>7, <2>4, SameFingerprint
  <2> QED  BY <2>3, <2>4
<1>9. CASE ~server.ifRange
  <2>1. a.meta = o
    BY <1>9, <1>5, ProxyAssumption DEF Types
  <2>2. CASE IsStrong(m.etag)
    <3>1. m.etag = o.etag
      BY <1>4, <1>7, <2>1, <2>2 DEF Differs, IsStrong
    <3> QED  BY <3>1, <1>1, <1>6, <1>7, <2>2, SameFingerprint
  <2>3. CASE ~IsStrong(m.etag)
    <3>1. m.lm = o.lm
      BY <1>2, <1>4, <1>7, <2>1, <2>3 DEF Differs, ifRangeValidator
    <3> QED  BY <3>1, <1>1, <1>6, <1>7, <2>3, SameFingerprint
  <2> QED  BY <2>2, <2>3
<1> QED  BY <1>8, <1>9

(* The source's metadata is that of the version the origin serves, and no  *)
(* error of the stat is answered with 412.                                 *)
LEMMA StatGivesOrigin ==
  ASSUME Types
  PROVE  /\ \A x \in {statHEAD(HeadAnswer), statRange(GetAnswer(0, 1, <<>>)),
                      Err("transport")} :
              /\ x.err = "nil" => x.meta = Origin /\ x.meta.size >= 0
              /\ Status(x.err) \in Int \ {412}
<1>1. Origin \in Metadata
  BY HistoryFacts DEF Types, Origin
<1>2. [Origin EXCEPT !.size = -1].size = -1 /\ Origin.size \in Int
  BY <1>1 DEF Metadata
<1>3. LET x == statHEAD(HeadAnswer)
      IN  (x.err = "nil" => x.meta = Origin /\ x.meta.size >= 0) /\ Status(x.err) \in Int \ {412}
  BY <1>2 DEF statHEAD, HeadAnswer, FullAnswer, Answer, Ok, Err, Status
<1>4. LET x == statRange(GetAnswer(0, 1, <<>>))
      IN  (x.err = "nil" => x.meta = Origin /\ x.meta.size >= 0) /\ Status(x.err) \in Int \ {412}
  BY <1>2 DEF statRange, GetAnswer, FullAnswer, Answer, Ok, Err, Status
<1>5. Err("transport").err = "transport" /\ Status("transport") \in Int \ {412}
  BY DEF Err, Status
<1> QED  BY <1>3, <1>4, <1>5

-----------------------------------------------------------------------------
(* Step changes the request it is about and no other. *)
LEMMA StepUpdates ==
  ASSUME Types, NEW r \in Requests, NEW x \in RequestRecord, Step(r, x)
  PROVE  /\ req' \in [Requests -> RequestRecord] /\ req'[r] = x
         /\ \A q \in Requests \ {r} : req'[q] = req[q]
         /\ UNCHANGED <<history, server>>
BY DEF Types, Step

(* A step of one request that opens and closes nothing: the item keeps its *)
(* fingerprint, and a block that is cached or sent fits.                   *)
LEMMA OwnStep ==
  ASSUME Inv, NEW r \in Requests, NEW x \in RequestRecord, Step(r, x), UNCHANGED now,
         item' \in ItemRecord, item'.opens = item.opens, item'.fp = item.fp,
         item'.since = item.since, item'.object = item.object,
         \A b \in item'.rs : Fits(item'.file[b]),
         x.pc \in Serving <=> req[r].pc \in Serving,
         x.pc \in Known => x.seen \in DOMAIN history /\ x.meta = history[x.seen],
         x.pc \in Serving => x.meta = req[r].meta,
         \A i \in DOMAIN x.body : x.pc \in Serving /\ Fits(x.body[i])
  PROVE  Inv'
<1>1. /\ req' \in [Requests -> RequestRecord] /\ req'[r] = x
      /\ \A q \in Requests \ {r} : req'[q] = req[q]
      /\ UNCHANGED <<history, server>>
  BY StepUpdates DEF Inv
<1>2. Types'
  BY <1>1 DEF Inv, Types
<1>3. Open' = Open
  BY <1>1 DEF Open, Serving
<1>4. FromOrigin'
  BY <1>1 DEF Inv, FromOrigin, Known, Serving
<1>5. InUse'
  BY <1>1, <1>3 DEF Inv, InUse, Open, Serving
<1>6. FileSound'
  BY <1>1 DEF Inv, FileSound, Fits
<1>7. BodySound'
  BY <1>1, <1>3 DEF Inv, BodySound, Fits, Open, Serving
<1> QED  BY <1>2, <1>4, <1>5, <1>6, <1>7 DEF Inv

(* The same for a request that leaves the item alone. *)
LEMMA OwnStepOnly ==
  ASSUME Inv, NEW r \in Requests, NEW x \in RequestRecord, Step(r, x), UNCHANGED <<now, item>>,
         x.pc \in Serving <=> req[r].pc \in Serving,
         x.pc \in Known => x.seen \in DOMAIN history /\ x.meta = history[x.seen],
         x.pc \in Serving => x.meta = req[r].meta,
         \A i \in DOMAIN x.body : x.pc \in Serving /\ Fits(x.body[i])
  PROVE  Inv'
BY OwnStep DEF Inv, Types, FileSound

(* A request is answered before it opened anything. *)
LEMMA IdleRequest == Idle \in RequestRecord /\ Idle.pc = "idle" /\ Idle.body = <<>>
<1>1. Gone \in Metadata
  BY ProxyAssumption DEF Gone, Metadata, Tags, Dates
<1> QED  BY <1>1 DEF Idle, RequestRecord, Phases

(* The record of a request that was answered. *)
LEMMA Responded ==
  ASSUME NEW status \in Int
  PROVE  LET x == [Idle EXCEPT !.status = status]
         IN  x \in RequestRecord /\ x.pc = "idle" /\ x.body = <<>> /\ x.status = status
BY IdleRequest DEF RequestRecord

(* An answer to a request that is not being served keeps the invariant. *)
LEMMA RespondStep ==
  ASSUME Inv, NEW r \in Requests, NEW status \in Int, Respond(r, status),
         UNCHANGED <<now, item>>, req[r].pc \notin Serving
  PROVE  Inv'
<1> DEFINE x == [Idle EXCEPT !.status = status]
<1>1. x \in RequestRecord /\ x.pc = "idle" /\ x.body = <<>>
  BY Responded
<1>2. Step(r, x)
  BY DEF Respond
<1> HIDE DEF x
<1> QED  BY <1>1, <1>2, OwnStepOnly DEF Known, Serving

(* ServeHTTP begins: the method and the key are looked at. *)
LEMMA ReceiveStep ==
  ASSUME Inv, NEW r \in Requests, Receive(r)
  PROVE  Inv'
<1>0. req[r].pc = "idle" /\ UNCHANGED <<now, item>>
  BY DEF Receive
<1>1. CASE Respond(r, 405) \/ Respond(r, 400)
  <2>1. 405 \in Int /\ 400 \in Int /\ req[r].pc \notin Serving
    BY <1>0 DEF Serving
  <2> QED  BY <1>0, <1>1, <2>1, RespondStep
<1>2. ASSUME NEW m \in {"GET", "HEAD"}, NEW off \in Blocks, NEW last \in Blocks,
             Step(r, [Idle EXCEPT !.pc = "head", !.method = m, !.off = off, !.last = last])
      PROVE  Inv'
  <2> DEFINE x == [Idle EXCEPT !.pc = "head", !.method = m, !.off = off, !.last = last]
  <2>1. off \in Int /\ last \in Int
    BY ProxyAssumption DEF Blocks
  <2>2. x \in RequestRecord /\ x.pc = "head" /\ x.body = <<>>
    BY <2>1, IdleRequest DEF RequestRecord, Phases
  <2>3. Step(r, x)
    BY <1>2
  <2> HIDE DEF x
  <2> QED  BY <1>0, <2>2, <2>3, OwnStepOnly DEF Known, Serving
<1> QED  BY <1>1, <1>2 DEF Receive

(* Source.Open: the request learns the metadata of the version served now. *)
LEMMA StatStep ==
  ASSUME Inv, NEW r \in Requests, StatHEAD(r) \/ StatRange(r)
  PROVE  Inv'
<1>1. Types /\ req[r] \in RequestRecord /\ req[r].pc \notin Known /\ UNCHANGED <<now, item>>
  BY DEF Inv, Types, StatHEAD, StatRange, Known, Serving
<1>2. PICK res : /\ Stat(r, res) /\ (res.err = "nil" => res.meta = Origin)
                 /\ Status(res.err) \in Int
  BY <1>1, StatGivesOrigin DEF StatHEAD, StatRange
<1>3. CASE res.err = "nil"
  <2> DEFINE x == [req[r] EXCEPT !.pc = "open", !.meta = res.meta, !.seen = now]
  <2>1. res.meta \in Metadata /\ now \in Nat /\ now \in DOMAIN history
        /\ res.meta = history[now]
    BY <1>1, <1>2, <1>3, HistoryFacts DEF Types, Origin
  <2>2. /\ x \in RequestRecord /\ x.pc = "open" /\ x.body = req[r].body
        /\ x.meta = res.meta /\ x.seen = now
    BY <1>1, <2>1 DEF RequestRecord, Phases
  <2>3. Step(r, x)
    BY <1>2, <1>3 DEF Stat
  <2>4. DOMAIN x.body = {}
    BY <1>1, <2>2 DEF Inv, BodySound, Open, Known, Serving
  <2> HIDE DEF x
  <2> QED  BY <1>1, <2>1, <2>2, <2>3, <2>4, OwnStepOnly DEF Known, Serving
<1>4. CASE res.err = "fallback"
  <2> DEFINE x == [req[r] EXCEPT !.pc = "statRange"]
  <2>1. x \in RequestRecord /\ x.pc = "statRange" /\ x.body = req[r].body
    BY <1>1 DEF RequestRecord, Phases
  <2>2. Step(r, x)
    BY <1>2, <1>4 DEF Stat
  <2>3. DOMAIN x.body = {}
    BY <1>1, <2>1 DEF Inv, BodySound, Open, Known, Serving
  <2> HIDE DEF x
  <2> QED  BY <1>1, <2>1, <2>2, <2>3, OwnStepOnly DEF Known, Serving
<1>5. CASE res.err \notin {"nil", "fallback"}
  <2>1. Respond(r, Status(res.err))
    BY <1>2, <1>5 DEF Stat
  <2> QED  BY <1>1, <1>2, <2>1, RespondStep DEF Known
<1> QED  BY <1>3, <1>4, <1>5

(* http.ServeContent and a response that is cut short: the request stays   *)
(* open, with the body it has.                                             *)
LEMMA ServingStep ==
  ASSUME Inv, NEW r \in Requests, NEW x \in RequestRecord, Step(r, x), UNCHANGED <<now, item>>,
         req[r].pc \in Serving, x.pc \in Serving,
         x.meta = req[r].meta, x.seen = req[r].seen, x.body = req[r].body
  PROVE  Inv'
<1>1. req[r].seen \in DOMAIN history /\ req[r].meta = history[req[r].seen]
  BY DEF Inv, FromOrigin, Serving
<1>2. \A i \in DOMAIN req[r].body : Fits(req[r].body[i])
  BY DEF Inv, BodySound
<1> QED  BY <1>1, <1>2, OwnStepOnly

(* The statuses of preconditions. *)
LEMMA PreconditionStatus ==
  ASSUME NEW meta, NEW c
  PROVE  Precondition(meta, c) \in {200, 304, 412}
BY DEF Precondition

(* http.ServeContent answers at once, or goes on with a range.             *)
LEMMA ServeCases ==
  ASSUME Types, NEW r \in Requests, Serve(r)
  PROVE  \/ \E status \in {200, 304, 412, 416} :
               /\ Finish(r, status)
               /\ status = 412 => \E c \in Conditions : Precondition(req[r].meta, c) = 412
         \/ \E off, last \in Int :
               /\ Transfer(r, off, last) /\ req[r].meta.size # 0
               /\ \/ off = 0 /\ last = req[r].meta.size - 1
                  \/ /\ off = req[r].off
                     /\ req[r].meta.size > 0 => off < req[r].meta.size
                     /\ last = IF req[r].last < req[r].meta.size THEN req[r].last
                                                                  ELSE req[r].meta.size - 1
<1> DEFINE size == req[r].meta.size
           end == IF req[r].last < size THEN req[r].last ELSE size - 1
<1>1. req[r].off \in Int /\ req[r].last \in Int /\ size \in Int /\ end \in Int
  BY DEF Types, RequestRecord, Metadata
<1>2. PICK c \in Conditions :
         IF Precondition(req[r].meta, c) # 200 THEN Finish(r, Precondition(req[r].meta, c))
         ELSE IF size > 0 /\ req[r].off >= size /\ ~RangeIgnored(req[r].meta, c)
              THEN Finish(r, 416)
         ELSE IF size = 0 \/ req[r].method = "HEAD" THEN Finish(r, 200)
         ELSE IF RangeIgnored(req[r].meta, c) THEN Transfer(r, 0, size - 1)
         ELSE Transfer(r, req[r].off, end)
  BY DEF Serve
<1>3. \/ Finish(r, Precondition(req[r].meta, c))
      \/ Finish(r, 416) \/ Finish(r, 200)
      \/ Transfer(r, 0, size - 1) /\ size # 0
      \/ Transfer(r, req[r].off, end) /\ size # 0 /\ (size > 0 => req[r].off < size)
  BY <1>1, <1>2
<1>4. CASE Finish(r, Precondition(req[r].meta, c))
  BY <1>4, PreconditionStatus
<1>5. CASE Finish(r, 416) \/ Finish(r, 200)
  BY <1>5
<1>6. CASE Transfer(r, 0, size - 1) /\ size # 0
  BY <1>1, <1>6
<1>7. CASE Transfer(r, req[r].off, end) /\ size # 0 /\ (size > 0 => req[r].off < size)
  BY <1>1, <1>7
<1> QED  BY <1>3, <1>4, <1>5, <1>6, <1>7

(* What it makes of the request. *)
LEMMA FinishRecord ==
  ASSUME Types, NEW r \in Requests, NEW status \in Int, Finish(r, status)
  PROVE  \E x \in RequestRecord :
            /\ Step(r, x) /\ x.pc = "close" /\ x.status = status /\ x.meta = req[r].meta
            /\ x.seen = req[r].seen /\ x.body = req[r].body
            /\ x.off = req[r].off /\ x.last = req[r].last
<1> DEFINE x == [req[r] EXCEPT !.pc = "close", !.status = status]
<1>1. req[r] \in RequestRecord /\ "close" \in Phases
  BY DEF Types, Phases
<1>2. /\ x \in RequestRecord /\ x.pc = "close" /\ x.status = status
      /\ x.meta = req[r].meta /\ x.seen = req[r].seen /\ x.body = req[r].body
      /\ x.off = req[r].off /\ x.last = req[r].last
  BY <1>1 DEF RequestRecord
<1>3. Step(r, x)
  BY DEF Finish
<1> HIDE DEF x
<1> QED  BY <1>2, <1>3

(* The same for a body. *)
LEMMA TransferRecord ==
  ASSUME Types, NEW r \in Requests, NEW off \in Int, NEW last \in Int, Transfer(r, off, last)
  PROVE  \E x \in RequestRecord :
            /\ Step(r, x) /\ x.pc = "read" /\ x.status = 200 /\ x.meta = req[r].meta
            /\ x.seen = req[r].seen /\ x.body = req[r].body /\ x.off = off /\ x.last = last
<1> DEFINE x == [req[r] EXCEPT !.pc = "read", !.status = 200, !.off = off, !.last = last]
<1>1. req[r] \in RequestRecord /\ "read" \in Phases /\ 200 \in Int
  BY DEF Types, Phases
<1>2. /\ x \in RequestRecord /\ x.pc = "read" /\ x.status = 200
      /\ x.meta = req[r].meta /\ x.seen = req[r].seen /\ x.body = req[r].body
      /\ x.off = off /\ x.last = last
  BY <1>1 DEF RequestRecord
<1>3. Step(r, x)
  BY DEF Transfer
<1> HIDE DEF x
<1> QED  BY <1>2, <1>3

(* http.ServeContent decides about the preconditions and the range.        *)
LEMMA ServeStep ==
  ASSUME Inv, NEW r \in Requests, Serve(r)
  PROVE  Inv'
<1>1. Types /\ req[r].pc \in Serving /\ UNCHANGED <<now, item>>
  BY DEF Inv, Serve, Serving
<1>2. PICK x \in RequestRecord :
         /\ Step(r, x) /\ x.pc \in {"close", "read"} /\ x.meta = req[r].meta
         /\ x.seen = req[r].seen /\ x.body = req[r].body
  <2>1. \/ \E status \in Int : Finish(r, status)
        \/ \E off, last \in Int : Transfer(r, off, last)
    BY <1>1, ServeCases
  <2>2. CASE \E status \in Int : Finish(r, status)
    BY <1>1, <2>2, FinishRecord
  <2>3. CASE \E off, last \in Int : Transfer(r, off, last)
    BY <1>1, <2>3, TransferRecord
  <2> QED  BY <2>1, <2>2, <2>3
<1> QED  BY <1>1, <1>2, ServingStep DEF Serving

(* What Send makes of a request. *)
LEMMA SentRecord ==
  ASSUME Types, NEW r \in Requests, NEW v \in Nat, Send(r, v)
  PROVE  \E x \in RequestRecord :
            /\ Step(r, x) /\ x.pc \in {"read", "close"} /\ x.meta = req[r].meta
            /\ x.seen = req[r].seen /\ x.body = Append(req[r].body, v)
            /\ x.status = req[r].status
<1> DEFINE x == [req[r] EXCEPT !.body = Append(@, v), !.off = @ + 1,
                          !.pc = IF req[r].off = req[r].last THEN "close" ELSE "read"]
<1>1. req[r] \in RequestRecord
  BY DEF Types
<1>2. /\ x.pc \in {"read", "close"} /\ x.meta = req[r].meta /\ x.seen = req[r].seen
      /\ x.body = Append(req[r].body, v) /\ x.status = req[r].status
  BY <1>1 DEF RequestRecord
<1>3. x \in RequestRecord
  <2>1. Append(req[r].body, v) \in Seq(Nat) /\ req[r].off + 1 \in Int
    BY <1>1 DEF RequestRecord
  <2> QED  BY <1>1, <2>1 DEF RequestRecord, Phases
<1>4. Step(r, x)
  BY DEF Send
<1> QED  BY <1>2, <1>3, <1>4

(* A block that fits is added to the body. *)
LEMMA SentBody ==
  ASSUME Inv, NEW r \in Requests, req[r].pc \in Serving, NEW v \in Nat, Fits(v),
         NEW i \in DOMAIN Append(req[r].body, v)
  PROVE  Fits(Append(req[r].body, v)[i])
<1>1. req[r].body \in Seq(Nat)
  BY DEF Inv, Types, RequestRecord
<1>2. CASE i \in 1 .. Len(req[r].body)
  <2>1. Append(req[r].body, v)[i] = req[r].body[i] /\ i \in DOMAIN req[r].body
    BY <1>1, <1>2
  <2> QED  BY <2>1 DEF Inv, BodySound
<1>3. CASE i = Len(req[r].body) + 1
  BY <1>1, <1>3
<1> QED  BY <1>1, <1>2, <1>3

(* A cached block that is sent fits. *)
LEMMA ReadCachedStep ==
  ASSUME Inv, NEW r \in Requests, ReadCached(r)
  PROVE  Inv'
<1> DEFINE v == item.file[req[r].off]
<1>1. v \in Nat /\ Fits(v) /\ Send(r, v) /\ req[r].pc = "read" /\ UNCHANGED <<now, item>>
  BY DEF Inv, Types, ItemRecord, ReadCached, FileSound
<1> HIDE DEF v
<1>2. PICK x \in RequestRecord :
         /\ Step(r, x) /\ x.pc \in {"read", "close"} /\ x.meta = req[r].meta
         /\ x.seen = req[r].seen /\ x.body = Append(req[r].body, v)
  BY <1>1, SentRecord DEF Inv
<1>3. \A i \in DOMAIN x.body : Fits(x.body[i])
  BY <1>1, <1>2, SentBody DEF Serving
<1>4. req[r].seen \in DOMAIN history /\ req[r].meta = history[req[r].seen]
  BY <1>1 DEF Inv, FromOrigin
<1> QED  BY <1>1, <1>2, <1>3, <1>4, OwnStepOnly DEF Known, Serving

(* A block that OpenRange accepted fits: If-Range and the comparisons of   *)
(* the validators do not let another version pass.                         *)
LEMMA FetchedFits ==
  ASSUME Inv, NEW b \in Blocks, OpenRange(item.object, b, b + 1) = "nil"
  PROVE  Fits(now)
<1>1. now \in DOMAIN history /\ item.object \in Metadata /\ item.since <= now
  BY DEF Inv, Types, ItemRecord, FileSound
<1>2. ASSUME item.fp # <<>>
      PROVE  metadataFingerprint(history[now]) = item.fp
  <2>1. item.object # Gone
    BY <1>2 DEF Inv, InUse, Gone, metadataFingerprint, IsStrong
  <2>2. PICK i \in DOMAIN history : item.object = history[i]
    BY <2>1 DEF Inv, FromOrigin
  <2>3. metadataFingerprint(item.object) # <<>>
    BY <1>2 DEF Inv, InUse
  <2>4. metadataFingerprint(Origin) = metadataFingerprint(item.object)
    BY <1>1, <2>2, <2>3, OpenRangeValidates DEF Inv
  <2> QED  BY <2>4 DEF Origin, Inv, InUse
<1>3. now \in Nat /\ item.since \in Nat
  BY HistoryFacts, <1>1 DEF Inv, Types, ItemRecord
<1> QED  BY <1>1, <1>2, <1>3 DEF Fits

(* So does one that was fetched. *)
LEMMA ReadFetchedStep ==
  ASSUME Inv, NEW r \in Requests, ReadFetched(r), req[r].off \in Blocks
  PROVE  Inv'
<1> DEFINE b == req[r].off
<1>1. /\ req[r] \in RequestRecord /\ req[r].pc = "read" /\ UNCHANGED now
      /\ item \in ItemRecord /\ now \in Nat
      /\ req[r].seen \in DOMAIN history /\ req[r].meta = history[req[r].seen]
  BY HistoryFacts DEF Inv, Types, FromOrigin, ReadFetched
<1>2. CASE Abort(r) /\ UNCHANGED item
  <2> DEFINE x == [req[r] EXCEPT !.pc = "close", !.status = -200]
  <2>1. -200 \in Int /\ "close" \in Phases
    BY DEF Phases
  <2>2. x \in RequestRecord
    BY <1>1, <2>1 DEF RequestRecord
  <2>3. /\ x.pc = "close"
        /\ x.meta = req[r].meta /\ x.seen = req[r].seen /\ x.body = req[r].body
    BY <1>1 DEF RequestRecord
  <2>4. Step(r, x)
    BY <1>2 DEF Abort
  <2> HIDE DEF x
  <2> QED  BY <1>1, <1>2, <2>2, <2>3, <2>4, ServingStep DEF Serving
<1>3. CASE /\ OpenRange(item.object, b, b + 1) = "nil"
           /\ Send(r, now)
           /\ item' = [item EXCEPT !.rs = @ \cup {b}, !.file[b] = now]
  <2>1. Fits(now)
    BY <1>3, FetchedFits
  <2>2. PICK x \in RequestRecord :
           /\ Step(r, x) /\ x.pc \in {"read", "close"} /\ x.meta = req[r].meta
           /\ x.seen = req[r].seen /\ x.body = Append(req[r].body, now)
    BY <1>1, <1>3, SentRecord DEF Inv
  <2>3. \A i \in DOMAIN x.body : Fits(x.body[i])
    BY <1>1, <2>1, <2>2, SentBody DEF Serving
  <2>4. /\ item'.opens = item.opens /\ item'.fp = item.fp /\ item'.since = item.since
        /\ item'.object = item.object /\ item'.rs = item.rs \cup {b}
        /\ item'.file = [item.file EXCEPT ![b] = now]
    BY <1>1, <1>3 DEF ItemRecord
  <2>5. item' \in ItemRecord
    BY <1>1, <1>3 DEF ItemRecord
  <2>6. \A c \in item'.rs : Fits(item'.file[c])
    BY <1>1, <2>1, <2>4 DEF Inv, FileSound, ItemRecord
  <2> QED
    BY <1>1, <2>2, <2>3, <2>4, <2>5, <2>6, OwnStep DEF Known, Serving
<1> QED  BY <1>2, <1>3 DEF ReadFetched

-----------------------------------------------------------------------------
(* The ranges stay within the object. *)
LEMMA OwnRange ==
  ASSUME Types, InRange, NEW r \in Requests, NEW x, Step(r, x), Within(x), UNCHANGED now,
         \A b \in Blocks : item'.file[b] <= now
  PROVE  InRange'
<1>1. req'[r] = x /\ \A q \in Requests \ {r} : req'[q] = req[q]
  BY DEF Types, Step
<1> QED  BY <1>1 DEF InRange, Within

(* An answered request has no range. *)
LEMMA RespondRange ==
  ASSUME Types, InRange, NEW r \in Requests, NEW status, Respond(r, status), UNCHANGED now,
         \A b \in Blocks : item'.file[b] <= now
  PROVE  InRange'
<1> DEFINE x == [Idle EXCEPT !.status = status]
<1>1. Within(x)
  <2>1. now \in Nat /\ MaxSize \in Nat
    BY HistoryFacts, ProxyAssumption DEF Types
  <2>2. x.off = 0 /\ x.last = 0 /\ x.seen = 0 /\ x.pc = "idle"
    BY DEF Idle
  <2> HIDE DEF x
  <2> QED  BY <2>1, <2>2 DEF Within, Known, Serving
<1>2. Step(r, x)
  BY DEF Respond
<1> HIDE DEF x
<1> QED  BY <1>1, <1>2, OwnRange

(* Send moves on to the last block of the range and not beyond. *)
LEMMA SendRange ==
  ASSUME Types, InRange, NEW r \in Requests, req[r].pc = "read", NEW v, Send(r, v),
         UNCHANGED now, \A b \in Blocks : item'.file[b] <= now
  PROVE  InRange'
<1> DEFINE x == [req[r] EXCEPT !.body = Append(@, v), !.off = @ + 1,
                          !.pc = IF req[r].off = req[r].last THEN "close" ELSE "read"]
<1>1. /\ req[r] \in RequestRecord /\ Within(req[r]) /\ MaxSize \in Nat
      /\ req[r].off \in Int /\ req[r].last \in Int
  BY ProxyAssumption DEF Types, InRange, RequestRecord
<1>2. /\ x.off = req[r].off + 1 /\ x.last = req[r].last /\ x.seen = req[r].seen
      /\ x.meta = req[r].meta
      /\ x.pc = IF req[r].off = req[r].last THEN "close" ELSE "read"
  BY <1>1 DEF RequestRecord
<1>3. Step(r, x)
  BY DEF Send
<1> HIDE DEF x
<1>4. Within(x)
  BY <1>1, <1>2 DEF Within, Known, Serving
<1> QED  BY <1>3, <1>4, OwnRange

(* Every step keeps the ranges within the object. *)
LEMMA RangeStep ==
  ASSUME Types, InRange, [Next]_vars
  PROVE  InRange'
<1>a. /\ now \in Nat /\ MaxSize \in Nat /\ item \in ItemRecord
      /\ \A r \in Requests : req[r] \in RequestRecord /\ Within(req[r])
  BY HistoryFacts, ProxyAssumption DEF Types, InRange
<1>1. CASE Change
  BY <1>1, <1>a DEF Change, InRange, Within, RequestRecord, ItemRecord
<1>2. ASSUME NEW r \in Requests, Receive(r)
      PROVE  InRange'
  <2>1. CASE Respond(r, 405) \/ Respond(r, 400)
    BY <1>2, <2>1, RespondRange DEF Receive, InRange
  <2>2. ASSUME NEW m \in {"GET", "HEAD"}, NEW off \in Blocks, NEW last \in Blocks, off <= last,
               Step(r, [Idle EXCEPT !.pc = "head", !.method = m, !.off = off, !.last = last])
        PROVE  InRange'
    <3> DEFINE x == [Idle EXCEPT !.pc = "head", !.method = m, !.off = off, !.last = last]
    <3>1. x.off = off /\ x.last = last /\ x.seen = 0 /\ x.pc = "head"
      BY DEF Idle
    <3>2. Step(r, x)
      BY <2>2
    <3> HIDE DEF x
    <3>3. Within(x)
      BY <1>a, <2>2, <3>1 DEF Within, Known, Serving, Blocks
    <3> QED  BY <1>2, <3>2, <3>3, OwnRange DEF Receive, InRange
  <2> QED  BY <1>2, <2>1, <2>2 DEF Receive
<1>3. ASSUME NEW r \in Requests, StatHEAD(r) \/ StatRange(r)
      PROVE  InRange'
  <2>1. /\ req[r].pc \in {"head", "statRange"} /\ UNCHANGED <<now, item>>
        /\ \A b \in Blocks : item'.file[b] <= now
    BY <1>3 DEF StatHEAD, StatRange, InRange
  <2>2. PICK res : Stat(r, res) /\ (res.err = "nil" => res.meta.size >= 0)
    BY <1>3, StatGivesOrigin DEF StatHEAD, StatRange
  <2>3. CASE res.err = "nil"
    <3> DEFINE x == [req[r] EXCEPT !.pc = "open", !.meta = res.meta, !.seen = now]
    <3>1. /\ x.off = req[r].off /\ x.last = req[r].last /\ x.seen = now /\ x.pc = "open"
          /\ x.meta = res.meta
      BY <1>a DEF RequestRecord
    <3>2. Step(r, x)
      BY <2>2, <2>3 DEF Stat
    <3> HIDE DEF x
    <3>3. Within(x)
      BY <1>a, <2>1, <2>2, <2>3, <3>1 DEF Within
    <3> QED  BY <2>1, <3>2, <3>3, OwnRange
  <2>4. CASE res.err = "fallback"
    <3> DEFINE x == [req[r] EXCEPT !.pc = "statRange"]
    <3>1. /\ x.off = req[r].off /\ x.last = req[r].last /\ x.seen = req[r].seen
          /\ x.pc = "statRange"
      BY <1>a DEF RequestRecord
    <3>2. Step(r, x)
      BY <2>2, <2>4 DEF Stat
    <3> HIDE DEF x
    <3>3. Within(x)
      BY <1>a, <2>1, <3>1 DEF Within, Known, Serving
    <3> QED  BY <2>1, <3>2, <3>3, OwnRange
  <2>5. CASE res.err \notin {"nil", "fallback"}
    BY <2>1, <2>2, <2>5, RespondRange DEF Stat
  <2> QED  BY <2>3, <2>4, <2>5
<1>4. ASSUME NEW r \in Requests, CacheOpen(r)
      PROVE  InRange'
  <2>1. UNCHANGED now /\ item'.file = item.file /\ req[r].pc = "open"
    <3>1. UNCHANGED now /\ req[r].pc = "open"
          /\ item' \in HalfOpened(req[r].meta) \cup {item, Opened(req[r].meta)}
      BY <1>4 DEF CacheOpen
    <3>2. Opened(req[r].meta).file = item.file
          /\ [Opened(req[r].meta) EXCEPT !.opens = item.opens].file = item.file
      BY <1>a DEF Opened, ItemRecord
    <3>3. [item EXCEPT !.fp = <<>>, !.rs = {}, !.object = Gone].file = item.file
      BY <1>a DEF ItemRecord
    <3> QED  BY <3>1, <3>2, <3>3 DEF HalfOpened
  <2>2. \A b \in Blocks : item'.file[b] <= now
    BY <2>1 DEF InRange
  <2>3. CASE Respond(r, Status("objectChanged")) \/ Respond(r, Status("local"))
    BY <2>1, <2>2, <2>3, RespondRange
  <2>4. CASE Step(r, [req[r] EXCEPT !.pc = "serve"])
    <3> DEFINE x == [req[r] EXCEPT !.pc = "serve"]
    <3>1. /\ x.off = req[r].off /\ x.last = req[r].last /\ x.seen = req[r].seen
          /\ x.pc = "serve" /\ x.meta = req[r].meta
      BY <1>a DEF RequestRecord
    <3>2. Step(r, x)
      BY <2>4
    <3> HIDE DEF x
    <3>3. Within(x)
      BY <1>a, <2>1, <3>1 DEF Within, Known, Serving
    <3> QED  BY <2>1, <2>2, <3>2, <3>3, OwnRange
  <2> QED  BY <1>4, <2>3, <2>4 DEF CacheOpen
<1>5. ASSUME NEW r \in Requests, Serve(r)
      PROVE  InRange'
  <2>1. /\ UNCHANGED <<now, item>> /\ req[r].pc = "serve" /\ Within(req[r])
        /\ \A b \in Blocks : item'.file[b] <= now
        /\ req[r].meta.size \in Int /\ req[r].meta.size <= MaxSize
        /\ req[r].last \in Int /\ req[r].off \in Int
    BY <1>5, <1>a DEF Serve, InRange, RequestRecord, Metadata
  <2>2. ASSUME NEW status \in Int, Finish(r, status)
        PROVE  InRange'
    <3>1. PICK x \in RequestRecord :
             /\ Step(r, x) /\ x.pc = "close" /\ x.meta = req[r].meta /\ x.seen = req[r].seen
             /\ x.off = req[r].off /\ x.last = req[r].last
      BY <2>2, FinishRecord
    <3>2. Within(x)
      BY <2>1, <3>1 DEF Within, Known, Serving
    <3> QED  BY <2>1, <3>1, <3>2, OwnRange
  <2>3. ASSUME NEW off \in Int, NEW last \in Int, Transfer(r, off, last),
               req[r].meta.size # 0,
               \/ off = 0 /\ last = req[r].meta.size - 1
               \/ /\ off = req[r].off
                  /\ req[r].meta.size > 0 => off < req[r].meta.size
                  /\ last = IF req[r].last < req[r].meta.size THEN req[r].last
                                                               ELSE req[r].meta.size - 1
        PROVE  InRange'
    <3>1. PICK x \in RequestRecord :
             /\ Step(r, x) /\ x.pc = "read" /\ x.meta = req[r].meta /\ x.seen = req[r].seen
             /\ x.off = off /\ x.last = last
      BY <2>3, TransferRecord
    <3>2. req[r].meta.size > 0
      BY <2>1, <2>3 DEF Within, Known, Serving
    <3>3. off \in 0 .. MaxSize /\ last \in 0 .. MaxSize /\ off <= last /\ last < MaxSize
      BY <1>a, <2>1, <2>3, <3>2 DEF Within, Known, Serving
    <3>4. Within(x)
      BY <2>1, <3>1, <3>3 DEF Within, Known, Serving
    <3> QED  BY <2>1, <3>1, <3>4, OwnRange
  <2>4. CASE \E status \in Int : Finish(r, status)
    BY <2>2, <2>4
  <2> QED  BY <1>5, <2>3, <2>4, ServeCases
<1>6. ASSUME NEW r \in Requests, ReadCached(r)
      PROVE  InRange'
  BY <1>6, SendRange DEF ReadCached, InRange
<1>7. ASSUME NEW r \in Requests, ReadFetched(r)
      PROVE  InRange'
  <2>1. UNCHANGED now /\ req[r].pc = "read"
    BY <1>7 DEF ReadFetched
  <2>2. CASE Abort(r) /\ UNCHANGED item
    <3> DEFINE x == [req[r] EXCEPT !.pc = "close", !.status = -200]
    <3>1. /\ x.off = req[r].off /\ x.last = req[r].last /\ x.seen = req[r].seen
          /\ x.pc = "close" /\ x.meta = req[r].meta
      BY <1>a DEF RequestRecord
    <3>2. Step(r, x)
      BY <2>2 DEF Abort
    <3> HIDE DEF x
    <3>3. Within(x)
      BY <1>a, <2>1, <3>1 DEF Within, Known, Serving
    <3> QED  BY <2>1, <2>2, <3>2, <3>3, OwnRange DEF InRange
  <2>3. CASE /\ Send(r, now)
             /\ item' = [item EXCEPT !.rs = @ \cup {req[r].off}, !.file[req[r].off] = now]
    <3>1. item'.file = [item.file EXCEPT ![req[r].off] = now]
      BY <1>a, <2>3 DEF ItemRecord
    <3>2. \A b \in Blocks : item'.file[b] <= now
      BY <1>a, <3>1 DEF ItemRecord, InRange
    <3> QED  BY <2>1, <2>3, <3>2, SendRange
  <2> QED  BY <1>7, <2>2, <2>3 DEF ReadFetched
<1>8. ASSUME NEW r \in Requests, Close(r)
      PROVE  InRange'
  <2>1. UNCHANGED now /\ item'.file = item.file /\ Respond(r, req[r].status)
    BY <1>8, <1>a DEF Close, Released, ItemRecord
  <2> QED  BY <2>1, RespondRange DEF InRange
<1>9. CASE UNCHANGED vars
  BY <1>9 DEF vars, InRange, Within
<1> QED
  BY <1>1, <1>2, <1>3, <1>4, <1>5, <1>6, <1>7, <1>8, <1>9 DEF Next

-----------------------------------------------------------------------------
(* The open requests are finitely many. *)
LEMMA OpenFinite == IsFiniteSet(Open)
BY ProxyAssumption, FS_Subset DEF Open

(* What Opened makes of the item.                                          *)
LEMMA OpenedItem ==
  ASSUME Inv, NEW meta \in Metadata
  PROVE  /\ Opened(meta) \in ItemRecord
         /\ Opened(meta).opens = item.opens + 1 /\ Opened(meta).file = item.file
         /\ Opened(meta).fp = metadataFingerprint(meta) /\ Opened(meta).object = meta
         /\ Opened(meta).since = IF item.opens = 0 THEN now ELSE item.since
         /\ Opened(meta).rs = IF Stale(meta) THEN {} ELSE item.rs \cap 0 .. meta.size - 1
<1> DEFINE fp == metadataFingerprint(meta)
           since == IF item.opens = 0 THEN now ELSE item.since
           rs == IF Stale(meta) THEN {} ELSE item.rs \cap 0 .. meta.size - 1
<1>1. /\ item \in ItemRecord /\ item.opens + 1 \in Nat /\ fp \in Fingerprints
      /\ since \in Nat /\ rs \in SUBSET Blocks
  BY HistoryFacts DEF Inv, Types, ItemRecord, Fingerprints
<1>2. Opened(meta) = [item EXCEPT !.opens = @ + 1, !.fp = fp, !.object = meta,
                                  !.rs = rs, !.since = since]
  BY DEF Opened
<1> HIDE DEF fp, since, rs
<1> QED  BY <1>1, <1>2 DEF ItemRecord, fp, since, rs

(* The blocks that an Open leaves fit what it makes of the item.           *)
LEMMA OpenedBlocksFit ==
  ASSUME Inv, NEW meta \in Metadata, ~Conflicts(meta), UNCHANGED <<history, now>>,
         item'.fp = metadataFingerprint(meta), item'.file = item.file,
         item'.since = IF item.opens = 0 THEN now ELSE item.since,
         item'.rs = IF Stale(meta) THEN {} ELSE item.rs \cap 0 .. meta.size - 1
  PROVE  FileSound'
<1>1. item \in ItemRecord /\ now \in Nat
  BY HistoryFacts DEF Inv, Types
<1>2. item.opens > 0 => item.fp = item'.fp
  BY DEF Conflicts
<1>3. item'.since <= now /\ item'.rs \subseteq item.rs
  BY <1>1 DEF Inv, FileSound
<1>4. item'.rs # {} => (item.opens = 0 => item.fp = item'.fp /\ item.fp # <<>>)
  BY DEF Stale
<1>5. ASSUME NEW b \in item'.rs
      PROVE  Fits(item.file[b])'
  <2>1. Fits(item.file[b]) /\ item.fp = item'.fp /\ (item.opens = 0 => item.fp # <<>>)
    BY <1>1, <1>2, <1>3, <1>4, <1>5 DEF Inv, FileSound, ItemRecord
  <2> QED  BY <2>1 DEF Fits
<1> QED  BY <1>3, <1>5 DEF FileSound

(* An Open that fails: the request is answered, and the item was left      *)
(* alone, emptied, or made the new version's without a reader.             *)
LEMMA HalfOpenStep ==
  ASSUME Inv, NEW r \in Requests, req[r].pc = "open", UNCHANGED now,
         Respond(r, Status("local")), item' \in HalfOpened(req[r].meta)
  PROVE  Inv'
<1> DEFINE meta == req[r].meta
           x == [Idle EXCEPT !.status = Status("local")]
<1>1. /\ req[r] \in RequestRecord /\ item \in ItemRecord /\ now \in Nat
      /\ req[r].seen \in DOMAIN history /\ meta = history[req[r].seen]
      /\ meta \in Metadata /\ r \notin Open
  BY HistoryFacts DEF Inv, Types, FromOrigin, RequestRecord, Open
<1>2. Status("local") = 502
  BY DEF Status
<1>3. x \in RequestRecord /\ x.pc = "idle" /\ x.body = <<>> /\ Step(r, x)
  BY <1>2, Responded DEF Respond
<1> HIDE DEF x
<1>4. /\ req' \in [Requests -> RequestRecord] /\ req'[r] = x
      /\ \A q \in Requests \ {r} : req'[q] = req[q]
      /\ UNCHANGED <<history, server>>
  BY <1>3, StepUpdates DEF Inv
<1>5. Open' = Open
  BY <1>1, <1>3, <1>4 DEF Open
<1>6. item.opens = 0 => Open = {}
  BY OpenFinite, FS_EmptySet DEF Inv, InUse
<1>7. CASE UNCHANGED item
  <2>1. req[r].pc \notin Serving /\ Status("local") \in Int
    BY <1>2 DEF Serving
  <2> QED  BY <1>7, <2>1, RespondStep
<1>8. ASSUME item' \in ItemRecord, item'.opens = item.opens,
             item'.fp = metadataFingerprint(item'.object),
             item'.object = Gone \/ item'.object = meta,
             item.opens > 0 => item'.fp = item.fp /\ item'.since = item.since,
             FileSound'
      PROVE  Inv'
  <2>1. Types'
    BY <1>4, <1>8 DEF Inv, Types
  <2>2. FromOrigin'
    BY <1>1, <1>3, <1>4, <1>8 DEF Inv, FromOrigin
  <2>3. item.opens \in Nat /\ (Open # {} => item.opens > 0)
    BY <1>1, <1>6 DEF ItemRecord
  <2>4. InUse'
    <3>1. item'.opens = Cardinality(Open')
      BY <1>5, <1>8 DEF Inv, InUse
    <3>2. \A q \in Open' : metadataFingerprint(req'[q].meta) = item'.fp
      BY <1>1, <1>4, <1>5, <1>8, <2>3 DEF Inv, InUse, Open
    <3> QED  BY <1>8, <3>1, <3>2 DEF InUse
  <2>5. BodySound'
    <3>1. ASSUME NEW q \in Requests, NEW i \in DOMAIN req'[q].body
          PROVE  q \in Open' /\ Fits(req[q].body[i])'
      <4>1. q # r /\ req'[q] = req[q]
        BY <1>3, <1>4, <3>1
      <4>2. q \in Open /\ Fits(req[q].body[i])
        BY <3>1, <4>1 DEF Inv, BodySound
      <4> QED  BY <1>4, <1>5, <1>8, <2>3, <4>1, <4>2 DEF Fits
    <3> QED  BY <3>1 DEF BodySound
  <2> QED  BY <1>8, <2>1, <2>2, <2>4, <2>5 DEF Inv
<1>9. CASE ~Conflicts(meta) /\ item' = [Opened(meta) EXCEPT !.opens = item.opens]
  <2>1. /\ item' \in ItemRecord /\ item'.opens = item.opens /\ item'.file = item.file
        /\ item'.fp = metadataFingerprint(meta) /\ item'.object = meta
        /\ item'.since = IF item.opens = 0 THEN now ELSE item.since
        /\ item'.rs = IF Stale(meta) THEN {} ELSE item.rs \cap 0 .. meta.size - 1
    <3>1. /\ item.opens \in Nat /\ Opened(meta) \in ItemRecord
          /\ Opened(meta).file = item.file
          /\ Opened(meta).fp = metadataFingerprint(meta) /\ Opened(meta).object = meta
          /\ Opened(meta).since = IF item.opens = 0 THEN now ELSE item.since
          /\ Opened(meta).rs = IF Stale(meta) THEN {} ELSE item.rs \cap 0 .. meta.size - 1
      BY <1>1, OpenedItem DEF ItemRecord
    <3> DEFINE opened == Opened(meta)
    <3>2. item' = [opened EXCEPT !.opens = item.opens] /\ opened \in ItemRecord
      BY <1>9, <3>1
    <3> HIDE DEF opened
    <3>3. /\ item' \in ItemRecord /\ item'.opens = item.opens /\ item'.file = opened.file
          /\ item'.fp = opened.fp /\ item'.object = opened.object
          /\ item'.since = opened.since /\ item'.rs = opened.rs
      BY <3>1, <3>2 DEF ItemRecord
    <3> QED  BY <3>1, <3>3 DEF opened
  <2>2. FileSound'
    BY <1>1, <1>4, <1>9, <2>1, OpenedBlocksFit
  <2>3. item.opens > 0 => item'.fp = item.fp /\ item'.since = item.since
    BY <1>9, <2>1 DEF Conflicts
  <2> QED  BY <1>8, <2>1, <2>2, <2>3
<1>10. CASE Stale(meta) /\ item' = [item EXCEPT !.fp = <<>>, !.rs = {}, !.object = Gone]
  <2>1. Gone \in Metadata /\ metadataFingerprint(Gone) = <<>>
    BY ProxyAssumption DEF Gone, Metadata, Tags, Dates, metadataFingerprint, IsStrong
  <2>2. <<>> \in Fingerprints
    BY <2>1 DEF Fingerprints
  <2>3. /\ item' \in ItemRecord /\ item'.opens = item.opens /\ item'.fp = <<>>
        /\ item'.object = Gone /\ item'.rs = {} /\ item'.since = item.since
    BY <1>1, <1>10, <2>1, <2>2 DEF ItemRecord
  <2>4. item.opens = 0
    BY <1>10 DEF Stale
  <2>5. FileSound'
    BY <2>3 DEF Inv, FileSound
  <2> QED  BY <1>8, <2>1, <2>3, <2>4, <2>5
<1> QED  BY <1>7, <1>9, <1>10 DEF HalfOpened

(* Cache.Open: an item in use is shared by requests with its fingerprint;  *)
(* one that is idle keeps its blocks for the fingerprint they have.        *)
LEMMA CacheOpenStep ==
  ASSUME Inv, NEW r \in Requests, CacheOpen(r)
  PROVE  Inv'
<1>1. /\ req[r] \in RequestRecord /\ req[r].pc = "open" /\ UNCHANGED now /\ item \in ItemRecord
      /\ req[r].seen \in DOMAIN history /\ req[r].meta = history[req[r].seen]
      /\ req[r].meta \in Metadata /\ now \in Nat /\ r \notin Open
  BY HistoryFacts DEF Inv, Types, FromOrigin, CacheOpen, RequestRecord, Open
<1>2. CASE Respond(r, Status("objectChanged")) /\ UNCHANGED item
  <2>1. Status("objectChanged") \in Int /\ req[r].pc \notin Serving
    BY <1>1 DEF Status, Serving
  <2> QED  BY <1>1, <1>2, <2>1, RespondStep
<1>3. CASE /\ ~Conflicts(req[r].meta) /\ Step(r, [req[r] EXCEPT !.pc = "serve"])
           /\ item' = Opened(req[r].meta)
  <2> DEFINE x == [req[r] EXCEPT !.pc = "serve"]
             fp == metadataFingerprint(req[r].meta)
  <2>1. /\ x \in RequestRecord /\ x.pc = "serve" /\ x.meta = req[r].meta
        /\ x.seen = req[r].seen /\ x.body = req[r].body
    BY <1>1 DEF RequestRecord, Phases
  <2>2. Step(r, x) /\ item' = Opened(req[r].meta)
    BY <1>3
  <2> HIDE DEF x
  <2>3. /\ req' \in [Requests -> RequestRecord] /\ req'[r] = x
        /\ \A q \in Requests \ {r} : req'[q] = req[q]
        /\ UNCHANGED <<history, server>>
    BY <2>1, <2>2, StepUpdates DEF Inv
  <2>4. /\ item'.opens = item.opens + 1 /\ item'.fp = fp /\ item'.file = item.file
        /\ item'.object = req[r].meta
        /\ item'.since = IF item.opens = 0 THEN now ELSE item.since
        /\ item'.rs = IF Stale(req[r].meta) THEN {}
                       ELSE item.rs \cap 0 .. req[r].meta.size - 1
    BY <1>1, <2>2, OpenedItem
  <2>5. item' \in ItemRecord
    BY <1>1, <2>2, OpenedItem
  <2>6. Open' = Open \cup {r} /\ Cardinality(Open') = Cardinality(Open) + 1
    <3>1. Open' = Open \cup {r}
      BY <2>1, <2>3 DEF Open
    <3> QED  BY <1>1, <3>1, OpenFinite, FS_AddElement
  <2>7. item.opens > 0 => item.fp = fp
    BY <1>3 DEF Conflicts
  <2>8. item.opens = 0 => Open = {}
    BY OpenFinite, FS_EmptySet DEF Inv, InUse
  <2>9. Types'
    BY <1>1, <2>3, <2>5 DEF Inv, Types
  <2>10. FromOrigin'
    BY <1>1, <2>1, <2>3, <2>4 DEF Inv, FromOrigin
  <2>11. InUse'
    <3>1. item'.opens = Cardinality(Open')
      BY <2>4, <2>6 DEF Inv, InUse
    <3>2. ASSUME NEW q \in Open'
          PROVE  metadataFingerprint(req'[q].meta) = item'.fp
      <4>1. CASE q = r
        BY <4>1, <2>1, <2>3, <2>4
      <4>2. CASE q \in Open /\ q # r
        <5>1. req'[q] = req[q] /\ metadataFingerprint(req[q].meta) = item.fp
          BY <4>2, <2>3 DEF Inv, InUse, Open
        <5>2. item.opens \in Nat /\ item.opens # 0
          BY <1>1, <4>2, <2>8 DEF ItemRecord
        <5> QED  BY <5>1, <5>2, <2>4, <2>7
      <4> QED  BY <4>1, <4>2, <2>6
    <3>3. item'.fp = metadataFingerprint(item'.object)
      BY <2>4
    <3> QED  BY <3>1, <3>2, <3>3 DEF InUse
  <2>12. FileSound'
    BY <1>1, <1>3, <2>3, <2>4, OpenedBlocksFit
  <2>13. BodySound'
    BY <1>1, <2>1, <2>3, <2>4, <2>6, <2>7, <2>8 DEF Inv, BodySound, Fits, ItemRecord
  <2> QED  BY <2>9, <2>10, <2>11, <2>12, <2>13 DEF Inv
<1>4. CASE Respond(r, Status("local")) /\ item' \in HalfOpened(req[r].meta)
  BY <1>1, <1>4, HalfOpenStep
<1> QED  BY <1>2, <1>3, <1>4 DEF CacheOpen

(* The deferred Close gives up one of the opens. *)
LEMMA CloseStep ==
  ASSUME Inv, NEW r \in Requests, Close(r)
  PROVE  Inv'
<1> DEFINE x == [Idle EXCEPT !.status = req[r].status]
<1>1. /\ req[r] \in RequestRecord /\ req[r].pc = "close" /\ UNCHANGED now
      /\ item \in ItemRecord /\ r \in Open /\ req[r].status \in Int
  BY DEF Inv, Types, Close, RequestRecord, Open
<1>2. x \in RequestRecord /\ x.pc = "idle" /\ x.body = <<>>
  BY <1>1, Responded
<1>3. Step(r, x) /\ item' = Released
  BY DEF Close, Respond
<1> HIDE DEF x
<1>4. /\ req' \in [Requests -> RequestRecord] /\ req'[r] = x
      /\ \A q \in Requests \ {r} : req'[q] = req[q]
      /\ UNCHANGED <<history, server>>
  BY <1>2, <1>3, StepUpdates DEF Inv
<1>5. Open' = Open \ {r} /\ Cardinality(Open') = Cardinality(Open) - 1 /\ Cardinality(Open') \in Nat
  <2>1. Open' = Open \ {r}
    BY <1>2, <1>4 DEF Open
  <2>2. Cardinality(Open') = Cardinality(Open) - 1 /\ IsFiniteSet(Open')
    BY <1>1, <2>1, OpenFinite, FS_RemoveElement
  <2> QED  BY <2>1, <2>2, FS_CardinalityType
<1>6. /\ item'.opens = item.opens - 1 /\ item'.fp = item.fp /\ item'.file = item.file
      /\ item'.object = item.object /\ item'.since = item.since /\ item'.rs = item.rs
  BY <1>1, <1>3 DEF Released, ItemRecord
<1>7. item' \in ItemRecord
  <2>1. item.opens - 1 \in Nat
    BY <1>5 DEF Inv, InUse
  <2> QED  BY <1>1, <1>3, <2>1 DEF Released, ItemRecord
<1>8. Types'
  BY <1>1, <1>4, <1>7 DEF Inv, Types
<1>9. FromOrigin'
  BY <1>1, <1>2, <1>4, <1>6 DEF Inv, FromOrigin
<1>10. InUse'
  <2>1. item'.opens = Cardinality(Open')
    BY <1>5, <1>6 DEF Inv, InUse
  <2>2. \A q \in Open' : metadataFingerprint(req'[q].meta) = item'.fp
    BY <1>4, <1>5, <1>6 DEF Inv, InUse, Open
  <2>3. item'.fp = metadataFingerprint(item'.object)
    BY <1>6 DEF Inv, InUse
  <2> QED  BY <2>1, <2>2, <2>3 DEF InUse
<1>11. FileSound'
  BY <1>1, <1>4, <1>6 DEF Inv, FileSound, Fits
<1>12. BodySound'
  BY <1>2, <1>4, <1>5, <1>6 DEF Inv, BodySound, Fits
<1> QED  BY <1>8, <1>9, <1>10, <1>11, <1>12 DEF Inv

(* The origin may change at any moment: nothing here depends on it. *)
LEMMA ChangeStep ==
  ASSUME Inv, Change
  PROVE  Inv'
<1>1. UNCHANGED <<history, server, item, req>> /\ now' = now + 1 /\ now' \in DOMAIN history
      /\ now \in Nat /\ item.since \in Nat
  BY HistoryFacts DEF Inv, Types, Change, ItemRecord
<1> QED
  BY <1>1 DEF Inv, Types, FromOrigin, InUse, Open, FileSound, BodySound, Fits

(* Every step keeps the invariant. *)
LEMMA InvStep ==
  ASSUME Inv, InRange, [Next]_vars
  PROVE  Inv'
<1>1. CASE UNCHANGED vars
  BY <1>1 DEF vars, Inv, Types, FromOrigin, InUse, Open, FileSound, BodySound, Fits
<1>2. ASSUME NEW r \in Requests, ReadFetched(r)
      PROVE  Inv'
  <2>1. req[r].off \in Blocks
    BY <1>2, ProxyAssumption DEF ReadFetched, InRange, Within, Blocks
  <2> QED  BY <1>2, <2>1, ReadFetchedStep
<1> QED
  BY <1>1, <1>2, ChangeStep, ReceiveStep, StatStep, CacheOpenStep, ServeStep,
     ReadCachedStep, CloseStep DEF Next

-----------------------------------------------------------------------------
(* The invariant holds before the first request. *)
LEMMA InvInit == Init => Inv /\ InRange
<1> SUFFICES ASSUME Init
             PROVE  Inv /\ InRange
  OBVIOUS
<1>1. /\ MaxSize \in Nat /\ 1 \in DOMAIN history /\ history \in Histories
      /\ now = 1 /\ server \in Servers
  BY HistoryFacts, ProxyAssumption DEF Init
<1>2. Gone \in Metadata /\ metadataFingerprint(Gone) = <<>>
  BY ProxyAssumption DEF Gone, Metadata, Tags, Dates, metadataFingerprint, IsStrong
<1>3. /\ item.opens = 0 /\ item.fp = <<>> /\ item.rs = {} /\ item.object = Gone
      /\ item.since = 0 /\ item.file = [b \in Blocks |-> 0]
  BY DEF Init, Closed
<1>4. item \in ItemRecord
  <2>1. <<>> \in Fingerprints
    BY <1>2 DEF Fingerprints
  <2> QED  BY <1>2, <2>1 DEF Init, Closed, ItemRecord
<1>5. \A r \in Requests : /\ req[r] \in RequestRecord /\ req[r].pc = "idle"
                          /\ req[r].body = <<>> /\ req[r] = Idle
  BY IdleRequest DEF Init
<1>6. req \in [Requests -> RequestRecord]
  BY IdleRequest DEF Init
<1>7. Open = {}
  BY <1>5 DEF Open
<1>8. Inv
  <2>1. Cardinality(Open) = 0
    BY <1>7, FS_EmptySet
  <2>2. InUse
    BY <1>2, <1>3, <1>7, <2>1 DEF InUse
  <2>3. Types /\ FromOrigin
    BY <1>1, <1>3, <1>4, <1>5, <1>6 DEF Types, FromOrigin
  <2>4. FileSound /\ BodySound
    BY <1>1, <1>3, <1>5 DEF FileSound, BodySound
  <2> QED  BY <2>2, <2>3, <2>4 DEF Inv
<1>9. InRange
  <2>1. Idle.off = 0 /\ Idle.last = 0 /\ Idle.seen = 0 /\ Idle.pc = "idle"
    BY DEF Idle
  <2> QED  BY <1>1, <1>3, <1>5, <2>1 DEF InRange, Within, Known, Serving
<1> QED  BY <1>8, <1>9

(* The inductive invariant of the proxy. *)
THEOREM ProxyInvariant == Spec => [](Inv /\ InRange)
<1>1. Inv /\ InRange /\ [Next]_vars => Inv' /\ InRange'
  BY InvStep, RangeStep DEF Inv
<1> QED  BY <1>1, InvInit, PTL DEF Spec

(* Every field has its type, and every block served or asked for lies in   *)
(* the object.                                                             *)
THEOREM ProxyTypes == Spec => []TypeOK
<1>1. Inv /\ InRange => TypeOK
  <2> SUFFICES ASSUME Inv, InRange
               PROVE  TypeOK
    OBVIOUS
  <2>1. /\ now \in DOMAIN history /\ item \in ItemRecord /\ now \in Nat
        /\ \A r \in Requests : req[r] \in RequestRecord /\ Within(req[r])
    BY HistoryFacts DEF Inv, Types, InRange
  <2>2. item.opens \in 0 .. Cardinality(Requests)
    <3>1. Cardinality(Open) <= Cardinality(Requests) /\ Cardinality(Open) \in Nat
          /\ Cardinality(Requests) \in Nat
      BY ProxyAssumption, OpenFinite, FS_Subset, FS_CardinalityType DEF Open
    <3> QED  BY <3>1 DEF Inv, InUse
  <2>3. item.rs \subseteq Blocks /\ item.object \in Metadata
        /\ item.file \in [Blocks -> 0 .. now]
    BY <2>1 DEF ItemRecord, InRange
  <2>4. ASSUME NEW r \in Requests
        PROVE  /\ req[r].meta \in Metadata /\ req[r].seen \in 0 .. now
               /\ req[r].body \in Seq(DOMAIN history)
               /\ req[r].off \in 0 .. MaxSize /\ req[r].last \in 0 .. MaxSize
    <3>1. req[r].body \in Seq(Nat) /\ \A i \in DOMAIN req[r].body :
                                         req[r].body[i] \in DOMAIN history
      BY <2>1 DEF RequestRecord, Inv, BodySound, Fits
    <3>2. req[r].body \in Seq(DOMAIN history)
      BY <3>1
    <3> QED  BY <2>1, <3>2 DEF RequestRecord, Within
  <2> QED  BY <2>1, <2>2, <2>3, <2>4 DEF TypeOK
<1> QED  BY <1>1, ProxyInvariant, PTL

(* No response mixes versions that its validators can tell apart, whatever *)
(* the origin does between the stat and the range requests, for any number *)
(* of requests that share the cached bytes.                                *)
THEOREM ResponsesDoNotMix == Spec => []NoMixedVersions
<1>1. Inv => NoMixedVersions
  BY DEF Inv, BodySound, InUse, Fits, NoMixedVersions, Same
<1> QED  BY <1>1, ProxyInvariant, PTL

(* Bytes without validators are not reused once the item was idle. *)
THEOREM UnvalidatedIsFresh == Spec => []FreshWithoutValidators
<1>1. Inv => FreshWithoutValidators
  BY DEF Inv, BodySound, InUse, Fits, FreshWithoutValidators
<1> QED  BY <1>1, ProxyInvariant, PTL

(* A step that gives no request a new status of 412. *)
LEMMA NoConflict ==
  ASSUME Types, NEW q \in Requests, NEW x, Step(q, x),
         x.status # 412 \/ x.status = req[q].status,
         NEW r \in Requests, req[r].status # 412
  PROVE  req'[r].status # 412
BY DEF Types, Step

(* Nor does an answer with another status. *)
LEMMA NoConflictResponse ==
  ASSUME Types, NEW q \in Requests, NEW s \in Int, Respond(q, s),
         s # 412 \/ s = req[q].status, NEW r \in Requests, req[r].status # 412
  PROVE  req'[r].status # 412
<1> DEFINE x == [Idle EXCEPT !.status = s]
<1>1. Step(q, x) /\ x.status = s
  BY Responded DEF Respond
<1> HIDE DEF x
<1> QED  BY <1>1, NoConflict

(* A request that Cache.Open refuses meets one with other metadata. *)
LEMMA ConflictHasOther ==
  ASSUME Inv, NEW r \in Requests, req[r].pc = "open", Conflicts(req[r].meta)
  PROVE  \E q \in Requests \ {r} : /\ req[q].pc \in {"serve", "read", "close"}
                                  /\ req[q].seen # req[r].seen
<1>1. Open # {}
  BY FS_EmptySet DEF Inv, InUse, Conflicts
<1>2. PICK q \in Open : TRUE
  BY <1>1
<1>3. metadataFingerprint(req[q].meta) = item.fp /\ req[q].meta = history[req[q].seen]
  BY <1>2 DEF Inv, InUse, FromOrigin, Open
<1>4. req[r].meta = history[req[r].seen]
  BY DEF Inv, FromOrigin
<1>5. req[q].seen # req[r].seen
  BY <1>3, <1>4 DEF Conflicts
<1> QED  BY <1>2, <1>5 DEF Open

(* A 412 that is not the answer to the client's own precondition is given  *)
(* only while a request that saw another version is served.                *)
THEOREM RetryableConflict == Spec => ConflictMeansChange
<1>1. ASSUME Inv, [Next]_vars, NEW r \in Requests, req[r].status # 412, req'[r].status = 412
      PROVE  \/ /\ req[r].pc = "serve"
                /\ \E c \in Conditions : Precondition(req[r].meta, c) = 412
             \/ \E q \in Requests \ {r} : /\ req[q].pc \in {"serve", "read", "close"}
                                          /\ req[q].seen # req[r].seen
  <2>a. Types /\ \A q \in Requests : req[q] \in RequestRecord /\ req[q].status \in Int
    BY <1>1 DEF Inv, Types, RequestRecord
  <2>1. CASE Change \/ UNCHANGED vars
    BY <1>1, <2>1 DEF Change, vars
  <2>2. ASSUME NEW q \in Requests, Receive(q)
        PROVE  FALSE
    <3>1. CASE Respond(q, 405) \/ Respond(q, 400)
      BY <1>1, <2>a, <3>1, NoConflictResponse
    <3>2. ASSUME NEW m, NEW off, NEW last,
               Step(q, [Idle EXCEPT !.pc = "head", !.method = m, !.off = off, !.last = last])
          PROVE  FALSE
      <4> DEFINE x == [Idle EXCEPT !.pc = "head", !.method = m, !.off = off, !.last = last]
      <4>1. x.status = 0 /\ Step(q, x)
        BY <3>2 DEF Idle
      <4> HIDE DEF x
      <4> QED  BY <1>1, <2>a, <4>1, NoConflict
    <3> QED  BY <2>2, <3>1, <3>2 DEF Receive
  <2>3. ASSUME NEW q \in Requests, StatHEAD(q) \/ StatRange(q)
        PROVE  FALSE
    <3>1. PICK res : Stat(q, res) /\ Status(res.err) \in Int \ {412}
      BY <2>3, <2>a, StatGivesOrigin DEF StatHEAD, StatRange
    <3>2. CASE res.err = "nil"
      <4> DEFINE x == [req[q] EXCEPT !.pc = "open", !.meta = res.meta, !.seen = now]
      <4>1. x.status = req[q].status /\ Step(q, x)
        BY <2>a, <3>1, <3>2 DEF Stat, RequestRecord
      <4> HIDE DEF x
      <4> QED  BY <1>1, <2>a, <4>1, NoConflict
    <3>3. CASE res.err = "fallback"
      <4> DEFINE x == [req[q] EXCEPT !.pc = "statRange"]
      <4>1. x.status = req[q].status /\ Step(q, x)
        BY <2>a, <3>1, <3>3 DEF Stat, RequestRecord
      <4> HIDE DEF x
      <4> QED  BY <1>1, <2>a, <4>1, NoConflict
    <3>4. CASE res.err \notin {"nil", "fallback"}
      BY <1>1, <2>a, <3>1, <3>4, NoConflictResponse DEF Stat
    <3> QED  BY <3>2, <3>3, <3>4
  <2>4. ASSUME NEW q \in Requests, CacheOpen(q)
        PROVE  q = r /\ req[r].pc = "open" /\ Conflicts(req[r].meta)
    <3>1. CASE Conflicts(req[q].meta) /\ Respond(q, Status("objectChanged"))
      BY <1>1, <2>a, <2>4, <3>1 DEF CacheOpen, Respond, Step, Types
    <3>2. CASE Step(q, [req[q] EXCEPT !.pc = "serve"])
      <4> DEFINE x == [req[q] EXCEPT !.pc = "serve"]
      <4>1. x.status = req[q].status /\ Step(q, x)
        BY <2>a, <3>2 DEF RequestRecord
      <4> HIDE DEF x
      <4> QED  BY <1>1, <2>a, <4>1, NoConflict
    <3>3. CASE Respond(q, Status("local"))
      <4>1. Status("local") = 502
        BY DEF Status
      <4> QED  BY <1>1, <2>a, <3>3, <4>1, NoConflictResponse
    <3> QED  BY <2>4, <3>1, <3>2, <3>3 DEF CacheOpen
  <2>5. ASSUME NEW q \in Requests, Serve(q)
        PROVE  /\ q = r /\ req[r].pc = "serve"
               /\ \E c \in Conditions : Precondition(req[r].meta, c) = 412
    <3>1. ASSUME NEW s \in {200, 304, 412, 416}, Finish(q, s),
                 s = 412 => \E c \in Conditions : Precondition(req[q].meta, c) = 412
          PROVE  /\ q = r
                 /\ \E c \in Conditions : Precondition(req[q].meta, c) = 412
      <4>1. PICK x \in RequestRecord : Step(q, x) /\ x.status = s
        BY <2>a, <3>1, FinishRecord
      <4>2. req'[q].status = s /\ \A p \in Requests \ {q} : req'[p] = req[p]
        BY <2>a, <4>1, StepUpdates
      <4>3. q = r /\ s = 412
        BY <1>1, <4>2
      <4> QED  BY <3>1, <4>3
    <3>2. ASSUME NEW off \in Int, NEW last \in Int, Transfer(q, off, last)
          PROVE  FALSE
      <4>1. PICK x \in RequestRecord : Step(q, x) /\ x.status = 200
        BY <2>a, <3>2, TransferRecord
      <4> QED  BY <1>1, <2>a, <4>1, NoConflict
    <3>3. q = r /\ \E c \in Conditions : Precondition(req[q].meta, c) = 412
      BY <2>5, <2>a, <3>1, <3>2, ServeCases
    <3> QED  BY <2>5, <3>3 DEF Serve
  <2>6. ASSUME NEW q \in Requests, NEW v, Send(q, v)
        PROVE  FALSE
    <3> DEFINE x == [req[q] EXCEPT !.body = Append(@, v), !.off = @ + 1,
                          !.pc = IF req[q].off = req[q].last THEN "close" ELSE "read"]
    <3>1. x.status = req[q].status /\ Step(q, x)
      BY <2>a, <2>6 DEF Send, RequestRecord
    <3> HIDE DEF x
    <3> QED  BY <1>1, <2>a, <3>1, NoConflict
  <2>7. ASSUME NEW q \in Requests, Abort(q)
        PROVE  FALSE
    <3> DEFINE x == [req[q] EXCEPT !.pc = "close", !.status = -200]
    <3>1. x.status = -200 /\ Step(q, x)
      BY <2>a, <2>7 DEF Abort, RequestRecord
    <3> HIDE DEF x
    <3> QED  BY <1>1, <2>a, <3>1, NoConflict
  <2>8. ASSUME NEW q \in Requests, Close(q)
        PROVE  FALSE
    BY <1>1, <2>a, <2>8, NoConflictResponse DEF Close
  <2>9. CASE \E q \in Requests : CacheOpen(q)
    BY <1>1, <2>4, <2>9, ConflictHasOther
  <2>10. ASSUME NEW q \in Requests, ReadCached(q) \/ ReadFetched(q)
         PROVE  FALSE
    BY <2>6, <2>7, <2>10 DEF ReadCached, ReadFetched
  <2> QED
    BY <1>1, <2>1, <2>2, <2>3, <2>5, <2>8, <2>9, <2>10 DEF Next
<1>2. Inv /\ [Next]_vars =>
        [\A r \in Requests :
           req[r].status # 412 /\ req'[r].status = 412 =>
              \/ /\ req[r].pc = "serve"
                 /\ \E c \in Conditions : Precondition(req[r].meta, c) = 412
              \/ \E q \in Requests \ {r} : /\ req[q].pc \in {"serve", "read", "close"}
                                           /\ req[q].seen # req[r].seen]_vars
  BY <1>1, Zenon
<1> QED  BY <1>2, ProxyInvariant, PTL DEF Spec, ConflictMeansChange
=============================================================================
