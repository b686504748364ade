---------------------------- MODULE StreamProofs ----------------------------
(***************************************************************************)
(* What holds of a whole download for every setting of the chunk readers,  *)
(* every object, every number and size of buffers and every failure of the *)
(* origin: the chunk readers keep the contract of the raw reader of        *)
(* StreamBuf, so that all that is proved of StreamBuf holds here.          *)
(***************************************************************************)
EXTENDS Stream, StreamBufProofs, SequenceTheorems, FiniteSetTheorems

-----------------------------------------------------------------------------
(***************************************************************************)
(* Bytes.  A byte is its position in the object; q is a run from a         *)
(* position if it holds consecutive bytes.                                 *)
(***************************************************************************)
Run(q, from) == \A i \in 1 .. Len(q) : q[i] = from + i - 1

(* What a Read copies out of a body is a run. *)
LEMMA PositionsRun ==
  ASSUME NEW from \in Nat, NEW n \in Nat, NEW q, q = [i \in 1 .. n |-> from + i - 1]
  PROVE  q \in Seq(Nat) /\ Len(q) = n /\ Run(q, from)
<1>1. q \in Seq(Nat) /\ Len(q) = n
  OBVIOUS
<1>2. QED
  BY <1>1 DEF Run

(* Two runs that follow each other are one. *)
LEMMA RunConcat ==
  ASSUME NEW q \in Seq(Nat), NEW r \in Seq(Nat), NEW from \in Nat,
         Run(q, from), Run(r, from + Len(q))
  PROVE  /\ q \o r \in Seq(Nat) /\ Len(q \o r) = Len(q) + Len(r)
         /\ Run(q \o r, from)
<1>1. /\ q \o r \in Seq(Nat) /\ Len(q \o r) = Len(q) + Len(r)
      /\ \A i \in 1 .. Len(q) + Len(r) :
            (q \o r)[i] = IF i <= Len(q) THEN q[i] ELSE r[i - Len(q)]
  BY ConcatProperties
<1>2. QED
  BY <1>1 DEF Run

(* A part of a run is a run. *)
LEMMA RunSubSeq ==
  ASSUME NEW q \in Seq(Nat), NEW from \in Nat, NEW k \in Nat, NEW n \in Nat,
         k + n <= Len(q), Run(q, from)
  PROVE  /\ SubSeq(q, k + 1, k + n) \in Seq(Nat) /\ Len(SubSeq(q, k + 1, k + n)) = n
         /\ Run(SubSeq(q, k + 1, k + n), from + k)
<1>1. \A i \in k + 1 .. k + n : q[i] \in Nat
  OBVIOUS
<1>2. /\ SubSeq(q, k + 1, k + n) \in Seq(Nat)
      /\ Len(SubSeq(q, k + 1, k + n)) = IF k + 1 <= k + n THEN k + n - (k + 1) + 1 ELSE 0
      /\ \A i \in 1 .. k + n - (k + 1) + 1 : SubSeq(q, k + 1, k + n)[i] = q[k + 1 + i - 1]
  BY <1>1, SubSeqProperties
<1>3. Len(SubSeq(q, k + 1, k + n)) = n
  BY <1>2
<1>4. \A i \in 1 .. n : SubSeq(q, k + 1, k + n)[i] = q[k + i]
  BY <1>2
<1>5. QED
  BY <1>2, <1>3, <1>4 DEF Run

-----------------------------------------------------------------------------
(***************************************************************************)
(* A stream of the parallel reader.  Its data and, behind them, its page   *)
(* are the bytes of the chunk as far as the RetryReader got, and the body  *)
(* is open at the next one.                                                *)
(***************************************************************************)
Body == [pos : Nat, end : Nat]

StreamRec ==
    [offset : Nat, size : Nat, readBytes : Nat, data : Seq(Nat), page : Seq(Nat),
     pages : Nat, hoff : Nat, tries : Nat, body : Body,
     g : {"open", "read", "done"}, err : {"none", "error", "canceled"}, cancel : BOOLEAN,
     short : BOOLEAN]

BytesOK(s) ==
    /\ s \in StreamRec
    /\ s.hoff = Len(s.data) + Len(s.page) /\ s.hoff <= s.size
    /\ s.body.pos = s.offset + s.hoff /\ s.body.end = s.offset + s.size
    /\ Run(s.data, s.offset) /\ Run(s.page, s.offset + Len(s.data))
    /\ s.readBytes <= Len(s.data)

(* The same chunk, as the reader sees it. *)
SameChunk(s, t) == /\ t.offset = s.offset /\ t.size = s.size
                   /\ t.readBytes = s.readBytes /\ t.cancel = s.cancel

(* The fields of a stream. *)
LEMMA StreamFields ==
  ASSUME NEW s \in StreamRec
  PROVE  /\ s.offset \in Nat /\ s.size \in Nat /\ s.readBytes \in Nat
         /\ s.data \in Seq(Nat) /\ s.page \in Seq(Nat) /\ s.pages \in Nat
         /\ s.hoff \in Nat /\ s.tries \in Nat /\ s.body \in Body
         /\ s.body.pos \in Nat /\ s.body.end \in Nat
         /\ s.g \in {"open", "read", "done"}
         /\ s.err \in {"none", "error", "canceled"} /\ s.cancel \in BOOLEAN
BY DEF StreamRec, Body

(* What BytesOK says, in numbers. *)
LEMMA BytesFacts ==
  ASSUME NEW s, BytesOK(s)
  PROVE  /\ s \in StreamRec /\ Len(s.data) \in Nat /\ Len(s.page) \in Nat
         /\ s.offset \in Nat /\ s.size \in Nat /\ s.hoff \in Nat /\ s.readBytes \in Nat
         /\ s.hoff = Len(s.data) + Len(s.page) /\ s.hoff <= s.size
         /\ s.body.pos = s.offset + s.hoff /\ s.body.end = s.offset + s.size
         /\ s.offset + Len(s.data) \in Nat /\ s.body.pos \in Nat
         /\ s.body.pos = (s.offset + Len(s.data)) + Len(s.page)
         /\ s.readBytes <= Len(s.data) /\ Len(s.data) <= s.size
<1>1. s \in StreamRec
  BY DEF BytesOK
<1>2. /\ s.offset \in Nat /\ s.size \in Nat /\ s.hoff \in Nat /\ s.readBytes \in Nat
      /\ s.data \in Seq(Nat) /\ s.page \in Seq(Nat)
  BY <1>1, StreamFields
<1>3. Len(s.data) \in Nat /\ Len(s.page) \in Nat
  BY <1>2
<1>4. /\ s.hoff = Len(s.data) + Len(s.page) /\ s.hoff <= s.size
      /\ s.body.pos = s.offset + s.hoff /\ s.body.end = s.offset + s.size
      /\ s.readBytes <= Len(s.data)
  BY DEF BytesOK
<1>5. QED
  BY <1>1, <1>2, <1>3, <1>4 DEF StreamRec

(* RetryReader.Read got n more bytes of the body. *)
LEMMA GotBytes ==
  ASSUME NEW s, BytesOK(s), NEW n \in Nat, n <= s.body.end - s.body.pos, NEW t,
         t = P!Got(s, n)
  PROVE  /\ BytesOK(t) /\ SameChunk(s, t) /\ t.hoff = s.hoff + n
         /\ t.data = s.data /\ t.page \in Seq(Nat) /\ Len(t.page) = Len(s.page) + n
         /\ t.pages = s.pages /\ t.g = s.g /\ t.err = s.err
<1>1. /\ s \in StreamRec /\ Len(s.data) \in Nat /\ Len(s.page) \in Nat
      /\ s.offset \in Nat /\ s.size \in Nat /\ s.hoff \in Nat
      /\ s.hoff = Len(s.data) + Len(s.page) /\ s.hoff <= s.size
      /\ s.body.pos = s.offset + s.hoff /\ s.body.end = s.offset + s.size
      /\ s.offset + Len(s.data) \in Nat /\ s.body.pos \in Nat
      /\ s.body.pos = (s.offset + Len(s.data)) + Len(s.page)
  BY BytesFacts
<1>a. s.page \in Seq(Nat) /\ s.body \in Body
  BY <1>1, StreamFields
<1> DEFINE q == P!Positions(s.body.pos, n)
           page == s.page \o q
           hoff == s.hoff + n
           body == [s.body EXCEPT !.pos = s.body.pos + n]
<1>2. q \in Seq(Nat) /\ Len(q) = n /\ Run(q, s.body.pos)
  BY <1>1, PositionsRun DEF P!Positions
<1>3. page \in Seq(Nat) /\ Len(page) = Len(s.page) + n /\ Run(page, s.offset + Len(s.data))
  <2> HIDE DEF q
  <2>1. Run(s.page, s.offset + Len(s.data)) /\ Run(q, (s.offset + Len(s.data)) + Len(s.page))
    BY <1>1, <1>2 DEF BytesOK
  <2>2. QED
    BY <1>1, <1>a, <1>2, <2>1, RunConcat
<1>4. hoff \in Nat /\ body \in Body /\ body.pos = s.body.pos + n /\ body.end = s.body.end
  <2>1. s.hoff \in Nat /\ s.body.pos \in Nat /\ s.body \in Body
    BY <1>1, <1>a
  <2>2. QED
    BY <2>1 DEF Body
<1>5. t = [s EXCEPT !.page = page, !.hoff = hoff, !.body = body]
  BY <1>1, <1>a DEF P!Got, StreamRec
<1> HIDE DEF q, page, hoff, body
<1>6. t \in StreamRec
  BY <1>1, <1>3, <1>4, <1>5 DEF StreamRec
<1>7. /\ t.page = page /\ t.hoff = hoff /\ t.body = body /\ t.data = s.data
      /\ t.pages = s.pages /\ t.g = s.g /\ t.err = s.err
      /\ SameChunk(s, t)
  BY <1>1, <1>5 DEF StreamRec, SameChunk
<1>8. hoff = Len(s.data) + Len(page) /\ hoff <= s.size
  <2>1. PICK d \in Nat, p \in Nat, z \in Nat : d = Len(s.data) /\ p = Len(s.page) /\ z = Len(page)
    BY <1>1, <1>3
  <2>2. z = p + n /\ s.hoff = d + p /\ n <= s.size - s.hoff
    BY <1>1, <1>3, <2>1 DEF StreamRec
  <2>3. QED
    BY <1>1, <2>1, <2>2 DEF hoff, StreamRec
<1>9. body.pos = s.offset + hoff /\ body.end = s.offset + s.size
  BY <1>1, <1>4 DEF hoff, StreamRec
<1>10. Run(s.data, s.offset) /\ s.readBytes <= Len(s.data)
  BY DEF BytesOK
<1>11. BytesOK(t)
  BY <1>3, <1>6, <1>7, <1>8, <1>9, <1>10 DEF BytesOK, SameChunk
<1>12. QED
  BY <1>3, <1>7, <1>11 DEF hoff

(* What is left of the pages, in the bytes that were read. *)
LEMMA RoomLeft ==
  ASSUME NEW s, BytesOK(s)
  PROVE  /\ P!Room(s) = s.pages * BufferSize - s.hoff
         /\ s.pages \in Nat /\ s.pages * BufferSize \in Nat
<1>1. s \in StreamRec /\ s.hoff \in Nat
  BY BytesFacts
<1>2. s.pages \in Nat
  BY <1>1, StreamFields
<1>3. s.pages * BufferSize \in Nat
  BY <1>2, BufAssumption
<1>4. PICK d \in Nat, p \in Nat : d = Len(s.data) /\ p = Len(s.page)
  BY BytesFacts
<1>5. s.hoff = d + p
  BY <1>4, BytesFacts
<1>6. P!Room(s) = (s.pages * BufferSize - d) - p
  BY <1>4 DEF P!Room
<1>7. QED
  BY <1>2, <1>3, <1>5, <1>6

(* The bytes of the page are counted: the Read that fetched them returned. *)
Counts(s, k, g, e) ==
    [s EXCEPT !.data = @ \o s.page, !.page = <<>>, !.pages = k, !.g = g, !.err = e]

(* They are the bytes of the chunk as they were. *)
LEMMA CountPage ==
  ASSUME NEW s, BytesOK(s), NEW k \in Nat, NEW g \in {"open", "read", "done"},
         NEW e \in {"none", "error", "canceled"}, NEW t, t = Counts(s, k, g, e)
  PROVE  /\ BytesOK(t) /\ SameChunk(s, t) /\ t.hoff = s.hoff /\ Len(t.data) = s.hoff
         /\ t.pages = k /\ t.g = g /\ t.err = e
<1>1. s \in StreamRec /\ s.offset \in Nat
  BY BytesFacts
<1>2. s.data \in Seq(Nat) /\ s.page \in Seq(Nat)
  BY <1>1, StreamFields
<1> DEFINE data == s.data \o s.page
<1>3. data \in Seq(Nat) /\ Len(data) = Len(s.data) + Len(s.page) /\ Run(data, s.offset)
  BY <1>1, <1>2, RunConcat DEF BytesOK
<1>4. t = [s EXCEPT !.data = data, !.page = <<>>, !.pages = k, !.g = g, !.err = e]
  BY <1>1 DEF Counts, StreamRec
<1> HIDE DEF data
<1>5. t \in StreamRec
  <2>1. data \in Seq(Nat) /\ <<>> \in Seq(Nat)
    BY <1>3
  <2>2. QED
    BY <1>1, <1>4, <2>1 DEF StreamRec
<1>6. /\ t.data = data /\ t.page = <<>> /\ t.hoff = s.hoff /\ t.body = s.body
      /\ t.pages = k /\ t.g = g /\ t.err = e /\ SameChunk(s, t)
  BY <1>1, <1>4 DEF StreamRec, SameChunk
<1>7. Len(data) = s.hoff /\ Len(t.page) = 0
  BY <1>3, <1>6 DEF BytesOK
<1>8. Len(s.data) <= Len(data)
  <2>1. PICK d \in Nat, p \in Nat : d = Len(s.data) /\ p = Len(s.page)
    BY BytesFacts
  <2>2. Len(data) = d + p
    BY <1>3, <2>1
  <2>3. d <= d + p
    OBVIOUS
  <2>4. QED
    BY Zenon, <2>1, <2>2, <2>3
<1>9. s.readBytes <= Len(data)
  <2>1. PICK d \in Nat, z \in Nat, r \in Nat : d = Len(s.data) /\ z = Len(data) /\ r = s.readBytes
    BY <1>3, BytesFacts
  <2>2. r <= d
    BY <2>1 DEF BytesOK
  <2>3. QED
    BY <1>8, <2>1, <2>2
<1>10. Run(t.page, t.offset + Len(t.data))
  BY <1>7 DEF Run
<1>11. t.hoff = Len(t.data) + Len(t.page)
  <2>1. PICK z \in Nat : z = Len(data) /\ z = s.hoff
    BY <1>7, BytesFacts
  <2>2. Len(t.data) = z /\ Len(t.page) = 0
    BY <1>6, <1>7, <2>1
  <2>3. z = z + 0
    OBVIOUS
  <2>4. QED
    BY Zenon, <1>6, <2>1, <2>2, <2>3
<1>12. /\ s.hoff <= s.size /\ s.body.pos = s.offset + s.hoff
       /\ s.body.end = s.offset + s.size
  BY DEF BytesOK
<1>13. BytesOK(t)
  BY <1>3, <1>5, <1>6, <1>9, <1>10, <1>11, <1>12 DEF BytesOK, SameChunk
<1>14. QED
  BY <1>6, <1>7, <1>13

(* The goroutine reports. *)
LEMMA FinishBytes ==
  ASSUME NEW s, BytesOK(s), NEW e \in {"none", "error", "canceled"}, NEW t,
         t = P!Finish(s, e)
  PROVE  /\ BytesOK(t) /\ SameChunk(s, t) /\ Len(t.data) = s.hoff
         /\ t.pages = s.pages /\ t.g = "done" /\ t.err = e
<1>1. s \in StreamRec
  BY BytesFacts
<1>2. s.pages \in Nat
  BY <1>1, StreamFields
<1> DEFINE data == s.data \o s.page
<1>3. t = [s EXCEPT !.data = data, !.page = <<>>, !.g = "done", !.err = e]
  BY DEF P!Finish
<1>4. Counts(s, s.pages, "done", e)
        = [s EXCEPT !.data = data, !.page = <<>>, !.pages = s.pages, !.g = "done", !.err = e]
  BY DEF Counts
<1>5. t = Counts(s, s.pages, "done", e)
  <2> HIDE DEF data
  <2>1. QED
    BY <1>1, <1>3, <1>4 DEF StreamRec
<1>6. QED
  BY <1>2, <1>5, CountPage

(* The range is opened again where the bytes that were consumed end. *)
LEMMA ReopenedBytes ==
  ASSUME NEW s, BytesOK(s), NEW t, t = P!Reopened(s)
  PROVE  /\ BytesOK(t) /\ SameChunk(s, t) /\ t.hoff = s.hoff
         /\ t.pages = s.pages /\ t.g = s.g /\ t.err = s.err
<1>1. s \in StreamRec /\ s.body.pos = s.offset + s.hoff /\ s.body.pos \in Nat
  BY BytesFacts
<1>2. s.body \in Body /\ s.tries \in Nat
  BY <1>1, StreamFields
<1> DEFINE body == [s.body EXCEPT !.pos = s.body.pos]
<1>3. body = s.body
  BY <1>2 DEF Body
<1>4. t = [s EXCEPT !.tries = s.tries + 1, !.body = body]
  BY <1>1, <1>2 DEF P!Reopened, StreamRec
<1>5. t = [s EXCEPT !.tries = s.tries + 1, !.body = s.body]
  BY <1>3, <1>4
<1>6. s.tries + 1 \in Nat
  BY <1>2
<1>7. t \in StreamRec
  BY <1>1, <1>5, <1>6 DEF StreamRec
<1>8. /\ t.data = s.data /\ t.page = s.page /\ t.hoff = s.hoff /\ t.body = s.body
      /\ t.pages = s.pages /\ t.g = s.g /\ t.err = s.err /\ SameChunk(s, t)
  BY <1>1, <1>5 DEF StreamRec, SameChunk
<1>9. QED
  BY <1>7, <1>8 DEF BytesOK, SameChunk

(* The first open. *)
LEMMA OpenedBytes ==
  ASSUME NEW s, BytesOK(s), NEW t, t = [s EXCEPT !.g = "read", !.tries = 1]
  PROVE  /\ BytesOK(t) /\ SameChunk(s, t) /\ t.hoff = s.hoff
         /\ t.pages = s.pages /\ t.g = "read" /\ t.err = s.err
<1>1. s \in StreamRec
  BY BytesFacts
<1>2. t \in StreamRec
  BY <1>1 DEF StreamRec
<1>3. /\ t.data = s.data /\ t.page = s.page /\ t.hoff = s.hoff /\ t.body = s.body
      /\ t.pages = s.pages /\ t.g = "read" /\ t.err = s.err /\ SameChunk(s, t)
  BY <1>1 DEF StreamRec, SameChunk
<1>4. QED
  BY <1>2, <1>3 DEF BytesOK, SameChunk

(* One chunk seen by the reader before, between and after two steps. *)
LEMMA SameChunkTrans ==
  ASSUME NEW s, NEW t, NEW u, SameChunk(s, t), SameChunk(t, u)
  PROVE  SameChunk(s, u)
BY DEF SameChunk

(* The pool of the streams is the pool of the buffers. *)
LEMMA OnePool ==
  /\ \A n : P!GetN(n) <=> GetN(n)
  /\ \A n : P!PutN(n) <=> PutN(n)
  /\ P!poolVars = poolVars
BY DEF P!GetN, GetN, P!PutN, PutN, P!Least, Least, P!updateMinFill, updateMinFill,
       P!kickFlusher, kickFlusher, P!poolVars, poolVars

-----------------------------------------------------------------------------
(***************************************************************************)
(* The goroutine of a stream.  While it copies there is room in its pages; *)
(* when it reports no error it has the whole chunk, unless the body ended  *)
(* early, and it reports that it was cancelled only if it was.             *)
(***************************************************************************)
GoesOn(s) ==
    /\ s.g = "open" => s.pages = 0 /\ s.hoff = 0
    /\ s.g = "read" => P!Room(s) > 0
    /\ s.g # "done" => s.err = "none"
    /\ s.g = "done" /\ s.err = "none" /\ ~s.short => Len(s.data) = s.size
    /\ s.err = "canceled" => cancelled \/ s.cancel

StreamOK(s) == BytesOK(s) /\ GoesOn(s)

(* Its step as the rest of the download sees it. *)
Turns(i, t) ==
    /\ streams' = [streams EXCEPT ![i] = t]
    /\ \/ t.pages = streams[i].pages /\ UNCHANGED poolVars
       \/ t.pages = streams[i].pages + 1 /\ GetN(1)

(* A page is turned when it is full, and only then. *)
LEMMA PageTurns ==
  ASSUME NEW i, NEW s, BytesOK(s), s.g = "read", s.err = "none", P!Room(s) >= 0,
         s.pages = streams[i].pages, P!WritePage(i, s)
  PROVE  \E t : Turns(i, t) /\ StreamOK(t) /\ SameChunk(s, t)
<1>1. /\ s \in StreamRec /\ s.hoff \in Nat /\ s.pages \in Nat /\ s.pages * BufferSize \in Nat
      /\ P!Room(s) = s.pages * BufferSize - s.hoff
  BY BytesFacts, RoomLeft
<1>2. CASE P!Room(s) = 0
  <2> DEFINE t == Counts(s, s.pages + 1, "read", "none")
  <2>1. t = [s EXCEPT !.data = @ \o s.page, !.page = <<>>, !.pages = @ + 1]
    <3> DEFINE data == s.data \o s.page
    <3>1. t = [s EXCEPT !.data = data, !.page = <<>>, !.pages = s.pages + 1, !.g = "read",
                        !.err = "none"]
      BY DEF Counts
    <3>2. [s EXCEPT !.data = data, !.page = <<>>, !.pages = s.pages + 1]
            = [s EXCEPT !.data = @ \o s.page, !.page = <<>>, !.pages = @ + 1]
      OBVIOUS
    <3>3. t = [s EXCEPT !.data = data, !.page = <<>>, !.pages = s.pages + 1]
      <4> HIDE DEF data, t
      <4>1. QED
        BY <1>1, <3>1 DEF StreamRec
    <3>4. QED
      BY Zenon, <3>2, <3>3
  <2>2. streams' = [streams EXCEPT ![i] = t] /\ GetN(1)
    BY <1>2, <2>1, OnePool DEF P!WritePage
  <2>3. t.g = "read" /\ t.err = "none" /\ t.pages = s.pages + 1 /\ BytesOK(t)
        /\ SameChunk(s, t) /\ t.hoff = s.hoff
    <3>1. s.pages + 1 \in Nat
      BY <1>1
    <3>2. \A k \in Nat : \A u : u = Counts(s, k, "read", "none") =>
             /\ BytesOK(u) /\ SameChunk(s, u) /\ u.hoff = s.hoff
             /\ u.pages = k /\ u.g = "read" /\ u.err = "none"
      BY CountPage
    <3>3. QED
      BY <3>1, <3>2
  <2> HIDE DEF t
  <2>4. P!Room(t) = t.pages * BufferSize - t.hoff
    BY <2>3, RoomLeft
  <2>5. P!Room(t) > 0
    <3>1. (s.pages + 1) * BufferSize = s.pages * BufferSize + BufferSize
      BY <1>1, BufAssumption
    <3>2. t.pages * BufferSize = s.pages * BufferSize + BufferSize
      BY <2>3, <3>1
    <3>3. P!Room(t) = (s.pages * BufferSize + BufferSize) - s.hoff
      BY Zenon, <2>3, <2>4, <3>2
    <3>4. PICK a \in Nat : a = s.pages * BufferSize
      BY <1>1
    <3>5. P!Room(t) = (a + BufferSize) - s.hoff /\ a - s.hoff = 0
      BY Zenon, <1>1, <1>2, <3>3, <3>4
    <3>6. QED
      BY <1>1, <3>5, BufAssumption
  <2>6. QED
    BY <2>2, <2>3, <2>5 DEF Turns, StreamOK, GoesOn
<1>3. CASE P!Room(s) # 0
  <2>1. P!Room(s) > 0
    BY <1>1, <1>3
  <2>2. streams' = [streams EXCEPT ![i] = s] /\ UNCHANGED poolVars
    BY <1>3 DEF P!WritePage, P!poolVars, poolVars
  <2>3. QED
    BY <2>1, <2>2 DEF Turns, StreamOK, GoesOn, SameChunk
<1>4. QED
  BY <1>2, <1>3

(* The goroutine reports: what it read is counted. *)
LEMMA Reports ==
  ASSUME NEW i, NEW s, BytesOK(s), NEW e \in {"none", "error", "canceled"},
         s.pages = streams[i].pages, P!Report(i, P!Finish(s, e)),
         e = "none" => s.hoff = s.size,
         e = "canceled" => cancelled \/ s.cancel
  PROVE  \E t : Turns(i, t) /\ StreamOK(t) /\ SameChunk(s, t)
<1>1. PICK t : t = P!Finish(s, e)
  OBVIOUS
<1>2. /\ BytesOK(t) /\ SameChunk(s, t) /\ Len(t.data) = s.hoff
      /\ t.pages = s.pages /\ t.g = "done" /\ t.err = e
  BY <1>1, FinishBytes
<1>3. streams' = [streams EXCEPT ![i] = t] /\ UNCHANGED poolVars
  BY <1>1 DEF P!Report, P!poolVars, poolVars
<1>4. GoesOn(t)
  BY <1>2 DEF GoesOn, SameChunk
<1>5. QED
  BY <1>2, <1>3, <1>4 DEF Turns, StreamOK

(* It reports the bytes of a body that ended early, and no error. *)
LEMMA ReportsEarly ==
  ASSUME NEW i, NEW s, BytesOK(s), s.pages = streams[i].pages,
         P!Report(i, P!EndedEarly(s))
  PROVE  \E t : Turns(i, t) /\ StreamOK(t) /\ SameChunk(s, t)
<1>1. PICK u : u = P!Finish(s, "none")
  OBVIOUS
<1>2. /\ BytesOK(u) /\ SameChunk(s, u) /\ u.pages = s.pages
      /\ u.g = "done" /\ u.err = "none"
  BY <1>1, FinishBytes
<1>3. PICK t : t = [u EXCEPT !.short = TRUE]
  OBVIOUS
<1>4. u \in StreamRec
  BY <1>2, BytesFacts
<1>5. /\ t \in StreamRec /\ t.short
      /\ t.offset = u.offset /\ t.size = u.size /\ t.readBytes = u.readBytes
      /\ t.data = u.data /\ t.page = u.page /\ t.pages = u.pages /\ t.hoff = u.hoff
      /\ t.body = u.body /\ t.g = u.g /\ t.err = u.err /\ t.cancel = u.cancel
  BY <1>3, <1>4 DEF StreamRec
<1>6. BytesOK(t)
  BY <1>2, <1>5 DEF BytesOK
<1>7. GoesOn(t)
  BY <1>2, <1>5 DEF GoesOn
<1>8. streams' = [streams EXCEPT ![i] = t] /\ UNCHANGED poolVars
  BY <1>1, <1>3 DEF P!Report, P!EndedEarly, P!poolVars, poolVars
<1>9. QED
  BY <1>2, <1>5, <1>6, <1>7, <1>8 DEF Turns, StreamOK, SameChunk

(* Every step of a goroutine: the reader's view of the chunk stays. *)
LEMMA GoroutineStep ==
  ASSUME NEW i, StreamOK(streams[i]), faults \in Nat, P!StreamStep(i)
  PROVE  /\ \E t : Turns(i, t) /\ StreamOK(t) /\ SameChunk(streams[i], t)
         /\ faults' \in Nat /\ (faults' = 0 => faults = 0)
         /\ UNCHANGED <<opt, par, call, cancelled>>
<1>1. PICK s : s = streams[i]
  OBVIOUS
<1>2. BytesOK(s) /\ GoesOn(s) /\ s.pages = streams[i].pages
  BY <1>1 DEF StreamOK
<1>3. /\ s \in StreamRec /\ s.hoff \in Nat /\ s.size \in Nat /\ s.hoff <= s.size
      /\ s.offset \in Nat /\ s.body.pos = s.offset + s.hoff /\ s.body.end = s.offset + s.size
      /\ s.body.pos \in Nat
      /\ s.pages \in Nat /\ s.pages * BufferSize \in Nat
      /\ P!Room(s) = s.pages * BufferSize - s.hoff
  BY <1>2, BytesFacts, RoomLeft
<1>4. UNCHANGED <<opt, par, call, cancelled>>
  BY DEF P!StreamStep, P!StreamOpen, P!StreamRead
<1>5. faults' \in Nat /\ (faults' = 0 => faults = 0)
  <2>1. faults' = faults \/ faults' = faults + 1
    BY DEF P!StreamStep, P!StreamOpen, P!StreamRead
  <2>2. QED
    BY <2>1
<1>6. P!Cancelled(i) <=> cancelled \/ s.cancel
  BY <1>1 DEF P!Cancelled
<1>7. CASE P!StreamOpen(i)
  <2>1. s.g = "open" /\ s.hoff = 0 /\ s.pages = 0 /\ s.err = "none"
    BY <1>1, <1>2, <1>7 DEF P!StreamOpen, GoesOn
  <2>2. CASE P!WritePage(i, [streams[i] EXCEPT !.g = "read", !.tries = 1])
    <3>1. PICK u : u = [s EXCEPT !.g = "read", !.tries = 1]
      OBVIOUS
    <3>2. P!WritePage(i, u)
      BY <1>1, <2>2, <3>1
    <3>3. /\ BytesOK(u) /\ SameChunk(s, u) /\ u.hoff = 0 /\ u.pages = 0
          /\ u.g = "read" /\ u.err = "none"
      BY <1>2, <2>1, <3>1, OpenedBytes
    <3>4. P!Room(u) >= 0
      BY <3>3, RoomLeft, BufAssumption
    <3>5. PICK t : Turns(i, t) /\ StreamOK(t) /\ SameChunk(u, t)
      BY <1>2, <2>1, <3>2, <3>3, <3>4, PageTurns
    <3>6. QED
      BY <1>1, <1>4, <1>5, <3>3, <3>5, SameChunkTrans
  <2>3. CASE P!Cancelled(i) /\ P!Report(i, P!Finish(streams[i], "canceled"))
    BY <1>1, <1>2, <1>4, <1>5, <1>6, <2>3, Reports
  <2>4. CASE P!Report(i, P!Finish(streams[i], "error"))
    BY <1>1, <1>2, <1>4, <1>5, <2>4, Reports
  <2>5. QED
    BY <1>7, <2>2, <2>3, <2>4 DEF P!StreamOpen
<1>8. CASE P!StreamRead(i)
  <2> DEFINE rest == s.body.end - s.body.pos
             most == P!Shorter(P!Room(s), rest)
  <2>1. s.g = "read" /\ s.err = "none" /\ P!Room(s) > 0
    BY <1>1, <1>2, <1>8 DEF P!StreamRead, GoesOn
  <2>2. rest = s.size - s.hoff /\ rest \in Nat
    BY <1>3
  <2>3. most \in Nat /\ most <= rest /\ most <= P!Room(s) /\ P!Room(s) \in Int
    <3>1. P!Room(s) \in Int
      BY <1>3
    <3> HIDE DEF rest
    <3>2. QED
      BY <2>1, <2>2, <3>1 DEF P!Shorter
  <2> HIDE DEF most
  <2>4. ASSUME NEW n \in Nat, n <= rest, NEW u, u = P!Got(s, n)
        PROVE  /\ BytesOK(u) /\ SameChunk(s, u) /\ u.hoff = s.hoff + n
               /\ u.pages = s.pages /\ u.g = "read" /\ u.err = "none"
    BY <1>2, <2>1, <2>4, GotBytes
  <2>5. ASSUME NEW n \in Nat, n <= most, NEW u, BytesOK(u), u.hoff = s.hoff + n,
               u.pages = s.pages
        PROVE  P!Room(u) >= 0
    <3>1. P!Room(u) = s.pages * BufferSize - (s.hoff + n)
      BY <2>5, RoomLeft
    <3>2. PICK a \in Nat : a = s.pages * BufferSize
      BY <1>3
    <3>3. P!Room(u) = a - (s.hoff + n) /\ P!Room(s) = a - s.hoff
      BY Zenon, <1>3, <3>1, <3>2
    <3> HIDE DEF rest
    <3>4. QED
      BY <1>3, <2>3, <2>5, <3>3
  <2> HIDE DEF rest
  <2>6. CASE P!WritePage(i, P!Got(s, most))
    <3>1. PICK u : u = P!Got(s, most)
      OBVIOUS
    <3>2. P!WritePage(i, u)
      BY <2>6, <3>1
    <3>3. /\ BytesOK(u) /\ SameChunk(s, u) /\ u.hoff = s.hoff + most
          /\ u.pages = s.pages /\ u.g = "read" /\ u.err = "none"
      BY <2>3, <2>4, <3>1
    <3>4. P!Room(u) >= 0
      BY <2>3, <2>5, <3>3
    <3>5. PICK t : Turns(i, t) /\ StreamOK(t) /\ SameChunk(u, t)
      BY <1>2, <3>2, <3>3, <3>4, PageTurns
    <3>6. QED
      BY <1>1, <1>4, <1>5, <3>3, <3>5, SameChunkTrans
  <2>7. CASE P!Report(i, P!Finish(P!Got(s, rest), "none"))
    <3>1. PICK u : u = P!Got(s, rest)
      OBVIOUS
    <3>2. P!Report(i, P!Finish(u, "none"))
      BY <2>7, <3>1
    <3>3. /\ BytesOK(u) /\ SameChunk(s, u) /\ u.hoff = s.hoff + rest /\ u.pages = s.pages
      BY <2>2, <2>4, <3>1
    <3>4. u.hoff = u.size
      BY <1>3, <2>2, <3>3 DEF SameChunk
    <3>5. PICK t : Turns(i, t) /\ StreamOK(t) /\ SameChunk(u, t)
      BY <1>2, <3>2, <3>3, <3>4, Reports
    <3>6. QED
      BY <1>1, <1>4, <1>5, <3>3, <3>5, SameChunkTrans
  <2>8. CASE P!Cancelled(i) /\ P!Report(i, P!Finish(s, "canceled"))
    BY <1>1, <1>2, <1>4, <1>5, <1>6, <2>8, Reports
  <2>9. CASE \E n \in 0 .. most : \/ P!WritePage(i, P!Reopened(P!Got(s, n)))
                                    \/ P!Report(i, P!Finish(P!Got(s, n), "error"))
                                    \/ P!Report(i, P!EndedEarly(P!Got(s, n)))
    <3>0. PICK n \in 0 .. most : \/ P!WritePage(i, P!Reopened(P!Got(s, n)))
                                 \/ P!Report(i, P!Finish(P!Got(s, n), "error"))
                                 \/ P!Report(i, P!EndedEarly(P!Got(s, n)))
      BY <2>9
    <3>a. PICK u : u = P!Got(s, n)
      OBVIOUS
    <3>b. \/ P!WritePage(i, P!Reopened(u)) \/ P!Report(i, P!Finish(u, "error"))
          \/ P!Report(i, P!EndedEarly(u))
      BY <3>0, <3>a
    <3>1. n \in Nat /\ n <= most /\ n <= rest
      BY <2>2, <2>3
    <3>2. /\ BytesOK(u) /\ SameChunk(s, u) /\ u.hoff = s.hoff + n
          /\ u.pages = s.pages /\ u.g = "read" /\ u.err = "none"
      BY <2>4, <3>a, <3>1
    <3>3. CASE P!WritePage(i, P!Reopened(u))
      <4>1. PICK v : v = P!Reopened(u)
        OBVIOUS
      <4>2. P!WritePage(i, v)
        BY <3>3, <4>1
      <4>3. /\ BytesOK(v) /\ SameChunk(u, v) /\ v.hoff = s.hoff + n
            /\ v.pages = s.pages /\ v.g = "read" /\ v.err = "none"
        BY <3>2, <4>1, ReopenedBytes
      <4>4. P!Room(v) >= 0
        BY <2>5, <3>1, <4>3
      <4>5. PICK t : Turns(i, t) /\ StreamOK(t) /\ SameChunk(v, t)
        BY <1>2, <4>2, <4>3, <4>4, PageTurns
      <4>6. QED
        BY <1>1, <1>4, <1>5, <3>2, <4>3, <4>5, SameChunkTrans
    <3>4. CASE P!Report(i, P!Finish(u, "error"))
      <4>1. PICK t : Turns(i, t) /\ StreamOK(t) /\ SameChunk(u, t)
        BY <1>2, <3>2, <3>4, Reports
      <4>2. QED
        BY <1>1, <1>4, <1>5, <3>2, <4>1, SameChunkTrans
    <3>5. CASE P!Report(i, P!EndedEarly(u))
      <4>1. PICK t : Turns(i, t) /\ StreamOK(t) /\ SameChunk(u, t)
        BY <1>2, <3>2, <3>5, ReportsEarly
      <4>2. QED
        BY <1>1, <1>4, <1>5, <3>2, <4>1, SameChunkTrans
    <3>6. QED
      BY <3>b, <3>3, <3>4, <3>5
  <2>10. QED
    <3>1. \/ P!WritePage(i, P!Got(s, most))
          \/ P!Report(i, P!Finish(P!Got(s, rest), "none"))
          \/ P!Cancelled(i) /\ P!Report(i, P!Finish(s, "canceled"))
          \/ \E n \in 0 .. most : \/ P!WritePage(i, P!Reopened(P!Got(s, n)))
                                 \/ P!Report(i, P!Finish(P!Got(s, n), "error"))
                                 \/ P!Report(i, P!EndedEarly(P!Got(s, n)))
      BY <1>1, <1>8 DEF P!StreamRead, most, rest
    <3>2. QED
      BY <2>6, <2>7, <2>8, <2>9, <3>1
<1>9. QED
  BY <1>7, <1>8 DEF P!StreamStep

-----------------------------------------------------------------------------
(***************************************************************************)
(* The pages of a sequence of streams, one by one: Pages counts them.      *)
(***************************************************************************)
PagesOf(ss) == UNION { {i} \X (1 .. ss[i].pages) : i \in DOMAIN ss }

(* A page belongs to a stream and has a number there. *)
LEMMA PageIs ==
  ASSUME NEW ss \in Seq(StreamRec), NEW i, NEW k
  PROVE  <<i, k>> \in PagesOf(ss) <=> i \in 1 .. Len(ss) /\ k \in 1 .. ss[i].pages
<1>1. DOMAIN ss = 1 .. Len(ss)
  OBVIOUS
<1>2. QED
  BY <1>1 DEF PagesOf

(* Every page is such a pair. *)
LEMMA PagePair ==
  ASSUME NEW ss \in Seq(StreamRec), NEW x \in PagesOf(ss)
  PROVE  \E i \in 1 .. Len(ss) : \E k \in 1 .. ss[i].pages : x = <<i, k>>
<1>1. PICK i \in DOMAIN ss : x \in {i} \X (1 .. ss[i].pages)
  BY DEF PagesOf
<1>2. PICK k \in 1 .. ss[i].pages : x = <<i, k>>
  BY <1>1
<1>3. QED
  BY <1>2

(* Streams with as many pages as before. *)
LEMMA PagesSame ==
  ASSUME NEW ss \in Seq(StreamRec), NEW tt \in Seq(StreamRec), Len(tt) = Len(ss),
         \A i \in 1 .. Len(ss) : tt[i].pages = ss[i].pages
  PROVE  PagesOf(tt) = PagesOf(ss)
<1>1. DOMAIN tt = DOMAIN ss /\ DOMAIN ss = 1 .. Len(ss)
  OBVIOUS
<1>2. QED
  BY <1>1 DEF PagesOf

(* Streams that were just started have none. *)
LEMMA PagesConcat ==
  ASSUME NEW ss \in Seq(StreamRec), NEW rr \in Seq(StreamRec),
         \A i \in 1 .. Len(rr) : rr[i].pages = 0
  PROVE  PagesOf(ss \o rr) = PagesOf(ss)
<1>0. PICK tt : tt = ss \o rr
  OBVIOUS
<1>1. /\ tt \in Seq(StreamRec) /\ Len(tt) = Len(ss) + Len(rr)
      /\ \A i \in 1 .. Len(ss) + Len(rr) :
            tt[i] = IF i <= Len(ss) THEN ss[i] ELSE rr[i - Len(ss)]
      /\ Len(ss) \in Nat /\ Len(rr) \in Nat
  BY <1>0, ConcatProperties
<1>2. ASSUME NEW i, NEW k
      PROVE  <<i, k>> \in PagesOf(tt) <=> <<i, k>> \in PagesOf(ss)
  <2>1. /\ <<i, k>> \in PagesOf(tt) <=> i \in 1 .. Len(tt) /\ k \in 1 .. tt[i].pages
        /\ <<i, k>> \in PagesOf(ss) <=> i \in 1 .. Len(ss) /\ k \in 1 .. ss[i].pages
    BY <1>1, PageIs
  <2>2. CASE i \in 1 .. Len(ss)
    <3>1. i \in 1 .. Len(tt) /\ tt[i] = ss[i]
      BY <1>1, <2>2
    <3>2. QED
      BY <2>1, <2>2, <3>1
  <2>3. CASE i \in 1 .. Len(tt) /\ i \notin 1 .. Len(ss)
    <3>1. tt[i] = rr[i - Len(ss)] /\ i - Len(ss) \in 1 .. Len(rr)
      BY <1>1, <2>3
    <3>2. tt[i].pages = 0
      BY <3>1
    <3>3. k \notin 1 .. tt[i].pages
      BY <3>2
    <3>4. QED
      BY <2>1, <2>3, <3>3
  <2>4. CASE i \notin 1 .. Len(tt) /\ i \notin 1 .. Len(ss)
    BY <2>1, <2>4
  <2>5. QED
    BY <2>2, <2>3, <2>4
<1>3. ASSUME NEW x
      PROVE  x \in PagesOf(tt) <=> x \in PagesOf(ss)
  <2>1. ASSUME x \in PagesOf(tt) PROVE x \in PagesOf(ss)
    <3>1. PICK i, k : x = <<i, k>>
      BY <1>1, <2>1, PagePair
    <3>2. QED
      BY <1>2, <2>1, <3>1
  <2>2. ASSUME x \in PagesOf(ss) PROVE x \in PagesOf(tt)
    <3>1. PICK i, k : x = <<i, k>>
      BY <2>2, PagePair
    <3>2. QED
      BY <1>2, <2>2, <3>1
  <2>3. QED
    BY <2>1, <2>2
<1>4. QED
  BY <1>0, <1>3

(* One page more. *)
LEMMA PagesMore ==
  ASSUME NEW ss \in Seq(StreamRec), IsFiniteSet(PagesOf(ss)), NEW i \in 1 .. Len(ss),
         NEW tt \in Seq(StreamRec), Len(tt) = Len(ss),
         tt[i].pages = ss[i].pages + 1,
         \A j \in 1 .. Len(ss) : j # i => tt[j].pages = ss[j].pages
  PROVE  /\ IsFiniteSet(PagesOf(tt))
         /\ Cardinality(PagesOf(tt)) = Cardinality(PagesOf(ss)) + 1
<1>1. ss[i].pages \in Nat
  BY StreamFields
<1> DEFINE x == <<i, ss[i].pages + 1>>
<1>2. x \notin PagesOf(ss)
  BY <1>1, PageIs
<1>3. ASSUME NEW j, NEW k
      PROVE  <<j, k>> \in PagesOf(tt) <=> <<j, k>> \in PagesOf(ss) \/ <<j, k>> = x
  <2>1. CASE j = i
    BY <1>1, <2>1, PageIs
  <2>2. CASE j # i
    BY <2>2, PageIs
  <2>3. QED
    BY <2>1, <2>2
<1>4. PagesOf(tt) = PagesOf(ss) \cup {x}
  <2>1. x \in PagesOf(tt)
    BY <1>3
  <2> HIDE DEF x
  <2>2. ASSUME NEW y \in PagesOf(tt) PROVE y \in PagesOf(ss) \cup {x}
    BY <1>3, PagePair
  <2>3. ASSUME NEW y \in PagesOf(ss) PROVE y \in PagesOf(tt)
    BY <1>3, PagePair
  <2>4. QED
    BY <2>1, <2>2, <2>3
<1> HIDE DEF x
<1>5. QED
  BY <1>2, <1>4, FS_AddElement

(* The pages of the first stream leave with it. *)
LEMMA PagesTail ==
  ASSUME NEW ss \in Seq(StreamRec), ss # <<>>, IsFiniteSet(PagesOf(ss))
  PROVE  /\ Tail(ss) \in Seq(StreamRec) /\ IsFiniteSet(PagesOf(Tail(ss)))
         /\ Cardinality(PagesOf(Tail(ss))) \in Nat
         /\ ss[1].pages \in Nat
         /\ Cardinality(PagesOf(ss)) = ss[1].pages + Cardinality(PagesOf(Tail(ss)))
<1>1. /\ Tail(ss) \in Seq(StreamRec) /\ Len(Tail(ss)) = Len(ss) - 1 /\ Len(ss) \in Nat
      /\ Len(ss) >= 1 /\ \A i \in 1 .. Len(ss) - 1 : Tail(ss)[i] = ss[i+1]
  OBVIOUS
<1>2. ss[1] \in StreamRec /\ ss[1].pages \in Nat
  BY <1>1, StreamFields
<1> DEFINE S == PagesOf(ss)
           T == PagesOf(Tail(ss))
           H == {1} \X (1 .. ss[1].pages)
           R == S \ H
<1>3. IsFiniteSet(H) /\ Cardinality(H) = ss[1].pages
  <2>1. IsFiniteSet({1}) /\ Cardinality({1}) = 1
    BY FS_Singleton
  <2>2. IsFiniteSet(1 .. ss[1].pages) /\ Cardinality(1 .. ss[1].pages) = ss[1].pages
    <3>1. PICK n \in Nat : n = ss[1].pages
      BY <1>2
    <3>2. IsFiniteSet(1 .. n) /\ Cardinality(1 .. n) = n
      BY FS_Interval
    <3>3. QED
      BY <3>1, <3>2
  <2>3. IsFiniteSet(H) /\ Cardinality(H) = 1 * ss[1].pages
    BY <2>1, <2>2, FS_Product
  <2>4. QED
    BY <1>2, <2>3
<1>4. H \subseteq S
  BY <1>1, PageIs
<1>5. IsFiniteSet(R) /\ Cardinality(R) = Cardinality(S) - ss[1].pages
  <2>1. S \cap H = H
    BY <1>4
  <2> HIDE DEF S, H
  <2>2. IsFiniteSet(S)
    BY DEF S
  <2>3. IsFiniteSet(S \ H) /\ Cardinality(S \ H) = Cardinality(S) - Cardinality(S \cap H)
    BY <2>2, FS_Difference
  <2>4. QED
    BY <1>3, <2>1, <2>3
<1>6. ASSUME NEW i, NEW k
      PROVE  <<i, k>> \in R <=> i \in 2 .. Len(ss) /\ k \in 1 .. ss[i].pages
  <2>1. <<i, k>> \in H <=> i = 1 /\ k \in 1 .. ss[1].pages
    OBVIOUS
  <2>2. <<i, k>> \in S <=> i \in 1 .. Len(ss) /\ k \in 1 .. ss[i].pages
    BY PageIs
  <2> HIDE DEF S, H
  <2>3. QED
    BY <1>1, <2>1, <2>2
<1>7. ASSUME NEW i, NEW k
      PROVE  <<i, k>> \in T <=> i \in 1 .. Len(ss) - 1 /\ k \in 1 .. ss[i+1].pages
  BY <1>1, PageIs
<1>8. ASSUME NEW x \in R
      PROVE  \E i \in 2 .. Len(ss) : \E k \in 1 .. ss[i].pages : x = <<i, k>>
  BY <1>1, <1>6, PagePair
<1>9. ASSUME NEW x \in T
      PROVE  \E i \in 1 .. Len(ss) - 1 : \E k \in 1 .. ss[i+1].pages : x = <<i, k>>
  <2>1. PICK i \in 1 .. Len(Tail(ss)) : \E k \in 1 .. Tail(ss)[i].pages : x = <<i, k>>
    BY <1>1, PagePair
  <2>2. i \in 1 .. Len(ss) - 1 /\ Tail(ss)[i] = ss[i+1]
    BY <1>1
  <2>3. QED
    BY <2>1, <2>2
<1> HIDE DEF S, T, H, R
<1> DEFINE f == [x \in R |-> <<x[1] - 1, x[2]>>]
<1>10. f \in [R -> T]
  <2>1. ASSUME NEW x \in R PROVE <<x[1] - 1, x[2]>> \in T
    <3>0. PICK i \in 2 .. Len(ss) : \E k \in 1 .. ss[i].pages : x = <<i, k>>
      BY <1>8
    <3>1. PICK k \in 1 .. ss[i].pages : x = <<i, k>>
      BY <3>0
    <3>2. i - 1 \in 1 .. Len(ss) - 1 /\ (i - 1) + 1 = i
      BY <1>1
    <3>3. <<i - 1, k>> \in T
      BY <1>7, <3>2
    <3>4. QED
      BY <3>1, <3>3
  <2>2. QED
    BY <2>1
<1>11. ASSUME NEW x \in R, NEW y \in R, f[x] = f[y]
       PROVE  x = y
  <2>a. PICK i \in 2 .. Len(ss) : \E k \in 1 .. ss[i].pages : x = <<i, k>>
    BY <1>8
  <2>1. PICK k \in 1 .. ss[i].pages : x = <<i, k>>
    BY <2>a
  <2>b. PICK j \in 2 .. Len(ss) : \E l \in 1 .. ss[j].pages : y = <<j, l>>
    BY <1>8
  <2>2. PICK l \in 1 .. ss[j].pages : y = <<j, l>>
    BY <2>b
  <2>3. f[x] = <<i - 1, k>> /\ f[y] = <<j - 1, l>>
    BY <2>1, <2>2
  <2> HIDE DEF f
  <2>c. <<i - 1, k>> = <<j - 1, l>>
    BY Zenon, <1>11, <2>3
  <2>4. i - 1 = j - 1 /\ k = l
    BY <2>c
  <2>5. i = j
    BY <2>4
  <2>6. QED
    BY <2>1, <2>2, <2>4, <2>5
<1>12. ASSUME NEW y \in T
       PROVE  \E x \in R : f[x] = y
  <2>a. PICK i \in 1 .. Len(ss) - 1 : \E k \in 1 .. ss[i+1].pages : y = <<i, k>>
    BY <1>9
  <2>1. PICK k \in 1 .. ss[i+1].pages : y = <<i, k>>
    BY <2>a
  <2>2. i + 1 \in 2 .. Len(ss) /\ (i + 1) - 1 = i
    BY <1>1
  <2>3. <<i + 1, k>> \in R
    BY <1>6, <2>2
  <2>4. f[<<i + 1, k>>] = <<i, k>>
    BY <2>2, <2>3
  <2>5. QED
    BY <2>1, <2>3, <2>4
<1> HIDE DEF f
<1>13. ExistsBijection(R, T)
  BY <1>10, <1>11, <1>12 DEF ExistsBijection, Bijection, Injection, Surjection, IsInjective
<1>14. IsFiniteSet(T) /\ Cardinality(T) = Cardinality(R)
  BY <1>5, <1>13, FS_Bijection
<1>15. Cardinality(S) \in Nat /\ Cardinality(T) \in Nat
  <2>1. IsFiniteSet(S)
    BY DEF S
  <2>2. QED
    BY <1>14, <2>1, FS_CardinalityType
<1>16. Cardinality(S) = ss[1].pages + Cardinality(T)
  BY <1>2, <1>5, <1>14, <1>15
<1>17. QED
  BY <1>1, <1>2, <1>14, <1>15, <1>16 DEF S, T

-----------------------------------------------------------------------------
(***************************************************************************)
(* Chunks.                                                                 *)
(***************************************************************************)
(* Integer division. *)
LEMMA Quotient ==
  ASSUME NEW a \in Nat, NEW c \in Nat \ {0}
  PROVE  a \div c \in Nat /\ (a \div c) * c <= a /\ a < (a \div c) * c + c
OBVIOUS

(* A product grows with its factor. *)
LEMMA ProductGrows ==
  ASSUME NEW m \in Nat, NEW n \in Nat, m <= n, NEW c \in Nat
  PROVE  m * c \in Nat /\ n * c \in Nat /\ m * c <= n * c
OBVIOUS

(* As many chunks as _open starts begin before the end of the object. *)
LEMMA ChunksLeft ==
  ASSUME NEW e \in Nat, NEW c \in Nat \ {0}, NEW z \in Nat, e < z, NEW left,
         left = (z - e + c - 1) \div c
  PROVE  /\ left \in Nat /\ left >= 1
         /\ \A i \in 1 .. left : e + (i - 1) * c \in Nat /\ e + (i - 1) * c < z
<1>1. z - e + c - 1 \in Nat
  OBVIOUS
<1>2. left \in Nat /\ left * c <= z - e + c - 1 /\ z - e + c - 1 < left * c + c
  BY <1>1, Quotient
<1>3. left >= 1
  <2>1. CASE left = 0
    BY <1>2, <2>1
  <2>2. QED
    BY <1>2, <2>1
<1>4. ASSUME NEW i \in 1 .. left
      PROVE  e + (i - 1) * c \in Nat /\ e + (i - 1) * c < z
  <2>1. i - 1 \in Nat /\ left - 1 \in Nat /\ i - 1 <= left - 1
    BY <1>2, <1>3
  <2>2. PICK a \in Nat, b \in Nat : a = (i - 1) * c /\ b = (left - 1) * c /\ a <= b
    BY <2>1, ProductGrows
  <2>3. (left - 1) * c = left * c - c
    BY <1>2
  <2>4. QED
    BY <1>2, <2>2, <2>3
<1>5. QED
  BY <1>2, <1>3, <1>4

(* newParallel's chunks are not empty. *)
LEMMA RoundedUp ==
  ASSUME NEW c \in Int, c = -1 \/ c > 0
  PROVE  P!RoundedChunk(c) \in Nat \ {0}
<1> USE BufAssumption
<1>1. CASE c = -1
  BY <1>1 DEF P!RoundedChunk
<1>2. CASE c > 0
  <2> DEFINE a == c + BufferSize - 1
             q == a \div BufferSize
  <2>1. a \in Nat /\ a >= BufferSize
    BY <1>2
  <2>2. q \in Nat /\ a < q * BufferSize + BufferSize
    BY <2>1, Quotient
  <2>3. P!RoundedChunk(c) = q * BufferSize
    BY <1>2 DEF P!RoundedChunk
  <2> HIDE DEF a, q
  <2>4. PICK r \in Nat : r = q * BufferSize
    BY <2>2
  <2>5. r # 0
    BY <2>1, <2>2, <2>4
  <2>6. QED
    BY <2>3, <2>4, <2>5
<1>3. QED
  BY <1>1, <1>2

-----------------------------------------------------------------------------
(***************************************************************************)
(* The inductive invariant of a download, on top of the one of StreamBuf.  *)
(***************************************************************************)
(* The Read under way has the bytes that follow what was read before. *)
CallInv ==
    /\ call \in [want : Nat, p : Seq(Nat),
                 ret : {"idle", "run", "ok", "eof", "error", "abandoned"}]
    /\ call.ret # "idle" <=> fpc = "read"
    /\ call.ret = "idle" => call.p = <<>>
    /\ Len(call.p) <= call.want
    /\ Run(call.p, in.pos)

OptInv ==
    /\ opt \in [chunk : Int, limit : Int, streams : Int]
    /\ opt.chunk = -1 \/ opt.chunk > 0
    /\ faults \in Nat

(* Where the chunk reader is, and whether it will be read from again. *)
Goes == in.pos + Len(call.p)

Live == \/ call.ret \in {"run", "ok"} \/ fpc = "select"
        \/ fpc = "send" /\ fbuf.err = "none"

(* The sequential reader: nothing is open, or the body is open at the next *)
(* byte, up to the end of the chunk.                                       *)
SeqInv ==
    ~IsParallel =>
    /\ seq \in [offset : Int, chunkOffset : Nat, chunkSize : Int, rc : Seq(Body)]
    /\ in.open =>
        \/ seq.offset = -1 /\ seq.chunkOffset = Goes
        \/ /\ seq.offset = Goes /\ Len(seq.rc) = 1
           /\ seq.rc[1].pos = Goes /\ Goes <= seq.rc[1].end
    /\ Live /\ seq.offset # -1 =>
        /\ seq.rc[1].end = Q!SpanEnd(seq)
        /\ seq.chunkSize > 0 => seq.offset <= Q!ChunkEnd

(* The parallel reader: the streams tile the object up to endStream, and   *)
(* only the first one was read from.                                       *)
NextStart(i) == IF i = Len(streams) THEN par.endStream ELSE streams[i+1].offset

ParInv ==
    /\ par \in [endStream : 0 .. Size, chunkSize : Nat \ {0},
                pc : {"open", "read", "wait", "pop"}]
    /\ streams \in Seq(StreamRec)
    /\ Len(streams) <= (IF IsParallel THEN opt.streams ELSE 0)
    /\ \A i \in 1 .. Len(streams) : StreamOK(streams[i])
    /\ \A i \in 1 .. Len(streams) :
         streams[i].size > 0 /\ streams[i].offset + streams[i].size = NextStart(i)
    /\ \A i \in 2 .. Len(streams) : streams[i].readBytes = 0 /\ ~streams[i].cancel

(* Read pops the first stream when it has read it, and cancels it before   *)
(* it does; what it reads next is where the call goes on.                  *)
HeadInv ==
    /\ par.pc # "open" => IsParallel /\ call.ret = "run" /\ streams # <<>>
    /\ streams # <<>> =>
         /\ par.pc = "pop" => streams[1].readBytes = streams[1].size
         /\ par.pc # "pop" => streams[1].readBytes < streams[1].size
         /\ streams[1].cancel => par.pc = "pop" \/ dpc = "rawclose"
    /\ IsParallel /\ in.open /\ dpc # "rawclose" =>
         Goes = IF streams = <<>> THEN par.endStream
                                  ELSE streams[1].offset + streams[1].readBytes

(* An io.EOF is the end of the object wherever it is on its way, unless    *)
(* the origin failed.                                                      *)
AtEnd(b) == b.err = "eof" => b.pos + b.len = Size
Ended == dpc \in {"ended", "abandon", "drain", "rawclose", "done"}

EofInv ==
    /\ dpc \in {"skip", "kick"} => cur[1].len = 0
    /\ end = "eof" => Ended
    /\ faults = 0 =>
         /\ call.ret = "eof" => Goes = Size
         /\ fpc = "send" => AtEnd(fbuf)
         /\ \A i \in 1 .. Len(ready) : AtEnd(ready[i])
         /\ cur # <<>> => AtEnd(cur[1])
         /\ end = "eof" => offset = Size

(* Every buffer that is out of the pool is in the channel, with one of the *)
(* goroutines, or a page of a stream.                                      *)
HeldInv ==
    /\ IsFiniteSet(Pages) /\ inUse = Held + Cardinality(Pages)
    /\ Drained => cur = <<>>
    /\ dpc \in {"rawclose", "done"} => ready = <<>>
    /\ dpc = "done" => streams = <<>>

CInv == Inv /\ CallInv /\ OptInv /\ SeqInv /\ ParInv /\ HeadInv /\ EofInv /\ HeldInv

-----------------------------------------------------------------------------
(* A download that was just opened. *)
LEMMA CInvInit == StreamInit => Init /\ CInv
<1> SUFFICES ASSUME StreamInit
             PROVE  Init /\ CInv
  OBVIOUS
<1> USE BufAssumption
<1>1. PICK start \in Starts : /\ InitAt(start, start + 1)
                              /\ \E o \in Options : opt = Normal(o)
                              /\ Q!SeqInit(start) /\ P!ParInit(start)
  BY DEF StreamInit
<1>2. start \in Nat /\ start \in 0 .. Size /\ start + 1 \in start + 1 .. Size
  BY StreamAssumption
<1>3. Init
  BY <1>1, <1>2 DEF Init
<1>4. Inv
  BY <1>3, InvInit
<1>5. /\ in = [pos |-> start, open |-> TRUE] /\ fpc = "select" /\ dpc = "fill"
      /\ ready = <<>> /\ cur = <<>> /\ end = "none" /\ inUse = 0
  BY <1>1 DEF InitAt, PoolInit
<1>6. call = [want |-> 0, p |-> <<>>, ret |-> "idle"] /\ faults = 0
  BY DEF StreamInit, NoCall
<1>7. CallInv
  BY <1>5, <1>6 DEF CallInv, Run
<1>8. OptInv
  <2>1. PICK o \in Options : opt = Normal(o)
    BY <1>1
  <2>2. o.chunk \in Int /\ o.limit \in Int /\ o.streams \in Int
    BY StreamAssumption
  <2>3. QED
    BY <1>6, <2>1, <2>2 DEF OptInv, Normal
<1>9. Goes = start
  BY <1>2, <1>5, <1>6 DEF Goes
<1>10. SeqInv
  <2>1. seq = [offset |-> -1, chunkOffset |-> start, chunkSize |-> opt.chunk, rc |-> <<>>]
    BY <1>1 DEF Q!SeqInit
  <2>2. opt.chunk \in Int /\ <<>> \in Seq(Body)
    BY <1>8 DEF OptInv
  <2>3. QED
    BY <1>2, <1>9, <2>1, <2>2 DEF SeqInv
<1>11. /\ par = [endStream |-> start, chunkSize |-> P!RoundedChunk(opt.chunk), pc |-> "open"]
       /\ streams = <<>>
  BY <1>1 DEF P!ParInit
<1>12. P!RoundedChunk(opt.chunk) \in Nat \ {0}
  BY <1>8, RoundedUp DEF OptInv
<1>13. ParInv
  <2>1. par \in [endStream : 0 .. Size, chunkSize : Nat \ {0},
                pc : {"open", "read", "wait", "pop"}]
    BY <1>2, <1>11, <1>12
  <2>2. streams \in Seq(StreamRec) /\ Len(streams) = 0
    BY <1>11
  <2>3. 0 <= (IF IsParallel THEN opt.streams ELSE 0)
    BY <1>8 DEF IsParallel, OptInv
  <2>4. QED
    BY <2>1, <2>2, <2>3 DEF ParInv
<1>14. HeadInv
  BY <1>9, <1>11 DEF HeadInv
<1>15. EofInv
  BY <1>5, <1>6 DEF EofInv
<1>16. HeldInv
  <2>1. Pages = {}
    BY <1>11 DEF Pages
  <2>2. Held = 0
    BY <1>5 DEF Held
  <2>3. QED
    BY <1>5, <1>11, <2>1, <2>2, FS_EmptySet DEF HeldInv, Drained
<1>17. QED
  BY <1>3, <1>4, <1>7, <1>8, <1>10, <1>13, <1>14, <1>15, <1>16 DEF CInv

-----------------------------------------------------------------------------
(***************************************************************************)
(* The steps that leave the chunk reader alone.                            *)
(***************************************************************************)
BufStep == \/ FillExit \/ FillSend \/ FillCloseReady \/ FillCloseExited
           \/ Dl \/ Stopper \/ PoolTimer \/ SetRange \/ UNCHANGED vars

(* Every step is one of these. *)
LEMMA StreamSteps ==
  ASSUME [StreamNext]_allVars
  PROVE  \/ BufStep /\ UNCHANGED chunkVars
         \/ ReadCall \/ ReadReturn \/ SequentialStep \/ ParallelStep
         \/ \E i \in DOMAIN streams : Goroutine(i)
         \/ CloseSequential \/ CloseParallel
<1>1. UNCHANGED allVars => UNCHANGED vars /\ UNCHANGED chunkVars
  BY DEF allVars
<1>2. CASE Filler
  BY <1>2 DEF Filler, BufStep
<1>3. CASE Finished
  BY <1>1, <1>3 DEF Finished, BufStep
<1>4. QED
  BY Zenon, <1>1, <1>2, <1>3 DEF StreamNext, BufStep

(* What the buffers' own steps do to what the chunk reader depends on. *)
LEMMA BufStepRest ==
  ASSUME TypeOK, BufStep
  PROVE  /\ in' = in /\ fbuf' = fbuf
         /\ fpc' = "read" <=> fpc = "read"
         /\ fpc' = "select" => fpc = "select" \/ (fpc = "send" /\ fbuf.err = "none")
         /\ fpc' = "send" => fpc = "send"
         /\ dpc = "rawclose" => dpc' = "rawclose"
         /\ dpc' = "done" <=> dpc = "done"
         /\ cancelled => cancelled'
<1>1. CASE FillExit \/ FillSend \/ FillCloseReady \/ FillCloseExited
  BY <1>1 DEF FillExit, FillSend, FillCloseReady, FillCloseExited, dlVars, stopVars
<1>2. CASE StopBufferingRuns("dl") \/ StopBufferingRuns("stopper")
  BY <1>2 DEF StopBufferingRuns, fillVars, dlVars
<1>3. CASE DlPut \/ DlTake \/ DlAbandoned \/ DlIdle \/ DlKicked \/ DlNext
  BY <1>3 DEF DlPut, DlTake, DlAbandoned, DlIdle, DlKicked, DlNext, fillVars, dlVars, stopVars
<1>4. CASE DlWrite \/ DlQuit \/ DlTimedOut \/ DlSkipped
  BY <1>4 DEF DlWrite, DlQuit, DlTimedOut, DlSkipped, WriteAt, WriteRest, fillVars
<1>5. CASE DlTimeout \/ DlClose \/ DlAbandon \/ DlDrain
  BY <1>5 DEF DlTimeout, DlClose, DlAbandon, DlDrain, fillVars, stopVars
<1>6. CASE StopCall \/ StopLock \/ StopUnlock \/ StopWait
  BY <1>6 DEF StopCall, StopLock, StopUnlock, StopWait, fillVars, dlVars
<1>7. CASE PoolTimer \/ SetRange \/ UNCHANGED vars
  BY <1>7 DEF PoolTimer, SetRange, vars, fillVars, dlVars, stopVars
<1>8. QED
  BY <1>1, <1>2, <1>3, <1>4, <1>5, <1>6, <1>7 DEF BufStep, Dl, Stopper

(* A stream that nobody touched. *)
LEMMA StreamKept ==
  ASSUME NEW s, StreamOK(s), cancelled => cancelled'
  PROVE  StreamOK(s)'
BY DEF StreamOK, GoesOn

(* The chunk reader's part of the invariant under such a step. *)
LEMMA BufStepKeeps ==
  ASSUME CInv, BufStep, UNCHANGED chunkVars
  PROVE  CallInv' /\ OptInv' /\ SeqInv' /\ ParInv' /\ HeadInv'
<1>1. TypeOK
  BY DEF CInv, Inv
<1>2. /\ in' = in /\ fbuf' = fbuf
      /\ fpc' = "read" <=> fpc = "read"
      /\ fpc' = "select" => fpc = "select" \/ (fpc = "send" /\ fbuf.err = "none")
      /\ fpc' = "send" => fpc = "send"
      /\ dpc = "rawclose" => dpc' = "rawclose"
      /\ cancelled => cancelled'
  BY <1>1, BufStepRest
<1>3. /\ call' = call /\ opt' = opt /\ faults' = faults /\ seq' = seq /\ par' = par
      /\ streams' = streams
  BY DEF chunkVars
<1>4. CallInv' /\ OptInv'
  BY <1>2, <1>3 DEF CInv, CallInv, OptInv
<1>5. Goes' = Goes /\ (Live' => Live) /\ (IsParallel' <=> IsParallel)
  BY <1>2, <1>3 DEF Goes, Live, IsParallel
<1>6. SeqInv'
  <2>1. Q!SpanEnd(seq)' = Q!SpanEnd(seq) /\ Q!ChunkEnd' = Q!ChunkEnd
    BY <1>3 DEF Q!SpanEnd, Q!ChunkEnd
  <2>2. QED
    BY <1>2, <1>3, <1>5, <2>1 DEF CInv, SeqInv
<1>7. ParInv'
  <2>1. ASSUME NEW i \in 1 .. Len(streams)
        PROVE  StreamOK(streams[i])'
    <3>1. PICK s : s = streams[i]
      OBVIOUS
    <3>2. StreamOK(s)'
      BY <1>2, <3>1, StreamKept DEF CInv, ParInv
    <3>3. QED
      BY <1>3, <3>1, <3>2
  <2>2. \A i : NextStart(i)' = NextStart(i)
    BY <1>3 DEF NextStart
  <2>3. QED
    BY <1>3, <1>5, <2>1, <2>2 DEF CInv, ParInv
<1>8. HeadInv'
  BY <1>2, <1>3, <1>5 DEF CInv, HeadInv
<1>9. QED
  BY <1>4, <1>6, <1>7, <1>8

-----------------------------------------------------------------------------
(***************************************************************************)
(* A step of the goroutine of a stream.                                    *)
(***************************************************************************)
(* What the steps of the chunk reader leave alone. *)
LEMMA BufRestVars ==
  ASSUME bufRest
  PROVE  /\ in' = in /\ fbuf' = fbuf /\ fpc' = fpc /\ dpc' = dpc /\ ready' = ready
         /\ cur' = cur /\ end' = end /\ offset' = offset
         /\ UNCHANGED bufVars /\ UNCHANGED fillVars /\ UNCHANGED dlVars
         /\ UNCHANGED <<spc, sb, panics>> /\ Held' = Held
<1>1. /\ UNCHANGED bufVars /\ UNCHANGED fillVars /\ UNCHANGED dlVars
      /\ UNCHANGED <<spc, sb, panics>>
  BY DEF bufRest
<1>2. /\ in' = in /\ fbuf' = fbuf /\ fpc' = fpc /\ dpc' = dpc /\ ready' = ready
      /\ cur' = cur /\ end' = end /\ offset' = offset
  BY <1>1 DEF bufVars, fillVars, dlVars
<1>3. QED
  BY <1>1, <1>2 DEF Held

(* Turning a page takes one buffer of the pool. *)
LEMMA TurnCounts ==
  ASSUME streams \in Seq(StreamRec), IsFiniteSet(Pages), Held \in Int,
         inUse = Held + Cardinality(Pages), Held' = Held,
         NEW i \in 1 .. Len(streams), NEW t \in StreamRec, Turns(i, t)
  PROVE  /\ streams' \in Seq(StreamRec) /\ Len(streams') = Len(streams)
         /\ streams'[i] = t
         /\ \A j \in 1 .. Len(streams) : j # i => streams'[j] = streams[j]
         /\ IsFiniteSet(Pages') /\ inUse' = Held' + Cardinality(Pages')
<1>1. streams' = [streams EXCEPT ![i] = t]
  BY DEF Turns
<1>2. /\ streams' \in Seq(StreamRec) /\ Len(streams') = Len(streams) /\ streams'[i] = t
      /\ \A j \in 1 .. Len(streams) : j # i => streams'[j] = streams[j]
  BY <1>1
<1>3. PICK ss \in Seq(StreamRec), tt \in Seq(StreamRec) : ss = streams /\ tt = streams'
  BY <1>2
<1>4. Pages = PagesOf(ss) /\ Pages' = PagesOf(tt)
  BY <1>3 DEF Pages, PagesOf
<1>5. Cardinality(Pages) \in Nat
  BY FS_CardinalityType
<1>6. CASE t.pages = streams[i].pages /\ UNCHANGED poolVars
  <2>1. \A j \in 1 .. Len(ss) : tt[j].pages = ss[j].pages
    BY <1>2, <1>3, <1>6
  <2>2. PagesOf(tt) = PagesOf(ss)
    BY <1>2, <1>3, <2>1, PagesSame
  <2>3. inUse' = inUse
    BY <1>6 DEF poolVars
  <2>4. QED
    BY <1>2, <1>4, <2>2, <2>3
<1>7. CASE t.pages = streams[i].pages + 1 /\ GetN(1)
  <2>1. tt[i].pages = ss[i].pages + 1
    BY <1>2, <1>3, <1>7
  <2>2. \A j \in 1 .. Len(ss) : j # i => tt[j].pages = ss[j].pages
    BY <1>2, <1>3
  <2>3. /\ IsFiniteSet(PagesOf(tt))
        /\ Cardinality(PagesOf(tt)) = Cardinality(PagesOf(ss)) + 1
    BY <1>2, <1>3, <1>4, <2>1, <2>2, PagesMore
  <2>4. inUse' = inUse + 1
    BY <1>7 DEF GetN
  <2>5. IsFiniteSet(Pages') /\ Cardinality(Pages') = Cardinality(Pages) + 1
    BY <1>4, <2>3
  <2>6. QED
    BY <1>2, <1>5, <2>4, <2>5
<1>8. QED
  BY <1>6, <1>7 DEF Turns

(* The reader sees nothing of it but bytes. *)
LEMMA GoroutineKeeps ==
  ASSUME CInv, NEW i \in DOMAIN streams, Goroutine(i)
  PROVE  /\ CallInv' /\ OptInv' /\ SeqInv' /\ ParInv' /\ HeadInv' /\ EofInv' /\ HeldInv'
         /\ GetN(1) \/ UNCHANGED poolVars
<1>1. /\ streams \in Seq(StreamRec) /\ i \in 1 .. Len(streams) /\ StreamOK(streams[i])
      /\ faults \in Nat /\ Len(streams) \in Nat
  BY DEF CInv, ParInv, OptInv
<1>2. P!StreamStep(i) /\ bufRest /\ seq' = seq
  BY DEF Goroutine
<1>3. PICK t : Turns(i, t) /\ StreamOK(t) /\ SameChunk(streams[i], t)
  BY <1>1, <1>2, GoroutineStep
<1>4. /\ faults' \in Nat /\ (faults' = 0 => faults = 0)
      /\ opt' = opt /\ par' = par /\ call' = call /\ cancelled' = cancelled
  BY <1>1, <1>2, GoroutineStep
<1>5. /\ in' = in /\ fbuf' = fbuf /\ fpc' = fpc /\ dpc' = dpc /\ ready' = ready
      /\ cur' = cur /\ end' = end /\ offset' = offset /\ Held' = Held
  BY <1>2, BufRestVars
<1>6. t \in StreamRec
  BY <1>3 DEF StreamOK, BytesOK
<1>7. Held \in Int
  BY DEF CInv, Inv, TypeOK, Held
<1>8. /\ streams' \in Seq(StreamRec) /\ Len(streams') = Len(streams)
      /\ streams'[i] = t
      /\ \A j \in 1 .. Len(streams) : j # i => streams'[j] = streams[j]
      /\ IsFiniteSet(Pages') /\ inUse' = Held' + Cardinality(Pages')
  BY <1>1, <1>3, <1>5, <1>6, <1>7, TurnCounts DEF CInv, HeldInv
<1>9. /\ \A j \in 1 .. Len(streams) :
            /\ streams'[j].offset = streams[j].offset /\ streams'[j].size = streams[j].size
            /\ streams'[j].readBytes = streams[j].readBytes
            /\ streams'[j].cancel = streams[j].cancel
      /\ streams' = <<>> <=> streams = <<>>
  BY <1>1, <1>3, <1>8 DEF SameChunk
<1>10. CallInv' /\ OptInv'
  BY <1>4, <1>5 DEF CInv, CallInv, OptInv
<1>11. Goes' = Goes /\ (Live' <=> Live) /\ (IsParallel' <=> IsParallel)
  BY <1>4, <1>5 DEF Goes, Live, IsParallel
<1>12. SeqInv'
  <2>1. Q!SpanEnd(seq)' = Q!SpanEnd(seq) /\ Q!ChunkEnd' = Q!ChunkEnd
    BY <1>2 DEF Q!SpanEnd, Q!ChunkEnd
  <2>2. QED
    BY <1>2, <1>5, <1>11, <2>1 DEF CInv, SeqInv
<1>13. ParInv'
  <2>1. ASSUME NEW j \in 1 .. Len(streams)
        PROVE  StreamOK(streams[j])'
    <3>1. PICK s : s = IF j = i THEN t ELSE streams[j]
      OBVIOUS
    <3>2. StreamOK(s) /\ streams'[j] = s
      BY <1>3, <1>8, <3>1 DEF CInv, ParInv
    <3>3. StreamOK(s)'
      BY <1>4, <3>2, StreamKept
    <3>4. QED
      BY <3>2, <3>3
  <2>2. \A j \in 1 .. Len(streams) : NextStart(j)' = NextStart(j)
    BY <1>1, <1>4, <1>8, <1>9 DEF NextStart
  <2>3. \A j \in 1 .. Len(streams') :
          streams'[j].size > 0 /\ streams'[j].offset + streams'[j].size = NextStart(j)'
    BY <1>8, <1>9, <2>2 DEF CInv, ParInv
  <2>4. \A j \in 2 .. Len(streams') : streams'[j].readBytes = 0 /\ ~streams'[j].cancel
    BY <1>1, <1>8, <1>9 DEF CInv, ParInv
  <2>5. /\ par \in [endStream : 0 .. Size, chunkSize : Nat \ {0},
                   pc : {"open", "read", "wait", "pop"}]
        /\ Len(streams) <= (IF IsParallel THEN opt.streams ELSE 0)
    BY DEF CInv, ParInv
  <2>6. QED
    BY <1>4, <1>8, <1>11, <2>1, <2>3, <2>4, <2>5 DEF ParInv
<1>14. HeadInv'
  <2>1. streams # <<>> => 1 \in 1 .. Len(streams)
    BY <1>1
  <2>2. streams # <<>> =>
          /\ streams'[1].offset = streams[1].offset /\ streams'[1].size = streams[1].size
          /\ streams'[1].readBytes = streams[1].readBytes
          /\ streams'[1].cancel = streams[1].cancel
    BY <1>9, <2>1
  <2>3. QED
    BY <1>4, <1>5, <1>9, <1>11, <2>2 DEF CInv, HeadInv
<1>15. EofInv'
  BY <1>4, <1>5, <1>11 DEF CInv, EofInv, Ended, AtEnd
<1>16. HeldInv'
  BY <1>5, <1>8, <1>9 DEF CInv, HeldInv, Drained
<1>17. GetN(1) \/ UNCHANGED poolVars
  BY <1>3 DEF Turns
<1>18. QED
  BY <1>10, <1>12, <1>13, <1>14, <1>15, <1>16, <1>17

-----------------------------------------------------------------------------
(***************************************************************************)
(* The calls of the filling goroutine.                                     *)
(***************************************************************************)
(* The parts of the invariant that only look at the streams. *)
LEMMA ParKept ==
  ASSUME ParInv, opt' = opt, par' = par, streams' = streams, cancelled => cancelled'
  PROVE  ParInv'
<1>1. ASSUME NEW i \in 1 .. Len(streams)
      PROVE  StreamOK(streams[i])'
  <2>1. PICK s : s = streams[i]
    OBVIOUS
  <2>2. StreamOK(s)'
    BY <2>1, StreamKept DEF ParInv
  <2>3. QED
    BY <2>1, <2>2
<1>2. \A i : NextStart(i)' = NextStart(i)
  BY DEF NextStart
<1>3. IsParallel' <=> IsParallel
  BY DEF IsParallel
<1>4. QED
  BY <1>1, <1>2, <1>3 DEF ParInv

(* Numbers of the state. *)
LEMMA CallFacts ==
  ASSUME CInv
  PROVE  /\ call \in [want : Nat, p : Seq(Nat),
                      ret : {"idle", "run", "ok", "eof", "error", "abandoned"}]
         /\ call.want \in Nat /\ call.p \in Seq(Nat) /\ Len(call.p) \in Nat
         /\ call.ret \in {"idle", "run", "ok", "eof", "error", "abandoned"}
         /\ in \in [pos : Nat, open : BOOLEAN] /\ in.pos \in Nat /\ Goes \in Nat
         /\ fbuf \in Buffer /\ Held \in Nat /\ inUse \in Nat /\ faults \in Nat
         /\ size \in Nat
<1>1. call \in [want : Nat, p : Seq(Nat),
                ret : {"idle", "run", "ok", "eof", "error", "abandoned"}]
  BY DEF CInv, CallInv
<1>2. /\ call.want \in Nat /\ call.p \in Seq(Nat)
      /\ call.ret \in {"idle", "run", "ok", "eof", "error", "abandoned"}
  BY <1>1
<1>3. Len(call.p) \in Nat
  BY <1>2
<1>4. in \in [pos : Nat, open : BOOLEAN] /\ fbuf \in Buffer /\ faults \in Nat
  BY DEF CInv, Inv, TypeOK, OptInv
<1>5. Held \in Nat /\ inUse \in Nat /\ size \in Nat
  BY BufAssumption DEF CInv, Inv, TypeOK, PoolTypeOK, Held
<1>6. in.pos \in Nat
  BY <1>4
<1>7. QED
  BY <1>1, <1>2, <1>3, <1>4, <1>5, <1>6 DEF Goes

(* A Read begins. *)
LEMMA ReadCallKeeps ==
  ASSUME CInv, ReadCall
  PROVE  CallInv' /\ OptInv' /\ SeqInv' /\ ParInv' /\ HeadInv' /\ EofInv' /\ HeldInv'
<1>1. FillToken /\ opt' = opt /\ faults' = faults /\ seq' = seq /\ par' = par
      /\ streams' = streams
  BY DEF ReadCall
<1>2. /\ fpc = "select" /\ fpc' = "read" /\ in' = in /\ dpc' = dpc /\ ready' = ready
      /\ cur' = cur /\ end' = end /\ offset' = offset /\ cancelled' = cancelled
      /\ fbuf'.len = Least(size, BufferSize) /\ inUse' = inUse + 1
  BY <1>1 DEF FillToken, GetN, dlVars, stopVars
<1>3. fbuf'.len \in Nat
  BY <1>2, CallFacts, BufAssumption DEF Least
<1>4. call' = [want |-> fbuf'.len, p |-> <<>>, ret |-> "run"]
  BY DEF ReadCall
<1>5. call'.ret = "run" /\ call'.p = <<>> /\ Len(call'.p) = 0 /\ call'.want = fbuf'.len
  BY <1>4
<1>6. call.ret = "idle" /\ call.p = <<>>
  BY <1>2 DEF CInv, CallInv
<1>7. Goes' = Goes /\ Live /\ (IsParallel' <=> IsParallel)
  BY <1>1, <1>2, <1>5, <1>6, CallFacts DEF Goes, Live, IsParallel
<1>8. CallInv'
  <2>1. call' \in [want : Nat, p : Seq(Nat),
                   ret : {"idle", "run", "ok", "eof", "error", "abandoned"}]
    BY <1>3, <1>4
  <2>2. Len(call'.p) <= call'.want
    BY <1>3, <1>5
  <2>3. Run(call.p, in.pos)'
    BY <1>5 DEF Run
  <2>4. QED
    BY <1>2, <1>5, <2>1, <2>2, <2>3 DEF CallInv
<1>9. OptInv'
  BY <1>1 DEF CInv, OptInv
<1>10. SeqInv'
  <2>1. Q!SpanEnd(seq)' = Q!SpanEnd(seq) /\ Q!ChunkEnd' = Q!ChunkEnd
    BY <1>1 DEF Q!SpanEnd, Q!ChunkEnd
  <2>2. QED
    BY <1>1, <1>2, <1>7, <2>1 DEF CInv, SeqInv
<1>11. ParInv'
  BY <1>1, <1>2, ParKept DEF CInv
<1>12. HeadInv'
  BY <1>1, <1>2, <1>6, <1>7 DEF CInv, HeadInv
<1>13. EofInv'
  BY <1>1, <1>2, <1>5, <1>7 DEF CInv, EofInv, Ended, AtEnd
<1>14. HeldInv'
  <2>1. Held' = Held + 1
    BY <1>2, CallFacts DEF Held, CInv, Inv, TypeOK
  <2>2. Pages' = Pages
    BY <1>1 DEF Pages
  <2>3. Cardinality(Pages) \in Nat
    BY FS_CardinalityType DEF CInv, HeldInv
  <2>4. inUse' = Held' + Cardinality(Pages')
    BY <1>2, <2>1, <2>2, <2>3, CallFacts DEF CInv, HeldInv
  <2>5. QED
    BY <1>1, <1>2, <2>2, <2>4 DEF CInv, HeldInv, Drained
<1>15. QED
  BY <1>8, <1>9, <1>10, <1>11, <1>12, <1>13, <1>14

(* A Read returns: the raw reader of StreamBuf is where the chunk reader is. *)
LEMMA ReadReturnKeeps ==
  ASSUME CInv, ReadReturn
  PROVE  /\ CallInv' /\ OptInv' /\ SeqInv' /\ ParInv' /\ HeadInv' /\ EofInv' /\ HeldInv'
         /\ RawRead
<1>1. PICK n, e : n = Len(call.p) /\ e = IF call.ret = "ok" THEN "none" ELSE call.ret
  OBVIOUS
<1>2. /\ FillRead(n, e) /\ call.ret \in {"ok", "eof", "error", "abandoned"} /\ call' = NoCall
      /\ opt' = opt /\ faults' = faults /\ seq' = seq /\ par' = par /\ streams' = streams
  BY <1>1, CallFacts DEF ReadReturn
<1>3. n \in Nat /\ e \in Errors /\ fbuf \in Buffer
  BY <1>1, <1>2, CallFacts DEF Errors
<1>4. /\ fpc = "read" /\ fpc' = "send" /\ dpc' = dpc /\ ready' = ready
      /\ cur' = cur /\ end' = end /\ offset' = offset /\ cancelled' = cancelled
      /\ inUse' = inUse /\ in' = [in EXCEPT !.pos = @ + n]
      /\ fbuf' = [fbuf EXCEPT !.len = n, !.err = e]
  BY <1>2 DEF FillRead, bufVars, dlVars, stopVars, poolVars
<1>5. in'.pos = in.pos + n /\ in'.open = in.open
  BY <1>4, CallFacts
<1>6. fbuf'.pos = fbuf.pos /\ fbuf'.len = n /\ fbuf'.err = e
  <2>1. PICK b \in Buffer : b = fbuf
    BY <1>3
  <2>2. PICK c : c = fbuf'
    OBVIOUS
  <2>3. c = [b EXCEPT !.len = n, !.err = e]
    BY <1>4, <2>1, <2>2
  <2>4. c.pos = b.pos /\ c.len = n /\ c.err = e
    BY <2>3 DEF Buffer
  <2>5. QED
    BY <2>1, <2>2, <2>4
<1>7. RawRead
  <2>1. n \in 0 .. fbuf.len
    BY <1>2, <1>3 DEF FillRead, Buffer
  <2>2. QED
    BY <1>2, <1>3, <2>1 DEF RawRead
<1>8. call'.ret = "idle" /\ call'.p = <<>> /\ Len(call'.p) = 0 /\ call'.want = 0
  BY <1>2 DEF NoCall
<1>9. Goes' = Goes
  BY <1>1, <1>5, <1>8, CallFacts DEF Goes
<1>10. (Live' => Live) /\ (IsParallel' <=> IsParallel)
  <2>1. e = "none" => call.ret = "ok"
    BY <1>1, <1>2
  <2>2. Live' => call.ret = "ok"
    BY <1>4, <1>6, <1>8, <2>1 DEF Live
  <2>3. QED
    BY <1>2, <2>2 DEF Live, IsParallel
<1>11. CallInv'
  <2>1. call' \in [want : Nat, p : Seq(Nat),
                   ret : {"idle", "run", "ok", "eof", "error", "abandoned"}]
    BY <1>2 DEF NoCall
  <2>2. Run(call.p, in.pos)'
    BY <1>8 DEF Run
  <2>3. QED
    BY <1>4, <1>8, <2>1, <2>2 DEF CallInv
<1>12. OptInv'
  BY <1>2 DEF CInv, OptInv
<1>13. SeqInv'
  <2>1. Q!SpanEnd(seq)' = Q!SpanEnd(seq) /\ Q!ChunkEnd' = Q!ChunkEnd
    BY <1>2 DEF Q!SpanEnd, Q!ChunkEnd
  <2>2. QED
    BY <1>2, <1>5, <1>9, <1>10, <2>1 DEF CInv, SeqInv
<1>14. ParInv'
  BY <1>2, <1>4, ParKept DEF CInv
<1>15. HeadInv'
  BY <1>2, <1>4, <1>5, <1>9, <1>10 DEF CInv, HeadInv
<1>16. EofInv'
  <2>1. faults = 0 => AtEnd(fbuf)'
    <3>1. faults = 0 /\ fbuf'.err = "eof" => Goes = Size
      BY <1>1, <1>6 DEF CInv, EofInv
    <3>2. fbuf'.pos + fbuf'.len = Goes
      BY <1>1, <1>4, <1>6 DEF CInv, Inv, FillInv, Goes
    <3>3. QED
      BY <3>1, <3>2 DEF AtEnd
  <2>2. QED
    BY <1>2, <1>4, <1>8, <2>1 DEF CInv, EofInv, Ended, AtEnd
<1>17. HeldInv'
  <2>1. Held' = Held
    BY <1>4 DEF Held
  <2>2. Pages' = Pages
    BY <1>2 DEF Pages
  <2>3. QED
    BY <1>2, <1>4, <2>1, <2>2 DEF CInv, HeldInv, Drained
<1>18. QED
  BY <1>7, <1>11, <1>12, <1>13, <1>14, <1>15, <1>16, <1>17

-----------------------------------------------------------------------------
(***************************************************************************)
(* The sequential reader.                                                  *)
(***************************************************************************)
SeqRec == [offset : Int, chunkOffset : Nat, chunkSize : Int, rc : Seq(Body)]

(* While a Read runs the reader is open. *)
LEMMA RunningOpen ==
  ASSUME CInv, call.ret = "run"
  PROVE  fpc = "read" /\ in.open /\ dpc # "rawclose" /\ dpc # "done"
<1>1. fpc = "read"
  BY DEF CInv, CallInv
<1>2. QED
  BY <1>1 DEF CInv, Inv, CloseInv

(* openRange asks for the bytes that follow what was read. *)
LEMMA OpensNext ==
  ASSUME CInv, ~IsParallel, call.ret = "run", Q!ChunkDone \/ seq.offset = -1, NEW s,
         s = IF Q!ChunkDone THEN Q!NextChunk ELSE seq
  PROVE  /\ s \in SeqRec /\ s.chunkOffset = Goes
         /\ s.offset = seq.offset /\ s.rc = seq.rc
<1>1. seq \in SeqRec
  BY DEF CInv, SeqInv, SeqRec
<1>2. /\ seq.offset \in Int /\ seq.chunkOffset \in Nat /\ seq.chunkSize \in Int
      /\ seq.rc \in Seq(Body)
  BY <1>1 DEF SeqRec
<1>3. in.open
  BY RunningOpen
<1>4. CASE Q!ChunkDone
  <2>1. seq.chunkSize > 0 /\ seq.offset = seq.chunkOffset + seq.chunkSize
    BY <1>4 DEF Q!ChunkDone, Q!ChunkEnd
  <2>2. seq.offset # -1 /\ seq.offset \in Nat
    BY <1>2, <2>1
  <2>3. seq.offset = Goes
    BY <1>3, <2>2 DEF CInv, SeqInv
  <2>4. PICK c \in Int : s = [seq EXCEPT !.chunkOffset = seq.offset, !.chunkSize = c]
    <3>1. opt.limit \in Int /\ 2 * seq.chunkSize \in Int
      BY <1>2 DEF CInv, OptInv
    <3>2. QED
      BY <1>4, <3>1 DEF Q!NextChunk
  <2>5. QED
    BY <1>1, <2>2, <2>3, <2>4 DEF SeqRec
<1>5. CASE ~Q!ChunkDone
  <2>1. s = seq /\ seq.offset = -1
    BY <1>5
  <2>2. seq.chunkOffset = Goes
    BY <1>3, <2>1, CallFacts DEF CInv, SeqInv
  <2>3. QED
    BY <1>1, <2>1, <2>2
<1>6. QED
  BY <1>4, <1>5

(* The span of a chunk. *)
LEMMA SpanFacts ==
  ASSUME NEW s \in SeqRec, s.chunkOffset < Size
  PROVE  /\ Q!SpanEnd(s) \in Nat /\ s.chunkOffset < Q!SpanEnd(s)
         /\ s.chunkSize > 0 => s.chunkOffset <= s.chunkOffset + s.chunkSize
BY BufAssumption DEF SeqRec, Q!SpanEnd

(* A chunk is opened, or the open fails. *)
LEMMA SeqOpenKeeps ==
  ASSUME CInv, ~IsParallel, Q!SeqOpen, in' = in, fpc' = fpc, fbuf' = fbuf
  PROVE  /\ CallInv' /\ SeqInv' /\ faults' \in Nat /\ (faults' = 0 => faults = 0)
         /\ opt' = opt /\ cancelled' = cancelled
         /\ call'.ret # "eof"
<1>1. call.ret = "run" /\ (Q!ChunkDone \/ seq.offset = -1) /\ opt' = opt
      /\ cancelled' = cancelled
  BY DEF Q!SeqOpen, Q!Running
<1>2. PICK s : s = IF Q!ChunkDone THEN Q!NextChunk ELSE seq
  OBVIOUS
<1>3. /\ s \in SeqRec /\ s.chunkOffset = Goes
      /\ s.offset = seq.offset /\ s.rc = seq.rc
  BY <1>1, <1>2, OpensNext
<1>4. fpc = "read" /\ in.open /\ Goes \in Nat
  BY <1>1, RunningOpen, CallFacts
<1>5. ~IsParallel'
  BY <1>1 DEF IsParallel
<1>6. CASE /\ s.chunkOffset < Size
           /\ seq' = [s EXCEPT !.offset = s.chunkOffset,
                               !.rc = <<[pos |-> s.chunkOffset, end |-> Q!SpanEnd(s)]>>]
           /\ UNCHANGED <<call, faults>>
  <2>1. PICK z \in Nat : z = Q!SpanEnd(s) /\ Goes <= z
    BY <1>3, <1>4, <1>6, SpanFacts
  <2>2. PICK rc : rc = <<[pos |-> Goes, end |-> z]>>
    OBVIOUS
  <2>3. rc \in Seq(Body) /\ Len(rc) = 1 /\ rc[1].pos = Goes /\ rc[1].end = z
    <3>1. [pos |-> Goes, end |-> z] \in Body
      BY <1>4 DEF Body
    <3>2. QED
      BY <2>2, <3>1
  <2>4. seq' = [s EXCEPT !.offset = Goes, !.rc = rc]
    BY <1>3, <1>6, <2>1, <2>2
  <2>5. /\ seq' \in SeqRec /\ seq'.offset = Goes /\ seq'.rc = rc
        /\ seq'.chunkOffset = Goes /\ seq'.chunkSize = s.chunkSize /\ s.chunkSize \in Int
    <3>1. PICK t : t = seq' /\ t = [s EXCEPT !.offset = Goes, !.rc = rc]
      BY <2>4
    <3>2. Goes \in Int /\ rc \in Seq(Body)
      BY <1>4, <2>3
    <3>3. t \in SeqRec
      BY <1>3, <3>1, <3>2 DEF SeqRec
    <3>4. t.offset = Goes /\ t.rc = rc /\ t.chunkOffset = Goes /\ t.chunkSize = s.chunkSize
      BY <1>3, <3>1 DEF SeqRec
    <3>5. s.chunkSize \in Int
      BY <1>3 DEF SeqRec
    <3>6. QED
      BY <3>1, <3>3, <3>4, <3>5
  <2>6. Q!SpanEnd(seq)' = z
    BY <1>3, <2>1, <2>5 DEF Q!SpanEnd
  <2>7. seq'.chunkSize > 0 => seq'.offset <= Q!ChunkEnd'
    BY <1>4, <2>5 DEF Q!ChunkEnd
  <2>8. Goes' = Goes
    BY <1>6 DEF Goes
  <2>9. SeqInv'
    BY <2>1, <2>3, <2>5, <2>6, <2>7, <2>8 DEF SeqInv, SeqRec
  <2>10. CallInv'
    BY <1>6 DEF CInv, CallInv
  <2>11. QED
    BY <1>1, <1>6, <2>9, <2>10, CallFacts
<1>7. CASE /\ seq' = s /\ call' = [call EXCEPT !.ret = "error"]
           /\ faults' = faults \/ faults' = faults + 1
  <2>1. call'.ret = "error" /\ call'.p = call.p /\ call'.want = call.want
    BY <1>7, CallFacts
  <2>2. call' \in [want : Nat, p : Seq(Nat),
                   ret : {"idle", "run", "ok", "eof", "error", "abandoned"}]
    BY <1>7, CallFacts
  <2>3. CallInv'
    BY <1>4, <2>1, <2>2 DEF CInv, CallInv
  <2>4. Goes' = Goes /\ ~Live'
    BY <1>4, <2>1 DEF Goes, Live
  <2>5. \/ seq.offset = -1
        \/ /\ seq.offset = Goes /\ Len(seq.rc) = 1
           /\ seq.rc[1].pos = Goes /\ Goes <= seq.rc[1].end
    BY <1>4 DEF CInv, SeqInv
  <2>6. SeqInv'
    BY <1>3, <1>7, <2>4, <2>5 DEF SeqInv, SeqRec
  <2>7. faults' \in Nat /\ (faults' = 0 => faults = 0)
    BY <1>7, CallFacts
  <2>8. QED
    BY <1>1, <2>1, <2>3, <2>6, <2>7
<1>8. QED
  <2>1. \/ /\ s.chunkOffset < Size
           /\ seq' = [s EXCEPT !.offset = s.chunkOffset,
                               !.rc = <<[pos |-> s.chunkOffset, end |-> Q!SpanEnd(s)]>>]
           /\ UNCHANGED <<call, faults>>
        \/ /\ seq' = s /\ call' = [call EXCEPT !.ret = "error"]
           /\ faults' = faults \/ faults' = faults + 1
    BY <1>2 DEF Q!SeqOpen
  <2>2. QED
    BY <1>6, <1>7, <2>1

(* io.ReadFull: the bytes follow what the Read has, and an io.EOF that the *)
(* origin did not cause is the end of the object.                          *)
LEMMA SeqReadKeeps ==
  ASSUME CInv, ~IsParallel, Q!SeqRead, in' = in, fpc' = fpc, fbuf' = fbuf
  PROVE  /\ CallInv' /\ SeqInv' /\ faults' \in Nat /\ (faults' = 0 => faults = 0)
         /\ opt' = opt /\ cancelled' = cancelled
         /\ call'.ret = "eof" /\ faults' = 0 => Goes' = Size
<1>1. /\ call.ret = "run" /\ call.want - Len(call.p) > 0 /\ seq.offset # -1
      /\ opt' = opt /\ cancelled' = cancelled
  BY DEF Q!SeqRead, Q!Running, Q!Asked
<1>2. fpc = "read" /\ in.open /\ Goes \in Nat
  BY <1>1, RunningOpen, CallFacts
<1>3. seq \in SeqRec
  BY DEF CInv, SeqInv, SeqRec
<1>4. /\ seq.offset \in Int /\ seq.chunkOffset \in Nat /\ seq.chunkSize \in Int
      /\ seq.rc \in Seq(Body) /\ Len(seq.rc) = 1
      /\ seq.offset = Goes /\ seq.rc[1].pos = Goes /\ Goes <= seq.rc[1].end
  BY <1>1, <1>2, <1>3 DEF CInv, SeqInv, SeqRec
<1>5. PICK rc \in Body : rc = seq.rc[1]
  BY <1>4
<1>6. rc.pos = Goes /\ rc.pos \in Nat /\ rc.end \in Nat /\ Goes <= rc.end
  BY <1>4, <1>5 DEF Body
<1>7. Live
  BY <1>1 DEF Live
<1>8. /\ rc.end = Q!SpanEnd(seq)
      /\ seq.chunkSize > 0 => seq.offset <= Q!ChunkEnd
  BY <1>1, <1>5, <1>7 DEF CInv, SeqInv
<1>9. PICK chunkEnd \in Int : chunkEnd = Q!ChunkEnd /\ chunkEnd = seq.chunkOffset + seq.chunkSize
  BY <1>4 DEF Q!ChunkEnd
<1>10. PICK asked \in Nat : asked = call.want - Len(call.p) /\ asked = Q!Asked
  BY <1>1, CallFacts DEF Q!Asked
<1>11. PICK rest \in Nat : rest = rc.end - rc.pos
  BY <1>6
<1>12. PICK m : m = IF seq.chunkSize > 0 /\ asked > chunkEnd - seq.offset
                    THEN chunkEnd - seq.offset ELSE asked
  OBVIOUS
<1>13. m \in Nat /\ m <= asked /\ (seq.chunkSize > 0 => m <= chunkEnd - seq.offset)
  BY <1>4, <1>8, <1>9, <1>12
<1> DEFINE Reads(n, ret) ==
      /\ call' = [call EXCEPT !.p = Q!Copy(rc.pos, n), !.ret = ret]
      /\ seq' = [seq EXCEPT !.offset = @ + n, !.rc[1].pos = @ + n]
<1>14. \E n \in 0 .. m, ret \in {"ok", "run", "eof", "error"} :
         /\ Reads(n, ret) /\ n <= rest
         /\ faults' = faults \/ faults' = faults + 1
         /\ ret = "eof" /\ faults' = faults => m > rest /\ n = rest
  <2>1. \/ /\ m <= rest /\ Reads(m, IF m = asked THEN "ok" ELSE "run") /\ UNCHANGED faults
        \/ m > rest /\ Reads(rest, "eof") /\ UNCHANGED faults
        \/ /\ \E n \in 0 .. m - 1 : n <= rest /\ \E ret \in {"eof", "error"} : Reads(n, ret)
           /\ faults' = faults + 1
        \/ Reads(0, "error") /\ UNCHANGED faults
    BY <1>5, <1>9, <1>10, <1>11, <1>12 DEF Q!SeqRead
  <2> HIDE DEF Reads
  <2>2. CASE m <= rest /\ Reads(m, IF m = asked THEN "ok" ELSE "run") /\ UNCHANGED faults
    BY <1>13, <2>2
  <2>3. CASE m > rest /\ Reads(rest, "eof") /\ UNCHANGED faults
    BY <1>13, <2>3
  <2>4. CASE /\ \E n \in 0 .. m - 1 : n <= rest /\ \E ret \in {"eof", "error"} : Reads(n, ret)
             /\ faults' = faults + 1
    BY <1>13, <2>4, CallFacts
  <2>5. CASE Reads(0, "error") /\ UNCHANGED faults
    BY <1>13, <2>5
  <2>6. QED
    BY <2>1, <2>2, <2>3, <2>4, <2>5
<1>15. PICK n \in 0 .. m, ret \in {"ok", "run", "eof", "error"} :
         /\ Reads(n, ret) /\ n <= rest
         /\ faults' = faults \/ faults' = faults + 1
         /\ ret = "eof" /\ faults' = faults => m > rest /\ n = rest
  BY <1>14
<1>16. n \in Nat /\ n <= m /\ faults' \in Nat /\ (faults' = 0 => faults = 0)
  BY <1>13, <1>15, CallFacts
<1>17. PICK p : p = Q!Copy(Goes, n)
  OBVIOUS
<1>18. /\ p \in Seq(Nat) /\ Len(p) = Len(call.p) + n /\ Run(p, in.pos)
  <2>1. PICK q : q = [i \in 1 .. n |-> Goes + i - 1]
    OBVIOUS
  <2>2. q \in Seq(Nat) /\ Len(q) = n /\ Run(q, Goes)
    BY <1>2, <1>16, <2>1, PositionsRun
  <2>3. p = call.p \o q
    BY <1>17, <2>1 DEF Q!Copy
  <2>4. /\ call.p \in Seq(Nat) /\ in.pos \in Nat /\ Run(call.p, in.pos)
        /\ Run(q, in.pos + Len(call.p))
    BY <2>2, CallFacts DEF CInv, CallInv, Goes
  <2>5. QED
    BY <2>2, <2>3, <2>4, RunConcat
<1>19. /\ call'.p = p /\ call'.ret = ret /\ call'.want = call.want
       /\ call' \in [want : Nat, p : Seq(Nat),
                     ret : {"idle", "run", "ok", "eof", "error", "abandoned"}]
  <2>1. call' = [call EXCEPT !.p = p, !.ret = ret]
    BY <1>6, <1>15, <1>17
  <2>2. p \in Seq(Nat)
    BY <1>18
  <2> HIDE DEF Reads
  <2>3. PICK c : c = call' /\ c = [call EXCEPT !.p = p, !.ret = ret]
    BY <2>1
  <2>4. call \in [want : Nat, p : Seq(Nat),
                  ret : {"idle", "run", "ok", "eof", "error", "abandoned"}]
    BY CallFacts
  <2>5. QED
    BY <2>2, <2>3, <2>4
<1>20. CallInv'
  <2>1. PICK a \in Nat : a = Len(call.p)
    BY CallFacts
  <2>2. a + n <= call.want
    BY <1>10, <1>13, <1>16, <2>1, CallFacts
  <2>3. Len(call'.p) <= call'.want
    BY <1>18, <1>19, <2>1, <2>2
  <2>4. Run(call.p, in.pos)'
    BY <1>18, <1>19
  <2> HIDE DEF Reads
  <2>5. QED
    BY <1>2, <1>19, <2>3, <2>4 DEF CallInv
<1>21. Goes' = Goes + n
  <2>1. PICK a \in Nat, b \in Nat : a = Len(call.p) /\ b = in.pos
    BY CallFacts
  <2>2. Len(call'.p) = a + n /\ in'.pos = b
    BY <1>18, <1>19, <2>1
  <2>3. QED
    BY <1>16, <2>1, <2>2 DEF Goes
<1>22. /\ seq' \in SeqRec /\ seq'.offset = Goes + n /\ seq'.chunkOffset = seq.chunkOffset
       /\ seq'.chunkSize = seq.chunkSize /\ Len(seq'.rc) = 1
       /\ seq'.rc[1].pos = Goes + n /\ seq'.rc[1].end = rc.end
  <2>1. seq' = [seq EXCEPT !.offset = @ + n, !.rc[1].pos = @ + n]
    BY <1>15
  <2> HIDE DEF Reads
  <2> DEFINE body == [seq.rc[1] EXCEPT !.pos = seq.rc[1].pos + n]
             rcs  == [seq.rc EXCEPT ![1] = body]
  <2>2. body \in Body /\ body.pos = Goes + n /\ body.end = rc.end
    BY <1>5, <1>6, <1>16 DEF Body
  <2>3. seq' = [seq EXCEPT !.offset = seq.offset + n, !.rc = rcs]
    BY <1>3, <2>1 DEF SeqRec
  <2> HIDE DEF body
  <2>4. rcs \in Seq(Body) /\ Len(rcs) = 1 /\ rcs[1] = body
    BY <1>4, <2>2
  <2> HIDE DEF rcs
  <2>5. seq.offset + n \in Int
    BY <1>4, <1>16
  <2>6. PICK t : t = seq' /\ t = [seq EXCEPT !.offset = seq.offset + n, !.rc = rcs]
    BY <2>3
  <2>7. t \in SeqRec
    BY <1>3, <2>4, <2>5, <2>6 DEF SeqRec
  <2>8. /\ t.offset = seq.offset + n /\ t.rc = rcs /\ t.chunkOffset = seq.chunkOffset
        /\ t.chunkSize = seq.chunkSize
    BY <1>3, <2>6 DEF SeqRec
  <2>9. QED
    BY <1>4, <2>2, <2>4, <2>6, <2>7, <2>8
<1> HIDE DEF Reads
<1>23. Q!SpanEnd(seq)' = rc.end /\ Q!ChunkEnd' = chunkEnd
  BY <1>8, <1>9, <1>22 DEF Q!SpanEnd, Q!ChunkEnd
<1>24. Goes + n <= rc.end
  BY <1>2, <1>6, <1>11, <1>15, <1>16
<1>25. seq.chunkSize > 0 => Goes + n <= chunkEnd
  BY <1>2, <1>4, <1>13, <1>16
<1>26. SeqInv'
  BY <1>21, <1>22, <1>23, <1>24, <1>25 DEF SeqInv, SeqRec
<1>27. ASSUME call'.ret = "eof", faults' = 0
       PROVE  Goes' = Size
  <2>1. ret = "eof" /\ faults' = faults
    BY <1>16, <1>19, <1>27
  <2>2. m > rest /\ n = rest
    BY <1>15, <2>1
  <2>3. Goes' = rc.end
    BY <1>2, <1>6, <1>11, <1>21, <2>2
  <2>4. rc.end = Size
    <3>1. SUFFICES ASSUME rc.end # Size
                   PROVE  FALSE
      OBVIOUS
    <3>2. seq.chunkSize > 0 /\ rc.end = chunkEnd
      BY <1>8, <1>9, <3>1 DEF Q!SpanEnd
    <3>3. m <= rc.end - Goes
      BY <1>4, <1>13, <3>2
    <3>4. QED
      BY <1>6, <1>11, <1>13, <2>2, <3>3
  <2>5. QED
    BY <2>3, <2>4
<1>28. QED
  BY <1>1, <1>16, <1>20, <1>26, <1>27

(* The sequential reader's steps. *)
LEMMA SequentialKeeps ==
  ASSUME CInv, SequentialStep
  PROVE  /\ CallInv' /\ OptInv' /\ SeqInv' /\ ParInv' /\ HeadInv' /\ EofInv' /\ HeldInv'
         /\ UNCHANGED vars
<1>1. ~IsParallel /\ Q!SeqStep /\ bufRest /\ par' = par /\ streams' = streams
      /\ UNCHANGED poolVars
  BY DEF SequentialStep
<1>2. /\ in' = in /\ fbuf' = fbuf /\ fpc' = fpc /\ dpc' = dpc /\ ready' = ready
      /\ cur' = cur /\ end' = end /\ offset' = offset /\ Held' = Held
      /\ UNCHANGED bufVars /\ UNCHANGED fillVars /\ UNCHANGED dlVars
      /\ UNCHANGED <<spc, sb, panics>>
  BY <1>1, BufRestVars
<1>3. /\ CallInv' /\ SeqInv' /\ faults' \in Nat /\ (faults' = 0 => faults = 0)
      /\ opt' = opt /\ cancelled' = cancelled
      /\ call'.ret = "eof" /\ faults' = 0 => Goes' = Size
  <2>1. CASE Q!SeqOpen
    BY <1>1, <1>2, <2>1, SeqOpenKeeps
  <2>2. CASE Q!SeqRead
    BY <1>1, <1>2, <2>2, SeqReadKeeps
  <2>3. QED
    BY <1>1, <2>1, <2>2 DEF Q!SeqStep
<1>4. OptInv'
  BY <1>3 DEF CInv, OptInv
<1>5. ParInv'
  BY <1>1, <1>3, ParKept DEF CInv
<1>6. HeadInv'
  <2>1. streams = <<>> /\ ~IsParallel' /\ par.pc = "open"
    BY <1>1, <1>3 DEF CInv, ParInv, HeadInv, IsParallel
  <2>2. QED
    BY <1>1, <2>1 DEF HeadInv
<1>7. EofInv'
  BY <1>2, <1>3 DEF CInv, EofInv, Ended, AtEnd
<1>8. HeldInv'
  <2>1. Pages' = Pages /\ inUse' = inUse
    BY <1>1 DEF Pages, poolVars
  <2>2. QED
    BY <1>1, <1>2, <2>1 DEF CInv, HeldInv, Drained
<1>9. UNCHANGED vars
  BY <1>1, <1>2, <1>3 DEF vars, stopVars
<1>10. QED
  BY <1>3, <1>4, <1>5, <1>6, <1>7, <1>8, <1>9

-----------------------------------------------------------------------------
(***************************************************************************)
(* The parallel reader.                                                    *)
(***************************************************************************)
(* Streams that follow each other up to e. *)
Tiles(ss, e) ==
    \A i \in 1 .. Len(ss) :
        ss[i].offset + ss[i].size = IF i = Len(ss) THEN e ELSE ss[i+1].offset

Fresh(s) == StreamOK(s) /\ s.size > 0 /\ s.readBytes = 0 /\ ~s.cancel

(* The new streams follow the old ones. *)
LEMMA TilesConcat ==
  ASSUME NEW ss \in Seq(StreamRec), NEW rr \in Seq(StreamRec), NEW e, NEW z,
         Tiles(ss, e), Tiles(rr, z), Len(rr) > 0 => rr[1].offset = e, Len(rr) = 0 => z = e
  PROVE  Tiles(ss \o rr, z)
<1>1. PICK tt : tt = ss \o rr
  OBVIOUS
<1>2. PICK m \in Nat, n \in Nat : m = Len(ss) /\ n = Len(rr)
  OBVIOUS
<1>3. /\ tt \in Seq(StreamRec) /\ Len(tt) = m + n
      /\ \A i \in 1 .. m + n : tt[i] = IF i <= m THEN ss[i] ELSE rr[i - m]
  BY <1>1, <1>2, ConcatProperties
<1>4. ASSUME NEW i \in 1 .. m + n
      PROVE  tt[i].offset + tt[i].size = IF i = m + n THEN z ELSE tt[i+1].offset
  <2>1. CASE i < m
    <3>1. tt[i] = ss[i] /\ tt[i+1] = ss[i+1] /\ i \in 1 .. m /\ i # m /\ i # m + n
      BY <1>3, <2>1
    <3>2. QED
      BY <1>2, <3>1 DEF Tiles
  <2>2. CASE i = m
    <3>1. tt[i] = ss[i] /\ i \in 1 .. m
      BY <1>3, <2>2
    <3>2. ss[i].offset + ss[i].size = e
      BY <1>2, <2>2, <3>1 DEF Tiles
    <3>3. CASE n = 0
      BY <1>2, <2>2, <3>1, <3>2, <3>3
    <3>4. CASE n > 0
      <4>1. i + 1 \in 1 .. m + n /\ ~(i + 1 <= m) /\ (i + 1) - m = 1 /\ i # m + n
        BY <2>2, <3>4
      <4>2. tt[i+1] = rr[1]
        BY <1>3, <4>1
      <4>3. QED
        BY <1>2, <3>1, <3>2, <3>4, <4>1, <4>2
    <3>5. QED
      BY <3>3, <3>4
  <2>3. CASE i > m
    <3>1. PICK j \in Nat : j = i - m
      BY <2>3
    <3>2. j \in 1 .. n /\ tt[i] = rr[j] /\ (i = m + n <=> j = n)
      BY <1>3, <2>3, <3>1
    <3>3. i # m + n => tt[i+1] = rr[j+1]
      <4>1. i # m + n => i + 1 \in 1 .. m + n /\ ~(i + 1 <= m) /\ (i + 1) - m = j + 1
        BY <2>3, <3>1
      <4>2. QED
        BY <1>3, <4>1
    <3>4. rr[j].offset + rr[j].size = IF j = n THEN z ELSE rr[j+1].offset
      BY <1>2, <3>2 DEF Tiles
    <3>5. QED
      BY <3>2, <3>3, <3>4
  <2>4. QED
    BY <2>1, <2>2, <2>3
<1>5. QED
  BY <1>1, <1>3, <1>4 DEF Tiles

(* The streams behind the first one. *)
LEMMA TilesTail ==
  ASSUME NEW ss \in Seq(StreamRec), NEW e, ss # <<>>, Tiles(ss, e)
  PROVE  /\ Tiles(Tail(ss), e) /\ Tail(ss) \in Seq(StreamRec)
         /\ Len(Tail(ss)) = Len(ss) - 1 /\ Len(ss) >= 1
         /\ \A i \in 1 .. Len(ss) - 1 : Tail(ss)[i] = ss[i+1]
         /\ ss[1].offset + ss[1].size = IF Tail(ss) = <<>> THEN e ELSE Tail(ss)[1].offset
<1>1. PICK tt : tt = Tail(ss)
  OBVIOUS
<1>2. /\ tt \in Seq(StreamRec) /\ Len(tt) = Len(ss) - 1 /\ Len(ss) \in Nat
      /\ Len(ss) >= 1 /\ \A i \in 1 .. Len(ss) - 1 : tt[i] = ss[i+1]
  BY <1>1
<1>3. ASSUME NEW i \in 1 .. Len(tt)
      PROVE  tt[i].offset + tt[i].size = IF i = Len(tt) THEN e ELSE tt[i+1].offset
  <2>1. tt[i] = ss[i+1] /\ i + 1 \in 1 .. Len(ss) /\ (i = Len(tt) <=> i + 1 = Len(ss))
    BY <1>2
  <2>2. i # Len(tt) => tt[i+1] = ss[(i+1)+1]
    BY <1>2
  <2>3. ss[i+1].offset + ss[i+1].size
          = IF i + 1 = Len(ss) THEN e ELSE ss[(i+1)+1].offset
    BY <2>1 DEF Tiles
  <2>4. QED
    BY <2>1, <2>2, <2>3
<1>4. tt = <<>> <=> Len(ss) = 1
  BY <1>2
<1>5. tt # <<>> => tt[1] = ss[1+1] /\ 1 # Len(ss)
  BY <1>2, <1>4
<1>6. ss[1].offset + ss[1].size = IF 1 = Len(ss) THEN e ELSE ss[1+1].offset
  BY <1>2 DEF Tiles
<1>7. ss[1].offset + ss[1].size = IF tt = <<>> THEN e ELSE tt[1].offset
  BY <1>4, <1>5, <1>6
<1>8. QED
  BY <1>1, <1>2, <1>3, <1>7 DEF Tiles

(* A stream that was just started. *)
LEMMA NewStream ==
  ASSUME NEW from \in Nat, NEW n \in Nat \ {0}, NEW s, s = P!newStream(from, n)
  PROVE  /\ Fresh(s) /\ s \in StreamRec /\ s.offset = from /\ s.size = n /\ s.pages = 0
<1>1. [pos |-> from, end |-> from + n] \in Body
  BY DEF Body
<1>2. <<>> \in Seq(Nat)
  OBVIOUS
<1>3. s \in StreamRec
  BY <1>1, <1>2 DEF P!newStream, StreamRec
<1>4. /\ s.offset = from /\ s.size = n /\ s.readBytes = 0 /\ s.data = <<>> /\ s.page = <<>>
      /\ s.pages = 0 /\ s.hoff = 0 /\ s.body.pos = from /\ s.body.end = from + n
      /\ s.g = "open" /\ s.err = "none" /\ s.cancel = FALSE
  BY DEF P!newStream
<1>5. Len(s.data) = 0 /\ Len(s.page) = 0
  BY <1>4
<1>6. Run(s.data, s.offset) /\ Run(s.page, s.offset + Len(s.data))
  BY <1>5 DEF Run
<1>7. BytesOK(s)
  BY <1>3, <1>4, <1>5, <1>6 DEF BytesOK
<1>8. QED
  BY <1>3, <1>4, <1>7 DEF Fresh, StreamOK, GoesOn

(* The streams _open starts, and where they end. *)
Started(e, c, new) ==
    [i \in 1 .. new |->
        P!newStream(e + (i - 1) * c,
                    P!Shorter(e + (i - 1) * c + c, Size) - (e + (i - 1) * c))]

StartedEnd(e, c, new) ==
    IF new = 0 THEN e ELSE P!Shorter(e + (new - 1) * c + c, Size)

(* They tile what follows the streams that are open already. *)
LEMMA NewStreams ==
  ASSUME NEW e \in Nat, NEW c \in Nat \ {0}, NEW new \in Nat, NEW rr, NEW z,
         e < Size, new <= (Size - e + c - 1) \div c,
         rr = Started(e, c, new), z = StartedEnd(e, c, new)
  PROVE  /\ rr \in Seq(StreamRec) /\ Len(rr) = new /\ Tiles(rr, z)
         /\ \A i \in 1 .. new : Fresh(rr[i]) /\ rr[i].pages = 0
         /\ new > 0 => rr[1].offset = e
         /\ z \in 0 .. Size
<1> USE BufAssumption
<1>1. PICK left : left = (Size - e + c - 1) \div c
  OBVIOUS
<1>2. /\ left \in Nat /\ new <= left
      /\ \A i \in 1 .. left : e + (i - 1) * c \in Nat /\ e + (i - 1) * c < Size
  BY <1>1, ChunksLeft
<1> DEFINE F(i) == e + (i - 1) * c
           T(i) == P!Shorter(F(i) + c, Size)
<1>3. ASSUME NEW i \in 1 .. new
      PROVE  /\ F(i) \in Nat /\ F(i) < Size /\ T(i) \in Nat /\ T(i) <= Size
             /\ T(i) - F(i) \in Nat \ {0}
             /\ i # new => T(i) = F(i+1)
  <2>1. i \in 1 .. left
    BY <1>2
  <2>2. F(i) \in Nat /\ F(i) < Size
    BY <1>2, <2>1
  <2>3. i # new => F(i+1) \in Nat /\ F(i+1) < Size
    <3>1. i # new => i + 1 \in 1 .. left
      BY <1>2
    <3>2. QED
      BY <1>2, <3>1
  <2>4. F(i+1) = F(i) + c
    <3>1. (i + 1) - 1 = (i - 1) + 1 /\ i - 1 \in Nat
      OBVIOUS
    <3>2. ((i - 1) + 1) * c = (i - 1) * c + c
      BY <3>1
    <3>3. QED
      BY <3>1, <3>2
  <2> HIDE DEF F
  <2>5. QED
    BY <2>2, <2>3, <2>4 DEF P!Shorter
<1>4. \A i \in 1 .. new : rr[i] = P!newStream(F(i), T(i) - F(i))
  BY DEF Started
<1>5. F(1) = e
  OBVIOUS
<1>6. z = IF new = 0 THEN e ELSE T(new)
  BY DEF StartedEnd
<1>7. rr = [i \in 1 .. new |-> rr[i]]
  BY DEF Started
<1> HIDE DEF F, T
<1>8. ASSUME NEW i \in 1 .. new
      PROVE  /\ Fresh(rr[i]) /\ rr[i] \in StreamRec /\ rr[i].offset = F(i)
             /\ rr[i].size = T(i) - F(i) /\ rr[i].pages = 0
  <2>1. PICK f \in Nat, n \in Nat \ {0} : f = F(i) /\ n = T(i) - F(i)
    BY <1>3
  <2>2. rr[i] = P!newStream(f, n)
    BY <1>4, <2>1
  <2>3. PICK s : s = rr[i]
    OBVIOUS
  <2>4. Fresh(s) /\ s \in StreamRec /\ s.offset = f /\ s.size = n /\ s.pages = 0
    BY <2>2, <2>3, NewStream
  <2>5. QED
    BY <2>1, <2>3, <2>4
<1>9. rr \in Seq(StreamRec) /\ Len(rr) = new
  <2>1. \A i \in 1 .. new : rr[i] \in StreamRec
    BY <1>8
  <2>2. rr \in [1 .. new -> StreamRec]
    BY <1>7, <2>1
  <2>3. QED
    BY <2>2
<1>10. Tiles(rr, z)
  <2>1. ASSUME NEW i \in 1 .. new
        PROVE  rr[i].offset + rr[i].size = IF i = new THEN z ELSE rr[i+1].offset
    <3>1. rr[i].offset + rr[i].size = T(i)
      BY <1>3, <1>8
    <3>2. CASE i = new
      BY <1>6, <3>1, <3>2
    <3>3. CASE i # new
      <4>1. i + 1 \in 1 .. new
        BY <3>3
      <4>2. rr[i+1].offset = T(i)
        BY <1>3, <1>8, <3>3, <4>1
      <4>3. QED
        BY <3>1, <3>3, <4>2
    <3>4. QED
      BY <3>2, <3>3
  <2>2. QED
    BY <1>9, <2>1 DEF Tiles
<1>11. new > 0 => rr[1].offset = e
  BY <1>5, <1>8
<1>12. z \in 0 .. Size
  BY <1>3, <1>6
<1>13. QED
  BY <1>8, <1>9, <1>10, <1>11, <1>12

ParRec == [endStream : 0 .. Size, chunkSize : Nat \ {0}, pc : {"open", "read", "wait", "pop"}]

(* What has to be shown of the streams after a step. *)
LEMMA ParMade ==
  ASSUME par' \in ParRec, streams' \in Seq(StreamRec), opt' = opt, cancelled => cancelled',
         Len(streams') <= (IF IsParallel THEN opt.streams ELSE 0),
         Tiles(streams', par'.endStream),
         \A i \in 1 .. Len(streams') : StreamOK(streams'[i]) /\ streams'[i].size > 0,
         \A i \in 2 .. Len(streams') : streams'[i].readBytes = 0 /\ ~streams'[i].cancel
  PROVE  ParInv'
<1>1. ASSUME NEW i \in 1 .. Len(streams')
      PROVE  StreamOK(streams[i])'
  <2>1. PICK s : s = streams'[i]
    OBVIOUS
  <2>2. StreamOK(s)'
    BY <2>1, StreamKept
  <2>3. QED
    BY <2>1, <2>2
<1>2. \A i \in 1 .. Len(streams') : streams'[i].offset + streams'[i].size = NextStart(i)'
  BY DEF NextStart, Tiles
<1>3. IsParallel' <=> IsParallel
  BY DEF IsParallel
<1>4. QED
  BY <1>1, <1>2, <1>3 DEF ParInv, ParRec

(* What the invariant says of the streams. *)
LEMMA ParFacts ==
  ASSUME CInv
  PROVE  /\ par \in ParRec /\ par.endStream \in Nat /\ par.endStream <= Size
         /\ par.chunkSize \in Nat \ {0} /\ par.pc \in {"open", "read", "wait", "pop"}
         /\ streams \in Seq(StreamRec) /\ Len(streams) \in Nat
         /\ (streams = <<>> <=> Len(streams) = 0)
         /\ Tiles(streams, par.endStream)
         /\ \A i \in 1 .. Len(streams) : StreamOK(streams[i]) /\ streams[i].size > 0
         /\ \A i \in 2 .. Len(streams) : streams[i].readBytes = 0 /\ ~streams[i].cancel
         /\ IsParallel => Len(streams) <= opt.streams /\ opt.streams \in Nat /\ opt.streams > 1
<1>1. /\ par \in ParRec /\ streams \in Seq(StreamRec)
      /\ \A i \in 1 .. Len(streams) : StreamOK(streams[i]) /\ streams[i].size > 0
      /\ \A i \in 2 .. Len(streams) : streams[i].readBytes = 0 /\ ~streams[i].cancel
      /\ IsParallel => Len(streams) <= opt.streams
  BY DEF CInv, ParInv, ParRec
<1>2. Tiles(streams, par.endStream)
  BY DEF CInv, ParInv, NextStart, Tiles
<1>3. /\ par.endStream \in Nat /\ par.endStream <= Size
      /\ par.chunkSize \in Nat \ {0} /\ par.pc \in {"open", "read", "wait", "pop"}
  BY <1>1, BufAssumption DEF ParRec
<1>4. Len(streams) \in Nat /\ (streams = <<>> <=> Len(streams) = 0)
  BY <1>1
<1>5. IsParallel => opt.streams \in Nat /\ opt.streams > 1
  BY DEF CInv, OptInv, IsParallel
<1>6. QED
  BY <1>1, <1>2, <1>3, <1>4, <1>5

(* There may be none to start. *)
LEMMA StartedStreams ==
  ASSUME NEW e \in Nat, NEW c \in Nat \ {0}, NEW new \in Nat, NEW rr, NEW z, e <= Size,
         e < Size => new <= (Size - e + c - 1) \div c, ~(e < Size) => new = 0,
         rr = Started(e, c, new), z = StartedEnd(e, c, new)
  PROVE  /\ rr \in Seq(StreamRec) /\ Len(rr) = new /\ Tiles(rr, z)
         /\ \A i \in 1 .. new : Fresh(rr[i]) /\ rr[i].pages = 0
         /\ new > 0 => rr[1].offset = e
         /\ z \in 0 .. Size
         /\ new = 0 => z = e
<1>1. new = 0 => z = e
  BY DEF StartedEnd
<1>2. CASE e < Size
  BY <1>1, <1>2, NewStreams
<1>3. CASE ~(e < Size)
  <2>1. new = 0
    BY <1>3
  <2>2. rr = [i \in 1 .. 0 |-> rr[i]]
    BY <2>1 DEF Started
  <2>3. rr \in [1 .. 0 -> StreamRec]
    BY <2>2
  <2>4. rr \in Seq(StreamRec) /\ Len(rr) = 0
    BY <2>3
  <2>5. z = e /\ z \in 0 .. Size
    BY <1>1, <2>1, BufAssumption
  <2>6. QED
    BY <2>1, <2>4, <2>5 DEF Tiles
<1>4. QED
  BY <1>2, <1>3

(* _open: as many streams as are missing, up to the end of the object. *)
LEMMA ParOpens ==
  ASSUME CInv, IsParallel, P!ParOpen
  PROVE  \E rr \in Seq(StreamRec), z \in 0 .. Size :
           /\ streams' = streams \o rr
           /\ \A i \in 1 .. Len(rr) : Fresh(rr[i]) /\ rr[i].pages = 0
           /\ Tiles(rr, z) /\ (Len(rr) > 0 => rr[1].offset = par.endStream)
           /\ (Len(rr) = 0 => z = par.endStream)
           /\ Len(streams) + Len(rr) <= opt.streams
           /\ IF streams' = <<>>
              THEN /\ call' = [call EXCEPT !.ret = "eof"] /\ par' = par
                   /\ streams = <<>> /\ par.endStream = Size
              ELSE /\ par' = [par EXCEPT !.endStream = z, !.pc = "read"] /\ call' = call
<1>1. PICK e, c : e = par.endStream /\ c = par.chunkSize
  OBVIOUS
<1>2. PICK left : left = (Size - e + c - 1) \div c
  OBVIOUS
<1>3. PICK new : new = IF e >= Size THEN 0 ELSE P!Shorter(opt.streams - Len(streams), left)
  OBVIOUS
<1>4. PICK rr, z : rr = Started(e, c, new) /\ z = StartedEnd(e, c, new)
  OBVIOUS
<1>5. /\ streams' = streams \o rr
      /\ IF streams' = <<>>
         THEN call' = [call EXCEPT !.ret = "eof"] /\ par' = par
         ELSE par' = [par EXCEPT !.endStream = z, !.pc = "read"] /\ call' = call
  BY <1>1, <1>2, <1>3, <1>4 DEF P!ParOpen, Started, StartedEnd
<1>6. /\ e \in Nat /\ e <= Size /\ c \in Nat \ {0} /\ Len(streams) \in Nat
      /\ Len(streams) <= opt.streams /\ opt.streams \in Nat /\ opt.streams > 1
      /\ streams \in Seq(StreamRec) /\ (streams = <<>> <=> Len(streams) = 0) /\ Size \in Nat
  BY <1>1, ParFacts, BufAssumption
<1>7. e < Size => left \in Nat /\ left >= 1
  BY <1>2, <1>6, ChunksLeft
<1>8. /\ new \in Nat /\ Len(streams) + new <= opt.streams
      /\ (e < Size => new <= left)
      /\ (e < Size /\ Len(streams) = 0 => new > 0)
      /\ (~(e < Size) => new = 0)
  <2>1. PICK m \in Nat, n \in Nat : m = Len(streams) /\ n = opt.streams /\ m <= n /\ n > 1
    BY <1>6
  <2>2. new = IF e >= Size THEN 0 ELSE P!Shorter(n - m, left)
    BY <1>3, <2>1
  <2>3. e \in Nat /\ Size \in Nat
    BY <1>6
  <2>4. CASE e < Size
    <3>1. PICK l \in Nat : l = left /\ l >= 1
      BY <1>7, <2>4
    <3>2. ~(e >= Size)
      BY <2>3, <2>4
    <3>3. new = P!Shorter(n - m, l)
      BY <2>2, <3>1, <3>2
    <3>4. new = IF n - m < l THEN n - m ELSE l
      BY <3>3 DEF P!Shorter
    <3>5. new \in Nat /\ m + new <= n /\ new <= l /\ (m = 0 => new > 0)
      BY <2>1, <3>1, <3>4
    <3>6. QED
      BY <2>1, <2>4, <3>1, <3>5
  <2>5. CASE ~(e < Size)
    <3>1. new = 0
      BY <2>2, <2>3, <2>5
    <3>2. QED
      BY <2>1, <2>3, <2>5, <3>1
  <2>6. QED
    BY <2>4, <2>5
<1>9. /\ rr \in Seq(StreamRec) /\ Len(rr) = new /\ Tiles(rr, z)
      /\ \A i \in 1 .. new : Fresh(rr[i]) /\ rr[i].pages = 0
      /\ new > 0 => rr[1].offset = e
      /\ z \in 0 .. Size
      /\ new = 0 => z = e
  <2>1. e \in Nat /\ c \in Nat \ {0} /\ new \in Nat /\ e <= Size
    BY <1>6, <1>8
  <2>2. e < Size => new <= (Size - e + c - 1) \div c
    BY <1>2, <1>8
  <2>3. ~(e < Size) => new = 0
    BY <1>8
  <2>4. QED
    BY <1>4, <2>1, <2>2, <2>3, StartedStreams
<1>10. streams' = <<>> => streams = <<>> /\ e = Size
  <2>0. \A ss, qq \in Seq(StreamRec) : Len(ss \o qq) = Len(ss) + Len(qq)
    BY ConcatProperties
  <2>1. Len(streams') = Len(streams) + Len(rr)
    BY <1>5, <1>6, <1>9, <2>0
  <2>2. streams' = <<>> => Len(streams') = 0
    OBVIOUS
  <2>3. QED
    BY <1>6, <1>8, <1>9, <2>1, <2>2
<1>11. Len(streams) + Len(rr) <= opt.streams
  BY <1>8, <1>9
<1>12. QED
  BY Zenon, <1>1, <1>5, <1>9, <1>10, <1>11

(* What a step of the parallel reader leaves alone. *)
LEMMA ParallelRest ==
  ASSUME CInv, IsParallel, bufRest, opt' = opt, faults' = faults
  PROVE  IsParallel' /\ OptInv' /\ SeqInv'
<1>1. IsParallel' /\ OptInv'
  BY DEF IsParallel, CInv, OptInv
<1>2. QED
  BY <1>1 DEF SeqInv

(* What has to be shown of the Read. *)
LEMMA ParallelCall ==
  ASSUME CInv, bufRest, faults' = faults, call.ret = "run",
         call' \in [want : Nat, p : Seq(Nat),
                    ret : {"idle", "run", "ok", "eof", "error", "abandoned"}],
         call'.ret # "idle", Len(call'.p) <= call'.want, Run(call'.p, in.pos),
         call'.ret = "eof" => Goes' = Size
  PROVE  CallInv' /\ EofInv'
<1>1. /\ in' = in /\ fbuf' = fbuf /\ fpc' = fpc /\ dpc' = dpc /\ ready' = ready
      /\ cur' = cur /\ end' = end /\ offset' = offset
  BY BufRestVars
<1>2. fpc = "read"
  BY RunningOpen
<1>3. Run(call.p, in.pos)'
  BY <1>1 DEF Run
<1>4. CallInv'
  BY <1>1, <1>2, <1>3 DEF CallInv
<1>5. EofInv'
  BY <1>1 DEF CInv, EofInv, Ended, AtEnd
<1>6. QED
  BY <1>4, <1>5

(* Streams that have the pages they had. *)
LEMMA HeldKept ==
  ASSUME CInv, bufRest, UNCHANGED poolVars, Pages' = Pages,
         dpc # "done" \/ streams' = streams
  PROVE  HeldInv'
<1>1. dpc' = dpc /\ ready' = ready /\ cur' = cur /\ Held' = Held
  BY BufRestVars
<1>2. inUse' = inUse
  BY DEF poolVars
<1>3. QED
  BY <1>1, <1>2 DEF CInv, HeldInv, Drained

LEMMA ParOpenKeeps ==
  ASSUME CInv, IsParallel, P!ParOpen, bufRest
  PROVE  /\ CallInv' /\ ParInv' /\ HeadInv' /\ EofInv' /\ HeldInv'
         /\ opt' = opt /\ faults' = faults /\ cancelled' = cancelled /\ UNCHANGED poolVars
<1>1. /\ call.ret = "run" /\ par.pc = "open" /\ opt' = opt /\ faults' = faults
      /\ cancelled' = cancelled /\ UNCHANGED poolVars
  BY DEF P!ParOpen, P!Running, P!poolVars, poolVars
<1>2. PICK rr \in Seq(StreamRec), z \in 0 .. Size :
           /\ streams' = streams \o rr
           /\ \A i \in 1 .. Len(rr) : Fresh(rr[i]) /\ rr[i].pages = 0
           /\ Tiles(rr, z) /\ (Len(rr) > 0 => rr[1].offset = par.endStream)
           /\ (Len(rr) = 0 => z = par.endStream)
           /\ Len(streams) + Len(rr) <= opt.streams
           /\ IF streams' = <<>>
              THEN /\ call' = [call EXCEPT !.ret = "eof"] /\ par' = par
                   /\ streams = <<>> /\ par.endStream = Size
              ELSE /\ par' = [par EXCEPT !.endStream = z, !.pc = "read"] /\ call' = call
  BY ParOpens, Zenon
<1>3. /\ in' = in /\ fpc' = fpc /\ dpc' = dpc
  BY BufRestVars
<1>4. in.open /\ dpc # "rawclose" /\ dpc # "done"
  BY <1>1, RunningOpen
<1>5. Goes = IF streams = <<>> THEN par.endStream
                               ELSE streams[1].offset + streams[1].readBytes
  BY <1>4 DEF CInv, HeadInv
<1>6. /\ call'.p = call.p /\ call'.want = call.want /\ call'.ret # "idle"
      /\ call' \in [want : Nat, p : Seq(Nat),
                    ret : {"idle", "run", "ok", "eof", "error", "abandoned"}]
      /\ (call'.ret = "eof" => streams' = <<>>)
  <2>1. CASE streams' = <<>>
    BY <1>2, <2>1, CallFacts
  <2>2. CASE streams' # <<>>
    BY <1>1, <1>2, <2>2, CallFacts
  <2>3. QED
    BY <2>1, <2>2
<1>7. Goes' = Goes
  BY <1>3, <1>6 DEF Goes
<1>8. CallInv' /\ EofInv'
  <2>1. call'.ret = "eof" => Goes' = Size
    BY <1>2, <1>5, <1>6, <1>7
  <2>2. Len(call'.p) <= call'.want /\ Run(call'.p, in.pos)
    BY <1>6 DEF CInv, CallInv
  <2>3. QED
    BY <1>1, <1>6, <2>1, <2>2, ParallelCall
<1>9. /\ streams \in Seq(StreamRec) /\ Len(streams) \in Nat
      /\ (streams = <<>> <=> Len(streams) = 0) /\ Tiles(streams, par.endStream)
      /\ \A i \in 1 .. Len(streams) : StreamOK(streams[i]) /\ streams[i].size > 0
      /\ \A i \in 2 .. Len(streams) : streams[i].readBytes = 0 /\ ~streams[i].cancel
      /\ par \in ParRec
  BY ParFacts
<1>10. PICK tt : tt = streams'
  OBVIOUS
<1>11. /\ tt = streams \o rr /\ tt \in Seq(StreamRec) /\ Len(tt) = Len(streams) + Len(rr)
       /\ \A i \in 1 .. Len(streams) + Len(rr) :
             tt[i] = IF i <= Len(streams) THEN streams[i] ELSE rr[i - Len(streams)]
       /\ Len(rr) \in Nat
  BY <1>2, <1>9, <1>10, ConcatProperties
<1>12. HeldInv'
  <2>1. PICK ss \in Seq(StreamRec) : ss = streams
    BY <1>9
  <2>2. PagesOf(ss \o rr) = PagesOf(ss)
    BY <1>2, PagesConcat
  <2>3. Pages = PagesOf(ss) /\ Pages' = PagesOf(tt)
    BY <1>10, <2>1 DEF Pages, PagesOf
  <2>4. Pages' = Pages
    BY <1>11, <2>1, <2>2, <2>3
  <2>5. QED
    BY <1>1, <1>4, <2>4, HeldKept
<1>13. CASE streams' = <<>>
  <2>1. par' = par /\ streams' = streams
    BY <1>2, <1>13
  <2>2. ParInv'
    BY <1>1, <2>1, ParKept DEF CInv
  <2>3. HeadInv'
    BY <1>1, <1>5, <1>7, <1>13, <2>1 DEF HeadInv
  <2>4. QED
    BY <1>1, <1>8, <1>12, <2>2, <2>3
<1>14. CASE streams' # <<>>
  <2>1. PICK q : q = par' /\ q = [par EXCEPT !.endStream = z, !.pc = "read"]
    BY <1>2, <1>14
  <2>2. q \in ParRec /\ q.endStream = z /\ q.pc = "read"
    BY <1>9, <2>1 DEF ParRec
  <2>3. Tiles(tt, z)
    BY <1>2, <1>9, <1>11, TilesConcat
  <2>4. ASSUME NEW i \in 1 .. Len(tt)
        PROVE  /\ StreamOK(tt[i]) /\ tt[i].size > 0
               /\ i # 1 => tt[i].readBytes = 0 /\ ~tt[i].cancel
    <3>1. CASE i <= Len(streams)
      <4>1. tt[i] = streams[i] /\ i \in 1 .. Len(streams)
        BY <1>9, <1>11, <3>1
      <4>2. i # 1 => i \in 2 .. Len(streams)
        BY <1>9, <4>1
      <4>3. QED
        BY <1>9, <4>1, <4>2
    <3>2. CASE ~(i <= Len(streams))
      <4>1. tt[i] = rr[i - Len(streams)] /\ i - Len(streams) \in 1 .. Len(rr)
        BY <1>9, <1>11, <3>2
      <4>2. Fresh(tt[i])
        BY <1>2, <4>1
      <4>3. QED
        BY <4>2 DEF Fresh
    <3>3. QED
      BY <3>1, <3>2
  <2>5. \A i \in 2 .. Len(tt) : tt[i].readBytes = 0 /\ ~tt[i].cancel
    BY <1>11, <2>4
  <2>6. Len(tt) <= opt.streams
    BY <1>2, <1>11
  <2>7. ParInv'
    BY <1>1, <1>10, <1>11, <2>1, <2>2, <2>3, <2>4, <2>5, <2>6, ParMade
  <2>8. call' = call /\ call'.ret = "run"
    BY <1>1, <1>2, <1>14
  <2>9. /\ tt[1].readBytes < tt[1].size /\ Goes = tt[1].offset + tt[1].readBytes
        /\ ~tt[1].cancel
    <3>1. CASE streams = <<>>
      <4>1. Len(streams) = 0 /\ Len(tt) # 0
        BY <1>9, <1>10, <1>11, <1>14, <3>1
      <4>2. tt[1] = rr[1] /\ 1 \in 1 .. Len(rr)
        BY <1>11, <4>1
      <4>3. Fresh(tt[1]) /\ tt[1].offset = par.endStream
        BY <1>2, <4>2
      <4>4. BytesOK(tt[1]) /\ tt[1].size > 0 /\ tt[1].readBytes = 0 /\ ~tt[1].cancel
        BY <4>3 DEF Fresh, StreamOK
      <4>5. tt[1].offset \in Nat /\ tt[1].size \in Nat
        BY <4>4, BytesFacts
      <4>6. QED
        BY <1>5, <3>1, <4>3, <4>4, <4>5
    <3>2. CASE streams # <<>>
      <4>1. tt[1] = streams[1]
        BY <1>9, <1>11, <3>2
      <4>2. QED
        BY <1>1, <1>4, <1>5, <3>2, <4>1 DEF CInv, HeadInv
    <3>3. QED
      BY <3>1, <3>2
  <2>10. HeadInv'
    BY <1>1, <1>7, <1>10, <1>14, <2>1, <2>2, <2>8, <2>9 DEF HeadInv, IsParallel
  <2>11. QED
    BY <1>1, <1>8, <1>12, <2>7, <2>10
<1>15. QED
  BY <1>13, <1>14

(* Bytes of a stream are read, and perhaps it is cancelled. *)
Took(s, n, b) == [s EXCEPT !.readBytes = @ + n, !.cancel = b]

LEMMA ReadOn ==
  ASSUME NEW s, StreamOK(s), NEW n \in Nat, s.readBytes + n <= Len(s.data),
         NEW b \in BOOLEAN, s.cancel => b, NEW t, t = Took(s, n, b)
  PROVE  /\ StreamOK(t) /\ t.offset = s.offset /\ t.size = s.size /\ t.pages = s.pages
         /\ t.readBytes = s.readBytes + n /\ t.cancel = b
<1>1. s \in StreamRec /\ BytesOK(s) /\ GoesOn(s)
  BY DEF StreamOK, BytesOK
<1>2. s.readBytes \in Nat /\ s.readBytes + n \in Nat
  BY <1>1, StreamFields
<1>3. /\ t.offset = s.offset /\ t.size = s.size /\ t.pages = s.pages /\ t.data = s.data
      /\ t.page = s.page /\ t.hoff = s.hoff /\ t.tries = s.tries /\ t.body = s.body
      /\ t.g = s.g /\ t.err = s.err /\ t.readBytes = s.readBytes + n /\ t.cancel = b
      /\ t.short = s.short
  BY <1>1 DEF StreamRec, Took
<1>4. t \in StreamRec
  BY <1>1, <1>2 DEF StreamRec, Took
<1>5. BytesOK(t)
  BY <1>1, <1>3, <1>4 DEF BytesOK
<1>6. P!Room(t) = P!Room(s)
  BY <1>3 DEF P!Room
<1>7. GoesOn(t)
  BY <1>1, <1>3, <1>6 DEF GoesOn
<1>8. QED
  BY <1>3, <1>5, <1>7 DEF StreamOK

(* Something happens to the first stream that leaves its chunk alone. *)
LEMMA HeadChanged ==
  ASSUME CInv, streams # <<>>, NEW t, StreamOK(t), t.offset = streams[1].offset,
         t.size = streams[1].size, t.pages = streams[1].pages,
         streams' = [streams EXCEPT ![1] = t], par' \in ParRec,
         par'.endStream = par.endStream, opt' = opt, cancelled' = cancelled
  PROVE  /\ ParInv' /\ Pages' = Pages /\ streams' # <<>> /\ streams'[1] = t
<1>1. /\ streams \in Seq(StreamRec) /\ Len(streams) \in Nat /\ Len(streams) # 0
      /\ Tiles(streams, par.endStream)
      /\ \A i \in 1 .. Len(streams) : StreamOK(streams[i]) /\ streams[i].size > 0
      /\ \A i \in 2 .. Len(streams) : streams[i].readBytes = 0 /\ ~streams[i].cancel
      /\ Len(streams) <= (IF IsParallel THEN opt.streams ELSE 0)
  BY ParFacts DEF CInv, ParInv
<1>2. t \in StreamRec
  BY DEF StreamOK, BytesOK
<1>3. PICK ss \in Seq(StreamRec) : \E tt : tt = streams' /\ ss = streams
  BY <1>1
<1>3a. PICK tt : tt = streams' /\ ss = streams
  BY <1>3
<1>4. /\ tt \in Seq(StreamRec) /\ Len(tt) = Len(ss) /\ tt[1] = t
      /\ \A i \in 1 .. Len(ss) : i # 1 => tt[i] = ss[i]
  BY <1>1, <1>2, <1>3a
<1>5. /\ Len(tt) \in Nat /\ Len(tt) # 0 /\ 1 \in 1 .. Len(tt) /\ tt # <<>>
  BY <1>1, <1>3a, <1>4
<1>6. \A i \in 1 .. Len(tt) : tt[i].offset = ss[i].offset /\ tt[i].size = ss[i].size
                              /\ tt[i].pages = ss[i].pages
  BY <1>3a, <1>4
<1>7. Tiles(tt, par'.endStream)
  <2>1. ASSUME NEW i \in 1 .. Len(tt)
        PROVE  tt[i].offset + tt[i].size
                 = IF i = Len(tt) THEN par'.endStream ELSE tt[i+1].offset
    <3>1. ss[i].offset + ss[i].size = IF i = Len(tt) THEN par'.endStream ELSE ss[i+1].offset
      <4>1. Tiles(ss, par'.endStream) /\ i \in 1 .. Len(ss) /\ Len(tt) = Len(ss)
        BY <1>1, <1>3a, <1>4
      <4>2. QED
        BY <4>1 DEF Tiles
    <3>2. i # Len(tt) => i + 1 \in 1 .. Len(tt)
      BY <1>5
    <3>3. QED
      BY <1>6, <3>1, <3>2
  <2>2. QED
    BY <2>1 DEF Tiles
<1>8. \A i \in 1 .. Len(tt) : StreamOK(tt[i]) /\ tt[i].size > 0
  BY <1>1, <1>3a, <1>4, <1>5
<1>9. \A i \in 2 .. Len(tt) : tt[i].readBytes = 0 /\ ~tt[i].cancel
  BY <1>1, <1>3a, <1>4
<1>10. Len(tt) <= (IF IsParallel THEN opt.streams ELSE 0)
  BY <1>1, <1>3a, <1>4
<1>11. ParInv'
  BY <1>3a, <1>4, <1>7, <1>8, <1>9, <1>10, ParMade
<1>12. Pages = PagesOf(ss) /\ Pages' = PagesOf(tt)
  BY <1>3a DEF Pages, PagesOf
<1>13. PagesOf(tt) = PagesOf(ss)
  BY <1>4, <1>6, PagesSame
<1>14. QED
  BY <1>3a, <1>4, <1>5, <1>11, <1>12, <1>13

(* stream.read takes the bytes that follow. *)
LEMMA ParReadKeeps ==
  ASSUME CInv, IsParallel, P!ParRead, bufRest
  PROVE  /\ CallInv' /\ ParInv' /\ HeadInv' /\ EofInv' /\ HeldInv'
         /\ opt' = opt /\ faults' = faults /\ cancelled' = cancelled /\ UNCHANGED poolVars
<1>1. /\ call.ret = "run" /\ par.pc = "read" /\ opt' = opt /\ faults' = faults
      /\ cancelled' = cancelled /\ UNCHANGED poolVars
  BY DEF P!ParRead, P!Running, P!poolVars, poolVars
<1>2. /\ in' = in /\ fpc' = fpc /\ dpc' = dpc
  BY BufRestVars
<1>3. in.open /\ dpc # "rawclose" /\ dpc # "done"
  BY <1>1, RunningOpen
<1>4. streams # <<>> /\ ~streams[1].cancel /\ streams[1].readBytes < streams[1].size
      /\ Goes = streams[1].offset + streams[1].readBytes
  BY <1>1, <1>3 DEF CInv, HeadInv
<1>5. PICK s : s = streams[1]
  OBVIOUS
<1>6. /\ StreamOK(s) /\ BytesOK(s) /\ s \in StreamRec /\ s.data \in Seq(Nat)
      /\ s.offset \in Nat /\ s.size \in Nat /\ s.readBytes \in Nat /\ Run(s.data, s.offset)
      /\ s.readBytes <= Len(s.data) /\ Len(s.data) <= s.size /\ Len(s.data) \in Nat
  <2>1. 1 \in 1 .. Len(streams)
    BY <1>4, ParFacts
  <2>2. StreamOK(s)
    BY <1>5, <2>1, ParFacts
  <2>3. BytesOK(s)
    BY <2>2 DEF StreamOK
  <2>4. s \in StreamRec /\ Run(s.data, s.offset)
    BY <2>3 DEF BytesOK
  <2>5. QED
    BY <2>2, <2>3, <2>4, BytesFacts, StreamFields
<1>7. /\ call.want \in Nat /\ call.p \in Seq(Nat) /\ Len(call.p) \in Nat
      /\ Len(call.p) <= call.want /\ Run(call.p, in.pos) /\ in.pos \in Nat
      /\ call \in [want : Nat, p : Seq(Nat),
                   ret : {"idle", "run", "ok", "eof", "error", "abandoned"}]
  BY CallFacts DEF CInv, CallInv
<1>8. PICK n : n = P!Shorter(P!Asked, Len(s.data) - s.readBytes)
  OBVIOUS
<1>9. PICK r : r = SubSeq(s.data, s.readBytes + 1, s.readBytes + n)
  OBVIOUS
<1>10. PICK p : p = call.p \o r
  OBVIOUS
<1>11. PICK b : b = (s.readBytes + n >= s.size)
  OBVIOUS
<1>12. PICK f : f = (Len(p) = call.want)
  OBVIOUS
<1>13. PICK t : t = Took(s, n, b)
  OBVIOUS
<1>14. /\ call' = [call EXCEPT !.p = p, !.ret = IF f /\ ~b THEN "ok" ELSE "run"]
       /\ streams' = [streams EXCEPT ![1].readBytes = @ + n, ![1].cancel = b]
       /\ par' = [par EXCEPT !.pc = CASE b -> "pop" [] f /\ ~b -> "open" [] OTHER -> "wait"]
  BY Zenon, <1>5, <1>8, <1>9, <1>10, <1>11, <1>12 DEF P!ParRead
<1>15. streams' = [streams EXCEPT ![1] = t]
  BY <1>4, <1>5, <1>13, <1>14, ParFacts DEF Took
<1>16. n \in Nat /\ s.readBytes + n <= Len(s.data) /\ Len(call.p) + n <= call.want
  <2>1. PICK d \in Nat, a \in Nat : d = Len(s.data) - s.readBytes /\ a = call.want - Len(call.p)
    BY <1>6, <1>7
  <2>2. n = IF a < d THEN a ELSE d
    BY <1>8, <2>1 DEF P!Shorter, P!Asked
  <2>3. n \in Nat /\ n <= a /\ n <= d
    BY <2>2
  <2>4. QED
    BY <1>6, <1>7, <2>1, <2>3
<1>17. r \in Seq(Nat) /\ Len(r) = n /\ Run(r, s.offset + s.readBytes)
  BY <1>6, <1>9, <1>16, RunSubSeq
<1>18. p \in Seq(Nat) /\ Len(p) = Len(call.p) + n /\ Run(p, in.pos)
  <2>1. Run(r, in.pos + Len(call.p))
    BY <1>4, <1>5, <1>17 DEF Goes
  <2>2. QED
    BY <1>7, <1>10, <1>17, <2>1, RunConcat
<1>19. b \in BOOLEAN /\ f \in BOOLEAN
  BY <1>11, <1>12
<1>20. /\ StreamOK(t) /\ t.offset = s.offset /\ t.size = s.size /\ t.pages = s.pages
       /\ t.readBytes = s.readBytes + n /\ t.cancel = b
  <2>1. s.cancel => b
    BY <1>4, <1>5
  <2>2. QED
    BY <1>6, <1>13, <1>16, <1>19, <2>1, ReadOn
<1>21. /\ call'.p = p /\ call'.want = call.want
       /\ call'.ret = (IF f /\ ~b THEN "ok" ELSE "run")
       /\ call' \in [want : Nat, p : Seq(Nat),
                     ret : {"idle", "run", "ok", "eof", "error", "abandoned"}]
  BY <1>7, <1>14, <1>18
<1>22. CallInv' /\ EofInv'
  BY <1>1, <1>7, <1>16, <1>18, <1>21, ParallelCall
<1>23. PICK q : q = par' /\ q = [par EXCEPT !.pc = CASE b -> "pop" [] f /\ ~b -> "open"
                                                     [] OTHER -> "wait"]
  BY <1>14
<1>24. /\ q \in ParRec /\ q.endStream = par.endStream
       /\ q.pc = IF b THEN "pop" ELSE IF f THEN "open" ELSE "wait"
  <2>1. par \in ParRec
    BY ParFacts
  <2>2. PICK c \in {"open", "read", "wait", "pop"} :
           /\ q = [par EXCEPT !.pc = c]
           /\ c = IF b THEN "pop" ELSE IF f THEN "open" ELSE "wait"
    BY <1>19, <1>23
  <2>3. QED
    BY <2>1, <2>2 DEF ParRec
<1>25. ParInv' /\ Pages' = Pages /\ streams' # <<>> /\ streams'[1] = t
  BY <1>1, <1>4, <1>5, <1>15, <1>20, <1>23, <1>24, HeadChanged
<1>26. HeldInv'
  BY <1>1, <1>3, <1>25, HeldKept
<1>27. Goes' = t.offset + t.readBytes
  <2>1. Goes' = in.pos + Len(p)
    BY <1>2, <1>21 DEF Goes
  <2>2. PICK k \in Nat : k = Len(call.p) /\ Len(p) = k + n
    BY <1>7, <1>18
  <2>3. in.pos + k = s.offset + s.readBytes
    BY <1>4, <1>5, <2>2 DEF Goes
  <2>4. in.pos + (k + n) = s.offset + (s.readBytes + n)
    <3>1. PICK o \in Nat, a \in Nat : o = s.offset /\ a = s.readBytes
      BY <1>6
    <3>2. in.pos \in Nat /\ n \in Nat /\ in.pos + k = o + a
      BY <1>7, <1>16, <2>3, <3>1
    <3>3. in.pos + (k + n) = o + (a + n)
      BY <3>2
    <3>4. QED
      BY <3>1, <3>3
  <2>5. QED
    BY <1>20, <2>1, <2>2, <2>4
<1>28. HeadInv'
  <2>0. s.readBytes + n \in Nat /\ s.size \in Nat /\ s.readBytes + n <= s.size
    <3>1. PICK d \in Nat : d = Len(s.data)
      BY <1>6
    <3>2. PICK a \in Nat, z \in Nat : a = s.readBytes /\ z = s.size
      BY <1>6
    <3>3. a + n <= d /\ d <= z /\ n \in Nat
      BY <1>6, <1>16, <3>1, <3>2
    <3>4. a + n \in Nat /\ a + n <= z
      BY <3>3
    <3>5. QED
      BY <3>2, <3>4
  <2>1. b => t.readBytes = t.size
    <3>1. b => s.readBytes + n >= s.size
      BY <1>11
    <3>2. QED
      BY <1>20, <2>0, <3>1
  <2>2. ~b => t.readBytes < t.size
    <3>1. ~b => ~(s.readBytes + n >= s.size)
      BY <1>11
    <3>2. QED
      BY <1>20, <2>0, <3>1
  <2>3. q.pc # "open" => call'.ret = "run"
    BY <1>21, <1>24
  <2>4. QED
    BY <1>1, <1>20, <1>23, <1>24, <1>25, <1>27, <2>1, <2>2, <2>3 DEF HeadInv, IsParallel
<1>29. QED
  BY <1>1, <1>22, <1>25, <1>26, <1>28

(* WaitWrite touches no stream. *)
LEMMA ParWaitKeeps ==
  ASSUME CInv, IsParallel, P!ParWait, bufRest
  PROVE  /\ CallInv' /\ ParInv' /\ HeadInv' /\ EofInv' /\ HeldInv'
         /\ opt' = opt /\ faults' = faults /\ cancelled' = cancelled /\ UNCHANGED poolVars
<1>1. /\ call.ret = "run" /\ par.pc = "wait" /\ opt' = opt /\ faults' = faults
      /\ cancelled' = cancelled /\ streams' = streams /\ UNCHANGED poolVars
  BY DEF P!ParWait, P!Running, P!poolVars, poolVars
<1>2. /\ in' = in /\ fpc' = fpc /\ dpc' = dpc
  BY BufRestVars
<1>3. in.open /\ dpc # "rawclose" /\ dpc # "done"
  BY <1>1, RunningOpen
<1>4. \/ call' = call /\ par' = [par EXCEPT !.pc = "read"]
      \/ call' = [call EXCEPT !.ret = "error"] /\ par' = [par EXCEPT !.pc = "open"]
  BY DEF P!ParWait
<1>5. PICK q : q = par'
  OBVIOUS
<1>6. /\ q \in ParRec /\ q.endStream = par.endStream /\ q.pc \in {"open", "read"}
      /\ q.pc # "open" => call' = call
  BY <1>4, <1>5, ParFacts DEF ParRec
<1>7. /\ call'.p = call.p /\ call'.want = call.want /\ call'.ret \in {"run", "error"}
      /\ call' \in [want : Nat, p : Seq(Nat),
                    ret : {"idle", "run", "ok", "eof", "error", "abandoned"}]
  BY <1>1, <1>4, CallFacts
<1>8. CallInv' /\ EofInv'
  <2>1. Len(call'.p) <= call'.want /\ Run(call'.p, in.pos)
    BY <1>7 DEF CInv, CallInv
  <2>2. QED
    BY <1>1, <1>7, <2>1, ParallelCall
<1>9. ParInv'
  <2>1. Len(streams) <= (IF IsParallel THEN opt.streams ELSE 0)
    BY DEF CInv, ParInv
  <2>2. QED
    BY <1>1, <1>5, <1>6, <2>1, ParFacts, ParMade
<1>10. Goes' = Goes
  BY <1>2, <1>7 DEF Goes
<1>11. HeadInv'
  <2>1. streams # <<>> /\ streams[1].readBytes < streams[1].size /\ ~streams[1].cancel
        /\ Goes = streams[1].offset + streams[1].readBytes
    BY <1>1, <1>3 DEF CInv, HeadInv
  <2>2. QED
    BY <1>1, <1>5, <1>6, <1>10, <2>1 DEF HeadInv, IsParallel
<1>12. HeldInv'
  <2>1. Pages' = Pages
    BY <1>1 DEF Pages
  <2>2. QED
    BY <1>1, <2>1, HeldKept
<1>13. QED
  BY <1>1, <1>8, <1>9, <1>11, <1>12

(* stream.close: the first stream goes, and its pages with it. *)
LEMMA HeadClosed ==
  ASSUME CInv, P!CloseHead, bufRest, par' \in ParRec, par'.endStream = par.endStream,
         opt' = opt, cancelled' = cancelled, dpc # "done"
  PROVE  /\ ParInv' /\ HeldInv' /\ \E n \in 0 .. inUse - Held : PutN(n)
         /\ streams # <<>> /\ streams[1].g = "done"
         /\ streams[1].offset + streams[1].size
              = IF streams' = <<>> THEN par.endStream ELSE streams'[1].offset
         /\ streams' # <<>> => /\ streams'[1].readBytes = 0 /\ ~streams'[1].cancel
                               /\ streams'[1].size > 0 /\ streams'[1].offset \in Nat
<1>1. /\ streams # <<>> /\ streams[1].g = "done" /\ streams' = Tail(streams)
      /\ PutN(streams[1].pages)
  BY OnePool DEF P!CloseHead
<1>2. /\ streams \in Seq(StreamRec) /\ Len(streams) \in Nat
      /\ Tiles(streams, par.endStream)
      /\ \A i \in 1 .. Len(streams) : StreamOK(streams[i]) /\ streams[i].size > 0
      /\ \A i \in 2 .. Len(streams) : streams[i].readBytes = 0 /\ ~streams[i].cancel
      /\ Len(streams) <= (IF IsParallel THEN opt.streams ELSE 0)
  BY ParFacts DEF CInv, ParInv
<1>3. PICK ss \in Seq(StreamRec) : ss = streams
  BY <1>2
<1>4. PICK tt : tt = streams' /\ tt = Tail(ss)
  BY <1>1, <1>3
<1>5. /\ Tiles(tt, par.endStream) /\ tt \in Seq(StreamRec)
      /\ Len(tt) = Len(ss) - 1 /\ Len(ss) >= 1
      /\ \A i \in 1 .. Len(ss) - 1 : tt[i] = ss[i+1]
      /\ ss[1].offset + ss[1].size = IF tt = <<>> THEN par.endStream ELSE tt[1].offset
  BY <1>1, <1>2, <1>3, <1>4, TilesTail
<1>6. ASSUME NEW i \in 1 .. Len(tt)
      PROVE  StreamOK(tt[i]) /\ tt[i].size > 0 /\ tt[i].readBytes = 0 /\ ~tt[i].cancel
  <2>1. tt[i] = ss[i+1] /\ i + 1 \in 1 .. Len(ss) /\ i + 1 \in 2 .. Len(ss)
    BY <1>2, <1>3, <1>5
  <2>2. QED
    BY <1>2, <1>3, <2>1
<1>7. \A i \in 2 .. Len(tt) : tt[i].readBytes = 0 /\ ~tt[i].cancel
  BY <1>5, <1>6
<1>8. Len(tt) <= (IF IsParallel THEN opt.streams ELSE 0)
  <2>1. PICK m : m = IF IsParallel THEN opt.streams ELSE 0
    OBVIOUS
  <2>2. m \in Int
    BY <2>1 DEF CInv, OptInv
  <2>3. Len(tt) <= m
    BY <1>2, <1>3, <1>5, <2>1, <2>2
  <2>4. QED
    BY <2>1, <2>3
<1>9. ParInv'
  BY <1>4, <1>5, <1>6, <1>7, <1>8, ParMade
<1>10. /\ IsFiniteSet(PagesOf(tt)) /\ Cardinality(PagesOf(tt)) \in Nat /\ ss[1].pages \in Nat
       /\ Cardinality(PagesOf(ss)) = ss[1].pages + Cardinality(PagesOf(tt))
  <2>1. IsFiniteSet(PagesOf(ss))
    BY <1>3 DEF CInv, HeldInv, Pages, PagesOf
  <2>2. QED
    BY <1>1, <1>3, <1>4, <2>1, PagesTail
<1>11. Pages = PagesOf(ss) /\ Pages' = PagesOf(tt)
  BY <1>3, <1>4 DEF Pages, PagesOf
<1>12. inUse = Held + Cardinality(Pages) /\ Held \in Nat /\ inUse \in Nat
  BY CallFacts DEF CInv, HeldInv
<1>13. PICK n \in Nat, c \in Nat : n = streams[1].pages /\ c = Cardinality(PagesOf(tt))
  BY <1>3, <1>10
<1>14. inUse = Held + (n + c) /\ inUse' = inUse - n
  BY <1>1, <1>3, <1>10, <1>11, <1>12, <1>13 DEF PutN
<1>15. n \in 0 .. inUse - Held /\ inUse' = Held + c
  BY <1>12, <1>14
<1>16. dpc' = dpc /\ ready' = ready /\ cur' = cur /\ Held' = Held
  BY BufRestVars
<1>17. HeldInv'
  BY <1>10, <1>11, <1>13, <1>15, <1>16 DEF CInv, HeldInv, Drained
<1>18. \E k \in 0 .. inUse - Held : PutN(k)
  BY <1>1, <1>13, <1>15
<1>19. streams' # <<>> => /\ streams'[1].readBytes = 0 /\ ~streams'[1].cancel
                          /\ streams'[1].size > 0 /\ streams'[1].offset \in Nat
  <2>1. tt # <<>> => 1 \in 1 .. Len(tt)
    BY <1>5
  <2>2. tt # <<>> => tt[1] \in StreamRec
    BY <1>5, <2>1
  <2>3. QED
    BY <1>4, <1>6, <2>1, <2>2, StreamFields
<1>20. QED
  BY <1>1, <1>3, <1>4, <1>5, <1>9, <1>17, <1>18, <1>19

(* Read pops a stream that it read to its end. *)
LEMMA ParPopKeeps ==
  ASSUME CInv, IsParallel, P!ParPop, bufRest
  PROVE  /\ CallInv' /\ ParInv' /\ HeadInv' /\ EofInv' /\ HeldInv'
         /\ opt' = opt /\ faults' = faults /\ cancelled' = cancelled
         /\ \E n \in 0 .. inUse - Held : PutN(n)
<1>1. /\ call.ret = "run" /\ par.pc = "pop" /\ opt' = opt /\ faults' = faults
      /\ cancelled' = cancelled /\ P!CloseHead /\ par' = [par EXCEPT !.pc = "open"]
  BY DEF P!ParPop, P!Running
<1>2. /\ in' = in /\ fpc' = fpc /\ dpc' = dpc
  BY BufRestVars
<1>3. in.open /\ dpc # "rawclose" /\ dpc # "done"
  BY <1>1, RunningOpen
<1>4. PICK q : q = par' /\ q = [par EXCEPT !.pc = "open"]
  BY <1>1
<1>5. q \in ParRec /\ q.endStream = par.endStream /\ q.pc = "open"
  BY <1>4, ParFacts DEF ParRec
<1>6. /\ ParInv' /\ HeldInv' /\ \E n \in 0 .. inUse - Held : PutN(n)
      /\ streams # <<>>
      /\ streams[1].offset + streams[1].size
           = IF streams' = <<>> THEN par.endStream ELSE streams'[1].offset
      /\ streams' # <<>> => /\ streams'[1].readBytes = 0 /\ ~streams'[1].cancel
                            /\ streams'[1].size > 0 /\ streams'[1].offset \in Nat
  BY <1>1, <1>3, <1>4, <1>5, HeadClosed
<1>7. PICK r \in {"abandoned", "error", "ok", "run"} : call' = [call EXCEPT !.ret = r]
  <2>1. PICK r : call' = [call EXCEPT !.ret = r]
                 /\ r = CASE streams[1].err = "canceled" -> "abandoned"
                          [] streams[1].err = "error" -> "error"
                          [] OTHER -> IF P!Asked = 0 THEN "ok" ELSE "run"
    BY DEF P!ParPop
  <2>2. r \in {"abandoned", "error", "ok", "run"}
    BY <2>1
  <2>3. QED
    BY <2>1, <2>2
<1>8. /\ call'.p = call.p /\ call'.want = call.want /\ call'.ret = r
      /\ call' \in [want : Nat, p : Seq(Nat),
                    ret : {"idle", "run", "ok", "eof", "error", "abandoned"}]
  BY <1>7, CallFacts
<1>9. CallInv' /\ EofInv'
  <2>1. Len(call'.p) <= call'.want /\ Run(call'.p, in.pos)
    BY <1>8 DEF CInv, CallInv
  <2>2. QED
    BY <1>1, <1>8, <2>1, ParallelCall
<1>10. Goes' = Goes
  BY <1>2, <1>8 DEF Goes
<1>11. Goes = streams[1].offset + streams[1].size
  BY <1>1, <1>3, <1>6 DEF CInv, HeadInv
<1>12. HeadInv'
  BY <1>4, <1>5, <1>6, <1>10, <1>11 DEF HeadInv
<1>13. QED
  BY <1>1, <1>6, <1>9, <1>12

(* All that the parallel reader does inside Read. *)
LEMMA ParallelKeeps ==
  ASSUME CInv, ParallelStep
  PROVE  /\ CallInv' /\ OptInv' /\ SeqInv' /\ ParInv' /\ HeadInv' /\ EofInv' /\ HeldInv'
         /\ UNCHANGED vars \/ PoolOthers
<1>1. IsParallel /\ bufRest /\ P!ParStep
  BY DEF ParallelStep
<1>2. /\ CallInv' /\ ParInv' /\ HeadInv' /\ EofInv' /\ HeldInv'
      /\ opt' = opt /\ faults' = faults /\ cancelled' = cancelled
      /\ UNCHANGED poolVars \/ \E n \in 0 .. inUse - Held : PutN(n)
  <2>1. CASE P!ParOpen
    BY <1>1, <2>1, ParOpenKeeps
  <2>2. CASE P!ParRead
    BY <1>1, <2>2, ParReadKeeps
  <2>3. CASE P!ParWait
    BY <1>1, <2>3, ParWaitKeeps
  <2>4. CASE P!ParPop
    BY <1>1, <2>4, ParPopKeeps
  <2>5. QED
    BY <1>1, <2>1, <2>2, <2>3, <2>4 DEF P!ParStep
<1>3. OptInv' /\ SeqInv'
  BY <1>1, <1>2, ParallelRest
<1>4. UNCHANGED bufVars /\ UNCHANGED fillVars /\ UNCHANGED dlVars /\ UNCHANGED stopVars
  BY <1>1, <1>2, BufRestVars DEF stopVars
<1>5. UNCHANGED vars \/ PoolOthers
  BY <1>2, <1>4 DEF vars, PoolOthers
<1>6. QED
  BY <1>2, <1>3, <1>5

-----------------------------------------------------------------------------
(***************************************************************************)
(* in.Close.  The filling goroutine is gone by then, so no Read runs.      *)
(***************************************************************************)
LEMMA ClosingRests ==
  ASSUME CInv, dpc = "rawclose"
  PROVE  fpc \in {"closeExited", "gone"} /\ call.ret = "idle" /\ ~Live /\ par.pc = "open"
<1>1. fpc \in {"closeExited", "gone"}
  BY DEF CInv, Inv, CloseInv
<1>2. call.ret = "idle"
  BY <1>1 DEF CInv, CallInv
<1>3. ~Live
  BY <1>1, <1>2 DEF Live
<1>4. par.pc = "open"
  BY <1>2 DEF CInv, HeadInv
<1>5. QED
  BY <1>1, <1>2, <1>3, <1>4

(* The raw reader is closed. *)
LEMMA RawClosed ==
  ASSUME CInv, DlRawClosed, streams = <<>>, streams' = streams, opt' = opt,
         call' = call, faults' = faults, par' = par
  PROVE  CallInv' /\ OptInv' /\ ParInv' /\ HeadInv' /\ EofInv' /\ HeldInv' /\ ~Live'
         /\ ~in'.open
<1>1. /\ dpc = "rawclose" /\ dpc' = "done" /\ in' = [in EXCEPT !.open = FALSE]
      /\ fpc' = fpc /\ fbuf' = fbuf /\ ready' = ready /\ cur' = cur /\ end' = end
      /\ offset' = offset /\ cancelled' = cancelled /\ inUse' = inUse
  BY DEF DlRawClosed, bufVars, stopVars, poolVars
<1>2. in'.pos = in.pos /\ ~in'.open
  BY <1>1, CallFacts
<1>3. fpc \in {"closeExited", "gone"} /\ call.ret = "idle" /\ ~Live /\ par.pc = "open"
  BY <1>1, ClosingRests
<1>4. CallInv' /\ OptInv'
  <2>1. Run(call.p, in.pos)'
    BY <1>2 DEF CInv, CallInv, Run
  <2>2. QED
    BY <1>1, <2>1 DEF CInv, CallInv, OptInv
<1>5. ParInv'
  BY <1>1, ParKept DEF CInv
<1>6. HeadInv'
  BY <1>2, <1>3 DEF HeadInv, IsParallel
<1>7. EofInv'
  BY <1>1, <1>3 DEF CInv, EofInv, Ended, AtEnd
<1>8. HeldInv'
  <2>1. Held' = Held /\ Pages' = Pages
    BY <1>1 DEF Held, Pages
  <2>2. QED
    BY <1>1, <2>1 DEF CInv, HeldInv, Drained
<1>9. ~Live'
  BY <1>1, <1>3 DEF Live
<1>10. QED
  BY <1>2, <1>4, <1>5, <1>6, <1>7, <1>8, <1>9

LEMMA CloseSequentialKeeps ==
  ASSUME CInv, CloseSequential
  PROVE  /\ CallInv' /\ OptInv' /\ SeqInv' /\ ParInv' /\ HeadInv' /\ EofInv' /\ HeldInv'
         /\ DlRawClosed
<1>1. /\ ~IsParallel /\ DlRawClosed /\ seq' = [seq EXCEPT !.offset = 0, !.rc = <<>>]
      /\ opt' = opt /\ call' = call /\ faults' = faults /\ par' = par /\ streams' = streams
  BY DEF CloseSequential, Q!SeqClose
<1>2. streams = <<>>
  BY <1>1 DEF CInv, ParInv
<1>3. CallInv' /\ OptInv' /\ ParInv' /\ HeadInv' /\ EofInv' /\ HeldInv' /\ ~Live' /\ ~in'.open
  BY <1>1, <1>2, RawClosed
<1>4. seq' \in [offset : Int, chunkOffset : Nat, chunkSize : Int, rc : Seq(Body)]
  <2>1. seq \in [offset : Int, chunkOffset : Nat, chunkSize : Int, rc : Seq(Body)]
    BY <1>1 DEF CInv, SeqInv
  <2>2. PICK u : u = seq' /\ u = [seq EXCEPT !.offset = 0, !.rc = <<>>]
    BY <1>1
  <2>3. 0 \in Int /\ <<>> \in Seq(Body)
    OBVIOUS
  <2>4. u \in [offset : Int, chunkOffset : Nat, chunkSize : Int, rc : Seq(Body)]
    BY <2>1, <2>2, <2>3
  <2>5. QED
    BY <2>2, <2>4
<1>5. SeqInv'
  BY <1>3, <1>4 DEF SeqInv
<1>6. QED
  BY <1>1, <1>3, <1>5

LEMMA CloseParallelKeeps ==
  ASSUME CInv, CloseParallel
  PROVE  /\ CallInv' /\ OptInv' /\ SeqInv' /\ ParInv' /\ HeadInv' /\ EofInv' /\ HeldInv'
         /\ UNCHANGED vars \/ PoolOthers \/ DlRawClosed
<1>1. IsParallel /\ dpc = "rawclose"
  BY DEF CloseParallel
<1>2. CASE P!ParCloseStep /\ bufRest
  <2>1. /\ streams # <<>> /\ opt' = opt /\ par' = par /\ call' = call /\ faults' = faults
        /\ cancelled' = cancelled
    BY <1>2 DEF P!ParCloseStep
  <2>2. /\ in' = in /\ fbuf' = fbuf /\ fpc' = fpc /\ dpc' = dpc /\ ready' = ready
        /\ cur' = cur /\ end' = end /\ offset' = offset /\ Held' = Held
        /\ UNCHANGED bufVars /\ UNCHANGED fillVars /\ UNCHANGED dlVars
        /\ UNCHANGED <<spc, sb, panics>>
    BY <1>2, BufRestVars
  <2>3. OptInv' /\ SeqInv' /\ CallInv'
    BY <1>1, <1>2, <2>1, <2>2, ParallelRest DEF CInv, CallInv
  <2>4. EofInv'
    BY <2>1, <2>2 DEF CInv, EofInv, Ended, AtEnd, Goes
  <2>5. par.pc = "open" /\ par \in ParRec
    BY <1>1, ClosingRests, ParFacts
  <2>6. /\ ParInv' /\ HeldInv'
        /\ UNCHANGED poolVars \/ \E n \in 0 .. inUse - Held : PutN(n)
        /\ streams' # <<>> => streams'[1].readBytes < streams'[1].size
    <3>1. CASE ~streams[1].cancel /\ UNCHANGED poolVars
               /\ streams' = [streams EXCEPT ![1].cancel = TRUE]
      <4>1. PICK s : s = streams[1]
        OBVIOUS
      <4>2. 1 \in 1 .. Len(streams) /\ streams \in Seq(StreamRec) /\ StreamOK(s)
        BY <2>1, <4>1, ParFacts
      <4>3. /\ s \in StreamRec /\ s.readBytes \in Nat /\ s.readBytes <= Len(s.data)
            /\ s.readBytes + 0 = s.readBytes
        <5>1. BytesOK(s)
          BY <4>2 DEF StreamOK
        <5>2. s \in StreamRec /\ s.readBytes \in Nat /\ s.readBytes <= Len(s.data)
          BY <5>1, BytesFacts
        <5>3. QED
          BY <5>2
      <4>4. PICK t : t = Took(s, 0, TRUE)
        OBVIOUS
      <4>5. /\ StreamOK(t) /\ t.offset = s.offset /\ t.size = s.size /\ t.pages = s.pages
            /\ t.readBytes = s.readBytes + 0 /\ t.cancel = TRUE
        <5>1. s.readBytes + 0 <= Len(s.data) /\ 0 \in Nat /\ TRUE \in BOOLEAN
          BY <4>3
        <5>2. QED
          BY <4>2, <4>4, <5>1, ReadOn
      <4>6. t = [s EXCEPT !.cancel = TRUE]
        BY <4>3, <4>4 DEF Took, StreamRec
      <4>7. streams' = [streams EXCEPT ![1] = t]
        BY <3>1, <4>1, <4>2, <4>6
      <4>8. ParInv' /\ Pages' = Pages /\ streams' # <<>> /\ streams'[1] = t
        BY <2>1, <2>5, <4>1, <4>5, <4>7, HeadChanged
      <4>9. HeldInv'
        BY <1>1, <1>2, <3>1, <4>8, HeldKept
      <4>10. s.readBytes < s.size
        BY <2>1, <2>5, <4>1 DEF CInv, HeadInv
      <4>11. QED
        BY <3>1, <4>3, <4>5, <4>8, <4>9, <4>10
    <3>2. CASE P!CloseHead
      <4>1. /\ ParInv' /\ HeldInv' /\ \E n \in 0 .. inUse - Held : PutN(n)
            /\ streams' # <<>> => /\ streams'[1].readBytes = 0 /\ streams'[1].size > 0
        BY <1>1, <1>2, <2>1, <2>5, <3>2, HeadClosed
      <4>2. QED
        BY <4>1
    <3>3. QED
      BY <1>2, <3>1, <3>2 DEF P!ParCloseStep, P!poolVars, poolVars
  <2>7. HeadInv'
    <3>1. par'.pc = "open" /\ dpc' = "rawclose"
      BY <1>1, <2>1, <2>2, <2>5
    <3>2. QED
      BY <2>6, <3>1 DEF HeadInv
  <2>8. UNCHANGED vars \/ PoolOthers
    BY <2>1, <2>2, <2>6 DEF vars, PoolOthers, stopVars
  <2>9. QED
    BY <2>3, <2>4, <2>6, <2>7, <2>8
<1>3. CASE streams = <<>> /\ DlRawClosed /\ UNCHANGED chunkVars
  <2>1. streams' = streams /\ opt' = opt /\ call' = call /\ faults' = faults /\ par' = par
    BY <1>3 DEF chunkVars
  <2>2. CallInv' /\ OptInv' /\ ParInv' /\ HeadInv' /\ EofInv' /\ HeldInv'
    BY <1>3, <2>1, RawClosed
  <2>3. SeqInv'
    BY <1>1, <2>1 DEF SeqInv, IsParallel
  <2>4. QED
    BY <1>3, <2>2, <2>3
<1>4. QED
  BY <1>2, <1>3 DEF CloseParallel

-----------------------------------------------------------------------------
(***************************************************************************)
(* The rest of the invariant under the buffers' own steps.                 *)
(***************************************************************************)
(* The steps that move no buffer. *)
Still == \/ FillExit \/ FillCloseReady \/ FillCloseExited
         \/ StopBufferingRuns("dl") \/ StopBufferingRuns("stopper")
         \/ DlIdle \/ DlKicked \/ DlTimeout \/ DlSkipped \/ DlClose
         \/ SetRange \/ StopCall \/ StopLock \/ StopUnlock \/ StopWait
         \/ PoolTimer \/ UNCHANGED vars

LEMMA StillRest ==
  ASSUME TypeOK, Still
  PROVE  /\ ready' = ready /\ cur' = cur /\ end' = end /\ offset' = offset /\ inUse' = inUse
         /\ fpc' \in {"read", "send"} <=> fpc \in {"read", "send"}
         /\ dpc' \in {"skip", "kick"} => dpc \in {"skip", "kick"}
         /\ Ended => Ended'
         /\ Drained' <=> Drained
         /\ dpc' \in {"rawclose", "done"} <=> dpc \in {"rawclose", "done"}
<1>1. CASE FillExit \/ FillCloseReady \/ FillCloseExited
  BY <1>1 DEF FillExit, FillCloseReady, FillCloseExited, bufVars, dlVars, poolVars,
              Ended, Drained
<1>2. CASE StopBufferingRuns("dl") \/ StopBufferingRuns("stopper")
  BY <1>2 DEF StopBufferingRuns, bufVars, fillVars, dlVars, poolVars, Ended, Drained
<1>3. CASE DlIdle \/ DlKicked \/ DlTimeout
  BY <1>3 DEF DlIdle, DlKicked, DlTimeout, bufVars, fillVars, poolVars, Ended, Drained
<1>4. CASE DlSkipped \/ DlClose
  BY <1>4 DEF DlSkipped, DlClose, WriteRest, bufVars, fillVars, poolVars, Ended, Drained
<1>5. CASE StopCall \/ StopLock \/ StopUnlock \/ StopWait
  BY <1>5 DEF StopCall, StopLock, StopUnlock, StopWait, bufVars, fillVars, dlVars, poolVars,
              Ended, Drained
<1>6. CASE SetRange \/ PoolTimer \/ UNCHANGED vars
  BY <1>6 DEF SetRange, PoolTimer, FlushAged, vars, bufVars, fillVars, dlVars, poolVars,
              Ended, Drained
<1>7. QED
  BY <1>1, <1>2, <1>3, <1>4, <1>5, <1>6 DEF Still

(* What an io.EOF means, where a step can change it. *)
EofKept ==
    /\ dpc' \in {"skip", "kick"} => cur'[1].len = 0
    /\ end' = "eof" => Ended'
    /\ faults = 0 => /\ \A i \in 1 .. Len(ready') : AtEnd(ready'[i])
                     /\ cur' # <<>> => AtEnd(cur'[1])
                     /\ end' = "eof" => offset' = Size

LEMMA BufStepEof ==
  ASSUME CInv, BufStep, UNCHANGED chunkVars
  PROVE  EofInv'
<1>a. /\ TypeOK /\ CurInv /\ InOrder /\ EofInv
  BY DEF CInv, Inv
<1>b. /\ ready \in Seq(Buffer) /\ Len(ready) \in Nat /\ offset \in Nat
      /\ (cur = <<>> \/ (cur \in Seq(Buffer) /\ Len(cur) = 1)) /\ fbuf \in Buffer
  BY <1>a DEF TypeOK
<1>c. ASSUME ready # <<>>, ready' = Tail(ready)
      PROVE  /\ Len(ready') = Len(ready) - 1 /\ Len(ready) >= 1
             /\ \A i \in 1 .. Len(ready') : ready'[i] = ready[i+1]
  <2>1. PICK u, v : u = ready /\ v = ready'
    OBVIOUS
  <2>2. u \in Seq(Buffer) /\ u # <<>> /\ v = Tail(u)
    BY <1>b, <1>c, <2>1
  <2>3. Len(v) = Len(u) - 1 /\ Len(u) >= 1 /\ \A i \in 1 .. Len(v) : v[i] = u[i+1]
    BY <2>2
  <2>4. QED
    BY <2>1, <2>3
<1>1. ASSUME EofKept
      PROVE  EofInv'
  <2>1. /\ in' = in /\ fbuf' = fbuf /\ (fpc' = "send" => fpc = "send")
    BY <1>a, BufStepRest
  <2>2. call' = call /\ faults' = faults
    BY DEF chunkVars
  <2>3. Goes' = Goes
    BY <2>1, <2>2 DEF Goes
  <2>4. AtEnd(fbuf)' <=> AtEnd(fbuf)
    BY <2>1 DEF AtEnd
  <2>5. /\ (\A i \in 1 .. Len(ready') : AtEnd(ready'[i]))
             <=> (\A i \in 1 .. Len(ready) : AtEnd(ready[i]))'
        /\ AtEnd(cur'[1]) <=> AtEnd(cur[1])'
    BY DEF AtEnd
  <2>6. QED
    BY <1>1, <1>a, <2>1, <2>2, <2>3, <2>4, <2>5 DEF EofKept, EofInv
<1> SUFFICES EofKept
  BY <1>1
<1>2. CASE Still
  BY <1>2, <1>a, StillRest DEF EofKept, EofInv
<1>3. CASE FillSend
  <2>1. /\ ready' = Append(ready, fbuf) /\ fpc = "send" /\ cur' = cur /\ end' = end
        /\ offset' = offset /\ dpc' = dpc
    BY <1>3 DEF FillSend, dlVars
  <2>2. /\ Len(ready') = Len(ready) + 1 /\ ready'[Len(ready) + 1] = fbuf
        /\ \A i \in 1 .. Len(ready) : ready'[i] = ready[i]
    BY <1>b, <2>1
  <2>3. faults = 0 => \A i \in 1 .. Len(ready') : AtEnd(ready'[i])
    BY <1>a, <1>b, <2>1, <2>2 DEF EofInv
  <2>4. QED
    BY <1>a, <2>1, <2>3 DEF EofKept, EofInv, Ended
<1>4. CASE DlPut
  BY <1>4, <1>a DEF EofKept, EofInv, DlPut, dlVars, Ended
<1>5. CASE DlTake
  <2>1. /\ ready # <<>> /\ ready' = Tail(ready) /\ cur' = <<Head(ready)>> /\ dpc = "fill"
        /\ dpc' = "write" /\ end' = end /\ offset' = offset
    BY <1>5 DEF DlTake
  <2>2. cur'[1] = ready[1]
    BY <1>b, <2>1
  <2>3. 1 \in 1 .. Len(ready)
    BY <1>b, <2>1
  <2>4. faults = 0 => /\ \A i \in 1 .. Len(ready') : AtEnd(ready'[i])
                      /\ AtEnd(cur'[1])
    BY <1>a, <1>b, <1>c, <2>1, <2>2, <2>3 DEF EofInv
  <2>5. end' # "eof"
    BY <1>a, <2>1 DEF EofInv, Ended
  <2>6. QED
    BY <2>1, <2>4, <2>5 DEF EofKept
<1>6. CASE DlAbandoned
  BY <1>6, <1>a DEF EofKept, EofInv, DlAbandoned, bufVars
<1>7. CASE Writes
  <2>1. /\ ready' = ready /\ cur \in Seq(Buffer) /\ Len(cur) = 1 /\ cur # <<>>
    BY <1>7, <1>a, WritesRest
  <2>2. /\ dpc \in {"write", "idle", "timeout"}
        /\ \/ Stored /\ dpc' \in {"kick", "skip"} /\ end' = end
           \/ dpc' = "ended" /\ cur' = cur /\ offset' = offset /\ end' = "error"
    <3>1. CASE DlWrite \/ DlQuit
      <4>1. dpc \in {"write", "idle"} /\ WriteAt
        BY <3>1 DEF DlWrite, DlQuit
      <4>2. QED
        BY <4>1 DEF WriteAt
    <3>2. CASE DlTimedOut
      BY <3>2 DEF DlTimedOut
    <3>3. QED
      BY <1>7, <3>1, <3>2 DEF Writes
  <2>3. end' # "eof"
    BY <1>a, <2>2 DEF EofInv, Ended
  <2>4. /\ dpc' \in {"skip", "kick"} => cur'[1].len = 0
        /\ faults = 0 => AtEnd(cur'[1])
    <3>1. CASE Stored
      <4>1. /\ cur'[1].pos = cur[1].pos + cur[1].len /\ cur'[1].len = 0
            /\ cur'[1].err = cur[1].err
        BY <1>b, <2>1, <3>1, StoredBuffer
      <4>2. cur[1].pos + cur[1].len \in Nat
        <5>1. cur[1] \in Buffer
          BY <2>1
        <5>2. QED
          BY <5>1 DEF Buffer
      <4>3. faults = 0 => AtEnd(cur[1])
        BY <1>a, <2>1 DEF EofInv
      <4>4. QED
        BY <4>1, <4>2, <4>3 DEF AtEnd
    <3>2. CASE dpc' = "ended" /\ cur' = cur
      BY <1>a, <2>1, <3>2 DEF EofInv
    <3>3. QED
      BY <2>2, <3>1, <3>2
  <2>5. QED
    BY <1>a, <2>1, <2>3, <2>4 DEF EofKept, EofInv
<1>8. CASE DlNext
  <2>1. /\ dpc = "kick" /\ ready' = ready /\ cur' = cur /\ offset' = offset
        /\ end' = "error" \/ end' = cur[1].err
        /\ dpc' = IF end' = "none" THEN "fill" ELSE "ended"
    BY <1>8 DEF DlNext, bufVars
  <2>2. cur # <<>> /\ cur[1].len = 0 /\ cur[1].pos = offset
    BY <1>a, <2>1 DEF CurInv, EofInv, InOrder
  <2>3. faults = 0 /\ end' = "eof" => offset' = Size
    BY <1>a, <1>b, <2>1, <2>2 DEF EofInv, AtEnd
  <2>4. dpc' \notin {"skip", "kick"} /\ (end' = "eof" => Ended')
    BY <2>1 DEF Ended
  <2>5. QED
    BY <1>a, <2>1, <2>3, <2>4 DEF EofKept, EofInv
<1>9. CASE DlAbandon
  BY <1>9, <1>a DEF EofKept, EofInv, DlAbandon, Ended
<1>10. CASE DlDrain
  <2>1. /\ ready' = ready \/ (ready # <<>> /\ ready' = Tail(ready))
        /\ cur' = cur /\ end' = end /\ offset' = offset /\ dpc' \in {"drain", "rawclose"}
    BY <1>10 DEF DlDrain
  <2>2. faults = 0 => \A i \in 1 .. Len(ready') : AtEnd(ready'[i])
    BY <1>a, <1>b, <1>c, <2>1 DEF EofInv
  <2>3. QED
    BY <1>a, <2>1, <2>2 DEF EofKept, EofInv, Ended
<1>11. QED
  BY <1>2, <1>3, <1>4, <1>5, <1>6, <1>7, <1>8, <1>9, <1>10
     DEF BufStep, Still, Writes, Dl, Stopper

(* Buffers that leave the pool or return to it. *)
LEMMA BufStepHeld ==
  ASSUME CInv, BufStep, UNCHANGED chunkVars
  PROVE  HeldInv'
<1>a. /\ TypeOK /\ CurInv /\ CloseInv /\ HeldInv
  BY DEF CInv, Inv
<1>b. /\ ready \in Seq(Buffer) /\ Len(ready) \in Nat
      /\ (cur = <<>> \/ (cur \in Seq(Buffer) /\ Len(cur) = 1)) /\ fbuf \in Buffer
      /\ inUse \in Nat
  BY <1>a DEF TypeOK, PoolTypeOK
<1>d. Held \in Nat /\ Cardinality(Pages) \in Nat /\ inUse = Held + Cardinality(Pages)
  BY <1>a, CallFacts, FS_CardinalityType DEF HeldInv
<1>c. ASSUME ready # <<>>, ready' = Tail(ready)
      PROVE  Len(ready') = Len(ready) - 1
  BY <1>b, <1>c
<1>1. Pages' = Pages /\ streams' = streams /\ (dpc' = "done" <=> dpc = "done")
  BY <1>a, BufStepRest DEF chunkVars, Pages
<1>2. CASE Still
  <2>1. Held' = Held
    BY <1>2, <1>a, StillRest DEF Held
  <2>2. QED
    BY <1>2, <1>a, <1>1, <2>1, StillRest DEF HeldInv
<1>3. CASE FillSend
  <2>1. /\ ready' = Append(ready, fbuf) /\ fpc = "send" /\ fpc' \in {"closeReady", "select"}
        /\ cur' = cur /\ dpc' = dpc /\ inUse' = inUse
    BY <1>3 DEF FillSend, dlVars, poolVars
  <2>2. Len(ready') = Len(ready) + 1
    BY <1>b, <2>1
  <2>3. Held' = Held
    BY <1>b, <2>1, <2>2 DEF Held
  <2>4. dpc \notin {"rawclose", "done"}
    BY <1>a, <2>1 DEF CloseInv
  <2>5. QED
    BY <1>a, <1>1, <2>1, <2>3, <2>4 DEF HeldInv, Drained
<1>4. CASE DlPut
  <2>1. /\ cur # <<>> /\ cur' = <<>> /\ ready' = ready /\ fpc' = fpc /\ dpc' = dpc
        /\ inUse' = inUse - 1
    BY <1>4 DEF DlPut, PutN, fillVars, dlVars
  <2>2. Held' = Held - 1
    <3>1. Len(cur) = 1 /\ Len(cur') = 0
      BY <1>b, <2>1
    <3>2. QED
      BY <1>b, <2>1, <3>1 DEF Held
  <2>3. QED
    BY <1>a, <1>d, <1>1, <2>1, <2>2 DEF HeldInv, Drained
<1>5. CASE DlTake
  <2>1. /\ ready # <<>> /\ ready' = Tail(ready) /\ cur = <<>> /\ cur' = <<Head(ready)>>
        /\ fpc' = fpc /\ dpc' = "write" /\ inUse' = inUse
    BY <1>5 DEF DlTake, fillVars, poolVars
  <2>2. Len(ready') = Len(ready) - 1 /\ Len(cur) = 0 /\ Len(cur') = 1
    BY <1>c, <2>1
  <2>3. Held' = Held
    BY <1>b, <2>1, <2>2 DEF Held
  <2>4. QED
    BY <1>a, <1>1, <2>1, <2>3 DEF HeldInv, Drained
<1>6. CASE DlAbandoned \/ DlNext
  <2>1. /\ ready' = ready /\ cur' = cur /\ fpc' = fpc /\ dpc' \in {"fill", "ended"}
        /\ inUse' = inUse
    BY <1>6 DEF DlAbandoned, DlNext, bufVars, fillVars, poolVars
  <2>2. Held' = Held
    BY <2>1 DEF Held
  <2>3. QED
    BY <1>a, <1>d, <1>1, <2>1, <2>2 DEF HeldInv, Drained
<1>7. CASE Writes
  <2>1. /\ ready' = ready /\ fpc' = fpc /\ ~Drained' /\ inUse' = inUse
        /\ Len(cur') = Len(cur)
    BY <1>7, <1>a, WritesRest
       DEF Drained, Writes, DlWrite, DlQuit, DlTimedOut, WriteRest, poolVars
  <2>2. Held' = Held
    BY <2>1 DEF Held
  <2>3. QED
    BY <1>a, <1>d, <1>1, <2>1, <2>2 DEF HeldInv, Drained
<1>8. CASE DlAbandon
  <2>1. /\ ready' = ready /\ cur' = <<>> /\ fpc' = fpc /\ dpc' = "drain"
        /\ inUse' = IF cur # <<>> THEN inUse - 1 ELSE inUse
    BY <1>8 DEF DlAbandon, PutN, fillVars, poolVars
  <2>2. Held' = IF cur # <<>> THEN Held - 1 ELSE Held
    <3>1. CASE cur # <<>>
      <4>1. Len(cur) = 1 /\ Len(cur') = 0
        BY <1>b, <2>1, <3>1
      <4>2. Held' = Held - 1
        BY <1>b, <2>1, <4>1 DEF Held
      <4>3. QED
        BY <3>1, <4>2
    <3>2. CASE cur = <<>>
      BY <2>1, <3>2 DEF Held
    <3>3. QED
      BY <3>1, <3>2
  <2>3. QED
    BY <1>a, <1>d, <1>1, <2>1, <2>2 DEF HeldInv, Drained
<1>9. CASE DlDrain
  <2>1. /\ cur' = cur /\ fpc' = fpc /\ dpc = "drain"
        /\ \/ ready # <<>> /\ ready' = Tail(ready) /\ inUse' = inUse - 1 /\ dpc' = dpc
           \/ ready = <<>> /\ ready' = ready /\ inUse' = inUse /\ dpc' = "rawclose"
    BY <1>9 DEF DlDrain, PutN, fillVars, poolVars
  <2>2. \/ inUse' = inUse /\ Held' = Held
        \/ inUse' = inUse - 1 /\ Held' = Held - 1
    <3>1. Len(cur) \in Nat /\ Len(cur') = Len(cur)
      BY <1>b, <2>1
    <3>2. CASE ready # <<>> /\ ready' = Tail(ready) /\ inUse' = inUse - 1
      <4>1. Len(ready') = Len(ready) - 1
        BY <1>c, <3>2
      <4>2. Held' = Held - 1
        BY <1>b, <2>1, <3>1, <4>1 DEF Held
      <4>3. QED
        BY <3>2, <4>2
    <3>3. CASE ready' = ready /\ inUse' = inUse
      BY <2>1, <3>3 DEF Held
    <3>4. QED
      BY <2>1, <3>2, <3>3
  <2>3. QED
    BY <1>a, <1>d, <1>1, <2>1, <2>2 DEF HeldInv, Drained
<1>10. QED
  BY <1>2, <1>3, <1>4, <1>5, <1>6, <1>7, <1>8, <1>9
     DEF BufStep, Still, Writes, Dl, Stopper

-----------------------------------------------------------------------------
(***************************************************************************)
(* The whole download.                                                     *)
(***************************************************************************)
(* Every step keeps the invariant, and is a step of StreamBuf. *)
LEMMA StreamStepKeeps ==
  ASSUME CInv, [StreamNext]_allVars
  PROVE  CInv' /\ [Next]_vars
<1>1. /\ CallInv' /\ OptInv' /\ SeqInv' /\ ParInv' /\ HeadInv' /\ EofInv' /\ HeldInv'
      /\ [Next]_vars
  <2>1. CASE BufStep /\ UNCHANGED chunkVars
    <3>1. [Next]_vars
      BY <2>1 DEF BufStep, Next, Fill
    <3>2. QED
      BY <2>1, <3>1, BufStepKeeps, BufStepEof, BufStepHeld
  <2>2. CASE ReadCall
    <3>1. [Next]_vars
      BY <2>2 DEF ReadCall, Next, Fill
    <3>2. QED
      BY <2>2, <3>1, ReadCallKeeps
  <2>3. CASE ReadReturn
    BY <2>3, ReadReturnKeeps DEF Next
  <2>4. CASE SequentialStep
    BY <2>4, SequentialKeeps
  <2>5. CASE ParallelStep
    BY <2>5, ParallelKeeps DEF Next
  <2>6. CASE \E i \in DOMAIN streams : Goroutine(i)
    <3>1. PICK i \in DOMAIN streams : Goroutine(i)
      BY <2>6
    <3>2. /\ CallInv' /\ OptInv' /\ SeqInv' /\ ParInv' /\ HeadInv' /\ EofInv' /\ HeldInv'
          /\ GetN(1) \/ UNCHANGED poolVars
      BY <3>1, GoroutineKeeps
    <3>3. bufRest /\ cancelled' = cancelled
      BY <3>1 DEF Goroutine, P!StreamStep, P!StreamOpen, P!StreamRead
    <3>4. UNCHANGED bufVars /\ UNCHANGED fillVars /\ UNCHANGED dlVars /\ UNCHANGED stopVars
      BY <3>3, BufRestVars DEF stopVars
    <3>5. [Next]_vars
      BY <3>2, <3>4 DEF Next, PoolOthers, vars
    <3>6. QED
      BY <3>2, <3>5
  <2>7. CASE CloseSequential
    BY <2>7, CloseSequentialKeeps DEF Next
  <2>8. CASE CloseParallel
    BY <2>8, CloseParallelKeeps DEF Next
  <2>9. QED
    BY <2>1, <2>2, <2>3, <2>4, <2>5, <2>6, <2>7, <2>8, StreamSteps
<1>2. Inv'
  BY <1>1, InvNext DEF CInv
<1>3. QED
  BY <1>1, <1>2 DEF CInv

(* The invariant, for every setting, object, number and size of buffers    *)
(* and every failure of the origin.                                        *)
THEOREM StreamCorrect == StreamSpec => []CInv
<1>1. StreamInit => CInv
  BY CInvInit
<1>2. CInv /\ [StreamNext]_allVars => CInv'
  BY StreamStepKeeps
<1> QED  BY <1>1, <1>2, PTL DEF StreamSpec

(* ImplementsStreamBuf: the sequential and the parallel chunk reader, with *)
(* their retries and goroutines, keep the contract that streambuf.Reader   *)
(* has with its raw reader, and the pages of the streams are those of      *)
(* other users of the pool.  So everything that is proved of StreamBuf     *)
(* holds of a whole download.                                              *)
THEOREM StreamImplements == StreamSpec => ImplementsStreamBuf
<1>1. StreamInit => Init
  BY CInvInit
<1>2. CInv /\ [StreamNext]_allVars => [Next]_vars
  BY StreamStepKeeps
<1> QED  BY <1>1, <1>2, StreamCorrect, PTL DEF StreamSpec, ImplementsStreamBuf, Spec

(* ReadsInOrder: whatever the chunk reader returns are the next bytes of   *)
(* the object, across chunks, streams and bodies that were opened again.   *)
THEOREM DownloadInOrder == StreamSpec => []ReadsInOrder
<1>1. CInv => ReadsInOrder
  <2> SUFFICES ASSUME CInv
               PROVE  ReadsInOrder
    OBVIOUS
  <2>1. \A i \in DOMAIN call.p : call.p[i] = in.pos + i - 1
    <3>1. DOMAIN call.p = 1 .. Len(call.p)
      BY CallFacts
    <3>2. QED
      BY <3>1 DEF CInv, CallInv, Run
  <2>2. /\ streams \in Seq(StreamRec) /\ DOMAIN streams = 1 .. Len(streams)
        /\ Tiles(streams, par.endStream)
        /\ \A i \in 1 .. Len(streams) : StreamOK(streams[i])
    BY ParFacts
  <2>3. ASSUME NEW i \in DOMAIN streams, NEW s, s = streams[i]
        PROVE  /\ s.offset + s.size = IF i = Len(streams) THEN par.endStream
                                                          ELSE streams[i+1].offset
               /\ Len(s.data) <= s.size
               /\ \A j \in DOMAIN s.data : s.data[j] = s.offset + j - 1
    <3>1. s.offset + s.size = IF i = Len(streams) THEN par.endStream
                                                  ELSE streams[i+1].offset
      <4>1. i \in 1 .. Len(streams) /\ Tiles(streams, par.endStream)
        BY <2>2
      <4>2. QED
        BY <2>3, <4>1 DEF Tiles
    <3>2. BytesOK(s)
      BY <2>2, <2>3 DEF StreamOK
    <3>3. s \in StreamRec /\ Len(s.data) <= s.size /\ Run(s.data, s.offset)
      BY <3>2, BytesFacts DEF BytesOK
    <3>4. DOMAIN s.data = 1 .. Len(s.data)
      BY <3>3, StreamFields
    <3>5. QED
      BY <3>1, <3>3, <3>4 DEF Run
  <2>4. streams # <<>> /\ in.open /\ dpc # "rawclose" =>
          streams[1].offset + streams[1].readBytes = in.pos + Len(call.p)
    <3>1. streams # <<>> => IsParallel
      BY DEF CInv, ParInv
    <3>2. QED
      BY <3>1 DEF CInv, HeadInv, Goes
  <2>5. QED
    BY <2>1, <2>3, <2>4 DEF ReadsInOrder
<1> QED  BY <1>1, StreamCorrect, PTL

(* BuffersReturned: a buffer that is out of the pool has exactly one       *)
(* holder, and a closed download holds none and has no goroutine left.     *)
THEOREM DownloadReturnsBuffers == StreamSpec => []BuffersReturned
<1>1. CInv => BuffersReturned
  <2> SUFFICES ASSUME CInv
               PROVE  BuffersReturned
    OBVIOUS
  <2>1. inUse = Held + Cardinality(Pages) /\ alloced = inUse + cached
    BY DEF CInv, HeldInv, Inv, PoolInv
  <2>2. ASSUME dpc = "done"
        PROVE  inUse = 0 /\ streams = <<>> /\ readyClosed
    <3>1. streams = <<>> /\ ready = <<>> /\ cur = <<>>
      BY <2>2 DEF CInv, HeldInv, Drained
    <3>2. readyClosed /\ fpc \in {"closeExited", "gone"}
      BY <2>2 DEF CInv, Inv, CloseInv
    <3>3. Held = 0
      BY <3>1, <3>2 DEF Held
    <3>4. Pages = {}
      BY <3>1 DEF Pages
    <3>5. Cardinality(Pages) = 0
      BY <3>4, FS_EmptySet
    <3>6. QED
      BY <2>1, <3>1, <3>2, <3>3, <3>5
  <2>3. QED
    BY <2>1, <2>2 DEF BuffersReturned
<1> QED  BY <1>1, StreamCorrect, PTL

(* EofIsTheEnd: with an origin that does not fail, a download that ends    *)
(* with io.EOF has written the object to its end.                          *)
THEOREM DownloadEnds == StreamSpec => []EofIsTheEnd
<1>1. CInv => EofIsTheEnd
  BY DEF CInv, EofInv, EofIsTheEnd
<1> QED  BY <1>1, StreamCorrect, PTL

(* WaitHasWriter: a Read of the parallel reader that waits for bytes of    *)
(* its first stream has a goroutine that writes them or bytes that are     *)
(* there already, except after an error of the goroutine or a body that    *)
(* the origin ended early: then nothing but a cancelled context ends it.   *)
THEOREM DownloadWaits == StreamSpec => []WaitHasWriter
<1>1. CInv => WaitHasWriter
  <2> SUFFICES ASSUME CInv, call.ret = "run", par.pc = "wait", ~cancelled,
                      streams[1].g = "done", streams[1].err # "error",
                      ~streams[1].short
               PROVE  Len(streams[1].data) > streams[1].readBytes
    BY DEF WaitHasWriter
  <2>1. dpc # "rawclose"
    BY RunningOpen
  <2>2. streams # <<>> /\ ~streams[1].cancel /\ streams[1].readBytes < streams[1].size
    BY <2>1 DEF CInv, HeadInv
  <2>3. PICK s : s = streams[1]
    OBVIOUS
  <2>4. 1 \in 1 .. Len(streams)
    BY <2>2, ParFacts
  <2>5. BytesOK(s) /\ GoesOn(s)
    BY <2>3, <2>4, ParFacts DEF StreamOK
  <2>6. s.err \in {"none", "error", "canceled"} /\ s.readBytes \in Nat /\ s.size \in Nat
    BY <2>5, StreamFields DEF BytesOK
  <2>7. s.err = "none"
    BY <2>2, <2>3, <2>5, <2>6 DEF GoesOn
  <2>8. Len(s.data) = s.size
    BY <2>3, <2>5, <2>7 DEF GoesOn
  <2>9. QED
    BY <2>2, <2>3, <2>6, <2>8
<1> QED  BY <1>1, StreamCorrect, PTL

(* What StreamBuf promises of any raw reader holds of a download over the  *)
(* chunk readers: bytes reach Write in order, no send blocks, exit is      *)
(* closed once, and what rests in the pool is flushed.                     *)
THEOREM DownloadKeepsPromises ==
  StreamSpec => [](InOrder /\ ChannelsNeverBlock /\ CloseIsClean /\ RestIsFlushed)
BY StreamImplements, BytesInOrder, SendsNeverBlock, CloseOnce, PoolIsFlushed, PTL
   DEF ImplementsStreamBuf
=============================================================================
