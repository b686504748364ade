---------------------------- MODULE Sequential ----------------------------
(***************************************************************************)
(* The sequential chunk reader                                             *)
(* (src/internal/engine/chunkstream/sequential.go) over an object of the   *)
(* cache (src/cache/source_object.go): one ranged request at a time, each  *)
(* twice as long as the one before, up to a limit.  There is no retry: an  *)
(* error ends the stream.                                                  *)
(*                                                                         *)
(* call is the Read under way: want bytes asked for, p the positions of    *)
(* the bytes it has copied so far, ret how it returns.  A body delivers    *)
(* the bytes of its range; the origin may cut it short, which net/http     *)
(* and io.ReadFull report as io.ErrUnexpectedEOF, or fail it.              *)
(***************************************************************************)
EXTENDS Integers, Sequences

CONSTANTS Size, MaxFaults

VARIABLES
    opt,         \* [chunk |-> initialChunkSize, limit |-> maxChunkSize, ...]
    seq,         \* offset, chunkOffset, chunkSize, rc: <<>> or <<the body>>
    call, faults, cancelled

Running == call.ret = "run"
Asked == call.want - Len(call.p)

(* p grows by n bytes of the body that begins at pos. *)
Copy(pos, n) == call.p \o [i \in 1 .. n |-> pos + i - 1]

(* newSequential, then Seek to start: nothing is opened yet. *)
SeqInit(start) ==
    seq = [offset |-> -1, chunkOffset |-> start, chunkSize |-> opt.chunk, rc |-> <<>>]

ChunkEnd == seq.chunkOffset + seq.chunkSize

ChunkDone == seq.chunkSize > 0 /\ seq.offset = ChunkEnd

(* The next chunk begins where this one ended. *)
NextChunk ==
    LET double == 2 * seq.chunkSize
    IN  [seq EXCEPT !.chunkOffset = seq.offset,
                    !.chunkSize = IF opt.limit # -1 /\ double > opt.limit
                                  THEN opt.limit ELSE double]

\* Mutant of SpanEnd: the inclusive End of a Span is taken for an exclusive one.
SpanEnd_Inclusive(s) == IF s.chunkSize > 0 /\ s.chunkOffset + s.chunkSize < Size
                        THEN s.chunkOffset + s.chunkSize - 1 ELSE Size

(* sourceObject.Open: the span's end is clipped to the size, a span that   *)
(* begins behind it is refused.                                            *)
SpanEnd(s) == IF s.chunkSize > 0 /\ s.chunkOffset + s.chunkSize < Size
              THEN s.chunkOffset + s.chunkSize ELSE Size

(* openRange: a refused or failed open ends the Read. *)
SeqOpen ==
    /\ Running /\ Asked > 0
    /\ ChunkDone \/ seq.offset = -1
    /\ LET s == IF ChunkDone THEN NextChunk ELSE seq
       IN  \/ /\ s.chunkOffset < Size
              /\ seq' = [s EXCEPT !.offset = s.chunkOffset,
                                  !.rc = <<[pos |-> s.chunkOffset, end |-> SpanEnd(s)]>>]
              /\ UNCHANGED <<call, faults>>
           \/ /\ s.chunkOffset >= Size \/ cancelled \/ faults < MaxFaults
              /\ seq' = s
              /\ call' = [call EXCEPT !.ret = "error"]
              /\ faults' = IF s.chunkOffset < Size /\ ~cancelled
                           THEN faults + 1 ELSE faults
    /\ UNCHANGED <<opt, cancelled>>

(* io.ReadFull into what is left of p or of the chunk. *)
SeqRead ==
    /\ Running /\ Asked > 0 /\ ~ChunkDone /\ seq.offset # -1
    /\ LET rc   == seq.rc[1]
           rest == rc.end - rc.pos
           m    == IF seq.chunkSize > 0 /\ Asked > ChunkEnd - seq.offset
                   THEN ChunkEnd - seq.offset ELSE Asked
           Reads(n, ret) ==
               /\ call' = [call EXCEPT !.p = Copy(rc.pos, n), !.ret = ret]
               /\ seq' = [seq EXCEPT !.offset = @ + n, !.rc[1].pos = @ + n]
       IN  \/ /\ m <= rest
              /\ Reads(m, IF m = Asked THEN "ok" ELSE "run")
              /\ UNCHANGED faults
           \/ m > rest /\ Reads(rest, "eof") /\ UNCHANGED faults
           \/ /\ faults < MaxFaults
              /\ \E n \in 0 .. m - 1 : n <= rest /\ \E ret \in {"eof", "error"} : Reads(n, ret)
              /\ faults' = faults + 1
           \/ /\ cancelled
              /\ Reads(0, "error") /\ UNCHANGED faults
    /\ UNCHANGED <<opt, cancelled>>

SeqStep == SeqOpen \/ SeqRead

(* Close: resetReader(nil, 0). *)
SeqClose == seq' = [seq EXCEPT !.offset = 0, !.rc = <<>>]
=============================================================================
