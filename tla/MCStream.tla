----------------------------- MODULE MCStream -----------------------------
(***************************************************************************)
(* Instances of Stream for TLC: the settings of the chunk reader.          *)
(***************************************************************************)
EXTENDS Stream

Settings ==
    { [chunk |-> 0, limit |-> -1, streams |-> 0],
      [chunk |-> 1, limit |-> 2, streams |-> 1],
      [chunk |-> 2, limit |-> 0, streams |-> 2] }

(* Sequential chunks of one and two bytes: together they are the object. *)
Doubling == { [chunk |-> 1, limit |-> 2, streams |-> 1] }
=============================================================================
