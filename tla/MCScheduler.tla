---------------------------- MODULE MCScheduler ----------------------------
(***************************************************************************)
(* Instances of Scheduler for TLC: the requests the readers choose from.   *)
(***************************************************************************)
EXTENDS Scheduler, TLC

WholeObject == { [pos |-> 0, size |-> Size] }

(* The first block and the whole object: streams idle and are extended. *)
Prefixes == { [pos |-> 0, size |-> 1], [pos |-> 0, size |-> Size] }

(* The last block too: several streams run in parallel. *)
Overlapping == Prefixes \cup { [pos |-> Size-1, size |-> 1] }

(* Readers, and downloaders, are told apart by nothing but their state. *)
Symmetry == { r @@ d : r \in Permutations(Readers), d \in Permutations(Ids) }
=============================================================================
