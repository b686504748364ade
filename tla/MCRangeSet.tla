----------------------------- MODULE MCRangeSet -----------------------------
(* RangeSet on a file of eight bytes. *)
EXTENDS RangeSet
=============================================================================
