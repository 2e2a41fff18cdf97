------------------------------- MODULE Lists -------------------------------
(***************************************************************************)
(* Sequences of anything: a list is a sequence of whatever stands in it.   *)
(***************************************************************************)
EXTENDS Integers, Sequences, Functions

IsList(list) == list \in Seq(Range(list))
=============================================================================
