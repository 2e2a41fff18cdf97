---------------------------- MODULE ObjectGraph ----------------------------
(***************************************************************************)
(* Heap objects and the reachability relation between them.  An object is  *)
(* named by the order in which it was allocated, 1, 2, 3, ...; NULL is the *)
(* null pointer.  A graph is a function from objects to the sets of        *)
(* objects they hold a pointer to.                                         *)
(***************************************************************************)
EXTENDS Integers, FiniteSets

CONSTANT MaxObjects     \* bound: how many objects a behaviour may allocate

ASSUME MaxObjectsAssumption == MaxObjects \in Nat

NULL == 0
Obj == 1 .. MaxObjects

\* No edge of the graph leaves C.
Closed(C, edges) == \A o \in C : edges[o] \subseteq C

(***************************************************************************)
(* The objects reachable from S: the least closed set that contains S.     *)
(* Stated without recursion so that the same definition is evaluated by    *)
(* TLC and reasoned about by the provers.                                  *)
(***************************************************************************)
Reach(S, edges) ==
  {o \in Obj : \A C \in SUBSET Obj : S \subseteq C /\ Closed(C, edges) => o \in C}
=============================================================================
