------------------------------- MODULE Heap --------------------------------
(***************************************************************************)
(* What the collected heap promises to the virtual machine, with no word   *)
(* on how objects are found or freed.  The program sees objects only       *)
(* through its roots (value stack, frames' closures, open upvalues,        *)
(* globals).  It may allocate, and rearrange pointers between objects it   *)
(* can reach; it can never name an object it cannot reach.  A collection   *)
(* happens in one step and keeps exactly the reachable objects.            *)
(***************************************************************************)
EXTENDS ObjectGraph

VARIABLES
  live,     \* the objects that are allocated and not freed
  refs,     \* the pointers stored in each object
  roots     \* the objects the program can name directly

heapVars == <<live, refs, roots>>

Reachable == Reach(roots, refs)

Init ==
  /\ live = {}
  /\ refs = [o \in Obj |-> {}]
  /\ roots = {}

(***************************************************************************)
(* The program runs: it allocates the objects New, and what it stores or   *)
(* roots is either new or was reachable.                                   *)
(***************************************************************************)
MutateWith(New) ==
  LET Known == Reachable \cup New
  IN  /\ live' = live \cup New
      /\ roots' \in SUBSET Known
      /\ refs' \in [Obj -> SUBSET Obj]
      /\ \A o \in Obj : refs'[o] # refs[o] => o \in Known /\ refs'[o] \subseteq Known

Mutate == \E New \in SUBSET (Obj \ live) : MutateWith(New)

\* A collection: the program may have dropped roots, and exactly the objects
\* reachable from what is left survive, with their pointers.
Collect ==
  /\ roots' \in SUBSET Reachable
  /\ live' = Reach(roots', refs)
  /\ refs' = [o \in Obj |-> IF o \in live' THEN refs[o] ELSE {}]

\* The machine goes away and takes every object with it.
Destroy ==
  /\ live' = {}
  /\ refs' = [o \in Obj |-> {}]
  /\ roots' = {}

Next == Mutate \/ Collect \/ Destroy

Spec == Init /\ [][Next]_heapVars

-----------------------------------------------------------------------------
\* Every object the program can reach is allocated: no dangling pointer is
\* ever within its reach.
ReachableIsLive == Reachable \subseteq live
=============================================================================
