---------------------------- MODULE HeapProofs -----------------------------
(***************************************************************************)
(* The abstract heap never lets the program reach a freed object.          *)
(***************************************************************************)
EXTENDS Heap, ObjectGraphProofs

HeapTypeOK ==
  /\ live \in SUBSET Obj
  /\ refs \in Graph
  /\ roots \in SUBSET Obj

\* An object that is not allocated stores no pointer.
FreeIsEmpty == \A o \in Obj \ live : refs[o] = {}

HeapInv == HeapTypeOK /\ FreeIsEmpty /\ ReachableIsLive

\* After a step of the program the reachable objects are new or were reachable.
LEMMA MutateReaches ==
  ASSUME HeapInv, NEW New \in SUBSET (Obj \ live), MutateWith(New)
  PROVE  Reachable' \subseteq Reachable \cup New
<1> DEFINE Known == Reachable \cup New
<1>1. Known \in SUBSET Obj /\ Closed(Reachable, refs)
  BY ReachIsLeast DEF HeapInv, HeapTypeOK, Reachable
<1>2. roots' \subseteq Known /\ refs' \in Graph /\ roots' \in SUBSET Obj
  BY <1>1 DEF MutateWith, Graph
<1>3. ASSUME NEW o \in New, refs'[o] = refs[o]
      PROVE  refs'[o] \subseteq Known
  BY <1>3 DEF HeapInv, FreeIsEmpty
<1>4. Closed(Known, refs')
  BY <1>1, <1>3 DEF MutateWith, Closed
<1> QED
  BY <1>1, <1>2, <1>4, ReachIsLeast DEF Reachable

(***************************************************************************)
(* Whatever the program does with its roots and pointers, and whenever     *)
(* collections happen, no freed object is reachable.                       *)
(***************************************************************************)
THEOREM HeapIsSafe == Spec => []ReachableIsLive
<1>1. Init => HeapInv
  <2> SUFFICES ASSUME Init PROVE HeapInv
    OBVIOUS
  <2>1. HeapTypeOK /\ FreeIsEmpty
    BY DEF Init, HeapTypeOK, FreeIsEmpty, Graph
  <2>2. Closed({}, refs)
    BY DEF Closed
  <2>3. Reachable \subseteq {}
    BY <2>1, <2>2, ReachIsLeast DEF Reachable, Init, HeapTypeOK
  <2> QED
    BY <2>1, <2>3 DEF HeapInv, ReachableIsLive
<1>2. HeapInv /\ [Next]_heapVars => HeapInv'
  <2> SUFFICES ASSUME HeapInv, [Next]_heapVars PROVE HeapInv'
    OBVIOUS
  <2> USE DEF HeapInv, HeapTypeOK, FreeIsEmpty, ReachableIsLive
  <2>1. Reachable \in SUBSET Obj
    BY ReachIsLeast DEF Reachable
  <2>2. CASE Mutate
    <3> PICK New \in SUBSET (Obj \ live) : MutateWith(New)
      BY <2>2 DEF Mutate
    <3>1. HeapTypeOK' /\ FreeIsEmpty'
      BY <2>1 DEF MutateWith, Graph
    <3>2. ReachableIsLive'
      BY MutateReaches DEF MutateWith
    <3> QED
      BY <3>1, <3>2
  <2>3. CASE Collect
    <3>1. roots' \in SUBSET Obj
      BY <2>1, <2>3 DEF Collect
    <3>2. live' \in SUBSET Obj /\ roots' \subseteq live' /\ Closed(live', refs)
      BY <2>3, <3>1, ReachIsLeast DEF Collect
    <3>3. refs' \in Graph /\ FreeIsEmpty' /\ \A o \in live' : refs'[o] = refs[o]
      BY <2>3, <3>2 DEF Collect, Graph
    <3>4. Reachable' = Reach(roots', refs)
      BY <3>1, <3>2, <3>3, ReachLocal DEF Reachable
    <3> QED
      BY <2>3, <3>1, <3>2, <3>3, <3>4 DEF Collect
  <2>4. CASE Destroy
    <3>1. HeapTypeOK' /\ FreeIsEmpty' /\ Closed(live', refs') /\ roots' \subseteq live'
      BY <2>4 DEF Destroy, Graph, Closed
    <3> QED
      BY <3>1, ReachIsLeast DEF Reachable
  <2>5. CASE UNCHANGED heapVars
    BY <2>5 DEF heapVars, Reachable
  <2> QED
    BY <2>2, <2>3, <2>4, <2>5 DEF Next
<1>3. HeapInv => ReachableIsLive
  BY DEF HeapInv
<1> QED
  BY <1>1, <1>2, <1>3, PTL DEF Spec
=============================================================================
