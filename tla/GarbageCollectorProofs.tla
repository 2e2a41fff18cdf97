----------------------- MODULE GarbageCollectorProofs ----------------------
(***************************************************************************)
(* Proofs about GarbageCollector for every number of objects, threshold    *)
(* and number of collections.                                              *)
(***************************************************************************)
EXTENDS GarbageCollector, ObjectGraphProofs, FiniteSetTheorems

\* There are finitely many live objects.
LEMMA LiveIsFinite ==
  ASSUME TypeOK
  PROVE  live \in SUBSET Obj /\ IsFiniteSet(live) /\ Cardinality(live) \in Nat
<1>1. live \in SUBSET Obj /\ live \in SUBSET (1 .. born) /\ born \in Nat
  BY MaxObjectsAssumption DEF TypeOK, Obj
<1>2. IsFiniteSet(1 .. born)
  BY <1>1, FS_Interval
<1> QED
  BY <1>1, <1>2, FS_Subset, FS_CardinalityType

\* Adding an object to the live ones, or taking one away, changes their number by one.
LEMMA LiveCardinality ==
  ASSUME TypeOK
  PROVE  /\ \A o : o \notin live => Cardinality(live \cup {o}) = Cardinality(live) + 1
         /\ \A o \in live : /\ Cardinality(live) > 0
                            /\ Cardinality(live \ {o}) = Cardinality(live) - 1
<1>1. IsFiniteSet(live) /\ Cardinality(live) \in Nat
  BY LiveIsFinite
<1>2. ASSUME NEW o \in live
      PROVE  Cardinality(live) > 0 /\ Cardinality(live \ {o}) = Cardinality(live) - 1
  <2>1. Cardinality(live \ {o}) = Cardinality(live) - 1
    BY <1>1, FS_RemoveElement
  <2>2. Cardinality(live \ {o}) \in Nat
    BY <1>1, FS_RemoveElement, FS_CardinalityType
  <2> QED
    BY <1>1, <2>1, <2>2
<1> QED
  BY <1>1, <1>2, FS_AddElement

-----------------------------------------------------------------------------
\* A machine with an empty heap satisfies the inductive invariant.
LEMMA InductiveInit == Init => Inductive
<1> SUFFICES ASSUME Init PROVE Inductive
  OBVIOUS
<1> USE MaxObjectsAssumption, GcAssumption DEF Init
<1>1. TypeOK
  BY DEF TypeOK, Phases, Obj, NULL
<1>2. HeapClosed /\ FreeIsEmpty /\ NothingHeld /\ MarksUnused /\ TriColor /\ Sweeping
  BY DEF HeapClosed, FreeIsEmpty, NothingHeld, MarksUnused, TriColor, Sweeping, Visible, Closed
<1>3. ListThreadsLive /\ Destroying
  BY DEF ListThreadsLive, Destroying, Follows, Running, NULL
<1>4. CountersAgree /\ AllocationsOwed
  BY FS_EmptySet DEF CountersAgree, AllocationsOwed
<1> QED
  BY <1>1, <1>2, <1>3, <1>4 DEF Inductive

\* allocate (count, link at the head) keeps the inductive invariant.
LEMMA AllocateInductive == Inductive /\ Allocate => Inductive'
<1> SUFFICES ASSUME Inductive, Allocate PROVE Inductive'
  OBVIOUS
<1> USE MaxObjectsAssumption, GcAssumption
<1> USE DEF Inductive, Allocate, track, markV, cursorV
<1> DEFINE o == born + 1
<1>1. o \in Obj /\ o \notin live /\ TypeOK
  BY DEF TypeOK, Obj
<1>2. TypeOK'
  BY <1>1 DEF TypeOK, Phases, Obj
<1>3. HeapClosed' /\ FreeIsEmpty'
  <2>1. refs[o] = {}
    BY <1>1 DEF FreeIsEmpty
  <2> QED
    BY <1>1, <2>1 DEF HeapClosed, FreeIsEmpty, Visible, Closed
<1>4. NothingHeld' /\ MarksUnused' /\ TriColor' /\ Sweeping'
  BY DEF NothingHeld, MarksUnused, TriColor, Sweeping
<1>5. ListThreadsLive' /\ Destroying'
  <2>1. /\ Follows(objects, o, live)
        /\ \A p \in live : Follows(next[p], p, live)
    BY DEF ListThreadsLive, Running
  <2>2. Follows(objects', born' + 1, live')
    BY <1>1 DEF Follows, TypeOK, NULL
  <2>3. ASSUME NEW p \in live' PROVE Follows(next'[p], p, live')
    <3>1. CASE p = o
      BY <1>1, <2>1, <3>1 DEF Follows, TypeOK, NULL
    <3>2. CASE p # o
      <4>1. p \in live /\ p \in Nat /\ p < o /\ next'[p] = next[p]
        BY <3>2, <2>3 DEF TypeOK
      <4> QED
        BY <2>1, <4>1 DEF Follows, TypeOK
    <3> QED
      BY <3>1, <3>2
  <2> QED
    BY <2>2, <2>3 DEF ListThreadsLive, Destroying, Running
<1>6. CountersAgree' /\ AllocationsOwed'
  BY <1>1, LiveCardinality, LiveIsFinite DEF CountersAgree, AllocationsOwed, Running, TypeOK
<1> QED
  BY <1>2, <1>3, <1>4, <1>5, <1>6

(***************************************************************************)
(* The steps that only move pointers around: everything but the pointers   *)
(* themselves is carried over.                                             *)
(***************************************************************************)
LEMMA PointerStepInductive ==
  ASSUME Inductive, phase = "instr",
         UNCHANGED <<born, live, fresh, listV, markV, countV, cursorV, phase>>,
         refs' \in [Obj -> SUBSET Obj], Visible' \subseteq live,
         \A p \in live : refs'[p] \subseteq live,
         \A p \in Obj \ live : refs'[p] = {}
  PROVE  Inductive'
<1> USE DEF Inductive, listV, markV, countV, cursorV
<1>1. TypeOK'
  <2>1. live \subseteq Obj
    BY LiveIsFinite
  <2> QED
    BY <2>1 DEF TypeOK, Visible
<1>2. HeapClosed' /\ FreeIsEmpty'
  BY DEF HeapClosed, FreeIsEmpty, Visible, Closed
<1>3. NothingHeld' /\ MarksUnused' /\ TriColor' /\ Sweeping'
  BY DEF NothingHeld, MarksUnused, TriColor, Sweeping
<1>4. ListThreadsLive' /\ Destroying'
  BY DEF ListThreadsLive, Destroying, Running, Follows
<1>5. CountersAgree' /\ AllocationsOwed'
  BY DEF CountersAgree, AllocationsOwed, Running
<1> QED
  BY <1>1, <1>2, <1>3, <1>4, <1>5

\* So do the steps of an instruction that only store or drop pointers.
LEMMA PointerStepsInductive ==
  ASSUME Inductive, NEW p \in Obj, NEW o \in Obj,
         Load(o) \/ Root(o) \/ Unroot(o) \/ Store(p, o) \/ Unstore(p, o)
  PROVE  Inductive'
<1>1. /\ phase = "instr"
      /\ UNCHANGED <<born, live, fresh, listV, markV, countV, cursorV, phase>>
  BY DEF Load, Root, Unroot, Store, Unstore
<1>2. /\ Visible \subseteq live
      /\ \A q \in live : refs[q] \subseteq live
      /\ \A q \in Obj \ live : refs[q] = {}
      /\ refs \in [Obj -> SUBSET Obj]
      /\ live \subseteq Obj
  BY <1>1, LiveIsFinite DEF Inductive, HeapClosed, FreeIsEmpty, Closed, TypeOK
<1>3. Visible' \subseteq live
  BY <1>2 DEF Load, Root, Unroot, Store, Unstore, Visible
<1>4. /\ refs' \in [Obj -> SUBSET Obj]
      /\ \A q \in live : refs'[q] \subseteq live
      /\ \A q \in Obj \ live : refs'[q] = {}
  BY <1>2 DEF Load, Root, Unroot, Store, Unstore
<1> QED
  BY <1>1, <1>3, <1>4, PointerStepInductive

\* So do the beginning and the end of an instruction.
LEMMA InstructionInductive ==
  ASSUME Inductive, EndInstr \/ BeginInstr \/ BeginCollect \/ mark_value_roots
  PROVE  Inductive'
<1> USE MaxObjectsAssumption, GcAssumption
<1> USE DEF Inductive, EndInstr, BeginInstr, BeginCollect, mark_value_roots, mark,
            heapV, listV, markV, countV, cursorV
<1>1. TypeOK'
  <2>1. CASE EndInstr
    BY <2>1 DEF TypeOK, Phases
  <2>2. CASE BeginInstr
    BY <2>2 DEF TypeOK, Phases
  <2>3. CASE BeginCollect
    BY <2>3 DEF TypeOK, Phases
  <2>4. CASE mark_value_roots
    BY <2>4 DEF TypeOK, Phases
  <2> QED
    BY <2>1, <2>2, <2>3, <2>4
<1>2. HeapClosed' /\ FreeIsEmpty' /\ NothingHeld'
  BY DEF HeapClosed, FreeIsEmpty, NothingHeld, Visible, Closed, TypeOK
<1>3. MarksUnused' /\ Sweeping'
  BY DEF MarksUnused, Sweeping
<1>4. TriColor'
  <2>1. roots \subseteq Reach(roots, refs)
    BY ReachIsLeast DEF TypeOK, Graph
  <2> QED
    BY <2>1 DEF TriColor, MarksUnused
<1>5. ListThreadsLive' /\ Destroying'
  BY DEF ListThreadsLive, Destroying, Running, Follows
<1>6. CountersAgree' /\ AllocationsOwed'
  BY DEF CountersAgree, AllocationsOwed, Running, should_collect, TypeOK
<1> QED
  BY <1>1, <1>2, <1>3, <1>4, <1>5, <1>6

\* Blackening one gray object keeps the inductive invariant.
LEMMA BlackenInductive ==
  ASSUME Inductive, NEW o \in Obj, blacken(o)
  PROVE  Inductive'
<1> USE DEF Inductive, blacken, heapV, listV, countV, cursorV
<1>1. TypeOK'
  BY DEF TypeOK
<1>2. HeapClosed' /\ FreeIsEmpty' /\ NothingHeld' /\ MarksUnused' /\ Sweeping'
  BY DEF HeapClosed, FreeIsEmpty, NothingHeld, MarksUnused, Sweeping, Visible, Closed
<1>3. TriColor'
  <2>1. Closed(Reach(roots, refs), refs)
    BY ReachIsLeast DEF TypeOK, Graph
  <2>2. refs[o] \subseteq Reach(roots, refs)
    BY <2>1 DEF TriColor, Closed
  <2> QED
    BY <2>2 DEF TriColor
<1>4. ListThreadsLive' /\ Destroying'
  BY DEF ListThreadsLive, Destroying, Running, Follows
<1>5. CountersAgree' /\ AllocationsOwed'
  BY DEF CountersAgree, AllocationsOwed, Running
<1> QED
  BY <1>1, <1>2, <1>3, <1>4, <1>5

\* When the worklist is empty the marked objects are exactly the reachable ones.
LEMMA MarkedIsReachable ==
  ASSUME Inductive, phase = "trace", gray = {}
  PROVE  /\ marked = Reach(roots, refs) /\ Closed(marked, refs)
         /\ roots \subseteq marked /\ marked \subseteq live
<1> USE DEF Inductive
<1>1. roots \in SUBSET Obj /\ refs \in Graph /\ live \in SUBSET Obj /\ marked \in SUBSET Obj
  BY LiveIsFinite DEF TypeOK, Graph
<1>2. roots \subseteq marked /\ Closed(marked, refs) /\ marked \subseteq Reach(roots, refs)
  BY DEF TriColor, Closed
<1>3. marked = Reach(roots, refs)
  BY <1>1, <1>2, ReachUnique
<1>4. marked \subseteq live
  BY <1>1, <1>3, ReachIsLeast DEF HeapClosed, Visible
<1> QED
  BY <1>2, <1>3, <1>4

\* So does the change from tracing to sweeping, when the gray stack is empty.
LEMMA BeginSweepInductive ==
  ASSUME Inductive, BeginSweep
  PROVE  Inductive'
<1> USE MaxObjectsAssumption
<1> USE DEF Inductive, BeginSweep, heapV, listV, markV, countV
<1>1. TypeOK'
  BY DEF TypeOK, Phases, NULL
<1>2. HeapClosed' /\ FreeIsEmpty' /\ NothingHeld' /\ MarksUnused' /\ TriColor'
  BY DEF HeapClosed, FreeIsEmpty, NothingHeld, MarksUnused, TriColor
<1>3. Sweeping'
  <2>1. Follows(objects, born + 1, live)
    BY DEF ListThreadsLive, Running
  <2>2. \A p \in live : p <= objects /\ ~(p > objects)
    BY <2>1 DEF TypeOK, Follows
  <2>3. /\ marked = Reach(roots, refs) /\ Closed(marked, refs)
        /\ roots \subseteq marked /\ marked \subseteq live
    BY MarkedIsReachable
  <2>4. Survivors' = marked
    BY <2>2, <2>3 DEF Survivors
  <2> QED
    BY <2>2, <2>3, <2>4 DEF Sweeping, Closed
<1>4. ListThreadsLive' /\ Destroying'
  BY DEF ListThreadsLive, Destroying, Running, Follows
<1>5. CountersAgree' /\ AllocationsOwed'
  BY DEF CountersAgree, AllocationsOwed, Running
<1> QED
  BY <1>1, <1>2, <1>3, <1>4, <1>5

\* The cursor is on a live object, and what it moves on to is the next one down.
LEMMA CursorFacts ==
  ASSUME Inductive, phase = "sweep", obj # NULL
  PROVE  /\ obj \in live /\ obj \in Obj /\ live \subseteq Obj
         /\ Follows(next[obj], obj, live)
         /\ next[obj] \in 0 .. MaxObjects /\ next[obj] < obj
<1> USE DEF Inductive
<1>1. live \subseteq Obj /\ obj \in Nat /\ Running
  BY LiveIsFinite, MaxObjectsAssumption DEF TypeOK, Running
<1>2. obj \in live
  BY <1>1 DEF Sweeping, ListThreadsLive, Follows
<1>3. Follows(next[obj], obj, live) /\ next[obj] \in 0 .. MaxObjects
  BY <1>1, <1>2 DEF ListThreadsLive, TypeOK
<1>4. next[obj] < obj
  BY <1>1, <1>2, <1>3, MaxObjectsAssumption DEF Follows, NULL, Obj
<1> QED
  BY <1>1, <1>2, <1>3, <1>4

\* A step of the sweep leaves the set of survivors alone.
LEMMA SurvivorsStay ==
  ASSUME Inductive, SweepKeep \/ SweepFree
  PROVE  Survivors' = Survivors
<1> DEFINE n == next[obj]
<1>1. /\ obj \in live /\ obj \in Obj /\ live \subseteq Obj
      /\ Follows(n, obj, live) /\ n \in 0 .. MaxObjects /\ n < obj
  BY CursorFacts DEF SweepKeep, SweepFree
<1>2. \A o \in live : o > n <=> (o > obj \/ o = obj)
  BY <1>1, MaxObjectsAssumption DEF Follows, Obj
<1>3. CASE SweepKeep
  BY <1>1, <1>2, <1>3 DEF SweepKeep, Survivors, heapV
<1>4. CASE SweepFree
  <2>1. ~(obj > obj)
    BY <1>1 DEF Obj
  <2> QED
    BY <1>1, <1>2, <1>4, <2>1 DEF SweepFree, Survivors, delete, markV
<1> QED
  BY <1>3, <1>4

\* So does passing over a marked object, whose mark is reset.
LEMMA SweepKeepInductive ==
  ASSUME Inductive, SweepKeep
  PROVE  Inductive'
<1> USE MaxObjectsAssumption
<1> USE DEF Inductive, SweepKeep, heapV, listV, countV
<1>1. /\ obj \in live /\ obj \in Obj /\ live \subseteq Obj
      /\ Follows(next[obj], obj, live)
      /\ next[obj] \in 0 .. MaxObjects /\ next[obj] < obj
  BY CursorFacts
<1>2. TypeOK'
  BY <1>1 DEF TypeOK, Obj
<1>3. HeapClosed' /\ FreeIsEmpty' /\ NothingHeld' /\ MarksUnused' /\ TriColor'
  BY DEF HeapClosed, FreeIsEmpty, NothingHeld, MarksUnused, TriColor
<1>4. Sweeping'
  <2>1. Survivors' = Survivors
    BY SurvivorsStay
  <2>2. /\ roots' \subseteq Survivors' /\ Closed(Survivors', refs')
        /\ Survivors' \subseteq Reach(roots', refs')
        /\ gray' = {} /\ marked' \subseteq live'
    BY <2>1 DEF Sweeping, Closed
  <2>3. \A o \in marked' : o <= obj'
    BY <1>1 DEF Sweeping, Follows, Obj
  <2>4. \A o \in live' : o > obj' => o >= previous'
    <3>1. ASSUME NEW o \in live, o > next[obj] PROVE o >= obj
      BY <1>1, <3>1 DEF Follows, Obj
    <3> QED
      BY <3>1
  <2>5. previous' # NULL /\ previous' \in live' /\ previous' > obj' /\ next'[previous'] = obj'
    BY <1>1 DEF NULL, Obj
  <2> QED
    BY <2>2, <2>3, <2>4, <2>5 DEF Sweeping
<1>5. ListThreadsLive' /\ Destroying'
  BY DEF ListThreadsLive, Destroying, Running, Follows
<1>6. CountersAgree' /\ AllocationsOwed'
  BY DEF CountersAgree, AllocationsOwed, Running
<1> QED
  BY <1>2, <1>3, <1>4, <1>5, <1>6

\* So does unlinking and deleting an unmarked object.
LEMMA SweepFreeInductive ==
  ASSUME Inductive, SweepFree
  PROVE  Inductive'
<1> USE MaxObjectsAssumption
<1> USE DEF Inductive, SweepFree, delete, markV
<1> DEFINE n == next[obj]
<1>1. /\ obj \in live /\ obj \in Obj /\ live \subseteq Obj
      /\ Follows(n, obj, live) /\ n \in 0 .. MaxObjects /\ n < obj
  BY CursorFacts
<1>2. CountersAgree' /\ AllocationsOwed' /\ live_count' \in Nat
  BY <1>1, LiveCardinality, LiveIsFinite
  DEF CountersAgree, AllocationsOwed, Running, TypeOK
<1>3. \A o \in live : o > obj => previous # NULL /\ o >= previous
  BY DEF Sweeping
<1>4. previous # NULL => previous \in live /\ previous \in Obj /\ previous > obj /\ next[previous] = obj
  BY <1>1 DEF Sweeping
<1>5. TypeOK'
  <2>1. objects' \in 0 .. MaxObjects /\ next' \in [Obj -> 0 .. MaxObjects]
    BY <1>1, <1>4 DEF TypeOK, unlink
  <2>2. /\ born' \in 0 .. MaxObjects /\ live' \subseteq 1 .. born'
        /\ refs' \in [Obj -> SUBSET Obj]
        /\ roots' \subseteq Obj /\ held' \subseteq Obj /\ fresh' \in 0 .. MaxPerInstr
    BY <1>1 DEF TypeOK
  <2>3. /\ phase' \in Phases /\ marked' \subseteq Obj /\ gray' \subseteq Obj
        /\ allocations_since_gc' \in Nat /\ collections' \in 0 .. MaxCollections
        /\ freed_count' \in Nat /\ previous' \in 0 .. MaxObjects /\ obj' \in 0 .. MaxObjects
    BY <1>1 DEF TypeOK
  <2> QED
    BY <1>2, <2>1, <2>2, <2>3 DEF TypeOK
<1>6. HeapClosed' /\ FreeIsEmpty' /\ NothingHeld' /\ MarksUnused' /\ TriColor'
  BY <1>1 DEF HeapClosed, FreeIsEmpty, NothingHeld, MarksUnused, TriColor, TypeOK
\* The list skips exactly the freed object.
<1>7. ListThreadsLive'
  <2>1. Follows(objects, born + 1, live) /\ \A o \in live : Follows(next[o], o, live)
    BY DEF ListThreadsLive, Running
  <2>2. Follows(objects', born + 1, live')
    <3>1. CASE previous = NULL
      <4>1. obj = objects /\ objects' = n
        BY <3>1 DEF Sweeping, unlink
      <4> QED
        BY <1>1, <2>1, <4>1 DEF Follows, TypeOK, Obj
    <3>2. CASE previous # NULL
      <4>1. objects' = objects /\ objects # obj
        BY <1>1, <1>4, <2>1, <3>2 DEF unlink, Follows, TypeOK, Obj
      <4> QED
        BY <1>1, <2>1, <4>1 DEF Follows, TypeOK, Obj
    <3> QED
      BY <3>1, <3>2
  <2>3. ASSUME NEW p \in live' PROVE Follows(next'[p], p, live')
    <3>0. p \in live /\ p # obj /\ p \in Obj /\ Follows(next[p], p, live)
      BY <1>1, <2>1, <2>3
    <3>1. CASE previous # NULL /\ p = previous
      <4>1. next'[p] = n /\ next[p] = obj
        BY <1>4, <3>0, <3>1 DEF unlink, TypeOK
      <4> QED
        BY <1>1, <1>4, <3>0, <3>1, <4>1 DEF Follows, Obj
    <3>2. CASE previous = NULL \/ p # previous
      <4>1. next'[p] = next[p]
        BY <1>4, <3>0, <3>2 DEF unlink, TypeOK
      <4>2. next[p] # obj
        BY <1>1, <1>3, <1>4, <3>0, <3>2 DEF Follows, Obj, NULL
      <4> QED
        BY <1>1, <3>0, <4>1, <4>2 DEF Follows, Obj
    <3> QED
      BY <3>1, <3>2
  <2> QED
    BY <2>2, <2>3 DEF ListThreadsLive
<1>8. Sweeping'
  <2>1. Survivors' = Survivors /\ obj \notin Survivors /\ Survivors \in SUBSET Obj
    BY <1>1, SurvivorsStay DEF Survivors, Obj
  <2>2. \A o \in Survivors : refs'[o] = refs[o]
    BY <1>1, <2>1 DEF TypeOK
  <2>3. roots \subseteq Survivors /\ Closed(Survivors, refs) /\ Survivors \subseteq Reach(roots, refs)
    BY DEF Sweeping
  <2>4. Closed(Survivors, refs')
    BY <2>2, <2>3 DEF Closed
  <2>5. Reach(roots, refs') = Reach(roots, refs)
    <3>1. roots \in SUBSET Obj /\ refs \in Graph /\ refs' \in Graph
      BY <1>5 DEF TypeOK, Graph
    <3>2. ASSUME NEW f \in Graph, \A o \in Survivors : f[o] = refs[o]
          PROVE  Reach(roots, f) = Reach(roots, refs)
      BY <2>1, <2>3, <3>1, <3>2, ReachLocal
    <3> QED
      BY <2>2, <3>1, <3>2
  <2>6. /\ roots' \subseteq Survivors' /\ Closed(Survivors', refs')
        /\ Survivors' \subseteq Reach(roots', refs')
        /\ gray' = {} /\ marked' \subseteq live'
    BY <2>1, <2>3, <2>4, <2>5 DEF Sweeping
  <2>7. \A o \in marked' : o <= obj'
    <3>1. ASSUME NEW o \in marked PROVE o <= n
      <4>1. o \in live /\ o # obj /\ o <= obj
        BY DEF Sweeping
      <4> QED
        BY <1>1, <4>1 DEF Follows, Obj
    <3> QED
      BY <3>1
  <2>8. previous' = NULL => obj' = objects'
    BY DEF unlink
  <2>9. previous' # NULL => previous' \in live' /\ previous' > obj' /\ next'[previous'] = obj'
    BY <1>1, <1>4 DEF unlink, TypeOK, Obj
  <2>10. \A o \in live' : o > obj' => previous' # NULL /\ o >= previous'
    BY <1>1, <1>3 DEF Follows, Obj
  <2> QED
    BY <2>6, <2>7, <2>8, <2>9, <2>10 DEF Sweeping
<1>9. Destroying'
  BY DEF Destroying, Running
<1> QED
  BY <1>2, <1>5, <1>6, <1>7, <1>8, <1>9

\* At the end of the sweep the survivors are the live objects.
LEMMA SweptIsReachable ==
  ASSUME Inductive, phase = "sweep", obj = NULL
  PROVE  Survivors = live /\ live = Reach(roots, refs) /\ marked = {} /\ Closed(live, refs)
<1> USE DEF Inductive
<1>1. roots \in SUBSET Obj /\ refs \in Graph /\ live \in SUBSET Obj
  BY LiveIsFinite DEF TypeOK, Graph
<1>0. \A o \in live : o > obj /\ ~(o <= obj)
  BY <1>1 DEF NULL, Obj
<1>2. Survivors = live
  BY <1>0 DEF Survivors
<1>3. marked = {}
  BY <1>0 DEF Sweeping
<1>4. live = Reach(roots, refs)
  BY <1>1, <1>2, ReachUnique DEF Sweeping
<1> QED
  BY <1>2, <1>3, <1>4 DEF Sweeping

\* So does the end of a collection, when the list has been walked.
LEMMA EndCollectInductive ==
  ASSUME Inductive, EndCollect
  PROVE  Inductive'
<1> USE DEF Inductive, EndCollect, heapV, listV, markV, cursorV
<1>1. Survivors = live /\ marked = {} /\ Closed(live, refs) /\ gray = {} /\ held = {}
  BY SweptIsReachable DEF Sweeping, NothingHeld
<1>2. TypeOK'
  BY DEF TypeOK, Phases
<1>3. HeapClosed' /\ FreeIsEmpty'
  BY <1>1 DEF HeapClosed, FreeIsEmpty, Sweeping, Visible, Closed
<1>4. NothingHeld' /\ MarksUnused' /\ TriColor' /\ Sweeping'
  BY <1>1 DEF NothingHeld, MarksUnused, TriColor, Sweeping
<1>5. ListThreadsLive' /\ Destroying'
  BY DEF ListThreadsLive, Destroying, Running, Follows
<1>6. CountersAgree' /\ AllocationsOwed'
  BY DEF CountersAgree, AllocationsOwed, Running, TypeOK
<1> QED
  BY <1>2, <1>3, <1>4, <1>5, <1>6

\* So do the steps of the destructor, which deletes the list front to back.
LEMMA DestructorInductive ==
  ASSUME Inductive, DestructorStep
  PROVE  Inductive'
<1> USE MaxObjectsAssumption
<1> USE DEF Inductive, heapV, listV, markV, countV, cursorV
<1>1. CASE BeginDestroy
  <2> USE <1>1 DEF BeginDestroy
  <2>1. TypeOK'
    BY DEF TypeOK, Phases
  <2>2. Destroying'
    BY DEF Destroying, ListThreadsLive, Running, Follows
  <2>3. FreeIsEmpty'
    BY DEF FreeIsEmpty
  <2> QED
    BY <2>1, <2>2, <2>3 DEF HeapClosed, NothingHeld, MarksUnused, TriColor, Sweeping,
       ListThreadsLive, Running, CountersAgree, AllocationsOwed
<1>2. CASE DestroyStep
  <2> USE <1>2 DEF DestroyStep, delete
  <2>1. /\ live \subseteq Obj /\ Follows(obj, born + 1, live)
        /\ \A o \in live : Follows(next[o], o, live)
    BY LiveIsFinite DEF Destroying, Running
  <2>2. obj \in live /\ next[obj] \in 0 .. MaxObjects
    BY <2>1 DEF Follows, TypeOK
  <2>3. TypeOK'
    BY <2>2 DEF TypeOK
  <2>4. FreeIsEmpty'
    BY <2>1, <2>2 DEF FreeIsEmpty, TypeOK
  <2>5. \A o \in live' : o < obj
    BY <2>1, <2>2 DEF Follows, TypeOK, Obj
  <2>6. Follows(obj', born' + 1, live')
    BY <2>1, <2>2, <2>5 DEF Follows, TypeOK, Obj, NULL
  <2>7. \A o \in live' : Follows(next'[o], o, live')
    BY <2>1, <2>2, <2>5 DEF Follows, TypeOK, Obj
  <2>8. Destroying'
    BY <2>6, <2>7 DEF Destroying
  <2> QED
    BY <2>3, <2>4, <2>8 DEF HeapClosed, NothingHeld, MarksUnused, TriColor, Sweeping,
       ListThreadsLive, Running, CountersAgree, AllocationsOwed
<1>3. CASE EndDestroy
  <2> USE <1>3 DEF EndDestroy
  <2>1. TypeOK'
    BY DEF TypeOK, Phases
  <2>2. Destroying' /\ FreeIsEmpty'
    BY DEF Destroying, FreeIsEmpty, Running, Follows
  <2> QED
    BY <2>1, <2>2 DEF HeapClosed, NothingHeld, MarksUnused, TriColor, Sweeping,
       ListThreadsLive, Running, CountersAgree, AllocationsOwed
<1> QED
  BY <1>1, <1>2, <1>3 DEF DestructorStep

-----------------------------------------------------------------------------
\* A stuttering step keeps the inductive invariant.
LEMMA StutterInductive ==
  ASSUME Inductive, UNCHANGED vars
  PROVE  Inductive'
<1> USE DEF Inductive, vars, heapV, listV, markV, countV, cursorV
<1>1. TypeOK' /\ HeapClosed' /\ FreeIsEmpty' /\ NothingHeld' /\ MarksUnused' /\ TriColor'
  BY DEF TypeOK, HeapClosed, FreeIsEmpty, NothingHeld, MarksUnused, TriColor, Visible, Closed
<1>2. Sweeping'
  BY DEF Sweeping, Survivors, Running, Closed
<1>3. ListThreadsLive' /\ Destroying' /\ CountersAgree' /\ AllocationsOwed'
  BY DEF ListThreadsLive, Destroying, CountersAgree, AllocationsOwed, Running, Follows
<1> QED
  BY <1>1, <1>2, <1>3

\* Inductive is an invariant of the collector: one case per action.
LEMMA InductiveStep == Inductive /\ [Next]_vars => Inductive'
<1> SUFFICES ASSUME Inductive, [Next]_vars PROVE Inductive'
  OBVIOUS
<1>1. CASE MutatorStep
  <2>1. CASE Allocate
    BY <2>1, AllocateInductive
  <2>2. ASSUME NEW o \in Obj, Load(o) \/ Root(o) \/ Unroot(o) PROVE Inductive'
    BY <2>2, PointerStepsInductive
  <2>3. ASSUME NEW p \in Obj, NEW o \in Obj, Store(p, o) \/ Unstore(p, o) PROVE Inductive'
    BY <2>3, PointerStepsInductive
  <2>4. CASE EndInstr \/ BeginInstr
    BY <2>4, InstructionInductive
  <2> QED
    BY <1>1, <2>1, <2>2, <2>3, <2>4 DEF MutatorStep
<1>2. CASE BeginCollect
  BY <1>2, InstructionInductive
<1>3. CASE CollectorStep
  <2>1. CASE mark_value_roots
    BY <2>1, InstructionInductive
  <2>2. ASSUME NEW o \in Obj, blacken(o) PROVE Inductive'
    BY <2>2, BlackenInductive
  <2>3. CASE BeginSweep
    BY <2>3, BeginSweepInductive
  <2>4. CASE SweepKeep
    BY <2>4, SweepKeepInductive
  <2>5. CASE SweepFree
    BY <2>5, SweepFreeInductive
  <2>6. CASE EndCollect
    BY <2>6, EndCollectInductive
  <2> QED
    BY <1>3, <2>1, <2>2, <2>3, <2>4, <2>5, <2>6 DEF CollectorStep
<1>4. CASE DestructorStep
  BY <1>4, DestructorInductive
<1>5. CASE UNCHANGED vars
  BY <1>5, StutterInductive
<1> QED
  BY <1>1, <1>2, <1>3, <1>4, <1>5 DEF Next

\* The inductive invariant holds throughout every run of the collector.
THEOREM InductiveInvariant == Spec => []Inductive
BY InductiveInit, InductiveStep, PTL DEF Spec

\* What the program reaches is live, whatever phase the collector is in.
LEMMA InductiveIsSafe == Inductive => NoDanglingPointer
<1> SUFFICES ASSUME Inductive, Running PROVE Reach(Visible, refs) \subseteq live
  BY DEF NoDanglingPointer
<1> USE DEF Inductive
<1>1. Visible \in SUBSET Obj /\ refs \in Graph /\ live \in SUBSET Obj
  BY LiveIsFinite DEF TypeOK, Graph, Visible
<1>2. CASE phase = "sweep"
  <2>1. Visible \subseteq Survivors /\ Closed(Survivors, refs) /\ Survivors \subseteq live
    BY <1>2 DEF Sweeping, NothingHeld, Visible, Survivors
  <2>2. Survivors \in SUBSET Obj
    BY <1>1, <2>1
  <2> QED
    BY <1>1, <2>1, <2>2, ReachIsLeast
<1>3. CASE phase # "sweep"
  <2>1. Visible \subseteq live /\ Closed(live, refs)
    BY <1>3 DEF HeapClosed, Running, TypeOK, Phases
  <2> QED
    BY <1>1, <2>1, ReachIsLeast
<1> QED
  BY <1>2, <1>3

(***************************************************************************)
(* No use after free, for any number of objects, any threshold and any     *)
(* interleaving of allocations, pointer updates and collections.           *)
(***************************************************************************)
THEOREM CollectorIsSafe == Spec => []NoDanglingPointer
BY InductiveInvariant, InductiveIsSafe, PTL

\* Every variable of the collector keeps its type.
THEOREM CollectorTypeOK == Spec => []TypeOK
BY InductiveInvariant, PTL DEF Inductive

\* While marking, no black object points at a white one and only what is reachable
\* is marked (mark_object, blacken).
THEOREM CollectorTriColor == Spec => []TriColor
BY InductiveInvariant, PTL DEF Inductive

\* Each collection starts all white: sweep has reset every mark it left.
THEOREM CollectorResetsMarks == Spec => []MarksReset
<1>1. Inductive => MarksReset
  BY DEF Inductive, MarksUnused, MarksReset, Idle
<1> QED
  BY <1>1, InductiveInvariant, PTL

\* The intrusive list of gc.h runs through exactly the live objects, during a sweep too.
THEOREM CollectorListIsExact == Spec => []ListThreadsLive
BY InductiveInvariant, PTL DEF Inductive

\* live_count and freed_count account for every object that was ever allocated.
THEOREM CollectorCounters == Spec => []CountersAgree
BY InductiveInvariant, PTL DEF Inductive

\* Allocations between two collections exceed the threshold by less than what one
\* instruction allocates.
THEOREM CollectorBounded == Spec => []AllocationsBounded
<1>1. Inductive => AllocationsBounded
  BY GcAssumption DEF Inductive, AllocationsOwed, AllocationsBounded, TypeOK
<1> QED
  BY <1>1, InductiveInvariant, PTL

\* The destructor deletes every object, each while it exists.
THEOREM CollectorLeaksNothing == Spec => []NothingLeaks
<1>1. Inductive => NothingLeaks
  <2> SUFFICES ASSUME Inductive, ~Running PROVE NothingLeaks
    BY DEF NothingLeaks, Running
  <2>1. Follows(obj, born + 1, live) /\ live \subseteq 1 .. born
    BY DEF Inductive, Destroying, TypeOK
  <2>2. born \in Nat
    BY MaxObjectsAssumption DEF Inductive, TypeOK
  <2>3. obj = NULL => live = {}
    BY <2>1, <2>2 DEF Follows
  <2> QED
    BY <2>1, <2>3 DEF NothingLeaks, Follows, Inductive, Destroying
<1> QED
  BY <1>1, InductiveInvariant, PTL

\* Every collection frees exactly the unreachable objects.
THEOREM CollectorIsExact == Spec => CollectionIsExact
<1>1. Inductive /\ [Next]_vars =>
        [phase = "sweep" /\ phase' = "instr" => live' = Reach(roots, refs)]_vars
  <2> SUFFICES ASSUME Inductive, Next, phase = "sweep", phase' = "instr"
               PROVE  live' = Reach(roots, refs)
    BY DEF vars
  <2>1. EndCollect
    BY DEF Next, MutatorStep, CollectorStep, DestructorStep, Allocate, Load, Root, Unroot,
       Store, Unstore, EndInstr, BeginInstr, BeginCollect, mark_value_roots, blacken,
       BeginSweep, SweepKeep, SweepFree, BeginDestroy, DestroyStep, EndDestroy
  <2> QED
    BY <2>1, SweptIsReachable DEF EndCollect, heapV
<1> QED
  BY <1>1, InductiveInvariant, PTL DEF Spec, CollectionIsExact

-----------------------------------------------------------------------------
(***************************************************************************)
(* Refinement of the abstract heap.                                        *)
(***************************************************************************)
absRefs == [o \in Obj |-> IF o \in Survivors THEN refs[o] ELSE {}]
absRoots == IF Running THEN Visible ELSE {}

\* The abstract heap's reachability is the collector's.
LEMMA AbsGraph ==
  Abs!Obj = Obj /\ \A S, e : Abs!Reach(S, e) = Reach(S, e)
<1>1. Abs!Obj = Obj
  BY DEF Abs!Obj, Obj
<1>2. ASSUME NEW S, NEW e PROVE Abs!Reach(S, e) = Reach(S, e)
  BY <1>1 DEF Abs!Reach, Reach, Abs!Closed, Closed
<1> QED
  BY <1>1, <1>2

\* Outside the sweep the abstract heap is the concrete one.
AbsIsConcrete == Survivors = live /\ absRefs = refs /\ absRoots = Visible

\* Outside a sweep the abstract heap is the concrete one.
LEMMA AbsOutsideSweep == Inductive /\ Running /\ ~(phase = "sweep") => AbsIsConcrete
BY DEF AbsIsConcrete, Survivors, absRefs, absRoots, Inductive, FreeIsEmpty, TypeOK

\* The same in the next state.
LEMMA AbsOutsideSweepNext ==
  Inductive' /\ Running' /\ ~(phase = "sweep")' => AbsIsConcrete'
BY AbsOutsideSweep, PTL

\* In the sweep it is what marking found reachable.
AbsIsMarked == Survivors = Reach(roots, refs) /\ absRoots = roots

\* During a sweep the abstract heap has lost the garbage already: what is left is what was marked.
LEMMA AbsInSweep == Inductive /\ phase = "sweep" => AbsIsMarked
<1> SUFFICES ASSUME Inductive, phase = "sweep" PROVE AbsIsMarked
  OBVIOUS
<1>1. roots \in SUBSET Obj /\ refs \in Graph /\ Survivors \in SUBSET Obj
  BY LiveIsFinite DEF Inductive, TypeOK, Graph, Survivors
<1>2. Survivors = Reach(roots, refs)
  BY <1>1, ReachUnique DEF Inductive, Sweeping
<1> QED
  BY <1>2 DEF AbsIsMarked, absRoots, Running, Visible, Inductive, NothingHeld

\* The same in the next state.
LEMMA AbsInSweepNext == Inductive' /\ (phase = "sweep")' => AbsIsMarked'
BY AbsInSweep, PTL

\* The initial states map to initial states of the abstract heap.
LEMMA AbsInit == Init => Abs!Init
<1> SUFFICES ASSUME Init PROVE Abs!Init
  OBVIOUS
<1>1. Survivors = {} /\ absRoots = {} /\ absRefs = [o \in Obj |-> {}]
  BY DEF Init, Survivors, Running, absRoots, absRefs, Visible
<1> QED
  BY <1>1, AbsGraph DEF Abs!Init, absRoots, absRefs

\* A step of an instruction is a step of the abstract program.
LEMMA AbsMutate ==
  ASSUME Inductive, Inductive', phase = "instr", Running', phase' # "sweep",
         NEW New \in SUBSET (Obj \ live),
         live' = live \cup New,
         Visible' \subseteq Reach(Visible, refs) \cup New,
         \A o \in Obj : refs'[o] # refs[o] =>
            /\ o \in Reach(Visible, refs) \cup New
            /\ refs'[o] \subseteq Reach(Visible, refs) \cup New
  PROVE  Abs!Mutate
<1>1. Survivors = live /\ absRefs = refs /\ absRoots = Visible
  BY AbsOutsideSweep DEF Running, AbsIsConcrete
<1>2. Survivors' = live' /\ absRefs' = refs' /\ absRoots' = Visible'
  BY AbsOutsideSweepNext DEF AbsIsConcrete
<1>3. Abs!Reachable = Reach(Visible, refs)
  BY <1>1, AbsGraph DEF Abs!Reachable, absRefs, absRoots
<1>4. refs' \in [Obj -> SUBSET Obj]
  BY DEF Inductive, TypeOK
<1>5. Abs!MutateWith(New)
  BY <1>1, <1>2, <1>3, <1>4, AbsGraph DEF Abs!MutateWith, absRefs, absRoots
<1> QED
  BY <1>1, <1>5, AbsGraph DEF Abs!Mutate

\* A step of the running program maps to a mutation of the abstract heap.
LEMMA AbsMutatorStep ==
  ASSUME Inductive, Inductive', MutatorStep
  PROVE  Abs!Mutate \/ UNCHANGED Abs!heapVars
<1> DEFINE R == Reach(Visible, refs)
<1>1. R \in SUBSET Obj /\ Visible \subseteq R /\ \A p \in R : refs[p] \subseteq R
  <2>1. Visible \in SUBSET Obj /\ refs \in Graph
    BY DEF Inductive, TypeOK, Visible, Graph
  <2> QED
    BY <2>1, ReachIsLeast DEF Closed
<1>2. CASE BeginInstr
  <2>1. Survivors = live /\ absRefs = refs /\ absRoots = Visible
    BY <1>2, AbsOutsideSweep DEF BeginInstr, Running, AbsIsConcrete
  <2>2. Survivors' = live' /\ absRefs' = refs' /\ absRoots' = Visible'
    BY <1>2, AbsOutsideSweepNext DEF BeginInstr, Running, AbsIsConcrete
  <2> QED
    BY <1>2, <2>1, <2>2 DEF BeginInstr, heapV, Visible, Abs!heapVars, absRefs, absRoots
<1>3. ASSUME ~BeginInstr PROVE phase = "instr" /\ phase' \in {"instr", "boundary"}
  BY <1>3 DEF MutatorStep, Allocate, Load, Root, Unroot, Store, Unstore, EndInstr
<1>4. CASE Allocate
  <2>1. born + 1 \in Obj \ live
    BY <1>4, MaxObjectsAssumption DEF Allocate, Inductive, TypeOK, Obj
  <2>2. live' = live \cup {born + 1} /\ Visible' = Visible \cup {born + 1} /\ refs' = refs
    BY <1>4 DEF Allocate, Visible
  <2>3. phase = "instr" /\ phase' = "instr"
    BY <1>4 DEF Allocate
  <2> QED
    BY <1>1, <2>1, <2>2, <2>3, AbsMutate DEF Running
<1>5. ASSUME ~BeginInstr, ~Allocate PROVE Abs!Mutate
  <2>1. phase = "instr" /\ Running' /\ phase' # "sweep" /\ live' = live
    <3>1. live' = live
      BY <1>5 DEF MutatorStep, Load, Root, Unroot, Store, Unstore, EndInstr
    <3> QED
      BY <1>3, <1>5, <3>1 DEF Running
  <2>2. Visible' \subseteq R
    BY <1>1, <1>5 DEF MutatorStep, Load, Root, Unroot, Store, Unstore, EndInstr, Visible
  <2>3. \A p \in Obj : refs'[p] # refs[p] => p \in R /\ refs'[p] \subseteq R
    BY <1>1, <1>5 DEF MutatorStep, Load, Root, Unroot, Store, Unstore, EndInstr,
       Inductive, TypeOK
  <2>4. {} \in SUBSET (Obj \ live) /\ live' = live \cup {} /\ R \cup {} = R
    BY <2>1
  <2> QED
    BY <2>1, <2>2, <2>3, <2>4, AbsMutate
<1> QED
  BY <1>2, <1>4, <1>5

\* The end of marking is the abstract collection.
LEMMA AbsBeginSweep ==
  ASSUME Inductive, Inductive', BeginSweep
  PROVE  Abs!Collect
<1>1. Survivors = live /\ absRefs = refs /\ absRoots = Visible
  BY AbsOutsideSweep DEF BeginSweep, Running, AbsIsConcrete
<1>2. Survivors' = Reach(roots', refs') /\ absRoots' = roots'
  BY AbsInSweepNext DEF BeginSweep, AbsIsMarked
<1>3. refs' = refs /\ roots' = roots /\ Visible = roots
  BY DEF BeginSweep, heapV, Visible, Inductive, NothingHeld
<1>4. roots \subseteq Reach(roots, refs)
  BY ReachIsLeast DEF Inductive, TypeOK, Graph
<1>5. absRefs' = [o \in Obj |-> IF o \in Survivors' THEN absRefs[o] ELSE {}]
  BY <1>1, <1>3 DEF absRefs
<1> QED
  BY <1>1, <1>2, <1>3, <1>4, <1>5, AbsGraph
  DEF Abs!Collect, Abs!Reachable, absRefs, absRoots

\* The rest of a collection does not show.
LEMMA AbsStutter ==
  ASSUME Inductive, Inductive',
         \/ BeginCollect \/ mark_value_roots \/ (\E o \in Obj : blacken(o))
         \/ SweepKeep \/ SweepFree \/ EndCollect
  PROVE  UNCHANGED Abs!heapVars
<1> SUFFICES Survivors' = Survivors /\ absRefs' = absRefs /\ absRoots' = absRoots
  BY DEF Abs!heapVars, absRefs, absRoots
<1>1. CASE BeginCollect \/ mark_value_roots \/ (\E o \in Obj : blacken(o))
  <2>1. /\ Running /\ phase # "sweep" /\ Running' /\ phase' # "sweep"
        /\ live' = live /\ refs' = refs /\ Visible' = Visible
    BY <1>1 DEF BeginCollect, mark_value_roots, blacken, Running, heapV, Visible
  <2> QED
    BY <2>1, AbsOutsideSweep, AbsOutsideSweepNext DEF AbsIsConcrete
<1>2. CASE SweepKeep \/ SweepFree
  <2>1. Survivors' = Survivors
    BY <1>2, SurvivorsStay
  <2>2. absRoots' = absRoots
    BY <1>2 DEF SweepKeep, SweepFree, delete, heapV, absRoots, Running, Visible
  <2>3. \A o \in Survivors : refs'[o] = refs[o]
    <3>1. CASE SweepKeep
      BY <3>1 DEF SweepKeep, heapV
    <3>2. CASE SweepFree
      <4>1. obj \in Obj /\ live \subseteq Obj /\ ~(obj > obj)
        BY <3>2, CursorFacts DEF SweepFree, Obj
      <4>2. obj \notin Survivors /\ Survivors \subseteq Obj
        BY <3>2, <4>1 DEF SweepFree, Survivors
      <4> QED
        BY <3>2, <4>2 DEF SweepFree, delete, Inductive, TypeOK
    <3> QED
      BY <1>2, <3>1, <3>2
  <2> QED
    BY <2>1, <2>2, <2>3 DEF absRefs
<1>3. CASE EndCollect
  <2>1. Survivors = live
    BY <1>3, SweptIsReachable DEF EndCollect
  <2>2. Survivors' = live' /\ live' = live /\ refs' = refs
    BY <1>3, AbsOutsideSweepNext DEF EndCollect, Running, heapV, AbsIsConcrete
  <2>3. absRoots' = absRoots
    BY <1>3 DEF EndCollect, heapV, absRoots, Running, Visible
  <2> QED
    BY <2>1, <2>2, <2>3 DEF absRefs
<1> QED
  BY <1>1, <1>2, <1>3

\* A step of the destructor maps to the destruction of the abstract heap, or to nothing.
LEMMA AbsDestructorStep ==
  ASSUME Inductive, Inductive', DestructorStep
  PROVE  Abs!Destroy \/ UNCHANGED Abs!heapVars
<1>1. ~Running' /\ Survivors' = {} /\ absRoots' = {} /\ absRefs' = [o \in Obj |-> {}]
  BY DEF DestructorStep, BeginDestroy, DestroyStep, EndDestroy, Running, Survivors,
     absRoots, absRefs
<1> QED
  BY <1>1, AbsGraph DEF Abs!Destroy, absRoots, absRefs

\* A stuttering step maps to a stuttering step.
LEMMA AbsVarsUnchanged == UNCHANGED vars => UNCHANGED Abs!heapVars
BY DEF vars, heapV, markV, cursorV, Abs!heapVars, Survivors, Running, Visible

(***************************************************************************)
(* The mark-and-sweep collector, with its list, marks, worklist and        *)
(* cursor, implements the atomic collector of Heap.                        *)
(***************************************************************************)
THEOREM CollectorImplementsHeap == Spec => ImplementsHeap
<1>1. Inductive /\ Inductive' /\ [Next]_vars => [Abs!Next]_(Abs!heapVars)
  <2> SUFFICES ASSUME Inductive, Inductive', [Next]_vars
               PROVE  Abs!Next \/ UNCHANGED Abs!heapVars
    OBVIOUS
  <2>1. CASE MutatorStep
    BY <2>1, AbsMutatorStep DEF Abs!Next
  <2>2. CASE BeginSweep
    BY <2>2, AbsBeginSweep DEF Abs!Next
  <2>3. CASE BeginCollect \/ (CollectorStep /\ ~BeginSweep)
    BY <2>3, AbsStutter DEF CollectorStep
  <2>4. CASE DestructorStep
    BY <2>4, AbsDestructorStep DEF Abs!Next
  <2>5. CASE UNCHANGED vars
    BY <2>5, AbsVarsUnchanged
  <2> QED
    BY <2>1, <2>2, <2>3, <2>4, <2>5 DEF Next
<1> QED
  BY <1>1, AbsInit, InductiveInvariant, PTL DEF Spec, ImplementsHeap, Abs!Spec
=============================================================================
