------------------------- MODULE GarbageCollector --------------------------
(***************************************************************************)
(* The tri-color mark-and-sweep collector of bytecode/gc.h and gc.cpp,     *)
(* loop iteration by loop iteration, under the mutator that the VM's       *)
(* instructions amount to: an instruction reads pointers into C++ locals   *)
(* ("held"), allocates, stores and pushes in any order, and a collection   *)
(* starts only at an instruction boundary or inside the gc() native.       *)
(*                                                                         *)
(* Objects are named by allocation order, so the intrusive list, which     *)
(* grows at its head, runs through decreasing names.  The gray worklist is *)
(* a set: the order in which the code pushes onto it is that of an         *)
(* unordered_map's iteration, and no property depends on it.               *)
(***************************************************************************)
EXTENDS ObjectGraph

CONSTANTS
  Threshold,        \* threshold_: allocations between automatic collections
  MaxPerInstr,      \* most objects one instruction allocates (OP_CLOSURE: itself
                    \* and one upvalue per captured local)
  MaxCollections    \* bound: how many collections a behaviour may run

ASSUME GcAssumption ==
  /\ Threshold \in Nat
  /\ MaxPerInstr \in Nat
  /\ MaxCollections \in Nat

VARIABLES
  \* the heap and the mutator
  born,                   \* objects allocated so far
  live,                   \* objects allocated and not deleted
  refs,                   \* pointers stored in each object
  roots,                  \* stack_, frames_, open_upvalues_ and globals_ of the VM
  held,                   \* pointers held only by locals of the running instruction
  fresh,                  \* objects the running instruction has allocated
  \* the collector
  phase,
  objects,                \* objects_: head of the intrusive list
  next,                   \* Obj::next
  marked,                 \* the objects whose Obj::marked is set
  gray,                   \* gray_stack_
  live_count,
  allocations_since_gc,
  collections,
  freed_count,            \* g_gc_freed_count
  \* the sweep's (and the destructor's) cursor
  previous,
  obj

heapV == <<born, live, refs, roots, held, fresh>>
listV == <<objects, next>>
markV == <<marked, gray>>
countV == <<live_count, allocations_since_gc, collections, freed_count>>
cursorV == <<previous, obj>>
vars == <<heapV, listV, markV, countV, cursorV, phase>>

Phases == {"boundary", "instr", "roots", "trace", "sweep", "destroy", "gone"}

\* Everything the running instruction can reach for.
Visible == roots \cup held

\* Mutant: the threshold is off by one.
should_collect_late == allocations_since_gc > Threshold

should_collect == allocations_since_gc >= Threshold

Init ==
  /\ born = 0 /\ live = {} /\ refs = [o \in Obj |-> {}]
  /\ roots = {} /\ held = {} /\ fresh = 0
  /\ phase = "instr"                   \* VM::run allocates the script's closure
  /\ objects = NULL /\ next = [o \in Obj |-> NULL]
  /\ marked = {} /\ gray = {}
  /\ live_count = 0 /\ allocations_since_gc = 0
  /\ collections = 0 /\ freed_count = 0
  /\ previous = NULL /\ obj = NULL

-----------------------------------------------------------------------------
(***************************************************************************)
(* The mutator.                                                            *)
(***************************************************************************)

\* Mutant: the new object is not linked to the old head.
track_unlinked(o) ==
  /\ objects' = o
  /\ live_count' = live_count + 1
  /\ allocations_since_gc' = allocations_since_gc + 1
  /\ UNCHANGED <<next, collections, freed_count>>

\* track: the new object becomes the head of the list and is counted.
track(o) ==
  /\ next' = [next EXCEPT ![o] = objects]
  /\ objects' = o
  /\ live_count' = live_count + 1
  /\ allocations_since_gc' = allocations_since_gc + 1
  /\ UNCHANGED <<collections, freed_count>>

\* allocate<T>: construct, then track.  No collection is considered here.
Allocate ==
  /\ phase = "instr"
  /\ fresh < MaxPerInstr
  /\ born < MaxObjects
  /\ born' = born + 1
  /\ live' = live \cup {born + 1}
  /\ held' = held \cup {born + 1}
  /\ fresh' = fresh + 1
  /\ track(born + 1)
  /\ UNCHANGED <<refs, roots, markV, cursorV, phase>>

\* A pointer is read from a root, or through an object already at hand.
Load(o) ==
  /\ phase = "instr"
  /\ o \in roots \/ \E p \in Visible : o \in refs[p]
  /\ held' = held \cup {o}
  /\ UNCHANGED <<born, live, refs, roots, fresh, listV, markV, countV, cursorV, phase>>

\* push, OP_DEFINE_GLOBAL, a new frame, a new open upvalue.
Root(o) ==
  /\ phase = "instr"
  /\ o \in held
  /\ roots' = roots \cup {o}
  /\ UNCHANGED <<born, live, refs, held, fresh, listV, markV, countV, cursorV, phase>>

\* pop, resize, a frame popped, a global overwritten, an upvalue closed.
Unroot(o) ==
  /\ phase = "instr"
  /\ o \in roots
  /\ roots' = roots \ {o}
  /\ UNCHANGED <<born, live, refs, held, fresh, listV, markV, countV, cursorV, phase>>

\* A field, method, class, receiver, upvalue or closed value is written ...
Store(p, o) ==
  /\ phase = "instr"
  /\ p \in Visible /\ o \in Visible
  /\ refs' = [refs EXCEPT ![p] = @ \cup {o}]
  /\ UNCHANGED <<born, live, roots, held, fresh, listV, markV, countV, cursorV, phase>>

\* ... or overwritten.
Unstore(p, o) ==
  /\ phase = "instr"
  /\ p \in Visible
  /\ o \in refs[p]
  /\ refs' = [refs EXCEPT ![p] = @ \ {o}]
  /\ UNCHANGED <<born, live, roots, held, fresh, listV, markV, countV, cursorV, phase>>

\* The locals of the instruction go out of scope.
EndInstr ==
  /\ phase = "instr"
  /\ held' = {}
  /\ fresh' = 0
  /\ phase' = "boundary"
  /\ UNCHANGED <<born, live, refs, roots, listV, markV, countV, cursorV>>

\* The top of execute's loop when no collection is due.
BeginInstr ==
  /\ phase = "boundary"
  /\ ~should_collect
  /\ phase' = "instr"
  /\ UNCHANGED <<heapV, listV, markV, countV, cursorV>>

-----------------------------------------------------------------------------
(***************************************************************************)
(* The collector.                                                          *)
(***************************************************************************)

\* Mutant: a collection may start while an instruction holds pointers.
BeginCollect_mid_flight ==
  /\ collections < MaxCollections
  /\ phase = "instr"
  /\ collections' = collections + 1
  /\ phase' = "roots"
  /\ UNCHANGED <<heapV, listV, markV, live_count, allocations_since_gc, freed_count, cursorV>>

\* collect() is entered from the top of execute's loop, or from the gc()
\* native, whose call holds no heap pointer in a local.
BeginCollect ==
  /\ collections < MaxCollections
  /\ \/ phase = "boundary" /\ should_collect
     \/ phase = "instr" /\ held = {}
  /\ collections' = collections + 1
  /\ phase' = "roots"
  /\ UNCHANGED <<heapV, listV, markV, live_count, allocations_since_gc, freed_count, cursorV>>

\* mark on each object of S: the ones not yet marked become gray.
mark(S) ==
  /\ marked' = marked \cup S
  /\ gray' = (gray \cup (S \ marked))

mark_value_roots ==
  /\ phase = "roots"
  /\ mark(roots)
  /\ phase' = "trace"
  /\ UNCHANGED <<heapV, listV, countV, cursorV>>

\* Mutant: the children are marked but not put on the worklist.
blacken_shallow(o) ==
  /\ phase = "trace"
  /\ o \in gray
  /\ marked' = marked \cup refs[o]
  /\ gray' = gray \ {o}
  /\ UNCHANGED <<heapV, listV, countV, cursorV, phase>>

\* Mutant: children already marked go back on the worklist.
blacken_again(o) ==
  /\ phase = "trace"
  /\ o \in gray
  /\ marked' = marked \cup refs[o]
  /\ gray' = (gray \ {o}) \cup refs[o]
  /\ UNCHANGED <<heapV, listV, countV, cursorV, phase>>

\* One iteration of trace_references: a gray object is blackened.
blacken(o) ==
  /\ phase = "trace"
  /\ o \in gray
  /\ marked' = marked \cup refs[o]
  /\ gray' = (gray \ {o}) \cup (refs[o] \ marked)
  /\ UNCHANGED <<heapV, listV, countV, cursorV, phase>>

\* The worklist is empty: sweep() starts at the head of the list.
BeginSweep ==
  /\ phase = "trace"
  /\ gray = {}
  /\ previous' = NULL
  /\ obj' = objects
  /\ phase' = "sweep"
  /\ UNCHANGED <<heapV, listV, markV, countV>>

\* Mutant: the mark is not reset.
SweepKeep_no_reset ==
  /\ phase = "sweep"
  /\ obj # NULL
  /\ obj \in marked
  /\ previous' = obj
  /\ obj' = next[obj]
  /\ UNCHANGED <<heapV, listV, markV, countV, phase>>

\* Mutant: live_count is decremented for the objects that stay.
SweepKeep_discounts ==
  /\ phase = "sweep"
  /\ obj # NULL
  /\ obj \in marked
  /\ marked' = marked \ {obj}
  /\ previous' = obj
  /\ obj' = next[obj]
  /\ live_count' = live_count - 1
  /\ UNCHANGED <<heapV, listV, gray, allocations_since_gc, collections, freed_count, phase>>

\* One iteration of sweep on a marked object: its mark is reset for the next cycle.
SweepKeep ==
  /\ phase = "sweep"
  /\ obj # NULL
  /\ obj \in marked
  /\ marked' = marked \ {obj}
  /\ previous' = obj
  /\ obj' = next[obj]
  /\ UNCHANGED <<heapV, listV, gray, countV, phase>>

\* Mutant: an unreached head stays the head.
unlink_not_head(unreached) ==
  /\ next' = IF previous # NULL THEN [next EXCEPT ![previous] = next[unreached]] ELSE next
  /\ UNCHANGED objects

\* unreached is taken out of the list, from behind previous or from the head.
unlink(unreached) ==
  IF previous # NULL
  THEN /\ next' = [next EXCEPT ![previous] = next[unreached]]
       /\ UNCHANGED objects
  ELSE /\ objects' = next[unreached]
       /\ UNCHANGED next

\* delete: the object's storage, and the pointers in it, are gone.
delete(o) ==
  /\ live' = live \ {o}
  /\ refs' = [refs EXCEPT ![o] = {}]
  /\ UNCHANGED <<born, roots, held, fresh>>

\* Mutant: the object is freed but still counted as live.
SweepFree_uncounted ==
  /\ phase = "sweep"
  /\ obj # NULL
  /\ obj \notin marked
  /\ obj' = next[obj]
  /\ unlink(obj)
  /\ delete(obj)
  /\ freed_count' = freed_count + 1
  /\ UNCHANGED <<markV, live_count, allocations_since_gc, collections, previous, phase>>

\* One iteration of sweep on an unmarked object.
SweepFree ==
  /\ phase = "sweep"
  /\ obj # NULL
  /\ obj \notin marked
  /\ obj' = next[obj]
  /\ unlink(obj)
  /\ delete(obj)
  /\ live_count' = live_count - 1
  /\ freed_count' = freed_count + 1
  /\ UNCHANGED <<markV, allocations_since_gc, collections, previous, phase>>

\* sweep and collect return; the instruction goes on (or starts).
EndCollect ==
  /\ phase = "sweep"
  /\ obj = NULL
  /\ allocations_since_gc' = 0
  /\ phase' = "instr"
  /\ UNCHANGED <<heapV, listV, markV, live_count, collections, freed_count, cursorV>>

-----------------------------------------------------------------------------
(***************************************************************************)
(* ~GarbageCollector, once execute has returned.                           *)
(***************************************************************************)
BeginDestroy ==
  /\ phase = "boundary"
  /\ obj' = objects
  /\ phase' = "destroy"
  /\ UNCHANGED <<heapV, listV, markV, countV, previous>>

DestroyStep ==
  /\ phase = "destroy"
  /\ obj # NULL
  /\ obj' = next[obj]
  /\ delete(obj)
  /\ UNCHANGED <<listV, markV, countV, previous, phase>>

EndDestroy ==
  /\ phase = "destroy"
  /\ obj = NULL
  /\ phase' = "gone"
  /\ UNCHANGED <<heapV, listV, markV, countV, cursorV>>

-----------------------------------------------------------------------------
MutatorStep ==
  \/ Allocate
  \/ \E o \in Obj : Load(o) \/ Root(o) \/ Unroot(o)
  \/ \E p, o \in Obj : Store(p, o) \/ Unstore(p, o)
  \/ EndInstr
  \/ BeginInstr

\* What follows once collect() is entered: sequential code with no other exit.
CollectorStep ==
  \/ mark_value_roots
  \/ \E o \in Obj : blacken(o)
  \/ BeginSweep \/ SweepKeep \/ SweepFree \/ EndCollect

DestructorStep == BeginDestroy \/ DestroyStep \/ EndDestroy

Next == MutatorStep \/ BeginCollect \/ CollectorStep \/ DestructorStep

Spec == Init /\ [][Next]_vars /\ WF_vars(CollectorStep) /\ WF_vars(DestroyStep \/ EndDestroy)

-----------------------------------------------------------------------------
(***************************************************************************)
(* Properties.                                                             *)
(***************************************************************************)

\* Every variable holds a value of its kind.
TypeOK ==
  /\ born \in 0 .. MaxObjects /\ live \subseteq 1 .. born
  /\ refs \in [Obj -> SUBSET Obj]
  /\ roots \subseteq Obj /\ held \subseteq Obj /\ fresh \in 0 .. MaxPerInstr
  /\ phase \in Phases
  /\ objects \in 0 .. MaxObjects /\ next \in [Obj -> 0 .. MaxObjects]
  /\ marked \subseteq Obj /\ gray \subseteq Obj
  /\ live_count \in Nat /\ allocations_since_gc \in Nat
  /\ collections \in 0 .. MaxCollections /\ freed_count \in Nat
  /\ previous \in 0 .. MaxObjects /\ obj \in 0 .. MaxObjects

\* The VM still exists: the destructor has not started.
Running == phase \notin {"destroy", "gone"}

\* Between collections: gray_stack_ and the marks are not in use.
Idle == phase \in {"boundary", "instr"}

(***************************************************************************)
(* No use after free: at every moment of the VM's life, in the middle of   *)
(* an instruction and in the middle of a sweep too, whatever the program   *)
(* can reach from its roots or from the locals of the running instruction  *)
(* has not been deleted (vm.cpp, "nothing is mid-flight").                 *)
(***************************************************************************)
NoDanglingPointer == Running => Reach(Visible, refs) \subseteq live

(***************************************************************************)
(* Tri-color invariant of the mark phase: no black object points at a      *)
(* white one, roots are not white, and only reachable objects are marked   *)
(* (gc.h, "black = marked with children traced").                          *)
(***************************************************************************)
TriColor ==
  phase = "trace" =>
    /\ roots \subseteq marked
    /\ gray \subseteq marked
    /\ \A o \in marked \ gray : refs[o] \subseteq marked
    /\ marked \subseteq Reach(roots, refs)

\* Every collection starts with all objects white: sweep has reset each mark
\* it leaves behind (gc.cpp, "reset for the next cycle").
MarksReset == Idle => marked = {} /\ gray = {}

\* y is what follows the place x in a list that runs down through L.
Follows(y, x, L) ==
  /\ y # NULL => y \in L /\ y < x
  /\ \A o \in L : o < x => y # NULL /\ o <= y

(***************************************************************************)
(* The intrusive list, from objects_ through next, runs through exactly    *)
(* the live objects, each once: none is lost to a later sweep and none is  *)
(* visited after its deletion, however sweep unlinks head, middle and tail.*)
(***************************************************************************)
ListThreadsLive ==
  Running =>
    /\ Follows(objects, born + 1, live)
    /\ \A o \in live : Follows(next[o], o, live)

(***************************************************************************)
(* The counters the gc() native and the tests read agree with the heap:    *)
(* live_count is the number of live objects, and every object allocated is *)
(* either live or counted as freed, once.                                  *)
(***************************************************************************)
CountersAgree ==
  Running => live_count = Cardinality(live) /\ live_count + freed_count = born

\* An instruction starts owing at most Threshold - 1 allocations, so what
\* accumulates between collections is bounded (gc.h, "long programs stay bounded").
AllocationsBounded ==
  phase = "instr" =>
    \/ allocations_since_gc < Threshold + MaxPerInstr
    \/ allocations_since_gc <= MaxPerInstr            \* Threshold = 0

\* The destructor leaves nothing behind: every object is deleted, and the walk
\* never touches one that already is.
NothingLeaks ==
  /\ phase = "gone" => live = {}
  /\ phase = "destroy" /\ obj # NULL => obj \in live

\* A collection frees all the garbage and only the garbage, cycles included:
\* when collect returns, the live objects are the reachable ones.
CollectionIsExact ==
  [][phase = "sweep" /\ phase' = "instr" => live' = Reach(roots, refs)]_vars

\* Every collection that starts returns to the instruction, whatever cycles
\* the object graph has.
CollectionTerminates == (phase = "roots") ~> (phase = "instr")

(***************************************************************************)
(* The collector implements the abstract heap.  Mid-instruction locals     *)
(* count as roots; the abstract collection takes place when marking ends,  *)
(* from where on only the objects that sweep will keep count as live.      *)
(***************************************************************************)
Survivors ==
  IF phase = "sweep" THEN {o \in live : o \in marked \/ o > obj}
  ELSE IF Running THEN live ELSE {}

Abs == INSTANCE Heap WITH
  live <- Survivors,
  refs <- [o \in Obj |-> IF o \in Survivors THEN refs[o] ELSE {}],
  roots <- IF Running THEN Visible ELSE {}

ImplementsHeap == Abs!Spec

-----------------------------------------------------------------------------
(***************************************************************************)
(* The inductive invariant behind these properties, by parts.              *)
(***************************************************************************)

\* Before anything is freed: no pointer, stored or held, leaves the live objects.
HeapClosed ==
  phase \in {"boundary", "instr", "roots", "trace"} =>
    Visible \subseteq live /\ Closed(live, refs)

\* What is not allocated stores no pointer.
FreeIsEmpty == \A o \in Obj \ live : refs[o] = {}

\* Nothing is mid-flight at a boundary or during a collection.
NothingHeld == phase \in {"boundary", "roots", "trace", "sweep"} => held = {}

\* Marks are in use only from mark_value_roots to the end of sweep.
MarksUnused ==
  phase \in {"boundary", "instr", "roots"} => marked = {} /\ gray = {}

\* The sweep frees nothing it will miss: the survivors are the reachable
\* objects, and the cursor stands right behind the last one kept.
Sweeping ==
  phase = "sweep" =>
    /\ gray = {}
    /\ marked \subseteq live
    /\ \A o \in marked : o <= obj
    /\ roots \subseteq Survivors
    /\ Closed(Survivors, refs)
    /\ Survivors \subseteq Reach(roots, refs)
    /\ previous = NULL => obj = objects
    /\ previous # NULL => previous \in live /\ previous > obj /\ next[previous] = obj
    /\ \A o \in live : o > obj => previous # NULL /\ o >= previous

\* The destructor's cursor is at the first object not yet deleted.
Destroying ==
  ~Running =>
    /\ Follows(obj, born + 1, live)
    /\ \A o \in live : Follows(next[o], o, live)
    /\ phase = "gone" => obj = NULL

\* What the instruction has allocated accounts for what exceeds the threshold.
AllocationsOwed ==
  phase = "instr" =>
    allocations_since_gc < Threshold + fresh \/ allocations_since_gc <= fresh

Inductive ==
  /\ TypeOK
  /\ HeapClosed /\ FreeIsEmpty /\ NothingHeld
  /\ MarksUnused /\ TriColor /\ Sweeping
  /\ ListThreadsLive /\ Destroying
  /\ CountersAgree /\ AllocationsOwed
=============================================================================
