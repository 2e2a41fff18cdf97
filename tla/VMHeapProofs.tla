---------------------------- MODULE VMHeapProofs ---------------------------
(***************************************************************************)
(* The machine and its collector keep to the discipline of the abstract    *)
(* heap: what an instruction stores or keeps was reachable or is new, and  *)
(* what a collection frees is exactly what cannot be reached any more.     *)
(***************************************************************************)
EXTENDS VMProofs, TLAPS

CONSTANT MaxObjects     \* bound: how many names the abstract heap has for objects

-----------------------------------------------------------------------------
(***************************************************************************)
(* The objects that values lead to.                                        *)
(***************************************************************************)
\* Membership of Ids.
LEMMA IdsMember ==
  ASSUME NEW S, NEW x
  PROVE  x \in Ids(S) <=> \E v \in S : v[1] \in HeapTags /\ x = v[2]
BY DEF Ids

\* The objects that the values of two sets lead to.
LEMMA IdsUnion ==
  ASSUME NEW S, NEW T
  PROVE  Ids(S \cup T) = Ids(S) \cup Ids(T)
BY IdsMember

\* The object that a value leads to is the one that mark_value_obj marks.
LEMMA IdsOfOne ==
  ASSUME NEW v, v[1] # "Upvalue"
  PROVE  Ids({v}) = mark_value_obj(v)
<1>1. \A x : x \in Ids({v}) <=> v[1] \in HeapTags /\ x = v[2]
  BY IdsMember
<1>2. \A x : x \in mark_value_obj(v) <=> v[1] \in PointerTags /\ x = v[2]
  BY DEF mark_value_obj
<1>3. v[1] \in HeapTags <=> v[1] \in PointerTags
  BY DEF HeapTags
<1> QED
  BY <1>1, <1>2, <1>3

\* The objects that pointers with a type lead to.
LEMMA IdsOfPointers ==
  ASSUME NEW tag \in HeapTags, NEW S
  PROVE  Ids({<<tag, x>> : x \in S}) = S
<1> DEFINE P == {<<tag, x>> : x \in S}
<1>1. \A x \in S : <<tag, x>> \in P /\ <<tag, x>>[1] \in HeapTags /\ <<tag, x>>[2] = x
  OBVIOUS
<1>2. \A v \in P : v[2] \in S
  OBVIOUS
<1> HIDE DEF P
<1>3. \A y \in S : y \in Ids(P)
  BY <1>1, IdsMember
<1>4. \A y \in Ids(P) : y \in S
  BY <1>2, IdsMember
<1>5. Ids(P) = S
  BY <1>3, <1>4
<1> QED
  BY <1>5 DEF P

\* The objects that the values of a list or a map lead to.
LEMMA IdsOfValues ==
  ASSUME NEW f, \A x \in DOMAIN f : f[x][1] # "Upvalue"
  PROVE  Ids(Range(f)) = mark_value_objs(f)
<1>1. ASSUME NEW y PROVE y \in Ids(Range(f)) <=> \E x \in DOMAIN f : y \in mark_value_obj(f[x])
  <2>1. y \in Ids(Range(f)) <=> \E x \in DOMAIN f : f[x][1] \in HeapTags /\ y = f[x][2]
    BY IdsMember DEF Range
  <2> QED
    BY <2>1 DEF mark_value_obj, HeapTags
<1>2. \A y : y \in mark_value_objs(f) <=> \E x \in DOMAIN f : y \in mark_value_obj(f[x])
  BY DEF mark_value_objs
<1> QED
  BY <1>1, <1>2

\* blacken marks exactly the objects that the pointers in a good object lead to.
LEMMA BlackenIsExact ==
  ASSUME NEW h, NEW fns, NEW o, ObjectOK(o, h, fns)
  PROVE  blacken(o) = Ids(Pointers(o))
<1>1. o.type \in {"Upvalue", "Closure", "Class", "Instance", "BoundMethod"}
  BY DEF ObjectOK, HeapTags, PointerTags
<1>2. "Upvalue" \in HeapTags /\ "Closure" \in HeapTags /\ "Class" \in HeapTags
  BY DEF HeapTags, PointerTags
<1>3. CASE o.type = "Upvalue"
  <2>1. blacken(o) = mark_value_obj(o.closed) /\ Pointers(o) = {o.closed}
    BY <1>3 DEF blacken, Pointers
  <2>2. o.closed[1] # "Upvalue"
    BY <1>3 DEF ObjectOK, ValueOK
  <2> QED
    BY <2>1, <2>2, IdsOfOne
<1>4. CASE o.type = "Closure"
  <2>1. blacken(o) = Range(o.upvalues) /\ Pointers(o) = {<<"Upvalue", u>> : u \in Range(o.upvalues)}
    BY <1>4 DEF blacken, Pointers
  <2> QED
    BY <1>2, <2>1, IdsOfPointers
<1>5. CASE o.type = "Class"
  <2>1. blacken(o) = Range(o.methods) /\ Pointers(o) = {<<"Closure", m>> : m \in Range(o.methods)}
    BY <1>5 DEF blacken, Pointers
  <2> QED
    BY <1>2, <2>1, IdsOfPointers
<1>6. CASE o.type = "Instance"
  <2>1. Pointers(o) = {<<"Class", x>> : x \in {o.klass}} \cup Range(o.fields)
    BY <1>6 DEF Pointers
  <2>2. \A f \in DOMAIN o.fields : o.fields[f][1] # "Upvalue"
    BY <1>6 DEF ObjectOK, ValueOK
  <2>3. Ids(Range(o.fields)) = mark_value_objs(o.fields)
    BY <2>2, IdsOfValues
  <2>4. Ids({<<"Class", x>> : x \in {o.klass}}) = {o.klass}
    BY <1>2, IdsOfPointers
  <2>5. Ids(Pointers(o)) = {o.klass} \cup mark_value_objs(o.fields)
    <3> DEFINE A == {<<"Class", x>> : x \in {o.klass}}
               B == Range(o.fields)
    <3>1. Ids(A \cup B) = Ids(A) \cup Ids(B)
      BY IdsUnion, Zenon
    <3> QED
      BY <2>1, <2>3, <2>4, <3>1, Zenon
  <2>6. blacken(o) = {o.klass} \cup UNION {mark_value_obj(v) : v \in Range(o.fields)}
    BY <1>6 DEF blacken
  <2>7. mark_value_objs(o.fields) = UNION {mark_value_obj(v) : v \in Range(o.fields)}
    BY DEF mark_value_objs, Range
  <2> QED
    BY <2>5, <2>6, <2>7
<1>7. CASE o.type = "BoundMethod"
  <2>1. blacken(o) = mark_value_obj(o.receiver) \cup {o.method}
    BY <1>7 DEF blacken
  <2>2. Pointers(o) = {o.receiver} \cup {<<"Closure", x>> : x \in {o.method}}
    BY <1>7 DEF Pointers
  <2>3. o.receiver[1] # "Upvalue"
    BY <1>7 DEF ObjectOK, ValueOK
  <2>4. Ids({o.receiver}) = mark_value_obj(o.receiver)
    BY <2>3, IdsOfOne
  <2>5. Ids({<<"Closure", x>> : x \in {o.method}}) = {o.method}
    BY <1>2, IdsOfPointers
  <2> DEFINE A == {o.receiver}
             B == {<<"Closure", x>> : x \in {o.method}}
  <2>6. Ids(A \cup B) = Ids(A) \cup Ids(B)
    BY IdsUnion, Zenon
  <2> QED
    BY <2>1, <2>2, <2>4, <2>5, <2>6, Zenon
<1> QED
  BY <1>1, <1>3, <1>4, <1>5, <1>6, <1>7

\* mark_value_roots marks exactly the objects that the machine holds outside the
\* heap when its stack is stk.
LEMMA RootsAreExact ==
  ASSUME NEW stk, NEW h, ValuesOK(stk, h), GlobalsOK(globals, h), IsList(frames)
  PROVE  Ids(Range(stk) \cup Range(globals)
               \cup {<<"Closure", frames[i].closure>> : i \in DOMAIN frames}
               \cup {<<"Upvalue", u>> : u \in open_upvalues}) = mark_value_roots(stk)
<1>1. DOMAIN stk = 1 .. Len(stk) /\ DOMAIN frames = 1 .. Len(frames)
  BY ListLength DEF ValuesOK
<1>2. Ids(Range(stk)) = mark_value_objs(stk)
  BY <1>1, IdsOfValues DEF ValuesOK, ValueOK
<1>3. Ids(Range(globals)) = mark_value_objs(globals)
  BY IdsOfValues DEF GlobalsOK, ValueOK
<1> DEFINE closures == {frames[i].closure : i \in 1 .. Len(frames)}
<1>4. {<<"Closure", frames[i].closure>> : i \in DOMAIN frames} = {<<"Closure", x>> : x \in closures}
  BY <1>1
<1>5. mark_value_roots(stk) =
        mark_value_objs(stk) \cup closures \cup open_upvalues \cup mark_value_objs(globals)
  BY DEF mark_value_roots
<1> HIDE DEF closures
<1>6. "Upvalue" \in HeapTags /\ "Closure" \in HeapTags
  BY DEF HeapTags, PointerTags
<1>7. /\ Ids({<<"Closure", x>> : x \in closures}) = closures
      /\ Ids({<<"Upvalue", u>> : u \in open_upvalues}) = open_upvalues
  BY <1>6, IdsOfPointers
<1> DEFINE A == Range(stk)
           B == Range(globals)
           C == {<<"Closure", x>> : x \in closures}
           D == {<<"Upvalue", u>> : u \in open_upvalues}
<1>8. Ids(A \cup B \cup C \cup D) = Ids(A) \cup Ids(B) \cup Ids(C) \cup Ids(D)
  <2> HIDE DEF A, B, C, D
  <2>1. Ids(A \cup B) = Ids(A) \cup Ids(B)
    BY IdsUnion, Zenon
  <2>2. Ids((A \cup B) \cup C) = Ids(A \cup B) \cup Ids(C)
    BY IdsUnion, Zenon
  <2>3. Ids((A \cup B \cup C) \cup D) = Ids(A \cup B \cup C) \cup Ids(D)
    BY IdsUnion, Zenon
  <2> QED
    BY <2>1, <2>2, <2>3, Zenon
<1> QED
  BY <1>2, <1>3, <1>4, <1>5, <1>7, <1>8

-----------------------------------------------------------------------------
(***************************************************************************)
(* What the collector marks is what the machine can reach.                 *)
(***************************************************************************)
\* Following pointers and blackening come to the same in a good heap.
LEMMA PointedIsBlackened ==
  ASSUME HeapOK(heap, functions, born), NEW S, S \subseteq DOMAIN heap
  PROVE  Pointed(S) = blackened(S) /\ blackened(S) \subseteq DOMAIN heap
<1>1. \A o \in S : blacken(heap[o]) = Ids(Pointers(heap[o])) /\ blacken(heap[o]) \subseteq DOMAIN heap
  BY BlackenIsExact, BlackenMarks DEF HeapOK
<1>2. blackened(S) = S \cup UNION {blacken(heap[o]) : o \in S}
  BY DEF blackened
<1>3. Pointed(S) = S \cup UNION {Ids(Pointers(heap[o])) : o \in S}
  BY DEF Pointed
<1>4. UNION {blacken(heap[o]) : o \in S} = UNION {Ids(Pointers(heap[o])) : o \in S}
  BY <1>1
<1>5. UNION {blacken(heap[o]) : o \in S} \subseteq DOMAIN heap
  BY <1>1
<1> QED
  BY <1>2, <1>3, <1>4, <1>5

\* The rounds of a trace from objects of the heap stay in it, and follow pointers.
LEMMA ChainInHeap ==
  ASSUME HeapOK(heap, functions, born), NEW roots, roots \subseteq DOMAIN heap, NEW size \in Nat,
         NEW f, f[0] = roots, \A n \in 1 .. size : f[n] = blackened(f[n - 1])
  PROVE  /\ \A n \in 0 .. size : f[n] \subseteq DOMAIN heap
         /\ \A n \in 1 .. size : f[n] = Pointed(f[n - 1])
<1> DEFINE S == {n \in Nat : n <= size => f[n] \subseteq DOMAIN heap}
<1>1. 0 \in S
  OBVIOUS
<1>2. ASSUME NEW n \in Nat, n \in S PROVE n + 1 \in S
  <2> SUFFICES ASSUME n + 1 <= size PROVE f[n + 1] \subseteq DOMAIN heap
    OBVIOUS
  <2>1. n <= size /\ n + 1 \in 1 .. size /\ (n + 1) - 1 = n
    OBVIOUS
  <2>2. f[n] \subseteq DOMAIN heap /\ f[n + 1] = blackened(f[n])
    BY <1>2, <2>1
  <2> QED
    BY <2>2, PointedIsBlackened
<1>3. Nat \subseteq S
  <2> HIDE DEF S
  <2> QED
    BY <1>1, <1>2, SetInduction
<1>4. \A n \in 0 .. size : f[n] \subseteq DOMAIN heap
  BY <1>3
<1>5. ASSUME NEW n \in 1 .. size PROVE f[n] = Pointed(f[n - 1])
  <2>1. n - 1 \in 0 .. size
    OBVIOUS
  <2>2. f[n - 1] \subseteq DOMAIN heap /\ f[n] = blackened(f[n - 1])
    BY <1>4, <2>1
  <2> QED
    BY <2>2, PointedIsBlackened
<1> QED
  BY <1>4, <1>5

\* Two chains that follow pointers from the same objects are the same.
LEMMA ChainsAgree ==
  ASSUME NEW f, NEW g, NEW size \in Nat, f[0] = g[0],
         \A n \in 1 .. size : f[n] = Pointed(f[n - 1]),
         \A n \in 1 .. size : g[n] = Pointed(g[n - 1])
  PROVE  f[size] = g[size]
<1> DEFINE S == {n \in Nat : n <= size => f[n] = g[n]}
<1>1. 0 \in S
  OBVIOUS
<1>2. ASSUME NEW n \in Nat, n \in S PROVE n + 1 \in S
  <2> SUFFICES ASSUME n + 1 <= size PROVE f[n + 1] = g[n + 1]
    OBVIOUS
  <2>1. n <= size /\ n + 1 \in 1 .. size /\ (n + 1) - 1 = n
    OBVIOUS
  <2>2. f[n] = g[n] /\ f[n + 1] = Pointed(f[n]) /\ g[n + 1] = Pointed(g[n])
    BY <1>2, <2>1
  <2> QED
    BY <2>2
<1>3. Nat \subseteq S
  <2> HIDE DEF S
  <2> QED
    BY <1>1, <1>2, SetInduction
<1> QED
  BY <1>3

\* trace_references marks exactly the objects that can be reached.
LEMMA TraceIsExact ==
  ASSUME born \in Nat, HeapOK(heap, functions, born), NEW roots, roots \subseteq DOMAIN heap
  PROVE  trace_references(roots) = ReachFrom(roots)
<1> DEFINE size == Cardinality(DOMAIN heap)
<1>1. size \in Nat
  <2>1. IsFiniteSet(1 .. born) /\ DOMAIN heap \in SUBSET (1 .. born)
    BY FS_Interval DEF HeapOK
  <2> QED
    BY <2>1, FS_Subset, FS_CardinalityType
<1>2. PICK f : /\ DOMAIN f = 0 .. size /\ f[0] = roots
               /\ \A n \in 1 .. size : f[n] = blackened(f[n - 1])
               /\ trace_references(roots) = f[size]
               /\ f = [n \in 0 .. size |-> f[n]]
  BY <1>1, TraceIsChain
<1>3. \A n \in 1 .. size : f[n] = Pointed(f[n - 1])
  <2> HIDE DEF size
  <2> QED
    BY <1>1, <1>2, ChainInHeap
<1>4. f = [n \in 0 .. size |-> IF n = 0 THEN roots ELSE Pointed(f[n - 1])]
  <2> HIDE DEF size
  <2>1. ASSUME NEW n \in 0 .. size PROVE f[n] = IF n = 0 THEN roots ELSE Pointed(f[n - 1])
    <3>1. f[0] = roots
      BY <1>2
    <3>2. n # 0 => n \in 1 .. size
      BY <1>1
    <3> QED
      BY <1>3, <3>1, <3>2
  <2>2. [n \in 0 .. size |-> f[n]] = [n \in 0 .. size |-> IF n = 0 THEN roots ELSE Pointed(f[n - 1])]
    BY <2>1
  <2> QED
    BY <1>2, <2>2, Zenon
<1> DEFINE reach == CHOOSE g : g = [n \in 0 .. Cardinality(DOMAIN heap) |->
                                      IF n = 0 THEN roots ELSE Pointed(g[n - 1])]
<1>5. reach = [n \in 0 .. size |-> IF n = 0 THEN roots ELSE Pointed(reach[n - 1])]
  <2>1. \E g : g = [n \in 0 .. Cardinality(DOMAIN heap) |-> IF n = 0 THEN roots ELSE Pointed(g[n - 1])]
    BY <1>4, Zenon
  <2> QED
    BY <2>1, Zenon
<1>6. ReachFrom(roots) = reach[size]
  BY DEF ReachFrom
<1> HIDE DEF reach, size
<1>7. reach[0] = roots /\ \A n \in 1 .. size : reach[n] = Pointed(reach[n - 1])
  BY <1>1, <1>5
<1>8. f[size] = reach[size]
  <2>1. f[0] = reach[0]
    BY <1>2, <1>7
  <2> QED
    BY <1>1, <1>3, <1>7, <2>1, ChainsAgree
<1> QED
  BY <1>2, <1>6, <1>8

-----------------------------------------------------------------------------
(***************************************************************************)
(* A step that keeps to the discipline.                                    *)
(***************************************************************************)
\* The part of the heap that the machine can reach: a collection would leave it.
live == swept(stack)

\* It is what can be reached, and everything that the machine holds is good in it.
LEMMA Live ==
  ASSUME IInv
  PROVE  /\ Part(live, heap) /\ DOMAIN live = ReachFrom(Ids(RootValues))
         /\ HeapOK(live, functions, born) /\ ValuesOK(stack, live) /\ GlobalsOK(globals, live)
         /\ OpenOK(open_upvalues, live, Len(stack)) /\ FramesOK(frames, live)
<1>1. /\ born \in Nat /\ HeapOK(heap, functions, born) /\ ValuesOK(stack, heap)
      /\ GlobalsOK(globals, heap) /\ IsList(frames)
  BY DEF IInv, Counts, FramesOK
<1>2. /\ HeapOK(live, functions, born) /\ ValuesOK(stack, live) /\ GlobalsOK(globals, live)
      /\ OpenOK(open_upvalues, live, Len(stack)) /\ FramesOK(frames, live)
      /\ mark_value_roots(stack) \subseteq DOMAIN heap /\ Part(live, heap)
  BY <1>1, SweptIsGood DEF live
<1>3. DOMAIN live = trace_references(mark_value_roots(stack))
  BY DEF live, swept
<1>4. trace_references(mark_value_roots(stack)) = ReachFrom(mark_value_roots(stack))
  BY <1>1, <1>2, TraceIsExact
<1>5. Ids(RootValues) = mark_value_roots(stack)
  BY <1>1, RootsAreExact DEF RootValues
<1> QED
  BY <1>2, <1>3, <1>4, <1>5

\* What good objects and values point at is in the heap in which they are good.
LEMMA GoodIds ==
  ASSUME NEW m, NEW fns
  PROVE  /\ \A o : ObjectOK(o, m, fns) => Ids(Pointers(o)) \subseteq DOMAIN m
         /\ \A stk : ValuesOK(stk, m) => Ids(Range(stk)) \subseteq DOMAIN m
         /\ \A g : GlobalsOK(g, m) => Ids(Range(g)) \subseteq DOMAIN m
<1>1. \A v : ValueOK(v, m) /\ v[1] \in HeapTags => v[2] \in DOMAIN m
  BY DEF ValueOK, IsA, HeapTags
<1>2. \A o : ObjectOK(o, m, fns) => Ids(Pointers(o)) \subseteq DOMAIN m
  BY BlackenIsExact, BlackenMarks
<1>3. ASSUME NEW stk, ValuesOK(stk, m) PROVE Ids(Range(stk)) \subseteq DOMAIN m
  <2>1. \A v \in Range(stk) : ValueOK(v, m)
    BY <1>3, ListLength DEF ValuesOK, Range
  <2> QED
    BY <1>1, <2>1, IdsMember
<1>4. ASSUME NEW g, GlobalsOK(g, m) PROVE Ids(Range(g)) \subseteq DOMAIN m
  <2>1. \A v \in Range(g) : ValueOK(v, m)
    BY <1>4 DEF GlobalsOK, Range
  <2> QED
    BY <1>1, <2>1, IdsMember
<1> QED
  BY <1>2, <1>3, <1>4

\* After the step the machine holds nothing that is not good in m.
Holds(m) ==
  /\ HeapOK(m, functions, born') /\ ValuesOK(stack', m) /\ GlobalsOK(globals', m)
  /\ open_upvalues' \subseteq DOMAIN m /\ FramesOK(frames', m)

\* Its roots are then objects of m.
LEMMA HeldRoots ==
  ASSUME NEW m, Holds(m)
  PROVE  Ids(RootValues') \subseteq DOMAIN m
<1>1. Ids(Range(stack')) \subseteq DOMAIN m /\ Ids(Range(globals')) \subseteq DOMAIN m
  BY GoodIds DEF Holds
<1>2. \A i \in DOMAIN frames' : frames'[i].closure \in DOMAIN m
  BY ListLength DEF Holds, FramesOK, IsA
<1>3. open_upvalues' \subseteq DOMAIN m
  BY DEF Holds
<1> DEFINE A == Range(stack')
           B == Range(globals')
           C == {<<"Closure", frames'[i].closure>> : i \in DOMAIN frames'}
           D == {<<"Upvalue", u>> : u \in open_upvalues'}
<1>4. RootValues' = A \cup B \cup C \cup D
  BY DEF RootValues
<1>5. \A v \in C : v[2] \in DOMAIN m
  BY <1>2
<1>6. \A v \in D : v[2] \in DOMAIN m
  BY <1>3
<1> HIDE DEF A, B, C, D
<1>7. \A v \in A \cup B : v[1] \in HeapTags => v[2] \in DOMAIN m
  BY <1>1, IdsMember DEF A, B
<1>8. \A v \in A \cup B \cup C \cup D : v[1] \in HeapTags => v[2] \in DOMAIN m
  BY <1>5, <1>6, <1>7
<1> QED
  BY <1>4, <1>8, IdsMember

\* m is what the instruction leaves of the live objects, with those it makes.
Leaves(m) ==
  /\ DOMAIN live \subseteq DOMAIN m
  /\ \A o \in DOMAIN m : o \in DOMAIN live \/ (o \in Nat /\ o > born)
  /\ DOMAIN heap' = DOMAIN heap \cup DOMAIN m
  /\ \A o \in DOMAIN heap' : heap'[o] = IF o \in DOMAIN m THEN m[o] ELSE heap[o]

\* An instruction that leaves the live objects and its new ones good, and holds no
\* others, keeps to the discipline.
LEMMA Keeping ==
  ASSUME IInv, ~should_collect, NEW m, Leaves(m), Holds(m)
  PROVE  Disciplined
<1> DEFINE New == {o \in DOMAIN heap' : o > born}
           known == ReachFrom(Ids(RootValues)) \cup New
<1>1. Part(live, heap) /\ DOMAIN live = ReachFrom(Ids(RootValues))
  BY Live
<1>2. born \in Nat /\ DOMAIN heap \subseteq 1 .. born
  BY DEF IInv, Counts, HeapOK
<1>3. \A o \in DOMAIN heap : o \in Nat /\ ~(o > born)
  BY <1>2
<1>4. DOMAIN live \subseteq DOMAIN heap
  BY <1>1 DEF Part
<1>5. \A o \in DOMAIN m : o \in DOMAIN live \/ o > born
  BY DEF Leaves
<1>6. DOMAIN heap' = DOMAIN heap \cup DOMAIN m /\ DOMAIN live \subseteq DOMAIN m
  BY DEF Leaves
<1>7. DOMAIN heap' = DOMAIN heap \cup New
  BY <1>3, <1>4, <1>5, <1>6
<1>8. DOMAIN m = known
  BY <1>1, <1>3, <1>4, <1>5, <1>6
<1> HIDE DEF New, known
<1>9. \A o \in DOMAIN heap' : o \in New => o \in DOMAIN m
  BY <1>8 DEF known
<1>10. \A o \in DOMAIN heap' : heap'[o] # heap[o] => o \in DOMAIN m
  BY DEF Leaves
<1>11. \A o \in DOMAIN m : o \in DOMAIN heap' /\ heap'[o] = m[o] /\ Ids(Pointers(m[o])) \subseteq DOMAIN m
  <2>1. \A o \in DOMAIN m : o \in DOMAIN heap' /\ heap'[o] = m[o]
    BY <1>6 DEF Leaves
  <2>2. \A o \in DOMAIN m : ObjectOK(m[o], m, functions)
    BY DEF Holds, HeapOK
  <2> QED
    BY <2>1, <2>2, GoodIds
<1>12. Mutates(New, known)
  BY <1>7, <1>8, <1>9, <1>10, <1>11 DEF Mutates
<1>13. Ids(RootValues') \subseteq known
  BY <1>8, HeldRoots
<1>14. DOMAIN heap \subseteq DOMAIN heap'
  BY <1>6
<1> QED
  BY <1>12, <1>13, <1>14 DEF Disciplined, New, known

-----------------------------------------------------------------------------
(***************************************************************************)
(* Instructions that leave the heap alone.                                 *)
(***************************************************************************)
\* Moving ip on keeps the frames' closures.
LEMMA LiveFrames ==
  ASSUME IInv, status = "running", NEW n
  PROVE  FramesOK(ip_plus(n), live)
<1>1. frame = frames[Len(frames)] /\ Len(frames) >= 1
  BY AtInstruction
<1>2. ip_plus(n) = MoveTo(frames, frame.ip + n)
  BY <1>1 DEF ip_plus, MoveTo
<1>3. FramesOK(frames, live)
  BY Live
<1> QED
  BY <1>1, <1>2, <1>3, MovedFrames

\* The values on the stack are live.
LEMMA LivePeek ==
  ASSUME IInv, NEW d \in Nat, d < Len(stack)
  PROVE  ValueOK(peek(d), live) /\ ValuesOK(popped(d), live)
<1>1. ValuesOK(stack, live) /\ Len(stack) \in Nat
  BY Live, ListLength DEF ValuesOK
<1>2. Len(stack) - d \in 1 .. Len(stack) /\ Len(stack) - d \in Nat /\ Len(stack) - d <= Len(stack)
  BY <1>1
<1>3. ValueOK(peek(d), live)
  BY <1>1, <1>2 DEF ValuesOK, peek
<1>4. ValuesOK(popped(d), live)
  BY <1>1, <1>2, KeepValues DEF popped
<1> QED
  BY <1>3, <1>4

\* So is what an instruction takes, and what it leaves below.
LEMMA LiveTaken ==
  ASSUME IInv, status = "running", NEW w, NEW n \in Nat, NEW e,
         Shaped(functions, function, frame.ip, ByteSize, w, n, e)
  PROVE  /\ ValueOK(peek(0), live) /\ (1 <= n => ValueOK(peek(1), live))
         /\ \A d \in 0 .. n : ValuesOK(popped(d), live)
<1>1. Len(stack) \in Nat /\ n < Len(stack)
  BY AtInstruction, Operands DEF Shaped
<1>2. \A d \in 0 .. n : d \in Nat /\ d < Len(stack)
  BY <1>1
<1>3. 0 \in 0 .. n /\ (1 <= n => 1 \in 0 .. n)
  OBVIOUS
<1>4. \A d \in 0 .. n : ValueOK(peek(d), live) /\ ValuesOK(popped(d), live)
  BY <1>2, LivePeek
<1>5. ValueOK(peek(0), live)
  BY <1>3, <1>4
<1>6. 1 <= n => ValueOK(peek(1), live)
  BY <1>3, <1>4
<1> QED
  BY <1>4, <1>5, <1>6

\* The heap is left alone, and what the machine holds is live.
LEMMA KeepingHeap ==
  ASSUME IInv, ~should_collect, heap' = heap, born' = born,
         ValuesOK(stack', live), GlobalsOK(globals', live), FramesOK(frames', live),
         open_upvalues' = open_upvalues
  PROVE  Disciplined
<1>1. Part(live, heap) /\ HeapOK(live, functions, born) /\ OpenOK(open_upvalues, live, Len(stack))
  BY Live
<1>2. Leaves(live)
  BY <1>1 DEF Part, Leaves
<1>3. Holds(live)
  BY <1>1 DEF Holds, OpenOK, Open
<1> QED
  BY <1>2, <1>3, Keeping

\* StackOp leaves a stack of live values.
LEMMA StackOpKeeps ==
  ASSUME IInv, status = "running", ~should_collect, NEW n, NEW stk, StackOp(n, stk), ValuesOK(stk, live)
  PROVE  Disciplined
<1>1. /\ stack' = stk /\ frames' = ip_plus(n) /\ globals' = globals /\ open_upvalues' = open_upvalues
      /\ heap' = heap /\ born' = born
  BY DEF StackOp, gcV
<1>2. GlobalsOK(globals, live) /\ FramesOK(ip_plus(n), live)
  BY Live, LiveFrames
<1> QED
  BY <1>1, <1>2, KeepingHeap

\* ErrorOp leaves everything in place.
LEMMA ErrorOpKeeps ==
  ASSUME IInv, status = "running", ~should_collect, NEW n, NEW message, ErrorOp(n, message)
  PROVE  Disciplined
<1>1. /\ stack' = stack /\ frames' = ip_plus(n) /\ globals' = globals /\ open_upvalues' = open_upvalues
      /\ heap' = heap /\ born' = born
  BY DEF ErrorOp, gcV
<1>2. ValuesOK(stack, live) /\ GlobalsOK(globals, live) /\ FramesOK(ip_plus(n), live)
  BY Live, LiveFrames
<1> QED
  BY <1>1, <1>2, KeepingHeap

\* A live value is pushed.
LEMMA PushesKeeps ==
  ASSUME IInv, status = "running", ~should_collect, NEW n, NEW v, ValueOK(v, live),
         StackOp(n, Append(stack, v))
  PROVE  Disciplined
<1>1. ValuesOK(Append(stack, v), live)
  BY PushValue, Live
<1> QED
  BY <1>1, StackOpKeeps

\* k values are taken and a live one is pushed.
LEMMA ReplacesKeeps ==
  ASSUME IInv, status = "running", ~should_collect, NEW w, NEW k \in Nat, NEW e, NEW v, ValueOK(v, live),
         StackOp(w, Append(popped(k), v)), Shaped(functions, function, frame.ip, ByteSize, w, k, e)
  PROVE  Disciplined
<1>1. ValuesOK(popped(k), live)
  BY LiveTaken
<1>2. ValuesOK(Append(popped(k), v), live)
  BY <1>1, PushValue
<1> QED
  BY <1>2, StackOpKeeps

\* OpConstant, OpNil, OpTrue, OpFalse, OpPop, OpGetLocal and OpSetLocal.
LEMMA LiteralsAndLocalsKeep ==
  ASSUME IInv, OpConstant \/ OpNil \/ OpTrue \/ OpFalse \/ OpPop \/ OpGetLocal \/ OpSetLocal
  PROVE  Disciplined
<1>1. status = "running" /\ ~should_collect
  BY DEF OpConstant, OpNil, OpTrue, OpFalse, OpPop, OpGetLocal, OpSetLocal, Fetch
<1>2. byte(0) = OpAt(function, frame.ip)
  BY <1>1, AtInstruction
<1>3. ValuesOK(stack, live)
  BY Live
<1>4. CASE OpConstant
  <2>1. byte(0) = "Constant" /\ StackOp(2, Append(stack, constant(1)))
    BY <1>4 DEF OpConstant, Fetch
  <2>2. ValueOK(constant(1), live)
    BY <1>1, <2>1, ConstantIsPlain DEF ValueOK, PointerTags
  <2> QED
    BY <1>1, <2>1, <2>2, PushesKeeps
<1>5. CASE OpNil
  BY <1>1, <1>5, PlainValues, PushesKeeps DEF OpNil
<1>6. CASE OpTrue
  BY <1>1, <1>6, PlainValues, PushesKeeps DEF OpTrue
<1>7. CASE OpFalse
  BY <1>1, <1>7, PlainValues, PushesKeeps DEF OpFalse
<1>8. CASE OpPop
  <2>1. byte(0) = "Pop" /\ StackOp(1, popped(1))
    BY <1>8 DEF OpPop, Fetch
  <2>2. Shaped(functions, function, frame.ip, ByteSize, 1, 1, -1)
    BY <1>2, <2>1, ShapePop
  <2>3. ValuesOK(popped(1), live)
    BY <1>1, <2>2, LiveTaken
  <2> QED
    BY <1>1, <2>1, <2>3, StackOpKeeps
<1>9. CASE OpGetLocal
  <2>1. byte(0) = "GetLocal" /\ StackOp(2, Append(stack, stack[slot(byte(1))]))
    BY <1>9 DEF OpGetLocal, Fetch
  <2>2. slot(byte(1)) \in 1 .. Len(stack)
    BY <1>1, <2>1, SlotOnStack DEF SlotOps
  <2>3. ValueOK(stack[slot(byte(1))], live)
    BY <1>3, <2>2 DEF ValuesOK
  <2> QED
    BY <1>1, <2>1, <2>3, PushesKeeps
<1>10. CASE OpSetLocal
  <2>1. byte(0) = "SetLocal" /\ StackOp(2, [stack EXCEPT ![slot(byte(1))] = peek(0)])
    BY <1>10 DEF OpSetLocal, Fetch
  <2>2. Shaped(functions, function, frame.ip, ByteSize, 2, 1, 0)
    BY <1>2, <2>1, ShapeLevel
  <2>3. slot(byte(1)) \in 1 .. Len(stack)
    BY <1>1, <2>1, SlotOnStack DEF SlotOps
  <2>4. ValueOK(peek(0), live)
    BY <1>1, <2>2, LiveTaken
  <2>5. ValuesOK([stack EXCEPT ![slot(byte(1))] = peek(0)], live)
    BY <1>3, <2>3, <2>4, SetValue
  <2> QED
    BY <1>1, <2>1, <2>5, StackOpKeeps
<1> QED
  BY <1>4, <1>5, <1>6, <1>7, <1>8, <1>9, <1>10

\* OpEqual, OpArith, OpAdd, OpNot and OpNegate leave a value that points at nothing.
LEMMA OperatorsKeep ==
  ASSUME IInv, OpEqual \/ OpArith \/ OpAdd \/ OpNot \/ OpNegate
  PROVE  Disciplined
<1>1. status = "running" /\ ~should_collect
  BY DEF OpEqual, OpArith, OpAdd, OpNot, OpNegate, Fetch
<1>2. byte(0) = OpAt(function, frame.ip)
  BY <1>1, AtInstruction
<1>3. ASSUME byte(0) \in BinaryInstrs, NEW v, ValueOK(v, live), StackOp(1, Append(popped(2), v))
      PROVE  Disciplined
  <2>1. Shaped(functions, function, frame.ip, ByteSize, 1, 2, -1)
    BY <1>2, <1>3, ShapePop
  <2> QED
    BY <1>1, <1>3, <2>1, ReplacesKeeps
<1>4. ASSUME byte(0) \in {"Not", "Negate"}, NEW v, ValueOK(v, live), StackOp(1, Append(popped(1), v))
      PROVE  Disciplined
  <2>1. Shaped(functions, function, frame.ip, ByteSize, 1, 1, 0)
    BY <1>2, <1>4, ShapeLevel
  <2> QED
    BY <1>1, <1>4, <2>1, ReplacesKeeps
<1>5. CASE OpEqual
  <2>1. byte(0) = "Equal" /\ \E b : StackOp(1, Append(popped(2), Bool(b)))
    BY <1>5 DEF OpEqual, Fetch
  <2> QED
    BY <2>1, <1>3, PlainValues DEF BinaryInstrs
<1>6. CASE OpArith
  <2>1. PICK op \in {"Greater", "Less", "Subtract", "Multiply", "Divide"} :
          /\ byte(0) = op
          /\ \/ ErrorOp(1, "operands must be numbers")
             \/ StackOp(1, Append(popped(2),
                  CASE op = "Greater" -> Bool(NumLess(peek(0), peek(1)))
                    [] op = "Less"    -> Bool(NumLess(peek(1), peek(0)))
                    [] OTHER          -> Arith(op, peek(1), peek(0))))
    BY <1>6 DEF OpArith, Fetch
  <2> DEFINE v == CASE op = "Greater" -> Bool(NumLess(peek(0), peek(1)))
                    [] op = "Less"    -> Bool(NumLess(peek(1), peek(0)))
                    [] OTHER          -> Arith(op, peek(1), peek(0))
  <2>2. ValueOK(v, live)
    <3>1. CASE op = "Greater"
      BY <3>1, PlainValues
    <3>2. CASE op = "Less"
      BY <3>2, PlainValues
    <3>3. CASE op \notin {"Greater", "Less"}
      BY <3>3, PlainValues
    <3> QED
      BY <3>1, <3>2, <3>3
  <2> HIDE DEF v
  <2>3. byte(0) \in BinaryInstrs /\ (ErrorOp(1, "operands must be numbers") \/ StackOp(1, Append(popped(2), v)))
    BY <2>1 DEF BinaryInstrs, v
  <2> QED
    BY <1>1, <1>3, <2>2, <2>3, ErrorOpKeeps
<1>7. CASE OpAdd
  <2>1. /\ byte(0) = "Add"
        /\ \/ StackOp(1, Append(popped(2), Arith("Add", peek(1), peek(0))))
           \/ StackOp(1, Append(popped(2), Concat(peek(1), peek(0))))
           \/ ErrorOp(1, "operands must be two numbers or two strings")
    BY <1>7 DEF OpAdd, Fetch
  <2>2. byte(0) \in BinaryInstrs
    BY <2>1 DEF BinaryInstrs
  <2> QED
    BY <1>1, <1>3, <2>1, <2>2, PlainValues, ErrorOpKeeps
<1>8. CASE OpNot
  <2>1. byte(0) = "Not" /\ \E b : StackOp(1, Append(popped(1), Bool(b)))
    BY <1>8 DEF OpNot, Fetch
  <2> QED
    BY <2>1, <1>4, PlainValues
<1>9. CASE OpNegate
  <2>1. /\ byte(0) = "Negate"
        /\ \/ StackOp(1, Append(popped(1), Negated(peek(0))))
           \/ ErrorOp(1, "operand must be a number")
    BY <1>9 DEF OpNegate, Fetch
  <2> QED
    BY <1>1, <2>1, <1>4, PlainValues, ErrorOpKeeps
<1> QED
  BY <1>5, <1>6, <1>7, <1>8, <1>9

\* OpPrint, OpJump, OpJumpIfFalse and OpLoop.
LEMMA PrintAndJumpsKeep ==
  ASSUME IInv, OpPrint \/ OpJump \/ OpJumpIfFalse \/ OpLoop
  PROVE  Disciplined
<1>1. status = "running" /\ ~should_collect
  BY DEF OpPrint, OpJump, OpJumpIfFalse, OpLoop, Fetch
<1>2. ValuesOK(stack, live) /\ GlobalsOK(globals, live)
  BY Live
<1>3. CASE OpPrint
  <2>1. /\ byte(0) = "Print" /\ stack' = popped(1) /\ frames' = ip_plus(1)
        /\ globals' = globals /\ open_upvalues' = open_upvalues /\ heap' = heap /\ born' = born
    BY <1>3 DEF OpPrint, Fetch, gcV
  <2>2. Shaped(functions, function, frame.ip, ByteSize, 1, 1, -1)
    BY <1>1, <2>1, AtInstruction, ShapePop
  <2>3. ValuesOK(popped(1), live) /\ FramesOK(ip_plus(1), live)
    BY <1>1, <2>2, LiveTaken, LiveFrames
  <2> QED
    BY <1>1, <1>2, <2>1, <2>3, KeepingHeap
<1>4. CASE OpJump
  BY <1>1, <1>2, <1>4, StackOpKeeps DEF OpJump
<1>5. CASE OpJumpIfFalse
  BY <1>1, <1>2, <1>5, StackOpKeeps DEF OpJumpIfFalse
<1>6. CASE OpLoop
  BY <1>1, <1>2, <1>6, StackOpKeeps DEF OpLoop
<1> QED
  BY <1>3, <1>4, <1>5, <1>6

\* OpGetGlobal, OpDefineGlobal and OpSetGlobal move values between stack and globals.
LEMMA GlobalsKeep ==
  ASSUME IInv, OpGetGlobal \/ OpDefineGlobal \/ OpSetGlobal
  PROVE  Disciplined
<1>1. status = "running" /\ ~should_collect
  BY DEF OpGetGlobal, OpDefineGlobal, OpSetGlobal, Fetch
<1>2. byte(0) = OpAt(function, frame.ip)
  BY <1>1, AtInstruction
<1>3. ValuesOK(stack, live) /\ GlobalsOK(globals, live)
  BY Live
<1>4. ASSUME NEW v, NEW stk, SetGlobalTo(v, stk), ValueOK(v, live), ValuesOK(stk, live)
      PROVE  Disciplined
  <2>1. /\ stack' = stk /\ frames' = ip_plus(2) /\ globals' = Put(globals, string(1), v)
        /\ open_upvalues' = open_upvalues /\ heap' = heap /\ born' = born
    BY <1>4 DEF SetGlobalTo, gcV
  <2>2. GlobalsOK(Put(globals, string(1), v), live) /\ FramesOK(ip_plus(2), live)
    BY <1>1, <1>3, <1>4, PutGlobal, LiveFrames
  <2> QED
    BY <1>1, <1>4, <2>1, <2>2, KeepingHeap
<1>5. CASE OpGetGlobal
  <2>1. \/ /\ string(1) \in DOMAIN globals
           /\ StackOp(2, Append(stack, globals[string(1)]))
        \/ ErrorOp(2, "undefined variable")
    BY <1>5 DEF OpGetGlobal
  <2>2. string(1) \in DOMAIN globals => ValueOK(globals[string(1)], live)
    BY <1>3 DEF GlobalsOK
  <2> QED
    BY <1>1, <2>1, <2>2, PushesKeeps, ErrorOpKeeps
<1>6. CASE OpDefineGlobal
  <2>1. byte(0) = "DefineGlobal" /\ SetGlobalTo(peek(0), popped(1))
    BY <1>6 DEF OpDefineGlobal, Fetch
  <2>2. Shaped(functions, function, frame.ip, ByteSize, 2, 1, -1)
    BY <1>2, <2>1, ShapePop
  <2>3. ValuesOK(popped(1), live) /\ ValueOK(peek(0), live)
    BY <1>1, <2>2, LiveTaken
  <2> QED
    BY <1>4, <2>1, <2>3
<1>7. CASE OpSetGlobal
  <2>1. /\ byte(0) = "SetGlobal"
        /\ SetGlobalTo(peek(0), stack) \/ ErrorOp(2, "undefined variable")
    BY <1>7 DEF OpSetGlobal, Fetch
  <2>2. Shaped(functions, function, frame.ip, ByteSize, 2, 1, 0)
    BY <1>2, <2>1, ShapeLevel
  <2>3. ValueOK(peek(0), live)
    BY <1>1, <2>2, LiveTaken
  <2> QED
    BY <1>1, <1>3, <1>4, <2>1, <2>3, ErrorOpKeeps
<1> QED
  BY <1>5, <1>6, <1>7

-----------------------------------------------------------------------------
(***************************************************************************)
(* Instructions that store into objects.                                   *)
(***************************************************************************)
\* Live objects are replaced by others of their type that hold live values.
LEMMA KeepingObjects ==
  ASSUME IInv, ~should_collect, born' = born, DOMAIN heap' = DOMAIN heap,
         \A o \in DOMAIN heap : o \notin DOMAIN live => heap'[o] = heap[o],
         \A o \in DOMAIN live : /\ ObjectOK(heap'[o], live, functions)
                                /\ heap'[o].type = heap[o].type
                                /\ heap[o].type = "Closure" => heap'[o] = heap[o],
         ValuesOK(stack', live), GlobalsOK(globals', live), FramesOK(frames', live),
         open_upvalues' \subseteq open_upvalues
  PROVE  Disciplined
<1>1. /\ Part(live, heap) /\ HeapOK(live, functions, born)
      /\ OpenOK(open_upvalues, live, Len(stack))
  BY Live
<1> DEFINE m == [o \in DOMAIN live |-> heap'[o]]
<1>2. DOMAIN m = DOMAIN live /\ \A o \in DOMAIN live : m[o] = heap'[o]
  OBVIOUS
<1> HIDE DEF m
<1>3. Grows(live, m)
  BY <1>1, <1>2 DEF Grows, Part
<1>4. HeapOK(m, functions, born)
  <2>1. \A o \in DOMAIN m : ObjectOK(m[o], m, functions)
    BY <1>2, <1>3, GrowObject
  <2> QED
    BY <1>1, <1>2, <2>1 DEF HeapOK
<1>5. Leaves(m)
  BY <1>1, <1>2 DEF Part, Leaves
<1>6. open_upvalues' \subseteq DOMAIN m
  BY <1>1, <1>2 DEF OpenOK, Open
<1>7. Holds(m)
  BY <1>3, <1>4, <1>6, GrowRoots DEF Holds
<1> QED
  BY <1>5, <1>7, Keeping

\* One live object is replaced.
LEMMA KeepingStore ==
  ASSUME IInv, ~should_collect, born' = born, NEW x \in DOMAIN live, NEW obj,
         ObjectOK(obj, live, functions), obj.type = heap[x].type, obj.type # "Closure",
         heap' = [heap EXCEPT ![x] = obj],
         ValuesOK(stack', live), GlobalsOK(globals', live), FramesOK(frames', live),
         open_upvalues' = open_upvalues
  PROVE  Disciplined
<1>1. Part(live, heap) /\ HeapOK(live, functions, born)
  BY Live
<1>2. x \in DOMAIN heap
  BY <1>1 DEF Part
<1>3. DOMAIN heap' = DOMAIN heap /\ heap'[x] = obj /\ \A o \in DOMAIN heap : o # x => heap'[o] = heap[o]
  BY <1>2
<1>4. \A o \in DOMAIN live : o \in DOMAIN heap /\ ObjectOK(heap[o], live, functions)
  BY <1>1 DEF Part, HeapOK
<1>5. ASSUME NEW o \in DOMAIN live
      PROVE  /\ ObjectOK(heap'[o], live, functions) /\ heap'[o].type = heap[o].type
             /\ heap[o].type = "Closure" => heap'[o] = heap[o]
  <2>1. CASE o = x
    BY <1>3, <2>1
  <2>2. CASE o # x
    BY <1>3, <1>4, <2>2
  <2> QED
    BY <2>1, <2>2
<1>6. \A o \in DOMAIN heap : o \notin DOMAIN live => heap'[o] = heap[o]
  BY <1>3
<1> QED
  BY <1>3, <1>5, <1>6, KeepingObjects

\* The upvalue that GetUpvalue and SetUpvalue name is live, and so is its value.
LEMMA LiveUpvalue ==
  ASSUME IInv, status = "running", byte(0) \in UpvalueOps
  PROVE  /\ current_upvalue \in DOMAIN live
         /\ ValueOK(heap[current_upvalue].closed, live)
<1>1. /\ OpAt(function, frame.ip) \in UpvalueOps /\ byte(1) = OperandAt(function, frame.ip, 1)
      /\ Works(functions, function, frame.ip, ByteSize, here)
      /\ IsA(frame.closure, "Closure", heap) /\ function = functions[Runs(frame, heap)]
  BY AtInstruction
<1>2. Part(live, heap) /\ HeapOK(live, functions, born) /\ FramesOK(frames, live)
  BY Live
<1>3. IsA(frame.closure, "Closure", live) /\ live[frame.closure] = heap[frame.closure]
  BY <1>2, AtInstruction DEF FramesOK, Part, IsA
<1>4. /\ DOMAIN heap[frame.closure].upvalues = 1 .. function.upvalue_count
      /\ \A k \in DOMAIN heap[frame.closure].upvalues : IsA(heap[frame.closure].upvalues[k], "Upvalue", live)
      /\ Runs(frame, heap) \in DOMAIN functions
  BY <1>1, <1>2, <1>3 DEF HeapOK, ObjectOK, IsA, Runs
<1>5. function.upvalue_count \in Nat
  BY <1>1, <1>4, AtInstruction, VerifiedEntry
<1>6. byte(1) \in 0 .. ByteSize - 1 /\ byte(1) < function.upvalue_count
  BY <1>1, WidthCovers DEF Works, OperandsExist
<1>7. byte(1) + 1 \in 1 .. function.upvalue_count
  BY <1>5, <1>6, VmAssumption
<1>8. IsA(current_upvalue, "Upvalue", live)
  BY <1>4, <1>7 DEF current_upvalue
<1>9. ObjectOK(live[current_upvalue], live, functions) /\ live[current_upvalue] = heap[current_upvalue]
  BY <1>2, <1>8 DEF HeapOK, IsA, Part
<1>10. ValueOK(live[current_upvalue].closed, live)
  BY <1>8, <1>9 DEF ObjectOK, IsA
<1> QED
  BY <1>8, <1>9, <1>10 DEF IsA

\* OpGetUpvalue pushes a value of the stack or of a live upvalue.
LEMMA GetUpvalueKeeps == ASSUME IInv, OpGetUpvalue PROVE Disciplined
<1> DEFINE uv == heap[current_upvalue]
           v == IF uv.is_closed THEN uv.closed ELSE stack[uv.location]
<1>1. /\ status = "running" /\ ~should_collect /\ byte(0) = "GetUpvalue"
      /\ StackOp(2, Append(stack, v))
  BY DEF OpGetUpvalue, Fetch
<1>2. /\ uv.is_closed \in BOOLEAN
      /\ ~uv.is_closed => uv.location \in 1 .. Len(stack)
  BY <1>1, CurrentUpvalue DEF UpvalueOps
<1>3. ValueOK(uv.closed, live)
  BY <1>1, LiveUpvalue DEF UpvalueOps
<1>4. ValueOK(v, live)
  BY <1>2, <1>3, Live DEF ValuesOK
<1> HIDE DEF v
<1> QED
  BY <1>1, <1>4, PushesKeeps

\* OpSetUpvalue stores a value of the stack in the stack or in a live upvalue.
LEMMA SetUpvalueKeeps == ASSUME IInv, OpSetUpvalue PROVE Disciplined
<1> DEFINE uv == heap[current_upvalue]
           obj == ObjUpvalue(uv.location, peek(0), TRUE)
<1>1. /\ status = "running" /\ ~should_collect /\ byte(0) = "SetUpvalue"
      /\ frames' = ip_plus(2) /\ globals' = globals /\ open_upvalues' = open_upvalues /\ born' = born
  BY DEF OpSetUpvalue, Fetch
<1>2. Shaped(functions, function, frame.ip, ByteSize, 2, 1, 0)
  BY <1>1, AtInstruction, ShapeLevel
<1>3. /\ IsA(current_upvalue, "Upvalue", heap) /\ uv.is_closed \in BOOLEAN
      /\ ~uv.is_closed => uv.location \in 1 .. Len(stack)
  BY <1>1, CurrentUpvalue DEF UpvalueOps
<1>4. ValueOK(peek(0), live)
  BY <1>1, <1>2, LiveTaken
<1>5. /\ ValuesOK(stack, live) /\ GlobalsOK(globals, live) /\ FramesOK(frames', live)
      /\ current_upvalue \in DOMAIN live
  BY <1>1, Live, LiveFrames, LiveUpvalue DEF UpvalueOps
<1>6. CASE uv.is_closed
  <2>1. heap' = [heap EXCEPT ![current_upvalue] = obj] /\ stack' = stack
    BY <1>6 DEF OpSetUpvalue
  <2>2. obj.type = "Upvalue" /\ obj.is_closed = TRUE /\ obj.closed = peek(0)
    BY DEF ObjUpvalue
  <2>3. ObjectOK(obj, live, functions)
    BY <2>2, <1>4 DEF ObjectOK, HeapTags
  <2>4. obj.type = heap[current_upvalue].type /\ obj.type # "Closure"
    BY <1>3, <2>2 DEF IsA
  <2> HIDE DEF obj
  <2>5. ValuesOK(stack', live) /\ GlobalsOK(globals', live)
    BY <1>1, <1>5, <2>1
  <2> QED
    BY <1>1, <1>5, <2>1, <2>3, <2>4, <2>5, KeepingStore
<1>7. CASE ~uv.is_closed
  <2>1. heap' = heap /\ stack' = [stack EXCEPT ![uv.location] = peek(0)]
    BY <1>7 DEF OpSetUpvalue
  <2>2. ValuesOK(stack', live)
    <3> DEFINE loc == uv.location
    <3>1. loc \in 1 .. Len(stack) /\ stack' = [stack EXCEPT ![loc] = peek(0)]
      BY <1>3, <1>7, <2>1
    <3> HIDE DEF loc
    <3>2. ValuesOK([stack EXCEPT ![loc] = peek(0)], live)
      BY <1>4, <1>5, <3>1, SetValue
    <3> QED
      BY <3>1, <3>2
  <2>3. GlobalsOK(globals', live)
    BY <1>1, <1>5
  <2> QED
    BY <1>1, <1>5, <2>1, <2>2, <2>3, KeepingHeap
<1> QED
  BY <1>3, <1>6, <1>7

\* close_upvalues stores values of the stack in open upvalues, which are live.
LEMMA ClosingKeeps ==
  ASSUME IInv, ~should_collect, NEW last, close_upvalues(last), born' = born,
         ValuesOK(stack', live), globals' = globals, FramesOK(frames', live)
  PROVE  Disciplined
<1> DEFINE closing == {u \in open_upvalues : heap[u].location >= last}
           obj(o) == ObjUpvalue(heap[o].location, stack[heap[o].location], TRUE)
<1>1. /\ Part(live, heap) /\ HeapOK(live, functions, born) /\ ValuesOK(stack, live)
      /\ GlobalsOK(globals, live) /\ OpenOK(open_upvalues, live, Len(stack))
  BY Live
<1>2. /\ heap' = [o \in DOMAIN heap |-> IF o \in closing THEN obj(o) ELSE heap[o]]
      /\ open_upvalues' = open_upvalues \ closing
  BY DEF close_upvalues
<1>3. /\ DOMAIN heap' = DOMAIN heap
      /\ \A o \in DOMAIN heap : o \in closing => heap'[o] = obj(o)
      /\ \A o \in DOMAIN heap : o \notin closing => heap'[o] = heap[o]
  BY <1>2
<1>4. \A o \in closing : /\ o \in DOMAIN live /\ heap[o].type = "Upvalue"
                         /\ heap[o].location \in 1 .. Len(stack)
  BY <1>1 DEF OpenOK, Open, Part
<1>5. \A o \in closing : ValueOK(stack[heap[o].location], live)
  BY <1>1, <1>4 DEF ValuesOK
<1>6. \A o \in closing : /\ obj(o).type = "Upvalue" /\ obj(o).is_closed = TRUE
                         /\ obj(o).closed = stack[heap[o].location]
  BY DEF ObjUpvalue
<1>7. \A o \in closing : ObjectOK(obj(o), live, functions)
  BY <1>5, <1>6 DEF ObjectOK, HeapTags
<1>8. \A o \in DOMAIN live : o \in DOMAIN heap /\ ObjectOK(heap[o], live, functions)
  BY <1>1 DEF Part, HeapOK
<1>9. open_upvalues' \subseteq open_upvalues
  BY <1>2
<1> HIDE DEF obj, closing
<1>10. \A o \in DOMAIN live : /\ ObjectOK(heap'[o], live, functions)
                              /\ heap'[o].type = heap[o].type
                              /\ heap[o].type = "Closure" => heap'[o] = heap[o]
  BY <1>3, <1>4, <1>6, <1>7, <1>8
<1>11. \A o \in DOMAIN heap : o \notin DOMAIN live => heap'[o] = heap[o]
  BY <1>3, <1>4
<1>12. GlobalsOK(globals', live)
  BY <1>1
<1> QED
  BY <1>3, <1>9, <1>10, <1>11, <1>12, KeepingObjects

\* OpCloseUpvalue.
LEMMA CloseUpvalueKeeps == ASSUME IInv, OpCloseUpvalue PROVE Disciplined
<1>1. /\ status = "running" /\ ~should_collect /\ byte(0) = "CloseUpvalue"
      /\ close_upvalues(Len(stack))
      /\ stack' = popped(1) /\ frames' = ip_plus(1) /\ globals' = globals /\ born' = born
  BY DEF OpCloseUpvalue, Fetch
<1>2. Shaped(functions, function, frame.ip, ByteSize, 1, 1, -1)
  BY <1>1, AtInstruction, ShapePop
<1>3. ValuesOK(popped(1), live) /\ FramesOK(ip_plus(1), live)
  BY <1>1, <1>2, LiveTaken, LiveFrames
<1> QED
  BY <1>1, <1>3, ClosingKeeps

\* OpReturn keeps the result and what is below the frame.
LEMMA ReturnKeeps == ASSUME IInv, OpReturn PROVE Disciplined
<1>1. /\ status = "running" /\ ~should_collect /\ byte(0) = "Return"
      /\ close_upvalues(frame.slot_base + 1)
      /\ frames' = SubSeq(frames, 1, Len(frames) - 1) /\ globals' = globals /\ born' = born
      /\ \/ Len(frames) = 1 /\ stack' = popped(2)
         \/ stack' = Append(SubSeq(stack, 1, frame.slot_base), peek(0))
  BY DEF OpReturn, Fetch, Front
<1>2. /\ VerifiedScript(functions, ByteSize) /\ Len(stack) \in Nat /\ Len(frames) \in Nat \ {0}
      /\ frame = frames[Len(frames)] /\ frame.slot_base \in Nat
      /\ Runs(frame, heap) \in DOMAIN functions /\ function = functions[Runs(frame, heap)]
      /\ frame.ip \in DOMAIN MapOf(functions, Runs(frame, heap))
      /\ Len(stack) = frame.slot_base + here.height /\ OpAt(function, frame.ip) = "Return"
  BY <1>1, AtInstruction
<1>3. ValuesOK(stack, live) /\ FramesOK(frames, live)
  BY Live
<1>4. /\ here.height \in Nat /\ Needs(function, frame.ip) \in Nat
      /\ Needs(function, frame.ip) + 1 <= here.height
  BY <1>1, Operands
<1>5. ValuesOK(stack', live)
  <2>1. CASE Len(frames) = 1 /\ stack' = popped(2)
    <3>1. frame.slot_base = 0 /\ Runs(frame, heap) = Len(functions)
      BY <1>1, <1>2, <2>1 DEF IInv, Running
    <3>2. here.height = 2
      BY <1>2, <3>1, VerifiedAt DEF here, At
    <3>3. Len(stack) = 2
      BY <1>2, <3>1, <3>2
    <3>4. stack' = SubSeq(stack, 1, 0)
      BY <2>1, <3>3 DEF popped
    <3> QED
      BY <1>2, <1>3, <3>4, KeepValues
  <2>2. CASE stack' = Append(SubSeq(stack, 1, frame.slot_base), peek(0))
    <3>1. frame.slot_base <= Len(stack) /\ 0 < Len(stack)
      BY <1>2, <1>4
    <3>2. ValueOK(peek(0), live)
      BY <3>1, LivePeek
    <3>3. ValuesOK(SubSeq(stack, 1, frame.slot_base), live)
      BY <1>2, <1>3, <3>1, KeepValues
    <3> QED
      BY <2>2, <3>2, <3>3, PushValue
  <2> QED
    BY <1>1, <2>1, <2>2
<1>6. FramesOK(frames', live)
  <2> DEFINE n == Len(frames) - 1
  <2>1. n \in Nat /\ n <= Len(frames) /\ IsList(frames) /\ Len(frames) \in Nat
    BY <1>2, <1>3 DEF FramesOK
  <2>2. frames' = SubSeq(frames, 1, n)
    BY <1>1
  <2> HIDE DEF n
  <2>3. /\ IsList(SubSeq(frames, 1, n)) /\ Len(SubSeq(frames, 1, n)) = n
        /\ \A i \in 1 .. n : SubSeq(frames, 1, n)[i] = frames[i]
    BY <2>1, ListPrefix
  <2>4. Len(frames) <= kFramesMax
    BY <1>3 DEF FramesOK
  <2>5. n <= kFramesMax
    BY <2>1, <2>4, VmAssumption
  <2>6. \A i \in 1 .. n : i \in 1 .. Len(frames)
    BY <2>1
  <2> QED
    BY <1>3, <2>2, <2>3, <2>5, <2>6 DEF FramesOK
<1> QED
  BY <1>1, <1>5, <1>6, ClosingKeeps

\* What a live instance, class or bound method holds is live.
LEMMA LiveParts ==
  ASSUME IInv, NEW o
  PROVE  /\ IsA(o, "Instance", live) =>
              /\ IsA(heap[o].klass, "Class", live)
              /\ \A f \in DOMAIN heap[o].fields : ValueOK(heap[o].fields[f], live)
         /\ IsA(o, "Class", live) =>
              \A m \in DOMAIN heap[o].methods : IsA(heap[o].methods[m], "Closure", live)
         /\ IsA(o, "BoundMethod", live) =>
              ValueOK(heap[o].receiver, live) /\ IsA(heap[o].method, "Closure", live)
<1>1. Part(live, heap) /\ HeapOK(live, functions, born)
  BY Live
<1>2. o \in DOMAIN live => ObjectOK(heap[o], live, functions) /\ heap[o] = live[o]
  BY <1>1 DEF Part, HeapOK
<1> QED
  BY <1>2 DEF ObjectOK, IsA

\* OpSetProperty stores a value of the stack in an instance that is on the stack.
LEMMA SetPropertyKeeps == ASSUME IInv, OpSetProperty PROVE Disciplined
<1> DEFINE o == peek(1)[2]
           fields == Put(heap[o].fields, string(1), peek(0))
           obj == ObjInstance(heap[o].klass, fields)
<1>1. /\ status = "running" /\ ~should_collect /\ byte(0) = "SetProperty"
      /\ globals' = globals /\ open_upvalues' = open_upvalues /\ born' = born
      /\ allocations_since_gc' = allocations_since_gc
  BY DEF OpSetProperty, Fetch
<1>2. Shaped(functions, function, frame.ip, ByteSize, 2, 2, -1)
  BY <1>1, AtInstruction, ShapePop
<1>3. ValueOK(peek(0), live) /\ ValueOK(peek(1), live) /\ ValuesOK(popped(2), live)
  BY <1>1, <1>2, LiveTaken
<1>4. CASE peek(1)[1] # "Instance"
  <2>1. ErrorOp(1, "only instances have fields")
    BY <1>1, <1>4 DEF OpSetProperty, ErrorOp, gcV
  <2> QED
    BY <1>1, <2>1, ErrorOpKeeps
<1>5. CASE peek(1)[1] = "Instance"
  <2>1. /\ heap' = [heap EXCEPT ![o] = obj] /\ stack' = Append(popped(2), peek(0))
        /\ frames' = ip_plus(2)
    BY <1>5 DEF OpSetProperty
  <2>2. IsA(o, "Instance", live)
    BY <1>3, <1>5 DEF ValueOK, PointerTags
  <2>3. /\ IsA(heap[o].klass, "Class", live)
        /\ \A f \in DOMAIN heap[o].fields : ValueOK(heap[o].fields[f], live)
    BY <2>2, LiveParts
  <2>4. \A f \in DOMAIN fields : ValueOK(fields[f], live)
    BY <1>3, <2>3 DEF Put
  <2> HIDE DEF fields
  <2>5. ObjectOK(obj, live, functions)
    BY <2>3, <2>4, MadeObjects
  <2>6. obj.type = "Instance"
    BY DEF ObjInstance
  <2>7. o \in DOMAIN live /\ obj.type = heap[o].type /\ obj.type # "Closure"
    BY <2>2, <2>6, Live DEF IsA, Part
  <2> HIDE DEF o, obj
  <2>8. ValuesOK(stack', live)
    BY <1>3, <2>1, PushValue
  <2>9. GlobalsOK(globals', live) /\ FramesOK(frames', live)
    BY <1>1, <2>1, Live, LiveFrames
  <2> QED
    BY <1>1, <2>1, <2>5, <2>7, <2>8, <2>9, KeepingStore
<1> QED
  BY <1>4, <1>5

\* OpInherit stores the closures of one class on the stack in another.
LEMMA InheritKeeps == ASSUME IInv, OpInherit PROVE Disciplined
<1> DEFINE from == peek(1)[2]
           o == peek(0)[2]
           methods == CopiedOver(heap[from].methods, heap[o].methods)
           obj == ObjClass(heap[o].name, methods)
<1>1. /\ status = "running" /\ ~should_collect /\ byte(0) = "Inherit"
      /\ globals' = globals /\ open_upvalues' = open_upvalues /\ born' = born
      /\ allocations_since_gc' = allocations_since_gc
  BY DEF OpInherit, Fetch
<1>2. Shaped(functions, function, frame.ip, ByteSize, 1, 2, -1)
  BY <1>1, AtInstruction, ShapePop
<1>3. ValueOK(peek(0), live) /\ ValueOK(peek(1), live) /\ ValuesOK(popped(1), live)
  BY <1>1, <1>2, LiveTaken
<1>4. CASE peek(1)[1] # "Class"
  <2>1. ErrorOp(1, "superclass must be a class")
    BY <1>1, <1>4 DEF OpInherit, ErrorOp, gcV
  <2> QED
    BY <1>1, <2>1, ErrorOpKeeps
<1>5. CASE peek(1)[1] = "Class"
  <2>1. /\ heap' = [heap EXCEPT ![o] = obj] /\ stack' = popped(1)
        /\ frames' = ip_plus(1) /\ peek(0)[1] = "Class"
    BY <1>5 DEF OpInherit
  <2>2. IsA(o, "Class", live) /\ IsA(from, "Class", live)
    BY <1>3, <1>5, <2>1 DEF ValueOK, PointerTags
  <2>3. /\ \A m \in DOMAIN heap[o].methods : IsA(heap[o].methods[m], "Closure", live)
        /\ \A m \in DOMAIN heap[from].methods : IsA(heap[from].methods[m], "Closure", live)
    BY <2>2, LiveParts
  <2>4. \A m \in DOMAIN methods : IsA(methods[m], "Closure", live)
    BY <2>3 DEF CopiedOver
  <2> HIDE DEF methods
  <2>5. ObjectOK(obj, live, functions)
    BY <2>4, MadeObjects
  <2>6. obj.type = "Class"
    BY DEF ObjClass
  <2>7. o \in DOMAIN live /\ obj.type = heap[o].type /\ obj.type # "Closure"
    BY <2>2, <2>6, Live DEF IsA, Part
  <2> HIDE DEF o, obj
  <2>8. ValuesOK(stack', live)
    BY <1>3, <2>1
  <2>9. GlobalsOK(globals', live) /\ FramesOK(frames', live)
    BY <1>1, <2>1, Live, LiveFrames
  <2> QED
    BY <1>1, <2>1, <2>5, <2>7, <2>8, <2>9, KeepingStore
<1> QED
  BY <1>4, <1>5

\* OpMethod stores a closure of the stack in a class that is on the stack.
LEMMA MethodKeeps == ASSUME IInv, OpMethod PROVE Disciplined
<1> DEFINE o == peek(1)[2]
           methods == Put(heap[o].methods, string(1), peek(0)[2])
           obj == ObjClass(heap[o].name, methods)
<1>1. /\ status = "running" /\ ~should_collect /\ byte(0) = "Method"
      /\ peek(0)[1] = "Closure" /\ peek(1)[1] = "Class"
      /\ heap' = [heap EXCEPT ![o] = obj] /\ stack' = popped(1) /\ frames' = ip_plus(2)
      /\ globals' = globals /\ open_upvalues' = open_upvalues /\ born' = born
  BY DEF OpMethod, add_method, Fetch
<1>2. Shaped(functions, function, frame.ip, ByteSize, 2, 2, -1)
  BY <1>1, AtInstruction, ShapePop
<1>3. ValueOK(peek(0), live) /\ ValueOK(peek(1), live) /\ ValuesOK(popped(1), live)
  BY <1>1, <1>2, LiveTaken
<1>4. IsA(o, "Class", live) /\ IsA(peek(0)[2], "Closure", live)
  BY <1>1, <1>3 DEF ValueOK, PointerTags
<1>5. \A m \in DOMAIN heap[o].methods : IsA(heap[o].methods[m], "Closure", live)
  BY <1>4, LiveParts
<1>6. \A m \in DOMAIN methods : IsA(methods[m], "Closure", live)
  BY <1>4, <1>5 DEF Put
<1> HIDE DEF methods
<1>7. ObjectOK(obj, live, functions)
  BY <1>6, MadeObjects
<1>8. obj.type = "Class"
  BY DEF ObjClass
<1>9. o \in DOMAIN live /\ obj.type = heap[o].type /\ obj.type # "Closure"
  BY <1>4, <1>8, Live DEF IsA, Part
<1> HIDE DEF o, obj
<1>10. ValuesOK(stack', live)
  BY <1>1, <1>3
<1>11. GlobalsOK(globals', live) /\ FramesOK(frames', live)
  BY <1>1, Live, LiveFrames
<1> QED
  BY <1>1, <1>7, <1>9, <1>10, <1>11, KeepingStore

-----------------------------------------------------------------------------
(***************************************************************************)
(* Instructions that allocate.                                             *)
(***************************************************************************)
\* The live objects with obj as a new one.
LiveWith(obj) == Put(live, born + 1, obj)

\* A new object that holds live values is good, and so is all that was live.
LEMMA LiveAllocated ==
  ASSUME IInv, NEW obj, ObjectOK(obj, live, functions), obj.type # "Upvalue"
  PROVE  /\ Grows(live, LiveWith(obj)) /\ HeapOK(LiveWith(obj), functions, born + 1)
         /\ DOMAIN LiveWith(obj) = DOMAIN live \cup {born + 1}
         /\ LiveWith(obj)[born + 1] = obj /\ \A o \in DOMAIN live : LiveWith(obj)[o] = live[o]
         /\ ValueOK(<<obj.type, born + 1>>, LiveWith(obj))
<1>1. born \in Nat /\ HeapOK(live, functions, born)
  BY Live DEF IInv, Counts
<1>2. /\ Grows(live, LiveWith(obj)) /\ HeapOK(LiveWith(obj), functions, born + 1)
      /\ born + 1 \in DOMAIN LiveWith(obj)
      /\ LiveWith(obj)[born + 1] = obj /\ \A o \in DOMAIN live : LiveWith(obj)[o] = live[o]
  BY <1>1, PutObject DEF LiveWith
<1>3. DOMAIN LiveWith(obj) = DOMAIN live \cup {born + 1}
  BY DEF LiveWith, Put
<1>4. ValueOK(<<obj.type, born + 1>>, LiveWith(obj))
  BY <1>2 DEF ValueOK, IsA
<1> QED
  BY <1>2, <1>3, <1>4

\* allocate: the machine goes on with what was live and the new object.
LEMMA KeepingNew ==
  ASSUME IInv, ~should_collect, NEW obj, allocate(obj), ObjectOK(obj, live, functions),
         obj.type # "Upvalue", ValuesOK(stack', LiveWith(obj)), globals' = globals,
         FramesOK(frames', LiveWith(obj)), open_upvalues' = open_upvalues
  PROVE  Disciplined
<1>1. /\ Part(live, heap) /\ GlobalsOK(globals, live) /\ OpenOK(open_upvalues, live, Len(stack))
      /\ born \in Nat /\ DOMAIN heap \subseteq 1 .. born
  BY Live DEF IInv, Counts, HeapOK
<1>2. heap' = Put(heap, born + 1, obj) /\ born' = born + 1
  BY DEF allocate
<1> DEFINE m == LiveWith(obj)
<1>3. /\ Grows(live, m) /\ HeapOK(m, functions, born + 1) /\ DOMAIN m = DOMAIN live \cup {born + 1}
      /\ m[born + 1] = obj /\ \A o \in DOMAIN live : m[o] = live[o]
  BY LiveAllocated
<1> HIDE DEF m
<1>4. born + 1 \notin DOMAIN heap /\ born + 1 \in Nat /\ born + 1 > born
  BY <1>1
<1>5. /\ DOMAIN heap' = DOMAIN heap \cup {born + 1} /\ heap'[born + 1] = obj
      /\ \A o \in DOMAIN heap : heap'[o] = heap[o]
  BY <1>2, <1>4 DEF Put
<1>6. DOMAIN live \subseteq DOMAIN heap /\ \A o \in DOMAIN live : live[o] = heap[o]
  BY <1>1 DEF Part
<1>7. \A o \in DOMAIN heap' : heap'[o] = IF o \in DOMAIN m THEN m[o] ELSE heap[o]
  BY <1>3, <1>4, <1>5, <1>6
<1>8. Leaves(m)
  BY <1>3, <1>4, <1>5, <1>6, <1>7 DEF Leaves
<1>9. GlobalsOK(globals', m)
  BY <1>1, <1>3, GrowRoots
<1>10. open_upvalues' \subseteq DOMAIN m
  BY <1>1, <1>3 DEF OpenOK, Open
<1>11. Holds(m)
  BY <1>2, <1>3, <1>9, <1>10 DEF Holds, m
<1> QED
  BY <1>8, <1>11, Keeping

\* OpClass pushes a new class.
LEMMA ClassKeeps == ASSUME IInv, OpClass PROVE Disciplined
<1> DEFINE obj == ObjClass(string(1), EmptyMap)
<1>1. /\ status = "running" /\ ~should_collect /\ allocate(obj) /\ frames' = ip_plus(2)
      /\ stack' = Append(stack, <<"Class", born + 1>>)
      /\ globals' = globals /\ open_upvalues' = open_upvalues
  BY DEF OpClass, Fetch
<1>2. ObjectOK(obj, live, functions)
  BY MadeObjects
<1>3. obj.type = "Class"
  BY DEF ObjClass
<1> HIDE DEF obj
<1>4. Grows(live, LiveWith(obj)) /\ ValueOK(<<"Class", born + 1>>, LiveWith(obj))
  BY <1>2, <1>3, LiveAllocated
<1>5. ValuesOK(stack, LiveWith(obj)) /\ FramesOK(ip_plus(2), LiveWith(obj))
  BY <1>1, <1>4, Live, LiveFrames, GrowRoots
<1>6. ValuesOK(stack', LiveWith(obj))
  BY <1>1, <1>4, <1>5, PushValue
<1> QED
  BY <1>1, <1>2, <1>3, <1>5, <1>6, KeepingNew

\* bind_method makes a bound method of a live receiver and a live class's method.
LEMMA BindMethodKeeps ==
  ASSUME IInv, status = "running", ~should_collect, globals' = globals, open_upvalues' = open_upvalues,
         NEW klass, NEW name, NEW stk, bind_method(klass, name, stk),
         IsA(klass, "Class", live), ValuesOK(stk, live), Len(stk) >= 1
  PROVE  Disciplined
<1>1. frames' = ip_plus(2) /\ FramesOK(ip_plus(2), live) /\ GlobalsOK(globals, live)
  BY Live, LiveFrames DEF bind_method
<1>2. CASE name \notin DOMAIN heap[klass].methods
  <2>1. stack' = stk /\ heap' = heap /\ born' = born
    BY <1>2 DEF bind_method, gcV
  <2> QED
    BY <1>1, <2>1, KeepingHeap
<1>3. CASE name \in DOMAIN heap[klass].methods
  <2> DEFINE obj == ObjBoundMethod(stk[Len(stk)], heap[klass].methods[name])
             front == SubSeq(stk, 1, Len(stk) - 1)
  <2>1. allocate(obj) /\ stack' = Append(front, <<"BoundMethod", born + 1>>)
    BY <1>3 DEF bind_method, Last, Front
  <2>2. IsList(stk) /\ Len(stk) \in Nat
    BY ListLength DEF ValuesOK
  <2>3. Len(stk) \in 1 .. Len(stk) /\ Len(stk) - 1 \in Nat /\ Len(stk) - 1 <= Len(stk)
    BY <2>2
  <2>4. ValueOK(stk[Len(stk)], live)
    BY <2>3 DEF ValuesOK
  <2>5. IsA(heap[klass].methods[name], "Closure", live)
    BY <1>3, LiveParts
  <2>6. ObjectOK(obj, live, functions)
    BY <2>4, <2>5, MadeObjects
  <2>7. obj.type = "BoundMethod"
    BY DEF ObjBoundMethod
  <2>8. ValuesOK(front, live)
    BY <2>3, KeepValues
  <2> HIDE DEF obj, front
  <2>9. Grows(live, LiveWith(obj)) /\ ValueOK(<<"BoundMethod", born + 1>>, LiveWith(obj))
    BY <2>6, <2>7, LiveAllocated
  <2>10. ValuesOK(front, LiveWith(obj)) /\ FramesOK(frames', LiveWith(obj))
    BY <1>1, <2>8, <2>9, GrowRoots
  <2>11. ValuesOK(stack', LiveWith(obj))
    BY <2>1, <2>9, <2>10, PushValue
  <2> QED
    BY <2>1, <2>6, <2>7, <2>10, <2>11, KeepingNew
<1> QED
  BY <1>2, <1>3

\* OpGetProperty reads a field of an instance on the stack or binds a method to it.
LEMMA GetPropertyKeeps == ASSUME IInv, OpGetProperty PROVE Disciplined
<1> DEFINE o == peek(0)[2]
           name == string(1)
<1>1. /\ status = "running" /\ ~should_collect /\ byte(0) = "GetProperty"
      /\ globals' = globals /\ open_upvalues' = open_upvalues
  BY DEF OpGetProperty, Fetch
<1>2. Shaped(functions, function, frame.ip, ByteSize, 2, 1, 0)
  BY <1>1, AtInstruction, ShapeLevel
<1>3. Len(stack) >= 1 /\ ValueOK(peek(0), live) /\ ValuesOK(stack, live)
  BY <1>1, <1>2, Taken, LiveTaken, Live
<1>4. CASE peek(0)[1] # "Instance"
  <2>1. ErrorOp(1, "only instances have properties")
    BY <1>1, <1>4 DEF OpGetProperty, ErrorOp
  <2> QED
    BY <1>1, <2>1, ErrorOpKeeps
<1>5. CASE peek(0)[1] = "Instance"
  <2>1. IsA(o, "Instance", live)
    BY <1>3, <1>5 DEF ValueOK, PointerTags
  <2>2. /\ IsA(heap[o].klass, "Class", live)
        /\ \A f \in DOMAIN heap[o].fields : ValueOK(heap[o].fields[f], live)
    BY <2>1, LiveParts
  <2>3. CASE name \in DOMAIN heap[o].fields
    <3>1. StackOp(2, Append(popped(1), heap[o].fields[name]))
      BY <1>1, <1>5, <2>3 DEF OpGetProperty, StackOp
    <3>2. ValueOK(heap[o].fields[name], live)
      BY <2>2, <2>3
    <3> HIDE DEF o, name
    <3> QED
      BY <1>1, <1>2, <3>1, <3>2, ReplacesKeeps
  <2>4. CASE name \notin DOMAIN heap[o].fields
    <3>1. bind_method(heap[o].klass, name, stack)
      BY <1>5, <2>4 DEF OpGetProperty
    <3> HIDE DEF o, name
    <3> QED
      BY <1>1, <1>3, <2>2, <3>1, BindMethodKeeps
  <2> QED
    BY <2>3, <2>4
<1> QED
  BY <1>4, <1>5

\* OpGetSuper binds a method of a class that is on the stack.
LEMMA GetSuperKeeps == ASSUME IInv, OpGetSuper PROVE Disciplined
<1>1. /\ status = "running" /\ ~should_collect /\ byte(0) = "GetSuper" /\ peek(0)[1] = "Class"
      /\ bind_method(peek(0)[2], string(1), popped(1))
      /\ globals' = globals /\ open_upvalues' = open_upvalues
  BY DEF OpGetSuper, Fetch
<1>2. Shaped(functions, function, frame.ip, ByteSize, 2, 2, -1)
  BY <1>1, AtInstruction, ShapePop
<1>3. ValueOK(peek(0), live) /\ ValuesOK(popped(1), live)
  BY <1>1, <1>2, LiveTaken
<1>4. Len(stack) \in Nat /\ 2 < Len(stack) /\ Len(popped(1)) = Len(stack) - 1
  BY <1>1, <1>2, Taken
<1>5. Len(popped(1)) >= 1
  BY <1>4
<1>6. IsA(peek(0)[2], "Class", live)
  BY <1>1, <1>3 DEF ValueOK, PointerTags
<1> QED
  BY <1>1, <1>3, <1>5, <1>6, BindMethodKeeps

\* OpClosure makes a closure of live upvalues and of the ones it opens.
LEMMA ClosureKeeps == ASSUME IInv, OpClosure PROVE Disciplined
<1> DEFINE fn == string(1)
           count == functions[fn].upvalue_count
           is_local(k) == byte(2 * k) # 0
           index(k) == byte(2 * k + 1)
           created == {index(k) : k \in {j \in 1 .. count : is_local(j) /\ opened(slot(index(j))) = {}}}
           upvalues == [k \in 1 .. count |-> IF is_local(k) THEN capture_upvalue(index(k))
                                             ELSE heap[frame.closure].upvalues[index(k) + 1]]
           opening == {born + 2 + i : i \in created}
<1>1. /\ status = "running" /\ ~should_collect /\ byte(0) = "Closure"
      /\ heap' = [o \in DOMAIN heap \cup {born + 1} \cup opening |->
                    CASE o \in opening  -> ObjUpvalue(slot(o - born - 2), Nil, FALSE)
                      [] o = born + 1   -> ObjClosure(fn, upvalues)
                      [] OTHER          -> heap[o]]
      /\ born' = born + 1 + ByteSize
      /\ open_upvalues' = open_upvalues \cup opening
      /\ stack' = Append(stack, <<"Closure", born + 1>>)
      /\ frames' = ip_plus(2 + 2 * count)
      /\ globals' = globals
  BY DEF OpClosure, Fetch
<1>2. /\ fn \in DOMAIN functions /\ count \in Nat
      /\ \A k \in 1 .. count :
           /\ index(k) \in 0 .. ByteSize - 1
           /\ ~is_local(k) => index(k) + 1 \in 1 .. function.upvalue_count
  BY <1>1, ClosureOperands
<1>3. /\ function = functions[Runs(frame, heap)] /\ frame = frames[Len(frames)]
      /\ Len(frames) \in 1 .. Len(frames)
  BY <1>1, AtInstruction
<1>4. /\ born \in Nat /\ HeapOK(live, functions, born) /\ DOMAIN heap \subseteq 1 .. born
      /\ ValuesOK(stack, live) /\ GlobalsOK(globals, live) /\ FramesOK(frames, live)
      /\ OpenOK(open_upvalues, live, Len(stack)) /\ Part(live, heap)
  BY Live DEF IInv, Counts, HeapOK
<1>5. ByteSize \in Nat \ {0}
  BY VmAssumption
<1>6. \A i \in created : i \in 0 .. ByteSize - 1
  BY <1>2
<1>7. \A k \in 1 .. count : is_local(k) /\ opened(slot(index(k))) = {} => index(k) \in created
  OBVIOUS
<1>8. \A k \in 1 .. count :
        \/ is_local(k) /\ upvalues[k] = capture_upvalue(index(k))
        \/ ~is_local(k) /\ upvalues[k] = heap[frame.closure].upvalues[index(k) + 1]
  OBVIOUS
<1>9. DOMAIN upvalues = 1 .. count
  OBVIOUS
<1> HIDE DEF created, upvalues, fn, count, is_local, index
<1>10. \A o \in opening : o \in Nat /\ o \in born + 2 .. born + 1 + ByteSize /\ o \notin DOMAIN heap /\ o # born + 1
  BY <1>4, <1>5, <1>6
<1>11. \A i \in created : born + 2 + i \in opening
  OBVIOUS
<1> HIDE DEF opening
<1>12. DOMAIN live \subseteq DOMAIN heap /\ \A o \in DOMAIN live : live[o] = heap[o]
  BY <1>4 DEF Part
<1>13. born + 1 \notin DOMAIN heap /\ born + 1 \notin opening /\ born + 1 \in Nat /\ born + 1 > born
  BY <1>4, <1>10
<1>14. /\ DOMAIN heap' = DOMAIN heap \cup {born + 1} \cup opening
       /\ heap'[born + 1] = ObjClosure(fn, upvalues)
       /\ \A o \in opening : heap'[o] = ObjUpvalue(slot(o - born - 2), Nil, FALSE)
       /\ \A o \in DOMAIN heap : heap'[o] = heap[o]
  BY <1>1, <1>10, <1>13
<1> DEFINE m == [o \in DOMAIN live \cup {born + 1} \cup opening |-> heap'[o]]
<1>15. /\ DOMAIN m = DOMAIN live \cup {born + 1} \cup opening
       /\ \A o \in DOMAIN m : m[o] = heap'[o]
  OBVIOUS
<1> HIDE DEF m
<1>16. \A o \in DOMAIN live : o \in DOMAIN m /\ m[o] = live[o]
  BY <1>12, <1>14, <1>15
<1>17. Grows(live, m)
  BY <1>16 DEF Grows
<1>18. /\ born + 1 \in DOMAIN m /\ m[born + 1].type = "Closure" /\ m[born + 1].function = fn
       /\ m[born + 1].upvalues = upvalues
  BY <1>14, <1>15 DEF ObjClosure
<1>19. \A o \in opening : /\ o \in DOMAIN m /\ m[o].type = "Upvalue" /\ m[o].is_closed = FALSE
                          /\ m[o].closed = Nil
  BY <1>14, <1>15 DEF ObjUpvalue
<1>20. \A k \in 1 .. count : IsA(upvalues[k], "Upvalue", m)
  <2> SUFFICES ASSUME NEW k \in 1 .. count PROVE IsA(upvalues[k], "Upvalue", m)
    OBVIOUS
  <2>1. CASE ~is_local(k)
    <3>1. index(k) + 1 \in 1 .. function.upvalue_count
      BY <1>2, <2>1
    <3>2. IsA(frame.closure, "Closure", live)
      BY <1>3, <1>4 DEF FramesOK
    <3>3. live[frame.closure] = heap[frame.closure]
      BY <1>12, <3>2 DEF IsA
    <3>4. /\ DOMAIN heap[frame.closure].upvalues = 1 .. function.upvalue_count
          /\ \A n \in DOMAIN heap[frame.closure].upvalues :
               IsA(heap[frame.closure].upvalues[n], "Upvalue", live)
      BY <1>3, <1>4, <3>2, <3>3 DEF HeapOK, ObjectOK, IsA, Runs
    <3>5. IsA(heap[frame.closure].upvalues[index(k) + 1], "Upvalue", live)
      BY <3>1, <3>4
    <3> QED
      BY <1>8, <1>17, <2>1, <3>5, GrowIsA
  <2>2. CASE is_local(k) /\ opened(slot(index(k))) # {}
    <3>1. upvalues[k] \in opened(slot(index(k)))
      BY <1>8, <2>2 DEF capture_upvalue
    <3>2. IsA(upvalues[k], "Upvalue", live)
      BY <3>1, <1>4 DEF opened, OpenOK, Open, IsA
    <3> QED
      BY <1>17, <3>2, GrowIsA
  <2>3. CASE is_local(k) /\ opened(slot(index(k))) = {}
    <3>1. upvalues[k] = born + 2 + index(k)
      BY <1>8, <2>3 DEF capture_upvalue
    <3>2. upvalues[k] \in opening
      BY <1>7, <1>11, <2>3, <3>1
    <3> QED
      BY <1>19, <3>2 DEF IsA
  <2> QED
    BY <2>1, <2>2, <2>3
<1>21. HeapOK(m, functions, born')
  <2>1. ObjectOK(m[born + 1], m, functions)
    BY <1>2, <1>9, <1>18, <1>20 DEF ObjectOK, HeapTags, PointerTags, count
  <2>2. \A o \in opening : ObjectOK(m[o], m, functions)
    BY <1>19, PlainValues DEF ObjectOK, HeapTags
  <2>3. \A o \in DOMAIN live : ObjectOK(m[o], m, functions)
    BY <1>4, <1>16, <1>17, GrowObject DEF HeapOK
  <2>4. DOMAIN live \subseteq 1 .. born
    BY <1>4, <1>12
  <2>5. DOMAIN m \subseteq 1 .. born'
    BY <1>1, <1>4, <1>5, <1>10, <1>15, <2>4
  <2> QED
    BY <1>15, <2>1, <2>2, <2>3, <2>5 DEF HeapOK
<1>22. ValuesOK(stack', m) /\ GlobalsOK(globals', m) /\ FramesOK(frames', m)
  <2>1. FramesOK(frames', live)
    BY <1>1, LiveFrames
  <2>2. ValuesOK(stack, m) /\ GlobalsOK(globals', m) /\ FramesOK(frames', m)
    BY <1>1, <1>4, <1>17, <2>1, GrowRoots
  <2>3. ValueOK(<<"Closure", born + 1>>, m)
    BY <1>18 DEF ValueOK, IsA
  <2> QED
    BY <1>1, <2>2, <2>3, PushValue
<1>23. open_upvalues' \subseteq DOMAIN m
  BY <1>1, <1>4, <1>15 DEF OpenOK, Open
<1>24. Leaves(m)
  <2>1. \A o \in DOMAIN m : o \in DOMAIN live \/ (o \in Nat /\ o > born)
    BY <1>4, <1>10, <1>13, <1>15
  <2>2. DOMAIN heap' = DOMAIN heap \cup DOMAIN m
    BY <1>12, <1>14, <1>15
  <2>3. \A o \in DOMAIN heap' : heap'[o] = IF o \in DOMAIN m THEN m[o] ELSE heap[o]
    BY <1>14, <1>15
  <2> QED
    BY <1>15, <2>1, <2>2, <2>3 DEF Leaves
<1>25. Holds(m)
  BY <1>21, <1>22, <1>23 DEF Holds
<1> QED
  BY <1>1, <1>24, <1>25, Keeping

-----------------------------------------------------------------------------
(***************************************************************************)
(* Calls.                                                                  *)
(***************************************************************************)
\* call leaves the stack it is given, and a frame for the closure if it is entered.
LEMMA CallHolds ==
  ASSUME IInv, NEW closure, NEW argc \in Nat, NEW stk, NEW width, call(closure, argc, stk, width),
         NEW m, IsA(closure, "Closure", m), FramesOK(ip_plus(width), m),
         Len(ip_plus(width)) = Len(frames), Len(stk) \in Nat, argc < Len(stk)
  PROVE  stack' = stk /\ FramesOK(frames', m)
<1>1. stack' = stk
  BY DEF call
<1>2. \/ frames' = ip_plus(width)
      \/ /\ ~(Len(frames) >= kFramesMax)
         /\ frames' = Append(ip_plus(width), CallFrame(closure, 0, Len(stk) - argc - 1))
  BY DEF call
<1>3. CASE frames' = ip_plus(width)
  BY <1>1, <1>3
<1>4. CASE /\ ~(Len(frames) >= kFramesMax)
           /\ frames' = Append(ip_plus(width), CallFrame(closure, 0, Len(stk) - argc - 1))
  <2> DEFINE frs == ip_plus(width)
             base == Len(stk) - argc - 1
             fr == CallFrame(closure, 0, base)
  <2>1. IsList(frs) /\ Len(frs) \in Nat /\ Len(frs) = Len(frames)
    BY ListLength DEF FramesOK
  <2>2. base \in Nat
    OBVIOUS
  <2>3. frames' = Append(frs, fr)
    BY <1>4
  <2> HIDE DEF frs, base
  <2>4. fr.closure = closure /\ fr.slot_base = base
    BY DEF CallFrame
  <2> HIDE DEF fr
  <2>5. /\ IsList(Append(frs, fr)) /\ Len(Append(frs, fr)) = Len(frs) + 1
        /\ Append(frs, fr)[Len(frs) + 1] = fr
        /\ \A i \in 1 .. Len(frs) : Append(frs, fr)[i] = frs[i]
    BY <2>1, ListAppend
  <2>6. Len(frs) + 1 <= kFramesMax
    BY <1>4, <2>1, VmAssumption
  <2>7. \A i \in 1 .. Len(frs) : IsA(frs[i].closure, "Closure", m) /\ frs[i].slot_base \in Nat
    BY DEF FramesOK, frs
  <2>8. \A i \in 1 .. Len(frs) + 1 : i \in 1 .. Len(frs) \/ i = Len(frs) + 1
    BY <2>1
  <2>9. \A i \in 1 .. Len(frs) + 1 : /\ IsA(Append(frs, fr)[i].closure, "Closure", m)
                                     /\ Append(frs, fr)[i].slot_base \in Nat
    BY <2>2, <2>4, <2>5, <2>7, <2>8
  <2>10. FramesOK(Append(frs, fr), m)
    BY <2>5, <2>6, <2>9 DEF FramesOK
  <2> QED
    BY <1>1, <2>3, <2>10
<1> QED
  BY <1>2, <1>3, <1>4

\* The frames with ip moved on are as many.
LEMMA SameFrames ==
  ASSUME IInv, status = "running", NEW n
  PROVE  /\ Len(ip_plus(n)) = Len(frames) /\ IsList(ip_plus(n)) /\ IsList(frames)
         /\ \A i \in 1 .. Len(frames) : ip_plus(n)[i].closure = frames[i].closure
<1>1. frame = frames[Len(frames)] /\ Len(frames) >= 1 /\ FramesOK(frames, heap)
  BY AtInstruction DEF IInv
<1>2. ip_plus(n) = MoveTo(frames, frame.ip + n)
  BY <1>1 DEF ip_plus, MoveTo
<1> DEFINE t == frame.ip + n
<1> HIDE DEF t
<1>3. /\ FramesOK(MoveTo(frames, t), heap) /\ Len(MoveTo(frames, t)) = Len(frames)
      /\ MoveTo(frames, t)[Len(frames)] =
           CallFrame(frames[Len(frames)].closure, t, frames[Len(frames)].slot_base)
      /\ \A i \in 1 .. Len(frames) : i # Len(frames) => MoveTo(frames, t)[i] = frames[i]
  BY <1>1, MovedFrames
<1>4. MoveTo(frames, t)[Len(frames)].closure = frames[Len(frames)].closure
  BY <1>3 DEF CallFrame
<1>5. \A i \in 1 .. Len(frames) : MoveTo(frames, t)[i].closure = frames[i].closure
  BY <1>3, <1>4
<1>6. ip_plus(n) = MoveTo(frames, t)
  BY <1>2 DEF t
<1> QED
  BY <1>1, <1>3, <1>5, <1>6 DEF FramesOK

\* A closure that is live is called with live values.
LEMMA CallKeeps ==
  ASSUME IInv, status = "running", ~should_collect, globals' = globals, open_upvalues' = open_upvalues,
         UNCHANGED gcV, NEW closure, NEW argc \in Nat, NEW stk, NEW width,
         call(closure, argc, stk, width), IsA(closure, "Closure", live), ValuesOK(stk, live),
         argc < Len(stk)
  PROVE  Disciplined
<1>1. Len(stk) \in Nat
  BY ListLength DEF ValuesOK
<1>2. FramesOK(ip_plus(width), live) /\ Len(ip_plus(width)) = Len(frames)
  BY LiveFrames, SameFrames
<1>3. stack' = stk /\ FramesOK(frames', live)
  BY <1>1, <1>2, CallHolds
<1>4. GlobalsOK(globals', live) /\ heap' = heap /\ born' = born
  BY Live DEF gcV
<1> QED
  BY <1>3, <1>4, KeepingHeap

\* A call that fails leaves a stack of live values.
LEMMA CallErrorKeeps ==
  ASSUME IInv, status = "running", ~should_collect, globals' = globals, open_upvalues' = open_upvalues,
         UNCHANGED gcV, NEW n, frames' = ip_plus(n), ValuesOK(stack', live)
  PROVE  Disciplined
<1>1. GlobalsOK(globals', live) /\ FramesOK(frames', live) /\ heap' = heap /\ born' = born
  BY Live, LiveFrames DEF gcV
<1> QED
  BY <1>1, KeepingHeap

\* construct makes an instance of a live class and calls the class's init.
LEMMA ConstructKeeps ==
  ASSUME IInv, ~should_collect, NEW argc, NEW stk, NEW width, Calling(argc, stk, width),
         ValuesOK(stk, live), NEW klass, IsA(klass, "Class", live), construct(klass, argc, stk, width)
  PROVE  Disciplined
<1> DEFINE obj == ObjInstance(klass, EmptyMap)
           with == [stk EXCEPT ![callee_slot(argc)] = <<"Instance", born + 1>>]
<1>1. /\ Len(stack) \in Nat /\ argc \in Nat /\ argc + 1 < Len(stack) /\ Len(stk) \in Nat
      /\ callee_slot(argc) \in 1 .. Len(stk)
  BY CalleeSlot
<1>2. /\ status = "running" /\ globals' = globals /\ open_upvalues' = open_upvalues
      /\ Len(stk) = Len(stack)
  BY DEF Calling
<1>3. allocate(obj)
  BY DEF construct
<1>4. ObjectOK(obj, live, functions)
  BY MadeObjects
<1>5. obj.type = "Instance"
  BY DEF ObjInstance
<1>6. \/ "init" \in DOMAIN heap[klass].methods /\ call(heap[klass].methods["init"], argc, with, width)
      \/ stack' = with /\ frames' = ip_plus(width)
  BY DEF construct
<1> HIDE DEF obj
<1>7. /\ Grows(live, LiveWith(obj)) /\ ValueOK(<<"Instance", born + 1>>, LiveWith(obj))
  BY <1>4, <1>5, LiveAllocated
<1>8. ValuesOK(stk, LiveWith(obj)) /\ FramesOK(ip_plus(width), LiveWith(obj))
  BY <1>2, <1>7, LiveFrames, GrowRoots
<1>9. ValuesOK(with, LiveWith(obj)) /\ Len(with) = Len(stk)
  <2> DEFINE loc == callee_slot(argc)
             v == <<"Instance", born + 1>>
             m == LiveWith(obj)
  <2>1. loc \in 1 .. Len(stk) /\ ValueOK(v, m) /\ ValuesOK(stk, m)
    BY <1>1, <1>7, <1>8
  <2> HIDE DEF loc, v, m
  <2>2. ValuesOK([stk EXCEPT ![loc] = v], m) /\ Len([stk EXCEPT ![loc] = v]) = Len(stk)
    BY <2>1, SetValue
  <2> QED
    BY <2>2 DEF loc, v, m
<1> HIDE DEF with
<1>10. stack' = with /\ FramesOK(frames', LiveWith(obj))
  <2>1. CASE "init" \in DOMAIN heap[klass].methods /\ call(heap[klass].methods["init"], argc, with, width)
    <3>1. IsA(heap[klass].methods["init"], "Closure", live)
      BY <2>1, LiveParts
    <3>2. IsA(heap[klass].methods["init"], "Closure", LiveWith(obj))
      BY <1>7, <3>1, GrowIsA
    <3>3. Len(ip_plus(width)) = Len(frames)
      BY <1>2, SameFrames
    <3>4. Len(with) \in Nat /\ argc < Len(with)
      BY <1>1, <1>2, <1>9
    <3> QED
      BY <1>1, <1>8, <2>1, <3>2, <3>3, <3>4, CallHolds
  <2>2. CASE stack' = with /\ frames' = ip_plus(width)
    BY <1>8, <2>2
  <2> QED
    BY <1>6, <2>1, <2>2
<1> QED
  BY <1>2, <1>3, <1>4, <1>5, <1>9, <1>10, KeepingNew

-----------------------------------------------------------------------------
(***************************************************************************)
(* Collections.                                                            *)
(***************************************************************************)
\* The machine after a step in which no object is made holds what was live.
LEMMA HoldsLive ==
  ASSUME IInv, born' = born, ValuesOK(stack', live), globals' = globals,
         open_upvalues' = open_upvalues, FramesOK(frames', live)
  PROVE  Ids(RootValues') \subseteq ReachFrom(Ids(RootValues))
<1>1. /\ DOMAIN live = ReachFrom(Ids(RootValues)) /\ HeapOK(live, functions, born)
      /\ GlobalsOK(globals, live) /\ OpenOK(open_upvalues, live, Len(stack))
  BY Live
<1>2. Holds(live)
  BY <1>1 DEF Holds, OpenOK, Open
<1> QED
  BY <1>1, <1>2, HeldRoots

\* The collection at the safe point frees what the machine cannot reach.
LEMMA CollectKeeps == ASSUME IInv, Collect PROVE Disciplined
<1>1. /\ heap' = live /\ born' = born /\ stack' = stack /\ frames' = frames
      /\ globals' = globals /\ open_upvalues' = open_upvalues /\ should_collect
  BY DEF Collect, collect, live
<1>2. Part(live, heap) /\ DOMAIN live = ReachFrom(Ids(RootValues)) /\ ValuesOK(stack, live) /\ FramesOK(frames, live)
  BY Live
<1>3. Ids(RootValues') \subseteq ReachFrom(Ids(RootValues))
  BY <1>1, <1>2, HoldsLive
<1>4. RootValues' = RootValues
  BY <1>1 DEF RootValues
<1>5. Collects
  BY <1>1, <1>2, <1>4 DEF Collects, Part
<1> QED
  BY <1>1, <1>3, <1>5 DEF Disciplined

\* What push leaves, slot by slot.
LEMMA Pushed ==
  ASSUME NEW below, IsList(below), NEW v
  PROVE  /\ DOMAIN Append(below, v) = 1 .. Len(below) + 1
         /\ Append(below, v)[Len(below) + 1] = v
         /\ \A i \in 1 .. Len(below) : Append(below, v)[i] = below[i]
<1>1. /\ IsList(Append(below, v)) /\ Len(Append(below, v)) = Len(below) + 1
      /\ Append(below, v)[Len(below) + 1] = v
      /\ \A i \in 1 .. Len(below) : Append(below, v)[i] = below[i]
  BY ListAppend
<1> DEFINE a == Append(below, v)
           n == Len(below) + 1
<1>2. IsList(a) /\ Len(a) = n
  BY <1>1
<1> HIDE DEF a, n
<1>3. DOMAIN a = 1 .. n
  BY <1>2, ListLength
<1> QED
  BY <1>1, <1>3 DEF a, n

\* Two stacks that differ in a top value which points at nothing mark the same.
LEMMA TopIsPlain ==
  ASSUME NEW s, NEW a, NEW n \in Nat \ {0}, DOMAIN s = 1 .. n, DOMAIN a = 1 .. n,
         s[n][1] \notin PointerTags, a[n][1] \notin PointerTags, \A i \in 1 .. n - 1 : a[i] = s[i]
  PROVE  mark_value_objs(a) = mark_value_objs(s)
<1>1. mark_value_obj(a[n]) = {} /\ mark_value_obj(s[n]) = {}
  BY DEF mark_value_obj
<1>2. \A i \in 1 .. n : i \in 1 .. n - 1 \/ i = n
  OBVIOUS
<1>3. \A i \in 1 .. n : mark_value_obj(a[i]) = mark_value_obj(s[i])
  BY <1>1, <1>2
<1>4. {mark_value_obj(a[i]) : i \in 1 .. n} = {mark_value_obj(s[i]) : i \in 1 .. n}
  BY <1>3
<1> QED
  BY <1>4, Zenon DEF mark_value_objs

\* gc() collects while its own callee is still on the stack; as that is no object,
\* what it frees is what the machine cannot reach when the instruction is over.
LEMMA GcKeeps ==
  ASSUME IInv, ~should_collect, NEW stk, NEW width, Calling(0, stk, width), NEW t,
         \A i \in 1 .. Len(stack) - 1 : stk[i] = stack[i], stk[Len(stack)][1] = "native",
         collect(stk), frames' = ip_plus(width), stack' = Append(popped(1), Num(t))
  PROVE  Disciplined
<1>1. /\ status = "running" /\ globals' = globals /\ open_upvalues' = open_upvalues
      /\ ValuesOK(stk, heap) /\ Len(stk) = Len(stack)
      /\ Shaped(functions, function, frame.ip, ByteSize, width, 0 + 1, 1 - (0 + 1))
  BY DEF Calling
<1>2. Shaped(functions, function, frame.ip, ByteSize, width, 1, 0)
  BY <1>1
<1>3. Len(stack) \in Nat /\ 1 < Len(stack) /\ Len(popped(1)) = Len(stack) - 1 /\ ValuesOK(popped(1), heap)
  BY <1>1, <1>2, Taken
<1>4. 1 \in 0 .. 1
  OBVIOUS
<1>5. ValuesOK(popped(1), live)
  BY <1>1, <1>2, <1>4, LiveTaken
<1>6. /\ ValuesOK(stack', live) /\ ValuesOK(stack', heap)
  BY <1>3, <1>5, PushValue, PlainValues
<1>7. /\ born \in Nat /\ HeapOK(heap, functions, born) /\ GlobalsOK(globals, heap)
      /\ DOMAIN heap \subseteq 1 .. born
  BY DEF IInv, Counts, HeapOK
<1> DEFINE roots == mark_value_roots(stk)
<1>8. roots \subseteq DOMAIN heap /\ Part(swept(stk), heap)
  BY <1>1, SweptIsGood
<1>9. trace_references(roots) = ReachFrom(roots)
  <2> HIDE DEF roots
  <2> QED
    BY <1>7, <1>8, TraceIsExact
<1>10. heap' = swept(stk) /\ born' = born /\ DOMAIN swept(stk) = trace_references(roots)
  BY DEF collect, swept
<1>11. mark_value_objs(stack') = mark_value_objs(stk)
  <2> DEFINE n == Len(stack)
             below == popped(1)
             v == Num(t)
  <2>1. IsList(stk) /\ n \in Nat \ {0} /\ Len(stk) = n /\ n - 1 \in Nat /\ n - 1 <= n
    BY <1>1, <1>3 DEF ValuesOK
  <2>2. IsList(stack) /\ IsList(below) /\ Len(below) = n - 1
    BY <1>3 DEF IInv, ValuesOK
  <2>3. \A i \in 1 .. n - 1 : below[i] = stack[i]
    BY <2>1, <2>2, ListPrefix DEF popped
  <2>4. \A i \in 1 .. n - 1 : below[i] = stk[i]
    BY <2>3
  <2>5. v[1] \notin PointerTags /\ stk[n][1] \notin PointerTags
    BY DEF Num, PointerTags
  <2>6. stack' = Append(below, v)
    OBVIOUS
  <2> HIDE DEF below, v, n
  <2>7. /\ DOMAIN Append(below, v) = 1 .. Len(below) + 1
        /\ Append(below, v)[Len(below) + 1] = v
        /\ \A i \in 1 .. Len(below) : Append(below, v)[i] = below[i]
    <3>1. IsList(below)
      BY <2>2
    <3> QED
      BY <3>1, Pushed
  <2> DEFINE a == Append(below, v)
  <2> HIDE DEF a
  <2>8. (n - 1) + 1 = n
    BY <2>1
  <2>9. DOMAIN a = 1 .. n /\ a[n] = v /\ \A i \in 1 .. n - 1 : a[i] = stk[i]
    BY <2>2, <2>4, <2>7, <2>8 DEF a
  <2>10. DOMAIN stk = 1 .. n
    BY <2>1, ListLength
  <2>11. mark_value_objs(a) = mark_value_objs(stk)
    BY <2>1, <2>5, <2>9, <2>10, TopIsPlain
  <2> QED
    BY <2>6, <2>11, Zenon DEF a
<1>12. mark_value_roots(stack') = roots
  BY <1>11, Zenon DEF mark_value_roots
<1>13. {<<"Closure", frames'[i].closure>> : i \in DOMAIN frames'} =
         {<<"Closure", frames[i].closure>> : i \in DOMAIN frames}
  <2>1. /\ Len(frames') = Len(frames) /\ IsList(frames') /\ IsList(frames)
        /\ \A i \in 1 .. Len(frames) : frames'[i].closure = frames[i].closure
    BY <1>1, SameFrames
  <2>2. DOMAIN frames' = 1 .. Len(frames) /\ DOMAIN frames = 1 .. Len(frames)
    BY <2>1, ListLength
  <2> QED
    BY <2>1, <2>2
<1>14. Ids(RootValues') = roots
  <2>1. RootValues' = Range(stack') \cup Range(globals)
                        \cup {<<"Closure", frames[i].closure>> : i \in DOMAIN frames}
                        \cup {<<"Upvalue", u>> : u \in open_upvalues}
    BY <1>1, <1>13, Zenon DEF RootValues
  <2>2. IsList(frames)
    BY DEF IInv, FramesOK
  <2> DEFINE after == stack'
  <2>3. ValuesOK(after, heap) /\ mark_value_roots(after) = roots
        /\ RootValues' = Range(after) \cup Range(globals)
                        \cup {<<"Closure", frames[i].closure>> : i \in DOMAIN frames}
                        \cup {<<"Upvalue", u>> : u \in open_upvalues}
    BY <1>6, <1>12, <2>1
  <2> HIDE DEF after, roots
  <2>4. Ids(Range(after) \cup Range(globals)
              \cup {<<"Closure", frames[i].closure>> : i \in DOMAIN frames}
              \cup {<<"Upvalue", u>> : u \in open_upvalues}) = mark_value_roots(after)
    BY <1>7, <2>2, <2>3, RootsAreExact
  <2> QED
    BY <2>3, <2>4, Zenon
<1> HIDE DEF roots
<1>15. FramesOK(frames', live)
  BY <1>1, LiveFrames
<1>16. Ids(RootValues') \subseteq ReachFrom(Ids(RootValues))
  BY <1>1, <1>6, <1>10, <1>15, HoldsLive
<1>17. \A o \in DOMAIN heap' : o \in DOMAIN heap /\ heap'[o] = heap[o]
  BY <1>8, <1>10 DEF Part
<1>18. Collects
  BY <1>9, <1>10, <1>14, <1>17 DEF Collects
<1> DEFINE New == {o \in DOMAIN heap' : o > born}
           known == ReachFrom(Ids(RootValues)) \cup New
<1>19. ASSUME DOMAIN heap \subseteq DOMAIN heap' PROVE Mutates(New, known)
  <2>1. DOMAIN heap' = DOMAIN heap
    BY <1>17, <1>19
  <2>2. New = {}
    BY <1>7, <2>1
  <2> QED
    BY <1>17, <2>1, <2>2 DEF Mutates
<1> QED
  BY <1>16, <1>18, <1>19 DEF Disciplined

-----------------------------------------------------------------------------
(***************************************************************************)
(* The callees, and the theorem.                                           *)
(***************************************************************************)
\* call_native
LEMMA NativeKeeps ==
  ASSUME IInv, ~should_collect, NEW argc, NEW stk, NEW width, Calling(argc, stk, width),
         ValuesOK(stk, live), \A i \in 1 .. Len(stack) - argc - 1 : stk[i] = stack[i],
         stk[callee_slot(argc)][1] = "native",
         NEW name, call_native(name, argc, stk, width)
  PROVE  Disciplined
<1>1. frames' = ip_plus(width)
  BY DEF call_native
<1>2. status = "running" /\ globals' = globals /\ open_upvalues' = open_upvalues
  BY DEF Calling
<1>3. CASE argc # 0
  <2>1. stack' = stk /\ UNCHANGED gcV
    BY <1>3 DEF call_native
  <2> QED
    BY <1>1, <1>2, <2>1, CallErrorKeeps
<1>4. CASE argc = 0
  <2>1. \/ (\E t \in ClockReadings : stack' = Append(popped(1), Num(t))) /\ UNCHANGED gcV
        \/ collect(stk) /\ stack' = Append(popped(1), Num(Cardinality(DOMAIN heap')))
    BY <1>4 DEF call_native
  <2>2. Calling(0, stk, width)
    BY <1>4
  <2>3. /\ Len(stack) \in Nat /\ Len(stack) - 0 - 1 = Len(stack) - 1 /\ 1 < Len(stack)
        /\ callee_slot(argc) = Len(stack)
    BY <1>4, CalleeSlot DEF callee_slot
  <2>4. CASE (\E t \in ClockReadings : stack' = Append(popped(1), Num(t))) /\ UNCHANGED gcV
    <3>1. PICK t \in ClockReadings : stack' = Append(popped(1), Num(t))
      BY <2>4
    <3>2. 1 \in Nat
      OBVIOUS
    <3>3. ValuesOK(popped(1), live)
      BY <2>3, <3>2, LivePeek
    <3>4. ValuesOK(stack', live)
      BY <3>1, <3>3, PushValue, PlainValues
    <3> QED
      BY <1>1, <1>2, <2>4, <3>4, CallErrorKeeps
  <2>5. CASE collect(stk) /\ stack' = Append(popped(1), Num(Cardinality(DOMAIN heap')))
    <3>1. \A i \in 1 .. Len(stack) - 1 : stk[i] = stack[i]
      BY <1>4, <2>3
    <3>2. stk[Len(stack)][1] = "native"
      BY <2>3
    <3> DEFINE t == Cardinality(DOMAIN heap')
    <3>3. collect(stk) /\ stack' = Append(popped(1), Num(t))
      BY <2>5
    <3> HIDE DEF t
    <3> QED
      BY <1>1, <2>2, <3>1, <3>2, <3>3, GcKeeps
  <2> QED
    BY <2>1, <2>4, <2>5
<1> QED
  BY <1>3, <1>4

\* call_value, whatever the callee is.
LEMMA CallValueKeeps ==
  ASSUME IInv, ~should_collect, NEW argc, NEW stk, NEW width, Calling(argc, stk, width),
         ValuesOK(stk, live), \A i \in 1 .. Len(stack) - argc - 1 : stk[i] = stack[i],
         NEW callee, stk[callee_slot(argc)] = callee, ValueOK(callee, live),
         call_value(callee, argc, stk, width)
  PROVE  Disciplined
<1>1. /\ Len(stack) \in Nat /\ argc \in Nat /\ callee_slot(argc) \in 1 .. Len(stk)
      /\ argc + 1 < Len(stack)
  BY CalleeSlot
<1>2. /\ status = "running" /\ globals' = globals /\ open_upvalues' = open_upvalues
      /\ Len(stk) = Len(stack)
  BY DEF Calling
<1>3. argc < Len(stk)
  BY <1>1, <1>2
<1>4. CASE callee[1] = "Closure"
  <2>1. call(callee[2], argc, stk, width) /\ UNCHANGED gcV
    BY <1>4 DEF call_value
  <2>2. IsA(callee[2], "Closure", live)
    BY <1>4 DEF ValueOK, PointerTags
  <2> QED
    BY <1>1, <1>2, <1>3, <2>1, <2>2, CallKeeps
<1>5. CASE callee[1] = "BoundMethod"
  <2> DEFINE bound == heap[callee[2]]
             loc == callee_slot(argc)
             v == bound.receiver
             with == [stk EXCEPT ![loc] = v]
  <2>1. call(bound.method, argc, with, width) /\ UNCHANGED gcV
    BY <1>5 DEF call_value
  <2>2. ValueOK(v, live) /\ IsA(bound.method, "Closure", live)
    BY <1>5, LiveParts DEF ValueOK, PointerTags
  <2>3. loc \in 1 .. Len(stk)
    BY <1>1
  <2> HIDE DEF loc, v, bound
  <2>4. ValuesOK(with, live) /\ Len(with) = Len(stk)
    BY <2>2, <2>3, SetValue
  <2> HIDE DEF with
  <2>5. argc < Len(with)
    BY <1>3, <2>4
  <2> QED
    BY <1>1, <1>2, <2>1, <2>2, <2>4, <2>5, CallKeeps
<1>6. CASE callee[1] = "Class"
  <2>1. construct(callee[2], argc, stk, width)
    BY <1>6 DEF call_value
  <2>2. IsA(callee[2], "Class", live)
    BY <1>6 DEF ValueOK, PointerTags
  <2> QED
    BY <2>1, <2>2, ConstructKeeps
<1>7. CASE callee[1] = "native"
  <2>1. call_native(callee[2], argc, stk, width)
    BY <1>7 DEF call_value
  <2> QED
    BY <1>7, <2>1, NativeKeeps
<1>8. CASE callee[1] \notin {"Closure", "BoundMethod", "Class", "native"}
  <2>1. stack' = stk /\ frames' = ip_plus(width) /\ UNCHANGED gcV
    BY <1>8 DEF call_value
  <2> QED
    BY <1>2, <2>1, CallErrorKeeps
<1> QED
  BY <1>4, <1>5, <1>6, <1>7, <1>8

\* OpCall
LEMMA CallOpKeeps == ASSUME IInv, UNCHANGED fixedV, OpCall PROVE Disciplined
<1> DEFINE argc == byte(1)
<1>1. /\ status = "running" /\ ~should_collect /\ byte(0) = "Call"
      /\ globals' = globals /\ open_upvalues' = open_upvalues
      /\ call_value(peek(argc), argc, stack, 2)
  BY DEF OpCall, Fetch
<1>2. /\ argc \in Nat /\ function.code[frame.ip + 2] = argc
      /\ Shaped(functions, function, frame.ip, ByteSize, 2, argc + 1, 1 - (argc + 1))
  BY <1>1, CallSite
<1> HIDE DEF argc
<1>3. Calling(argc, stack, 2)
  BY <1>1, <1>2 DEF Calling, IInv
<1>4. argc < Len(stack)
  BY <1>3, CalleeSlot
<1>5. ValueOK(peek(argc), live) /\ ValuesOK(stack, live)
  BY <1>2, <1>4, LivePeek, Live
<1>6. stack[callee_slot(argc)] = peek(argc)
  BY DEF callee_slot, peek
<1> QED
  BY <1>1, <1>3, <1>5, <1>6, CallValueKeeps

\* invoke_from_class calls a method of a live class.
LEMMA InvokeFromClassKeeps ==
  ASSUME IInv, status = "running", ~should_collect, globals' = globals, open_upvalues' = open_upvalues,
         NEW klass, NEW name, NEW argc \in Nat, NEW stk, NEW width,
         invoke_from_class(klass, name, argc, stk, width),
         IsA(klass, "Class", live), ValuesOK(stk, live), argc < Len(stk)
  PROVE  Disciplined
<1>1. UNCHANGED gcV
  BY DEF invoke_from_class
<1>2. CASE name \in DOMAIN heap[klass].methods
  <2>1. call(heap[klass].methods[name], argc, stk, width)
    BY <1>2 DEF invoke_from_class
  <2>2. IsA(heap[klass].methods[name], "Closure", live)
    BY <1>2, LiveParts
  <2> QED
    BY <1>1, <2>1, <2>2, CallKeeps
<1>3. CASE name \notin DOMAIN heap[klass].methods
  <2>1. stack' = stk /\ frames' = ip_plus(width)
    BY <1>3 DEF invoke_from_class
  <2> QED
    BY <1>1, <2>1, CallErrorKeeps
<1> QED
  BY <1>2, <1>3

\* OpInvoke calls a field or a method of an instance on the stack, or fails.
LEMMA InvokeKeeps == ASSUME IInv, UNCHANGED fixedV, OpInvoke PROVE Disciplined
<1> DEFINE name == string(1)
           argc == byte(2)
           o == peek(argc)[2]
<1>1. /\ status = "running" /\ ~should_collect /\ byte(0) = "Invoke"
      /\ globals' = globals /\ open_upvalues' = open_upvalues
  BY DEF OpInvoke, Fetch
<1>2. /\ argc \in Nat /\ function.code[frame.ip + 3] = argc
      /\ Shaped(functions, function, frame.ip, ByteSize, 3, argc + 1, 1 - (argc + 1))
  BY <1>1, CallSite
<1>3. CASE peek(argc)[1] # "Instance"
  <2>1. ErrorOp(3, "only instances have methods")
    BY <1>1, <1>3 DEF OpInvoke, ErrorOp
  <2> QED
    BY <1>1, <2>1, ErrorOpKeeps
<1>4. CASE peek(argc)[1] = "Instance"
  <2>1. ValuesOK(stack, heap) /\ ValuesOK(stack, live)
    BY Live DEF IInv
  <2>2. Calling(argc, stack, 3)
    BY <1>1, <1>2, <2>1 DEF Calling
  <2>3. argc < Len(stack) /\ Len(stack) \in Nat /\ callee_slot(argc) \in 1 .. Len(stack)
    BY <2>2, CalleeSlot
  <2>4. ValueOK(peek(argc), live)
    BY <1>2, <2>3, LivePeek
  <2>5. IsA(o, "Instance", live)
    BY <1>4, <2>4 DEF ValueOK, PointerTags
  <2>6. /\ IsA(heap[o].klass, "Class", live)
        /\ \A f \in DOMAIN heap[o].fields : ValueOK(heap[o].fields[f], live)
    BY <2>5, LiveParts
  <2>7. CASE name \in DOMAIN heap[o].fields
    <3> DEFINE v == heap[o].fields[name]
               loc == callee_slot(argc)
               with == [stack EXCEPT ![loc] = v]
    <3>1. call_value(v, argc, with, 3)
      BY <1>4, <2>7 DEF OpInvoke
    <3>2. ValueOK(v, live) /\ loc \in 1 .. Len(stack) /\ loc = Len(stack) - argc
      BY <2>3, <2>6, <2>7 DEF callee_slot
    <3>3. ValueOK(v, heap)
      BY <3>2, Live DEF ValueOK, IsA, Part
    <3> HIDE DEF v, loc, argc
    <3>4. /\ ValuesOK(with, heap) /\ Len(with) = Len(stack) /\ ValuesOK(with, live)
      BY <2>1, <3>2, <3>3, SetValue
    <3>5. with[loc] = v /\ \A i \in 1 .. Len(stack) - argc - 1 : with[i] = stack[i]
      <4>1. IsList(stack)
        BY <2>1 DEF ValuesOK
      <4>2. with[loc] = v /\ \A i \in 1 .. Len(stack) : i # loc => with[i] = stack[i]
        BY <4>1, <3>2, ListExcept
      <4>3. \A i \in 1 .. Len(stack) - argc - 1 : i \in 1 .. Len(stack) /\ i # loc
        BY <1>2, <2>3, <3>2
      <4> QED
        BY <4>2, <4>3
    <3> HIDE DEF with
    <3>6. Calling(argc, with, 3)
      BY <2>2, <3>4 DEF Calling
    <3>7. with[callee_slot(argc)] = v
      BY <3>5 DEF loc
    <3> QED
      BY <1>1, <3>1, <3>2, <3>4, <3>5, <3>6, <3>7, CallValueKeeps
  <2>8. CASE name \notin DOMAIN heap[o].fields
    <3>1. invoke_from_class(heap[o].klass, name, argc, stack, 3)
      BY <1>4, <2>8 DEF OpInvoke
    <3> HIDE DEF argc, name, o
    <3> QED
      BY <1>1, <1>2, <2>1, <2>3, <2>6, <3>1, InvokeFromClassKeeps
  <2> QED
    BY <2>7, <2>8
<1> QED
  BY <1>3, <1>4

\* OpSuperInvoke calls a method of a class that is on the stack, or fails.
LEMMA SuperInvokeKeeps == ASSUME IInv, OpSuperInvoke PROVE Disciplined
<1> DEFINE argc == byte(2)
<1>1. /\ status = "running" /\ ~should_collect /\ byte(0) = "SuperInvoke" /\ peek(0)[1] = "Class"
      /\ globals' = globals /\ open_upvalues' = open_upvalues
      /\ invoke_from_class(peek(0)[2], string(1), argc, popped(1), 3)
  BY DEF OpSuperInvoke, Fetch
<1>2. /\ argc \in Nat
      /\ Shaped(functions, function, frame.ip, ByteSize, 3, argc + 2, 1 - (argc + 2))
  BY <1>1, CallSite
<1> HIDE DEF argc
<1>3. argc + 2 \in Nat
  BY <1>2
<1>4. Len(stack) \in Nat /\ argc + 2 < Len(stack)
  BY <1>1, <1>2, <1>3, Taken
<1>5. 0 \in Nat /\ 1 \in Nat /\ 0 < Len(stack) /\ 1 < Len(stack)
  BY <1>2, <1>4
<1>6. ValueOK(peek(0), live) /\ ValuesOK(popped(1), live) /\ Len(popped(1)) = Len(stack) - 1
  BY <1>5, LivePeek, Peek
<1>7. argc < Len(popped(1))
  BY <1>2, <1>4, <1>6
<1>8. IsA(peek(0)[2], "Class", live)
  BY <1>1, <1>6 DEF ValueOK, PointerTags
<1> QED
  BY <1>1, <1>2, <1>6, <1>7, <1>8, InvokeFromClassKeeps

\* Every instruction keeps to the discipline.
LEMMA InstructionKeeps == ASSUME IInv, UNCHANGED fixedV, Instruction PROVE Disciplined
<1>1. CASE OpConstant \/ OpNil \/ OpTrue \/ OpFalse \/ OpPop \/ OpGetLocal \/ OpSetLocal
  BY <1>1, LiteralsAndLocalsKeep
<1>2. CASE OpEqual \/ OpArith \/ OpAdd \/ OpNot \/ OpNegate
  BY <1>2, OperatorsKeep
<1>3. CASE OpPrint \/ OpJump \/ OpJumpIfFalse \/ OpLoop
  BY <1>3, PrintAndJumpsKeep
<1>4. CASE OpGetGlobal \/ OpDefineGlobal \/ OpSetGlobal
  BY <1>4, GlobalsKeep
<1>5. CASE OpGetUpvalue
  BY <1>5, GetUpvalueKeeps
<1>6. CASE OpSetUpvalue
  BY <1>6, SetUpvalueKeeps
<1>7. CASE OpClosure
  BY <1>7, ClosureKeeps
<1>8. CASE OpCloseUpvalue
  BY <1>8, CloseUpvalueKeeps
<1>9. CASE OpCall
  BY <1>9, CallOpKeeps
<1>10. CASE OpInvoke
  BY <1>10, InvokeKeeps
<1>11. CASE OpSuperInvoke
  BY <1>11, SuperInvokeKeeps
<1>12. CASE OpReturn
  BY <1>12, ReturnKeeps
<1>13. CASE OpClass
  BY <1>13, ClassKeeps
<1>14. CASE OpGetProperty
  BY <1>14, GetPropertyKeeps
<1>15. CASE OpSetProperty
  BY <1>15, SetPropertyKeeps
<1>16. CASE OpGetSuper
  BY <1>16, GetSuperKeeps
<1>17. CASE OpInherit
  BY <1>17, InheritKeeps
<1>18. CASE OpMethod
  BY <1>18, MethodKeeps
<1> QED
  BY <1>1, <1>2, <1>3, <1>4, <1>5, <1>6, <1>7, <1>8, <1>9, <1>10, <1>11, <1>12, <1>13, <1>14,
     <1>15, <1>16, <1>17, <1>18 DEF Instruction

\* Every step keeps to the discipline.
LEMMA NextKeeps == IInv /\ [Next]_vars => [Disciplined]_vars
<1> SUFFICES ASSUME IInv, [Next]_vars PROVE [Disciplined]_vars
  OBVIOUS
<1>1. CASE Collect
  BY <1>1, CollectKeeps
<1>2. CASE Instruction /\ UNCHANGED fixedV
  BY <1>2, InstructionKeeps
<1>3. CASE UNCHANGED vars
  BY <1>3
<1> QED
  BY <1>1, <1>2, <1>3 DEF Next

\* The machine of vm.cpp and the collector of gc.cpp keep to the discipline of the
\* abstract heap in every step, for every verified script and every threshold: an
\* instruction stores and keeps only what was reachable or is new, and a collection,
\* at the safe point or by gc(), frees exactly what the machine cannot reach after it.
THEOREM HeapIsDisciplined == Spec => HeapDiscipline
<1>1. IInv /\ [Next]_vars => [Disciplined]_vars
  BY NextKeeps
<1> QED
  BY <1>1, VMIInv, PTL DEF Spec, HeapDiscipline

-----------------------------------------------------------------------------
(***************************************************************************)
(* The abstract heap.                                                      *)
(***************************************************************************)
\* What the abstract heap sees of the machine: its objects, the pointers in them
\* and the objects it holds outside the heap.
absLive == DOMAIN heap
absRefs == [o \in 1 .. MaxObjects |-> IF o \in DOMAIN heap THEN Ids(Pointers(heap[o])) ELSE {}]
absRoots == Ids(RootValues)

Abstract == INSTANCE Heap WITH live <- absLive, refs <- absRefs, roots <- absRoots

\* The rounds of a chain stay within every set that contains the first of them and
\* with each object those that it points at.
LEMMA ChainIsLeast ==
  ASSUME NEW size \in Nat, NEW f, NEW C, f[0] \subseteq C, \A o \in C : Ids(Pointers(heap[o])) \subseteq C,
         \A n \in 1 .. size : f[n] = Pointed(f[n - 1])
  PROVE  f[size] \subseteq C
<1> DEFINE S == {n \in Nat : n <= size => f[n] \subseteq C}
<1>1. 0 \in S
  OBVIOUS
<1>2. ASSUME NEW n \in Nat, n \in S PROVE n + 1 \in S
  <2> SUFFICES ASSUME n + 1 <= size PROVE f[n + 1] \subseteq C
    OBVIOUS
  <2>1. n <= size /\ n + 1 \in 1 .. size /\ (n + 1) - 1 = n
    OBVIOUS
  <2>2. f[n] \subseteq C /\ f[n + 1] = Pointed(f[n])
    BY <1>2, <2>1
  <2>3. \A M : M \subseteq C => Pointed(M) \subseteq C
    BY DEF Pointed
  <2> QED
    BY <2>2, <2>3
<1>3. Nat \subseteq S
  <2> HIDE DEF S
  <2> QED
    BY <1>1, <1>2, SetInduction
<1> QED
  BY <1>3

\* ReachFrom is what its name says: it contains the roots and with each object those
\* that it points at, and no smaller set of objects does.
LEMMA ReachFromIsLeast ==
  ASSUME born \in Nat, HeapOK(heap, functions, born), NEW roots, roots \subseteq DOMAIN heap
  PROVE  /\ roots \subseteq ReachFrom(roots) /\ ReachFrom(roots) \subseteq DOMAIN heap
         /\ \A o \in ReachFrom(roots) : Ids(Pointers(heap[o])) \subseteq ReachFrom(roots)
         /\ \A C : roots \subseteq C /\ (\A o \in C : Ids(Pointers(heap[o])) \subseteq C) =>
                     ReachFrom(roots) \subseteq C
<1> DEFINE size == Cardinality(DOMAIN heap)
<1>1. size \in Nat
  <2>1. IsFiniteSet(1 .. born) /\ DOMAIN heap \in SUBSET (1 .. born)
    BY FS_Interval DEF HeapOK
  <2> QED
    BY <2>1, FS_Subset, FS_CardinalityType
<1>2. trace_references(roots) = ReachFrom(roots)
  BY TraceIsExact
<1>3. /\ roots \subseteq ReachFrom(roots) /\ ReachFrom(roots) \subseteq DOMAIN heap
      /\ \A o \in ReachFrom(roots) : blacken(heap[o]) \subseteq ReachFrom(roots)
  BY <1>2, TraceIsClosed
<1>4. \A o \in DOMAIN heap : Ids(Pointers(heap[o])) = blacken(heap[o])
  BY BlackenIsExact DEF HeapOK
<1>5. \A o \in ReachFrom(roots) : Ids(Pointers(heap[o])) \subseteq ReachFrom(roots)
  BY <1>3, <1>4
<1>6. PICK f : /\ DOMAIN f = 0 .. size /\ f[0] = roots
               /\ \A n \in 1 .. size : f[n] = blackened(f[n - 1])
               /\ trace_references(roots) = f[size]
               /\ f = [n \in 0 .. size |-> f[n]]
  BY <1>1, TraceIsChain
<1> HIDE DEF size
<1>7. \A n \in 1 .. size : f[n] = Pointed(f[n - 1])
  BY <1>1, <1>6, ChainInHeap
<1>8. ASSUME NEW C, roots \subseteq C, \A o \in C : Ids(Pointers(heap[o])) \subseteq C
      PROVE  ReachFrom(roots) \subseteq C
  <2>1. f[0] \subseteq C
    BY <1>6, <1>8
  <2>2. f[size] \subseteq C
    BY <1>1, <1>7, <1>8, <2>1, ChainIsLeast
  <2> QED
    BY <1>2, <1>6, <2>2
<1> QED
  BY <1>3, <1>5, <1>8

\* The abstract heap has names for all objects.
Fits == MaxObjects \in Nat /\ born <= MaxObjects

\* What is reachable in the abstract heap is what ReachFrom computes.
LEMMA AbstractReach ==
  ASSUME IInv, Fits, NEW roots, roots \subseteq DOMAIN heap
  PROVE  Abstract!Reach(roots, absRefs) = ReachFrom(roots)
<1> DEFINE R == ReachFrom(roots)
           Obj == 1 .. MaxObjects
<1>1. born \in Nat /\ HeapOK(heap, functions, born) /\ DOMAIN heap \subseteq Obj
  BY DEF IInv, Counts, HeapOK, Fits
<1>2. /\ roots \subseteq R /\ R \subseteq DOMAIN heap
      /\ \A o \in R : Ids(Pointers(heap[o])) \subseteq R
      /\ \A C : roots \subseteq C /\ (\A o \in C : Ids(Pointers(heap[o])) \subseteq C) => R \subseteq C
  BY <1>1, ReachFromIsLeast
<1>3. /\ \A o \in DOMAIN heap : absRefs[o] = Ids(Pointers(heap[o]))
  BY <1>1 DEF absRefs
<1> HIDE DEF R
<1>4. ASSUME NEW o \in Abstract!Reach(roots, absRefs) PROVE o \in R
  <2>1. R \in SUBSET Obj /\ \A x \in R : absRefs[x] \subseteq R
    BY <1>1, <1>2, <1>3
  <2>2. \A C \in SUBSET Obj : roots \subseteq C /\ (\A x \in C : absRefs[x] \subseteq C) => o \in C
    BY DEF Abstract!Reach, Abstract!Closed, Abstract!Obj
  <2> QED
    BY <1>2, <2>1, <2>2
<1>5. ASSUME NEW o \in R PROVE o \in Abstract!Reach(roots, absRefs)
  <2>1. o \in Obj
    BY <1>1, <1>2
  <2>2. ASSUME NEW C \in SUBSET Obj, roots \subseteq C, \A x \in C : absRefs[x] \subseteq C PROVE o \in C
    <3> DEFINE D == C \cap DOMAIN heap
    <3>1. \A x \in DOMAIN heap : Ids(Pointers(heap[x])) \subseteq DOMAIN heap
      BY <1>1, GoodIds DEF HeapOK
    <3>2. \A x \in D : Ids(Pointers(heap[x])) \subseteq D
      BY <1>3, <2>2, <3>1
    <3>3. roots \subseteq D
      BY <2>2
    <3> HIDE DEF D
    <3>4. o \in D
      BY <1>2, <3>2, <3>3
    <3> QED
      BY <3>4 DEF D
  <2> QED
    BY <2>1, <2>2 DEF Abstract!Reach, Abstract!Closed, Abstract!Obj
<1>6. Abstract!Reach(roots, absRefs) = R
  BY <1>4, <1>5
<1> QED
  BY <1>6 DEF R

\* The machine holds objects of the heap only.
LEMMA RootsInHeap == ASSUME IInv PROVE absRoots \subseteq DOMAIN heap
<1>1. /\ ValuesOK(stack, heap) /\ GlobalsOK(globals, heap) /\ IsList(frames)
  BY DEF IInv, FramesOK
<1>2. Ids(RootValues) = mark_value_roots(stack)
  BY <1>1, RootsAreExact DEF RootValues
<1>3. mark_value_roots(stack) \subseteq DOMAIN heap
  BY <1>1, SweptIsGood
<1> QED
  BY <1>2, <1>3 DEF absRoots

\* A disciplined step is a step of the abstract heap.
LEMMA AbstractStep ==
  ASSUME IInv, IInv', Fits, Fits', Disciplined
  PROVE  Abstract!Mutate \/ Abstract!Collect
<1> DEFINE Obj == 1 .. MaxObjects
           New == {o \in DOMAIN heap' : o > born}
           known == ReachFrom(Ids(RootValues)) \cup New
<1>1. /\ born \in Nat /\ born' \in Nat /\ MaxObjects \in Nat
      /\ DOMAIN heap \subseteq 1 .. born /\ DOMAIN heap \subseteq Obj /\ DOMAIN heap' \subseteq Obj
  BY DEF IInv, Counts, HeapOK, Fits
<1>2. absRoots \subseteq DOMAIN heap
  BY RootsInHeap
<1>3. Abstract!Reachable = ReachFrom(Ids(RootValues))
  BY <1>2, AbstractReach DEF Abstract!Reachable, absRoots
<1>4. Ids(RootValues') \subseteq known
  BY DEF Disciplined
<1>5. absRoots' = Ids(RootValues') /\ absLive' = DOMAIN heap' /\ absLive = DOMAIN heap
  BY DEF absRoots, absLive
<1>6. /\ absRefs \in [Obj -> SUBSET (DOMAIN heap)] /\ absRefs' \in [Obj -> SUBSET (DOMAIN heap')]
      /\ \A o \in Obj : /\ o \in DOMAIN heap => absRefs[o] = Ids(Pointers(heap[o]))
                        /\ o \notin DOMAIN heap => absRefs[o] = {}
                        /\ o \in DOMAIN heap' => absRefs'[o] = Ids(Pointers(heap'[o]))
                        /\ o \notin DOMAIN heap' => absRefs'[o] = {}
  <2>1. \A o \in DOMAIN heap : Ids(Pointers(heap[o])) \subseteq DOMAIN heap
    BY GoodIds DEF IInv, HeapOK
  <2>2. \A o \in DOMAIN heap' : Ids(Pointers(heap'[o])) \subseteq DOMAIN heap'
    BY GoodIds DEF IInv, HeapOK
  <2> QED
    BY <2>1, <2>2 DEF absRefs
<1>7. CASE Mutates(New, known)
  <2>1. /\ DOMAIN heap' = DOMAIN heap \cup New
        /\ \A o \in DOMAIN heap' :
             o \in New \/ heap'[o] # heap[o] => o \in known /\ Ids(Pointers(heap'[o])) \subseteq known
    BY <1>7 DEF Mutates
  <2>2. New \in SUBSET (Obj \ absLive)
    BY <1>1, <1>5
  <2> HIDE DEF New, known
  <2>3. ASSUME NEW o \in Obj, absRefs'[o] # absRefs[o] PROVE o \in known /\ absRefs'[o] \subseteq known
    <3>1. o \in DOMAIN heap'
      BY <1>6, <2>1, <2>3
    <3>2. o \in New \/ heap'[o] # heap[o]
      BY <1>6, <2>1, <2>3, <3>1
    <3> QED
      BY <1>6, <2>1, <3>1, <3>2
  <2>4. absRefs' \in [Obj -> SUBSET Obj]
    BY <1>1, <1>6
  <2>5. known = Abstract!Reachable \cup New
    BY <1>3 DEF known
  <2>6. Abstract!MutateWith(New)
    BY <1>4, <1>5, <2>1, <2>3, <2>4, <2>5 DEF Abstract!MutateWith, Abstract!Obj
  <2> QED
    BY <2>2, <2>6 DEF Abstract!Mutate, Abstract!Obj
<1>8. CASE Collects
  <2>1. /\ DOMAIN heap' = ReachFrom(Ids(RootValues')) /\ DOMAIN heap' \subseteq DOMAIN heap
        /\ \A o \in DOMAIN heap' : heap'[o] = heap[o]
    BY <1>8 DEF Collects
  <2>2. New = {}
    BY <1>1, <2>1
  <2>3. absRoots' \subseteq Abstract!Reachable
    BY <1>3, <1>4, <1>5, <2>2
  <2>4. Abstract!Reachable \subseteq DOMAIN heap
    BY <1>1, <1>2, <1>3, ReachFromIsLeast DEF IInv, absRoots
  <2>5. Ids(RootValues') \subseteq DOMAIN heap
    BY <1>5, <2>3, <2>4
  <2>6. absLive' = Abstract!Reach(absRoots', absRefs)
    <3> DEFINE after == Ids(RootValues')
    <3>1. after \subseteq DOMAIN heap /\ absRoots' = after /\ absLive' = ReachFrom(after)
      BY <1>5, <2>1, <2>5
    <3> HIDE DEF after
    <3>2. Abstract!Reach(after, absRefs) = ReachFrom(after)
      BY <3>1, AbstractReach
    <3> QED
      BY <3>1, <3>2
  <2>7. absRefs' = [o \in Obj |-> IF o \in absLive' THEN absRefs[o] ELSE {}]
    <3>1. \A o \in Obj : absRefs'[o] = IF o \in absLive' THEN absRefs[o] ELSE {}
      BY <1>5, <1>6, <2>1
    <3>2. absRefs' = [o \in Obj |-> absRefs'[o]]
      BY <1>6
    <3> QED
      BY <3>1, <3>2
  <2> QED
    BY <2>3, <2>6, <2>7 DEF Abstract!Collect, Abstract!Obj
<1> QED
  BY <1>7, <1>8 DEF Disciplined

\* Every step of the machine is a step of the abstract heap that GarbageCollector is
\* shown to implement, or does not touch it, as long as the heap has names for the
\* objects: the instructions of vm.cpp are a program as Heap assumes it, and a
\* collection by type frees what Heap's does.
THEOREM MachineUsesHeap ==
  ASSUME MaxObjects \in Nat
  PROVE  Spec /\ [](born <= MaxObjects) => [][Abstract!Next]_(Abstract!heapVars)
<1>1. ASSUME IInv, IInv', born <= MaxObjects, (born <= MaxObjects)', [Next]_vars
      PROVE  [Abstract!Next]_(Abstract!heapVars)
  <2>1. Fits /\ Fits'
    BY <1>1 DEF Fits
  <2>2. CASE Disciplined
    BY <1>1, <2>1, <2>2, AbstractStep DEF Abstract!Next
  <2>3. CASE UNCHANGED vars
    <3>1. UNCHANGED <<stack, frames, globals, open_upvalues, heap>>
      BY <2>3 DEF vars, gcV
    <3> QED
      BY <3>1 DEF Abstract!heapVars, absLive, absRefs, absRoots, RootValues
  <2> QED
    BY <1>1, <2>2, <2>3, NextKeeps
<1> QED
  BY <1>1, VMIInv, PTL DEF Spec
=============================================================================
