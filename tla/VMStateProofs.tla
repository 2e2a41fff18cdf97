------------------------------ MODULE VMStateProofs ------------------------
(***************************************************************************)
(* The inductive invariant of the virtual machine, and what keeps its      *)
(* parts true: facts about values, heaps, code and frames that the proofs  *)
(* of the single instructions (VMProofs) are put together from.            *)
(***************************************************************************)
EXTENDS VM, ListProofs, FiniteSetTheorems, TLAPS

-----------------------------------------------------------------------------
(***************************************************************************)
(* The inductive invariant.                                                *)
(***************************************************************************)
\* o is an object of the heap h and has that type.
IsA(o, type, h) == o \in DOMAIN h /\ h[o].type = type

\* A value that the program can hold: a pointer in it leads to an object of h.
ValueOK(v, h) == v[1] # "Upvalue" /\ (v[1] \in PointerTags => IsA(v[2], v[1], h))

\* What an object may hold when h is the heap and fns are the functions.
ObjectOK(o, h, fns) ==
  /\ o.type \in HeapTags
  /\ o.type = "Upvalue" => o.is_closed \in BOOLEAN /\ ValueOK(o.closed, h)
  /\ o.type = "Closure" =>
       /\ o.function \in DOMAIN fns
       /\ DOMAIN o.upvalues = 1 .. fns[o.function].upvalue_count
       /\ \A k \in DOMAIN o.upvalues : IsA(o.upvalues[k], "Upvalue", h)
  /\ o.type = "Class" => \A m \in DOMAIN o.methods : IsA(o.methods[m], "Closure", h)
  /\ o.type = "Instance" =>
       IsA(o.klass, "Class", h) /\ \A f \in DOMAIN o.fields : ValueOK(o.fields[f], h)
  /\ o.type = "BoundMethod" => ValueOK(o.receiver, h) /\ IsA(o.method, "Closure", h)

HeapOK(h, fns, last) ==
  DOMAIN h \subseteq 1 .. last /\ \A o \in DOMAIN h : ObjectOK(h[o], h, fns)

ValuesOK(stk, h) == IsList(stk) /\ \A i \in 1 .. Len(stk) : ValueOK(stk[i], h)

GlobalsOK(g, h) == \A n \in DOMAIN g : ValueOK(g[n], h)

\* The upvalues of h that are not closed.
Open(h) == {o \in DOMAIN h : h[o].type = "Upvalue" /\ ~h[o].is_closed}

\* The open upvalues are listed, and each has a slot of a stack of n values to itself.
OpenOK(open, h, n) ==
  /\ Open(h) = open
  /\ \A u \in open : h[u].location \in 1 .. n
  /\ \A u, w \in open : h[u].location = h[w].location => u = w

FramesOK(frs, h) ==
  /\ IsList(frs) /\ Len(frs) <= kFramesMax
  /\ \A i \in 1 .. Len(frs) : IsA(frs[i].closure, "Closure", h) /\ frs[i].slot_base \in Nat

\* The function that a frame runs, by its place in the script.
Runs(fr, h) == h[fr.closure].function
MapOf(fns, f) == StackMap(fns, fns[f], ByteSize)

\* What the stack map says of the place a frame has reached.
At(fr, h, fns) == MapOf(fns, Runs(fr, h))[fr.ip]

\* The height at which the part of the stack that is frame i's own ends.
Ceiling(frs, i, n) == IF i = Len(frs) THEN n ELSE frs[i + 1].slot_base + 1

\* The frame fr has just made the call that a function with this arity answers.
Calls(fr, h, fns, arity) ==
  \E start \in DOMAIN MapOf(fns, Runs(fr, h)) :
    /\ OpAt(fns[Runs(fr, h)], start) \in {"Call"} \cup InvokeOps
    /\ start + Width(fns, fns[Runs(fr, h)], start) = fr.ip
    /\ fns[Runs(fr, h)].code[fr.ip] = arity

\* Every frame is where its stack map describes it, with as many values as the
\* map says and no more captured than it says, and has been left by a call that
\* matches the frame above it.
FrameOK(i, n, frs, open, h, fns) ==
  /\ frs[i].ip \in DOMAIN MapOf(fns, Runs(frs[i], h))
  /\ Ceiling(frs, i, n) = frs[i].slot_base + At(frs[i], h, fns).height
  /\ \A u \in open :
       frs[i].slot_base < h[u].location /\ (i < Len(frs) => h[u].location <= frs[i + 1].slot_base) =>
         h[u].location - frs[i].slot_base - 1 \in At(frs[i], h, fns).captured
  /\ \A j \in 1 .. Len(frs) : i < j => frs[i].slot_base < frs[j].slot_base
  /\ i < Len(frs) => Calls(frs[i], h, fns, fns[Runs(frs[i + 1], h)].arity)

Running(n, frs, open, h, fns) ==
  /\ Len(frs) >= 1 /\ frs[1].slot_base = 0 /\ Runs(frs[1], h) = Len(fns)
  /\ \A i \in 1 .. Len(frs) : FrameOK(i, n, frs, open, h, fns)

Counts ==
  /\ script \in DOMAIN Scripts /\ functions = Scripts[script]
  /\ born \in Nat /\ allocations_since_gc \in 0 .. born

Result ==
  /\ status \in {"running", "Ok", "RuntimeError"}
  /\ status = "RuntimeError" <=> error_message # ""
  /\ CleanExit

IInv ==
  /\ Counts /\ Result
  /\ HeapOK(heap, functions, born)
  /\ ValuesOK(stack, heap) /\ GlobalsOK(globals, heap)
  /\ OpenOK(open_upvalues, heap, Len(stack))
  /\ FramesOK(frames, heap)
  /\ status = "running" => Running(Len(stack), frames, open_upvalues, heap, functions)

-----------------------------------------------------------------------------
(***************************************************************************)
(* Values and objects when the heap changes.                               *)
(***************************************************************************)
\* Nothing is lost from h to k, no object changes its type and no closure changes.
Grows(h, k) ==
  \A o \in DOMAIN h :
    /\ o \in DOMAIN k /\ k[o].type = h[o].type
    /\ h[o].type = "Closure" => k[o] = h[o]

\* A heap grows into itself.
LEMMA GrowsRefl == ASSUME NEW h PROVE Grows(h, h)
BY DEF Grows

\* A pointer stays good when the heap grows.
LEMMA GrowIsA ==
  ASSUME NEW h, NEW k, Grows(h, k), NEW o, NEW type, IsA(o, type, h)
  PROVE  IsA(o, type, k)
BY DEF Grows, IsA

\* So does a value.
LEMMA GrowValue ==
  ASSUME NEW h, NEW k, Grows(h, k), NEW v, ValueOK(v, h)
  PROVE  ValueOK(v, k)
BY GrowIsA DEF ValueOK

\* So does what an object holds.
LEMMA GrowObject ==
  ASSUME NEW h, NEW k, Grows(h, k), NEW o, NEW fns, ObjectOK(o, h, fns)
  PROVE  ObjectOK(o, k, fns)
BY GrowIsA, GrowValue DEF ObjectOK

\* So does what the machine holds.
LEMMA GrowRoots ==
  ASSUME NEW h, NEW k, Grows(h, k)
  PROVE  /\ \A stk : ValuesOK(stk, h) => ValuesOK(stk, k)
         /\ \A g : GlobalsOK(g, h) => GlobalsOK(g, k)
         /\ \A frs : FramesOK(frs, h) => FramesOK(frs, k)
<1>1. \A v : ValueOK(v, h) => ValueOK(v, k)
  BY GrowValue
<1>2. \A o : IsA(o, "Closure", h) => IsA(o, "Closure", k)
  BY GrowIsA
<1> QED
  BY <1>1, <1>2 DEF ValuesOK, GlobalsOK, FramesOK

\* allocate: a good object under a new name.
LEMMA PutObject ==
  ASSUME NEW h, NEW fns, NEW last \in Nat, HeapOK(h, fns, last), NEW obj, ObjectOK(obj, h, fns)
  PROVE  LET k == Put(h, last + 1, obj)
         IN  /\ Grows(h, k) /\ HeapOK(k, fns, last + 1)
             /\ last + 1 \in DOMAIN k /\ k[last + 1] = obj
             /\ obj.type # "Upvalue" => Open(k) = Open(h)
             /\ \A o \in DOMAIN h : k[o] = h[o]
<1> DEFINE k == Put(h, last + 1, obj)
<1>1. last + 1 \notin DOMAIN h /\ DOMAIN h \subseteq 1 .. last
  BY DEF HeapOK
<1>2. /\ DOMAIN k = DOMAIN h \cup {last + 1} /\ k[last + 1] = obj
      /\ \A o \in DOMAIN h : k[o] = h[o]
  BY <1>1 DEF Put
<1> HIDE DEF k
<1>3. Grows(h, k)
  BY <1>2 DEF Grows
<1>4. HeapOK(k, fns, last + 1)
  <2>1. \A o \in DOMAIN k : ObjectOK(k[o], h, fns)
    BY <1>2 DEF HeapOK
  <2>2. \A o \in DOMAIN k : ObjectOK(k[o], k, fns)
    BY <2>1, <1>3, GrowObject
  <2>3. DOMAIN k \subseteq 1 .. last + 1
    BY <1>1, <1>2
  <2> QED
    BY <2>2, <2>3 DEF HeapOK
<1>5. obj.type # "Upvalue" => Open(k) = Open(h)
  BY <1>2 DEF Open
<1> QED
  BY <1>2, <1>3, <1>4, <1>5 DEF k

\* A store into an object that is no closure: it is replaced by a good one of
\* the same type.
LEMMA SetObject ==
  ASSUME NEW h, NEW fns, NEW last, HeapOK(h, fns, last), NEW x \in DOMAIN h, NEW obj,
         ObjectOK(obj, h, fns), obj.type = h[x].type, obj.type # "Closure"
  PROVE  LET k == [h EXCEPT ![x] = obj]
         IN  /\ Grows(h, k) /\ HeapOK(k, fns, last)
             /\ obj.type # "Upvalue" => Open(k) = Open(h)
             /\ \A o \in DOMAIN h : o # x => k[o] = h[o]
<1> DEFINE k == [h EXCEPT ![x] = obj]
<1>1. DOMAIN k = DOMAIN h /\ k[x] = obj /\ \A o \in DOMAIN h : o # x => k[o] = h[o]
  OBVIOUS
<1> HIDE DEF k
<1>2. Grows(h, k)
  BY <1>1 DEF Grows
<1>3. \A o \in DOMAIN k : ObjectOK(k[o], h, fns)
  BY <1>1 DEF HeapOK
<1>4. HeapOK(k, fns, last)
  BY <1>1, <1>2, <1>3, GrowObject DEF HeapOK
<1>5. obj.type # "Upvalue" => Open(k) = Open(h)
  BY <1>1 DEF Open
<1> QED
  BY <1>1, <1>2, <1>4, <1>5 DEF k

-----------------------------------------------------------------------------
(***************************************************************************)
(* The value stack.                                                        *)
(***************************************************************************)
\* push
LEMMA PushValue ==
  ASSUME NEW h, NEW stk, ValuesOK(stk, h), NEW v, ValueOK(v, h)
  PROVE  ValuesOK(Append(stk, v), h) /\ Len(Append(stk, v)) = Len(stk) + 1
<1>1. IsList(stk) /\ Len(stk) \in Nat
  BY ListLength DEF ValuesOK
<1>2. /\ IsList(Append(stk, v)) /\ Len(Append(stk, v)) = Len(stk) + 1
      /\ Append(stk, v)[Len(stk) + 1] = v
      /\ \A i \in 1 .. Len(stk) : Append(stk, v)[i] = stk[i]
  BY <1>1, ListAppend
<1>3. ASSUME NEW i \in 1 .. Len(stk) + 1 PROVE ValueOK(Append(stk, v)[i], h)
  <2>1. CASE i = Len(stk) + 1
    BY <2>1, <1>2
  <2>2. CASE i \in 1 .. Len(stk)
    BY <2>2, <1>2 DEF ValuesOK
  <2> QED
    BY <2>1, <2>2, <1>1
<1> QED
  BY <1>2, <1>3 DEF ValuesOK

\* pop and resize
LEMMA KeepValues ==
  ASSUME NEW h, NEW stk, ValuesOK(stk, h), NEW n \in Nat, n <= Len(stk)
  PROVE  ValuesOK(SubSeq(stk, 1, n), h) /\ Len(SubSeq(stk, 1, n)) = n
<1>1. IsList(stk) /\ Len(stk) \in Nat
  BY ListLength DEF ValuesOK
<1>2. /\ IsList(SubSeq(stk, 1, n)) /\ Len(SubSeq(stk, 1, n)) = n
      /\ \A i \in 1 .. n : SubSeq(stk, 1, n)[i] = stk[i]
  BY <1>1, ListPrefix
<1>3. \A i \in 1 .. n : ValueOK(SubSeq(stk, 1, n)[i], h)
  BY <1>1, <1>2 DEF ValuesOK
<1> QED
  BY <1>2, <1>3 DEF ValuesOK

\* A slot is assigned.
LEMMA SetValue ==
  ASSUME NEW h, NEW stk, ValuesOK(stk, h), NEW i \in 1 .. Len(stk), NEW v, ValueOK(v, h)
  PROVE  ValuesOK([stk EXCEPT ![i] = v], h) /\ Len([stk EXCEPT ![i] = v]) = Len(stk)
<1>1. IsList(stk)
  BY DEF ValuesOK
<1>2. /\ IsList([stk EXCEPT ![i] = v]) /\ Len([stk EXCEPT ![i] = v]) = Len(stk)
      /\ [stk EXCEPT ![i] = v][i] = v
      /\ \A j \in 1 .. Len(stk) : j # i => [stk EXCEPT ![i] = v][j] = stk[j]
  BY <1>1, ListExcept
<1>3. \A j \in 1 .. Len(stk) : ValueOK([stk EXCEPT ![i] = v][j], h)
  BY <1>2 DEF ValuesOK
<1> QED
  BY <1>2, <1>3 DEF ValuesOK

\* Values that are no pointers are good in any heap.
LEMMA PlainValues ==
  ASSUME NEW h
  PROVE  /\ ValueOK(Nil, h) /\ ValueOK(NaN, h)
         /\ \A b : ValueOK(Bool(b), h)
         /\ \A n : ValueOK(Num(n), h)
         /\ \A a, b : ValueOK(Concat(a, b), h)
         /\ \A op, a, b : ValueOK(Arith(op, a, b), h)
         /\ \A a : ValueOK(Negated(a), h)
<1>1. \A tag : \A x : tag \notin HeapTags => ValueOK(<<tag, x>>, h)
  BY DEF ValueOK, HeapTags
<1>2. /\ "nil" \notin HeapTags /\ "nan" \notin HeapTags /\ "bool" \notin HeapTags
      /\ "num" \notin HeapTags /\ "str" \notin HeapTags
  BY DEF HeapTags, PointerTags
<1>3. ValueOK(Nil, h) /\ ValueOK(NaN, h)
  BY <1>1, <1>2 DEF Nil, NaN
<1>4. \A b : ValueOK(Bool(b), h)
  BY <1>1, <1>2 DEF Bool
<1>5. \A n : ValueOK(Num(n), h)
  BY <1>1, <1>2 DEF Num
<1>6. \A a, b : ValueOK(Concat(a, b), h)
  BY <1>1, <1>2 DEF Concat
<1>7. \A op, a, b : ValueOK(Arith(op, a, b), h)
  BY <1>3, <1>5 DEF Arith
<1>8. \A a : ValueOK(Negated(a), h)
  BY <1>3, <1>5 DEF Negated
<1> QED
  BY <1>3, <1>4, <1>5, <1>6, <1>7, <1>8

-----------------------------------------------------------------------------
(***************************************************************************)
(* The instructions: their width, what they take and by how much they      *)
(* change the height, and where they lead.                                 *)
(***************************************************************************)
\* The instruction at ip has w cells, takes n values, changes the height by e
\* and leads to the next one.
Shaped(fns, fn, ip, base, w, n, e) ==
  /\ Width(fns, fn, ip) = w /\ Needs(fn, ip) = n /\ Effect(fn, ip) = e
  /\ Successors(fns, fn, ip, base) = {ip + w}

USE DEF OneCell, NameOps, SlotOps, UpvalueOps, JumpOps, InvokeOps, PushOps, PopOps, BinaryInstrs

\* Instructions that push.
LEMMA ShapePush ==
  ASSUME NEW fns, NEW fn, NEW ip, NEW base
  PROVE  /\ OpAt(fn, ip) \in {"Nil", "True", "False"} => Shaped(fns, fn, ip, base, 1, 0, 1)
         /\ OpAt(fn, ip) \in {"Constant", "GetLocal", "GetGlobal", "GetUpvalue", "Class"} =>
              Shaped(fns, fn, ip, base, 2, 0, 1)
         /\ OpAt(fn, ip) = "Closure" =>
              Shaped(fns, fn, ip, base, 2 + 2 * ClosureFunction(fns, fn, ip).upvalue_count, 0, 1)
BY DEF Shaped, Width, Needs, Effect, Successors

\* Instructions that pop.
LEMMA ShapePop ==
  ASSUME NEW fns, NEW fn, NEW ip, NEW base
  PROVE  /\ OpAt(fn, ip) \in {"Pop", "Print", "CloseUpvalue"} => Shaped(fns, fn, ip, base, 1, 1, -1)
         /\ OpAt(fn, ip) = "DefineGlobal" => Shaped(fns, fn, ip, base, 2, 1, -1)
         /\ OpAt(fn, ip) \in BinaryInstrs \cup {"Inherit"} => Shaped(fns, fn, ip, base, 1, 2, -1)
         /\ OpAt(fn, ip) \in {"SetProperty", "GetSuper", "Method"} => Shaped(fns, fn, ip, base, 2, 2, -1)
BY DEF Shaped, Width, Needs, Effect, Successors

\* Instructions that leave the height as it is.
LEMMA ShapeLevel ==
  ASSUME NEW fns, NEW fn, NEW ip, NEW base
  PROVE  /\ OpAt(fn, ip) \in {"Not", "Negate"} => Shaped(fns, fn, ip, base, 1, 1, 0)
         /\ OpAt(fn, ip) \in {"SetLocal", "SetGlobal", "SetUpvalue", "GetProperty"} =>
              Shaped(fns, fn, ip, base, 2, 1, 0)
BY DEF Shaped, Width, Needs, Effect, Successors

\* Jumps.
LEMMA ShapeJump ==
  ASSUME NEW fns, NEW fn, NEW ip, NEW base
  PROVE  /\ OpAt(fn, ip) \in JumpOps => Width(fns, fn, ip) = 3 /\ Effect(fn, ip) = 0
         /\ OpAt(fn, ip) = "Jump" =>
              /\ Needs(fn, ip) = 0
              /\ Successors(fns, fn, ip, base) = {ip + 3 + JumpOffset(fn, ip, base)}
         /\ OpAt(fn, ip) = "Loop" =>
              /\ Needs(fn, ip) = 0
              /\ Successors(fns, fn, ip, base) = {ip + 3 - JumpOffset(fn, ip, base)}
         /\ OpAt(fn, ip) = "JumpIfFalse" =>
              /\ Needs(fn, ip) = 1
              /\ Successors(fns, fn, ip, base) = {ip + 3, ip + 3 + JumpOffset(fn, ip, base)}
<1>1. OpAt(fn, ip) \in JumpOps => Width(fns, fn, ip) = 3 /\ Effect(fn, ip) = 0
  BY DEF Width, Effect
<1>2. OpAt(fn, ip) = "Jump" => Needs(fn, ip) = 0 /\ Successors(fns, fn, ip, base) = {JumpTarget(fn, ip, base)}
  BY DEF Needs, Successors
<1>3. OpAt(fn, ip) = "Loop" => Needs(fn, ip) = 0 /\ Successors(fns, fn, ip, base) = {JumpTarget(fn, ip, base)}
  BY DEF Needs, Successors
<1>4. OpAt(fn, ip) = "JumpIfFalse" =>
        /\ Needs(fn, ip) = 1
        /\ Successors(fns, fn, ip, base) = {ip + Width(fns, fn, ip), JumpTarget(fn, ip, base)}
  BY DEF Needs, Successors
<1> QED
  BY <1>1, <1>2, <1>3, <1>4 DEF JumpTarget

\* Calls and returns.
LEMMA ShapeCall ==
  ASSUME NEW fns, NEW fn, NEW ip, NEW base, OperandAt(fn, ip, 1) \in Nat,
         OpAt(fn, ip) \in InvokeOps => OperandAt(fn, ip, 2) \in Nat
  PROVE  /\ OpAt(fn, ip) = "Call" =>
              Shaped(fns, fn, ip, base, 2, OperandAt(fn, ip, 1) + 1, -OperandAt(fn, ip, 1))
         /\ OpAt(fn, ip) = "Invoke" =>
              Shaped(fns, fn, ip, base, 3, OperandAt(fn, ip, 2) + 1, -OperandAt(fn, ip, 2))
         /\ OpAt(fn, ip) = "SuperInvoke" =>
              Shaped(fns, fn, ip, base, 3, OperandAt(fn, ip, 2) + 2, -OperandAt(fn, ip, 2) - 1)
<1>1. OpAt(fn, ip) = "Call" =>
        /\ Width(fns, fn, ip) = 2 /\ Needs(fn, ip) = OperandAt(fn, ip, 1) + 1
        /\ Effect(fn, ip) = 1 - Needs(fn, ip)
        /\ Successors(fns, fn, ip, base) = {ip + Width(fns, fn, ip)}
  BY DEF Width, Needs, Effect, Successors
<1>2. OpAt(fn, ip) = "Invoke" =>
        /\ Width(fns, fn, ip) = 3 /\ Needs(fn, ip) = OperandAt(fn, ip, 2) + 1
        /\ Effect(fn, ip) = 1 - Needs(fn, ip)
        /\ Successors(fns, fn, ip, base) = {ip + Width(fns, fn, ip)}
  BY DEF Width, Needs, Effect, Successors
<1>3. OpAt(fn, ip) = "SuperInvoke" =>
        /\ Width(fns, fn, ip) = 3 /\ Needs(fn, ip) = OperandAt(fn, ip, 2) + 2
        /\ Effect(fn, ip) = 1 - Needs(fn, ip)
        /\ Successors(fns, fn, ip, base) = {ip + Width(fns, fn, ip)}
  BY DEF Width, Needs, Effect, Successors
<1> QED
  BY <1>1, <1>2, <1>3 DEF Shaped

\* The return from a function.
LEMMA ShapeReturn ==
  ASSUME NEW fn, NEW ip, OpAt(fn, ip) = "Return"
  PROVE  Needs(fn, ip) = 1
BY DEF Needs

\* No instruction takes away more than it needs.
LEMMA EffectBound ==
  ASSUME NEW fns, NEW fn, NEW ip, NEW base, OpAt(fn, ip) \in Opcodes, 
         OpAt(fn, ip) = "Call" => OperandAt(fn, ip, 1) \in Nat,
         OpAt(fn, ip) \in InvokeOps => OperandAt(fn, ip, 2) \in Nat
  PROVE  Needs(fn, ip) \in Nat /\ Effect(fn, ip) \in Int /\ Effect(fn, ip) + Needs(fn, ip) >= 0
<1>1. CASE OpAt(fn, ip) \in Opcodes \ {"Call", "Invoke", "SuperInvoke"}
  BY <1>1 DEF Needs, Effect, Opcodes
<1>2. CASE OpAt(fn, ip) \in {"Call", "Invoke", "SuperInvoke"}
  BY <1>2 DEF Needs, Effect
<1> QED
  BY <1>1, <1>2

HIDE DEF OneCell, NameOps, SlotOps, UpvalueOps, JumpOps, InvokeOps, PushOps, PopOps, BinaryInstrs

-----------------------------------------------------------------------------
(***************************************************************************)
(* Verified code.                                                          *)
(***************************************************************************)
\* What verification says of an instruction that the stack map of function f names.
LEMMA VerifiedAt ==
  ASSUME NEW fns, VerifiedScript(fns, ByteSize), NEW f \in DOMAIN fns, NEW ip \in DOMAIN MapOf(fns, f)
  PROVE  /\ ip \in Nat /\ ip \in Decoded(fns, fns[f]).starts
         /\ OpAt(fns[f], ip) \in Opcodes
         /\ Works(fns, fns[f], ip, ByteSize, MapOf(fns, f)[ip])
         /\ OpAt(fns[f], ip) = "Return" /\ f = Len(fns) => MapOf(fns, f)[ip].height = 2
         /\ \A t \in Successors(fns, fns[f], ip, ByteSize) :
              /\ t \in DOMAIN MapOf(fns, f)
              /\ MapOf(fns, f)[t].height = MapOf(fns, f)[ip].height + Effect(fns[f], ip)
              /\ CapturedAfter(fns, fns[f], ip, MapOf(fns, f)[ip]) \subseteq MapOf(fns, f)[t].captured
BY DEF VerifiedScript, Verified, MapOf

\* What it says of the entry of a function.
LEMMA VerifiedEntry ==
  ASSUME NEW fns, VerifiedScript(fns, ByteSize), NEW f \in DOMAIN fns
  PROVE  /\ fns[f].arity \in Nat /\ fns[f].upvalue_count \in Nat
         /\ 0 \in DOMAIN MapOf(fns, f) /\ MapOf(fns, f)[0].height = 1 + fns[f].arity
         /\ Len(fns) \in DOMAIN fns /\ fns[Len(fns)].arity = 0 /\ fns[Len(fns)].upvalue_count = 0
BY DEF VerifiedScript, Verified, MapOf

\* The operands of an instruction are bytes.
LEMMA OperandsAreBytes ==
  ASSUME NEW fns, NEW fn, NEW ip, NEW at, Works(fns, fn, ip, ByteSize, at)
  PROVE  \A n \in 1 .. Width(fns, fn, ip) - 1 : OperandAt(fn, ip, n) \in 0 .. ByteSize - 1
BY DEF Works

\* A width as large as the operands that are read.
LEMMA WidthCovers ==
  ASSUME NEW fns, NEW fn, NEW ip, NEW at, Works(fns, fn, ip, ByteSize, at)
  PROVE  /\ OpAt(fn, ip) \in NameOps \cup SlotOps \cup UpvalueOps \cup JumpOps \cup InvokeOps \cup {"Constant", "Call"} =>
              OperandAt(fn, ip, 1) \in 0 .. ByteSize - 1
         /\ OpAt(fn, ip) \in JumpOps \cup InvokeOps => OperandAt(fn, ip, 2) \in 0 .. ByteSize - 1
<1>1. \A n \in 1 .. Width(fns, fn, ip) - 1 : OperandAt(fn, ip, n) \in 0 .. ByteSize - 1
  BY DEF Works
<1>2. OpAt(fn, ip) \in NameOps \cup SlotOps \cup UpvalueOps \cup {"Constant", "Call"} => Width(fns, fn, ip) = 2
  BY DEF Width, OneCell, NameOps, SlotOps, UpvalueOps, JumpOps, InvokeOps
<1>3. OpAt(fn, ip) \in JumpOps \cup InvokeOps => Width(fns, fn, ip) = 3
  BY DEF Width, OneCell, NameOps, SlotOps, UpvalueOps, JumpOps, InvokeOps
<1> QED
  BY <1>1, <1>2, <1>3

\* An instruction at its place: its effect is bounded, and what it takes lies
\* above the callee.
LEMMA EffectAt ==
  ASSUME NEW fns, VerifiedScript(fns, ByteSize), NEW f \in DOMAIN fns, NEW ip \in DOMAIN MapOf(fns, f)
  PROVE  LET at == MapOf(fns, f)[ip]
             n == Needs(fns[f], ip)
             e == Effect(fns[f], ip)
         IN  /\ at.height \in Nat /\ n \in Nat /\ e \in Int /\ e + n >= 0
             /\ n + 1 <= at.height /\ 1 + fns[f].arity <= at.height
             /\ \A s \in at.captured : s \in Nat /\ s < at.height
             /\ OpAt(fns[f], ip) # "CloseUpvalue" => \A s \in at.captured : s < at.height - n
<1>1. Works(fns, fns[f], ip, ByteSize, MapOf(fns, f)[ip]) /\ OpAt(fns[f], ip) \in Opcodes
  BY VerifiedAt
<1>2. /\ OpAt(fns[f], ip) = "Call" => OperandAt(fns[f], ip, 1) \in Nat
      /\ OpAt(fns[f], ip) \in InvokeOps => OperandAt(fns[f], ip, 2) \in Nat
  BY <1>1, WidthCovers, VmAssumption
<1>3. /\ Needs(fns[f], ip) \in Nat /\ Effect(fns[f], ip) \in Int
      /\ Effect(fns[f], ip) + Needs(fns[f], ip) >= 0
  BY <1>1, <1>2, EffectBound
<1> QED
  BY <1>1, <1>3 DEF Works

-----------------------------------------------------------------------------
(***************************************************************************)
(* Frames.                                                                 *)
(***************************************************************************)
\* The frames with the last one's ip set to t.
MoveTo(frs, t) ==
  [frs EXCEPT ![Len(frs)] = CallFrame(frs[Len(frs)].closure, t, frs[Len(frs)].slot_base)]

\* Moving the last frame's ip leaves the frames good.
LEMMA MovedFrames ==
  ASSUME NEW h, NEW frs, FramesOK(frs, h), Len(frs) >= 1, NEW t
  PROVE  /\ FramesOK(MoveTo(frs, t), h) /\ Len(MoveTo(frs, t)) = Len(frs)
         /\ MoveTo(frs, t)[Len(frs)] = CallFrame(frs[Len(frs)].closure, t, frs[Len(frs)].slot_base)
         /\ \A i \in 1 .. Len(frs) : i # Len(frs) => MoveTo(frs, t)[i] = frs[i]
<1>1. IsList(frs) /\ Len(frs) \in 1 .. Len(frs) /\ Len(frs) \in Nat
  BY ListLength DEF FramesOK
<1>2. /\ IsList(MoveTo(frs, t)) /\ Len(MoveTo(frs, t)) = Len(frs)
      /\ MoveTo(frs, t)[Len(frs)] = CallFrame(frs[Len(frs)].closure, t, frs[Len(frs)].slot_base)
      /\ \A i \in 1 .. Len(frs) : i # Len(frs) => MoveTo(frs, t)[i] = frs[i]
  BY <1>1, ListExcept DEF MoveTo
<1> HIDE DEF MoveTo
<1> DEFINE m == MoveTo(frs, t)
<1>3. \A i \in 1 .. Len(frs) : m[i].closure = frs[i].closure /\ m[i].slot_base = frs[i].slot_base
  BY <1>2 DEF CallFrame
<1>4. FramesOK(m, h)
  BY <1>2, <1>3 DEF FramesOK
<1> QED
  BY <1>2, <1>4

\* The top frame of a running machine.
LEMMA TopFrame ==
  ASSUME NEW fns, VerifiedScript(fns, ByteSize), NEW h, NEW last, HeapOK(h, fns, last),
         NEW n \in Nat, NEW frs, NEW open, FramesOK(frs, h), Running(n, frs, open, h, fns)
  PROVE  LET top == frs[Len(frs)]
             f == Runs(top, h)
         IN  /\ Len(frs) \in Nat \ {0} /\ Len(frs) \in 1 .. Len(frs)
             /\ f \in DOMAIN fns /\ top.ip \in DOMAIN MapOf(fns, f) /\ top.slot_base \in Nat
             /\ n = top.slot_base + At(top, h, fns).height
             /\ \A u \in open : top.slot_base < h[u].location =>
                  h[u].location - top.slot_base - 1 \in At(top, h, fns).captured
<1>1. Len(frs) \in Nat \ {0} /\ Len(frs) \in 1 .. Len(frs)
  BY ListLength DEF FramesOK, Running
<1> DEFINE top == frs[Len(frs)]
<1>2. IsA(top.closure, "Closure", h) /\ top.slot_base \in Nat
  BY <1>1 DEF FramesOK
<1>3. Runs(top, h) \in DOMAIN fns
  BY <1>2 DEF HeapOK, ObjectOK, IsA, Runs
<1>4. FrameOK(Len(frs), n, frs, open, h, fns)
  BY <1>1 DEF Running
<1> QED
  BY <1>1, <1>2, <1>3, <1>4 DEF FrameOK, Ceiling

\* The frames below the last one stay good whatever the last one does, as long
\* as the upvalues open below it stay where they are.
LEMMA LowerFrames ==
  ASSUME NEW fns, NEW h, NEW k, Grows(h, k), NEW n, NEW m, NEW open, NEW open2,
         NEW frs, NEW frs2, FramesOK(frs, h), Running(n, frs, open, h, fns),
         NEW i \in 1 .. Len(frs), i < Len(frs),
         NEW size \in Nat, size >= Len(frs), Len(frs2) = size,
         \A j \in 1 .. Len(frs) : j # Len(frs) => frs2[j] = frs[j],
         frs2[Len(frs)].slot_base = frs[Len(frs)].slot_base,
         frs2[Len(frs)].closure = frs[Len(frs)].closure,
         \A j \in Len(frs) + 1 .. size :
           frs2[j].slot_base \in Nat /\ frs[Len(frs)].slot_base < frs2[j].slot_base,
         \A u \in open2 : k[u].location \in Nat,
         \A u \in open2 : k[u].location <= frs[Len(frs)].slot_base =>
                            u \in open /\ k[u].location = h[u].location
  PROVE  FrameOK(i, m, frs2, open2, k, fns)
<1>1. IsList(frs) /\ Len(frs) \in Nat /\ \A j \in 1 .. Len(frs) : IsA(frs[j].closure, "Closure", h) /\ frs[j].slot_base \in Nat
  BY ListLength DEF FramesOK
<1>2. FrameOK(i, n, frs, open, h, fns)
  BY DEF Running
<1>3. /\ frs2[i] = frs[i] /\ i + 1 \in 1 .. Len(frs) /\ i + 1 \in 1 .. Len(frs2)
      /\ \A j \in 1 .. Len(frs) : frs2[j].slot_base = frs[j].slot_base /\ frs2[j].closure = frs[j].closure
  BY <1>1
<1>4. \A j \in 1 .. Len(frs) : Runs(frs2[j], k) = Runs(frs[j], h)
  BY <1>1, <1>3 DEF Runs, Grows, IsA
<1>5. frs2[i].ip \in DOMAIN MapOf(fns, Runs(frs2[i], k)) /\ At(frs2[i], k, fns) = At(frs[i], h, fns)
  BY <1>2, <1>3, <1>4 DEF FrameOK, At
<1>6. Ceiling(frs2, i, m) = frs2[i].slot_base + At(frs2[i], k, fns).height
  <2>1. Ceiling(frs, i, n) = frs[i + 1].slot_base + 1
    BY DEF Ceiling
  <2>2. Ceiling(frs2, i, m) = frs2[i + 1].slot_base + 1
    BY <1>1 DEF Ceiling
  <2> QED
    BY <1>2, <1>3, <1>5, <2>1, <2>2 DEF FrameOK
<1>7. frs[i + 1].slot_base <= frs[Len(frs)].slot_base
  <2>1. CASE i + 1 = Len(frs)
    BY <2>1, <1>1
  <2>2. CASE i + 1 < Len(frs)
    <3>1. FrameOK(i + 1, n, frs, open, h, fns)
      BY <1>3 DEF Running
    <3> QED
      BY <2>2, <3>1, <1>1, <1>3 DEF FrameOK
  <2> QED
    BY <2>1, <2>2, <1>1
<1>8. ASSUME NEW u \in open2, frs2[i].slot_base < k[u].location, k[u].location <= frs2[i + 1].slot_base
      PROVE  k[u].location - frs2[i].slot_base - 1 \in At(frs2[i], k, fns).captured
  <2>1. frs2[i].slot_base \in Nat /\ frs[i + 1].slot_base \in Nat /\ frs[Len(frs)].slot_base \in Nat
    BY <1>1, <1>3
  <2>2. k[u].location <= frs[Len(frs)].slot_base
    <3>1. k[u].location <= frs[i + 1].slot_base
      BY <1>8, <1>3
    <3> QED
      BY <3>1, <2>1, <1>7
  <2>3. u \in open /\ k[u].location = h[u].location
    BY <2>2
  <2> QED
    BY <1>2, <1>3, <1>5, <1>8, <2>3 DEF FrameOK
<1>9. \A j \in 1 .. Len(frs2) : i < j => frs2[i].slot_base < frs2[j].slot_base
  <2>1. \A j \in 1 .. Len(frs) : i < j => frs[i].slot_base < frs[j].slot_base
    BY <1>2 DEF FrameOK
  <2>2. ASSUME NEW j \in Len(frs) + 1 .. size PROVE frs2[i].slot_base < frs2[j].slot_base
    BY <2>1, <1>1, <1>3
  <2> QED
    BY <2>1, <2>2, <1>1, <1>3
<1>10. i < Len(frs2) => Calls(frs2[i], k, fns, fns[Runs(frs2[i + 1], k)].arity)
  BY <1>2, <1>3, <1>4 DEF FrameOK, Calls
<1> QED
  BY <1>1, <1>5, <1>6, <1>8, <1>9, <1>10 DEF FrameOK

\* The top frame has moved on to a successor of its instruction, and the stack
\* and the open upvalues have changed as the instruction changes them.
LEMMA Advance ==
  ASSUME NEW fns, VerifiedScript(fns, ByteSize), NEW h, NEW last, HeapOK(h, fns, last),
         NEW n \in Nat, NEW frs, NEW open, FramesOK(frs, h), Running(n, frs, open, h, fns),
         NEW k, Grows(h, k), NEW m, NEW open2, NEW t,
         t \in Successors(fns, fns[Runs(frs[Len(frs)], h)], frs[Len(frs)].ip, ByteSize),
         m = n + Effect(fns[Runs(frs[Len(frs)], h)], frs[Len(frs)].ip),
         \A u \in open2 :
           /\ k[u].location \in Nat
           /\ k[u].location <= frs[Len(frs)].slot_base => u \in open /\ k[u].location = h[u].location
           /\ frs[Len(frs)].slot_base < k[u].location =>
                k[u].location - frs[Len(frs)].slot_base - 1 \in
                  CapturedAfter(fns, fns[Runs(frs[Len(frs)], h)], frs[Len(frs)].ip, At(frs[Len(frs)], h, fns))
  PROVE  Running(m, MoveTo(frs, t), open2, k, fns)
<1> DEFINE top == frs[Len(frs)]
<1> DEFINE f == Runs(top, h)
<1> DEFINE frs2 == MoveTo(frs, t)
<1>1. /\ Len(frs) \in Nat \ {0} /\ Len(frs) \in 1 .. Len(frs)
      /\ f \in DOMAIN fns /\ top.ip \in DOMAIN MapOf(fns, f) /\ top.slot_base \in Nat
      /\ n = top.slot_base + At(top, h, fns).height
  BY TopFrame
<1>2. /\ Len(frs2) = Len(frs) /\ frs2[Len(frs)] = CallFrame(top.closure, t, top.slot_base)
      /\ \A i \in 1 .. Len(frs) : i # Len(frs) => frs2[i] = frs[i]
  BY <1>1, MovedFrames
<1> HIDE DEF frs2
<1>3. frs2[Len(frs)].slot_base = top.slot_base /\ frs2[Len(frs)].closure = top.closure /\ frs2[Len(frs)].ip = t
  BY <1>2 DEF CallFrame
<1>4. \A i \in 1 .. Len(frs) : i < Len(frs) => FrameOK(i, m, frs2, open2, k, fns)
  <2> SUFFICES ASSUME NEW i \in 1 .. Len(frs), i < Len(frs) PROVE FrameOK(i, m, frs2, open2, k, fns)
    OBVIOUS
  <2>1. \A j \in Len(frs) + 1 .. Len(frs) : frs2[j].slot_base \in Nat /\ top.slot_base < frs2[j].slot_base
    BY <1>1
  <2> QED
    BY <1>1, <1>2, <1>3, <2>1, LowerFrames
<1>5. Runs(frs2[Len(frs)], k) = f
  BY <1>1, <1>3 DEF Runs, Grows, IsA, FramesOK
<1>6. /\ t \in DOMAIN MapOf(fns, f)
      /\ MapOf(fns, f)[t].height = MapOf(fns, f)[top.ip].height + Effect(fns[f], top.ip)
      /\ CapturedAfter(fns, fns[f], top.ip, MapOf(fns, f)[top.ip]) \subseteq MapOf(fns, f)[t].captured
  BY <1>1, VerifiedAt
<1>7. At(frs2[Len(frs)], k, fns) = MapOf(fns, f)[t] /\ At(top, h, fns) = MapOf(fns, f)[top.ip]
  BY <1>3, <1>5 DEF At
<1>8. FrameOK(Len(frs), m, frs2, open2, k, fns)
  <2>1. frs2[Len(frs)].ip \in DOMAIN MapOf(fns, Runs(frs2[Len(frs)], k))
    BY <1>3, <1>5, <1>6
  <2>2. Ceiling(frs2, Len(frs), m) = m
    BY <1>2 DEF Ceiling
  <2>3. MapOf(fns, f)[top.ip].height \in Nat /\ Effect(fns[f], top.ip) \in Int
    BY <1>1, EffectAt
  <2>4. m = frs2[Len(frs)].slot_base + At(frs2[Len(frs)], k, fns).height
    BY <1>1, <1>3, <1>6, <1>7, <2>3
  <2>5. \A u \in open2 : frs2[Len(frs)].slot_base < k[u].location =>
          k[u].location - frs2[Len(frs)].slot_base - 1 \in At(frs2[Len(frs)], k, fns).captured
    BY <1>3, <1>6, <1>7
  <2>6. \A j \in 1 .. Len(frs2) : ~(Len(frs) < j)
    BY <1>1, <1>2
  <2> QED
    BY <1>1, <1>2, <2>1, <2>2, <2>4, <2>5, <2>6 DEF FrameOK
<1>9. frs2[1].slot_base = 0 /\ Runs(frs2[1], k) = Len(fns)
  <2>1. frs2[1].slot_base = frs[1].slot_base /\ frs2[1].closure = frs[1].closure /\ 1 \in 1 .. Len(frs)
    BY <1>1, <1>2, <1>3
  <2>2. IsA(frs[1].closure, "Closure", h)
    BY <2>1 DEF FramesOK
  <2> QED
    BY <2>1, <2>2 DEF Running, Runs, Grows, IsA
<1>10. \A i \in 1 .. Len(frs2) : FrameOK(i, m, frs2, open2, k, fns)
  BY <1>1, <1>2, <1>4, <1>8
<1> QED
  BY <1>1, <1>2, <1>9, <1>10 DEF Running, frs2

\* No upvalue is open on what an instruction takes, unless it closes it.
LEMMA OpenBelow ==
  ASSUME NEW fns, VerifiedScript(fns, ByteSize), NEW h, NEW last, HeapOK(h, fns, last),
         NEW n \in Nat, NEW frs, NEW open, FramesOK(frs, h), Running(n, frs, open, h, fns),
         OpenOK(open, h, n),
         OpAt(fns[Runs(frs[Len(frs)], h)], frs[Len(frs)].ip) # "CloseUpvalue"
  PROVE  LET needs == Needs(fns[Runs(frs[Len(frs)], h)], frs[Len(frs)].ip)
         IN  /\ needs \in Nat /\ frs[Len(frs)].slot_base < n - needs
             /\ \A u \in open : h[u].location \in 1 .. n - needs
<1> DEFINE top == frs[Len(frs)]
<1> DEFINE f == Runs(top, h)
<1>1. /\ f \in DOMAIN fns /\ top.ip \in DOMAIN MapOf(fns, f) /\ top.slot_base \in Nat
      /\ n = top.slot_base + At(top, h, fns).height
      /\ \A u \in open : top.slot_base < h[u].location =>
           h[u].location - top.slot_base - 1 \in At(top, h, fns).captured
  BY TopFrame
<1>2. At(top, h, fns) = MapOf(fns, f)[top.ip]
  BY DEF At
<1> DEFINE at == MapOf(fns, f)[top.ip]
           needs == Needs(fns[f], top.ip)
<1>3. /\ at.height \in Nat /\ needs \in Nat /\ needs + 1 <= at.height
      /\ \A s \in at.captured : s \in Nat /\ s < at.height - needs
  BY <1>1, EffectAt
<1>5. n = top.slot_base + at.height
  BY <1>1, <1>2
<1> HIDE DEF at, needs
<1>4. ASSUME NEW u \in open PROVE h[u].location \in 1 .. n - needs
  <2>1. h[u].location \in 1 .. n
    BY DEF OpenOK
  <2>2. top.slot_base < h[u].location => h[u].location - top.slot_base - 1 < at.height - needs
    BY <1>1, <1>2, <1>3 DEF at
  <2>3. CASE top.slot_base < h[u].location
    BY <2>1, <2>2, <2>3, <1>1, <1>3, <1>5
  <2>4. CASE ~(top.slot_base < h[u].location)
    BY <2>1, <2>4, <1>1, <1>3, <1>5
  <2> QED
    BY <2>3, <2>4
<1> QED
  BY <1>1, <1>3, <1>4, <1>5 DEF at, needs

\* A frame is put on the others.
LEMMA FrameAdded ==
  ASSUME NEW h, NEW frs, FramesOK(frs, h), NEW fr
  PROVE  /\ IsList(Append(frs, fr)) /\ Len(Append(frs, fr)) = Len(frs) + 1
         /\ Append(frs, fr)[Len(frs) + 1] = fr
         /\ \A i \in 1 .. Len(frs) : Append(frs, fr)[i] = frs[i]
<1>1. IsList(frs)
  BY DEF FramesOK
<1> QED
  BY <1>1, ListAppend

\* The top frame has called a function: a frame lies above it, with the callee
\* and the arguments.
LEMMA Enter ==
  ASSUME NEW fns, VerifiedScript(fns, ByteSize), NEW h, NEW last, HeapOK(h, fns, last),
         NEW n \in Nat, NEW frs, NEW open, FramesOK(frs, h), Running(n, frs, open, h, fns),
         OpenOK(open, h, n), Len(frs) < kFramesMax,
         NEW k, Grows(h, k), NEW m \in Nat, NEW argc \in Nat, NEW closure, IsA(closure, "Closure", k),
         k[closure].function \in DOMAIN fns, fns[k[closure].function].arity = argc,
         \A u \in open : k[u].location = h[u].location,
         NEW t, OpAt(fns[Runs(frs[Len(frs)], h)], frs[Len(frs)].ip) \in {"Call"} \cup InvokeOps,
         t = frs[Len(frs)].ip + Width(fns, fns[Runs(frs[Len(frs)], h)], frs[Len(frs)].ip),
         t \in Successors(fns, fns[Runs(frs[Len(frs)], h)], frs[Len(frs)].ip, ByteSize),
         fns[Runs(frs[Len(frs)], h)].code[t] = argc,
         Effect(fns[Runs(frs[Len(frs)], h)], frs[Len(frs)].ip) =
           1 - Needs(fns[Runs(frs[Len(frs)], h)], frs[Len(frs)].ip),
         m - argc = n + Effect(fns[Runs(frs[Len(frs)], h)], frs[Len(frs)].ip)
  PROVE  LET frs2 == Append(MoveTo(frs, t), CallFrame(closure, 0, m - argc - 1))
         IN  FramesOK(frs2, k) /\ Running(m, frs2, open, k, fns)
<1> DEFINE top == frs[Len(frs)]
<1> DEFINE f == Runs(top, h)
<1> DEFINE frs2 == Append(MoveTo(frs, t), CallFrame(closure, 0, m - argc - 1))
<1>1. /\ Len(frs) \in Nat \ {0} /\ Len(frs) \in 1 .. Len(frs)
      /\ f \in DOMAIN fns /\ top.ip \in DOMAIN MapOf(fns, f) /\ top.slot_base \in Nat
      /\ n = top.slot_base + At(top, h, fns).height
      /\ \A u \in open : top.slot_base < h[u].location =>
           h[u].location - top.slot_base - 1 \in At(top, h, fns).captured
  BY TopFrame
<1>2. OpAt(fns[f], top.ip) # "CloseUpvalue" /\ OpAt(fns[f], top.ip) # "Closure"
  BY DEF InvokeOps
<1>3. /\ Needs(fns[f], top.ip) \in Nat /\ top.slot_base < n - Needs(fns[f], top.ip)
      /\ \A u \in open : h[u].location \in 1 .. n - Needs(fns[f], top.ip)
  BY <1>2, OpenBelow
<1> DEFINE base == m - argc - 1
<1>4. base = n - Needs(fns[f], top.ip) /\ base \in Nat
  BY <1>1, <1>3
<1>5. /\ FramesOK(MoveTo(frs, t), h) /\ Len(MoveTo(frs, t)) = Len(frs)
      /\ MoveTo(frs, t)[Len(frs)] = CallFrame(top.closure, t, top.slot_base)
      /\ \A i \in 1 .. Len(frs) : i # Len(frs) => MoveTo(frs, t)[i] = frs[i]
  BY <1>1, MovedFrames
<1>6. /\ IsList(frs2) /\ Len(frs2) = Len(frs) + 1
      /\ frs2[Len(frs) + 1] = CallFrame(closure, 0, base)
      /\ \A i \in 1 .. Len(frs) : frs2[i] = MoveTo(frs, t)[i]
  BY <1>5, FrameAdded
<1> HIDE DEF frs2
<1>7. /\ frs2[Len(frs) + 1].closure = closure /\ frs2[Len(frs) + 1].ip = 0
      /\ frs2[Len(frs) + 1].slot_base = base
      /\ frs2[Len(frs)].closure = top.closure /\ frs2[Len(frs)].ip = t
      /\ frs2[Len(frs)].slot_base = top.slot_base
      /\ \A i \in 1 .. Len(frs) : i # Len(frs) => frs2[i] = frs[i]
  BY <1>1, <1>5, <1>6 DEF CallFrame
<1> HIDE DEF base
<1>8. FramesOK(frs2, k)
  <2>1. \A i \in 1 .. Len(frs) : IsA(frs2[i].closure, "Closure", k) /\ frs2[i].slot_base \in Nat
    BY <1>5, <1>6, GrowIsA DEF FramesOK
  <2>2. \A i \in 1 .. Len(frs) + 1 : IsA(frs2[i].closure, "Closure", k) /\ frs2[i].slot_base \in Nat
    BY <2>1, <1>1, <1>4, <1>7
  <2>3. Len(frs) + 1 <= kFramesMax
    BY <1>1, VmAssumption
  <2> QED
    BY <2>2, <2>3, <1>6 DEF FramesOK
<1>9. \A u \in open : k[u].location \in Nat /\ ~(base < k[u].location)
  BY <1>3, <1>4
<1>10. \A i \in 1 .. Len(frs) : i < Len(frs) => FrameOK(i, m, frs2, open, k, fns)
  <2> SUFFICES ASSUME NEW i \in 1 .. Len(frs), i < Len(frs) PROVE FrameOK(i, m, frs2, open, k, fns)
    OBVIOUS
  <2>1. \A j \in Len(frs) + 1 .. Len(frs) + 1 : frs2[j].slot_base \in Nat /\ top.slot_base < frs2[j].slot_base
    BY <1>1, <1>3, <1>4, <1>7
  <2> DEFINE size == Len(frs) + 1
  <2>2. size \in Nat /\ size >= Len(frs) /\ Len(frs2) = size
    BY <1>1, <1>6
  <2>3. \A j \in Len(frs) + 1 .. size : frs2[j].slot_base \in Nat /\ top.slot_base < frs2[j].slot_base
    BY <2>1
  <2> HIDE DEF size
  <2>4. \A u \in open : k[u].location \in Nat
    BY <1>9
  <2>5. /\ frs2[Len(frs)].closure = top.closure /\ frs2[Len(frs)].slot_base = top.slot_base
        /\ \A j \in 1 .. Len(frs) : j # Len(frs) => frs2[j] = frs[j]
    BY <1>7
  <2> QED
    BY <2>2, <2>3, <2>4, <2>5, LowerFrames
<1>11. Runs(frs2[Len(frs)], k) = f /\ Runs(frs2[Len(frs) + 1], k) = k[closure].function
  BY <1>1, <1>7 DEF Runs, Grows, IsA, FramesOK
<1>12. /\ t \in DOMAIN MapOf(fns, f)
       /\ MapOf(fns, f)[t].height = MapOf(fns, f)[top.ip].height + Effect(fns[f], top.ip)
       /\ CapturedAfter(fns, fns[f], top.ip, MapOf(fns, f)[top.ip]) \subseteq MapOf(fns, f)[t].captured
  BY <1>1, VerifiedAt
<1>13. /\ At(frs2[Len(frs)], k, fns) = MapOf(fns, f)[t] /\ At(top, h, fns) = MapOf(fns, f)[top.ip]
       /\ At(frs2[Len(frs) + 1], k, fns) = MapOf(fns, k[closure].function)[0]
  BY <1>7, <1>11 DEF At
<1>14. FrameOK(Len(frs), m, frs2, open, k, fns)
  <2>1. frs2[Len(frs)].ip \in DOMAIN MapOf(fns, Runs(frs2[Len(frs)], k))
    BY <1>7, <1>11, <1>12
  <2>2. Ceiling(frs2, Len(frs), m) = base + 1
    BY <1>1, <1>6, <1>7 DEF Ceiling
  <2>3. MapOf(fns, f)[top.ip].height \in Nat /\ Effect(fns[f], top.ip) \in Int
    BY <1>1, EffectAt
  <2>4. base + 1 = frs2[Len(frs)].slot_base + At(frs2[Len(frs)], k, fns).height
    <3>1. n = top.slot_base + MapOf(fns, f)[top.ip].height
      BY <1>1, <1>13
    <3>2. At(frs2[Len(frs)], k, fns).height = MapOf(fns, f)[top.ip].height + Effect(fns[f], top.ip)
      BY <1>12, <1>13
    <3>3. base + 1 = n + Effect(fns[f], top.ip)
      BY <1>3, <1>4
    <3> QED
      BY <3>1, <3>2, <3>3, <2>3, <1>1, <1>7
  <2>5. CapturedAfter(fns, fns[f], top.ip, MapOf(fns, f)[top.ip]) = MapOf(fns, f)[top.ip].captured
    BY <1>2 DEF CapturedAfter
  <2>6. \A u \in open : frs2[Len(frs)].slot_base < k[u].location =>
          k[u].location - frs2[Len(frs)].slot_base - 1 \in At(frs2[Len(frs)], k, fns).captured
    BY <1>1, <1>7, <1>12, <1>13, <2>5
  <2>7. \A j \in 1 .. Len(frs2) : Len(frs) < j => frs2[Len(frs)].slot_base < frs2[j].slot_base
    BY <1>1, <1>3, <1>4, <1>6, <1>7
  <2>8. Calls(frs2[Len(frs)], k, fns, fns[Runs(frs2[Len(frs) + 1], k)].arity)
    BY <1>1, <1>7, <1>11 DEF Calls
  <2> QED
    BY <2>1, <2>2, <2>4, <2>6, <2>7, <2>8 DEF FrameOK
<1>15. FrameOK(Len(frs) + 1, m, frs2, open, k, fns)
  <2>1. 0 \in DOMAIN MapOf(fns, k[closure].function) /\ MapOf(fns, k[closure].function)[0].height = 1 + argc
    BY VerifiedEntry
  <2>2. Ceiling(frs2, Len(frs) + 1, m) = m
    BY <1>6 DEF Ceiling
  <2>3. m = base + 1 + argc
    BY <1>1 DEF base
  <2>4. m = frs2[Len(frs) + 1].slot_base + At(frs2[Len(frs) + 1], k, fns).height
    BY <1>4, <1>7, <1>13, <2>1, <2>3
  <2>5. \A j \in 1 .. Len(frs2) : ~(Len(frs) + 1 < j)
    BY <1>1, <1>6
  <2>6. ~(Len(frs) + 1 < Len(frs2))
    BY <1>1, <1>6
  <2> QED
    BY <1>7, <1>9, <1>11, <2>1, <2>2, <2>4, <2>5, <2>6 DEF FrameOK
<1>16. frs2[1].slot_base = 0 /\ Runs(frs2[1], k) = Len(fns)
  <2>1. frs2[1].slot_base = frs[1].slot_base /\ frs2[1].closure = frs[1].closure /\ 1 \in 1 .. Len(frs)
    BY <1>1, <1>7
  <2>2. IsA(frs[1].closure, "Closure", h)
    BY <2>1 DEF FramesOK
  <2> QED
    BY <2>1, <2>2 DEF Running, Runs, Grows, IsA
<1>17. \A i \in 1 .. Len(frs2) : FrameOK(i, m, frs2, open, k, fns)
  BY <1>1, <1>6, <1>10, <1>14, <1>15
<1> QED
  BY <1>1, <1>6, <1>8, <1>16, <1>17 DEF Running, frs2, base

\* The top frame has returned to the one below it.
LEMMA Leave ==
  ASSUME NEW fns, NEW h, NEW n, NEW frs, NEW open, FramesOK(frs, h), Running(n, frs, open, h, fns),
         Len(frs) # 1, NEW k, Grows(h, k), NEW open2,
         \A u \in open2 : /\ u \in open /\ k[u].location = h[u].location
                          /\ k[u].location <= frs[Len(frs)].slot_base
  PROVE  LET frs2 == SubSeq(frs, 1, Len(frs) - 1)
         IN  FramesOK(frs2, k) /\ Running(frs[Len(frs)].slot_base + 1, frs2, open2, k, fns)
<1> DEFINE frs2 == SubSeq(frs, 1, Len(frs) - 1)
<1> DEFINE N == Len(frs)
<1> DEFINE base == frs[N].slot_base
<1>1. IsList(frs) /\ N \in Nat /\ N > 1 /\ N - 1 \in Nat /\ N - 1 <= Len(frs)
  <2>1. IsList(frs) /\ N \in Nat
    BY ListLength DEF FramesOK
  <2>2. N >= 1 /\ N # 1
    BY DEF Running
  <2> HIDE DEF N
  <2>3. N > 1 /\ N - 1 \in Nat /\ N - 1 <= N
    BY <2>1, <2>2
  <2> QED
    BY <2>1, <2>3 DEF N
<1>2. IsList(frs2) /\ Len(frs2) = N - 1 /\ \A i \in 1 .. N - 1 : frs2[i] = frs[i]
  BY <1>1, ListPrefix
<1> HIDE DEF frs2
<1>3. \A i \in 1 .. N : IsA(frs[i].closure, "Closure", h) /\ frs[i].slot_base \in Nat
  BY DEF FramesOK
<1>4. FramesOK(frs2, k)
  BY <1>1, <1>2, <1>3, GrowIsA, VmAssumption DEF FramesOK
<1>5. \A i \in 1 .. N - 1 : Runs(frs2[i], k) = Runs(frs[i], h)
  BY <1>1, <1>2, <1>3 DEF Runs, Grows, IsA
<1>6. ASSUME NEW i \in 1 .. N - 1 PROVE FrameOK(i, base + 1, frs2, open2, k, fns)
  <2>1. FrameOK(i, n, frs, open, h, fns) /\ i \in 1 .. N /\ i < N
    BY <1>1 DEF Running
  <2>2. At(frs2[i], k, fns) = At(frs[i], h, fns) /\ frs2[i] = frs[i]
    BY <1>2, <1>5 DEF At
  <2>3. frs2[i].ip \in DOMAIN MapOf(fns, Runs(frs2[i], k))
    BY <2>1, <2>2, <1>5 DEF FrameOK
  <2>4. Ceiling(frs2, i, base + 1) = Ceiling(frs, i, n)
    <3>1. CASE i = N - 1
      BY <3>1, <1>1, <1>2 DEF Ceiling
    <3>2. CASE i # N - 1
      <4>1. i + 1 \in 1 .. N - 1 /\ i # N
        BY <3>2, <1>1
      <4> QED
        BY <3>2, <4>1, <1>2 DEF Ceiling
    <3> QED
      BY <3>1, <3>2
  <2>5. ASSUME NEW u \in open2, frs2[i].slot_base < k[u].location,
               i < Len(frs2) => k[u].location <= frs2[i + 1].slot_base
        PROVE  k[u].location - frs2[i].slot_base - 1 \in At(frs2[i], k, fns).captured
    <3>1. h[u].location <= frs[i + 1].slot_base
      <4>1. CASE i = N - 1
        <5>1. i + 1 = N
          BY <4>1, <1>1
        <5> QED
          BY <5>1
      <4>2. CASE i # N - 1
        <5>1. i < Len(frs2) /\ i + 1 \in 1 .. N - 1
          BY <4>2, <1>1, <1>2
        <5> QED
          BY <5>1, <2>5, <1>2
      <4> QED
        BY <4>1, <4>2
    <3> QED
      BY <2>1, <2>2, <2>5, <3>1 DEF FrameOK
  <2>6. \A j \in 1 .. Len(frs2) : i < j => frs2[i].slot_base < frs2[j].slot_base
    BY <2>1, <1>1, <1>2 DEF FrameOK
  <2>7. i < Len(frs2) => Calls(frs2[i], k, fns, fns[Runs(frs2[i + 1], k)].arity)
    <3> SUFFICES ASSUME i < Len(frs2) PROVE Calls(frs2[i], k, fns, fns[Runs(frs2[i + 1], k)].arity)
      OBVIOUS
    <3>1. i + 1 \in 1 .. N - 1
      BY <1>1, <1>2
    <3>2. Runs(frs2[i + 1], k) = Runs(frs[i + 1], h) /\ Runs(frs2[i], k) = Runs(frs[i], h)
      BY <1>5, <3>1
    <3> QED
      BY <2>1, <2>2, <3>2 DEF FrameOK, Calls
  <2> QED
    BY <2>1, <2>2, <2>3, <2>4, <2>5, <2>6, <2>7 DEF FrameOK
<1>7. frs2[1].slot_base = 0 /\ Runs(frs2[1], k) = Len(fns)
  BY <1>1, <1>2, <1>5 DEF Running
<1> QED
  BY <1>1, <1>2, <1>4, <1>6, <1>7 DEF Running, frs2
=============================================================================
