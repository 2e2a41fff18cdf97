------------------------------ MODULE VMProofs -----------------------------
(***************************************************************************)
(* What the virtual machine guarantees on any verified code, for every     *)
(* collection threshold and however long it runs: its invariants, one      *)
(* lemma for each instruction.                                             *)
(***************************************************************************)
EXTENDS VMStateProofs, TLAPS

\* What the stack map says of the instruction that is about to be executed.
here == At(frame, heap, functions)

\* The machine at an instruction.
LEMMA AtInstruction ==
  ASSUME IInv, status = "running"
  PROVE  /\ VerifiedScript(functions, ByteSize)
         /\ Len(stack) \in Nat /\ Len(frames) \in Nat \ {0} /\ Len(frames) \in 1 .. Len(frames)
         /\ frame = frames[Len(frames)] /\ IsA(frame.closure, "Closure", heap)
         /\ Runs(frame, heap) \in DOMAIN functions /\ function = functions[Runs(frame, heap)]
         /\ frame.ip \in DOMAIN MapOf(functions, Runs(frame, heap)) /\ frame.ip \in Nat
         /\ frame.slot_base \in Nat /\ Len(stack) = frame.slot_base + here.height
         /\ byte(0) = OpAt(function, frame.ip) /\ byte(0) \in Opcodes
         /\ \A n : byte(n) = OperandAt(function, frame.ip, n)
         /\ Works(functions, function, frame.ip, ByteSize, here)
<1>1. VerifiedScript(functions, ByteSize)
  BY CodeVerified DEF IInv, Counts
<1>2. Len(stack) \in Nat
  BY ListLength DEF IInv, ValuesOK
<1>3. /\ HeapOK(heap, functions, born) /\ FramesOK(frames, heap)
      /\ Running(Len(stack), frames, open_upvalues, heap, functions)
  BY DEF IInv
<1>4. frame = frames[Len(frames)]
  BY DEF frame, Last
<1>5. /\ Len(frames) \in Nat \ {0} /\ Len(frames) \in 1 .. Len(frames)
      /\ Runs(frame, heap) \in DOMAIN functions
      /\ frame.ip \in DOMAIN MapOf(functions, Runs(frame, heap)) /\ frame.slot_base \in Nat
      /\ Len(stack) = frame.slot_base + here.height
  BY <1>1, <1>2, <1>3, <1>4, TopFrame DEF here
<1>6. IsA(frame.closure, "Closure", heap)
  BY <1>3, <1>4, <1>5 DEF FramesOK
<1>7. function = functions[Runs(frame, heap)]
  BY DEF function, function_of, Runs
<1>8. /\ frame.ip \in Nat /\ OpAt(function, frame.ip) \in Opcodes
      /\ Works(functions, function, frame.ip, ByteSize, here)
  BY <1>1, <1>5, <1>7, VerifiedAt DEF here, At
<1>9. \A n : byte(n) = OperandAt(function, frame.ip, n)
  BY DEF byte, OperandAt
<1>10. byte(0) = OpAt(function, frame.ip)
  BY <1>8 DEF byte, OpAt
<1> QED
  BY <1>1, <1>2, <1>4, <1>5, <1>6, <1>7, <1>8, <1>9, <1>10

\* The stack holds what the instruction takes, and no upvalue is open on it.
LEMMA Operands ==
  ASSUME IInv, status = "running"
  PROVE  LET needs == Needs(function, frame.ip)
             effect == Effect(function, frame.ip)
         IN  /\ needs \in Nat /\ needs < Len(stack) /\ effect \in Int /\ effect + needs >= 0
             /\ here.height \in Nat /\ needs + 1 <= here.height
             /\ byte(0) # "CloseUpvalue" =>
                  \A u \in open_upvalues : heap[u].location \in 1 .. Len(stack) - needs
<1>1. /\ VerifiedScript(functions, ByteSize) /\ Len(stack) \in Nat
      /\ Runs(frame, heap) \in DOMAIN functions /\ function = functions[Runs(frame, heap)]
      /\ frame.ip \in DOMAIN MapOf(functions, Runs(frame, heap)) /\ frame.slot_base \in Nat
      /\ Len(stack) = frame.slot_base + here.height
      /\ frame = frames[Len(frames)] /\ byte(0) = OpAt(function, frame.ip)
  BY AtInstruction
<1>2. /\ here.height \in Nat /\ Needs(function, frame.ip) \in Nat /\ Effect(function, frame.ip) \in Int
      /\ Effect(function, frame.ip) + Needs(function, frame.ip) >= 0
      /\ Needs(function, frame.ip) + 1 <= here.height
  BY <1>1, EffectAt DEF here, At
<1>3. byte(0) # "CloseUpvalue" =>
        \A u \in open_upvalues : heap[u].location \in 1 .. Len(stack) - Needs(function, frame.ip)
  BY <1>1, OpenBelow DEF IInv
<1> QED
  BY <1>1, <1>2, <1>3

\* The top of the stack.
LEMMA Peek ==
  ASSUME IInv, NEW d \in Nat, d < Len(stack)
  PROVE  /\ ValueOK(peek(d), heap) /\ Len(stack) - d \in 1 .. Len(stack)
         /\ ValuesOK(popped(d), heap) /\ Len(popped(d)) = Len(stack) - d
<1>1. ValuesOK(stack, heap) /\ Len(stack) \in Nat
  BY ListLength DEF IInv, ValuesOK
<1>2. Len(stack) - d \in 1 .. Len(stack) /\ Len(stack) - d \in Nat /\ Len(stack) - d <= Len(stack)
  BY <1>1
<1>3. ValueOK(peek(d), heap)
  BY <1>1, <1>2 DEF ValuesOK, peek
<1>4. ValuesOK(popped(d), heap) /\ Len(popped(d)) = Len(stack) - d
  BY <1>1, <1>2, KeepValues DEF popped
<1> QED
  BY <1>2, <1>3, <1>4

\* An instruction that neither opens nor closes an upvalue is over.
LEMMA Step ==
  ASSUME IInv, status = "running", UNCHANGED fixedV, UNCHANGED resultV,
         born' \in Nat, allocations_since_gc' \in 0 .. born',
         Grows(heap, heap'), HeapOK(heap', functions, born'),
         ValuesOK(stack', heap'), GlobalsOK(globals', heap'),
         open_upvalues' = open_upvalues, Open(heap') = Open(heap),
         \A u \in open_upvalues : heap'[u].location = heap[u].location,
         byte(0) \notin {"Closure", "CloseUpvalue"},
         Len(stack') = Len(stack) + Effect(function, frame.ip),
         NEW n, frames' = ip_plus(n),
         frame.ip + n \in Successors(functions, function, frame.ip, ByteSize)
  PROVE  IInv'
<1>1. /\ VerifiedScript(functions, ByteSize) /\ Len(stack) \in Nat
      /\ Len(frames) \in Nat \ {0} /\ frame = frames[Len(frames)]
      /\ function = functions[Runs(frame, heap)] /\ frame.slot_base \in Nat
      /\ byte(0) = OpAt(function, frame.ip)
  BY AtInstruction
<1>2. /\ Needs(function, frame.ip) \in Nat /\ Effect(function, frame.ip) \in Int
      /\ Effect(function, frame.ip) + Needs(function, frame.ip) >= 0
      /\ \A u \in open_upvalues : heap[u].location \in 1 .. Len(stack) - Needs(function, frame.ip)
  BY Operands
<1>3. Counts' /\ Result' /\ functions' = functions
  BY DEF IInv, Counts, Result, fixedV, resultV, CleanExit
<1>4. OpenOK(open_upvalues', heap', Len(stack'))
  <2>1. \A u \in open_upvalues : heap'[u].location \in 1 .. Len(stack')
    BY <1>1, <1>2
  <2>2. OpenOK(open_upvalues, heap, Len(stack))
    BY DEF IInv
  <2> QED
    BY <2>1, <2>2 DEF OpenOK
<1>5. frames' = MoveTo(frames, frame.ip + n) /\ FramesOK(frames, heap) /\ Len(frames) >= 1
  BY <1>1 DEF ip_plus, MoveTo, IInv
<1>6. FramesOK(frames', heap')
  BY <1>5, MovedFrames, GrowRoots
<1>7. Running(Len(stack'), frames', open_upvalues', heap', functions)
  <2>1. CapturedAfter(functions, function, frame.ip, here) = here.captured
    BY <1>1 DEF CapturedAfter
  <2>2. \A u \in open_upvalues : frame.slot_base < heap[u].location =>
          heap[u].location - frame.slot_base - 1 \in here.captured
    BY <1>1, TopFrame DEF IInv, here
  <2>3. \A u \in open_upvalues' :
          /\ heap'[u].location \in Nat
          /\ heap'[u].location <= frame.slot_base => u \in open_upvalues /\ heap'[u].location = heap[u].location
          /\ frame.slot_base < heap'[u].location =>
               heap'[u].location - frame.slot_base - 1 \in CapturedAfter(functions, function, frame.ip, here)
    BY <1>1, <1>2, <2>1, <2>2
  <2> QED
    BY <1>1, <1>5, <2>3, Advance DEF IInv, here
<1> QED
  BY <1>3, <1>4, <1>6, <1>7 DEF IInv

\* An instruction has reported an error, and execute returns.
LEMMA Stopped ==
  ASSUME IInv, UNCHANGED fixedV, NEW message, message # "", runtime_error(message),
         born' \in Nat, allocations_since_gc' \in 0 .. born',
         HeapOK(heap', functions, born'), ValuesOK(stack', heap'), GlobalsOK(globals', heap'),
         OpenOK(open_upvalues', heap', Len(stack')), FramesOK(frames', heap')
  PROVE  IInv'
<1>1. status' = "RuntimeError" /\ error_message' # ""
  BY DEF runtime_error
<1>2. Counts' /\ Result' /\ functions' = functions
  BY <1>1 DEF IInv, Counts, Result, fixedV, CleanExit
<1> QED
  BY <1>1, <1>2 DEF IInv

-----------------------------------------------------------------------------
(***************************************************************************)
(* Instructions on the value stack alone.                                  *)
(***************************************************************************)
\* Moving ip on leaves the frames good.
LEMMA IpPlus ==
  ASSUME IInv, status = "running", NEW n
  PROVE  FramesOK(ip_plus(n), heap)
<1>1. frame = frames[Len(frames)] /\ Len(frames) >= 1
  BY AtInstruction
<1>2. ip_plus(n) = MoveTo(frames, frame.ip + n)
  BY <1>1 DEF ip_plus, MoveTo
<1> QED
  BY <1>1, <1>2, MovedFrames DEF IInv

\* StackOp: the new stack is good, has the height that the code says, and ip is
\* at a successor.
LEMMA StackOpIInv ==
  ASSUME IInv, status = "running", UNCHANGED fixedV, NEW n, NEW stk, StackOp(n, stk),
         byte(0) \notin {"Closure", "CloseUpvalue"},
         ValuesOK(stk, heap), Len(stk) = Len(stack) + Effect(function, frame.ip),
         frame.ip + n \in Successors(functions, function, frame.ip, ByteSize)
  PROVE  IInv'
<1>1. /\ stack' = stk /\ frames' = ip_plus(n) /\ globals' = globals /\ open_upvalues' = open_upvalues
      /\ heap' = heap /\ born' = born /\ allocations_since_gc' = allocations_since_gc
      /\ UNCHANGED resultV
  BY DEF StackOp, gcV
<1>2. /\ born \in Nat /\ allocations_since_gc \in 0 .. born /\ HeapOK(heap, functions, born)
      /\ GlobalsOK(globals, heap)
  BY DEF IInv, Counts
<1>3. Grows(heap, heap)
  BY GrowsRefl
<1> QED
  BY <1>1, <1>2, <1>3, Step

\* ErrorOp: the machine stops.
LEMMA ErrorOpIInv ==
  ASSUME IInv, status = "running", UNCHANGED fixedV, NEW n, NEW message, message # "",
         ErrorOp(n, message)
  PROVE  IInv'
<1>1. /\ runtime_error(message) /\ frames' = ip_plus(n)
      /\ stack' = stack /\ globals' = globals /\ open_upvalues' = open_upvalues
      /\ heap' = heap /\ born' = born /\ allocations_since_gc' = allocations_since_gc
  BY DEF ErrorOp, gcV
<1>2. /\ born \in Nat /\ allocations_since_gc \in 0 .. born /\ HeapOK(heap, functions, born)
      /\ ValuesOK(stack, heap) /\ GlobalsOK(globals, heap)
      /\ OpenOK(open_upvalues, heap, Len(stack))
  BY DEF IInv, Counts
<1>3. FramesOK(ip_plus(n), heap)
  BY IpPlus
<1> QED
  BY <1>1, <1>2, <1>3, Stopped

\* A one-cell instruction that pushes a value.
LEMMA PushesIInv ==
  ASSUME IInv, status = "running", UNCHANGED fixedV, NEW n, NEW v, ValueOK(v, heap),
         StackOp(n, Append(stack, v)), byte(0) \notin {"Closure", "CloseUpvalue"},
         Shaped(functions, function, frame.ip, ByteSize, n, 0, 1)
  PROVE  IInv'
<1>1. ValuesOK(Append(stack, v), heap) /\ Len(Append(stack, v)) = Len(stack) + 1
  BY PushValue DEF IInv
<1> QED
  BY <1>1, StackOpIInv DEF Shaped

\* A constant of the chunk is a number or a string.
LEMMA ConstantIsPlain ==
  ASSUME IInv, status = "running", byte(0) = "Constant"
  PROVE  constant(1)[1] \in {"num", "str"}
<1>1. /\ OpAt(function, frame.ip) = "Constant" /\ byte(1) = OperandAt(function, frame.ip, 1)
      /\ OperandsExist(functions, function, frame.ip)
  BY AtInstruction DEF Works
<1> QED
  BY <1>1 DEF OperandsExist, constant, NameOps, InvokeOps

\* So it is good in any heap.
LEMMA ConstantOK ==
  ASSUME IInv, status = "running", byte(0) = "Constant"
  PROVE  ValueOK(constant(1), heap)
BY ConstantIsPlain DEF ValueOK, PointerTags

\* OpConstant, OpNil, OpTrue and OpFalse push a value that points at nothing.
LEMMA LiteralsIInv ==
  ASSUME IInv, UNCHANGED fixedV, OpConstant \/ OpNil \/ OpTrue \/ OpFalse
  PROVE  IInv'
<1>1. status = "running"
  BY DEF OpConstant, OpNil, OpTrue, OpFalse, Fetch
<1>2. byte(0) = OpAt(function, frame.ip)
  BY <1>1, AtInstruction
<1>3. CASE OpConstant
  <2>1. byte(0) = "Constant" /\ StackOp(2, Append(stack, constant(1)))
    BY <1>3 DEF OpConstant, Fetch
  <2>2. Shaped(functions, function, frame.ip, ByteSize, 2, 0, 1) /\ ValueOK(constant(1), heap)
    BY <1>1, <1>2, <2>1, ShapePush, ConstantOK
  <2> QED
    BY <1>1, <2>1, <2>2, PushesIInv
<1>4. CASE OpNil
  <2>1. byte(0) = "Nil" /\ StackOp(1, Append(stack, Nil))
    BY <1>4 DEF OpNil, Fetch
  <2>2. Shaped(functions, function, frame.ip, ByteSize, 1, 0, 1) /\ ValueOK(Nil, heap)
    BY <1>2, <2>1, ShapePush, PlainValues
  <2> QED
    BY <1>1, <2>1, <2>2, PushesIInv
<1>5. CASE OpTrue
  <2>1. byte(0) = "True" /\ StackOp(1, Append(stack, Bool(TRUE)))
    BY <1>5 DEF OpTrue, Fetch
  <2>2. Shaped(functions, function, frame.ip, ByteSize, 1, 0, 1) /\ ValueOK(Bool(TRUE), heap)
    BY <1>2, <2>1, ShapePush, PlainValues
  <2> QED
    BY <1>1, <2>1, <2>2, PushesIInv
<1>6. CASE OpFalse
  <2>1. byte(0) = "False" /\ StackOp(1, Append(stack, Bool(FALSE)))
    BY <1>6 DEF OpFalse, Fetch
  <2>2. Shaped(functions, function, frame.ip, ByteSize, 1, 0, 1) /\ ValueOK(Bool(FALSE), heap)
    BY <1>2, <2>1, ShapePush, PlainValues
  <2> QED
    BY <1>1, <2>1, <2>2, PushesIInv
<1> QED
  BY <1>3, <1>4, <1>5, <1>6

\* The slots that GetLocal and SetLocal name are on the stack.
LEMMA SlotOnStack ==
  ASSUME IInv, status = "running", byte(0) \in SlotOps
  PROVE  slot(byte(1)) \in 1 .. Len(stack)
<1>1. /\ OpAt(function, frame.ip) \in SlotOps /\ byte(1) = OperandAt(function, frame.ip, 1)
      /\ Works(functions, function, frame.ip, ByteSize, here)
      /\ Len(stack) = frame.slot_base + here.height /\ frame.slot_base \in Nat
  BY AtInstruction
<1>2. byte(1) \in 0 .. ByteSize - 1
  BY <1>1, WidthCovers
<1>3. here.height \in Nat /\ byte(1) < here.height
  BY <1>1 DEF Works
<1> QED
  BY <1>1, <1>2, <1>3, VmAssumption DEF slot

\* OpGetLocal and OpSetLocal read and write a slot of the frame.
LEMMA LocalsIInv ==
  ASSUME IInv, UNCHANGED fixedV, OpGetLocal \/ OpSetLocal
  PROVE  IInv'
<1>1. status = "running"
  BY DEF OpGetLocal, OpSetLocal, Fetch
<1>2. byte(0) = OpAt(function, frame.ip)
  BY <1>1, AtInstruction
<1>3. CASE OpGetLocal
  <2>1. byte(0) = "GetLocal" /\ StackOp(2, Append(stack, stack[slot(byte(1))]))
    BY <1>3 DEF OpGetLocal, Fetch
  <2>2. Shaped(functions, function, frame.ip, ByteSize, 2, 0, 1)
    BY <1>2, <2>1, ShapePush
  <2>3. slot(byte(1)) \in 1 .. Len(stack)
    BY <1>1, <2>1, SlotOnStack DEF SlotOps
  <2>4. ValueOK(stack[slot(byte(1))], heap)
    BY <2>3 DEF IInv, ValuesOK
  <2> QED
    BY <1>1, <2>1, <2>2, <2>4, PushesIInv
<1>4. CASE OpSetLocal
  <2>1. byte(0) = "SetLocal" /\ StackOp(2, [stack EXCEPT ![slot(byte(1))] = peek(0)])
    BY <1>4 DEF OpSetLocal, Fetch
  <2>2. Shaped(functions, function, frame.ip, ByteSize, 2, 1, 0)
    BY <1>2, <2>1, ShapeLevel
  <2>3. slot(byte(1)) \in 1 .. Len(stack)
    BY <1>1, <2>1, SlotOnStack DEF SlotOps
  <2>4. ValueOK(peek(0), heap) /\ Len(stack) \in Nat
    <3>1. Len(stack) \in Nat /\ 0 < Len(stack)
      BY <1>1, <2>3, AtInstruction
    <3> QED
      BY <3>1, Peek
  <2>5. ValuesOK([stack EXCEPT ![slot(byte(1))] = peek(0)], heap)
        /\ Len([stack EXCEPT ![slot(byte(1))] = peek(0)]) = Len(stack) + 0
    BY <2>3, <2>4, SetValue DEF IInv
  <2> QED
    BY <1>1, <2>1, <2>2, <2>5, StackOpIInv DEF Shaped
<1> QED
  BY <1>3, <1>4

\* What is popped is on the stack.
LEMMA Taken ==
  ASSUME IInv, status = "running", NEW w, NEW n \in Nat, NEW e,
         Shaped(functions, function, frame.ip, ByteSize, w, n, e)
  PROVE  /\ Len(stack) \in Nat /\ n < Len(stack)
         /\ ValueOK(peek(0), heap) /\ (1 <= n => ValueOK(peek(1), heap))
         /\ \A d \in 0 .. n : ValuesOK(popped(d), heap) /\ Len(popped(d)) = Len(stack) - d
<1>1. Len(stack) \in Nat /\ n < Len(stack)
  BY AtInstruction, Operands DEF Shaped
<1>2. \A d \in 0 .. n : d \in Nat /\ d < Len(stack)
  BY <1>1
<1>3. 0 \in 0 .. n /\ (1 <= n => 1 \in 0 .. n)
  OBVIOUS
<1>4. \A d \in 0 .. n : /\ ValueOK(peek(d), heap)
                         /\ ValuesOK(popped(d), heap) /\ Len(popped(d)) = Len(stack) - d
  BY <1>2, Peek
<1>5. ValueOK(peek(0), heap)
  BY <1>3, <1>4
<1>6. 1 <= n => ValueOK(peek(1), heap)
  BY <1>3, <1>4
<1> QED
  BY <1>1, <1>4, <1>5, <1>6

\* An instruction that takes k values and pushes one.
LEMMA ReplacesIInv ==
  ASSUME IInv, status = "running", UNCHANGED fixedV, NEW w, NEW k \in Nat, NEW v, ValueOK(v, heap),
         StackOp(w, Append(popped(k), v)), byte(0) \notin {"Closure", "CloseUpvalue"},
         Shaped(functions, function, frame.ip, ByteSize, w, k, 1 - k)
  PROVE  IInv'
<1>1. Len(stack) \in Nat /\ ValuesOK(popped(k), heap) /\ Len(popped(k)) = Len(stack) - k
  BY Taken
<1>2. ValuesOK(Append(popped(k), v), heap) /\ Len(Append(popped(k), v)) = Len(popped(k)) + 1
  BY <1>1, PushValue
<1>3. Len(Append(popped(k), v)) = Len(stack) + (1 - k)
  BY <1>1, <1>2
<1> QED
  BY <1>2, <1>3, StackOpIInv DEF Shaped

\* OpPop drops a value.
LEMMA PopIInv == ASSUME IInv, UNCHANGED fixedV, OpPop PROVE IInv'
<1>1. status = "running" /\ byte(0) = "Pop" /\ StackOp(1, popped(1))
  BY DEF OpPop, Fetch
<1>2. Shaped(functions, function, frame.ip, ByteSize, 1, 1, -1)
  BY <1>1, AtInstruction, ShapePop
<1>3. ValuesOK(popped(1), heap) /\ Len(popped(1)) = Len(stack) - 1 /\ Len(stack) \in Nat
  BY <1>1, <1>2, Taken
<1>4. Len(popped(1)) = Len(stack) + -1
  BY <1>3
<1> QED
  BY <1>1, <1>2, <1>3, <1>4, StackOpIInv DEF Shaped

\* OpEqual, OpArith, OpAdd, OpNot and OpNegate leave a value that points at
\* nothing, or report an error.
LEMMA OperatorsIInv ==
  ASSUME IInv, UNCHANGED fixedV, OpEqual \/ OpArith \/ OpAdd \/ OpNot \/ OpNegate
  PROVE  IInv'
<1>1. status = "running"
  BY DEF OpEqual, OpArith, OpAdd, OpNot, OpNegate, Fetch
<1>2. byte(0) = OpAt(function, frame.ip)
  BY <1>1, AtInstruction
<1>3. ASSUME byte(0) \in BinaryInstrs, NEW v, ValueOK(v, heap), StackOp(1, Append(popped(2), v))
      PROVE  IInv'
  <2>1. Shaped(functions, function, frame.ip, ByteSize, 1, 2, 1 - 2)
    BY <1>2, <1>3, ShapePop
  <2>2. byte(0) \notin {"Closure", "CloseUpvalue"}
    BY <1>3 DEF BinaryInstrs
  <2> QED
    BY <1>1, <1>3, <2>1, <2>2, ReplacesIInv
<1>4. ASSUME byte(0) \in {"Not", "Negate"}, NEW v, ValueOK(v, heap), StackOp(1, Append(popped(1), v))
      PROVE  IInv'
  <2>1. Shaped(functions, function, frame.ip, ByteSize, 1, 1, 1 - 1)
    BY <1>2, <1>4, ShapeLevel
  <2> QED
    BY <1>1, <1>4, <2>1, ReplacesIInv
<1>5. CASE OpEqual
  <2>1. byte(0) = "Equal" /\ \E b : StackOp(1, Append(popped(2), Bool(b)))
    BY <1>5 DEF OpEqual, Fetch
  <2> QED
    BY <2>1, <1>3, PlainValues DEF BinaryInstrs
<1>6. CASE OpArith
  <2>1. PICK op \in {"Greater", "Less", "Subtract", "Multiply", "Divide"} :
          /\ byte(0) = op
          /\ \/ ErrorOp(1, "operands must be numbers")
             \/ StackOp(1, Append(popped(2),
                  CASE op = "Greater" -> Bool(NumLess(peek(0), peek(1)))
                    [] op = "Less"    -> Bool(NumLess(peek(1), peek(0)))
                    [] OTHER          -> Arith(op, peek(1), peek(0))))
    BY <1>6 DEF OpArith, Fetch
  <2> DEFINE v == CASE op = "Greater" -> Bool(NumLess(peek(0), peek(1)))
                    [] op = "Less"    -> Bool(NumLess(peek(1), peek(0)))
                    [] OTHER          -> Arith(op, peek(1), peek(0))
  <2>2. ValueOK(v, heap)
    <3>1. CASE op = "Greater"
      BY <3>1, PlainValues
    <3>2. CASE op = "Less"
      BY <3>2, PlainValues
    <3>3. CASE op \notin {"Greater", "Less"}
      BY <3>3, PlainValues
    <3> QED
      BY <3>1, <3>2, <3>3
  <2> HIDE DEF v
  <2>3. byte(0) \in BinaryInstrs /\ (ErrorOp(1, "operands must be numbers") \/ StackOp(1, Append(popped(2), v)))
    BY <2>1 DEF BinaryInstrs, v
  <2> QED
    BY <1>1, <1>3, <2>2, <2>3, ErrorOpIInv
<1>7. CASE OpAdd
  <2>1. /\ byte(0) = "Add"
        /\ \/ StackOp(1, Append(popped(2), Arith("Add", peek(1), peek(0))))
           \/ StackOp(1, Append(popped(2), Concat(peek(1), peek(0))))
           \/ ErrorOp(1, "operands must be two numbers or two strings")
    BY <1>7 DEF OpAdd, Fetch
  <2>2. byte(0) \in BinaryInstrs
    BY <2>1 DEF BinaryInstrs
  <2> QED
    BY <1>1, <1>3, <2>1, <2>2, PlainValues, ErrorOpIInv
<1>8. CASE OpNot
  <2>1. byte(0) = "Not" /\ \E b : StackOp(1, Append(popped(1), Bool(b)))
    BY <1>8 DEF OpNot, Fetch
  <2> QED
    BY <2>1, <1>4, PlainValues
<1>9. CASE OpNegate
  <2>1. /\ byte(0) = "Negate"
        /\ \/ StackOp(1, Append(popped(1), Negated(peek(0))))
           \/ ErrorOp(1, "operand must be a number")
    BY <1>9 DEF OpNegate, Fetch
  <2> QED
    BY <1>1, <2>1, <1>4, PlainValues, ErrorOpIInv
<1> QED
  BY <1>5, <1>6, <1>7, <1>8, <1>9

\* OpPrint drops the value it prints.
LEMMA PrintIInv == ASSUME IInv, UNCHANGED fixedV, OpPrint PROVE IInv'
<1>1. /\ status = "running" /\ byte(0) = "Print" /\ stack' = popped(1) /\ frames' = ip_plus(1)
      /\ globals' = globals /\ open_upvalues' = open_upvalues /\ heap' = heap /\ born' = born
      /\ allocations_since_gc' = allocations_since_gc /\ UNCHANGED resultV
  BY DEF OpPrint, Fetch, gcV
<1>2. Shaped(functions, function, frame.ip, ByteSize, 1, 1, -1)
  BY <1>1, AtInstruction, ShapePop
<1>3. ValuesOK(popped(1), heap) /\ Len(popped(1)) = Len(stack) - 1 /\ Len(stack) \in Nat
  BY <1>1, <1>2, Taken
<1>4. Len(popped(1)) = Len(stack) + -1
  BY <1>3
<1>5. /\ born \in Nat /\ allocations_since_gc \in 0 .. born /\ HeapOK(heap, functions, born)
      /\ GlobalsOK(globals, heap)
  BY DEF IInv, Counts
<1> QED
  BY <1>1, <1>2, <1>3, <1>4, <1>5, GrowsRefl, Step DEF Shaped

\* OpJump, OpJumpIfFalse and OpLoop move ip to one of the places the code says.
LEMMA JumpsIInv ==
  ASSUME IInv, UNCHANGED fixedV, OpJump \/ OpJumpIfFalse \/ OpLoop
  PROVE  IInv'
<1>1. status = "running" /\ byte(0) \in {"Jump", "JumpIfFalse", "Loop"}
  BY DEF OpJump, OpJumpIfFalse, OpLoop, Fetch
<1>2. /\ byte(0) = OpAt(function, frame.ip) /\ frame.ip \in Nat /\ Len(stack) \in Nat
      /\ byte(1) = OperandAt(function, frame.ip, 1) /\ byte(1 + 1) = OperandAt(function, frame.ip, 2)
      /\ Works(functions, function, frame.ip, ByteSize, here)
  BY <1>1, AtInstruction
<1>3. OpAt(function, frame.ip) \in JumpOps
  BY <1>1, <1>2 DEF JumpOps
<1>4. short(1) = JumpOffset(function, frame.ip, ByteSize) /\ short(1) \in Nat
  <2>1. OperandAt(function, frame.ip, 1) \in 0 .. ByteSize - 1 /\ OperandAt(function, frame.ip, 2) \in 0 .. ByteSize - 1
    BY <1>2, <1>3, WidthCovers
  <2>2. short(1) = JumpOffset(function, frame.ip, ByteSize)
    BY <1>2 DEF short, JumpOffset
  <2>3. JumpOffset(function, frame.ip, ByteSize) \in Nat
    BY <2>1, VmAssumption DEF JumpOffset
  <2> QED
    BY <2>2, <2>3
<1> DEFINE o == short(1)
<1>5. ASSUME NEW n \in Int, StackOp(n, stack),
             frame.ip + n \in Successors(functions, function, frame.ip, ByteSize)
      PROVE  IInv'
  <2>1. Effect(function, frame.ip) = 0
    BY <1>3, ShapeJump
  <2>2. Len(stack) = Len(stack) + Effect(function, frame.ip)
    BY <1>2, <2>1
  <2>3. ValuesOK(stack, heap)
    BY DEF IInv
  <2> QED
    BY <1>1, <1>5, <2>2, <2>3, StackOpIInv
<1>6. CASE OpJump
  <2>1. OpAt(function, frame.ip) = "Jump" /\ StackOp(3 + o, stack)
    BY <1>2, <1>6 DEF OpJump, Fetch
  <2>2. Successors(functions, function, frame.ip, ByteSize) = {frame.ip + 3 + o}
    BY <2>1, <1>4, ShapeJump
  <2>3. frame.ip + 3 + o = frame.ip + (3 + o) /\ 3 + o \in Int
    BY <1>2, <1>4
  <2> QED
    BY <2>1, <2>2, <2>3, <1>5
<1>7. CASE OpLoop
  <2>1. OpAt(function, frame.ip) = "Loop" /\ StackOp(3 - o, stack)
    BY <1>2, <1>7 DEF OpLoop, Fetch
  <2>2. Successors(functions, function, frame.ip, ByteSize) = {frame.ip + 3 - o}
    BY <2>1, <1>4, ShapeJump
  <2>3. frame.ip + 3 - o = frame.ip + (3 - o) /\ 3 - o \in Int
    BY <1>2, <1>4
  <2> QED
    BY <2>1, <2>2, <2>3, <1>5
<1>8. CASE OpJumpIfFalse
  <2>1. /\ OpAt(function, frame.ip) = "JumpIfFalse"
        /\ StackOp(3 + 0, stack) \/ StackOp(3 + o, stack)
    BY <1>2, <1>8 DEF OpJumpIfFalse, Fetch
  <2>2. Successors(functions, function, frame.ip, ByteSize) = {frame.ip + 3, frame.ip + 3 + o}
    BY <2>1, <1>4, ShapeJump
  <2>3. /\ frame.ip + 3 + o = frame.ip + (3 + o) /\ 3 + o \in Int
        /\ frame.ip + 3 = frame.ip + (3 + 0)
    BY <1>2, <1>4
  <2> QED
    BY <2>1, <2>2, <2>3, <1>5
<1> QED
  BY <1>6, <1>7, <1>8

-----------------------------------------------------------------------------
(***************************************************************************)
(* Globals.                                                                *)
(***************************************************************************)
\* A global is set to a good value.
LEMMA PutGlobal ==
  ASSUME NEW g, NEW h, GlobalsOK(g, h), NEW x, NEW v, ValueOK(v, h)
  PROVE  GlobalsOK(Put(g, x, v), h)
BY DEF GlobalsOK, Put

\* The instruction sets a global and leaves a stack of the height the code says.
LEMMA SetGlobalToIInv ==
  ASSUME IInv, status = "running", UNCHANGED fixedV, NEW v, NEW stk, SetGlobalTo(v, stk),
         ValueOK(v, heap), ValuesOK(stk, heap), byte(0) \notin {"Closure", "CloseUpvalue"},
         Len(stk) = Len(stack) + Effect(function, frame.ip),
         frame.ip + 2 \in Successors(functions, function, frame.ip, ByteSize)
  PROVE  IInv'
<1>1. /\ stack' = stk /\ frames' = ip_plus(2) /\ globals' = Put(globals, string(1), v)
      /\ open_upvalues' = open_upvalues /\ heap' = heap /\ born' = born
      /\ allocations_since_gc' = allocations_since_gc /\ UNCHANGED resultV
  BY DEF SetGlobalTo, gcV
<1>2. /\ born \in Nat /\ allocations_since_gc \in 0 .. born /\ HeapOK(heap, functions, born)
      /\ GlobalsOK(globals, heap)
  BY DEF IInv, Counts
<1>3. GlobalsOK(globals', heap)
  BY <1>1, <1>2, PutGlobal
<1> QED
  BY <1>1, <1>2, <1>3, GrowsRefl, Step

\* OpGetGlobal, OpDefineGlobal and OpSetGlobal.
LEMMA GlobalsIInv ==
  ASSUME IInv, UNCHANGED fixedV, OpGetGlobal \/ OpDefineGlobal \/ OpSetGlobal
  PROVE  IInv'
<1>1. status = "running"
  BY DEF OpGetGlobal, OpDefineGlobal, OpSetGlobal, Fetch
<1>2. byte(0) = OpAt(function, frame.ip) /\ Len(stack) \in Nat
  BY <1>1, AtInstruction
<1>3. CASE OpGetGlobal
  <2>1. /\ byte(0) = "GetGlobal"
        /\ \/ /\ string(1) \in DOMAIN globals
              /\ StackOp(2, Append(stack, globals[string(1)]))
           \/ ErrorOp(2, "undefined variable")
    BY <1>3 DEF OpGetGlobal, Fetch
  <2>2. Shaped(functions, function, frame.ip, ByteSize, 2, 0, 1)
    BY <1>2, <2>1, ShapePush
  <2>3. string(1) \in DOMAIN globals => ValueOK(globals[string(1)], heap)
    BY DEF IInv, GlobalsOK
  <2> QED
    BY <1>1, <2>1, <2>2, <2>3, PushesIInv, ErrorOpIInv
<1>4. CASE OpDefineGlobal
  <2>1. byte(0) = "DefineGlobal" /\ SetGlobalTo(peek(0), popped(1))
    BY <1>4 DEF OpDefineGlobal, Fetch
  <2>2. Shaped(functions, function, frame.ip, ByteSize, 2, 1, -1)
    BY <1>2, <2>1, ShapePop
  <2>3. ValuesOK(popped(1), heap) /\ Len(popped(1)) = Len(stack) - 1 /\ ValueOK(peek(0), heap)
    BY <1>1, <2>2, Taken
  <2>4. Len(popped(1)) = Len(stack) + -1
    BY <1>2, <2>3
  <2> QED
    BY <1>1, <2>1, <2>2, <2>3, <2>4, SetGlobalToIInv DEF Shaped
<1>5. CASE OpSetGlobal
  <2>1. /\ byte(0) = "SetGlobal"
        /\ SetGlobalTo(peek(0), stack) \/ ErrorOp(2, "undefined variable")
    BY <1>5 DEF OpSetGlobal, Fetch
  <2>2. Shaped(functions, function, frame.ip, ByteSize, 2, 1, 0)
    BY <1>2, <2>1, ShapeLevel
  <2>3. ValueOK(peek(0), heap) /\ ValuesOK(stack, heap)
    BY <1>1, <2>2, Taken DEF IInv
  <2>4. Len(stack) = Len(stack) + 0
    BY <1>2
  <2> QED
    BY <1>1, <2>1, <2>2, <2>3, <2>4, SetGlobalToIInv, ErrorOpIInv DEF Shaped
<1> QED
  BY <1>3, <1>4, <1>5

-----------------------------------------------------------------------------
(***************************************************************************)
(* Upvalues and closures.                                                  *)
(***************************************************************************)
\* The upvalue that GetUpvalue and SetUpvalue name is there, and when it is open
\* it is at a slot of the stack.
LEMMA CurrentUpvalue ==
  ASSUME IInv, status = "running", byte(0) \in UpvalueOps
  PROVE  /\ IsA(current_upvalue, "Upvalue", heap)
         /\ heap[current_upvalue].is_closed \in BOOLEAN
         /\ ValueOK(heap[current_upvalue].closed, heap)
         /\ ~heap[current_upvalue].is_closed => heap[current_upvalue].location \in 1 .. Len(stack)
<1>1. /\ OpAt(function, frame.ip) \in UpvalueOps /\ byte(1) = OperandAt(function, frame.ip, 1)
      /\ Works(functions, function, frame.ip, ByteSize, here)
      /\ IsA(frame.closure, "Closure", heap) /\ function = functions[Runs(frame, heap)]
  BY AtInstruction
<1>2. HeapOK(heap, functions, born) /\ OpenOK(open_upvalues, heap, Len(stack))
  BY DEF IInv
<1>3. /\ DOMAIN heap[frame.closure].upvalues = 1 .. function.upvalue_count
      /\ \A k \in DOMAIN heap[frame.closure].upvalues : IsA(heap[frame.closure].upvalues[k], "Upvalue", heap)
      /\ Runs(frame, heap) \in DOMAIN functions
  BY <1>1, <1>2 DEF HeapOK, ObjectOK, IsA, Runs
<1>4. function.upvalue_count \in Nat
  BY <1>1, <1>3, AtInstruction, VerifiedEntry
<1>5. byte(1) \in 0 .. ByteSize - 1 /\ byte(1) < function.upvalue_count
  BY <1>1, WidthCovers DEF Works, OperandsExist
<1>6. byte(1) + 1 \in 1 .. function.upvalue_count
  BY <1>4, <1>5, VmAssumption
<1>7. IsA(current_upvalue, "Upvalue", heap)
  BY <1>3, <1>6 DEF current_upvalue
<1>8. ObjectOK(heap[current_upvalue], heap, functions)
  BY <1>2, <1>7 DEF HeapOK, IsA
<1>9. heap[current_upvalue].is_closed \in BOOLEAN /\ ValueOK(heap[current_upvalue].closed, heap)
  BY <1>7, <1>8 DEF ObjectOK, IsA
<1>10. ~heap[current_upvalue].is_closed => heap[current_upvalue].location \in 1 .. Len(stack)
  BY <1>2, <1>7 DEF OpenOK, Open, IsA
<1> QED
  BY <1>7, <1>9, <1>10

\* OpGetUpvalue reads a slot of the stack, or the upvalue itself once it is closed.
LEMMA GetUpvalueIInv == ASSUME IInv, UNCHANGED fixedV, OpGetUpvalue PROVE IInv'
<1> DEFINE uv == heap[current_upvalue]
           v == IF uv.is_closed THEN uv.closed ELSE stack[uv.location]
<1>1. status = "running" /\ byte(0) = "GetUpvalue" /\ StackOp(2, Append(stack, v))
  BY DEF OpGetUpvalue, Fetch
<1>2. Shaped(functions, function, frame.ip, ByteSize, 2, 0, 1)
  BY <1>1, AtInstruction, ShapePush
<1>3. /\ ValueOK(uv.closed, heap) /\ uv.is_closed \in BOOLEAN
      /\ ~uv.is_closed => uv.location \in 1 .. Len(stack)
  BY <1>1, CurrentUpvalue DEF UpvalueOps
<1>4. ValueOK(v, heap)
  BY <1>3 DEF IInv, ValuesOK
<1> HIDE DEF v
<1> QED
  BY <1>1, <1>2, <1>4, PushesIInv

\* OpSetUpvalue writes one or the other.
LEMMA SetUpvalueIInv == ASSUME IInv, UNCHANGED fixedV, OpSetUpvalue PROVE IInv'
<1> DEFINE uv == heap[current_upvalue]
           obj == ObjUpvalue(uv.location, peek(0), TRUE)
<1>1. /\ status = "running" /\ byte(0) = "SetUpvalue"
      /\ frames' = ip_plus(2) /\ globals' = globals /\ open_upvalues' = open_upvalues /\ born' = born
      /\ allocations_since_gc' = allocations_since_gc /\ UNCHANGED resultV
  BY DEF OpSetUpvalue, Fetch
<1>2. Shaped(functions, function, frame.ip, ByteSize, 2, 1, 0)
  BY <1>1, AtInstruction, ShapeLevel
<1>3. /\ IsA(current_upvalue, "Upvalue", heap) /\ uv.is_closed \in BOOLEAN
      /\ ~uv.is_closed => uv.location \in 1 .. Len(stack)
  BY <1>1, CurrentUpvalue DEF UpvalueOps
<1>4. ValueOK(peek(0), heap) /\ Len(stack) \in Nat /\ Len(stack) = Len(stack) + 0
  BY <1>1, <1>2, Taken
<1>5. /\ born \in Nat /\ allocations_since_gc \in 0 .. born /\ HeapOK(heap, functions, born)
      /\ GlobalsOK(globals, heap) /\ ValuesOK(stack, heap) /\ OpenOK(open_upvalues, heap, Len(stack))
  BY DEF IInv, Counts
<1>6. CASE uv.is_closed
  <2>1. heap' = [heap EXCEPT ![current_upvalue] = obj] /\ stack' = stack
    BY <1>6 DEF OpSetUpvalue
  <2>2. obj.type = "Upvalue" /\ obj.is_closed = TRUE /\ obj.closed = peek(0)
    BY DEF ObjUpvalue
  <2>3. ObjectOK(obj, heap, functions)
    BY <2>2, <1>4 DEF ObjectOK, HeapTags
  <2> HIDE DEF obj
  <2>4. /\ Grows(heap, heap') /\ HeapOK(heap', functions, born)
        /\ \A o \in DOMAIN heap : o # current_upvalue => heap'[o] = heap[o]
    BY <1>3, <1>5, <2>1, <2>2, <2>3, SetObject DEF IsA
  <2>5. DOMAIN heap' = DOMAIN heap /\ heap'[current_upvalue] = obj
    BY <2>1, <1>3 DEF IsA
  <2>6. Open(heap') = Open(heap)
    BY <2>2, <2>4, <2>5, <1>3, <1>6 DEF Open, IsA
  <2>7. ASSUME NEW u \in open_upvalues PROVE heap'[u].location = heap[u].location
    <3>1. u \in DOMAIN heap /\ ~heap[u].is_closed
      BY <1>5 DEF OpenOK, Open
    <3> QED
      BY <1>6, <2>4, <3>1
  <2>8. ValuesOK(stack', heap') /\ GlobalsOK(globals', heap')
    BY <1>1, <1>5, <2>1, <2>4, GrowRoots
  <2>9. Len(stack') = Len(stack) + Effect(function, frame.ip)
    BY <1>2, <1>4, <2>1 DEF Shaped
  <2> QED
    BY <1>1, <1>2, <1>5, <2>4, <2>6, <2>7, <2>8, <2>9, Step DEF Shaped
<1>7. CASE ~uv.is_closed
  <2>1. heap' = heap /\ stack' = [stack EXCEPT ![uv.location] = peek(0)]
    BY <1>7 DEF OpSetUpvalue
  <2>2. ValuesOK(stack', heap) /\ Len(stack') = Len(stack) + 0
    <3>1. uv.location \in 1 .. Len(stack)
      BY <1>3, <1>7
    <3> DEFINE loc == uv.location
    <3>2. /\ loc \in 1 .. Len(stack) /\ ValuesOK(stack, heap) /\ ValueOK(peek(0), heap)
      BY <1>4, <1>5, <3>1
    <3>3. stack' = [stack EXCEPT ![loc] = peek(0)]
      BY <2>1
    <3> HIDE DEF loc
    <3>4. ValuesOK([stack EXCEPT ![loc] = peek(0)], heap) /\ Len([stack EXCEPT ![loc] = peek(0)]) = Len(stack)
      BY <3>2, SetValue
    <3> QED
      BY <1>4, <3>3, <3>4
  <2> QED
    BY <1>1, <1>2, <1>5, <2>1, <2>2, GrowsRefl, Step DEF Shaped
<1> QED
  BY <1>3, <1>6, <1>7

\* close_upvalues: the heap stays good and the upvalues below last stay open.
LEMMA CloseUpvalues ==
  ASSUME IInv, NEW last, close_upvalues(last)
  PROVE  /\ Grows(heap, heap') /\ HeapOK(heap', functions, born)
         /\ open_upvalues' = {u \in open_upvalues : ~(heap[u].location >= last)}
         /\ Open(heap') = open_upvalues'
         /\ \A u \in open_upvalues' : heap'[u] = heap[u]
<1> DEFINE closing == {u \in open_upvalues : heap[u].location >= last}
<1> DEFINE obj(o) == ObjUpvalue(heap[o].location, stack[heap[o].location], TRUE)
<1>1. /\ HeapOK(heap, functions, born) /\ OpenOK(open_upvalues, heap, Len(stack))
      /\ ValuesOK(stack, heap)
  BY DEF IInv
<1>2. /\ heap' = [o \in DOMAIN heap |-> IF o \in closing THEN obj(o) ELSE heap[o]]
      /\ open_upvalues' = open_upvalues \ closing
  BY DEF close_upvalues
<1>3. /\ DOMAIN heap' = DOMAIN heap
      /\ \A o \in DOMAIN heap : o \in closing => heap'[o] = obj(o)
      /\ \A o \in DOMAIN heap : o \notin closing => heap'[o] = heap[o]
  BY <1>2
<1>4. \A o \in closing : o \in DOMAIN heap /\ heap[o].type = "Upvalue" /\ ~heap[o].is_closed
  BY <1>1 DEF OpenOK, Open
<1>5. \A o \in closing : ValueOK(stack[heap[o].location], heap)
  BY <1>1 DEF OpenOK, ValuesOK
<1>6. \A o \in closing : /\ obj(o).type = "Upvalue" /\ obj(o).is_closed = TRUE
                         /\ obj(o).closed = stack[heap[o].location]
  BY DEF ObjUpvalue
<1>7. \A o \in closing : ObjectOK(obj(o), heap, functions)
  BY <1>5, <1>6 DEF ObjectOK, HeapTags
<1>8. open_upvalues' = {u \in open_upvalues : ~(heap[u].location >= last)}
  BY <1>2
<1> HIDE DEF obj
<1>9. Grows(heap, heap')
  BY <1>3, <1>4, <1>6 DEF Grows
<1>10. \A o \in DOMAIN heap' : ObjectOK(heap'[o], heap, functions)
  BY <1>1, <1>3, <1>7 DEF HeapOK
<1>11. HeapOK(heap', functions, born)
  BY <1>1, <1>3, <1>9, <1>10, GrowObject DEF HeapOK
<1>12. Open(heap') = open_upvalues'
  <2> HIDE DEF closing
  <2>1. open_upvalues = Open(heap)
    BY <1>1 DEF OpenOK
  <2> QED
    BY <1>2, <1>3, <1>4, <1>6, <2>1 DEF Open
<1>13. \A u \in open_upvalues' : heap'[u] = heap[u]
  <2>1. \A u \in open_upvalues : u \in DOMAIN heap
    BY <1>1 DEF OpenOK, Open
  <2> QED
    BY <1>2, <1>3, <2>1
<1> QED
  BY <1>8, <1>9, <1>11, <1>12, <1>13

\* An instruction that opens or closes upvalues is over.
LEMMA StepOpen ==
  ASSUME IInv, status = "running", UNCHANGED fixedV, UNCHANGED resultV,
         born' \in Nat, allocations_since_gc' \in 0 .. born',
         Grows(heap, heap'), HeapOK(heap', functions, born'),
         ValuesOK(stack', heap'), GlobalsOK(globals', heap'),
         OpenOK(open_upvalues', heap', Len(stack')),
         \A u \in open_upvalues' :
           /\ heap'[u].location <= frame.slot_base =>
                u \in open_upvalues /\ heap'[u].location = heap[u].location
           /\ frame.slot_base < heap'[u].location =>
                heap'[u].location - frame.slot_base - 1 \in
                  CapturedAfter(functions, function, frame.ip, here),
         Len(stack') = Len(stack) + Effect(function, frame.ip),
         NEW n, frames' = ip_plus(n),
         frame.ip + n \in Successors(functions, function, frame.ip, ByteSize)
  PROVE  IInv'
<1>1. /\ VerifiedScript(functions, ByteSize) /\ Len(stack) \in Nat
      /\ Len(frames) \in Nat \ {0} /\ frame = frames[Len(frames)]
      /\ function = functions[Runs(frame, heap)]
  BY AtInstruction
<1>2. Counts' /\ Result' /\ functions' = functions
  BY DEF IInv, Counts, Result, fixedV, resultV, CleanExit
<1>3. frames' = MoveTo(frames, frame.ip + n) /\ FramesOK(frames, heap) /\ Len(frames) >= 1
  BY <1>1 DEF ip_plus, MoveTo, IInv
<1>4. FramesOK(frames', heap')
  BY <1>3, MovedFrames, GrowRoots
<1>5. \A u \in open_upvalues' :
        /\ heap'[u].location \in Nat
        /\ heap'[u].location <= frame.slot_base =>
             u \in open_upvalues /\ heap'[u].location = heap[u].location
        /\ frame.slot_base < heap'[u].location =>
             heap'[u].location - frame.slot_base - 1 \in
               CapturedAfter(functions, function, frame.ip, here)
  <2>1. Len(stack') \in Nat
    BY ListLength DEF ValuesOK
  <2>2. \A u \in open_upvalues' : heap'[u].location \in Nat
    BY <2>1 DEF OpenOK
  <2> QED
    BY <2>2
<1>6. Running(Len(stack'), frames', open_upvalues', heap', functions)
  BY <1>1, <1>3, <1>5, Advance DEF IInv, here
<1> QED
  BY <1>2, <1>4, <1>6 DEF IInv

\* OpCloseUpvalue closes the upvalue at the top of the stack, if there is one, and
\* drops the value.
LEMMA CloseUpvalueIInv == ASSUME IInv, UNCHANGED fixedV, OpCloseUpvalue PROVE IInv'
<1>1. /\ status = "running" /\ byte(0) = "CloseUpvalue" /\ close_upvalues(Len(stack))
      /\ stack' = popped(1) /\ frames' = ip_plus(1) /\ globals' = globals /\ born' = born
      /\ allocations_since_gc' = allocations_since_gc /\ UNCHANGED resultV
  BY DEF OpCloseUpvalue, Fetch
<1>2. /\ VerifiedScript(functions, ByteSize) /\ Len(stack) \in Nat
      /\ frame = frames[Len(frames)] /\ frame.slot_base \in Nat
      /\ Len(stack) = frame.slot_base + here.height /\ OpAt(function, frame.ip) = "CloseUpvalue"
  BY <1>1, AtInstruction
<1>3. Shaped(functions, function, frame.ip, ByteSize, 1, 1, -1)
  BY <1>2, ShapePop
<1>4. ValuesOK(popped(1), heap) /\ Len(popped(1)) = Len(stack) - 1
  BY <1>1, <1>3, Taken
<1>5. Len(popped(1)) = Len(stack) + -1
  BY <1>2, <1>4
<1>6. /\ Grows(heap, heap') /\ HeapOK(heap', functions, born)
      /\ open_upvalues' = {u \in open_upvalues : ~(heap[u].location >= Len(stack))}
      /\ Open(heap') = open_upvalues' /\ \A u \in open_upvalues' : heap'[u] = heap[u]
  BY <1>1, CloseUpvalues
<1>7. /\ born \in Nat /\ allocations_since_gc \in 0 .. born /\ GlobalsOK(globals, heap)
      /\ OpenOK(open_upvalues, heap, Len(stack))
  BY DEF IInv, Counts
<1>8. ValuesOK(stack', heap') /\ GlobalsOK(globals', heap')
  BY <1>1, <1>4, <1>6, <1>7, GrowRoots
<1>9. OpenOK(open_upvalues', heap', Len(stack'))
  <2>1. \A u \in open_upvalues' : heap'[u].location \in 1 .. Len(stack')
    BY <1>1, <1>2, <1>4, <1>6, <1>7 DEF OpenOK
  <2> QED
    BY <2>1, <1>6, <1>7 DEF OpenOK
<1>10. CapturedAfter(functions, function, frame.ip, here) = here.captured \ {here.height - 1}
  BY <1>2 DEF CapturedAfter
<1>11. \A u \in open_upvalues : frame.slot_base < heap[u].location =>
          heap[u].location - frame.slot_base - 1 \in here.captured
  BY <1>1, <1>2, TopFrame DEF IInv, here
<1>12. here.height \in Nat
  BY <1>1, Operands
<1>13. ASSUME NEW u \in open_upvalues', frame.slot_base < heap'[u].location
       PROVE  heap'[u].location - frame.slot_base - 1 \in
                CapturedAfter(functions, function, frame.ip, here)
  <2>1. /\ u \in open_upvalues /\ heap'[u].location = heap[u].location
        /\ ~(heap[u].location >= Len(stack)) /\ heap[u].location \in 1 .. Len(stack)
    BY <1>6, <1>7 DEF OpenOK
  <2>2. heap[u].location - frame.slot_base - 1 # here.height - 1
    BY <1>2, <1>12, <2>1
  <2> QED
    BY <1>10, <1>11, <1>13, <2>1, <2>2
<1>14. \A u \in open_upvalues' : u \in open_upvalues /\ heap'[u].location = heap[u].location
  BY <1>6
<1> QED
  BY <1>1, <1>3, <1>5, <1>6, <1>7, <1>8, <1>9, <1>13, <1>14, StepOpen DEF Shaped

\* OpReturn drops the frame with its slots, and closes the upvalues at them.
LEMMA ReturnIInv == ASSUME IInv, UNCHANGED fixedV, OpReturn PROVE IInv'
<1>1. /\ status = "running" /\ byte(0) = "Return" /\ close_upvalues(frame.slot_base + 1)
      /\ frames' = SubSeq(frames, 1, Len(frames) - 1) /\ globals' = globals /\ born' = born
      /\ allocations_since_gc' = allocations_since_gc
      /\ Len(frames) = 1 => stack' = popped(2) /\ status' = "Ok" /\ error_message' = error_message
      /\ Len(frames) # 1 =>
           stack' = Append(SubSeq(stack, 1, frame.slot_base), peek(0)) /\ UNCHANGED resultV
  BY DEF OpReturn, Fetch, Front
<1>2. /\ VerifiedScript(functions, ByteSize) /\ Len(stack) \in Nat
      /\ Len(frames) \in Nat \ {0} /\ Len(frames) \in 1 .. Len(frames)
      /\ frame = frames[Len(frames)] /\ frame.slot_base \in Nat
      /\ Runs(frame, heap) \in DOMAIN functions /\ function = functions[Runs(frame, heap)]
      /\ frame.ip \in DOMAIN MapOf(functions, Runs(frame, heap))
      /\ Len(stack) = frame.slot_base + here.height /\ OpAt(function, frame.ip) = "Return"
  BY <1>1, AtInstruction
<1>3. /\ born \in Nat /\ allocations_since_gc \in 0 .. born /\ HeapOK(heap, functions, born)
      /\ ValuesOK(stack, heap) /\ GlobalsOK(globals, heap) /\ FramesOK(frames, heap)
      /\ OpenOK(open_upvalues, heap, Len(stack)) /\ IsList(frames)
      /\ Running(Len(stack), frames, open_upvalues, heap, functions)
  BY <1>1 DEF IInv, Counts, FramesOK
<1>4. /\ Grows(heap, heap') /\ HeapOK(heap', functions, born)
      /\ open_upvalues' = {u \in open_upvalues : ~(heap[u].location >= frame.slot_base + 1)}
      /\ Open(heap') = open_upvalues' /\ \A u \in open_upvalues' : heap'[u] = heap[u]
  BY <1>1, CloseUpvalues
<1>5. \A u \in open_upvalues' :
        /\ u \in open_upvalues /\ heap'[u].location = heap[u].location
        /\ heap'[u].location \in 1 .. frame.slot_base
  BY <1>2, <1>3, <1>4 DEF OpenOK
<1>6. \A u, w \in open_upvalues' : heap'[u].location = heap'[w].location => u = w
  BY <1>3, <1>5 DEF OpenOK
<1>7. GlobalsOK(globals', heap') /\ functions' = functions /\ Counts'
  BY <1>1, <1>3, <1>4, GrowRoots DEF fixedV, Counts, IInv
<1>8. CASE Len(frames) = 1
  <2>1. frame.slot_base = 0 /\ Runs(frame, heap) = Len(functions)
    BY <1>2, <1>3, <1>8 DEF Running
  <2>2. here.height = 2
    BY <1>2, <2>1, VerifiedAt DEF here, At
  <2>3. Len(stack) = 2
    BY <1>2, <2>1, <2>2
  <2>4. stack' = SubSeq(stack, 1, 0) /\ frames' = SubSeq(frames, 1, 0)
    BY <1>1, <1>8, <2>3 DEF popped
  <2>5. stack' = <<>> /\ frames' = <<>>
    BY <2>4
  <2>6. open_upvalues' = {}
    BY <1>5, <2>1
  <2>7. Result'
    BY <1>1, <1>8, <2>5, <2>6 DEF IInv, Result, CleanExit
  <2>8. ValuesOK(stack', heap')
    BY <2>5, ListEmpty DEF ValuesOK
  <2>9. FramesOK(frames', heap')
    BY <2>5, ListEmpty, VmAssumption DEF FramesOK
  <2>10. OpenOK(open_upvalues', heap', Len(stack'))
    BY <1>4, <2>6 DEF OpenOK
  <2>11. status' # "running"
    BY <1>1, <1>8
  <2> QED
    BY <1>1, <1>4, <1>7, <2>7, <2>8, <2>9, <2>10, <2>11 DEF IInv
<1>9. CASE Len(frames) # 1
  <2>1. ValueOK(peek(0), heap) /\ frame.slot_base < Len(stack)
    <3>1. here.height \in Nat /\ Needs(function, frame.ip) \in Nat
          /\ Needs(function, frame.ip) + 1 <= here.height
      BY <1>1, Operands
    <3>2. frame.slot_base < Len(stack) /\ 0 < Len(stack)
      BY <1>2, <3>1
    <3> QED
      BY <3>2, Peek
  <2>2. ValuesOK(SubSeq(stack, 1, frame.slot_base), heap) /\ Len(SubSeq(stack, 1, frame.slot_base)) = frame.slot_base
    BY <1>2, <1>3, <2>1, KeepValues
  <2>3. ValuesOK(stack', heap) /\ Len(stack') = frame.slot_base + 1
    BY <1>1, <1>9, <2>1, <2>2, PushValue
  <2>4. ValuesOK(stack', heap')
    BY <1>4, <2>3, GrowRoots
  <2>5. FramesOK(frames', heap') /\ Running(frame.slot_base + 1, frames', open_upvalues', heap', functions)
    <3>1. \A u \in open_upvalues' : /\ u \in open_upvalues /\ heap'[u].location = heap[u].location
                                    /\ heap'[u].location <= frames[Len(frames)].slot_base
      BY <1>2, <1>5
    <3>2. /\ FramesOK(SubSeq(frames, 1, Len(frames) - 1), heap')
          /\ Running(frames[Len(frames)].slot_base + 1, SubSeq(frames, 1, Len(frames) - 1),
                     open_upvalues', heap', functions)
      BY <1>3, <1>4, <1>9, <3>1, Leave
    <3> QED
      BY <1>1, <1>2, <3>2
  <2>6. OpenOK(open_upvalues', heap', Len(stack'))
    <3>1. \A u \in open_upvalues' : heap'[u].location \in 1 .. Len(stack')
      BY <1>2, <1>5, <2>3
    <3> QED
      BY <1>4, <1>6, <3>1 DEF OpenOK
  <2>7. Result' /\ status' = "running"
    BY <1>1, <1>9 DEF IInv, Result, CleanExit, resultV
  <2> QED
    BY <1>1, <1>4, <1>7, <2>3, <2>4, <2>5, <2>6, <2>7 DEF IInv
<1> QED
  BY <1>8, <1>9

\* What the operands of a Closure name.
LEMMA ClosureOperands ==
  ASSUME IInv, status = "running", byte(0) = "Closure"
  PROVE  LET fn == string(1)
             count == functions[fn].upvalue_count
         IN  /\ fn \in DOMAIN functions /\ count \in Nat
             /\ Shaped(functions, function, frame.ip, ByteSize, 2 + 2 * count, 0, 1)
             /\ \A k \in 1 .. count :
                  /\ byte(2 * k + 1) \in 0 .. ByteSize - 1
                  /\ byte(2 * k) # 0 =>
                       /\ byte(2 * k + 1) \in CapturedBy(functions, function, frame.ip)
                       /\ byte(2 * k + 1) <= here.height
                  /\ byte(2 * k) = 0 => byte(2 * k + 1) + 1 \in 1 .. function.upvalue_count
<1> DEFINE fn == string(1)
<1> DEFINE count == functions[fn].upvalue_count
<1>1. /\ VerifiedScript(functions, ByteSize) /\ OpAt(function, frame.ip) = "Closure"
      /\ \A n : byte(n) = OperandAt(function, frame.ip, n)
      /\ Runs(frame, heap) \in DOMAIN functions /\ function = functions[Runs(frame, heap)]
      /\ Works(functions, function, frame.ip, ByteSize, here)
  BY AtInstruction
<1>2. ClosureFunction(functions, function, frame.ip) = functions[fn]
  BY <1>1 DEF ClosureFunction, string, constant
<1>3. OperandsExist(functions, function, frame.ip)
  BY <1>1 DEF Works
<1>4. fn \in DOMAIN functions
  BY <1>1, <1>3 DEF OperandsExist, string, constant
<1>5. count \in Nat /\ function.upvalue_count \in Nat
  BY <1>1, <1>4, VerifiedEntry
<1>6. Shaped(functions, function, frame.ip, ByteSize, 2 + 2 * count, 0, 1)
  BY <1>1, <1>2, ShapePush
<1>7. ASSUME NEW k \in 1 .. count
      PROVE  /\ byte(2 * k + 1) \in 0 .. ByteSize - 1
             /\ byte(2 * k) # 0 =>
                  /\ byte(2 * k + 1) \in CapturedBy(functions, function, frame.ip)
                  /\ byte(2 * k + 1) <= here.height
             /\ byte(2 * k) = 0 => byte(2 * k + 1) + 1 \in 1 .. function.upvalue_count
  <2>1. Width(functions, function, frame.ip) = 2 + 2 * count
    BY <1>6 DEF Shaped
  <2>2. 2 * k + 1 \in 1 .. (2 + 2 * count) - 1
    BY <1>5
  <2>3. byte(2 * k + 1) \in 0 .. ByteSize - 1
    BY <1>1, <2>1, <2>2, OperandsAreBytes
  <2>4. /\ byte(2 * k) \in {0, 1}
        /\ byte(2 * k) = 0 => byte(2 * k + 1) < function.upvalue_count
    BY <1>1, <1>2, <1>3 DEF OperandsExist
  <2>5. byte(2 * k) = 0 => byte(2 * k + 1) + 1 \in 1 .. function.upvalue_count
    BY <1>5, <2>3, <2>4, VmAssumption
  <2>6. byte(2 * k) # 0 => byte(2 * k + 1) \in CapturedBy(functions, function, frame.ip)
    BY <1>1, <1>2, <2>4 DEF CapturedBy
  <2>7. \A s \in CapturedBy(functions, function, frame.ip) : s <= here.height
    BY <1>1 DEF Works
  <2> QED
    BY <2>3, <2>5, <2>6, <2>7
<1> QED
  BY <1>4, <1>5, <1>6, <1>7

\* The names given in one Closure are few enough for the room left between one
\* object and the next.
LEMMA FewCreated ==
  ASSUME NEW T, T \subseteq 0 .. ByteSize - 1
  PROVE  Cardinality(T) \in 0 .. ByteSize
<1>1. IsFiniteSet(0 .. ByteSize - 1) /\ Cardinality(0 .. ByteSize - 1) = ByteSize
  BY VmAssumption, FS_Interval
<1>2. Cardinality(T) <= Cardinality(0 .. ByteSize - 1) /\ IsFiniteSet(T)
  BY <1>1, FS_Subset
<1>3. Cardinality(T) \in Nat
  BY <1>2, FS_CardinalityType
<1> QED
  BY <1>1, <1>2, <1>3, VmAssumption

\* OpClosure opens an upvalue for each local that had none, and the closure gets
\* upvalues only.
LEMMA ClosureIInv == ASSUME IInv, UNCHANGED fixedV, OpClosure PROVE IInv'
<1> DEFINE fn == string(1)
           count == functions[fn].upvalue_count
           is_local(k) == byte(2 * k) # 0
           index(k) == byte(2 * k + 1)
           created == {index(k) : k \in {j \in 1 .. count : is_local(j) /\ opened(slot(index(j))) = {}}}
           upvalues == [k \in 1 .. count |-> IF is_local(k) THEN capture_upvalue(index(k))
                                             ELSE heap[frame.closure].upvalues[index(k) + 1]]
           opening == {born + 2 + i : i \in created}
<1>1. /\ status = "running" /\ byte(0) = "Closure"
      /\ heap' = [o \in DOMAIN heap \cup {born + 1} \cup opening |->
                    CASE o \in opening  -> ObjUpvalue(slot(o - born - 2), Nil, FALSE)
                      [] o = born + 1   -> ObjClosure(fn, upvalues)
                      [] OTHER          -> heap[o]]
      /\ born' = born + 1 + ByteSize
      /\ allocations_since_gc' = allocations_since_gc + 1 + Cardinality(created)
      /\ open_upvalues' = open_upvalues \cup opening
      /\ stack' = Append(stack, <<"Closure", born + 1>>)
      /\ frames' = ip_plus(2 + 2 * count)
      /\ globals' = globals /\ UNCHANGED resultV
  BY DEF OpClosure, Fetch
<1>2. /\ fn \in DOMAIN functions /\ count \in Nat
      /\ Shaped(functions, function, frame.ip, ByteSize, 2 + 2 * count, 0, 1)
      /\ \A k \in 1 .. count :
           /\ index(k) \in 0 .. ByteSize - 1
           /\ is_local(k) => index(k) \in CapturedBy(functions, function, frame.ip) /\ index(k) <= here.height
           /\ ~is_local(k) => index(k) + 1 \in 1 .. function.upvalue_count
  BY <1>1, ClosureOperands
<1>3. /\ IsA(frame.closure, "Closure", heap) /\ function = functions[Runs(frame, heap)]
      /\ frame.slot_base \in Nat /\ Len(stack) \in Nat /\ Len(stack) = frame.slot_base + here.height
      /\ OpAt(function, frame.ip) = "Closure" /\ frame = frames[Len(frames)]
      /\ VerifiedScript(functions, ByteSize)
  BY <1>1, AtInstruction
<1>4. /\ born \in Nat /\ allocations_since_gc \in 0 .. born /\ HeapOK(heap, functions, born)
      /\ DOMAIN heap \subseteq 1 .. born
      /\ ValuesOK(stack, heap) /\ GlobalsOK(globals, heap)
      /\ OpenOK(open_upvalues, heap, Len(stack))
  BY DEF IInv, Counts, HeapOK
<1>5. here.height \in Nat /\ ByteSize \in Nat \ {0}
  BY <1>1, Operands, VmAssumption
<1>6. \A i \in created :
        /\ i \in 0 .. ByteSize - 1 /\ i <= here.height /\ opened(slot(i)) = {}
        /\ i \in CapturedBy(functions, function, frame.ip)
  BY <1>2
<1>7. \A k \in 1 .. count : is_local(k) /\ opened(slot(index(k))) = {} => index(k) \in created
  OBVIOUS
<1>8. \A k \in 1 .. count :
        \/ is_local(k) /\ upvalues[k] = capture_upvalue(index(k))
        \/ ~is_local(k) /\ upvalues[k] = heap[frame.closure].upvalues[index(k) + 1]
  OBVIOUS
<1>9. DOMAIN upvalues = 1 .. count
  OBVIOUS
<1> HIDE DEF created, upvalues, fn, count, is_local, index
<1>10. \A o \in opening : /\ o - born - 2 \in created /\ o \in born + 2 .. born + 1 + ByteSize
                          /\ o \notin DOMAIN heap /\ o # born + 1
  BY <1>4, <1>5, <1>6
<1>11. \A i \in created : born + 2 + i \in opening /\ (born + 2 + i) - born - 2 = i
  BY <1>4, <1>5, <1>6
<1> HIDE DEF opening
<1>12. /\ DOMAIN heap' = DOMAIN heap \cup {born + 1} \cup opening
       /\ heap'[born + 1] = ObjClosure(fn, upvalues)
       /\ \A o \in opening : heap'[o] = ObjUpvalue(slot(o - born - 2), Nil, FALSE)
       /\ \A o \in DOMAIN heap : heap'[o] = heap[o]
  <2>1. born + 1 \notin DOMAIN heap /\ born + 1 \notin opening
    BY <1>4, <1>10
  <2> QED
    BY <1>1, <1>10, <2>1
<1>13. Grows(heap, heap')
  BY <1>12 DEF Grows
<1>14. /\ heap'[born + 1].type = "Closure" /\ heap'[born + 1].function = fn
       /\ heap'[born + 1].upvalues = upvalues
  BY <1>12 DEF ObjClosure
<1>15. \A o \in opening : /\ heap'[o].type = "Upvalue" /\ heap'[o].is_closed = FALSE /\ heap'[o].closed = Nil
                          /\ heap'[o].location = slot(o - born - 2)
  BY <1>12 DEF ObjUpvalue
<1>16. \A k \in 1 .. count : IsA(upvalues[k], "Upvalue", heap')
  <2> SUFFICES ASSUME NEW k \in 1 .. count PROVE IsA(upvalues[k], "Upvalue", heap')
    OBVIOUS
  <2>1. CASE ~is_local(k)
    <3>1. index(k) + 1 \in 1 .. function.upvalue_count
      BY <1>2, <2>1
    <3>2. /\ DOMAIN heap[frame.closure].upvalues = 1 .. function.upvalue_count
          /\ \A n \in DOMAIN heap[frame.closure].upvalues :
               IsA(heap[frame.closure].upvalues[n], "Upvalue", heap)
      BY <1>3, <1>4 DEF HeapOK, ObjectOK, IsA, Runs
    <3>3. IsA(heap[frame.closure].upvalues[index(k) + 1], "Upvalue", heap)
      BY <3>1, <3>2
    <3> QED
      BY <1>8, <1>13, <2>1, <3>3, GrowIsA
  <2>2. CASE is_local(k) /\ opened(slot(index(k))) # {}
    <3>1. upvalues[k] \in opened(slot(index(k)))
      BY <1>8, <2>2 DEF capture_upvalue
    <3>2. IsA(upvalues[k], "Upvalue", heap)
      BY <3>1, <1>4 DEF opened, OpenOK, Open, IsA
    <3> QED
      BY <1>13, <3>2, GrowIsA
  <2>3. CASE is_local(k) /\ opened(slot(index(k))) = {}
    <3>1. upvalues[k] = born + 2 + index(k)
      BY <1>8, <2>3 DEF capture_upvalue
    <3>2. upvalues[k] \in opening
      BY <1>7, <1>11, <2>3, <3>1
    <3> QED
      BY <1>12, <1>15, <3>2 DEF IsA
  <2> QED
    BY <2>1, <2>2, <2>3
<1>17. HeapOK(heap', functions, born')
  <2>1. ObjectOK(heap'[born + 1], heap', functions)
    BY <1>2, <1>9, <1>14, <1>16 DEF ObjectOK, HeapTags, PointerTags, count
  <2>2. \A o \in opening : ObjectOK(heap'[o], heap', functions)
    BY <1>15, PlainValues DEF ObjectOK, HeapTags
  <2>3. \A o \in DOMAIN heap : ObjectOK(heap'[o], heap', functions)
    BY <1>4, <1>12, <1>13, GrowObject DEF HeapOK
  <2>4. DOMAIN heap' \subseteq 1 .. born'
    BY <1>1, <1>4, <1>5, <1>10, <1>12
  <2> QED
    BY <1>12, <2>1, <2>2, <2>3, <2>4 DEF HeapOK
<1>18. ValuesOK(stack', heap') /\ GlobalsOK(globals', heap') /\ Len(stack') = Len(stack) + 1
  <2>1. ValuesOK(stack, heap') /\ GlobalsOK(globals', heap')
    BY <1>1, <1>4, <1>13, GrowRoots
  <2>2. ValueOK(<<"Closure", born + 1>>, heap')
    BY <1>12, <1>14 DEF ValueOK, IsA
  <2> QED
    BY <1>1, <2>1, <2>2, PushValue
<1>19. open_upvalues' = Open(heap')
  <2>1. Open(heap) = open_upvalues
    BY <1>4 DEF OpenOK
  <2> QED
    BY <1>1, <1>12, <1>14, <1>15, <2>1 DEF Open
<1>20. \A u \in open_upvalues : u \in DOMAIN heap /\ heap'[u].location = heap[u].location
                                /\ heap[u].location \in 1 .. Len(stack)
  BY <1>4, <1>12 DEF OpenOK, Open
<1>21. ASSUME NEW o \in opening
       PROVE  /\ heap'[o].location \in 1 .. Len(stack) + 1
              /\ frame.slot_base < heap'[o].location
              /\ heap'[o].location - frame.slot_base - 1 = o - born - 2
  <2> DEFINE i == o - born - 2
             base == frame.slot_base
             height == here.height
  <2>1. heap'[o].location = base + i + 1
    BY <1>15 DEF slot
  <2>2. i \in Nat /\ i <= height /\ base \in Nat /\ height \in Nat /\ Len(stack) = base + height
    BY <1>3, <1>5, <1>6, <1>10
  <2> HIDE DEF i, base, height
  <2>3. base + i + 1 \in 1 .. (base + height) + 1 /\ base < base + i + 1 /\ (base + i + 1) - base - 1 = i
    BY <2>2
  <2>4. /\ heap'[o].location \in 1 .. Len(stack) + 1 /\ base < heap'[o].location
        /\ heap'[o].location - base - 1 = i
    BY <2>1, <2>2, <2>3
  <2> QED
    BY <2>4 DEF i, base
<1>22. OpenOK(open_upvalues', heap', Len(stack'))
  <2> DEFINE n == Len(stack)
  <2>1. n \in Nat /\ Len(stack') = n + 1 /\ open_upvalues' = open_upvalues \cup opening
    BY <1>1, <1>3, <1>18
  <2>2. \A u \in open_upvalues : heap'[u].location \in 1 .. n
    BY <1>20
  <2>3. \A u \in opening : heap'[u].location \in 1 .. n + 1
    BY <1>21
  <2> HIDE DEF n
  <2>4. \A u \in open_upvalues' : heap'[u].location \in 1 .. Len(stack')
    BY <2>1, <2>2, <2>3
  <2>5. \A u, w \in open_upvalues : heap'[u].location = heap'[w].location => u = w
    BY <1>4, <1>20 DEF OpenOK
  <2>6. \A u, w \in opening : heap'[u].location = heap'[w].location => u = w
    BY <1>3, <1>4, <1>10, <1>21
  <2>7. \A u \in open_upvalues, w \in opening : heap'[u].location # heap'[w].location
    BY <1>6, <1>10, <1>15, <1>20 DEF opened
  <2>8. \A u, w \in open_upvalues' : heap'[u].location = heap'[w].location => u = w
    BY <2>1, <2>5, <2>6, <2>7
  <2> QED
    BY <1>19, <2>4, <2>8 DEF OpenOK
<1>23. born' \in Nat /\ allocations_since_gc' \in 0 .. born'
  <2>1. Cardinality(created) \in 0 .. ByteSize
    BY <1>6, FewCreated
  <2> QED
    BY <1>1, <1>4, <1>5, <2>1
<1>24. CapturedAfter(functions, function, frame.ip, here) =
         here.captured \cup CapturedBy(functions, function, frame.ip)
  BY <1>3 DEF CapturedAfter
<1>25. \A u \in open_upvalues : frame.slot_base < heap[u].location =>
          heap[u].location - frame.slot_base - 1 \in here.captured
  BY <1>1, <1>3, TopFrame DEF IInv, here
<1>26. \A u \in open_upvalues' :
           /\ heap'[u].location <= frame.slot_base =>
                u \in open_upvalues /\ heap'[u].location = heap[u].location
           /\ frame.slot_base < heap'[u].location =>
                heap'[u].location - frame.slot_base - 1 \in
                  CapturedAfter(functions, function, frame.ip, here)
  <2>1. \A u \in opening : /\ ~(heap'[u].location <= frame.slot_base)
                           /\ heap'[u].location - frame.slot_base - 1 \in CapturedBy(functions, function, frame.ip)
    BY <1>3, <1>6, <1>10, <1>21
  <2> QED
    BY <1>1, <1>20, <1>24, <1>25, <2>1
<1>27. Len(stack') = Len(stack) + Effect(function, frame.ip)
  BY <1>2, <1>18 DEF Shaped
<1>28. frame.ip + (2 + 2 * count) \in Successors(functions, function, frame.ip, ByteSize)
  BY <1>2 DEF Shaped
<1> QED
  BY <1>1, <1>13, <1>17, <1>18, <1>22, <1>23, <1>26, <1>27, <1>28, StepOpen

-----------------------------------------------------------------------------
(***************************************************************************)
(* Classes, properties and methods.                                        *)
(***************************************************************************)
\* An instruction of n cells allocates an object that is no upvalue and leaves
\* a stack of the height the code says.
LEMMA AllocatesIInv ==
  ASSUME IInv, status = "running", UNCHANGED fixedV, UNCHANGED resultV,
         globals' = globals, open_upvalues' = open_upvalues,
         NEW obj, allocate(obj), ObjectOK(obj, heap, functions), obj.type # "Upvalue",
         ValuesOK(stack', heap'), byte(0) \notin {"Closure", "CloseUpvalue"},
         Len(stack') = Len(stack) + Effect(function, frame.ip),
         NEW n, frames' = ip_plus(n),
         frame.ip + n \in Successors(functions, function, frame.ip, ByteSize)
  PROVE  IInv'
<1>1. /\ born' = born + 1 /\ allocations_since_gc' = allocations_since_gc + 1
      /\ heap' = Put(heap, born + 1, obj)
  BY DEF allocate
<1>2. /\ born \in Nat /\ allocations_since_gc \in 0 .. born /\ HeapOK(heap, functions, born)
      /\ GlobalsOK(globals, heap) /\ OpenOK(open_upvalues, heap, Len(stack))
  BY DEF IInv, Counts
<1>3. born' \in Nat /\ allocations_since_gc' \in 0 .. born'
  BY <1>1, <1>2
<1>4. /\ Grows(heap, heap') /\ HeapOK(heap', functions, born') /\ Open(heap') = Open(heap)
      /\ \A o \in DOMAIN heap : heap'[o] = heap[o]
  BY <1>1, <1>2, PutObject
<1>5. \A u \in open_upvalues : heap'[u].location = heap[u].location
  BY <1>2, <1>4 DEF OpenOK, Open
<1>6. GlobalsOK(globals', heap')
  BY <1>2, <1>4, GrowRoots
<1> QED
  BY <1>3, <1>4, <1>5, <1>6, Step

\* The object that is allocated, as a value.
LEMMA AllocatedValue ==
  ASSUME IInv, NEW obj, allocate(obj), ObjectOK(obj, heap, functions), obj.type # "Upvalue"
  PROVE  /\ ValueOK(<<obj.type, born + 1>>, heap') /\ Grows(heap, heap')
         /\ \A stk : ValuesOK(stk, heap) => ValuesOK(stk, heap')
<1>1. heap' = Put(heap, born + 1, obj) /\ born \in Nat /\ HeapOK(heap, functions, born)
  BY DEF allocate, IInv, Counts
<1>2. Grows(heap, heap') /\ born + 1 \in DOMAIN heap' /\ heap'[born + 1] = obj
  BY <1>1, PutObject
<1>3. ValueOK(<<obj.type, born + 1>>, heap')
  BY <1>2 DEF ValueOK, IsA
<1> QED
  BY <1>2, <1>3, GrowRoots

\* The objects that the machine makes out of good parts are good.
LEMMA MadeObjects ==
  ASSUME NEW h, NEW fns
  PROVE  /\ \A name : ObjectOK(ObjClass(name, EmptyMap), h, fns)
         /\ \A name : \A methods : (\A m \in DOMAIN methods : IsA(methods[m], "Closure", h)) =>
              ObjectOK(ObjClass(name, methods), h, fns)
         /\ \A klass : \A fields :
              IsA(klass, "Class", h) /\ (\A f \in DOMAIN fields : ValueOK(fields[f], h)) =>
                ObjectOK(ObjInstance(klass, fields), h, fns)
         /\ \A klass : IsA(klass, "Class", h) => ObjectOK(ObjInstance(klass, EmptyMap), h, fns)
         /\ \A receiver : \A method :
              ValueOK(receiver, h) /\ IsA(method, "Closure", h) =>
                ObjectOK(ObjBoundMethod(receiver, method), h, fns)
<1>1. \A name : \A methods : (\A m \in DOMAIN methods : IsA(methods[m], "Closure", h)) =>
        ObjectOK(ObjClass(name, methods), h, fns)
  BY DEF ObjectOK, ObjClass, HeapTags, PointerTags
<1>2. \A klass : \A fields :
        IsA(klass, "Class", h) /\ (\A f \in DOMAIN fields : ValueOK(fields[f], h)) =>
          ObjectOK(ObjInstance(klass, fields), h, fns)
  BY DEF ObjectOK, ObjInstance, HeapTags, PointerTags
<1>3. \A receiver : \A method :
        ValueOK(receiver, h) /\ IsA(method, "Closure", h) =>
          ObjectOK(ObjBoundMethod(receiver, method), h, fns)
  BY DEF ObjectOK, ObjBoundMethod, HeapTags, PointerTags
<1>4. DOMAIN EmptyMap = {}
  BY DEF EmptyMap
<1> QED
  BY <1>1, <1>2, <1>3, <1>4

\* OpClass pushes a new class without methods.
LEMMA ClassIInv == ASSUME IInv, UNCHANGED fixedV, OpClass PROVE IInv'
<1> DEFINE obj == ObjClass(string(1), EmptyMap)
<1>1. /\ status = "running" /\ byte(0) = "Class" /\ allocate(obj) /\ frames' = ip_plus(2)
      /\ stack' = Append(stack, <<"Class", born + 1>>)
      /\ globals' = globals /\ open_upvalues' = open_upvalues /\ UNCHANGED resultV
  BY DEF OpClass, Fetch
<1>2. Shaped(functions, function, frame.ip, ByteSize, 2, 0, 1)
  BY <1>1, AtInstruction, ShapePush
<1>3. obj.type = "Class"
  BY DEF ObjClass
<1>4. ObjectOK(obj, heap, functions)
  BY MadeObjects
<1> HIDE DEF obj
<1>5. ValueOK(<<"Class", born + 1>>, heap') /\ ValuesOK(stack, heap')
  BY <1>1, <1>3, <1>4, AllocatedValue DEF IInv
<1>6. ValuesOK(stack', heap') /\ Len(stack') = Len(stack) + 1
  BY <1>1, <1>5, PushValue
<1> QED
  BY <1>1, <1>2, <1>3, <1>4, <1>6, AllocatesIInv DEF Shaped

\* An instruction reports an error after it has changed the stack.
LEMMA ErrorWithIInv ==
  ASSUME IInv, status = "running", UNCHANGED fixedV, UNCHANGED gcV,
         globals' = globals, open_upvalues' = open_upvalues,
         NEW message, message # "", runtime_error(message), NEW n, frames' = ip_plus(n),
         ValuesOK(stack', heap), \A u \in open_upvalues : heap[u].location \in 1 .. Len(stack')
  PROVE  IInv'
<1>1. heap' = heap /\ born' = born /\ allocations_since_gc' = allocations_since_gc
  BY DEF gcV
<1>2. /\ born \in Nat /\ allocations_since_gc \in 0 .. born /\ HeapOK(heap, functions, born)
      /\ GlobalsOK(globals, heap) /\ OpenOK(open_upvalues, heap, Len(stack))
  BY DEF IInv, Counts
<1>3. OpenOK(open_upvalues, heap, Len(stack'))
  BY <1>2 DEF OpenOK
<1>4. FramesOK(ip_plus(n), heap)
  BY IpPlus
<1> QED
  BY <1>1, <1>2, <1>3, <1>4, Stopped

\* bind_method puts a bound method in the place of its receiver, or stops.
LEMMA BindMethodIInv ==
  ASSUME IInv, status = "running", UNCHANGED fixedV,
         globals' = globals, open_upvalues' = open_upvalues,
         byte(0) \notin {"Closure", "CloseUpvalue"},
         NEW klass, NEW name, NEW stk, bind_method(klass, name, stk),
         IsA(klass, "Class", heap), ValuesOK(stk, heap), Len(stk) >= 1,
         Len(stk) = Len(stack) + Effect(function, frame.ip),
         \A u \in open_upvalues : heap[u].location \in 1 .. Len(stk),
         frame.ip + 2 \in Successors(functions, function, frame.ip, ByteSize)
  PROVE  IInv'
<1>1. frames' = ip_plus(2)
  BY DEF bind_method
<1>2. CASE name \notin DOMAIN heap[klass].methods
  <2>1. runtime_error("undefined property") /\ stack' = stk /\ UNCHANGED gcV
    BY <1>2 DEF bind_method
  <2> QED
    BY <1>1, <2>1, ErrorWithIInv
<1>3. CASE name \in DOMAIN heap[klass].methods
  <2> DEFINE obj == ObjBoundMethod(stk[Len(stk)], heap[klass].methods[name])
             front == SubSeq(stk, 1, Len(stk) - 1)
  <2>1. /\ allocate(obj) /\ stack' = Append(front, <<"BoundMethod", born + 1>>)
        /\ UNCHANGED resultV
    BY <1>3 DEF bind_method, Last, Front
  <2>2. IsList(stk) /\ Len(stk) \in Nat
    BY ListLength DEF ValuesOK
  <2>3. Len(stk) \in 1 .. Len(stk) /\ Len(stk) - 1 \in Nat /\ Len(stk) - 1 <= Len(stk)
    BY <2>2
  <2>4. ValueOK(stk[Len(stk)], heap)
    BY <2>3 DEF ValuesOK
  <2>5. IsA(heap[klass].methods[name], "Closure", heap)
    BY <1>3 DEF IInv, HeapOK, ObjectOK, IsA
  <2>6. ObjectOK(obj, heap, functions)
    BY <2>4, <2>5, MadeObjects
  <2>7. obj.type = "BoundMethod"
    BY DEF ObjBoundMethod
  <2>8. ValuesOK(front, heap) /\ Len(front) = Len(stk) - 1
    BY <2>3, KeepValues
  <2> HIDE DEF obj, front
  <2>9. ValueOK(<<"BoundMethod", born + 1>>, heap') /\ ValuesOK(front, heap')
    BY <2>1, <2>6, <2>7, <2>8, AllocatedValue
  <2>10. ValuesOK(stack', heap') /\ Len(stack') = Len(front) + 1
    BY <2>1, <2>9, PushValue
  <2>11. Len(stack') = Len(stk)
    BY <2>2, <2>8, <2>10
  <2> QED
    BY <1>1, <2>1, <2>6, <2>7, <2>10, <2>11, AllocatesIInv
<1> QED
  BY <1>2, <1>3

\* The class and the fields of an instance, and the methods of a class.
LEMMA InstanceParts ==
  ASSUME IInv, NEW o
  PROVE  /\ IsA(o, "Instance", heap) =>
              /\ IsA(heap[o].klass, "Class", heap)
              /\ \A f \in DOMAIN heap[o].fields : ValueOK(heap[o].fields[f], heap)
         /\ IsA(o, "Class", heap) =>
              \A m \in DOMAIN heap[o].methods : IsA(heap[o].methods[m], "Closure", heap)
         /\ IsA(o, "BoundMethod", heap) =>
              ValueOK(heap[o].receiver, heap) /\ IsA(heap[o].method, "Closure", heap)
BY DEF IInv, HeapOK, ObjectOK, IsA

\* OpGetProperty reads a field or binds a method.
LEMMA GetPropertyIInv == ASSUME IInv, UNCHANGED fixedV, OpGetProperty PROVE IInv'
<1> DEFINE o == peek(0)[2]
           name == string(1)
<1>1. /\ status = "running" /\ byte(0) = "GetProperty"
      /\ globals' = globals /\ open_upvalues' = open_upvalues
  BY DEF OpGetProperty, Fetch
<1>2. Shaped(functions, function, frame.ip, ByteSize, 2, 1, 0)
  BY <1>1, AtInstruction, ShapeLevel
<1>3. /\ Len(stack) \in Nat /\ 1 < Len(stack) /\ ValueOK(peek(0), heap)
      /\ ValuesOK(popped(1), heap) /\ Len(popped(1)) = Len(stack) - 1
  BY <1>1, <1>2, Taken
<1>4. ValuesOK(stack, heap) /\ OpenOK(open_upvalues, heap, Len(stack))
  BY DEF IInv
<1>5. CASE peek(0)[1] # "Instance"
  <2>1. ErrorOp(1, "only instances have properties")
    BY <1>1, <1>5 DEF OpGetProperty, ErrorOp
  <2> QED
    BY <1>1, <2>1, ErrorOpIInv
<1>6. CASE peek(0)[1] = "Instance"
  <2>1. IsA(o, "Instance", heap)
    BY <1>3, <1>6 DEF ValueOK, PointerTags
  <2>2. /\ IsA(heap[o].klass, "Class", heap)
        /\ \A f \in DOMAIN heap[o].fields : ValueOK(heap[o].fields[f], heap)
    BY <2>1, InstanceParts
  <2>3. CASE name \in DOMAIN heap[o].fields
    <3>1. StackOp(2, Append(popped(1), heap[o].fields[name]))
      BY <1>1, <1>6, <2>3 DEF OpGetProperty, StackOp
    <3>2. ValueOK(heap[o].fields[name], heap)
      BY <2>2, <2>3
    <3>3. Shaped(functions, function, frame.ip, ByteSize, 2, 1, 1 - 1)
      BY <1>2
    <3> HIDE DEF o, name
    <3> QED
      BY <1>1, <3>1, <3>2, <3>3, ReplacesIInv
  <2>4. CASE name \notin DOMAIN heap[o].fields
    <3>1. bind_method(heap[o].klass, name, stack)
      BY <1>6, <2>4 DEF OpGetProperty
    <3>2. Len(stack) >= 1 /\ Len(stack) = Len(stack) + Effect(function, frame.ip)
      BY <1>2, <1>3 DEF Shaped
    <3>3. \A u \in open_upvalues : heap[u].location \in 1 .. Len(stack)
      BY <1>4 DEF OpenOK
    <3>4. frame.ip + 2 \in Successors(functions, function, frame.ip, ByteSize)
      BY <1>2 DEF Shaped
    <3> HIDE DEF o, name
    <3> QED
      BY <1>1, <1>4, <2>2, <3>1, <3>2, <3>3, <3>4, BindMethodIInv
  <2> QED
    BY <2>3, <2>4
<1> QED
  BY <1>5, <1>6

\* OpGetSuper binds a method of the superclass it pops.
LEMMA GetSuperIInv == ASSUME IInv, UNCHANGED fixedV, OpGetSuper PROVE IInv'
<1>1. /\ status = "running" /\ byte(0) = "GetSuper" /\ peek(0)[1] = "Class"
      /\ bind_method(peek(0)[2], string(1), popped(1))
      /\ globals' = globals /\ open_upvalues' = open_upvalues
  BY DEF OpGetSuper, Fetch
<1>2. Shaped(functions, function, frame.ip, ByteSize, 2, 2, -1)
  BY <1>1, AtInstruction, ShapePop
<1>3. /\ Len(stack) \in Nat /\ 2 < Len(stack) /\ ValueOK(peek(0), heap)
      /\ ValuesOK(popped(1), heap) /\ Len(popped(1)) = Len(stack) - 1
  BY <1>1, <1>2, Taken
<1>4. IsA(peek(0)[2], "Class", heap)
  BY <1>1, <1>3 DEF ValueOK, PointerTags
<1>5. \A u \in open_upvalues : heap[u].location \in 1 .. Len(stack) - 2
  BY <1>1, <1>2, Operands DEF Shaped
<1>6. Len(popped(1)) >= 1 /\ \A u \in open_upvalues : heap[u].location \in 1 .. Len(popped(1))
  BY <1>3, <1>5
<1>7. Len(popped(1)) = Len(stack) + Effect(function, frame.ip)
  BY <1>2, <1>3 DEF Shaped
<1>8. frame.ip + 2 \in Successors(functions, function, frame.ip, ByteSize)
  BY <1>2 DEF Shaped
<1> QED
  BY <1>1, <1>3, <1>4, <1>6, <1>7, <1>8, BindMethodIInv

\* An instruction of n cells stores into an instance or a class and leaves a stack
\* of the height the code says.
LEMMA StoresIInv ==
  ASSUME IInv, status = "running", UNCHANGED fixedV, UNCHANGED resultV,
         globals' = globals, open_upvalues' = open_upvalues,
         born' = born, allocations_since_gc' = allocations_since_gc,
         NEW x, NEW obj, heap' = [heap EXCEPT ![x] = obj], IsA(x, obj.type, heap),
         ObjectOK(obj, heap, functions), obj.type \in {"Instance", "Class"},
         ValuesOK(stack', heap), byte(0) \notin {"Closure", "CloseUpvalue"},
         Len(stack') = Len(stack) + Effect(function, frame.ip),
         NEW n, frames' = ip_plus(n),
         frame.ip + n \in Successors(functions, function, frame.ip, ByteSize)
  PROVE  IInv'
<1>1. /\ born \in Nat /\ allocations_since_gc \in 0 .. born /\ HeapOK(heap, functions, born)
      /\ GlobalsOK(globals, heap) /\ OpenOK(open_upvalues, heap, Len(stack))
  BY DEF IInv, Counts
<1>2. x \in DOMAIN heap /\ obj.type = heap[x].type /\ obj.type # "Closure" /\ obj.type # "Upvalue"
  BY DEF IsA
<1>3. /\ Grows(heap, heap') /\ HeapOK(heap', functions, born) /\ Open(heap') = Open(heap)
      /\ \A o \in DOMAIN heap : o # x => heap'[o] = heap[o]
  <2> DEFINE k == [heap EXCEPT ![x] = obj]
  <2>1. /\ Grows(heap, k) /\ HeapOK(k, functions, born) /\ (obj.type # "Upvalue" => Open(k) = Open(heap))
        /\ \A o \in DOMAIN heap : o # x => k[o] = heap[o]
    BY <1>1, <1>2, SetObject, Zenon
  <2>2. heap' = k
    OBVIOUS
  <2> HIDE DEF k
  <2> QED
    BY <1>2, <2>1, <2>2
<1>4. \A u \in open_upvalues : heap'[u].location = heap[u].location
  BY <1>1, <1>2, <1>3 DEF OpenOK, Open
<1>5. ValuesOK(stack', heap') /\ GlobalsOK(globals', heap')
  BY <1>1, <1>3, GrowRoots
<1> QED
  BY <1>1, <1>3, <1>4, <1>5, Step

\* OpSetProperty stores a value under a name in an instance.
LEMMA SetPropertyIInv == ASSUME IInv, UNCHANGED fixedV, OpSetProperty PROVE IInv'
<1> DEFINE o == peek(1)[2]
           fields == Put(heap[o].fields, string(1), peek(0))
           obj == ObjInstance(heap[o].klass, fields)
<1>1. /\ status = "running" /\ byte(0) = "SetProperty"
      /\ globals' = globals /\ open_upvalues' = open_upvalues
      /\ born' = born /\ allocations_since_gc' = allocations_since_gc
  BY DEF OpSetProperty, Fetch
<1>2. Shaped(functions, function, frame.ip, ByteSize, 2, 2, -1)
  BY <1>1, AtInstruction, ShapePop
<1>3. /\ Len(stack) \in Nat /\ ValueOK(peek(0), heap) /\ ValueOK(peek(1), heap)
      /\ ValuesOK(popped(2), heap) /\ Len(popped(2)) = Len(stack) - 2
  BY <1>1, <1>2, Taken
<1>4. CASE peek(1)[1] # "Instance"
  <2>1. ErrorOp(1, "only instances have fields")
    BY <1>1, <1>4 DEF OpSetProperty, ErrorOp, gcV
  <2> QED
    BY <1>1, <2>1, ErrorOpIInv
<1>5. CASE peek(1)[1] = "Instance"
  <2>1. /\ heap' = [heap EXCEPT ![o] = obj] /\ stack' = Append(popped(2), peek(0))
        /\ frames' = ip_plus(2) /\ UNCHANGED resultV
    BY <1>5 DEF OpSetProperty
  <2>2. IsA(o, "Instance", heap)
    BY <1>3, <1>5 DEF ValueOK, PointerTags
  <2>3. /\ IsA(heap[o].klass, "Class", heap)
        /\ \A f \in DOMAIN heap[o].fields : ValueOK(heap[o].fields[f], heap)
    BY <2>2, InstanceParts
  <2>4. \A f \in DOMAIN fields : ValueOK(fields[f], heap)
    BY <1>3, <2>3 DEF Put
  <2> HIDE DEF fields
  <2>5. ObjectOK(obj, heap, functions)
    BY <2>3, <2>4, MadeObjects
  <2>6. obj.type = "Instance"
    BY DEF ObjInstance
  <2> HIDE DEF o, obj
  <2>7. ValuesOK(stack', heap) /\ Len(stack') = Len(popped(2)) + 1
    BY <1>3, <2>1, PushValue
  <2>8. Len(stack') = Len(stack) + Effect(function, frame.ip)
    BY <1>2, <1>3, <2>7 DEF Shaped
  <2>9. frame.ip + 2 \in Successors(functions, function, frame.ip, ByteSize)
    BY <1>2 DEF Shaped
  <2> QED
    BY <1>1, <2>1, <2>2, <2>5, <2>6, <2>7, <2>8, <2>9, StoresIInv
<1> QED
  BY <1>4, <1>5

\* OpInherit copies the methods of one class to another.
LEMMA InheritIInv == ASSUME IInv, UNCHANGED fixedV, OpInherit PROVE IInv'
<1> DEFINE from == peek(1)[2]
           o == peek(0)[2]
           methods == CopiedOver(heap[from].methods, heap[o].methods)
           obj == ObjClass(heap[o].name, methods)
<1>1. /\ status = "running" /\ byte(0) = "Inherit"
      /\ globals' = globals /\ open_upvalues' = open_upvalues
      /\ born' = born /\ allocations_since_gc' = allocations_since_gc
  BY DEF OpInherit, Fetch
<1>2. Shaped(functions, function, frame.ip, ByteSize, 1, 2, -1)
  BY <1>1, AtInstruction, ShapePop
<1>3. /\ Len(stack) \in Nat /\ ValueOK(peek(0), heap) /\ ValueOK(peek(1), heap)
      /\ ValuesOK(popped(1), heap) /\ Len(popped(1)) = Len(stack) - 1
  BY <1>1, <1>2, Taken
<1>4. CASE peek(1)[1] # "Class"
  <2>1. ErrorOp(1, "superclass must be a class")
    BY <1>1, <1>4 DEF OpInherit, ErrorOp, gcV
  <2> QED
    BY <1>1, <2>1, ErrorOpIInv
<1>5. CASE peek(1)[1] = "Class"
  <2>1. /\ heap' = [heap EXCEPT ![o] = obj] /\ stack' = popped(1)
        /\ frames' = ip_plus(1) /\ UNCHANGED resultV /\ peek(0)[1] = "Class"
    BY <1>5 DEF OpInherit
  <2>2. IsA(o, "Class", heap) /\ IsA(from, "Class", heap)
    BY <1>3, <1>5, <2>1 DEF ValueOK, PointerTags
  <2>3. /\ \A m \in DOMAIN heap[o].methods : IsA(heap[o].methods[m], "Closure", heap)
        /\ \A m \in DOMAIN heap[from].methods : IsA(heap[from].methods[m], "Closure", heap)
    BY <2>2, InstanceParts
  <2>4. \A m \in DOMAIN methods : IsA(methods[m], "Closure", heap)
    BY <2>3 DEF CopiedOver
  <2> HIDE DEF methods
  <2>5. ObjectOK(obj, heap, functions)
    BY <2>4, MadeObjects
  <2>6. obj.type = "Class"
    BY DEF ObjClass
  <2> HIDE DEF o, obj
  <2>7. ValuesOK(stack', heap) /\ Len(stack') = Len(stack) + Effect(function, frame.ip)
    BY <1>2, <1>3, <2>1 DEF Shaped
  <2>8. frame.ip + 1 \in Successors(functions, function, frame.ip, ByteSize)
    BY <1>2 DEF Shaped
  <2> QED
    BY <1>1, <2>1, <2>2, <2>5, <2>6, <2>7, <2>8, StoresIInv
<1> QED
  BY <1>4, <1>5

\* OpMethod stores a closure under a name in a class.
LEMMA MethodIInv == ASSUME IInv, UNCHANGED fixedV, OpMethod PROVE IInv'
<1> DEFINE o == peek(1)[2]
           methods == Put(heap[o].methods, string(1), peek(0)[2])
           obj == ObjClass(heap[o].name, methods)
<1>1. /\ status = "running" /\ byte(0) = "Method" /\ peek(0)[1] = "Closure" /\ peek(1)[1] = "Class"
      /\ heap' = [heap EXCEPT ![o] = obj] /\ stack' = popped(1) /\ frames' = ip_plus(2)
      /\ globals' = globals /\ open_upvalues' = open_upvalues /\ UNCHANGED resultV
      /\ born' = born /\ allocations_since_gc' = allocations_since_gc
  BY DEF OpMethod, add_method, Fetch
<1>2. Shaped(functions, function, frame.ip, ByteSize, 2, 2, -1)
  BY <1>1, AtInstruction, ShapePop
<1>3. /\ Len(stack) \in Nat /\ ValueOK(peek(0), heap) /\ ValueOK(peek(1), heap)
      /\ ValuesOK(popped(1), heap) /\ Len(popped(1)) = Len(stack) - 1
  BY <1>1, <1>2, Taken
<1>4. IsA(o, "Class", heap) /\ IsA(peek(0)[2], "Closure", heap)
  BY <1>1, <1>3 DEF ValueOK, PointerTags
<1>5. \A m \in DOMAIN heap[o].methods : IsA(heap[o].methods[m], "Closure", heap)
  BY <1>4, InstanceParts
<1>6. \A m \in DOMAIN methods : IsA(methods[m], "Closure", heap)
  BY <1>4, <1>5 DEF Put
<1> HIDE DEF methods
<1>7. ObjectOK(obj, heap, functions)
  BY <1>6, MadeObjects
<1>8. obj.type = "Class"
  BY DEF ObjClass
<1> HIDE DEF o, obj
<1>9. ValuesOK(stack', heap) /\ Len(stack') = Len(stack) + Effect(function, frame.ip)
  BY <1>1, <1>2, <1>3 DEF Shaped
<1>10. frame.ip + 2 \in Successors(functions, function, frame.ip, ByteSize)
  BY <1>2 DEF Shaped
<1> QED
  BY <1>1, <1>4, <1>7, <1>8, <1>9, <1>10, StoresIInv

-----------------------------------------------------------------------------
(***************************************************************************)
(* Collections.                                                            *)
(***************************************************************************)
\* What blacken marks: the objects that the pointers in a good object lead to.
LEMMA BlackenMarks ==
  ASSUME NEW h, NEW fns, NEW o, ObjectOK(o, h, fns)
  PROVE  /\ blacken(o) \subseteq DOMAIN h
         /\ o.type = "Upvalue" => mark_value_obj(o.closed) \subseteq blacken(o)
         /\ o.type = "Closure" => \A k \in DOMAIN o.upvalues : o.upvalues[k] \in blacken(o)
         /\ o.type = "Class" => \A m \in DOMAIN o.methods : o.methods[m] \in blacken(o)
         /\ o.type = "Instance" =>
              /\ o.klass \in blacken(o)
              /\ \A f \in DOMAIN o.fields : mark_value_obj(o.fields[f]) \subseteq blacken(o)
         /\ o.type = "BoundMethod" =>
              mark_value_obj(o.receiver) \subseteq blacken(o) /\ o.method \in blacken(o)
<1>1. \A v : ValueOK(v, h) => mark_value_obj(v) \subseteq DOMAIN h
  BY DEF ValueOK, IsA, mark_value_obj
<1>2. o.type \in {"Upvalue", "Closure", "Class", "Instance", "BoundMethod"}
  BY DEF ObjectOK, HeapTags, PointerTags
<1>3. CASE o.type = "Upvalue"
  <2>1. blacken(o) = mark_value_obj(o.closed)
    BY <1>3 DEF blacken
  <2> QED
    BY <1>1, <1>3, <2>1 DEF ObjectOK
<1>4. CASE o.type = "Closure"
  <2>1. blacken(o) = {o.upvalues[k] : k \in DOMAIN o.upvalues}
    BY <1>4 DEF blacken, Range
  <2> QED
    BY <1>4, <2>1 DEF ObjectOK, IsA
<1>5. CASE o.type = "Class"
  <2>1. blacken(o) = {o.methods[k] : k \in DOMAIN o.methods}
    BY <1>5 DEF blacken, Range
  <2> QED
    BY <1>5, <2>1 DEF ObjectOK, IsA
<1>6. CASE o.type = "Instance"
  <2>1. blacken(o) = {o.klass} \cup UNION {mark_value_obj(v) : v \in {o.fields[f] : f \in DOMAIN o.fields}}
    BY <1>6 DEF blacken, Range
  <2>2. o.klass \in DOMAIN h /\ \A f \in DOMAIN o.fields : mark_value_obj(o.fields[f]) \subseteq DOMAIN h
    BY <1>1, <1>6 DEF ObjectOK, IsA
  <2> QED
    BY <1>6, <2>1, <2>2
<1>7. CASE o.type = "BoundMethod"
  <2>1. blacken(o) = mark_value_obj(o.receiver) \cup {o.method}
    BY <1>7 DEF blacken
  <2> QED
    BY <1>1, <1>7, <2>1 DEF ObjectOK, IsA
<1> QED
  BY <1>2, <1>3, <1>4, <1>5, <1>6, <1>7

\* k is a part of the heap h.
Part(k, h) == \A o \in DOMAIN k : o \in DOMAIN h /\ k[o] = h[o]

\* A value is good in a part of the heap that has the object it points at.
LEMMA PartValue ==
  ASSUME NEW h, NEW k, Part(k, h), NEW v, ValueOK(v, h), mark_value_obj(v) \subseteq DOMAIN k
  PROVE  ValueOK(v, k)
BY DEF Part, ValueOK, IsA, mark_value_obj

\* So is an object in a part that has what blacken marks of it.
LEMMA PartObject ==
  ASSUME NEW h, NEW k, Part(k, h), NEW fns, NEW o, ObjectOK(o, h, fns), blacken(o) \subseteq DOMAIN k
  PROVE  ObjectOK(o, k, fns)
<1>1. \A v : ValueOK(v, h) /\ mark_value_obj(v) \subseteq blacken(o) => ValueOK(v, k)
  BY PartValue
<1>2. \A x : \A type : IsA(x, type, h) /\ x \in blacken(o) => IsA(x, type, k)
  BY DEF Part, IsA
<1>3. /\ o.type = "Upvalue" => mark_value_obj(o.closed) \subseteq blacken(o)
      /\ o.type = "Closure" => \A i \in DOMAIN o.upvalues : o.upvalues[i] \in blacken(o)
      /\ o.type = "Class" => \A m \in DOMAIN o.methods : o.methods[m] \in blacken(o)
      /\ o.type = "Instance" =>
           /\ o.klass \in blacken(o)
           /\ \A f \in DOMAIN o.fields : mark_value_obj(o.fields[f]) \subseteq blacken(o)
      /\ o.type = "BoundMethod" =>
           mark_value_obj(o.receiver) \subseteq blacken(o) /\ o.method \in blacken(o)
  BY BlackenMarks
<1> QED
  BY <1>1, <1>2, <1>3 DEF ObjectOK

\* A chain of sets in which each is the round after the one before it exists, for
\* as many rounds as one likes.
LEMMA ChainExists ==
  ASSUME NEW roots, NEW size \in Nat
  PROVE  \E f : f = [n \in 0 .. size |-> IF n = 0 THEN roots ELSE blackened(f[n - 1])]
<1> DEFINE Is(f, s) == f = [n \in 0 .. s |-> IF n = 0 THEN roots ELSE blackened(f[n - 1])]
           S == {s \in Nat : \E f : Is(f, s)}
<1>1. 0 \in S
  <2>1. Is([n \in 0 .. 0 |-> roots], 0)
    OBVIOUS
  <2> QED
    BY <2>1
<1>2. ASSUME NEW s \in Nat, s \in S PROVE s + 1 \in S
  <2>1. PICK f : Is(f, s)
    BY <1>2
  <2> DEFINE g == [n \in 0 .. s + 1 |-> IF n = s + 1 THEN blackened(f[s]) ELSE f[n]]
  <2>2. DOMAIN f = 0 .. s /\ f[0] = roots /\ \A n \in 1 .. s : f[n] = blackened(f[n - 1])
    BY <2>1
  <2>3. g[s + 1] = blackened(f[s]) /\ \A n \in 0 .. s : g[n] = f[n]
    OBVIOUS
  <2>4. \A n \in 1 .. s + 1 : g[n] = blackened(g[n - 1])
    <3> SUFFICES ASSUME NEW n \in 1 .. s + 1 PROVE g[n] = blackened(g[n - 1])
      OBVIOUS
    <3> HIDE DEF g
    <3>1. CASE n = s + 1
      <4>1. n - 1 = s /\ s \in 0 .. s
        BY <3>1
      <4> QED
        BY <3>1, <4>1, <2>3
    <3>2. CASE n \in 1 .. s
      <4>1. n \in 0 .. s /\ n - 1 \in 0 .. s
        BY <3>2
      <4> QED
        BY <3>2, <4>1, <2>2, <2>3
    <3> QED
      BY <3>1, <3>2
  <2>5. g[0] = roots
    BY <2>2
  <2>6. Is(g, s + 1)
    <3>1. g = [n \in 0 .. s + 1 |-> g[n]]
      OBVIOUS
    <3> HIDE DEF g
    <3>2. \A n \in 0 .. s + 1 : g[n] = IF n = 0 THEN roots ELSE blackened(g[n - 1])
      BY <2>4, <2>5
    <3>3. [n \in 0 .. s + 1 |-> g[n]] = [n \in 0 .. s + 1 |-> IF n = 0 THEN roots ELSE blackened(g[n - 1])]
      BY <3>2
    <3> QED
      BY <3>1, <3>3, Zenon
  <2> HIDE DEF g, Is
  <2> QED
    BY <2>6
<1>3. size \in S
  <2> HIDE DEF S
  <2> QED
    BY <1>1, <1>2, SetInduction
<1> QED
  BY <1>3, Zenon

\* trace_references is the last set of such a chain.
LEMMA TraceIsChain ==
  ASSUME NEW roots, NEW size \in Nat, size = Cardinality(DOMAIN heap)
  PROVE  \E f : /\ DOMAIN f = 0 .. size /\ f[0] = roots
                /\ \A n \in 1 .. size : f[n] = blackened(f[n - 1])
                /\ trace_references(roots) = f[size]
                /\ f = [n \in 0 .. size |-> f[n]]
<1> DEFINE marked == CHOOSE f : f = [n \in 0 .. Cardinality(DOMAIN heap) |->
                                       IF n = 0 THEN roots ELSE blackened(f[n - 1])]
<1>1. \E f : f = [n \in 0 .. Cardinality(DOMAIN heap) |-> IF n = 0 THEN roots ELSE blackened(f[n - 1])]
  <2>1. Cardinality(DOMAIN heap) \in Nat
    OBVIOUS
  <2> QED
    BY <2>1, ChainExists, Zenon
<1>2. marked = [n \in 0 .. Cardinality(DOMAIN heap) |-> IF n = 0 THEN roots ELSE blackened(marked[n - 1])]
  BY <1>1, Zenon
<1>3. trace_references(roots) = marked[Cardinality(DOMAIN heap)]
  BY DEF trace_references
<1> HIDE DEF marked
<1>4. trace_references(roots) = marked[size]
  BY <1>3
<1>5. marked = [n \in 0 .. size |-> IF n = 0 THEN roots ELSE blackened(marked[n - 1])]
  BY <1>2, Zenon
<1>6. DOMAIN marked = 0 .. size
  BY <1>5
<1>7. marked[0] = roots
  BY <1>5
<1>8. \A n \in 1 .. size : marked[n] = blackened(marked[n - 1])
  BY <1>5
<1>9. marked = [n \in 0 .. size |-> marked[n]]
  BY <1>5
<1> QED
  BY <1>4, <1>6, <1>7, <1>8, <1>9, Zenon

\* From roots in a good heap, trace_references marks objects of the heap only, the
\* roots among them, and with each object those that it points at.
LEMMA TraceIsClosed ==
  ASSUME born \in Nat, HeapOK(heap, functions, born), NEW roots, roots \subseteq DOMAIN heap
  PROVE  /\ roots \subseteq trace_references(roots) /\ trace_references(roots) \subseteq DOMAIN heap
         /\ \A o \in trace_references(roots) : blacken(heap[o]) \subseteq trace_references(roots)
<1> DEFINE D == DOMAIN heap
           size == Cardinality(D)
           Closed(M) == \A o \in M : blacken(heap[o]) \subseteq M
           Q(M, n) == /\ roots \subseteq M /\ M \subseteq D
                      /\ Closed(M) \/ Cardinality(M) >= n
<1>1. IsFiniteSet(D) /\ size \in Nat
  <2>1. IsFiniteSet(1 .. born) /\ D \in SUBSET (1 .. born)
    BY FS_Interval DEF HeapOK
  <2>2. IsFiniteSet(D)
    BY <2>1, FS_Subset
  <2> QED
    BY <2>2, FS_CardinalityType
<1>2. \A M : M \subseteq D => IsFiniteSet(M) /\ Cardinality(M) \in Nat
  BY <1>1, FS_Subset, FS_CardinalityType
<1>3. \A o \in D : blacken(heap[o]) \subseteq D
  BY BlackenMarks DEF HeapOK
<1>4. \A M : M \subseteq D => M \subseteq blackened(M) /\ blackened(M) \subseteq D
  BY <1>3 DEF blackened
<1>5. \A M : Closed(M) => blackened(M) = M
  BY DEF blackened
<1>6. \A M : ~Closed(M) => blackened(M) # M
  BY DEF blackened
<1> HIDE DEF Closed
<1>7. ASSUME NEW M, NEW n \in Nat, Q(M, n) PROVE Q(blackened(M), n + 1)
  <2>1. roots \subseteq blackened(M) /\ M \subseteq blackened(M) /\ blackened(M) \subseteq D /\ M \subseteq D
    BY <1>4, <1>7
  <2>2. CASE Closed(M)
    BY <1>5, <2>1, <2>2
  <2>3. CASE ~Closed(M)
    <3>1. Cardinality(M) >= n /\ Cardinality(M) \in Nat /\ Cardinality(blackened(M)) \in Nat
      BY <1>2, <1>7, <2>1, <2>3
    <3>2. IsFiniteSet(blackened(M)) /\ M \in SUBSET blackened(M) /\ blackened(M) # M
      BY <1>2, <1>6, <2>1, <2>3
    <3>3. Cardinality(M) <= Cardinality(blackened(M)) /\ Cardinality(blackened(M)) # Cardinality(M)
      BY <3>2, FS_Subset
    <3>4. Cardinality(blackened(M)) >= n + 1
      BY <3>1, <3>3
    <3> QED
      BY <2>1, <3>4
  <2> QED
    BY <2>2, <2>3
<1>8. PICK f : /\ DOMAIN f = 0 .. size /\ f[0] = roots
               /\ \A n \in 1 .. size : f[n] = blackened(f[n - 1])
               /\ trace_references(roots) = f[size]
  BY <1>1, TraceIsChain
<1>9. Q(roots, 0)
  BY <1>2
<1> HIDE DEF size, Q
<1> DEFINE S == {n \in Nat : n <= size => Q(f[n], n)}
<1>10. 0 \in S
  BY <1>8, <1>9
<1>11. ASSUME NEW n \in Nat, n \in S PROVE n + 1 \in S
  <2> SUFFICES ASSUME n + 1 <= size PROVE Q(f[n + 1], n + 1)
    OBVIOUS
  <2>1. n <= size /\ n + 1 \in 1 .. size /\ (n + 1) - 1 = n
    BY <1>1
  <2>2. Q(f[n], n)
    BY <1>11, <2>1
  <2>3. f[n + 1] = blackened(f[n])
    BY <1>8, <2>1
  <2> QED
    BY <1>7, <2>2, <2>3
<1>12. Nat \subseteq S
  <2> HIDE DEF S
  <2> QED
    BY <1>10, <1>11, SetInduction
<1>13. Q(f[size], size)
  BY <1>1, <1>12
<1> DEFINE T == trace_references(roots)
<1>14. roots \subseteq T /\ T \subseteq D /\ (Closed(T) \/ Cardinality(T) >= size)
  BY <1>8, <1>13 DEF Q
<1>15. Closed(T)
  <2>1. CASE Cardinality(T) >= size
    <3>1. Cardinality(T) <= Cardinality(D) /\ Cardinality(T) \in Nat
      BY <1>1, <1>2, <1>14, FS_Subset
    <3>2. Cardinality(D) = Cardinality(T)
      BY <1>1, <2>1, <3>1 DEF size
    <3>3. T = D
      BY <1>1, <1>14, <3>2, FS_Subset
    <3> QED
      BY <1>3, <3>3 DEF Closed
  <2> QED
    BY <1>14, <2>1
<1> QED
  BY <1>14, <1>15 DEF Closed

\* The frames of a running machine are good in a part of the heap that has their
\* closures and the open upvalues.
LEMMA PartRunning ==
  ASSUME NEW h, NEW k, Part(k, h), NEW fns, NEW n, NEW frs, NEW open, Running(n, frs, open, h, fns),
         \A i \in 1 .. Len(frs) : frs[i].closure \in DOMAIN k, open \subseteq DOMAIN k, Len(frs) \in Nat
  PROVE  Running(n, frs, open, k, fns)
<1>1. \A i \in 1 .. Len(frs) : Runs(frs[i], k) = Runs(frs[i], h) /\ At(frs[i], k, fns) = At(frs[i], h, fns)
  BY DEF Part, Runs, At
<1>2. \A u \in open : k[u].location = h[u].location
  BY DEF Part
<1>3. ASSUME NEW i \in 1 .. Len(frs) PROVE FrameOK(i, n, frs, open, k, fns)
  <2>1. FrameOK(i, n, frs, open, h, fns)
    BY DEF Running
  <2>2. /\ frs[i].ip \in DOMAIN MapOf(fns, Runs(frs[i], k))
        /\ Ceiling(frs, i, n) = frs[i].slot_base + At(frs[i], k, fns).height
        /\ \A j \in 1 .. Len(frs) : i < j => frs[i].slot_base < frs[j].slot_base
    BY <1>1, <2>1 DEF FrameOK
  <2>3. \A u \in open :
          frs[i].slot_base < k[u].location /\ (i < Len(frs) => k[u].location <= frs[i + 1].slot_base) =>
            k[u].location - frs[i].slot_base - 1 \in At(frs[i], k, fns).captured
    BY <1>1, <1>2, <2>1 DEF FrameOK
  <2>4. i < Len(frs) => Calls(frs[i], k, fns, fns[Runs(frs[i + 1], k)].arity)
    <3> SUFFICES ASSUME i < Len(frs) PROVE Calls(frs[i], k, fns, fns[Runs(frs[i + 1], k)].arity)
      OBVIOUS
    <3>1. i + 1 \in 1 .. Len(frs)
      OBVIOUS
    <3>2. Runs(frs[i + 1], k) = Runs(frs[i + 1], h) /\ Runs(frs[i], k) = Runs(frs[i], h)
      BY <1>1, <3>1
    <3>3. Calls(frs[i], h, fns, fns[Runs(frs[i + 1], h)].arity)
      BY <2>1 DEF FrameOK
    <3> QED
      BY <3>2, <3>3 DEF Calls
  <2> QED
    BY <2>2, <2>3, <2>4 DEF FrameOK
<1>4. Len(frs) >= 1 /\ frs[1].slot_base = 0 /\ Runs(frs[1], k) = Len(fns)
  <2>1. Len(frs) >= 1 /\ frs[1].slot_base = 0 /\ Runs(frs[1], h) = Len(fns)
    BY DEF Running
  <2>2. 1 \in 1 .. Len(frs)
    BY <2>1
  <2> QED
    BY <1>1, <2>1, <2>2
<1> QED
  BY <1>3, <1>4 DEF Running

\* A collection with stk as the stack leaves the machine good, and every value of
\* stk with what it points at.
LEMMA SweptIsGood ==
  ASSUME IInv, NEW stk, ValuesOK(stk, heap)
  PROVE  LET k == swept(stk)
         IN  /\ HeapOK(k, functions, born) /\ ValuesOK(stk, k) /\ GlobalsOK(globals, k)
             /\ OpenOK(open_upvalues, k, Len(stack)) /\ FramesOK(frames, k)
             /\ status = "running" => Running(Len(stack), frames, open_upvalues, k, functions)
             /\ status = "running" => Runs(frame, k) = Runs(frame, heap)
             /\ \A u \in open_upvalues : k[u] = heap[u]
             /\ mark_value_roots(stk) \subseteq DOMAIN heap /\ Part(k, heap)
<1> DEFINE k == swept(stk)
           roots == mark_value_roots(stk)
           T == trace_references(roots)
<1>1. /\ born \in Nat /\ HeapOK(heap, functions, born) /\ GlobalsOK(globals, heap)
      /\ OpenOK(open_upvalues, heap, Len(stack)) /\ FramesOK(frames, heap)
      /\ status = "running" => Running(Len(stack), frames, open_upvalues, heap, functions)
  BY DEF IInv, Counts
<1>2. \A v : ValueOK(v, heap) => mark_value_obj(v) \subseteq DOMAIN heap
  BY DEF ValueOK, IsA, mark_value_obj
<1> DEFINE closures == {frames[i].closure : i \in 1 .. Len(frames)}
<1>3. roots = mark_value_objs(stk) \cup closures \cup open_upvalues \cup mark_value_objs(globals)
  BY DEF mark_value_roots
<1>4. roots \subseteq DOMAIN heap
  <2>1. mark_value_objs(stk) \subseteq DOMAIN heap
    <3>1. DOMAIN stk = 1 .. Len(stk)
      BY ListLength DEF ValuesOK
    <3> QED
      BY <1>2, <3>1 DEF ValuesOK, mark_value_objs
  <2>2. closures \subseteq DOMAIN heap
    BY <1>1 DEF FramesOK, IsA
  <2>3. open_upvalues \subseteq DOMAIN heap
    BY <1>1 DEF OpenOK, Open
  <2>4. mark_value_objs(globals) \subseteq DOMAIN heap
    BY <1>1, <1>2 DEF GlobalsOK, mark_value_objs
  <2> HIDE DEF closures, roots
  <2> QED
    BY <1>3, <2>1, <2>2, <2>3, <2>4
<1> HIDE DEF roots
<1>5. /\ roots \subseteq T /\ T \subseteq DOMAIN heap
      /\ \A o \in T : blacken(heap[o]) \subseteq T
  BY <1>1, <1>4, TraceIsClosed
<1>6. /\ \A i \in 1 .. Len(stk) : mark_value_obj(stk[i]) \subseteq T
      /\ \A i \in 1 .. Len(frames) : frames[i].closure \in T
      /\ open_upvalues \subseteq T
      /\ \A n \in DOMAIN globals : mark_value_obj(globals[n]) \subseteq T
  <2>1. \A i \in 1 .. Len(stk) : mark_value_obj(stk[i]) \subseteq mark_value_objs(stk)
    <3>1. DOMAIN stk = 1 .. Len(stk)
      BY ListLength DEF ValuesOK
    <3> QED
      BY <3>1 DEF mark_value_objs
  <2>2. \A i \in 1 .. Len(frames) : frames[i].closure \in closures
    OBVIOUS
  <2>3. \A n \in DOMAIN globals : mark_value_obj(globals[n]) \subseteq mark_value_objs(globals)
    BY DEF mark_value_objs
  <2> HIDE DEF closures, T
  <2>4. /\ mark_value_objs(stk) \subseteq T /\ closures \subseteq T /\ open_upvalues \subseteq T
        /\ mark_value_objs(globals) \subseteq T
    BY <1>3, <1>5
  <2> QED
    BY <2>1, <2>2, <2>3, <2>4
<1>7. DOMAIN k = T /\ \A o \in T : k[o] = heap[o]
  BY DEF swept, roots
<1> HIDE DEF k, T, closures
<1>8. Part(k, heap)
  BY <1>5, <1>7 DEF Part
<1>9. HeapOK(k, functions, born)
  <2>1. \A o \in T : ObjectOK(heap[o], k, functions)
    BY <1>1, <1>5, <1>7, <1>8, PartObject DEF HeapOK
  <2> QED
    BY <1>1, <1>5, <1>7, <2>1 DEF HeapOK
<1>10. ValuesOK(stk, k)
  BY <1>6, <1>7, <1>8, PartValue DEF ValuesOK
<1>11. GlobalsOK(globals, k)
  BY <1>1, <1>6, <1>7, <1>8, PartValue DEF GlobalsOK
<1>12. \A i \in 1 .. Len(frames) : frames[i].closure \in DOMAIN k /\ k[frames[i].closure] = heap[frames[i].closure]
  BY <1>6, <1>7
<1>13. FramesOK(frames, k)
  BY <1>1, <1>12 DEF FramesOK, IsA
<1>14. open_upvalues \subseteq DOMAIN k /\ \A u \in open_upvalues : k[u] = heap[u]
  BY <1>6, <1>7
<1>15. OpenOK(open_upvalues, k, Len(stack))
  <2>1. Open(heap) = open_upvalues
    BY <1>1 DEF OpenOK
  <2>2. Open(k) = open_upvalues
    BY <2>1, <1>8, <1>14 DEF Open, Part
  <2> QED
    BY <1>1, <1>14, <2>2 DEF OpenOK
<1>16. Len(frames) \in Nat
  BY <1>1, ListLength DEF FramesOK
<1>17. status = "running" => Running(Len(stack), frames, open_upvalues, k, functions)
  BY <1>1, <1>8, <1>12, <1>14, <1>16, PartRunning
<1>18. status = "running" => Runs(frame, k) = Runs(frame, heap)
  <2>1. status = "running" => frame = frames[Len(frames)] /\ Len(frames) \in 1 .. Len(frames)
    BY AtInstruction
  <2> QED
    BY <1>12, <2>1 DEF Runs
<1> QED
  BY <1>4, <1>8, <1>9, <1>10, <1>11, <1>13, <1>14, <1>15, <1>17, <1>18 DEF k, roots

\* The collection at the safe point.
LEMMA CollectIInv == ASSUME IInv, Collect PROVE IInv'
<1>1. /\ heap' = swept(stack) /\ allocations_since_gc' = 0 /\ born' = born /\ status = "running"
      /\ stack' = stack /\ frames' = frames /\ globals' = globals /\ open_upvalues' = open_upvalues
      /\ UNCHANGED fixedV /\ UNCHANGED resultV
  BY DEF Collect, collect
<1>2. ValuesOK(stack, heap)
  BY DEF IInv
<1> DEFINE k == swept(stack)
<1>3. /\ HeapOK(k, functions, born) /\ ValuesOK(stack, k) /\ GlobalsOK(globals, k)
      /\ OpenOK(open_upvalues, k, Len(stack)) /\ FramesOK(frames, k)
      /\ Running(Len(stack), frames, open_upvalues, k, functions)
  BY <1>1, <1>2, SweptIsGood
<1>4. heap' = k
  BY <1>1
<1> HIDE DEF k
<1>5. functions' = functions /\ script' = script /\ status' = status /\ error_message' = error_message
  BY <1>1 DEF fixedV, resultV
<1>6. Counts'
  BY <1>1, <1>5 DEF IInv, Counts
<1>7. Result'
  BY <1>1, <1>5 DEF IInv, Result, CleanExit
<1> QED
  BY <1>1, <1>3, <1>4, <1>5, <1>6, <1>7 DEF IInv

-----------------------------------------------------------------------------
(***************************************************************************)
(* Calls.                                                                  *)
(***************************************************************************)
\* The heap after a call has at most grown, by no upvalue.
Allocated ==
  /\ born' \in Nat /\ allocations_since_gc' \in 0 .. born'
  /\ Grows(heap, heap') /\ HeapOK(heap', functions, born') /\ Open(heap') = Open(heap)
  /\ \A u \in open_upvalues : heap'[u].location = heap[u].location

\* A call has not allocated anything.
LEMMA NothingAllocated == ASSUME IInv, UNCHANGED gcV PROVE Allocated
<1>1. heap' = heap /\ born' = born /\ allocations_since_gc' = allocations_since_gc
  BY DEF gcV
<1>2. born \in Nat /\ allocations_since_gc \in 0 .. born /\ HeapOK(heap, functions, born)
  BY DEF IInv, Counts
<1> QED
  BY <1>1, <1>2, GrowsRefl DEF Allocated

\* A call has allocated an object that is no upvalue.
LEMMA ObjectAllocated ==
  ASSUME IInv, NEW obj, allocate(obj), ObjectOK(obj, heap, functions), obj.type # "Upvalue"
  PROVE  Allocated
<1>1. /\ born' = born + 1 /\ allocations_since_gc' = allocations_since_gc + 1
      /\ heap' = Put(heap, born + 1, obj)
  BY DEF allocate
<1>2. /\ born \in Nat /\ allocations_since_gc \in 0 .. born /\ HeapOK(heap, functions, born)
      /\ OpenOK(open_upvalues, heap, Len(stack))
  BY DEF IInv, Counts
<1>3. born' \in Nat /\ allocations_since_gc' \in 0 .. born'
  BY <1>1, <1>2
<1>4. /\ Grows(heap, heap') /\ HeapOK(heap', functions, born') /\ Open(heap') = Open(heap)
      /\ \A o \in DOMAIN heap : heap'[o] = heap[o]
  BY <1>1, <1>2, PutObject
<1>5. \A u \in open_upvalues : heap'[u].location = heap[u].location
  BY <1>2, <1>4 DEF OpenOK, Open
<1> QED
  BY <1>3, <1>4, <1>5 DEF Allocated

\* The open upvalues lie below what the call takes.
LEMMA OpenInCall ==
  ASSUME IInv, status = "running", Allocated, byte(0) # "CloseUpvalue", NEW m \in Nat,
         Len(stack) - Needs(function, frame.ip) <= m
  PROVE  OpenOK(open_upvalues, heap', m)
<1>1. /\ Needs(function, frame.ip) \in Nat
      /\ \A u \in open_upvalues : heap[u].location \in 1 .. Len(stack) - Needs(function, frame.ip)
  BY Operands
<1>2. Len(stack) \in Nat
  BY AtInstruction
<1>3. \A u \in open_upvalues : heap'[u].location \in 1 .. m
  BY <1>1, <1>2 DEF Allocated
<1>4. OpenOK(open_upvalues, heap, Len(stack))
  BY DEF IInv
<1> QED
  BY <1>3, <1>4 DEF OpenOK, Allocated

\* The call reports an error.
LEMMA CallErrorIInv ==
  ASSUME IInv, status = "running", UNCHANGED fixedV, globals' = globals, open_upvalues' = open_upvalues,
         Allocated, byte(0) # "CloseUpvalue", NEW message, message # "", runtime_error(message),
         NEW n, frames' = ip_plus(n),
         ValuesOK(stack', heap'), Len(stack) - Needs(function, frame.ip) <= Len(stack')
  PROVE  IInv'
<1>1. Len(stack') \in Nat
  BY ListLength DEF ValuesOK
<1>2. OpenOK(open_upvalues', heap', Len(stack'))
  BY <1>1, OpenInCall
<1>3. FramesOK(frames', heap') /\ GlobalsOK(globals', heap')
  BY IpPlus, GrowRoots DEF IInv, Allocated
<1> QED
  BY <1>2, <1>3, Stopped DEF Allocated

\* call: a frame for the closure, or an error.
LEMMA CallIInv ==
  ASSUME IInv, status = "running", UNCHANGED fixedV, globals' = globals, open_upvalues' = open_upvalues,
         Allocated, byte(0) \in {"Call"} \cup InvokeOps,
         NEW closure, NEW argc \in Nat, NEW stk, NEW width, NEW needs \in Nat,
         call(closure, argc, stk, width), IsA(closure, "Closure", heap), ValuesOK(stk, heap'),
         Shaped(functions, function, frame.ip, ByteSize, width, needs, 1 - needs),
         Len(stk) - argc = Len(stack) + (1 - needs),
         function.code[frame.ip + width] = argc
  PROVE  IInv'
<1>1. /\ VerifiedScript(functions, ByteSize) /\ Len(stack) \in Nat
      /\ Len(frames) \in Nat \ {0} /\ frame = frames[Len(frames)]
      /\ function = functions[Runs(frame, heap)] /\ byte(0) = OpAt(function, frame.ip)
  BY AtInstruction
<1>2. Len(stk) \in Nat
  BY ListLength DEF ValuesOK
<1>3. byte(0) # "CloseUpvalue"
  BY DEF InvokeOps
<1>4. Needs(function, frame.ip) = needs /\ Len(stack) - needs <= Len(stk)
  BY <1>1, <1>2 DEF Shaped
<1>5. stack' = stk
  BY DEF call
<1>6. \/ runtime_error("wrong number of arguments") /\ frames' = ip_plus(width)
      \/ runtime_error("stack overflow") /\ frames' = ip_plus(width)
      \/ /\ argc = function_of(closure).arity /\ ~(Len(frames) >= kFramesMax)
         /\ frames' = Append(ip_plus(width), CallFrame(closure, 0, Len(stk) - argc - 1))
         /\ UNCHANGED resultV
  BY DEF call
<1>7. CASE runtime_error("wrong number of arguments") /\ frames' = ip_plus(width)
  BY <1>3, <1>4, <1>5, <1>7, CallErrorIInv
<1>8. CASE runtime_error("stack overflow") /\ frames' = ip_plus(width)
  BY <1>3, <1>4, <1>5, <1>8, CallErrorIInv
<1>9. CASE /\ argc = function_of(closure).arity /\ ~(Len(frames) >= kFramesMax)
           /\ frames' = Append(ip_plus(width), CallFrame(closure, 0, Len(stk) - argc - 1))
           /\ UNCHANGED resultV
  <2>1. ip_plus(width) = MoveTo(frames, frame.ip + width)
    BY <1>1 DEF ip_plus, MoveTo
  <2>2. Len(frames) < kFramesMax
    BY <1>1, <1>9, VmAssumption
  <2>3. /\ HeapOK(heap, functions, born) /\ FramesOK(frames, heap) /\ OpenOK(open_upvalues, heap, Len(stack))
        /\ Running(Len(stack), frames, open_upvalues, heap, functions)
        /\ GlobalsOK(globals, heap) /\ Counts /\ Result
    BY DEF IInv
  <2>4. heap'[closure] = heap[closure] /\ IsA(closure, "Closure", heap')
    BY GrowIsA DEF Grows, IsA, Allocated
  <2>5. heap'[closure].function \in DOMAIN functions /\ functions[heap'[closure].function].arity = argc
    BY <1>9, <2>3, <2>4 DEF HeapOK, ObjectOK, IsA, function_of
  <2>6. /\ Width(functions, function, frame.ip) = width /\ Effect(function, frame.ip) = 1 - needs
        /\ Successors(functions, function, frame.ip, ByteSize) = {frame.ip + width}
    BY DEF Shaped
  <2>7. Grows(heap, heap') /\ \A u \in open_upvalues : heap'[u].location = heap[u].location
    BY DEF Allocated
  <2> DEFINE t == frame.ip + width
             frs2 == Append(MoveTo(frames, t), CallFrame(closure, 0, Len(stk) - argc - 1))
  <2>8. FramesOK(frs2, heap') /\ Running(Len(stk), frs2, open_upvalues, heap', functions)
    <3>1. /\ OpAt(functions[Runs(frames[Len(frames)], heap)], frames[Len(frames)].ip) \in {"Call"} \cup InvokeOps
          /\ t = frames[Len(frames)].ip + Width(functions, functions[Runs(frames[Len(frames)], heap)], frames[Len(frames)].ip)
          /\ t \in Successors(functions, functions[Runs(frames[Len(frames)], heap)], frames[Len(frames)].ip, ByteSize)
          /\ functions[Runs(frames[Len(frames)], heap)].code[t] = argc
          /\ Effect(functions[Runs(frames[Len(frames)], heap)], frames[Len(frames)].ip) =
               1 - Needs(functions[Runs(frames[Len(frames)], heap)], frames[Len(frames)].ip)
          /\ Len(stk) - argc = Len(stack) + Effect(functions[Runs(frames[Len(frames)], heap)], frames[Len(frames)].ip)
      BY <1>1, <1>4, <2>6
    <3> HIDE DEF t
    <3> QED
      BY <1>1, <1>2, <2>2, <2>3, <2>4, <2>5, <2>7, <3>1, Enter
  <2>9. frames' = frs2
    BY <1>9, <2>1
  <2> HIDE DEF frs2
  <2>10. OpenOK(open_upvalues', heap', Len(stack'))
    BY <1>2, <1>3, <1>4, <1>5, OpenInCall
  <2>11. GlobalsOK(globals', heap')
    BY <2>3, <2>7, GrowRoots
  <2>12. Counts' /\ Result' /\ functions' = functions
    BY <1>9, <2>3 DEF Allocated, Counts, Result, fixedV, resultV, CleanExit, IInv
  <2>13. HeapOK(heap', functions, born')
    BY DEF Allocated
  <2> QED
    BY <1>5, <2>8, <2>9, <2>10, <2>11, <2>12, <2>13 DEF IInv
<1> QED
  BY <1>6, <1>7, <1>8, <1>9

\* The argument counts of the call instructions, and their shapes.
LEMMA CallSite ==
  ASSUME IInv, status = "running"
  PROVE  /\ byte(0) = "Call" =>
              /\ byte(1) \in Nat /\ function.code[frame.ip + 2] = byte(1)
              /\ Shaped(functions, function, frame.ip, ByteSize, 2, byte(1) + 1, 1 - (byte(1) + 1))
         /\ byte(0) = "Invoke" =>
              /\ byte(2) \in Nat /\ function.code[frame.ip + 3] = byte(2)
              /\ Shaped(functions, function, frame.ip, ByteSize, 3, byte(2) + 1, 1 - (byte(2) + 1))
         /\ byte(0) = "SuperInvoke" =>
              /\ byte(2) \in Nat /\ function.code[frame.ip + 3] = byte(2)
              /\ Shaped(functions, function, frame.ip, ByteSize, 3, byte(2) + 2, 1 - (byte(2) + 2))
<1>1. /\ frame.ip \in Nat /\ byte(0) = OpAt(function, frame.ip)
      /\ byte(1) = OperandAt(function, frame.ip, 1) /\ byte(2) = OperandAt(function, frame.ip, 2)
      /\ Works(functions, function, frame.ip, ByteSize, here)
  BY AtInstruction
<1>2. function.code[frame.ip + 2] = byte(1) /\ function.code[frame.ip + 3] = byte(2)
  <2>1. frame.ip + 1 + 1 = frame.ip + 2 /\ frame.ip + 1 + 2 = frame.ip + 3
    BY <1>1
  <2> QED
    BY <2>1 DEF byte
<1>3. ASSUME byte(0) = "Call"
      PROVE  /\ byte(1) \in Nat
             /\ Shaped(functions, function, frame.ip, ByteSize, 2, byte(1) + 1, 1 - (byte(1) + 1))
  <2>1. byte(1) \in Nat /\ byte(0) \notin InvokeOps
    BY <1>1, <1>3, WidthCovers, VmAssumption DEF InvokeOps
  <2>2. Shaped(functions, function, frame.ip, ByteSize, 2, byte(1) + 1, -byte(1))
    BY <1>1, <1>3, <2>1, ShapeCall
  <2>3. -byte(1) = 1 - (byte(1) + 1)
    BY <2>1
  <2> QED
    BY <2>1, <2>2, <2>3
<1>4. ASSUME byte(0) \in InvokeOps PROVE byte(1) \in Nat /\ byte(2) \in Nat
  BY <1>1, <1>4, WidthCovers, VmAssumption
<1>5. ASSUME byte(0) = "Invoke"
      PROVE  Shaped(functions, function, frame.ip, ByteSize, 3, byte(2) + 1, 1 - (byte(2) + 1))
  <2>1. byte(1) \in Nat /\ byte(2) \in Nat
    BY <1>4, <1>5 DEF InvokeOps
  <2>2. Shaped(functions, function, frame.ip, ByteSize, 3, byte(2) + 1, -byte(2))
    BY <1>1, <1>5, <2>1, ShapeCall
  <2>3. -byte(2) = 1 - (byte(2) + 1)
    BY <2>1
  <2> QED
    BY <2>2, <2>3
<1>6. ASSUME byte(0) = "SuperInvoke"
      PROVE  Shaped(functions, function, frame.ip, ByteSize, 3, byte(2) + 2, 1 - (byte(2) + 2))
  <2>1. byte(1) \in Nat /\ byte(2) \in Nat
    BY <1>4, <1>6 DEF InvokeOps
  <2>2. Shaped(functions, function, frame.ip, ByteSize, 3, byte(2) + 2, -byte(2) - 1)
    BY <1>1, <1>6, <2>1, ShapeCall
  <2>3. -byte(2) - 1 = 1 - (byte(2) + 2)
    BY <2>1
  <2> QED
    BY <2>2, <2>3
<1>7. byte(0) \in {"Invoke", "SuperInvoke"} => byte(2) \in Nat
  BY <1>4 DEF InvokeOps
<1> QED
  BY <1>2, <1>3, <1>5, <1>6, <1>7

\* What is known when call_value is reached: a Call or an Invoke with argc
\* arguments under way, and stk is the stack, of the same height as before.
Calling(argc, stk, width) ==
  /\ status = "running" /\ UNCHANGED fixedV /\ globals' = globals /\ open_upvalues' = open_upvalues
  /\ byte(0) \in {"Call", "Invoke"} /\ argc \in Nat
  /\ Shaped(functions, function, frame.ip, ByteSize, width, argc + 1, 1 - (argc + 1))
  /\ function.code[frame.ip + width] = argc
  /\ ValuesOK(stk, heap) /\ Len(stk) = Len(stack)

\* The slot of the callee is on the stack.
LEMMA CalleeSlot ==
  ASSUME IInv, NEW argc, NEW stk, NEW width, Calling(argc, stk, width)
  PROVE  /\ Len(stack) \in Nat /\ argc \in Nat /\ argc + 1 < Len(stack)
         /\ callee_slot(argc) \in 1 .. Len(stk)
         /\ Needs(function, frame.ip) = argc + 1 /\ Len(stk) \in Nat
         /\ Len(stk) - argc = Len(stack) + (1 - (argc + 1))
         /\ byte(0) # "CloseUpvalue" /\ byte(0) # "Closure" /\ byte(0) \in {"Call"} \cup InvokeOps
<1>1. /\ status = "running" /\ argc \in Nat /\ Len(stk) = Len(stack)
      /\ Needs(function, frame.ip) = argc + 1 /\ byte(0) \in {"Call", "Invoke"}
  BY DEF Calling, Shaped
<1>2. Len(stack) \in Nat /\ argc + 1 < Len(stack)
  BY <1>1, AtInstruction, Operands
<1>3. callee_slot(argc) \in 1 .. Len(stk)
  BY <1>1, <1>2 DEF callee_slot
<1>4. Len(stk) - argc = Len(stack) + (1 - (argc + 1))
  BY <1>1, <1>2
<1>5. byte(0) \in {"Call"} \cup InvokeOps
  BY <1>1 DEF InvokeOps
<1> QED
  BY <1>1, <1>2, <1>3, <1>4, <1>5

\* What is taken from a stack lowers it.
LEMMA TakesAway == ASSUME NEW n \in Nat, NEW a \in Nat PROVE n - (a + 1) <= n
OBVIOUS

\* A call that fails leaves the stack at the height it had.
LEMMA CallingErrorIInv ==
  ASSUME IInv, NEW argc, NEW stk, NEW width, Calling(argc, stk, width), Allocated,
         NEW message, message # "", runtime_error(message), frames' = ip_plus(width),
         ValuesOK(stack', heap'), Len(stack') = Len(stack)
  PROVE  IInv'
<1>1. /\ Len(stack) \in Nat /\ argc \in Nat /\ Needs(function, frame.ip) = argc + 1
      /\ byte(0) # "CloseUpvalue"
  BY CalleeSlot
<1>2. Len(stack) - Needs(function, frame.ip) <= Len(stack')
  <2> DEFINE n == Len(stack)
  <2> HIDE DEF n
  <2>1. n - (argc + 1) <= n
    BY <1>1, TakesAway DEF n
  <2>2. n = Len(stack') /\ n = Len(stack)
    BY DEF n
  <2> QED
    BY <1>1, <2>1, <2>2, Zenon
<1>3. /\ status = "running" /\ UNCHANGED fixedV /\ globals' = globals /\ open_upvalues' = open_upvalues
  BY DEF Calling
<1> QED
  BY <1>1, <1>2, <1>3, CallErrorIInv

\* construct: an instance in the place of its class.
LEMMA ConstructIInv ==
  ASSUME IInv, NEW argc, NEW stk, NEW width, Calling(argc, stk, width),
         NEW klass, IsA(klass, "Class", heap), construct(klass, argc, stk, width)
  PROVE  IInv'
<1> DEFINE obj == ObjInstance(klass, EmptyMap)
           with == [stk EXCEPT ![callee_slot(argc)] = <<"Instance", born + 1>>]
<1>1. /\ Len(stack) \in Nat /\ argc \in Nat /\ callee_slot(argc) \in 1 .. Len(stk)
      /\ Len(stk) - argc = Len(stack) + (1 - (argc + 1))
      /\ byte(0) # "CloseUpvalue" /\ byte(0) # "Closure" /\ byte(0) \in {"Call"} \cup InvokeOps
  BY CalleeSlot
<1>2. /\ status = "running" /\ UNCHANGED fixedV /\ globals' = globals /\ open_upvalues' = open_upvalues
      /\ Shaped(functions, function, frame.ip, ByteSize, width, argc + 1, 1 - (argc + 1))
      /\ function.code[frame.ip + width] = argc
      /\ ValuesOK(stk, heap) /\ Len(stk) = Len(stack)
  BY DEF Calling
<1>3. allocate(obj)
  BY DEF construct
<1>4. ObjectOK(obj, heap, functions)
  BY MadeObjects
<1>5. obj.type = "Instance"
  BY DEF ObjInstance
<1>6. /\ "init" \in DOMAIN heap[klass].methods /\ call(heap[klass].methods["init"], argc, with, width)
      \/ /\ runtime_error("wrong number of arguments") /\ stack' = with /\ frames' = ip_plus(width)
      \/ /\ argc = 0 /\ stack' = with /\ frames' = ip_plus(width) /\ UNCHANGED resultV
  BY DEF construct
<1> HIDE DEF obj
<1>7. Allocated /\ ValueOK(<<"Instance", born + 1>>, heap') /\ ValuesOK(stk, heap')
  BY <1>2, <1>3, <1>4, <1>5, ObjectAllocated, AllocatedValue
<1>8. ValuesOK(with, heap') /\ Len(with) = Len(stk)
  <2> DEFINE loc == callee_slot(argc)
             v == <<"Instance", born + 1>>
  <2>1. loc \in 1 .. Len(stk) /\ ValueOK(v, heap') /\ ValuesOK(stk, heap')
    BY <1>1, <1>7
  <2> HIDE DEF loc, v
  <2>2. ValuesOK([stk EXCEPT ![loc] = v], heap') /\ Len([stk EXCEPT ![loc] = v]) = Len(stk)
    BY <2>1, SetValue
  <2> QED
    BY <2>2 DEF loc, v
<1> HIDE DEF with
<1>9. CASE "init" \in DOMAIN heap[klass].methods /\ call(heap[klass].methods["init"], argc, with, width)
  <2>1. IsA(heap[klass].methods["init"], "Closure", heap)
    BY <1>9, InstanceParts
  <2>2. argc + 1 \in Nat /\ Len(with) - argc = Len(stack) + (1 - (argc + 1))
    BY <1>1, <1>8
  <2> QED
    BY <1>1, <1>2, <1>7, <1>8, <1>9, <2>1, <2>2, CallIInv
<1>10. CASE runtime_error("wrong number of arguments") /\ stack' = with /\ frames' = ip_plus(width)
  BY <1>2, <1>7, <1>8, <1>10, CallingErrorIInv
<1>11. CASE argc = 0 /\ stack' = with /\ frames' = ip_plus(width) /\ UNCHANGED resultV
  <2>1. Effect(function, frame.ip) = 0
    BY <1>2, <1>11 DEF Shaped
  <2>2. Len(stack') = Len(stack) + Effect(function, frame.ip)
    BY <1>1, <1>2, <1>8, <1>11, <2>1
  <2>3. frame.ip + width \in Successors(functions, function, frame.ip, ByteSize)
    BY <1>2 DEF Shaped
  <2> QED
    BY <1>1, <1>2, <1>3, <1>4, <1>5, <1>8, <1>11, <2>2, <2>3, AllocatesIInv
<1> QED
  BY <1>6, <1>9, <1>10, <1>11

\* clock(): a number in the place of the callee.
LEMMA ClockIInv ==
  ASSUME IInv, NEW stk, NEW width, Calling(0, stk, width), NEW t,
         UNCHANGED gcV, UNCHANGED resultV, frames' = ip_plus(width),
         stack' = Append(popped(1), Num(t))
  PROVE  IInv'
<1>1. /\ status = "running" /\ UNCHANGED fixedV /\ globals' = globals /\ open_upvalues' = open_upvalues
      /\ byte(0) \in {"Call", "Invoke"}
      /\ Shaped(functions, function, frame.ip, ByteSize, width, 0 + 1, 1 - (0 + 1))
  BY DEF Calling
<1>2. Shaped(functions, function, frame.ip, ByteSize, width, 1, 0)
  BY <1>1
<1>3. /\ Len(stack) \in Nat /\ 1 < Len(stack)
      /\ ValuesOK(popped(1), heap) /\ Len(popped(1)) = Len(stack) - 1
  BY <1>1, <1>2, Taken
<1>4. ValueOK(Num(t), heap)
  BY PlainValues
<1>5. ValuesOK(Append(popped(1), Num(t)), heap) /\ Len(Append(popped(1), Num(t))) = Len(stack) - 1 + 1
  BY <1>3, <1>4, PushValue
<1>6. Effect(function, frame.ip) = 0
      /\ frame.ip + width \in Successors(functions, function, frame.ip, ByteSize)
  BY <1>2 DEF Shaped
<1>7. Allocated
  BY NothingAllocated
<1>8. heap' = heap
  BY DEF gcV
<1>9. Len(stack') = Len(stack) + Effect(function, frame.ip)
  BY <1>3, <1>5, <1>6
<1>10. ValuesOK(stack', heap') /\ GlobalsOK(globals', heap')
  BY <1>1, <1>5, <1>8 DEF IInv
<1> QED
  BY <1>1, <1>6, <1>7, <1>9, <1>10, Step DEF Allocated

\* gc(): a collection in the middle of an instruction, with the callee still on the
\* stack, and the number of objects that are left in its place.
LEMMA GcIInv ==
  ASSUME IInv, NEW stk, NEW width, Calling(0, stk, width), NEW t,
         \A i \in 1 .. Len(stack) - 1 : stk[i] = stack[i],
         collect(stk), UNCHANGED resultV, frames' = ip_plus(width),
         stack' = Append(popped(1), Num(t))
  PROVE  IInv'
<1>1. /\ status = "running" /\ UNCHANGED fixedV /\ globals' = globals /\ open_upvalues' = open_upvalues
      /\ byte(0) \in {"Call", "Invoke"} /\ ValuesOK(stk, heap) /\ Len(stk) = Len(stack)
      /\ Shaped(functions, function, frame.ip, ByteSize, width, 0 + 1, 1 - (0 + 1))
  BY DEF Calling
<1>2. Shaped(functions, function, frame.ip, ByteSize, width, 1, 0)
  BY <1>1
<1>3. /\ Len(stack) \in Nat /\ 1 < Len(stack)
      /\ ValuesOK(popped(1), heap) /\ Len(popped(1)) = Len(stack) - 1
  BY <1>1, <1>2, Taken
<1> DEFINE k == swept(stk)
<1>4. /\ HeapOK(k, functions, born) /\ ValuesOK(stk, k) /\ GlobalsOK(globals, k)
      /\ OpenOK(open_upvalues, k, Len(stack)) /\ FramesOK(frames, k)
      /\ Running(Len(stack), frames, open_upvalues, k, functions)
      /\ Runs(frame, k) = Runs(frame, heap)
      /\ \A u \in open_upvalues : k[u] = heap[u]
  BY <1>1, SweptIsGood
<1>5. heap' = k /\ allocations_since_gc' = 0 /\ born' = born
  BY DEF collect
<1> HIDE DEF k
<1>6. ValuesOK(popped(1), k)
  <2>1. IsList(stack)
    BY DEF IInv, ValuesOK
  <2>2. Len(stack) - 1 \in Nat /\ Len(stack) - 1 <= Len(stack)
    BY <1>3
  <2>3. \A i \in 1 .. Len(stack) - 1 : popped(1)[i] = stack[i]
    BY <2>1, <2>2, ListPrefix DEF popped
  <2>4. \A i \in 1 .. Len(stack) - 1 : i \in 1 .. Len(stk)
    BY <1>1, <1>3
  <2>5. \A i \in 1 .. Len(stack) - 1 : ValueOK(popped(1)[i], k)
    BY <1>4, <2>3, <2>4 DEF ValuesOK
  <2> QED
    BY <1>3, <2>5 DEF ValuesOK
<1>7. ValuesOK(Append(popped(1), Num(t)), k) /\ Len(Append(popped(1), Num(t))) = Len(stack) - 1 + 1
  BY <1>3, <1>6, PushValue, PlainValues
<1>8. Len(stack') = Len(stack)
  BY <1>3, <1>7
<1>9. /\ VerifiedScript(functions, ByteSize) /\ Len(frames) \in Nat \ {0}
      /\ frame = frames[Len(frames)] /\ function = functions[Runs(frame, heap)]
      /\ byte(0) = OpAt(function, frame.ip)
  BY <1>1, AtInstruction
<1>10. FramesOK(MoveTo(frames, frame.ip + width), k)
  BY <1>4, <1>9, MovedFrames
<1>11. Running(Len(stack), MoveTo(frames, frame.ip + width), open_upvalues, k, functions)
  <2> DEFINE top == frames[Len(frames)]
             fn == functions[Runs(top, k)]
             n == Len(stack)
  <2>1. fn = function /\ top = frame
    BY <1>4, <1>9
  <2>2. /\ Grows(k, k) /\ n \in Nat
        /\ frame.ip + width \in Successors(functions, fn, top.ip, ByteSize)
        /\ Effect(fn, top.ip) = 0 /\ OpAt(fn, top.ip) \notin {"Closure", "CloseUpvalue"}
    BY <1>1, <1>2, <1>3, <1>9, <2>1, GrowsRefl DEF Shaped
  <2>3. n = n + Effect(fn, top.ip)
    BY <2>2
  <2>4. CapturedAfter(functions, fn, top.ip, At(top, k, functions)) = At(top, k, functions).captured
    BY <2>2 DEF CapturedAfter
  <2>5. \A u \in open_upvalues : top.slot_base < k[u].location =>
          k[u].location - top.slot_base - 1 \in At(top, k, functions).captured
    BY <1>4, <1>9, <2>2, TopFrame
  <2>6. \A u \in open_upvalues : k[u].location \in Nat
    BY <1>4 DEF OpenOK
  <2> HIDE DEF n
  <2>7. Running(n, MoveTo(frames, frame.ip + width), open_upvalues, k, functions)
    <3>1. Running(n, frames, open_upvalues, k, functions)
      BY <1>4 DEF n
    <3>2. \A u \in open_upvalues :
            /\ k[u].location \in Nat
            /\ k[u].location <= top.slot_base => u \in open_upvalues /\ k[u].location = k[u].location
            /\ top.slot_base < k[u].location =>
                 k[u].location - top.slot_base - 1 \in
                   CapturedAfter(functions, fn, top.ip, At(top, k, functions))
      BY <2>4, <2>5, <2>6
    <3> DEFINE s == frame.ip + width
    <3>3. s \in Successors(functions, functions[Runs(frames[Len(frames)], k)], frames[Len(frames)].ip, ByteSize)
      BY <2>2
    <3> HIDE DEF s
    <3>4. Running(n, MoveTo(frames, s), open_upvalues, k, functions)
      BY <1>4, <1>9, <2>2, <2>3, <3>1, <3>2, <3>3, Advance
    <3> QED
      BY <3>4 DEF s
  <2> QED
    BY <2>7 DEF n
<1>12. frames' = MoveTo(frames, frame.ip + width)
  BY <1>9 DEF ip_plus, MoveTo
<1>13. functions' = functions /\ script' = script /\ status' = status /\ error_message' = error_message
  BY <1>1 DEF fixedV, resultV
<1>14. Counts'
  BY <1>5, <1>13 DEF IInv, Counts
<1>15. Result'
  BY <1>1, <1>13 DEF IInv, Result, CleanExit
<1>16. HeapOK(heap', functions', born') /\ ValuesOK(stack', heap') /\ GlobalsOK(globals', heap')
  BY <1>1, <1>4, <1>5, <1>7, <1>13
<1>17. OpenOK(open_upvalues', heap', Len(stack'))
  BY <1>1, <1>4, <1>5, <1>8
<1>18. FramesOK(frames', heap') /\ Running(Len(stack'), frames', open_upvalues', heap', functions')
  BY <1>1, <1>5, <1>8, <1>10, <1>11, <1>12, <1>13
<1> QED
  BY <1>14, <1>15, <1>16, <1>17, <1>18 DEF IInv

\* call_native
LEMMA NativeIInv ==
  ASSUME IInv, NEW argc, NEW stk, NEW width, Calling(argc, stk, width),
         \A i \in 1 .. Len(stack) - argc - 1 : stk[i] = stack[i],
         NEW name, call_native(name, argc, stk, width)
  PROVE  IInv'
<1>1. frames' = ip_plus(width)
  BY DEF call_native
<1>2. CASE argc # 0
  <2>1. runtime_error("wrong number of arguments") /\ stack' = stk /\ UNCHANGED gcV
    BY <1>2 DEF call_native
  <2>2. Allocated /\ heap' = heap
    BY <2>1, NothingAllocated DEF gcV
  <2>3. ValuesOK(stack', heap') /\ Len(stack') = Len(stack)
    BY <2>1, <2>2 DEF Calling
  <2> QED
    BY <1>1, <2>1, <2>2, <2>3, CallingErrorIInv
<1>3. CASE argc = 0
  <2>1. /\ UNCHANGED resultV
        /\ \/ (\E t \in ClockReadings : stack' = Append(popped(1), Num(t))) /\ UNCHANGED gcV
           \/ collect(stk) /\ stack' = Append(popped(1), Num(Cardinality(DOMAIN heap')))
    BY <1>3 DEF call_native
  <2>2. Calling(0, stk, width)
    BY <1>3
  <2>3. CASE (\E t \in ClockReadings : stack' = Append(popped(1), Num(t))) /\ UNCHANGED gcV
    <3>1. PICK t \in ClockReadings : stack' = Append(popped(1), Num(t))
      BY <2>3
    <3> QED
      BY <1>1, <2>1, <2>2, <2>3, <3>1, ClockIInv
  <2>4. CASE collect(stk) /\ stack' = Append(popped(1), Num(Cardinality(DOMAIN heap')))
    <3>1. \A i \in 1 .. Len(stack) - 1 : stk[i] = stack[i]
      <4>1. Len(stack) \in Nat
        BY CalleeSlot
      <4>2. Len(stack) - 0 - 1 = Len(stack) - 1
        BY <4>1
      <4> QED
        BY <1>3, <4>2
    <3> DEFINE t == Cardinality(DOMAIN heap')
    <3>2. collect(stk) /\ stack' = Append(popped(1), Num(t))
      BY <2>4
    <3> HIDE DEF t
    <3> QED
      BY <1>1, <2>1, <2>2, <3>1, <3>2, GcIInv
  <2> QED
    BY <2>1, <2>3, <2>4
<1> QED
  BY <1>2, <1>3

\* call_value, whatever the callee is.
LEMMA CallValueIInv ==
  ASSUME IInv, NEW argc, NEW stk, NEW width, Calling(argc, stk, width),
         \A i \in 1 .. Len(stack) - argc - 1 : stk[i] = stack[i],
         NEW callee, ValueOK(callee, heap), call_value(callee, argc, stk, width)
  PROVE  IInv'
<1>1. /\ Len(stack) \in Nat /\ argc \in Nat /\ argc + 1 \in Nat /\ callee_slot(argc) \in 1 .. Len(stk)
      /\ Len(stk) - argc = Len(stack) + (1 - (argc + 1))
      /\ byte(0) \in {"Call"} \cup InvokeOps
  BY CalleeSlot
<1>2. /\ status = "running" /\ UNCHANGED fixedV /\ globals' = globals /\ open_upvalues' = open_upvalues
      /\ Shaped(functions, function, frame.ip, ByteSize, width, argc + 1, 1 - (argc + 1))
      /\ function.code[frame.ip + width] = argc
      /\ ValuesOK(stk, heap) /\ Len(stk) = Len(stack)
  BY DEF Calling
<1>3. ASSUME UNCHANGED gcV PROVE Allocated /\ heap' = heap
  BY <1>3, NothingAllocated DEF gcV
<1>4. CASE callee[1] = "Closure"
  <2>1. call(callee[2], argc, stk, width) /\ UNCHANGED gcV
    BY <1>4 DEF call_value
  <2>2. IsA(callee[2], "Closure", heap)
    BY <1>4 DEF ValueOK, PointerTags
  <2>3. Allocated /\ ValuesOK(stk, heap')
    BY <1>2, <1>3, <2>1
  <2> QED
    BY <1>1, <1>2, <2>1, <2>2, <2>3, CallIInv
<1>5. CASE callee[1] = "BoundMethod"
  <2> DEFINE bound == heap[callee[2]]
             loc == callee_slot(argc)
             v == bound.receiver
             with == [stk EXCEPT ![loc] = v]
  <2>1. call(bound.method, argc, with, width) /\ UNCHANGED gcV
    BY <1>5 DEF call_value
  <2>2. ValueOK(v, heap) /\ IsA(bound.method, "Closure", heap)
    BY <1>5, InstanceParts DEF ValueOK, PointerTags
  <2>3. loc \in 1 .. Len(stk)
    BY <1>1
  <2> HIDE DEF loc, v, bound
  <2>4. ValuesOK(with, heap) /\ Len(with) = Len(stk)
    BY <1>2, <2>2, <2>3, SetValue
  <2> HIDE DEF with
  <2>5. Allocated /\ ValuesOK(with, heap')
    BY <1>3, <2>1, <2>4
  <2>6. Len(with) - argc = Len(stack) + (1 - (argc + 1))
    BY <1>1, <2>4
  <2> QED
    BY <1>1, <1>2, <2>1, <2>2, <2>5, <2>6, CallIInv
<1>6. CASE callee[1] = "Class"
  <2>1. construct(callee[2], argc, stk, width)
    BY <1>6 DEF call_value
  <2>2. IsA(callee[2], "Class", heap)
    BY <1>6 DEF ValueOK, PointerTags
  <2> QED
    BY <2>1, <2>2, ConstructIInv
<1>7. CASE callee[1] = "native"
  <2>1. call_native(callee[2], argc, stk, width)
    BY <1>7 DEF call_value
  <2> QED
    BY <2>1, NativeIInv
<1>8. CASE callee[1] \notin {"Closure", "BoundMethod", "Class", "native"}
  <2>1. /\ runtime_error("can only call functions and classes") /\ stack' = stk
        /\ frames' = ip_plus(width) /\ UNCHANGED gcV
    BY <1>8 DEF call_value
  <2>2. Allocated /\ ValuesOK(stack', heap') /\ Len(stack') = Len(stack)
    BY <1>2, <1>3, <2>1
  <2> QED
    BY <2>1, <2>2, CallingErrorIInv
<1> QED
  BY <1>4, <1>5, <1>6, <1>7, <1>8

\* OpCall
LEMMA CallOpIInv == ASSUME IInv, UNCHANGED fixedV, OpCall PROVE IInv'
<1> DEFINE argc == byte(1)
<1>1. /\ status = "running" /\ byte(0) = "Call" /\ globals' = globals /\ open_upvalues' = open_upvalues
      /\ call_value(peek(argc), argc, stack, 2)
  BY DEF OpCall, Fetch
<1>2. /\ argc \in Nat /\ function.code[frame.ip + 2] = argc
      /\ Shaped(functions, function, frame.ip, ByteSize, 2, argc + 1, 1 - (argc + 1))
  BY <1>1, CallSite
<1> HIDE DEF argc
<1>3. Calling(argc, stack, 2)
  BY <1>1, <1>2 DEF Calling, IInv
<1>4. argc < Len(stack)
  BY <1>3, CalleeSlot
<1>5. ValueOK(peek(argc), heap)
  BY <1>2, <1>4, Peek
<1> QED
  BY <1>1, <1>3, <1>5, CallValueIInv

\* OpInvoke calls a field, a method of the instance's class, or fails.
LEMMA InvokeIInv == ASSUME IInv, UNCHANGED fixedV, OpInvoke PROVE IInv'
<1> DEFINE name == string(1)
           argc == byte(2)
           o == peek(argc)[2]
<1>1. /\ status = "running" /\ byte(0) = "Invoke" /\ globals' = globals /\ open_upvalues' = open_upvalues
  BY DEF OpInvoke, Fetch
<1>2. /\ argc \in Nat /\ function.code[frame.ip + 3] = argc
      /\ Shaped(functions, function, frame.ip, ByteSize, 3, argc + 1, 1 - (argc + 1))
  BY <1>1, CallSite
<1>3. CASE peek(argc)[1] # "Instance"
  <2>1. ErrorOp(3, "only instances have methods")
    BY <1>1, <1>3 DEF OpInvoke, ErrorOp
  <2> QED
    BY <1>1, <2>1, ErrorOpIInv
<1>4. CASE peek(argc)[1] = "Instance"
  <2>1. ValuesOK(stack, heap)
    BY DEF IInv
  <2>2. Calling(argc, stack, 3)
    BY <1>1, <1>2, <2>1 DEF Calling
  <2>3. /\ argc < Len(stack) /\ Len(stack) \in Nat /\ callee_slot(argc) \in 1 .. Len(stack)
        /\ argc + 1 \in Nat /\ Len(stack) - argc = Len(stack) + (1 - (argc + 1))
        /\ byte(0) \in {"Call"} \cup InvokeOps /\ byte(0) # "CloseUpvalue"
    BY <2>2, CalleeSlot
  <2>4. ValueOK(peek(argc), heap)
    BY <1>2, <2>3, Peek
  <2>5. IsA(o, "Instance", heap)
    BY <1>4, <2>4 DEF ValueOK, PointerTags
  <2>6. /\ IsA(heap[o].klass, "Class", heap)
        /\ \A f \in DOMAIN heap[o].fields : ValueOK(heap[o].fields[f], heap)
    BY <2>5, InstanceParts
  <2>7. CASE name \in DOMAIN heap[o].fields
    <3> DEFINE v == heap[o].fields[name]
               loc == callee_slot(argc)
               with == [stack EXCEPT ![loc] = v]
    <3>1. call_value(v, argc, with, 3)
      BY <1>4, <2>7 DEF OpInvoke
    <3>2. ValueOK(v, heap) /\ loc \in 1 .. Len(stack) /\ loc = Len(stack) - argc
      BY <2>3, <2>6, <2>7 DEF callee_slot
    <3> HIDE DEF v, loc, argc
    <3>3. ValuesOK(with, heap) /\ Len(with) = Len(stack)
      BY <2>1, <3>2, SetValue
    <3>4. \A i \in 1 .. Len(stack) - argc - 1 : with[i] = stack[i]
      <4>1. IsList(stack)
        BY <2>1 DEF ValuesOK
      <4>2. \A i \in 1 .. Len(stack) : i # loc => with[i] = stack[i]
        BY <4>1, <3>2, ListExcept
      <4>3. \A i \in 1 .. Len(stack) - argc - 1 : i \in 1 .. Len(stack) /\ i # loc
        BY <1>2, <2>3, <3>2
      <4> QED
        BY <4>2, <4>3
    <3> HIDE DEF with
    <3>5. Calling(argc, with, 3)
      BY <2>2, <3>3 DEF Calling
    <3> QED
      BY <3>1, <3>2, <3>4, <3>5, CallValueIInv
  <2>8. CASE name \notin DOMAIN heap[o].fields
    <3> DEFINE klass == heap[o].klass
    <3>1. invoke_from_class(klass, name, argc, stack, 3)
      BY <1>4, <2>8 DEF OpInvoke
    <3>2. Allocated /\ heap' = heap
      BY <3>1, NothingAllocated DEF gcV, invoke_from_class
    <3>3. ValuesOK(stack, heap')
      BY <2>1, <3>2
    <3> HIDE DEF argc, klass, name, o
    <3>4. CASE name \in DOMAIN heap[klass].methods
      <4>1. call(heap[klass].methods[name], argc, stack, 3)
        BY <3>1, <3>4 DEF invoke_from_class
      <4>2. IsA(heap[klass].methods[name], "Closure", heap)
        BY <2>6, <3>4, InstanceParts DEF klass
      <4> QED
        BY <1>1, <1>2, <2>3, <3>2, <3>3, <4>1, <4>2, CallIInv
    <3>5. CASE name \notin DOMAIN heap[klass].methods
      <4>1. runtime_error("undefined property") /\ stack' = stack /\ frames' = ip_plus(3)
        BY <3>1, <3>5 DEF invoke_from_class
      <4>2. ValuesOK(stack', heap') /\ Len(stack') = Len(stack)
        BY <3>3, <4>1
      <4> QED
        BY <2>2, <3>2, <4>1, <4>2, CallingErrorIInv
    <3> QED
      BY <3>4, <3>5
  <2> QED
    BY <2>7, <2>8
<1> QED
  BY <1>3, <1>4

\* OpSuperInvoke calls a method of the superclass it pops, or fails.
LEMMA SuperInvokeIInv == ASSUME IInv, UNCHANGED fixedV, OpSuperInvoke PROVE IInv'
<1> DEFINE name == string(1)
           argc == byte(2)
           klass == peek(0)[2]
           stk == popped(1)
<1>1. /\ status = "running" /\ byte(0) = "SuperInvoke" /\ peek(0)[1] = "Class"
      /\ globals' = globals /\ open_upvalues' = open_upvalues
      /\ invoke_from_class(klass, name, argc, stk, 3)
  BY DEF OpSuperInvoke, Fetch
<1>2. /\ argc \in Nat /\ function.code[frame.ip + 3] = argc
      /\ Shaped(functions, function, frame.ip, ByteSize, 3, argc + 2, 1 - (argc + 2))
  BY <1>1, CallSite
<1> HIDE DEF argc
<1>3. argc + 2 \in Nat
  BY <1>2
<1>4. Len(stack) \in Nat /\ argc + 2 < Len(stack) /\ ValueOK(peek(0), heap)
  BY <1>1, <1>2, <1>3, Taken
<1>5. ValuesOK(stk, heap) /\ Len(stk) = Len(stack) - 1
  <2>1. 1 \in Nat /\ 1 < Len(stack)
    BY <1>2, <1>4
  <2> QED
    BY <2>1, Peek
<1>6. IsA(klass, "Class", heap)
  BY <1>1, <1>4 DEF ValueOK, PointerTags
<1>7. Allocated /\ heap' = heap
  BY <1>1, NothingAllocated DEF gcV, invoke_from_class
<1> HIDE DEF stk, klass, name
<1>8. ValuesOK(stk, heap')
  BY <1>5, <1>7
<1>9. byte(0) \in {"Call"} \cup InvokeOps /\ byte(0) # "CloseUpvalue"
  BY <1>1 DEF InvokeOps
<1>10. CASE name \in DOMAIN heap[klass].methods
  <2>1. call(heap[klass].methods[name], argc, stk, 3)
    BY <1>1, <1>10 DEF invoke_from_class
  <2>2. IsA(heap[klass].methods[name], "Closure", heap)
    BY <1>6, <1>10, InstanceParts
  <2>3. Len(stk) - argc = Len(stack) + (1 - (argc + 2))
    BY <1>2, <1>4, <1>5
  <2> QED
    BY <1>1, <1>2, <1>3, <1>7, <1>8, <1>9, <2>1, <2>2, <2>3, CallIInv
<1>11. CASE name \notin DOMAIN heap[klass].methods
  <2>1. runtime_error("undefined property") /\ stack' = stk /\ frames' = ip_plus(3)
    BY <1>1, <1>11 DEF invoke_from_class
  <2>2. Needs(function, frame.ip) = argc + 2
    BY <1>2 DEF Shaped
  <2>3. Len(stack) - (argc + 2) <= Len(stack) - 1
    BY <1>2, <1>4
  <2>4. Len(stack) - Needs(function, frame.ip) <= Len(stack')
    BY <1>5, <2>1, <2>2, <2>3
  <2> QED
    BY <1>1, <1>7, <1>8, <1>9, <2>1, <2>4, CallErrorIInv
<1> QED
  BY <1>10, <1>11

-----------------------------------------------------------------------------
(***************************************************************************)
(* The invariants.                                                         *)
(***************************************************************************)
\* VM::VM and VM::run: the script's closure is on the stack and in the one frame.
LEMMA InitIInv == Init => IInv
<1> SUFFICES ASSUME Init PROVE IInv
  OBVIOUS
<1> DEFINE closure == ObjClosure(Len(functions), <<>>)
<1>1. script \in DOMAIN Scripts /\ functions = Scripts[script]
  BY DEF Init
<1>2. VerifiedScript(functions, ByteSize)
  BY <1>1, CodeVerified
<1>3. /\ Len(functions) \in DOMAIN functions /\ functions[Len(functions)].arity = 0
      /\ functions[Len(functions)].upvalue_count = 0
      /\ 0 \in DOMAIN MapOf(functions, Len(functions))
      /\ MapOf(functions, Len(functions))[0].height = 1 + 0
  <2>1. Len(functions) \in DOMAIN functions
    BY <1>2 DEF VerifiedScript
  <2> QED
    BY <1>2, <2>1, VerifiedEntry
<1>4. /\ DOMAIN heap = {1} /\ heap[1] = closure /\ heap[1].type = "Closure"
      /\ heap[1].function = Len(functions) /\ heap[1].upvalues = <<>>
  BY DEF Init, ObjClosure
<1>5. Counts /\ born = 1
  <2>1. born = 1 /\ allocations_since_gc = 1
    BY DEF Init
  <2> QED
    BY <1>1, <2>1 DEF Counts
<1>6. Result
  BY DEF Init, Result, CleanExit
<1>7. IsA(1, "Closure", heap)
  BY <1>4 DEF IsA
<1>8. HeapOK(heap, functions, born)
  <2>1. DOMAIN heap[1].upvalues = {} /\ 1 .. 0 = {}
    BY <1>4, ListEmpty
  <2>2. ObjectOK(heap[1], heap, functions)
    BY <1>3, <1>4, <2>1 DEF ObjectOK, HeapTags, PointerTags
  <2>3. DOMAIN heap \subseteq 1 .. born
    BY <1>4, <1>5
  <2> QED
    BY <1>4, <2>2, <2>3 DEF HeapOK
<1>9. ValuesOK(stack, heap) /\ Len(stack) = 1
  <2> DEFINE v == <<"Closure", 1>>
  <2>1. stack = <<v>>
    BY DEF Init
  <2>2. ValueOK(v, heap)
    BY <1>7 DEF ValueOK, PointerTags
  <2> HIDE DEF v
  <2>3. IsList(stack) /\ Len(stack) = 1 /\ stack[1] = v
    BY <2>1, ListOfOne
  <2> QED
    BY <2>2, <2>3 DEF ValuesOK
<1>10. GlobalsOK(globals, heap)
  BY DEF Init, GlobalsOK, ValueOK, PointerTags
<1>11. Open(heap) = {} /\ open_upvalues = {}
  BY <1>4 DEF Init, Open
<1>12. OpenOK(open_upvalues, heap, Len(stack))
  BY <1>11 DEF OpenOK
<1>13. /\ IsList(frames) /\ Len(frames) = 1
       /\ frames[1].closure = 1 /\ frames[1].ip = 0 /\ frames[1].slot_base = 0
  <2>1. frames = <<CallFrame(1, 0, 0)>>
    BY DEF Init
  <2>2. IsList(frames) /\ Len(frames) = 1 /\ frames[1] = CallFrame(1, 0, 0)
    BY <2>1, ListOfOne
  <2> QED
    BY <2>2 DEF CallFrame
<1>14. FramesOK(frames, heap)
  BY <1>7, <1>13, VmAssumption DEF FramesOK
<1>15. FrameOK(1, Len(stack), frames, open_upvalues, heap, functions)
  <2>1. Runs(frames[1], heap) = Len(functions)
    BY <1>4, <1>13 DEF Runs
  <2>2. At(frames[1], heap, functions).height = 1
    BY <1>3, <1>13, <2>1 DEF At
  <2> QED
    BY <1>3, <1>9, <1>11, <1>13, <2>1, <2>2 DEF FrameOK, Ceiling
<1>16. Running(Len(stack), frames, open_upvalues, heap, functions)
  <2>1. Runs(frames[1], heap) = Len(functions)
    BY <1>4, <1>13 DEF Runs
  <2> QED
    BY <1>13, <1>15, <2>1 DEF Running
<1> QED
  BY <1>5, <1>6, <1>8, <1>9, <1>10, <1>12, <1>14, <1>16 DEF IInv

\* Every instruction keeps the invariant.
LEMMA InstructionIInv == ASSUME IInv, UNCHANGED fixedV, Instruction PROVE IInv'
<1>1. CASE OpConstant \/ OpNil \/ OpTrue \/ OpFalse
  BY <1>1, LiteralsIInv
<1>2. CASE OpPop
  BY <1>2, PopIInv
<1>3. CASE OpGetLocal \/ OpSetLocal
  BY <1>3, LocalsIInv
<1>4. CASE OpEqual \/ OpArith \/ OpAdd \/ OpNot \/ OpNegate
  BY <1>4, OperatorsIInv
<1>5. CASE OpPrint
  BY <1>5, PrintIInv
<1>6. CASE OpJump \/ OpJumpIfFalse \/ OpLoop
  BY <1>6, JumpsIInv
<1>7. CASE OpGetGlobal \/ OpDefineGlobal \/ OpSetGlobal
  BY <1>7, GlobalsIInv
<1>8. CASE OpGetUpvalue
  BY <1>8, GetUpvalueIInv
<1>9. CASE OpSetUpvalue
  BY <1>9, SetUpvalueIInv
<1>10. CASE OpClosure
  BY <1>10, ClosureIInv
<1>11. CASE OpCloseUpvalue
  BY <1>11, CloseUpvalueIInv
<1>12. CASE OpCall
  BY <1>12, CallOpIInv
<1>13. CASE OpInvoke
  BY <1>13, InvokeIInv
<1>14. CASE OpSuperInvoke
  BY <1>14, SuperInvokeIInv
<1>15. CASE OpReturn
  BY <1>15, ReturnIInv
<1>16. CASE OpClass
  BY <1>16, ClassIInv
<1>17. CASE OpGetProperty
  BY <1>17, GetPropertyIInv
<1>18. CASE OpSetProperty
  BY <1>18, SetPropertyIInv
<1>19. CASE OpGetSuper
  BY <1>19, GetSuperIInv
<1>20. CASE OpInherit
  BY <1>20, InheritIInv
<1>21. CASE OpMethod
  BY <1>21, MethodIInv
<1> QED
  BY <1>1, <1>2, <1>3, <1>4, <1>5, <1>6, <1>7, <1>8, <1>9, <1>10, <1>11, <1>12, <1>13, <1>14,
     <1>15, <1>16, <1>17, <1>18, <1>19, <1>20, <1>21 DEF Instruction

\* So does every step, and a step that changes nothing.
LEMMA NextIInv == IInv /\ [Next]_vars => IInv'
<1> SUFFICES ASSUME IInv, [Next]_vars PROVE IInv'
  OBVIOUS
<1>1. CASE Collect
  BY <1>1, CollectIInv
<1>2. CASE Instruction /\ UNCHANGED fixedV
  BY <1>2, InstructionIInv
<1>3. CASE UNCHANGED vars
  <2>1. /\ UNCHANGED <<script, functions, stack, frames, globals, open_upvalues, heap, born>>
        /\ UNCHANGED <<allocations_since_gc, status, error_message>>
    BY <1>3 DEF vars, fixedV, gcV, resultV
  <2>2. Counts' /\ Result'
    BY <2>1 DEF IInv, Counts, Result, CleanExit
  <2> QED
    BY <2>1, <2>2 DEF IInv
<1> QED
  BY <1>1, <1>2, <1>3 DEF Next

\* The invariant holds of every verified script, with every threshold.
THEOREM VMIInv == Spec => []IInv
<1>1. Init => IInv
  BY InitIInv
<1>2. IInv /\ [Next]_vars => IInv'
  BY NextIInv
<1> QED
  BY <1>1, <1>2, PTL DEF Spec

\* The state of execute keeps its shape, and the frame stack its bound.
THEOREM TypeCorrect == Spec => []TypeOK
<1>1. IInv => TypeOK
  <2> SUFFICES ASSUME IInv PROVE TypeOK
    OBVIOUS
  <2>1. \A o \in DOMAIN heap : heap[o].type \in HeapTags
    BY DEF IInv, HeapOK, ObjectOK
  <2>2. DOMAIN heap \subseteq 1 .. born
    BY DEF IInv, HeapOK
  <2>3. IsList(frames) /\ DOMAIN frames = 1 .. Len(frames)
    BY ListLength DEF IInv, FramesOK
  <2>4. \A i \in DOMAIN frames : frames[i].closure \in Nat /\ frames[i].slot_base \in Nat
    BY <2>2, <2>3 DEF IInv, FramesOK, IsA
  <2>5. Len(frames) <= kFramesMax
    BY DEF IInv, FramesOK
  <2>6. /\ status \in {"running", "Ok", "RuntimeError"}
        /\ status = "RuntimeError" <=> error_message # ""
        /\ allocations_since_gc \in 0 .. born
    BY DEF IInv, Counts, Result
  <2> QED
    BY <2>1, <2>2, <2>4, <2>5, <2>6 DEF TypeOK
<1> QED
  BY <1>1, VMIInv, PTL

\* A value that the program can hold is valid as a pointer.
LEMMA GoodPointer ==
  ASSUME NEW v, ValueOK(v, heap), v[1] \in HeapTags
  PROVE  v[2] \in DOMAIN heap /\ heap[v[2]].type = v[1]
BY DEF ValueOK, IsA, HeapTags

\* No pointer of the machine dangles or has lost its type: every root and every
\* field of an object leads to an allocated object of the type it was stored with,
\* whatever the collector has freed.
THEOREM NoPointerDangles == Spec => []PointersValid
<1>1. IInv => PointersValid
  <2> SUFFICES ASSUME IInv PROVE PointersValid
    OBVIOUS
  <2> DEFINE Good(v) == v[1] \in HeapTags => v[2] \in DOMAIN heap /\ heap[v[2]].type = v[1]
  <2>1. \A v : ValueOK(v, heap) => Good(v)
    BY GoodPointer
  <2>2. \A o, type : IsA(o, type, heap) => Good(<<type, o>>)
    BY DEF IsA
  <2> HIDE DEF Good
  <2>3. \A v \in Range(stack) \cup Range(globals) : Good(v)
    <3>1. DOMAIN stack = 1 .. Len(stack)
      BY ListLength DEF IInv, ValuesOK
    <3> QED
      BY <2>1, <3>1 DEF IInv, ValuesOK, GlobalsOK, Range
  <2>4. \A i \in DOMAIN frames : Good(<<"Closure", frames[i].closure>>)
    <3>1. DOMAIN frames = 1 .. Len(frames)
      BY ListLength DEF IInv, FramesOK
    <3> QED
      BY <2>2, <3>1 DEF IInv, FramesOK
  <2>5. \A u \in open_upvalues : Good(<<"Upvalue", u>>)
    BY <2>2 DEF IInv, OpenOK, Open, IsA
  <2>6. \A v \in RootValues : Good(v)
    BY <2>3, <2>4, <2>5 DEF RootValues
  <2>7. ASSUME NEW o \in DOMAIN heap, NEW v \in Pointers(heap[o]) PROVE Good(v)
    <3>1. ObjectOK(heap[o], heap, functions)
      BY DEF IInv, HeapOK
    <3>2. CASE heap[o].type = "Upvalue"
      BY <2>1, <2>7, <3>1, <3>2 DEF Pointers, ObjectOK
    <3>3. CASE heap[o].type = "Closure"
      BY <2>2, <2>7, <3>1, <3>3 DEF Pointers, ObjectOK, Range
    <3>4. CASE heap[o].type = "Class"
      BY <2>2, <2>7, <3>1, <3>4 DEF Pointers, ObjectOK, Range
    <3>5. CASE heap[o].type = "Instance"
      BY <2>1, <2>2, <2>7, <3>1, <3>5 DEF Pointers, ObjectOK, Range
    <3>6. CASE heap[o].type = "BoundMethod"
      BY <2>1, <2>2, <2>7, <3>1, <3>6 DEF Pointers, ObjectOK
    <3> QED
      BY <3>1, <3>2, <3>3, <3>4, <3>5, <3>6 DEF ObjectOK, HeapTags, PointerTags
  <2>8. \A v \in RootValues \cup UNION {Pointers(heap[o]) : o \in DOMAIN heap} : Good(v)
    BY <2>6, <2>7
  <2> QED
    BY <2>8 DEF PointersValid, Good
<1> QED
  BY <1>1, VMIInv, PTL

\* open_upvalues_ is exact: capture_upvalue shares, close_upvalues and the
\* CloseUpvalue of a scope's end close in time, and no collection loses one.
THEOREM UpvaluesExact == Spec => []OpenUpvaluesExact
<1>1. IInv => OpenUpvaluesExact
  BY DEF IInv, OpenOK, Open, OpenUpvaluesExact
<1> QED
  BY <1>1, VMIInv, PTL

\* A program that ends normally leaves no value, frame or open upvalue behind.
THEOREM ExitIsClean == Spec => []CleanExit
<1>1. IInv => CleanExit
  BY DEF IInv, Result
<1> QED
  BY <1>1, VMIInv, PTL

\* An instruction has at least one cell.
LEMMA WidthPositive ==
  ASSUME NEW fns, VerifiedScript(fns, ByteSize), NEW f \in DOMAIN fns, NEW ip \in DOMAIN MapOf(fns, f)
  PROVE  Width(fns, fns[f], ip) \in Nat \ {0}
<1>1. /\ OpAt(fns[f], ip) \in Opcodes /\ Works(fns, fns[f], ip, ByteSize, MapOf(fns, f)[ip])
  BY VerifiedAt
<1>2. CASE OpAt(fns[f], ip) = "Closure"
  <2> DEFINE count == ClosureFunction(fns, fns[f], ip).upvalue_count
  <2>1. count \in Nat
    BY <1>1, <1>2 DEF Works, OperandsExist, ClosureFunction, VerifiedScript
  <2>2. Width(fns, fns[f], ip) = 2 + 2 * count
    BY <1>2, ShapePush DEF Shaped
  <2> HIDE DEF count
  <2> QED
    BY <2>1, <2>2
<1>3. CASE OpAt(fns[f], ip) # "Closure"
  BY <1>1, <1>3
     DEF Opcodes, Width, OneCell, NameOps, SlotOps, UpvalueOps, JumpOps, InvokeOps
<1> QED
  BY <1>2, <1>3

\* A frame is at an instruction of its function and lies above the frames below
\* it with room for its callee and arguments.
LEMMA FramePlace ==
  ASSUME IInv, status = "running", NEW i \in 1 .. Len(frames)
  PROVE  LET fn == function_of(frames[i].closure)
         IN  frames[i].ip < Len(fn.code) /\ frames[i].slot_base + fn.arity < Len(stack)
<1> DEFINE f == Runs(frames[i], heap)
           N == Len(frames)
           fn == functions[f]
<1>1. /\ VerifiedScript(functions, ByteSize) /\ Len(stack) \in Nat /\ N \in Nat \ {0}
      /\ frame = frames[N] /\ frame.slot_base \in Nat /\ Len(stack) = frame.slot_base + here.height
  BY AtInstruction
<1>2. /\ HeapOK(heap, functions, born) /\ FramesOK(frames, heap)
      /\ Running(Len(stack), frames, open_upvalues, heap, functions)
  BY DEF IInv
<1>3. here.height \in Nat /\ here.height >= 1
  BY Operands
<1>4. FrameOK(i, Len(stack), frames, open_upvalues, heap, functions)
  BY <1>2 DEF Running
<1>5. IsA(frames[i].closure, "Closure", heap) /\ frames[i].slot_base \in Nat
  BY <1>2 DEF FramesOK
<1>6. f \in DOMAIN functions /\ function_of(frames[i].closure) = fn
  BY <1>2, <1>5 DEF HeapOK, ObjectOK, IsA, Runs, function_of
<1>7. frames[i].ip \in DOMAIN MapOf(functions, f)
  BY <1>4 DEF FrameOK
<1>8. /\ At(frames[i], heap, functions).height \in Nat /\ fn.arity \in Nat
      /\ 1 + fn.arity <= At(frames[i], heap, functions).height
  <2>1. fn.arity \in Nat
    BY <1>1, <1>6, VerifiedEntry
  <2> QED
    BY <1>1, <1>6, <1>7, <2>1, EffectAt DEF At
<1>9. frames[i].ip < Len(fn.code)
  <2> DEFINE ip == frames[i].ip
             w == Width(functions, fn, ip)
             size == Len(fn.code)
  <2>1. ip \in Nat /\ ip + w <= size
    BY <1>1, <1>6, <1>7, VerifiedAt DEF Works
  <2>2. w \in Nat \ {0}
    BY <1>1, <1>6, <1>7, WidthPositive
  <2>3. size \in Nat
    BY <1>1, <1>6 DEF VerifiedScript
  <2> HIDE DEF ip, w, size
  <2>4. ip < size
    BY <2>1, <2>2, <2>3
  <2> QED
    BY <2>4 DEF ip, size
<1>10. frames[i].slot_base + fn.arity < Len(stack)
  <2> DEFINE base == frames[i].slot_base
             height == At(frames[i], heap, functions).height
             arity == fn.arity
  <2>1. Ceiling(frames, i, Len(stack)) = base + height
    BY <1>4 DEF FrameOK
  <2>2. base \in Nat /\ height \in Nat /\ arity \in Nat /\ 1 + arity <= height
    BY <1>5, <1>8
  <2>3. CASE i = N
    <3>1. Len(stack) = base + height
      BY <2>1, <2>3 DEF Ceiling
    <3> HIDE DEF base, height, arity
    <3>2. base + arity < Len(stack)
      BY <3>1, <2>2
    <3> QED
      BY <3>2 DEF base, arity
  <2>4. CASE i # N
    <3> DEFINE above == frames[i + 1].slot_base
               top == frame.slot_base
    <3>1. above + 1 = base + height
      BY <2>1, <2>4 DEF Ceiling
    <3>2. i + 1 \in 1 .. N
      BY <1>1, <2>4
    <3>3. above \in Nat
      BY <1>2, <3>2 DEF FramesOK
    <3>4. above <= top
      <4>1. CASE i + 1 = N
        BY <1>1, <3>3, <4>1
      <4>2. CASE i + 1 # N
        <5>1. FrameOK(i + 1, Len(stack), frames, open_upvalues, heap, functions)
          BY <1>2, <3>2 DEF Running
        <5>2. N \in 1 .. N /\ i + 1 < N
          BY <1>1, <3>2, <4>2
        <5>3. above < top
          BY <1>1, <5>1, <5>2 DEF FrameOK
        <5> QED
          BY <1>1, <3>3, <5>3
      <4> QED
        BY <4>1, <4>2
    <3>5. top \in Nat /\ top < Len(stack)
      <4> DEFINE h == here.height
      <4>1. Len(stack) = top + h /\ h \in Nat /\ h >= 1 /\ top \in Nat
        BY <1>1, <1>3
      <4> HIDE DEF h, top
      <4> QED
        BY <4>1
    <3> HIDE DEF base, height, arity, above, top
    <3>6. base + arity < Len(stack)
      BY <1>1, <2>2, <3>1, <3>3, <3>4, <3>5
    <3> QED
      BY <3>6 DEF base, arity
  <2> QED
    BY <2>3, <2>4
<1> QED
  BY <1>6, <1>9, <1>10

\* The frames of a running machine are stacked by the calls that made them: each
\* begins above the last one's, at an instruction of its function, and a frame
\* below another has stopped just after a call with that frame's argument count.
THEOREM CallsNest == Spec => []FramesNested
<1>1. IInv => FramesNested
  <2> SUFFICES ASSUME IInv, status = "running" PROVE FramesNested
    BY DEF FramesNested
  <2>1. /\ VerifiedScript(functions, ByteSize) /\ Len(frames) \in Nat \ {0}
        /\ HeapOK(heap, functions, born) /\ FramesOK(frames, heap)
        /\ Running(Len(stack), frames, open_upvalues, heap, functions)
    BY AtInstruction DEF IInv
  <2>2. DOMAIN frames = 1 .. Len(frames) /\ frames # <<>>
    BY <2>1, ListLength, ListEmpty DEF FramesOK
  <2>3. frames[1].slot_base = 0
    BY <2>1 DEF Running
  <2>4. \A i \in DOMAIN frames :
          LET fn == function_of(frames[i].closure)
          IN  frames[i].ip < Len(fn.code) /\ frames[i].slot_base + fn.arity < Len(stack)
    BY <2>2, FramePlace
  <2>5. ASSUME NEW i \in 1 .. Len(frames) - 1
        PROVE  LET caller == function_of(frames[i].closure)
               IN  /\ frames[i].slot_base < frames[i + 1].slot_base
                   /\ \E start \in Decoded(functions, caller).starts :
                        /\ OpAt(caller, start) \in {"Call"} \cup InvokeOps
                        /\ start + Width(functions, caller, start) = frames[i].ip
                   /\ caller.code[frames[i].ip] = function_of(frames[i + 1].closure).arity
    <3>1. i \in 1 .. Len(frames) /\ i + 1 \in 1 .. Len(frames) /\ i < Len(frames) /\ i < i + 1
      BY <2>1
    <3>2. FrameOK(i, Len(stack), frames, open_upvalues, heap, functions)
      BY <2>1, <3>1 DEF Running
    <3>3. frames[i].slot_base < frames[i + 1].slot_base
      BY <3>1, <3>2 DEF FrameOK
    <3> DEFINE f == Runs(frames[i], heap)
               g == Runs(frames[i + 1], heap)
    <3>4. Calls(frames[i], heap, functions, functions[g].arity)
      BY <3>1, <3>2 DEF FrameOK
    <3>5. PICK start \in DOMAIN MapOf(functions, f) :
            /\ OpAt(functions[f], start) \in {"Call"} \cup InvokeOps
            /\ start + Width(functions, functions[f], start) = frames[i].ip
            /\ functions[f].code[frames[i].ip] = functions[g].arity
      BY <3>4 DEF Calls
    <3>6. f \in DOMAIN functions
      BY <2>1, <3>1 DEF FramesOK, HeapOK, ObjectOK, IsA, Runs
    <3>7. start \in Decoded(functions, functions[f]).starts
      BY <2>1, <3>6, VerifiedAt
    <3>8. function_of(frames[i].closure) = functions[f] /\ function_of(frames[i + 1].closure) = functions[g]
      BY DEF function_of, Runs
    <3> HIDE DEF f, g
    <3> QED
      BY <3>3, <3>5, <3>7, <3>8
  <2> QED
    BY <2>2, <2>3, <2>4, <2>5 DEF FramesNested
<1> QED
  BY <1>1, VMIInv, PTL
=============================================================================
