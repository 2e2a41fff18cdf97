------------------------------- MODULE Chunk -------------------------------
(***************************************************************************)
(* How a chunk's cells divide into instructions (bytecode/opcode.h and the *)
(* operands VM::execute reads).  The compiler writes this encoding and the *)
(* machine reads it; the properties of both are stated over it.            *)
(***************************************************************************)
EXTENDS Ast, SequencesExt

OneCell ==
  {"Nil", "True", "False", "Pop", "Equal", "Greater", "Less", "Add", "Subtract", "Multiply",
   "Divide", "Not", "Negate", "Print", "CloseUpvalue", "Return", "Inherit"}
NameOps == {"GetGlobal", "DefineGlobal", "SetGlobal", "GetProperty", "SetProperty", "GetSuper",
            "Class", "Method"}
SlotOps == {"GetLocal", "SetLocal"}
UpvalueOps == {"GetUpvalue", "SetUpvalue"}
JumpOps == {"Jump", "JumpIfFalse", "Loop"}
InvokeOps == {"Invoke", "SuperInvoke"}
Opcodes == OneCell \cup NameOps \cup SlotOps \cup UpvalueOps \cup JumpOps \cup InvokeOps
             \cup {"Constant", "Call", "Closure"}

\* The opcode at ip (0-based, as in the source) and the operand n cells on.
OpAt(fn, ip) == fn.code[ip + 1]
OperandAt(fn, ip, n) == fn.code[ip + 1 + n]

\* The function constant of the Closure at ip.
ClosureFunction(fns, fn, ip) == fns[fn.constants[OperandAt(fn, ip, 1) + 1][2]]

Width(fns, fn, ip) ==
  LET op == OpAt(fn, ip)
  IN  CASE op \in OneCell -> 1
        [] op \in NameOps \cup SlotOps \cup UpvalueOps \cup {"Constant", "Call"} -> 2
        [] op \in JumpOps \cup InvokeOps -> 3
        [] op = "Closure" -> 2 + 2 * ClosureFunction(fns, fn, ip).upvalue_count

\* The places where an instruction starts, reading the code from its first cell,
\* and where the last one ends.
Decoded(fns, fn) ==
  LET step(acc, i) ==
        IF i # acc.next THEN acc
        ELSE [starts |-> acc.starts \cup {i}, next |-> i + Width(fns, fn, i)]
  IN  FoldLeft(step, [starts |-> {}, next |-> 0], [k \in 1 .. Len(fn.code) |-> k - 1])

-----------------------------------------------------------------------------
(***************************************************************************)
(* What an instruction needs on the stack above its frame's base, and by   *)
(* how much it changes the height, as VM::execute has it.                  *)
(***************************************************************************)
PushOps == {"Constant", "Nil", "True", "False", "GetLocal", "GetGlobal", "GetUpvalue", "Closure",
            "Class"}
PopOps == {"Pop", "Print", "DefineGlobal", "CloseUpvalue", "Return"}
BinaryInstrs == {"Equal", "Greater", "Less", "Add", "Subtract", "Multiply", "Divide"}

Needs(fn, ip) ==
  LET op == OpAt(fn, ip)
  IN  CASE op \in PushOps \cup {"Jump", "Loop"} -> 0
        [] op \in PopOps \cup {"SetLocal", "SetGlobal", "SetUpvalue", "Not", "Negate", "GetProperty",
                               "JumpIfFalse"} -> 1
        [] op \in BinaryInstrs \cup {"SetProperty", "GetSuper", "Inherit", "Method"} -> 2
        [] op = "Call"        -> OperandAt(fn, ip, 1) + 1
        [] op = "Invoke"      -> OperandAt(fn, ip, 2) + 1
        [] op = "SuperInvoke" -> OperandAt(fn, ip, 2) + 2

Effect(fn, ip) ==
  LET op == OpAt(fn, ip)
  IN  CASE op \in PushOps -> 1
        [] op \in PopOps \cup BinaryInstrs \cup {"SetProperty", "GetSuper", "Inherit", "Method"} -> -1
        [] op \in {"Call", "Invoke", "SuperInvoke"} -> 1 - Needs(fn, ip)
        [] OTHER -> 0

\* The operand of a jump, in base cells, and where it lands.
JumpOffset(fn, ip, base) == OperandAt(fn, ip, 1) * base + OperandAt(fn, ip, 2)
JumpTarget(fn, ip, base) ==
  IF OpAt(fn, ip) = "Loop" THEN ip + 3 - JumpOffset(fn, ip, base)
  ELSE ip + 3 + JumpOffset(fn, ip, base)

Successors(fns, fn, ip, base) ==
  LET op == OpAt(fn, ip)
      after == ip + Width(fns, fn, ip)
  IN  CASE op = "Return"           -> {}
        [] op \in {"Jump", "Loop"} -> {JumpTarget(fn, ip, base)}
        [] op = "JumpIfFalse"      -> {after, JumpTarget(fn, ip, base)}
        [] OTHER                   -> {after}

-----------------------------------------------------------------------------
(***************************************************************************)
(* What is known of the stack at each instruction: the height above the    *)
(* frame's base, and the slots (0 for the callee) that an upvalue may      *)
(* still point at.                                                         *)
(***************************************************************************)
\* The slots of the enclosing function that the Closure at ip captures.
CapturedBy(fns, fn, ip) ==
  {OperandAt(fn, ip, 2 * k + 1) :
     k \in {j \in 1 .. ClosureFunction(fns, fn, ip).upvalue_count : OperandAt(fn, ip, 2 * j) = 1}}

\* What is captured after the instruction at ip, reached as at says.
CapturedAfter(fns, fn, ip, at) ==
  CASE OpAt(fn, ip) = "Closure"      -> at.captured \cup CapturedBy(fns, fn, ip)
    [] OpAt(fn, ip) = "CloseUpvalue" -> at.captured \ {at.height - 1}
    [] OTHER                         -> at.captured

\* The places that the entry of fn leads to, each with a height it is reached
\* with and all that may be captured there.  Only loops lead backward, so a
\* pass over the code from the entry and one for each loop that is reached do.
StackMap(fns, fn, base) ==
  LET starts == Decoded(fns, fn).starts
      ips == [k \in 1 .. Len(fn.code) |-> k - 1]
      flow(map, ip) ==
        IF ip \notin DOMAIN map \cap starts THEN map
        ELSE LET height == map[ip].height + Effect(fn, ip)
                 captured == CapturedAfter(fns, fn, ip, map[ip])
                 next == Successors(fns, fn, ip, base)
             IN  [t \in next |->
                    IF t \notin DOMAIN map THEN [height |-> height, captured |-> captured]
                    ELSE [height |-> map[t].height, captured |-> map[t].captured \cup captured]]
                 @@ map
      loops == SelectSeq(ips, LAMBDA ip : ip \in starts /\ OpAt(fn, ip) = "Loop")
      pass(map, from) == IF from \notin DOMAIN map THEN map ELSE FoldLeft(flow, map, ips)
  IN  FoldLeft(pass, 0 :> [height |-> 1 + fn.arity, captured |-> {}], <<0>> \o loops)

\* The operands of the instruction at ip name things that exist: a constant of
\* the kind it reads, an upvalue the closure has.
OperandsExist(fns, fn, ip) ==
  LET op == OpAt(fn, ip)
      operand == OperandAt(fn, ip, 1)
      constant == fn.constants[operand + 1]
      kinds == CASE op \in NameOps \cup InvokeOps -> {"name"}
                 [] op = "Closure" -> {"function"}
                 [] OTHER -> {"num", "str"}
  IN  /\ op \in NameOps \cup InvokeOps \cup {"Constant", "Closure"} =>
           operand \in 0 .. Len(fn.constants) - 1 /\ constant[1] \in kinds
      /\ op \in UpvalueOps => operand < fn.upvalue_count
      /\ op = "Closure" =>
           /\ constant[2] \in DOMAIN fns
           /\ \A k \in 1 .. ClosureFunction(fns, fn, ip).upvalue_count :
                /\ OperandAt(fn, ip, 2 * k) \in {0, 1}
                /\ OperandAt(fn, ip, 2 * k) = 0 => OperandAt(fn, ip, 2 * k + 1) < fn.upvalue_count

\* The instruction at ip can do its work when it is reached as at says: it lies
\* within the code, the stack holds what it takes above the frame's callee and
\* the slots it names, and none of what it takes is captured.
Works(fns, fn, ip, base, at) ==
  LET op == OpAt(fn, ip)
  IN  /\ ip + Width(fns, fn, ip) <= Len(fn.code)
      /\ \A n \in 1 .. Width(fns, fn, ip) - 1 : OperandAt(fn, ip, n) \in 0 .. base - 1
      /\ OperandsExist(fns, fn, ip)
      /\ at.height \in Nat
      /\ 1 + Needs(fn, ip) <= at.height /\ 1 + fn.arity <= at.height
      /\ \A s \in at.captured : s \in Nat /\ s < at.height
      /\ op # "CloseUpvalue" => \A s \in at.captured : s < at.height - Needs(fn, ip)
      /\ op \in SlotOps => OperandAt(fn, ip, 1) < at.height
      /\ op = "Closure" => \A s \in CapturedBy(fns, fn, ip) : s <= at.height

\* What a stack map says of function f is right: each instruction it names works
\* and leads only to instructions that it describes in the same way, and the
\* script, which is the last function, returns with its closure under the result.
Verified(fns, f, base, map) ==
  LET fn == fns[f]
  IN  /\ 0 \in DOMAIN map /\ map[0].height = 1 + fn.arity
      /\ \A ip \in DOMAIN map :
           /\ ip \in Nat /\ ip \in Decoded(fns, fn).starts
           /\ OpAt(fn, ip) \in Opcodes
           /\ Works(fns, fn, ip, base, map[ip])
           /\ OpAt(fn, ip) = "Return" /\ f = Len(fns) => map[ip].height = 2
           /\ \A t \in Successors(fns, fn, ip, base) :
                /\ t \in DOMAIN map
                /\ map[t].height = map[ip].height + Effect(fn, ip)
                /\ CapturedAfter(fns, fn, ip, map[ip]) \subseteq map[t].captured

\* Every function of a script is verified with its own stack map.
VerifiedScript(fns, base) ==
  /\ Len(fns) \in DOMAIN fns
  /\ fns[Len(fns)].arity = 0 /\ fns[Len(fns)].upvalue_count = 0
  /\ \A f \in DOMAIN fns :
       /\ fns[f].arity \in Nat /\ fns[f].upvalue_count \in Nat /\ Len(fns[f].code) \in Nat
       /\ Verified(fns, f, base, StackMap(fns, fns[f], base))
=============================================================================
