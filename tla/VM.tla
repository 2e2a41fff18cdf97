--------------------------------- MODULE VM --------------------------------
(***************************************************************************)
(* The stack virtual machine (bytecode/vm.h, vm.cpp): one action per       *)
(* opcode of VM::execute, on the byte cells that Compiler emits.  Heap     *)
(* objects are the typed records of vm_value.h, named by growing numbers;  *)
(* collections are atomic here (GarbageCollector has their steps) but      *)
(* trace by object type and start from the roots the code lists.           *)
(*                                                                         *)
(* The machine is deterministic but for clock(); what varies is the        *)
(* program and the allocation threshold, so every program is run with      *)
(* collections at many different places.                                   *)
(***************************************************************************)
EXTENDS Chunk, FiniteSets

CONSTANTS
  Scripts,        \* the compiled programs: sequences of functions, the script last
  Thresholds,     \* values of threshold_ to run them with
  kStackMax,      \* 1 << 16 in the source
  kFramesMax,     \* 1024 in the source
  ByteSize,       \* 2^8: the base of two-byte operands
  ClockReadings   \* what the clock may read

ASSUME VmAssumption ==
  /\ Thresholds \subseteq Nat \ {0}
  /\ kStackMax \in Nat /\ kFramesMax \in Nat \ {0} /\ ByteSize \in Nat \ {0}

\* The compiler hands over code of which StackBalanced (module Compilation) holds.
ASSUME CodeVerified == \A p \in DOMAIN Scripts : VerifiedScript(Scripts[p], ByteSize)

VARIABLES
  script,                  \* which of Scripts is running
  functions,               \* its functions
  threshold,               \* threshold_ of the collector
  stack,                   \* stack_
  frames,                  \* frames_
  globals,                 \* globals_
  open_upvalues,           \* open_upvalues_: a set, as no two of them are at one slot
  heap,                    \* the live objects
  born,                    \* the last name given to an object
  allocations_since_gc,
  capacity,                \* capacity of stack_'s buffer
  moved,                   \* the buffer moved while an open upvalue pointed into it
  output,                  \* the lines of output_
  status,                  \* "running", or the InterpretResult of execute
  error_message

gcV == <<heap, born, allocations_since_gc>>
resultV == <<status, error_message>>
fixedV == <<script, functions, threshold>>
vars == <<fixedV, stack, frames, globals, open_upvalues, gcV, capacity, moved, output, resultV>>

\* map[key] = value, and the entries of one map copied over those of another.
EmptyMap == [x \in {} |-> x]
Put(map, key, value) ==
  [x \in DOMAIN map \cup {key} |-> IF x = key THEN value ELSE map[x]]
CopiedOver(from, to) ==
  [x \in DOMAIN from \cup DOMAIN to |-> IF x \in DOMAIN from THEN from[x] ELSE to[x]]

-----------------------------------------------------------------------------
(***************************************************************************)
(* Heap objects and values that point at them.                             *)
(***************************************************************************)
ObjClosure(function, upvalues) ==
  [type |-> "Closure", function |-> function, upvalues |-> upvalues]
ObjUpvalue(location, closed, is_closed) ==
  [type |-> "Upvalue", location |-> location, closed |-> closed, is_closed |-> is_closed]
ObjClass(name, methods) == [type |-> "Class", name |-> name, methods |-> methods]
ObjInstance(klass, fields) == [type |-> "Instance", klass |-> klass, fields |-> fields]
ObjBoundMethod(receiver, method) ==
  [type |-> "BoundMethod", receiver |-> receiver, method |-> method]

PointerTags == {"Closure", "Class", "Instance", "BoundMethod"}

\* mark_value_obj: the object inside a value, if there is one.
mark_value_obj(v) == IF v[1] \in PointerTags THEN {v[2]} ELSE {}

\* The objects inside the values of a list or a map.
mark_value_objs(values) == UNION {mark_value_obj(values[x]) : x \in DOMAIN values}

\* Mutant: the open upvalues are left out of the roots.
mark_value_roots_no_open(stk) ==
  mark_value_objs(stk) \cup {frames[i].closure : i \in 1 .. Len(frames)} \cup mark_value_objs(globals)

\* mark_value_roots
mark_value_roots(stk) ==
  mark_value_objs(stk) \cup {frames[i].closure : i \in 1 .. Len(frames)} \cup open_upvalues
    \cup mark_value_objs(globals)

\* Mutant: an instance marks its fields and forgets its class.
blacken_fields_only(o) ==
  CASE o.type = "Upvalue"     -> mark_value_obj(o.closed)
    [] o.type = "Closure"     -> Range(o.upvalues)
    [] o.type = "Class"       -> Range(o.methods)
    [] o.type = "Instance"    -> UNION {mark_value_obj(v) : v \in Range(o.fields)}
    [] o.type = "BoundMethod" -> mark_value_obj(o.receiver) \cup {o.method}

\* blacken: the objects it marks.
blacken(o) ==
  CASE o.type = "Upvalue"     -> mark_value_obj(o.closed)
    [] o.type = "Closure"     -> Range(o.upvalues)
    [] o.type = "Class"       -> Range(o.methods)
    [] o.type = "Instance"    -> {o.klass} \cup UNION {mark_value_obj(v) : v \in Range(o.fields)}
    [] o.type = "BoundMethod" -> mark_value_obj(o.receiver) \cup {o.method}

\* The marked objects after each of them has been blackened.
blackened(marked) == marked \cup UNION {blacken(heap[o]) : o \in marked}

\* trace_references: what is marked once the worklist is empty.
trace_references(roots) ==
  LET marked[n \in 0 .. Cardinality(DOMAIN heap)] ==
        IF n = 0 THEN roots ELSE blackened(marked[n - 1])
  IN  marked[Cardinality(DOMAIN heap)]

\* The heap that collect() leaves when the value stack is stk.
swept(stk) == [o \in trace_references(mark_value_roots(stk)) |-> heap[o]]

should_collect == allocations_since_gc >= threshold

-----------------------------------------------------------------------------
(***************************************************************************)
(* Values.                                                                 *)
(***************************************************************************)
vm_is_truthy(v) == v # Nil /\ v # Bool(FALSE)

vm_values_equal(a, b) == IF IsNumber(a) /\ IsNumber(b) THEN NumEqual(a, b) ELSE a = b

function_of(closure) == functions[heap[closure].function]

vm_stringify(v) ==
  CASE v[1] = "nil"         -> <<"nil">>
    [] IsNumber(v)          -> NumText(v)
    [] v[1] = "bool"        -> IF v[2] THEN <<"true">> ELSE <<"false">>
    [] v[1] = "str"         -> v[2]
    [] v[1] = "Closure"     -> <<"<fn ", function_of(v[2]).name, ">">>
    [] v[1] = "Class"       -> <<heap[v[2]].name>>
    [] v[1] = "Instance"    -> <<heap[heap[v[2]].klass].name, " instance">>
    [] v[1] = "BoundMethod" -> <<"<fn ", function_of(heap[v[2]].method).name, ">">>
    [] v[1] = "native"      -> <<"<native fn ", v[2], ">">>

-----------------------------------------------------------------------------
(***************************************************************************)
(* The current frame and instruction.                                      *)
(***************************************************************************)
CallFrame(closure, ip, slot_base) == [closure |-> closure, ip |-> ip, slot_base |-> slot_base]
frame == Last(frames)
function == function_of(frame.closure)

\* read_byte and read_short, n cells after the opcode; read_constant, read_string
byte(n) == function.code[frame.ip + 1 + n]
short(n) == byte(n) * ByteSize + byte(n + 1)
constant(n) == function.constants[byte(n) + 1]
string(n) == constant(n)[2]

\* The frames with ip moved on by n in the current one.
ip_plus(n) ==
  [frames EXCEPT ![Len(frames)] = CallFrame(frame.closure, frame.ip + n, frame.slot_base)]

peek(distance) == stack[Len(stack) - distance]
popped(n) == SubSeq(stack, 1, Len(stack) - n)
slot(index) == frame.slot_base + index + 1

\* The instruction under ip is op, and the safe point before it is passed.
Fetch(op) ==
  /\ status = "running" /\ ~moved
  /\ ~should_collect
  /\ byte(0) = op

runtime_error(message) == status' = "RuntimeError" /\ error_message' = message

\* allocate<T>: the object is named and counted; no collection happens.
allocate(obj) ==
  /\ born' = born + 1
  /\ heap' = Put(heap, born + 1, obj)
  /\ allocations_since_gc' = allocations_since_gc + 1

\* Mutant: the allocation count is not reset.
collect_no_reset(stk) ==
  /\ heap' = swept(stk)
  /\ UNCHANGED <<born, allocations_since_gc>>

\* collect() when the value stack is stk.
collect(stk) ==
  /\ heap' = swept(stk)
  /\ allocations_since_gc' = 0
  /\ UNCHANGED born

(***************************************************************************)
(* push_back beyond the buffer's capacity moves it; an upvalue left open   *)
(* then points into the old buffer, and what follows is undefined.         *)
(***************************************************************************)
grow ==
  IF Len(stack') > capacity
  THEN /\ capacity' = 2 * capacity
       /\ moved' = (open_upvalues' # {})
  ELSE UNCHANGED <<capacity, moved>>

-----------------------------------------------------------------------------
(***************************************************************************)
(* VM::VM and VM::run up to execute.                                       *)
(***************************************************************************)
Init ==
  /\ script \in DOMAIN Scripts
  /\ functions = Scripts[script]
  /\ threshold \in Thresholds
  /\ globals = [n \in {"clock", "gc"} |-> <<"native", n>>]
  /\ heap = [o \in {1} |-> ObjClosure(Len(functions), <<>>)]
  /\ born = 1 /\ allocations_since_gc = 1
  /\ stack = <<<<"Closure", 1>>>>
  /\ frames = <<CallFrame(1, 0, 0)>>
  /\ open_upvalues = {}
  /\ capacity = kStackMax /\ moved = FALSE
  /\ output = <<>> /\ status = "running" /\ error_message = ""

\* The safe point at the top of execute's loop, when a collection is due.
Collect ==
  /\ status = "running" /\ ~moved
  /\ should_collect
  /\ collect(stack)
  /\ UNCHANGED <<fixedV, stack, frames, globals, open_upvalues, capacity, moved, output, resultV>>

-----------------------------------------------------------------------------
(***************************************************************************)
(* Instructions on the value stack alone.                                  *)
(***************************************************************************)

\* The instruction of n cells leaves the stack stk and nothing else changes.
StackOp(n, stk) ==
  /\ stack' = stk
  /\ frames' = ip_plus(n)
  /\ UNCHANGED <<globals, open_upvalues, gcV, output, resultV>>

\* It reports an error, n cells on, and execute returns.
ErrorOp(n, message) ==
  /\ runtime_error(message)
  /\ frames' = ip_plus(n)
  /\ UNCHANGED <<stack, globals, open_upvalues, gcV, output>>

OpConstant == Fetch("Constant") /\ StackOp(2, Append(stack, constant(1)))
OpNil == Fetch("Nil") /\ StackOp(1, Append(stack, Nil))
OpTrue == Fetch("True") /\ StackOp(1, Append(stack, Bool(TRUE)))
OpFalse == Fetch("False") /\ StackOp(1, Append(stack, Bool(FALSE)))
OpPop == Fetch("Pop") /\ StackOp(1, popped(1))
OpGetLocal == Fetch("GetLocal") /\ StackOp(2, Append(stack, stack[slot(byte(1))]))
OpSetLocal == Fetch("SetLocal") /\ StackOp(2, [stack EXCEPT ![slot(byte(1))] = peek(0)])

OpEqual ==
  Fetch("Equal") /\ StackOp(1, Append(popped(2), Bool(vm_values_equal(peek(1), peek(0)))))

OpArith ==
  \E op \in {"Greater", "Less", "Subtract", "Multiply", "Divide"} :
    /\ Fetch(op)
    /\ IF ~IsNumber(peek(0)) \/ ~IsNumber(peek(1))
       THEN ErrorOp(1, "operands must be numbers")
       ELSE StackOp(1, Append(popped(2),
              CASE op = "Greater" -> Bool(NumLess(peek(0), peek(1)))
                [] op = "Less"    -> Bool(NumLess(peek(1), peek(0)))
                [] OTHER          -> Arith(op, peek(1), peek(0))))

OpAdd ==
  /\ Fetch("Add")
  /\ CASE IsNumber(peek(0)) /\ IsNumber(peek(1)) ->
            StackOp(1, Append(popped(2), Arith("Add", peek(1), peek(0))))
       [] IsString(peek(0)) /\ IsString(peek(1)) ->
            StackOp(1, Append(popped(2), Concat(peek(1), peek(0))))
       [] OTHER -> ErrorOp(1, "operands must be two numbers or two strings")

OpNot == Fetch("Not") /\ StackOp(1, Append(popped(1), Bool(~vm_is_truthy(peek(0)))))

OpNegate ==
  /\ Fetch("Negate")
  /\ IF IsNumber(peek(0)) THEN StackOp(1, Append(popped(1), Negated(peek(0))))
     ELSE ErrorOp(1, "operand must be a number")

OpPrint ==
  /\ Fetch("Print")
  /\ output' = Append(output, vm_stringify(peek(0)))
  /\ stack' = popped(1)
  /\ frames' = ip_plus(1)
  /\ UNCHANGED <<globals, open_upvalues, gcV, resultV>>

OpJump == Fetch("Jump") /\ StackOp(3 + short(1), stack)
OpJumpIfFalse ==
  Fetch("JumpIfFalse") /\ StackOp(3 + (IF vm_is_truthy(peek(0)) THEN 0 ELSE short(1)), stack)
OpLoop == Fetch("Loop") /\ StackOp(3 - short(1), stack)

-----------------------------------------------------------------------------
(***************************************************************************)
(* Globals.                                                                *)
(***************************************************************************)
OpGetGlobal ==
  /\ Fetch("GetGlobal")
  /\ IF string(1) \in DOMAIN globals THEN StackOp(2, Append(stack, globals[string(1)]))
     ELSE ErrorOp(2, "undefined variable")

SetGlobalTo(v, stk) ==
  /\ globals' = Put(globals, string(1), v)
  /\ stack' = stk
  /\ frames' = ip_plus(2)
  /\ UNCHANGED <<open_upvalues, gcV, output, resultV>>

OpDefineGlobal == Fetch("DefineGlobal") /\ SetGlobalTo(peek(0), popped(1))
OpSetGlobal ==
  /\ Fetch("SetGlobal")
  /\ IF string(1) \in DOMAIN globals THEN SetGlobalTo(peek(0), stack)
     ELSE ErrorOp(2, "undefined variable")

-----------------------------------------------------------------------------
(***************************************************************************)
(* Upvalues and closures.                                                  *)
(***************************************************************************)
current_upvalue == heap[frame.closure].upvalues[byte(1) + 1]

OpGetUpvalue ==
  LET uv == heap[current_upvalue]
  IN  Fetch("GetUpvalue")
      /\ StackOp(2, Append(stack, IF uv.is_closed THEN uv.closed ELSE stack[uv.location]))

OpSetUpvalue ==
  LET uv == heap[current_upvalue]
  IN  /\ Fetch("SetUpvalue")
      /\ IF uv.is_closed
         THEN heap' = [heap EXCEPT ![current_upvalue] = ObjUpvalue(uv.location, peek(0), TRUE)]
              /\ UNCHANGED stack
         ELSE stack' = [stack EXCEPT ![uv.location] = peek(0)] /\ UNCHANGED heap
      /\ frames' = ip_plus(2)
      /\ UNCHANGED <<globals, open_upvalues, born, allocations_since_gc, output, resultV>>

\* Mutant: every closure gets an upvalue of its own.
opened_ignored(location) == {}

\* The open upvalue at a stack slot, if there is one.
opened(location) == {u \in open_upvalues : heap[u].location = location}

\* capture_upvalue: the one open upvalue of a local of this frame, which a new
\* one becomes if there was none.  Its name is taken from the index of the slot.
capture_upvalue(index) ==
  IF opened(slot(index)) # {} THEN CHOOSE u \in opened(slot(index)) : TRUE
  ELSE born + 2 + index

\* The closure's upvalues are locals of the enclosing frame and upvalues of the
\* running closure.
OpClosure ==
  LET fn == string(1)
      count == functions[fn].upvalue_count
      is_local(k) == byte(2 * k) # 0
      index(k) == byte(2 * k + 1)
      created == {index(k) : k \in {j \in 1 .. count : is_local(j) /\ opened(slot(index(j))) = {}}}
      upvalues == [k \in 1 .. count |-> IF is_local(k) THEN capture_upvalue(index(k))
                                        ELSE heap[frame.closure].upvalues[index(k) + 1]]
      opening == {born + 2 + i : i \in created}
  IN  /\ Fetch("Closure") /\ constant(1)[1] = "function"
      /\ heap' = [o \in DOMAIN heap \cup {born + 1} \cup opening |->
                    CASE o \in opening  -> ObjUpvalue(slot(o - born - 2), Nil, FALSE)
                      [] o = born + 1   -> ObjClosure(fn, upvalues)
                      [] OTHER          -> heap[o]]
      /\ born' = born + 1 + ByteSize
      /\ allocations_since_gc' = allocations_since_gc + 1 + Cardinality(created)
      /\ open_upvalues' = open_upvalues \cup opening
      /\ stack' = Append(stack, <<"Closure", born + 1>>)
      /\ frames' = ip_plus(2 + 2 * count)
      /\ UNCHANGED <<globals, output, resultV>>

\* Mutant: the slot itself is left open, only those above it are closed.
close_upvalues_above(last) ==
  LET closing == {u \in open_upvalues : heap[u].location > last}
  IN  /\ heap' = [o \in DOMAIN heap |->
                    IF o \in closing
                    THEN ObjUpvalue(heap[o].location, stack[heap[o].location], TRUE)
                    ELSE heap[o]]
      /\ open_upvalues' = open_upvalues \ closing

\* close_upvalues: the upvalues at location last and above take their value inline.
close_upvalues(last) ==
  LET closing == {u \in open_upvalues : heap[u].location >= last}
  IN  /\ heap' = [o \in DOMAIN heap |->
                    IF o \in closing
                    THEN ObjUpvalue(heap[o].location, stack[heap[o].location], TRUE)
                    ELSE heap[o]]
      /\ open_upvalues' = open_upvalues \ closing

OpCloseUpvalue ==
  /\ Fetch("CloseUpvalue")
  /\ close_upvalues(Len(stack))
  /\ stack' = popped(1)
  /\ frames' = ip_plus(1)
  /\ UNCHANGED <<globals, born, allocations_since_gc, output, resultV>>

-----------------------------------------------------------------------------
(***************************************************************************)
(* Calls.  Each operator takes the stack that the call is made with.       *)
(***************************************************************************)

\* Mutant: the depth of the frame stack is not checked.
call_unbounded(closure, arg_count, stk, width) ==
  /\ stack' = stk
  /\ IF arg_count # function_of(closure).arity
     THEN runtime_error("wrong number of arguments") /\ frames' = ip_plus(width)
     ELSE /\ frames' = Append(ip_plus(width),
                         CallFrame(closure, 0, Len(stk) - arg_count - 1))
          /\ UNCHANGED resultV

\* Mutant: the frame starts at its first argument instead of the callee.
call_at_argument(closure, arg_count, stk, width) ==
  /\ stack' = stk
  /\ frames' = Append(ip_plus(width),
                 CallFrame(closure, 0, Len(stk) - arg_count))
  /\ UNCHANGED resultV

call(closure, arg_count, stk, width) ==
  /\ stack' = stk
  /\ CASE arg_count # function_of(closure).arity ->
            runtime_error("wrong number of arguments") /\ frames' = ip_plus(width)
       [] arg_count = function_of(closure).arity /\ Len(frames) >= kFramesMax ->
            runtime_error("stack overflow") /\ frames' = ip_plus(width)
       [] OTHER ->
            /\ frames' = Append(ip_plus(width),
                           CallFrame(closure, 0, Len(stk) - arg_count - 1))
            /\ UNCHANGED resultV

\* The slot of the callee, slot 0 of the new frame.
callee_slot(arg_count) == Len(stack) - arg_count

\* A class is called: an instance takes the callee's slot and init runs if there is one.
construct(klass, arg_count, stk, width) ==
  LET with == [stk EXCEPT ![callee_slot(arg_count)] = <<"Instance", born + 1>>]
  IN  /\ allocate(ObjInstance(klass, EmptyMap))
      /\ CASE "init" \in DOMAIN heap[klass].methods ->
                call(heap[klass].methods["init"], arg_count, with, width)
           [] "init" \notin DOMAIN heap[klass].methods /\ arg_count # 0 ->
                /\ runtime_error("wrong number of arguments")
                /\ stack' = with /\ frames' = ip_plus(width)
           [] OTHER ->
                /\ stack' = with /\ frames' = ip_plus(width)
                /\ UNCHANGED resultV

\* A native is called: clock() reads the clock, gc() collects with stk as a root
\* and returns how many objects are left.
call_native(name, arg_count, stk, width) ==
  /\ frames' = ip_plus(width)
  /\ IF arg_count # 0
     THEN /\ runtime_error("wrong number of arguments")
          /\ stack' = stk
          /\ UNCHANGED gcV
     ELSE /\ UNCHANGED resultV
          /\ \/ /\ name = "clock"
                /\ \E t \in ClockReadings : stack' = Append(popped(1), Num(t))
                /\ UNCHANGED gcV
             \/ /\ name = "gc"
                /\ collect(stk)
                /\ stack' = Append(popped(1), Num(Cardinality(DOMAIN heap')))

call_value(callee, arg_count, stk, width) ==
  CASE callee[1] = "Closure" -> call(callee[2], arg_count, stk, width) /\ UNCHANGED gcV
    [] callee[1] = "BoundMethod" ->
         LET bound == heap[callee[2]]
         IN  /\ call(bound.method, arg_count,
                     [stk EXCEPT ![callee_slot(arg_count)] = bound.receiver], width)
             /\ UNCHANGED gcV
    [] callee[1] = "Class" -> construct(callee[2], arg_count, stk, width)
    [] callee[1] = "native" -> call_native(callee[2], arg_count, stk, width)
    [] OTHER ->
         /\ runtime_error("can only call functions and classes")
         /\ stack' = stk
         /\ frames' = ip_plus(width)
         /\ UNCHANGED gcV

OpCall ==
  /\ Fetch("Call")
  /\ call_value(peek(byte(1)), byte(1), stack, 2)
  /\ UNCHANGED <<globals, open_upvalues, output>>

\* invoke_from_class, the class's method table being what Inherit made it.
invoke_from_class(klass, name, arg_count, stk, width) ==
  /\ IF name \in DOMAIN heap[klass].methods
     THEN call(heap[klass].methods[name], arg_count, stk, width)
     ELSE runtime_error("undefined property") /\ stack' = stk /\ frames' = ip_plus(width)
  /\ UNCHANGED gcV

\* A field of that name shadows the method and is called in its place.
OpInvoke ==
  LET name == string(1)
      arg_count == byte(2)
      receiver == peek(arg_count)
      instance == heap[receiver[2]]
  IN  /\ Fetch("Invoke")
      /\ CASE receiver[1] # "Instance" ->
                /\ runtime_error("only instances have methods")
                /\ frames' = ip_plus(3)
                /\ UNCHANGED <<stack, gcV>>
           [] receiver[1] = "Instance" /\ name \in DOMAIN instance.fields ->
                call_value(instance.fields[name], arg_count,
                           [stack EXCEPT ![callee_slot(arg_count)] = instance.fields[name]], 3)
           [] OTHER -> invoke_from_class(instance.klass, name, arg_count, stack, 3)
      /\ UNCHANGED <<globals, open_upvalues, output>>

\* std::get<ObjClass*> of the value popped throws unless it is a class, and nothing
\* catches that; here and below OperandsHaveVariant says that it never happens.
OpSuperInvoke ==
  /\ Fetch("SuperInvoke") /\ peek(0)[1] = "Class"
  /\ invoke_from_class(peek(0)[2], string(1), byte(2), popped(1), 3)
  /\ UNCHANGED <<globals, open_upvalues, output>>

\* Mutant: leaving the script does not pop its closure.
OpReturn_keeps_closure ==
  /\ Fetch("Return")
  /\ close_upvalues(frame.slot_base + 1)
  /\ frames' = Front(frames)
  /\ IF Len(frames) = 1
     THEN stack' = popped(1) /\ status' = "Ok" /\ UNCHANGED error_message
     ELSE stack' = Append(SubSeq(stack, 1, frame.slot_base), peek(0)) /\ UNCHANGED resultV
  /\ UNCHANGED <<globals, born, allocations_since_gc, output>>

\* The frame's slots and temporaries go; leaving the script ends execute.
OpReturn ==
  /\ Fetch("Return")
  /\ close_upvalues(frame.slot_base + 1)
  /\ frames' = Front(frames)
  /\ IF Len(frames) = 1
     THEN stack' = popped(2) /\ status' = "Ok" /\ UNCHANGED error_message
     ELSE stack' = Append(SubSeq(stack, 1, frame.slot_base), peek(0)) /\ UNCHANGED resultV
  /\ UNCHANGED <<globals, born, allocations_since_gc, output>>

-----------------------------------------------------------------------------
(***************************************************************************)
(* Classes, properties and methods.                                        *)
(***************************************************************************)
OpClass ==
  /\ Fetch("Class")
  /\ allocate(ObjClass(string(1), EmptyMap))
  /\ stack' = Append(stack, <<"Class", born + 1>>)
  /\ frames' = ip_plus(2)
  /\ UNCHANGED <<globals, open_upvalues, output, resultV>>

\* bind_method on the receiver on top of stk.
bind_method(klass, name, stk) ==
  IF name \notin DOMAIN heap[klass].methods
  THEN /\ runtime_error("undefined property")
       /\ stack' = stk /\ frames' = ip_plus(2)
       /\ UNCHANGED gcV
  ELSE /\ allocate(ObjBoundMethod(Last(stk), heap[klass].methods[name]))
       /\ stack' = Append(Front(stk), <<"BoundMethod", born + 1>>)
       /\ frames' = ip_plus(2)
       /\ UNCHANGED resultV

OpGetProperty ==
  LET name == string(1)
      instance == heap[peek(0)[2]]
  IN  /\ Fetch("GetProperty")
      /\ CASE peek(0)[1] # "Instance" ->
                /\ runtime_error("only instances have properties")
                /\ frames' = ip_plus(1)
                /\ UNCHANGED <<stack, gcV>>
           [] peek(0)[1] = "Instance" /\ name \in DOMAIN instance.fields ->
                /\ stack' = Append(popped(1), instance.fields[name])
                /\ frames' = ip_plus(2)
                /\ UNCHANGED <<gcV, resultV>>
           [] OTHER -> bind_method(instance.klass, name, stack)
      /\ UNCHANGED <<globals, open_upvalues, output>>

OpSetProperty ==
  /\ Fetch("SetProperty")
  /\ IF peek(1)[1] # "Instance"
     THEN /\ runtime_error("only instances have fields")
          /\ frames' = ip_plus(1)
          /\ UNCHANGED <<stack, heap>>
     ELSE /\ LET instance == heap[peek(1)[2]]
             IN  heap' = [heap EXCEPT ![peek(1)[2]] =
                            ObjInstance(instance.klass, Put(instance.fields, string(1), peek(0)))]
          /\ stack' = Append(popped(2), peek(0))
          /\ frames' = ip_plus(2)
          /\ UNCHANGED resultV
  /\ UNCHANGED <<globals, open_upvalues, born, allocations_since_gc, output>>

OpGetSuper ==
  /\ Fetch("GetSuper") /\ peek(0)[1] = "Class"
  /\ bind_method(peek(0)[2], string(1), popped(1))
  /\ UNCHANGED <<globals, open_upvalues, output>>

\* The superclass's methods are copied over the subclass's.
OpInherit ==
  /\ Fetch("Inherit")
  /\ IF peek(1)[1] # "Class"
     THEN /\ runtime_error("superclass must be a class")
          /\ frames' = ip_plus(1)
          /\ UNCHANGED <<stack, heap>>
     ELSE /\ peek(0)[1] = "Class"
          /\ LET subclass == heap[peek(0)[2]]
             IN  heap' = [heap EXCEPT ![peek(0)[2]] =
                            ObjClass(subclass.name,
                                     CopiedOver(heap[peek(1)[2]].methods, subclass.methods))]
          /\ stack' = popped(1)
          /\ frames' = ip_plus(1)
          /\ UNCHANGED resultV
  /\ UNCHANGED <<globals, open_upvalues, born, allocations_since_gc, output>>

\* The class below the closure on top of the stack gets it as a method.
add_method ==
  LET klass == heap[peek(1)[2]]
  IN  heap' = [heap EXCEPT ![peek(1)[2]] =
                 ObjClass(klass.name, Put(klass.methods, string(1), peek(0)[2]))]

\* Mutant: the closure stays on the stack.
OpMethod_no_pop ==
  /\ Fetch("Method") /\ peek(0)[1] = "Closure" /\ peek(1)[1] = "Class"
  /\ add_method
  /\ frames' = ip_plus(2)
  /\ UNCHANGED <<stack, globals, open_upvalues, born, allocations_since_gc, output, resultV>>

OpMethod ==
  /\ Fetch("Method") /\ peek(0)[1] = "Closure" /\ peek(1)[1] = "Class"
  /\ add_method
  /\ stack' = popped(1)
  /\ frames' = ip_plus(2)
  /\ UNCHANGED <<globals, open_upvalues, born, allocations_since_gc, output, resultV>>

-----------------------------------------------------------------------------
Instruction ==
  \/ OpConstant \/ OpNil \/ OpTrue \/ OpFalse \/ OpPop \/ OpGetLocal \/ OpSetLocal
  \/ OpEqual \/ OpArith \/ OpAdd \/ OpNot \/ OpNegate \/ OpPrint
  \/ OpJump \/ OpJumpIfFalse \/ OpLoop
  \/ OpGetGlobal \/ OpDefineGlobal \/ OpSetGlobal
  \/ OpGetUpvalue \/ OpSetUpvalue \/ OpClosure \/ OpCloseUpvalue
  \/ OpCall \/ OpInvoke \/ OpSuperInvoke \/ OpReturn
  \/ OpClass \/ OpGetProperty \/ OpSetProperty \/ OpGetSuper \/ OpInherit \/ OpMethod

Next == Collect \/ (Instruction /\ grow /\ UNCHANGED fixedV)

\* execute is a loop of one thread: it keeps taking steps while it can.
Spec == Init /\ [][Next]_vars /\ WF_vars(Next)

-----------------------------------------------------------------------------
(***************************************************************************)
(* Properties.                                                             *)
(***************************************************************************)

\* The pointers stored in an object, each as a value with the type it claims
\* to point at; written from vm_value.h, independently of what blacken marks.
Pointers(o) ==
  CASE o.type = "Upvalue"     -> {o.closed}
    [] o.type = "Closure"     -> {<<"Upvalue", u>> : u \in Range(o.upvalues)}
    [] o.type = "Class"       -> {<<"Closure", m>> : m \in Range(o.methods)}
    [] o.type = "Instance"    -> {<<"Class", o.klass>>} \cup Range(o.fields)
    [] o.type = "BoundMethod" -> {o.receiver, <<"Closure", o.method>>}

\* The values that the machine holds outside the heap.
RootValues ==
  Range(stack) \cup Range(globals)
    \cup {<<"Closure", frames[i].closure>> : i \in DOMAIN frames}
    \cup {<<"Upvalue", u>> : u \in open_upvalues}

HeapTags == PointerTags \cup {"Upvalue"}
Ids(values) == {v[2] : v \in {w \in values : w[1] \in HeapTags}}

\* The shape of the state: what each field of the machine may hold.
TypeOK ==
  /\ status \in {"running", "Ok", "RuntimeError"}
  /\ status = "RuntimeError" <=> error_message # ""
  /\ allocations_since_gc \in 0 .. born
  /\ DOMAIN heap \subseteq 1 .. born
  /\ \A o \in DOMAIN heap : heap[o].type \in HeapTags
  /\ \A i \in DOMAIN frames : frames[i].closure \in Nat /\ frames[i].slot_base \in Nat
  /\ Len(frames) <= kFramesMax

\* However the program and the collector interleave, every pointer in the
\* stack, frames, globals, open upvalues and heap objects leads to an object
\* that is still allocated and has the type the pointer was stored with
\* (static_cast and std::get in gc.cpp and vm.cpp rely on it).
PointersValid ==
  \A v \in RootValues \cup UNION {Pointers(heap[o]) : o \in DOMAIN heap} :
    v[1] \in HeapTags => v[2] \in DOMAIN heap /\ heap[v[2]].type = v[1]

\* open_upvalues_ lists every upvalue that still points into the stack and no
\* other, each points at a slot in use, and no two at the same one
\* (capture_upvalue, close_upvalues and the CloseUpvalue the compiler emits).
OpenUpvaluesExact ==
  LET open == {o \in DOMAIN heap : heap[o].type = "Upvalue" /\ ~heap[o].is_closed}
  IN  /\ open = open_upvalues
      /\ \A u \in open : heap[u].location \in 1 .. Len(stack)
      /\ \A u, w \in open : heap[u].location = heap[w].location => u = w

\* Frames lie on the stack one above the other: each has room for its callee
\* and its arguments, and every suspended frame resumes right after the call
\* instruction whose argument count the frame above it was entered with.
FramesNested ==
  status = "running" =>
    /\ frames # <<>> /\ frames[1].slot_base = 0
    /\ \A i \in DOMAIN frames :
         LET fn == function_of(frames[i].closure)
         IN  /\ frames[i].ip < Len(fn.code)
             /\ frames[i].slot_base + fn.arity < Len(stack)
    /\ \A i \in 1 .. Len(frames) - 1 :
         LET caller == function_of(frames[i].closure)
         IN  /\ frames[i].slot_base < frames[i + 1].slot_base
             /\ \E start \in Decoded(functions, caller).starts :
                  /\ OpAt(caller, start) \in {"Call"} \cup InvokeOps
                  /\ start + Width(functions, caller, start) = frames[i].ip
             /\ caller.code[frames[i].ip] = function_of(frames[i + 1].closure).arity

\* The operands that the machine takes with an unchecked std::get have the
\* alternative it names: the class under a Method or an Inherit, the
\* superclass above GetSuper and SuperInvoke, the receiver below its arguments.
OperandsHaveVariant ==
  status = "running" =>
    LET op == byte(0)
    IN  /\ op = "Method" => peek(0)[1] = "Closure" /\ peek(1)[1] = "Class"
        /\ op = "Inherit" => peek(0)[1] = "Class"
        /\ op = "GetSuper" => peek(0)[1] = "Class" /\ peek(1)[1] = "Instance"
        /\ op = "SuperInvoke" => peek(0)[1] = "Class" /\ peek(1 + byte(2))[1] = "Instance"
        /\ op = "Closure" => constant(1)[1] = "function"

\* A program that ends normally leaves nothing behind: no value, no frame and
\* no open upvalue (the pops of Return, end_scope and expression statements
\* balance every push).
CleanExit == status = "Ok" => stack = <<>> /\ frames = <<>> /\ open_upvalues = {}

\* The objects of S and those that pointers in them lead to.
Pointed(S) == S \cup UNION {Ids(Pointers(heap[o])) : o \in S}

\* The objects that the machine can reach from some of them.
ReachFrom(roots) ==
  LET reach[n \in 0 .. Cardinality(DOMAIN heap)] ==
        IF n = 0 THEN roots ELSE Pointed(reach[n - 1])
  IN  reach[Cardinality(DOMAIN heap)]

\* An instruction makes the objects New and changes none but those it knows.
Mutates(New, known) ==
  /\ DOMAIN heap' = DOMAIN heap \cup New
  /\ \A o \in DOMAIN heap' :
       o \in New \/ heap'[o] # heap[o] => o \in known /\ Ids(Pointers(heap'[o])) \subseteq known

\* A collection keeps what the machine can reach after the step, and as it is.
Collects ==
  /\ DOMAIN heap' = ReachFrom(Ids(RootValues')) /\ DOMAIN heap' \subseteq DOMAIN heap
  /\ \A o \in DOMAIN heap' : heap'[o] = heap[o]

Disciplined ==
  LET New == {o \in DOMAIN heap' : o > born}
      known == ReachFrom(Ids(RootValues)) \cup New
  IN  /\ Ids(RootValues') \subseteq known
      /\ IF should_collect \/ ~(DOMAIN heap \subseteq DOMAIN heap') THEN Collects
         ELSE Mutates(New, known)

(***************************************************************************)
(* What the collector assumes of the machine and promises to it, the       *)
(* abstract heap's two kinds of step: an instruction stores and keeps only *)
(* pointers to what was reachable or is new, and a collection (at the safe *)
(* point, or by gc() in the middle of an instruction) frees exactly what   *)
(* the machine cannot reach when it is over.                               *)
(***************************************************************************)
HeapDiscipline == [][Disciplined]_vars

\* execute returns: the programs run here terminate, and no collection, jump
\* or call keeps the machine busy without getting on with them.
Terminates == <>(status # "running")

\* vm.cpp: "The value stack is reserved once and never reallocated, so raw
\* pointers into it (used by open upvalues) stay valid for the lifetime of a run."
StackNeverReallocated == capacity = kStackMax /\ ~moved
=============================================================================
