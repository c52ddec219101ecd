------------------------------ MODULE Interpreter ------------------------------
(***************************************************************************)
(* The executors (src/vm/internal/executor.cpp): every one is a thread     *)
(* that runs the instructions of one shared executable on a stack of its   *)
(* own, over a shared heap. Executor 1 is the program's; the others are    *)
(* forks. An instruction is one step, so the threads interleave between    *)
(* instructions, and inside a fork between its two halves.                 *)
(*                                                                         *)
(* An executor is a record:                                                *)
(*   pc     "entry" (thread created), "run", "fork" (waiting for the fork  *)
(*          to have started), "end" (at the label End), "done"             *)
(*   st     its ExecState                                                  *)
(*   ip     offset of the next instruction                                 *)
(*   stack  the values, oldest first; sh, root: the stack homes, as counts *)
(*          of the values below them                                       *)
(*   fut    address of the promise, 0 for executor 1                       *)
(*   args   where a fork's arguments are: [from, at, n]                    *)
(*   fork   address of the future of the fork being started                *)
(* The registry's pausing protocol is the subject of ExecutorRegistry, the *)
(* waiting on a future of Future, and collection of Heap: here a trap only *)
(* ends the executor once the program has ended (aborting).                *)
(***************************************************************************)
EXTENDS Assembler

CONSTANT StackCapacity    \* capacity of BasicStack

ASSUME StackCapacityAssumption == StackCapacity \in Nat \ {0}

VARIABLES
    exe,       \* the executable
    ex,        \* the executors, in order of creation
    heap,      \* the objects, by address
    out,       \* what was written to the console
    aborting   \* the forks have been asked to abort

machine == <<exe, ex, heap, out, aborting>>

-------------------------------------------------------------------------------
(* Decoding *)

Instr(x) == Tail(exe.code[x.ip + 1])

Operand(x, skip, size) ==
    FromBytes(SubSeq(exe.code, x.ip + skip + 2, x.ip + skip + size + 1))

(* The program counter behind an instruction with n bytes of operands.     *)
Skip(x, n) == [x EXCEPT !.ip = @ + 1 + n]

-------------------------------------------------------------------------------
(* Stack. Overflow is noticed once the capacity is used up, after the      *)
(* write: the array has one element more.                                  *)

End(x, st) == [x EXCEPT !.pc = "end", !.st = st]

Checked(x) == IF Len(x.stack) < StackCapacity THEN x ELSE End(x, "StackOverflow")

Push(x, v) ==
    IF x.pc # "run" THEN x ELSE Checked([x EXCEPT !.stack = Append(@, v)])

Drop(x, n) == [x EXCEPT !.stack = SubSeq(@, 1, Len(@) - n)]

Peek(x) == Last(x.stack)

TopN(x, n) == SubSeq(x.stack, Len(x.stack) - n + 1, Len(x.stack))

-------------------------------------------------------------------------------
(* Calls *)

(* call: the arguments move up by two to make room for the return offset   *)
(* and the caller's stack home.                                            *)
Enter(x, n, tgt) ==
    LET below == SubSeq(x.stack, 1, Len(x.stack) - n)
        frame == below \o <<<<"int", x.ip>>, <<"raw", x.sh>>>> \o TopN(x, n)
    IN  Checked([x EXCEPT !.stack = frame, !.ip = tgt, !.sh = Len(below) + 2])

(* callTail: the arguments move down over the current frame.               *)
Reenter(x, n, tgt) ==
    [x EXCEPT !.stack = SubSeq(@, 1, x.sh) \o TopN(x, n), !.ip = tgt]

(* Ret from a frame that is not the first.                                 *)
Leave(x) ==
    Push([x EXCEPT !.ip = x.stack[x.sh - 1][2], !.sh = x.stack[x.sh][2],
                   !.stack = SubSeq(@, 1, x.sh - 2)], Peek(x))

(* Where a call instruction goes: the executor behind it with a closure's  *)
(* bound arguments pushed, the number of arguments and the target offset.  *)
Callee(x) ==
    LET n == Operand(x, 0, 1)
        d == Peek(x)
        f == heap[d[2]].f
        y == Drop(Skip(x, 1), 1)
    IN  CASE Instr(x)[1] = "Call" ->
                [x |-> Skip(x, 5), n |-> n, tgt |-> Operand(x, 1, 4)]
          [] Instr(x)[1] = "CallDyn" /\ IsRef(d) ->
                [x |-> FoldLeft(Push, y, Front(f)), n |-> n + Len(f) - 1, tgt |-> Last(f)[2]]
          [] Instr(x)[1] = "CallDyn" /\ ~IsRef(d) -> [x |-> y, n |-> n, tgt |-> d[2]]

(* The traps: tail calls and returns always, waits while they last.        *)
Traps(x) ==
    LET top == Peek(x)[2]
    IN  \/ Instr(x) \in {<<"Call", "Tail">>, <<"CallDyn", "Tail">>, <<"Ret", "">>, <<"Future", "Block">>}
        \/ Instr(x) = <<"Atomic", "Block">> /\ heap[top].v # Operand(x, 0, 4)
        \/ Instr(x) = <<"Future", "WaitNano">> /\ top > 0

(* Executor i is about to execute one of ops, and no trap stops it.        *)
At(i, ops) ==
    /\ ex[i].pc = "run"
    /\ Instr(ex[i]) \in ops
    /\ ~(aborting /\ Traps(ex[i]))

-------------------------------------------------------------------------------
(* Instructions *)

Set(i, x) == ex' = [ex EXCEPT ![i] = x]

Local == UNCHANGED <<exe, heap, out, aborting>>

NewObject(o) == heap' = Append(heap, o)

LoadLit(i) ==
    LET x == ex[i]
        t == Instr(x)[2]
        v == CASE t = "Int0"     -> <<"int", 0>>
               [] t = "Int1"     -> <<"int", 1>>
               [] t = "IntSmall" -> <<"int", Operand(x, 0, 1)>>
               [] t = "Int"      -> IntVal(Operand(x, 0, 4))
               [] t = "Long"     -> <<"long", Signed(Operand(x, 0, 8), LongBits)>>
               [] t = "Float"    -> exe.code[x.ip + 2][2]
               [] t = "String"   -> <<"str", exe.lits[Operand(x, 0, 4) + 1]>>
               [] t = "Ip"       -> <<"int", Operand(x, 0, 4)>>
        size == CASE t \in {"Int0", "Int1"} -> 0
                  [] t = "IntSmall" -> 1
                  [] t = "Long" -> 8
                  [] OTHER -> 4
    IN  /\ At(i, {"LoadLit"} \X {"Int0", "Int1", "IntSmall", "Int", "Long", "Float", "String", "Ip"})
        /\ Set(i, Push(Skip(x, size), v))
        /\ Local

StackOp(i) ==
    LET x == ex[i]
        o == Instr(x)
        size == IF o[2] = "Small" THEN 1 ELSE 2
        n == Operand(x, 0, size)
        y == Skip(x, size)
    IN  /\ At(i, {"StackAlloc", "StackStore", "StackLoad"} \X {"Small", ""})
        /\ Set(i, CASE o[1] = "StackAlloc" -> Checked([y EXCEPT !.stack = @ \o [k \in 1..n |-> <<"int", 0>>]])
                    [] o[1] = "StackStore" -> Drop([y EXCEPT !.stack[x.sh + n + 1] = Peek(x)], 1)
                    [] o[1] = "StackLoad"  -> Push(y, x.stack[x.sh + n + 1]))
        /\ Local

PureOp(i) ==
    LET x  == ex[i]
        o  == Instr(x)
        vs == TopN(x, Arity(o))
        y  == Drop(Skip(x, 0), Arity(o))
    IN  /\ At(i, PureOps)
        /\ Set(i, IF DividesByZero(o, vs) THEN End(y, "DivByZero") ELSE Push(y, Compute(o, vs)))
        /\ Local

CheckNull(i) ==
    LET x == ex[i]
    IN  /\ At(i, {<<"CheckNull", "Struct">>})
        /\ Set(i, Push(Drop(Skip(x, 0), 1), BoolVal(Peek(x) = <<"null">>)))
        /\ Local

(* Delegates are equal when their targets are, whatever they have bound.   *)
CheckEqTarget(i) ==
    LET x == ex[i]
        target(v) == IF IsRef(v) THEN Last(heap[v[2]].f) ELSE v
        ds == TopN(x, 2)
    IN  /\ At(i, {<<"CheckEq", "CallDynTgt">>})
        /\ Set(i, Push(Drop(Skip(x, 0), 2), BoolVal(target(ds[1]) = target(ds[2]))))
        /\ Local

MakeObject(i) ==
    LET x == ex[i]
        n == Operand(x, 0, 1)
        a == <<"ref", Len(heap) + 1>>
    IN  /\ \/ /\ At(i, {<<"Make", "Struct">>})
              /\ NewObject([k |-> "struct", f |-> TopN(x, n)])
              /\ Set(i, Push(Drop(Skip(x, 1), n), a))
           \/ /\ At(i, {<<"Make", "Atomic">>})
              /\ NewObject([k |-> "atomic", v |-> Signed(Operand(x, 0, 4), IntBits)])
              /\ Set(i, Push(Skip(x, 4), a))
           \/ /\ At(i, {<<"Make", "NullStruct">>})
              /\ Set(i, Push(Skip(x, 0), <<"null">>))
              /\ UNCHANGED heap
        /\ UNCHANGED <<exe, out, aborting>>

LoadField(i) ==
    LET x == ex[i]
    IN  /\ At(i, {<<"Struct", "LoadField">>})
        /\ Set(i, Push(Drop(Skip(x, 1), 1), heap[Peek(x)[2]].f[Operand(x, 0, 1) + 1]))
        /\ Local

StoreField(i) ==
    LET x == ex[i]
        top == TopN(x, 2)
    IN  /\ At(i, {<<"Struct", "StoreField">>})
        /\ heap' = [heap EXCEPT ![top[1][2]].f[Operand(x, 0, 1) + 1] = top[2]]
        /\ Set(i, Drop(Skip(x, 1), 2))
        /\ UNCHANGED <<exe, out, aborting>>

CompareSwap(i) ==
    LET x == ex[i]
        a == Peek(x)[2]
        old == heap[a].v
    IN  /\ At(i, {<<"Atomic", "CompareSwap">>})
        /\ heap' = [heap EXCEPT ![a].v = IF old = Operand(x, 0, 4) THEN Operand(x, 4, 4) ELSE old]
        /\ Set(i, Push(Drop(Skip(x, 8), 1), <<"int", old>>))
        /\ UNCHANGED <<exe, out, aborting>>

(* The loop of AtomicBlock only looks; it is left when it sees the value.  *)
AtomicBlock(i) ==
    LET x == ex[i]
    IN  /\ At(i, {<<"Atomic", "Block">>})
        /\ heap[Peek(x)[2]].v = Operand(x, 0, 4)
        /\ Set(i, Drop(Skip(x, 4), 1))
        /\ Local

Jump(i) ==
    LET x == ex[i]
        to == Operand(x, 0, 4)
    IN  /\ \/ /\ At(i, {<<"Jump", "">>})
              /\ Set(i, [x EXCEPT !.ip = to])
           \/ /\ At(i, {<<"JumpIf", "">>})
              /\ Set(i, IF Peek(x)[2] # 0 THEN [Drop(x, 1) EXCEPT !.ip = to] ELSE Drop(Skip(x, 4), 1))
        /\ Local

CallNormal(i) ==
    LET c == Callee(ex[i])
    IN  /\ At(i, {<<"Call", "Normal">>, <<"CallDyn", "Normal">>})
        /\ Set(i, IF c.x.pc = "run" THEN Enter(c.x, c.n, c.tgt) ELSE c.x)
        /\ Local

CallTail(i) ==
    LET c == Callee(ex[i])
    IN  /\ At(i, {<<"Call", "Tail">>, <<"CallDyn", "Tail">>})
        /\ Set(i, IF c.x.pc = "run" THEN Reenter(c.x, c.n, c.tgt) ELSE c.x)
        /\ Local

Ret(i) ==
    LET x == ex[i]
    IN  /\ At(i, {<<"Ret", "">>})
        /\ Set(i, IF x.sh = x.root THEN End(x, "Success") ELSE Leave(x))
        /\ Local

StackMove(i) ==
    LET x == ex[i]
        y == Skip(x, 0)
    IN  /\ \/ At(i, {<<"Dup", "">>}) /\ Set(i, Push(y, Peek(x)))
           \/ At(i, {<<"Pop", "">>}) /\ Set(i, Drop(y, 1))
        /\ Local

Fail(i) ==
    /\ At(i, {<<"Fail", "">>})
    /\ Set(i, End(ex[i], "Failed"))
    /\ Local

(* The one platform call that matters here: StreamWriteString.             *)
PCall(i) ==
    LET x == ex[i]
    IN  /\ At(i, {<<"PCall", "">>})
        /\ out' = Append(out, Peek(x))
        /\ Set(i, Push(Drop(Skip(x, 1), 2), BoolVal(TRUE)))
        /\ UNCHANGED <<exe, heap, aborting>>

-------------------------------------------------------------------------------
(* Forks and futures *)

(* fork, first half: the future and the thread are made. The arguments     *)
(* stay where they are.                                                    *)
CallForked(i) ==
    LET c == Callee(ex[i])
        a == Len(heap) + 1
        child == [pc |-> "entry", st |-> "Running", ip |-> c.tgt, stack |-> <<>>, sh |-> 0,
                  root |-> 0, fut |-> a, fork |-> 0,
                  args |-> [from |-> i, at |-> Len(c.x.stack) - c.n, n |-> c.n]]
    IN  /\ At(i, {<<"Call", "Forked">>, <<"CallDyn", "Forked">>})
        /\ IF c.x.pc = "run"
           THEN /\ NewObject([k |-> "future", started |-> FALSE, st |-> "Running", v |-> <<"null">>])
                /\ ex' = Append([ex EXCEPT ![i] = [c.x EXCEPT !.pc = "fork", !.fork = a, !.args.n = c.n]],
                                child)
           ELSE Set(i, c.x) /\ UNCHANGED heap
        /\ UNCHANGED <<exe, out, aborting>>

(* The beginning of execute() in the new thread: promise on the stack, the *)
(* arguments copied from the parent's, started announced, first trap.      *)
Start(i) ==
    LET x == ex[i]
        args == SubSeq(ex[x.args.from].stack, x.args.at + 1, x.args.at + x.args.n)
        y == [x EXCEPT !.pc = "run", !.stack = <<<<"ref", x.fut>>>> \o args, !.sh = 1, !.root = 1]
    IN  /\ x.pc = "entry"
        /\ heap' = [heap EXCEPT ![x.fut].started = TRUE]
        /\ Set(i, IF aborting THEN End(y, "Aborted") ELSE y)
        /\ UNCHANGED <<exe, out, aborting>>

(* fork, second half: the arguments make place for the future.             *)
ForkStarted(i) ==
    LET x == ex[i]
    IN  /\ x.pc = "fork"
        /\ heap[x.fork].started
        /\ Set(i, Push([Drop(x, x.args.n) EXCEPT !.pc = "run", !.fork = 0, !.args.n = 0], <<"ref", x.fork>>))
        /\ Local

(* The wait may end early, by its timeout; one of no length only polls.    *)
WaitNano(i) ==
    LET x == ex[i]
        top == TopN(x, 2)
        over == heap[top[1][2]].st # "Running"
    IN  /\ At(i, {<<"Future", "WaitNano">>})
        /\ Set(i, Push(Drop(Skip(x, 0), 2), BoolVal(over)))
        /\ Local

FutureBlock(i) ==
    LET x == ex[i]
        f == heap[Peek(x)[2]]
    IN  /\ At(i, {<<"Future", "Block">>})
        /\ f.st # "Running"
        /\ Set(i, IF f.st = "Success" THEN Push(Drop(Skip(x, 0), 1), f.v) ELSE End(x, f.st))
        /\ Local

(* The label End: the promise is given the result and the final state.     *)
Finish(i) ==
    LET x == ex[i]
        v == IF x.st = "Success" THEN Peek(x) ELSE <<"null">>
    IN  /\ x.pc = "end"
        /\ Set(i, [x EXCEPT !.pc = "done"])
        /\ heap' = IF x.fut = 0 \/ x.st = "Aborted" THEN heap
                   ELSE [heap EXCEPT ![x.fut].st = x.st, ![x.fut].v = v]
        /\ UNCHANGED <<exe, out, aborting>>

(* run(): when the program's executor has returned, the forks are aborted. *)
AbortExecutors ==
    /\ ex[1].pc = "done"
    /\ ~aborting
    /\ aborting' = TRUE
    /\ UNCHANGED <<exe, ex, heap, out>>

(* A trap of a fork that has been asked to abort.                          *)
TrapAborts(i) ==
    /\ ex[i].pc = "run"
    /\ aborting
    /\ Traps(ex[i])
    /\ Set(i, End(ex[i], "Aborted"))
    /\ Local

-------------------------------------------------------------------------------
(* run(): the executor of the program, at the entry point.                 *)
RootExecutor(entry) ==
    [pc |-> "run", st |-> "Running", ip |-> entry, stack |-> <<>>, sh |-> 0, root |-> 0,
     fut |-> 0, fork |-> 0, args |-> [from |-> 0, at |-> 0, n |-> 0]]

Step(i) ==
    \/ LoadLit(i) \/ StackOp(i) \/ PureOp(i) \/ CheckNull(i) \/ CheckEqTarget(i)
    \/ MakeObject(i) \/ LoadField(i) \/ StoreField(i) \/ CompareSwap(i) \/ AtomicBlock(i)
    \/ Jump(i) \/ CallNormal(i) \/ CallTail(i) \/ Ret(i) \/ StackMove(i) \/ Fail(i) \/ PCall(i)
    \/ CallForked(i) \/ Start(i) \/ ForkStarted(i) \/ WaitNano(i) \/ FutureBlock(i)
    \/ Finish(i) \/ TrapAborts(i)
===============================================================================
