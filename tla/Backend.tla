-------------------------------- MODULE Backend --------------------------------
(***************************************************************************)
(* The code generator (src/backend).                                       *)
(*                                                                         *)
(* Gen(c, e, tail, wanted, at) is the code of node e. The context c is     *)
(* [p, consts, cur, name]: the program, the table of constants of the      *)
(* enclosing function or execute statement, that function (NoFunc in a     *)
(* statement) and its label. tail and wanted are GenExpr's m_tail and      *)
(* m_requestedValues. at is the path to e, which makes the labels it       *)
(* generates unique, as the assembler's counter does in the code.          *)
(***************************************************************************)
EXTENDS Prog, Assembler

NoFunc == <<"None">>

FuncLabel(f) == <<"func", f[2]>>

GenLabel(c, at, prefix) == <<prefix, c.name, at>>

(* Mutant: a call in tail position is a call like any other.               *)
CallModeNoTail(forked, tail) == IF forked THEN "Forked" ELSE "Normal"

CallMode(forked, tail) == IF forked THEN "Forked" ELSE IF tail THEN "Tail" ELSE "Normal"

(* m_valuesProduced: only an assignment whose value nobody wants leaves    *)
(* nothing on the stack.                                                   *)
Produces(e, wanted) == IF e.k = "Assign" /\ wanted = 0 THEN 0 ELSE 1

AddDup == AddPlain(<<"Dup", "">>)
AddPop == AddPlain(<<"Pop", "">>)
AddRet == AddPlain(<<"Ret", "">>)
AddPops(n) == Concat([i \in 1..n |-> AddPop])

AddStructLoad(i) == AddByte(<<"Struct", "LoadField">>, i)

UnionDiscriminant(u, t) == SelectInSeq(Unions[u], LAMBDA x : x = t) - 1

(* gen_lazy.cpp: a lazy object is a struct of an atomic (0 idle, 1 being   *)
(* computed, 2 computed) and the closure, later the value. The winner of   *)
(* the swap from 0 to busy (1) computes; everybody else waits for 2.       *)
LazyGetCode(c, at, busy, done) ==
    LET notIdle == GenLabel(c, at, "lazy-get-not-idle")
        result  == GenLabel(c, at, "lazy-get-return-result")
        cas(from, to) == Write(<<"Atomic", "CompareSwap">>, Bytes(from, 4) \o Bytes(to, 4))
    IN  AddDup \o AddDup \o AddStructLoad(0) \o cas(0, busy) \o AddJump("JumpIf", notIdle)
          \o AddDup \o AddDup \o AddStructLoad(1) \o AddCallDyn(0, "Normal")
          \o AddByte(<<"Struct", "StoreField">>, 1)
          \o AddStructLoad(0) \o cas(busy, done) \o AddPop \o AddJump("Jump", result)
          \o PutLabel(notIdle) \o AddStructLoad(0) \o Write(<<"Atomic", "Block">>, Bytes(2, 4))
          \o PutLabel(result) \o AddStructLoad(1)

(* Mutants: the lock is not taken, or taken and not given back.            *)
GenLazyGetUnlocked(c, at) == LazyGetCode(c, at, 0, 2)
GenLazyGetNotDone(c, at) == LazyGetCode(c, at, 1, 1)

GenLazyGet(c, at) == LazyGetCode(c, at, 1, 2)

RECURSIVE Gen(_, _, _, _, _)

(* The children first..last of e, one value each.                          *)
GenKids(c, e, first, last, at) ==
    Concat([i \in 1..(last - first + 1) |->
              Gen(c, e.kids[first + i - 1], FALSE, 1, Append(at, first + i - 1))])

GenValues(c, e, at) == GenKids(c, e, 1, Len(e.kids), at)

GenAssign(c, e, wanted, at) ==
    GenValues(c, e, at) \o (IF wanted > 0 THEN AddDup ELSE <<>>)
      \o AddStack("StackStore", GetOffset(c.consts, e.a))

(* Conditions first, each jumping to its branch; falling through them is   *)
(* the else branch.                                                        *)
GenSwitch(c, e, tail, at) ==
    LET n    == Len(Conditions(e))
        label(i) == GenLabel(c, Append(at, i), "switch-if")
        end  == GenLabel(c, at, "switch-end")
        test(i)   == GenKids(c, e, i, i, at) \o AddJump("JumpIf", label(i))
        branch(i) == Gen(c, e.kids[n + i], tail, 1, Append(at, n + i))
        jump(i)   == IF i # n THEN AddJump("Jump", end) ELSE <<>>
    IN  Concat([i \in 1..n |-> test(i)]) \o branch(n + 1) \o AddJump("Jump", end)
          \o Concat([i \in 1..n |-> PutLabel(label(i)) \o branch(i) \o jump(i)]) \o PutLabel(end)

GenGroup(c, e, tail, at) ==
    LET n == Len(e.kids)
        sub(i) == IF i = n THEN Gen(c, e.kids[i], tail, 1, Append(at, i))
                  ELSE Gen(c, e.kids[i], FALSE, 0, Append(at, i)) \o AddPops(Produces(e.kids[i], 0))
    IN  Concat([i \in 1..n |-> sub(i)])

(* A closure is a struct of the bound arguments and the code offset.       *)
MakeClosure(bound, n, label) ==
    bound \o AddLoadLitIp(label) \o AddByte(<<"Make", "Struct">>, n + 1)

(* A closure over a delegate goes through a trampoline, placed in line,    *)
(* that is given the arguments and then the delegate.                      *)
MakeDynClosure(c, e, at) ==
    LET begin == GenLabel(c, at, "trampoline-begin")
        end   == GenLabel(c, at, "trampoline-end")
        n     == Len(e.kids) - 1
    IN  MakeClosure(GenKids(c, e, 2, n + 1, at) \o GenKids(c, e, 1, 1, at), n + 1, begin)
          \o AddJump("Jump", end) \o PutLabel(begin) \o AddCallDyn(n, "Tail") \o PutLabel(end)

MakeAtomic(n) == Write(<<"Make", "Atomic">>, Bytes(n, 4))

MakePair == AddByte(<<"Make", "Struct">>, 2)

(* makeUnion: a nullable struct is itself or null, any other union a pair  *)
(* of discriminant and value. Inside a pure function the expression of the *)
(* tag type is not even generated.                                         *)
MakeUnion(c, e, tail, at) ==
    LET x == e.kids[1]
        keeps == c.cur = NoFunc \/ IsActionFunc(c.p, c.cur)
    IN  CASE UnionIsNullableStruct(e.t) /\ StructIsTagType(x.t) ->
                (IF keeps THEN GenValues(c, e, at) \o AddPop ELSE <<>>)
                  \o AddPlain(<<"Make", "NullStruct">>)
          [] UnionIsNullableStruct(e.t) /\ ~StructIsTagType(x.t) -> Gen(c, x, tail, 1, Append(at, 1))
          [] OTHER -> AddLoadLitInt(UnionDiscriminant(e.t, x.t)) \o GenValues(c, e, at) \o MakePair

(* The instruction of an intrinsic, its arguments being on the stack.      *)
GenIntrinsic(c, f, n, at) ==
    CASE f \in PureOps -> AddPlain(f)
      [] f = <<"NoOp", "">> -> IF n = 0 THEN AddLoadLitInt(0) ELSE AddPops(n - 1)
      [] f = <<"Make", "Struct">> ->
            (CASE n = 0 -> AddPlain(<<"Make", "NullStruct">>)
               [] n = 1 -> <<>>
               [] OTHER -> AddByte(<<"Make", "Struct">>, n))
      [] f \in {<<"Future", "Block">>, <<"Future", "WaitNano">>} -> AddPlain(f)
      [] IsLazyGet(f) -> GenLazyGet(c, at)
      [] f = <<"CheckEq", "Delegate">> -> AddPlain(<<"CheckEq", "CallDynTgt">>)
      [] f = <<"SourceLoc", "Line">> -> AddLoadLitInt(-1)
      [] f = <<"Action", "StreamWriteString">> -> AddByte(<<"PCall", "">>, 0)

GenCall(c, e, tail, at) ==
    LET f == e.a.f
        args == GenValues(c, e, at)
    IN  CASE f = <<"Make", "Union">> -> MakeUnion(c, e, tail, at)
          [] e.a.mode = "Lazy" ->
                MakeAtomic(0) \o MakeClosure(args, Len(e.kids), FuncLabel(f)) \o MakePair
          [] e.a.mode # "Lazy" /\ IsUser(c.p, f) ->
                args \o AddCall(FuncLabel(f), Len(Inputs(c.p.funcs[f].consts)),
                                CallMode(e.a.mode = "Forked", tail))
          [] OTHER -> args \o GenIntrinsic(c, f, Len(e.kids), at)

(* The delegate is evaluated behind the arguments.                         *)
GenCallDyn(c, e, tail, at) ==
    LET n == Len(e.kids) - 1
    IN  IF e.a = "Lazy" THEN MakeAtomic(0) \o MakeDynClosure(c, e, at) \o MakePair
        ELSE GenKids(c, e, 2, n + 1, at) \o GenKids(c, e, 1, 1, at)
               \o AddCallDyn(n, CallMode(e.a = "Forked", tail))

(* A self call passes the bound arguments of the running function on.      *)
GenCallSelf(c, e, tail, at) ==
    LET table == c.p.funcs[c.cur].consts
        bound == ConstIds(table, {"Bound"})
    IN  GenValues(c, e, at)
          \o Concat([i \in DOMAIN bound |-> AddStack("StackLoad", GetOffset(c.consts, bound[i]))])
          \o AddCall(FuncLabel(c.cur), Len(Inputs(table)), CallMode(FALSE, tail))

GenField(c, e, at) ==
    GenValues(c, e, at) \o (IF Len(Structs[e.kids[1].t]) = 1 THEN <<>> ELSE AddStructLoad(e.a))

(* Whether the value on the stack is (not) the null struct.                *)
AddNullCheck(isNull) ==
    AddPlain(<<"CheckNull", "Struct">>) \o (IF isNull THEN <<>> ELSE AddPlain(<<"CheckZero", "Int">>))

AddDiscriminantCheck(u, t) ==
    AddStructLoad(0) \o AddLoadLitInt(UnionDiscriminant(u, t)) \o AddPlain(<<"CheckEq", "Int">>)

GenUnionCheck(c, e, at) ==
    LET u == e.kids[1].t
    IN  GenValues(c, e, at) \o (IF UnionIsNullableStruct(u) THEN AddNullCheck(StructIsTagType(e.a))
                                ELSE AddDiscriminantCheck(u, e.a))

GenUnionGet(c, e, at) ==
    LET u     == e.kids[1].t
        value == GenValues(c, e, at)
        store == AddStack("StackStore", GetOffset(c.consts, e.a.c))
        eq    == GenLabel(c, at, "union-type-equal")
        end   == GenLabel(c, at, "union-get-end")
    IN  CASE UnionIsNullableStruct(u) /\ StructIsTagType(e.a.t) -> value \o AddNullCheck(TRUE)
          [] UnionIsNullableStruct(u) /\ ~StructIsTagType(e.a.t) ->
                value \o AddDup \o store \o AddNullCheck(FALSE)
          [] OTHER ->
                value \o AddDup \o AddDiscriminantCheck(u, e.a.t) \o AddJump("JumpIf", eq)
                  \o AddPop \o AddLoadLitInt(0) \o AddJump("Jump", end)
                  \o PutLabel(eq) \o AddStructLoad(1) \o store \o AddLoadLitInt(1) \o PutLabel(end)

GenLit(e) ==
    CASE e.a[1] = "int"  -> AddLoadLitInt(e.a[2])
      [] e.a[1] = "long" -> AddLoadLitLong(e.a[2])
      [] e.a[1] = "str"  -> AddLoadLitString(e.a[2])
      [] e.a[1] = "term" -> AddLoadLitFloat(e.a)

Gen(c, e, tail, wanted, at) ==
    CASE e.k = "Assign"     -> GenAssign(c, e, wanted, at)
      [] e.k = "Switch"     -> GenSwitch(c, e, tail, at)
      [] e.k = "Call"       -> GenCall(c, e, tail, at)
      [] e.k = "CallDyn"    -> GenCallDyn(c, e, tail, at)
      [] e.k = "CallSelf"   -> GenCallSelf(c, e, tail, at)
      [] e.k = "Closure"    -> MakeClosure(GenValues(c, e, at), Len(e.kids), FuncLabel(e.a))
      [] e.k = "Const"      -> AddStack("StackLoad", GetOffset(c.consts, e.a))
      [] e.k = "Field"      -> GenField(c, e, at)
      [] e.k = "Group"      -> GenGroup(c, e, tail, at)
      [] e.k = "UnionCheck" -> GenUnionCheck(c, e, at)
      [] e.k = "UnionGet"   -> GenUnionGet(c, e, at)
      [] e.k = "Fail"       -> AddPlain(<<"Fail", "">>)
      [] e.k = "LitFunc"    -> AddLoadLitIp(FuncLabel(e.a))
      [] e.k = "Lit"        -> GenLit(e)

-------------------------------------------------------------------------------
(* generator.cpp *)

ReserveConsts(consts) ==
    LET n == Len(ConstIds(consts, {"Local"}))
    IN  IF n > 0 THEN AddStack("StackAlloc", n) ELSE <<>>

GenerateFunc(p, f) ==
    LET fn == p.funcs[f]
    IN  PutLabel(FuncLabel(f)) \o ReserveConsts(fn.consts)
          \o Gen([p |-> p, consts |-> fn.consts, cur |-> f, name |-> FuncLabel(f)],
                 fn.body, TRUE, 1, <<>>)
          \o AddRet

ExecLabel(i) == <<"exec-stmt", ToString(i)>>

(* Execute statements are never generated in tail position.                *)
GenerateExecStmt(p, i) ==
    LET x == p.execs[i]
    IN  PutLabel(ExecLabel(i)) \o ReserveConsts(x.consts)
          \o Gen([p |-> p, consts |-> x.consts, cur |-> NoFunc, name |-> ExecLabel(i)],
                 x.body, FALSE, 1, <<>>)
          \o AddRet

(* Functions in any order, then the statements, then, when there is not    *)
(* exactly one statement, the code that calls them in order.               *)
Generate(p) ==
    LET fs    == SetToSeq(DOMAIN p.funcs)
        execs == DOMAIN p.execs
        entry == <<"entrypoint", "">>
        body  == Concat([i \in DOMAIN fs |-> GenerateFunc(p, fs[i])])
                   \o Concat([i \in execs |-> GenerateExecStmt(p, i)])
        calls == Concat([i \in execs |-> AddCall(ExecLabel(i), 0, "Normal")])
    IN  IF Len(p.execs) = 1 THEN Close(body, ExecLabel(1))
        ELSE Close(body \o PutLabel(entry) \o calls \o AddRet, entry)
===============================================================================
