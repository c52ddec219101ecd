------------------------------ MODULE TypeInfer ------------------------------
(* Inference of the type of an expression that has not been analysed yet       *)
(* (frontend/internal/typeinfer_expr.cpp).                                     *)
(*                                                                             *)
(* A parse node is a record: k is its kind, a the sequence of its children,    *)
(* and depending on the kind it has a name, a type, a mode (of a call), inst   *)
(* (the first child of a call is the instance it is called on) or the params   *)
(* of a lambda.  The children of a switch are condition, branch, condition,    *)
(* branch, ..., and the else branch if there is one.                           *)
(*                                                                             *)
(* consts is the map of constant types: one per function, never overwritten,   *)
(* and without scopes.  fl has the flags: aggressive, actions (calls of        *)
(* actions are allowed), and errors (a diagnostic was reported).               *)
EXTENDS Overloads, TLC

NoConsts == [n \in {} |-> Infer]

setConstType(consts, name, type) == consts @@ (name :> type)
inferConstType(consts, name)     == IF name \in DOMAIN consts THEN consts[name] ELSE Infer

isFuncOrConv(prog, name) == hasType(prog, name) \/ hasFunc(prog, name)

getDelegate(decl) == IF isConcrete(decl.out) THEN Delegate(decl.in, decl.out, decl.action) ELSE Infer

\* What a call gives: a future if it is forked, a lazy if it is lazy.
CallType(type, isAction, mode) ==
  CASE mode = "fork" -> Future(type) [] mode = "lazy" -> Lazy(type, isAction) [] OTHER -> type

inferFuncCall(prog, name, types, mode, fl) ==
  LET Called(f) == IF f = NoFunc \/ ~isConcrete(prog.funcs[f].out) THEN Infer
                   ELSE CallType(prog.funcs[f].out, prog.funcs[f].action, mode)
  IN  IF \E i \in DOMAIN types : ~isConcrete(types[i]) THEN Infer
      ELSE Called(lookupFunc(prog, name, types, -1, ~fl.actions))

\* The type of a call of something that is not a function's name.
inferDynCall(prog, types, mode, fl) ==
  IF isDelegate(types[1]) THEN CallType(types[1][3], types[1][4], mode)
                          ELSE inferFuncCall(prog, "()", types, mode, fl)

\* The node whose value a call calls when its name is not a function's.
DynTarget(n) == IF n.inst THEN <<[k |-> "field", name |-> n.name, a |-> <<n.a[1]>>]>> \o Tail(n.a)
                          ELSE <<[k |-> "id", name |-> n.name, a |-> <<>>]>> \o n.a

isElse(n, i) == Len(n.a) % 2 = 1 /\ i = Len(n.a)
branchAt(n)  == {i \in DOMAIN n.a : i % 2 = 0 \/ isElse(n, i)}

Known(types) == SelectSeq(types, isConcrete)

\* visit(n): the type of the node and the constant types afterwards.
RECURSIVE InferExpr(_, _, _, _)
RECURSIVE InferAll(_, _, _, _)

\* The children of a node from left to right.
InferAll(prog, ns, consts, fl) ==
  IF ns = <<>> THEN [types |-> <<>>, consts |-> consts]
  ELSE LET r == InferExpr(prog, Head(ns), consts, fl)
           s == InferAll(prog, Tail(ns), r.consts, fl)
       IN  [types |-> <<r.type>> \o s.types, consts |-> s.consts]

\* inferRetType: the parameters come first, then the constants of the enclosing function.
InferBody(prog, n, consts, fl) ==
  LET params == FoldLeft(LAMBDA acc, p : setConstType(acc, p.name, p.type), NoConsts, n.params)
  IN  InferExpr(prog, n.a[1], params @@ consts, fl).type

inferAnonFunc(prog, n, consts, fl) ==
  LET Returning(ret) == IF isConcrete(ret)
                        THEN Delegate([i \in DOMAIN n.params |-> n.params[i].type], ret, n.action) ELSE Infer
  IN  Returning(IF isConcrete(n.type) THEN n.type
                ELSE InferBody(prog, n, consts, [fl EXCEPT !.aggressive = TRUE, !.actions = n.action]))

\* Branches stop the inference at the first type that is not known yet, unless it is aggressive:
\* then what is known decides.
inferBranches(prog, n, branches, types, fl) ==
  LET unknown == {i \in branches : ~isConcrete(types[i])}
      listed  == SetToSortSeq(branches, <)
  IN  IF ~fl.aggressive /\ unknown # {} THEN Infer
      ELSE findCommonType(prog, Known([i \in DOMAIN listed |-> types[listed[i]]]))

\* The else branch of a conditional may stay unknown: the if branch decides then.
inferConditional(prog, types, fl) ==
  IF ~isConcrete(types[2]) /\ ~fl.aggressive THEN Infer
  ELSE findCommonType(prog, Known(<<types[2], types[3]>>))

\* Constants an early return does not get to.
ReachedConsts(prog, n, consts, fl) ==
  LET prefix(i) == InferAll(prog, SubSeq(n.a, 1, i), consts, fl)
      stop      == {i \in branchAt(n) : ~fl.aggressive /\ ~isConcrete(Last(prefix(i).types))}
  IN  IF stop = {} THEN InferAll(prog, n.a, consts, fl).consts ELSE prefix(Min(stop)).consts

InferNode(prog, n, consts, fl, kids) ==
  LET Typed(t) == [type |-> t, consts |-> kids.consts]
  IN
  CASE n.k = "lit"    -> Typed(n.type)
    [] n.k = "paren"  -> Typed(kids.types[1])
    [] n.k = "group"  -> Typed(Last(kids.types))
    [] n.k = "decl"   -> [type |-> kids.types[1], consts |-> setConstType(kids.consts, n.name, kids.types[1])]
    [] n.k = "id"     ->
         LET funcs == lookupByName(prog, n.name, FALSE, TRUE)
         IN  Typed(IF isConcrete(inferConstType(consts, n.name)) THEN consts[n.name]
                   ELSE IF funcs # <<>> /\ ~fl.errors THEN getDelegate(prog.funcs[funcs[1]]) ELSE Infer)
    [] n.k = "logic"  -> [type |-> BoolType, consts |-> consts]
    [] n.k \in {"binary", "unary"} -> Typed(inferFuncCall(prog, n.name, kids.types, "normal", fl))
    [] n.k = "index"  -> Typed(inferFuncCall(prog, "[]", kids.types, "normal", fl))
    [] n.k = "is"     -> [type |-> BoolType, consts |-> IF n.name = "" THEN consts ELSE setConstType(consts, n.name, n.type)]
    [] n.k = "self"   -> Typed(Infer)
    [] n.k = "static" -> Typed(IF isKind(prog, n.type, "enum") THEN n.type ELSE Infer)
    [] n.k = "field"  ->
         LET fields == IF isKind(prog, kids.types[1], "struct") THEN prog.types[kids.types[1][1]].members ELSE <<>>
             at     == {i \in DOMAIN fields : fields[i].name = n.name}
         IN  Typed(IF at = {} THEN Infer ELSE fields[Min(at)].type)
    [] n.k = "lambda" -> [type |-> inferAnonFunc(prog, n, consts, fl), consts |-> consts]
    [] n.k = "dyn"    -> Typed(inferDynCall(prog, kids.types, n.mode, fl))
    [] n.k = "call"   ->
         IF n.name \in DOMAIN consts \/ (n.inst /\ ~isFuncOrConv(prog, n.name))
         THEN LET Called(target) == [type |-> inferDynCall(prog, target.types, n.mode, fl), consts |-> target.consts]
              IN  Called(InferAll(prog, DynTarget(n), consts, fl))
         ELSE Typed(IF hasType(prog, n.name) THEN CallType(<<n.name>>, FALSE, n.mode)
                    ELSE inferFuncCall(prog, n.name, kids.types, n.mode, fl))
    [] n.k = "cond"   ->
         [type |-> inferConditional(prog, kids.types, fl),
          consts |-> IF ~isConcrete(kids.types[2]) /\ ~fl.aggressive
                     THEN InferAll(prog, SubSeq(n.a, 1, 2), consts, fl).consts ELSE kids.consts]
    [] n.k = "switch" ->
         [type |-> inferBranches(prog, n, branchAt(n), kids.types, fl),
          consts |-> ReachedConsts(prog, n, consts, fl)]

InferExpr(prog, n, consts, fl) == InferNode(prog, n, consts, fl, InferAll(prog, n.a, consts, fl))

=============================================================================
