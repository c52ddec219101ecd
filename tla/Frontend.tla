------------------------------ MODULE Frontend -------------------------------
(* frontend::analyze (frontend/analysis.cpp): imports, declarations,           *)
(* inference of return types, definitions, validation, optional arguments.     *)
(*                                                                             *)
(* One step is one import statement, one declaration, one attempt to infer a   *)
(* return type, one definition; a phase that reported a diagnostic is the last.*)
EXTENDS GetExpr, Imports

CONSTANTS Prelude,       \* the functions every program has: declarations without inference
          MaxOptDepth    \* g_maxOptArgRecurseDepth

VARIABLES next,      \* what the phase does next: a position in the list it goes through
          prog,      \* the program: types and funcs
          decls,     \* funcDeclInfos: [id, node]
          processed, \* the functions whose return type was attempted before
          pass,      \* [first, all, one] of the inference loop
          execs      \* the execute statements that are defined

frontVars == <<source, stack, imported, phase, next, prog, decls, processed, pass, execs, diags>>

analysisVars == <<prog, decls, processed, pass, execs>>

\* What the files declare, in the order of the files.
TypeDecls == FlattenSeq([i \in DOMAIN Contexts |-> source.files[Contexts[i]].types])
FuncDecls == FlattenSeq([i \in DOMAIN Contexts |-> source.files[Contexts[i]].funcs])

EndPhase(nextPhase) == phase' = Then(nextPhase) /\ next' = 1

---------------------------------------------------------------------------
(* Types *)

DeclareType ==
  /\ phase = "types" /\ next <= Len(TypeDecls)
  /\ LET d     == TypeDecls[next]
         wrong == IF hasType(prog, d.name) THEN {"errTypeAlreadyDeclared"}
                  ELSE IF hasFunc(prog, d.name) THEN {"errTypeNameConflictsWithFunc"} ELSE {}
     IN  /\ diags' = diags \union wrong
         /\ prog' = IF wrong = {} THEN [prog EXCEPT !.types = @ @@ (d.name :> [kind |-> d.kind, members |-> <<>>])] ELSE prog
  /\ next' = next + 1
  /\ UNCHANGED <<source, stack, imported, phase, decls, processed, pass, execs>>

EndDeclareTypes == /\ phase = "types" /\ next > Len(TypeDecls)
                   /\ EndPhase("defineTypes")
                   /\ UNCHANGED <<source, stack, imported, diags, analysisVars>>

Builtin(name, input, output, implicit) ==
  [name |-> name, in |-> input, out |-> output, opt |-> 0, action |-> FALSE, implicit |-> implicit,
   kind |-> "make", params |-> <<>>, bound |-> <<>>, body |-> <<>>, inits |-> <<>>]

\* The constructors and conversions a type brings.
TypeFuncs(d) ==
  LET types == [i \in DOMAIN d.members |-> d.members[i].type]
  IN  CASE d.kind = "struct" -> <<Builtin(d.name, types, <<d.name>>, FALSE)>>
        [] d.kind = "union"  -> [i \in DOMAIN types |-> Builtin(d.name, <<types[i]>>, <<d.name>>, TRUE)]
        [] d.kind = "enum"   -> <<Builtin(d.name, <<IntType>>, <<d.name>>, FALSE), Builtin("int", <<<<d.name>>>>, IntType, TRUE)>>

TypeMistakes(d) ==
  LET member(i) == d.members[i]
      twice     == \E i, j \in DOMAIN d.members : i < j /\ IF d.kind = "union" THEN member(i).type = member(j).type
                                                                               ELSE member(i).name = member(j).name
      unknown   == \E i \in DOMAIN d.members : Len(member(i).type) = 1 /\ ~hasType(prog, member(i).type[1])
      typeNamed == \E i \in DOMAIN d.members : hasType(prog, member(i).name)
  IN  IF d.kind # "enum" /\ unknown THEN {"errUndeclaredType"}
      ELSE IF twice THEN {"errDuplicateMember"}
      ELSE IF d.kind = "struct" /\ typeNamed THEN {"errFieldNameConflictsWithType"} ELSE {}

DefineType ==
  /\ phase = "defineTypes" /\ next <= Len(TypeDecls)
  /\ LET order == SelectSeq(TypeDecls, LAMBDA t : t.kind = "struct") \o SelectSeq(TypeDecls, LAMBDA t : t.kind = "union")
                  \o SelectSeq(TypeDecls, LAMBDA t : t.kind = "enum")
         d     == order[next]
     IN  /\ diags' = diags \union TypeMistakes(d)
         /\ prog' = IF TypeMistakes(d) # {} THEN prog
                    ELSE [prog EXCEPT !.types[d.name].members = d.members, !.funcs = @ \o TypeFuncs(d)]
  /\ next' = next + 1
  /\ UNCHANGED <<source, stack, imported, phase, decls, processed, pass, execs>>

EndDefineTypes == /\ phase = "defineTypes" /\ next > Len(TypeDecls)
                  /\ EndPhase("declare")
                  /\ UNCHANGED <<source, stack, imported, diags, analysisVars>>

---------------------------------------------------------------------------
(* Functions *)

\* A parameter without an initializer after one that has one.
hasOptGap(params) == \E i, j \in DOMAIN params : i < j /\ params[i].init # <<>> /\ params[j].init = <<>>

getNumOptInputs(params) == IF hasOptGap(params) THEN 0 ELSE Cardinality({i \in DOMAIN params : params[i].init # <<>>})

isOperator(name) == name \in {"+", "!", "()", "[]"}

FuncMistakes(n) ==
  LET input  == [i \in DOMAIN n.params |-> n.params[i].type]
      isConv == hasType(prog, n.name)
  IN  CASE isOperator(n.name) /\ n.action       -> {"errNonPureOperatorOverload"}
        [] isOperator(n.name) /\ input = <<>>   -> {"errOperatorOverloadWithoutArgs"}
        [] lookupFunc(prog, n.name, input, 0, FALSE) # NoFunc -> {"errDuplicateFuncDeclaration"}
        [] isConv /\ n.action                   -> {"errNonPureConversion"}
        [] n.implicit /\ ~isConv                -> {"errImplicitNonConv"}
        [] n.implicit /\ (Len(input) # 1 \/ getNumOptInputs(n.params) # 0) -> {"errToManyInputsInImplicitConv"}
        [] isConv /\ n.type \notin {Infer, <<n.name>>} -> {"errIncorrectReturnTypeInConvFunc"}
        [] OTHER                                -> {}

Declared(n) ==
  [name |-> n.name, in |-> [i \in DOMAIN n.params |-> n.params[i].type],
   out |-> IF hasType(prog, n.name) THEN <<n.name>> ELSE n.type, opt |-> getNumOptInputs(n.params),
   action |-> n.action, implicit |-> n.implicit, kind |-> "user", params |-> n.params, bound |-> <<>>,
   body |-> <<>>, inits |-> <<>>]

DeclareFunc ==
  /\ phase = "declare" /\ next <= Len(FuncDecls)
  /\ LET n == FuncDecls[next]
     IN  /\ diags' = diags \union FuncMistakes(n) \union IF hasOptGap(n.params) THEN {"errNonOptArgFollowingOpt"} ELSE {}
         /\ IF FuncMistakes(n) # {} THEN UNCHANGED <<prog, decls>>
            ELSE /\ prog' = [prog EXCEPT !.funcs = Append(@, Declared(n))]
                 /\ decls' = Append(decls, [id |-> Len(prog.funcs) + 1, node |-> n])
  /\ next' = next + 1
  /\ UNCHANGED <<source, stack, imported, phase, processed, pass, execs>>

EndDeclareFuncs == /\ phase = "declare" /\ next > Len(FuncDecls)
                   /\ EndPhase("infer")
                   /\ UNCHANGED <<source, stack, imported, diags, analysisVars>>

\* One function of one pass: the first attempt is careful, later ones are aggressive.
inferRetType(d) ==
  InferBody(prog, d.node, NoConsts,
            [aggressive |-> d.id \in processed, actions |-> d.node.action, errors |-> FALSE])

InferFunc ==
  /\ phase = "infer" /\ next <= Len(decls)
  /\ LET d == decls[next]
     IN  IF isConcrete(prog.funcs[d.id].out) THEN UNCHANGED <<prog, processed, pass>>
         ELSE \E type \in {inferRetType(d)} :
              /\ processed' = processed \union {d.id}
              /\ prog' = [prog EXCEPT !.funcs[d.id].out = type]
              /\ pass' = [pass EXCEPT !.all = @ /\ isConcrete(type), !.one = @ \/ isConcrete(type)]
  /\ next' = next + 1
  /\ UNCHANGED <<source, stack, imported, phase, decls, execs, diags>>

EndPassUntilAll ==
  /\ phase = "infer" /\ next > Len(decls)
  /\ next' = 1
  /\ pass' = [first |-> FALSE, all |-> TRUE, one |-> FALSE]
  /\ phase' = IF pass.all THEN "define" ELSE "infer"
  /\ UNCHANGED <<source, stack, imported, prog, decls, processed, execs, diags>>

\* Passes go on until every return type is known, or none became known but in the first.
EndPass ==
  /\ phase = "infer" /\ next > Len(decls)
  /\ next' = 1
  /\ pass' = [first |-> FALSE, all |-> TRUE, one |-> FALSE]
  /\ phase' = IF pass.all \/ (~pass.first /\ ~pass.one) THEN "define" ELSE "infer"
  /\ UNCHANGED <<source, stack, imported, prog, decls, processed, execs, diags>>

CallsEvenLazily(e, f) == e.func = f
CallsNow(e, f)        == e.func = f /\ e.mode # "lazy"

\* The function calls itself whatever happens; conditions count as if all were evaluated.
RECURSIVE LeadsToInfRec(_, _)
LeadsToInfRec(e, f) ==
  LET conds    == (Len(e.a) - 1) \div 2
      parts(p) == {i \in DOMAIN e.a : (i <= conds) = p}
  IN  CASE e.k = "switch" -> \/ \E i \in parts(TRUE) : LeadsToInfRec(e.a[i], f)
                             \/ \A i \in parts(FALSE) : LeadsToInfRec(e.a[i], f)
        [] e.k = "call"   -> \/ CallsNow(e, f)
                             \/ \E i \in DOMAIN e.a : LeadsToInfRec(e.a[i], f)
        [] e.k = "self"   -> FALSE
        [] OTHER          -> \E i \in DOMAIN e.a : LeadsToInfRec(e.a[i], f)

Analysis(scopes) == [prog |-> prog, diags |-> diags, scopes |-> scopes]

\* The initializers of the optional parameters of function f: no constants, no self, and no
\* conversion by f itself.
RECURSIVE GetInitializers(_, _, _)

\* The first of them was analysed, with result r.
CheckInitializer(inits, f, r) ==
  LET type == Head(inits).type
      ok   == r.e.type = type \/ findImplicitConv(r.st.prog, r.e.type, type) \notin {NoFunc, f}
      s    == GetInitializers(Tail(inits), f, IF ok THEN r.st ELSE reportDiag(r.st, "errNonMatchingInitializerType"))
  IN  IF r.e = NoNode THEN [es |-> <<>>, st |-> r.st]
      ELSE [s EXCEPT !.es = IF ok THEN <<Convert(r.st.prog, r.e, type)>> \o @ ELSE @]

GetInitializers(inits, f, st) ==
  IF inits = <<>> THEN [es |-> <<>>, st |-> st]
  ELSE CheckInitializer(inits, f,
         GetExpr(Head(inits).init[1], Head(inits).type, FALSE, [actions |-> prog.funcs[f].action, self |-> <<>>],
                 [st EXCEPT !.scopes = <<>>]))

\* The body and the initializers are known.
completeFunc(d, e, inits) ==
  LET out  == prog.funcs[d.id].out
      conv == findImplicitConv(prog, e.type, out)
  IN  IF Len(inits.es) # prog.funcs[d.id].opt THEN inits.st
      ELSE IF e.type # out /\ conv \in {NoFunc, d.id} THEN reportDiag(inits.st, "errNonMatchingFuncReturnType")
      ELSE [inits.st EXCEPT !.prog.funcs[d.id].body = <<Convert(prog, e, out)>>,
                            !.prog.funcs[d.id].inits = inits.es]

\* The body is known.
defineBody(d, body) ==
  LET decl == prog.funcs[d.id]
  IN  IF ~isConcrete(decl.out)
      THEN IF body.st.diags = {} THEN reportDiag(body.st, "errUnableToInferFuncReturnType") ELSE body.st
      ELSE IF body.e = NoNode THEN body.st
      ELSE IF ~decl.action /\ LeadsToInfRec(body.e, d.id) THEN reportDiag(body.st, "errPureFuncInfRecursion")
      ELSE completeFunc(d, body.e, GetInitializers(SelectSeq(d.node.params, LAMBDA p : p.init # <<>>), d.id, body.st))

\* defineFunc: the state with the function defined, or with what is wrong with it.
defineFunc(d) ==
  LET decl  == prog.funcs[d.id]
      input == declareFuncInput(prog, d.node.params, TRUE)
  IN  IF input.wrong # {} THEN [Analysis(<<>>) EXCEPT !.diags = @ \union input.wrong]
      ELSE defineBody(d, GetExpr(d.node.a[1], decl.out, FALSE, [actions |-> decl.action, self |-> <<decl.in, decl.out>>],
                                 Analysis(<<input.scope>>)))

DefineFunc ==
  /\ phase = "define" /\ next <= Len(decls)
  /\ \E st \in {defineFunc(decls[next])} : prog' = st.prog /\ diags' = st.diags
  /\ next' = next + 1
  /\ UNCHANGED <<source, stack, imported, phase, decls, processed, pass, execs>>

EndDefineFuncs == /\ phase = "define" /\ next > Len(decls)
                  /\ EndPhase("exec")
                  /\ UNCHANGED <<source, stack, imported, diags, analysisVars>>

\* Execute statements: only those of the main source.
ExecStmts == source.files[source.main].execs

DefineExecStmt ==
  /\ phase = "exec" /\ next <= Len(ExecStmts)
  /\ \E r \in {GetExpr(ExecStmts[next], Infer, FALSE, [actions |-> TRUE, self |-> <<>>], Analysis(<<EmptyScope>>))} :
        /\ prog' = r.st.prog /\ diags' = r.st.diags
        /\ execs' = IF r.e = NoNode THEN execs ELSE Append(execs, r.e)
  /\ next' = next + 1
  /\ UNCHANGED <<source, stack, imported, phase, decls, processed, pass>>

EndExecStmts == /\ phase = "exec" /\ next > Len(ExecStmts)
                /\ EndPhase("validate")
                /\ UNCHANGED <<source, stack, imported, diags, analysisVars>>

\* A struct that contains itself.
RECURSIVE Cyclic(_, _)
Cyclic(type, visited) ==
  LET fields == prog.types[type[1]].members
  IN  \E i \in DOMAIN fields :
        \/ fields[i].type \in visited
        \/ isKind(prog, fields[i].type, "struct") /\ Cyclic(fields[i].type, visited \union {fields[i].type})

ValidateTypes ==
  /\ phase = "validate"
  /\ LET cyclic == \E name \in DOMAIN prog.types : prog.types[name].kind = "struct" /\ Cyclic(<<name>>, {<<name>>})
     IN  /\ diags' = IF cyclic THEN {"errCyclicStruct"} ELSE {}
         /\ phase' = IF cyclic THEN "rejected" ELSE "patch"
  /\ next' = 1
  /\ UNCHANGED <<source, stack, imported, analysisVars>>

\* Calls get the initializers of the optional parameters they do not give, and so do the calls in
\* those. An initializer that needs itself ends at MaxOptDepth.
RECURSIVE Patch(_, _)
Patch(e, depth) ==
  LET missing == IF e.k = "call" /\ e.func > 0 THEN Len(prog.funcs[e.func].in) - Len(e.a) ELSE 0
      inits   == IF missing = 0 THEN <<>> ELSE prog.funcs[e.func].inits
      args    == e.a \o SubSeq(inits, Len(inits) - missing + 1, Len(inits))
      deeper  == depth + IF missing > 0 THEN 1 ELSE 0
      patched == [i \in DOMAIN args |-> Patch(args[i], deeper)]
  IN  IF deeper > MaxOptDepth THEN [e |-> e, cyclic |-> TRUE]
      ELSE [e |-> [e EXCEPT !.a = [i \in DOMAIN args |-> patched[i].e]],
            cyclic |-> \E i \in DOMAIN args : patched[i].cyclic]

PatchCallArgs ==
  /\ phase = "patch"
  /\ LET bodies == [i \in DOMAIN prog.funcs |-> [j \in DOMAIN prog.funcs[i].body |-> Patch(prog.funcs[i].body[j], 0)]]
         stmts  == [i \in DOMAIN execs |-> Patch(execs[i], 0)]
         cyclic == \/ \E i \in DOMAIN bodies : \E j \in DOMAIN bodies[i] : bodies[i][j].cyclic
                   \/ \E i \in DOMAIN stmts : stmts[i].cyclic
     IN  /\ prog' = [prog EXCEPT !.funcs = [i \in DOMAIN @ |->
                       [@[i] EXCEPT !.body = [j \in DOMAIN @ |-> bodies[i][j].e]]]]
         /\ execs' = [i \in DOMAIN execs |-> stmts[i].e]
         /\ diags' = IF cyclic THEN {"errCyclicOptArgInitializer"} ELSE {}
         /\ phase' = IF cyclic THEN "rejected" ELSE "accepted"
  /\ UNCHANGED <<source, stack, imported, next, decls, processed, pass>>

---------------------------------------------------------------------------

FrontInit ==
  /\ ImportsInit /\ next = 1
  /\ \E reversed \in BOOLEAN : prog = [types |-> [n \in {} |-> {}], funcs |-> Prelude, reversed |-> reversed]
  /\ decls = <<>> /\ processed = {} /\ execs = <<>>
  /\ pass = [first |-> TRUE, all |-> TRUE, one |-> FALSE]

\* The analysis is over.
Ended == phase \in {"accepted", "rejected"} /\ UNCHANGED frontVars

FrontNext ==
  \/ ImportStmt /\ UNCHANGED <<next, analysisVars>>
  \/ EndImports /\ UNCHANGED <<next, analysisVars>>
  \/ DeclareType \/ EndDeclareTypes \/ DefineType \/ EndDefineTypes
  \/ DeclareFunc \/ EndDeclareFuncs
  \/ InferFunc \/ EndPass
  \/ DefineFunc \/ EndDefineFuncs
  \/ DefineExecStmt \/ EndExecStmts
  \/ ValidateTypes \/ PatchCallArgs
  \/ Ended

\* The analysis goes on until it has ended. This is weak fairness of FrontNext, whose steps are
\* enabled until then, without the evaluation of ENABLED.
Progress == []<><<TRUE>>_frontVars \/ <>[](phase \in {"accepted", "rejected"})

FrontSpec == FrontInit /\ [][FrontNext]_frontVars /\ Progress

=============================================================================
