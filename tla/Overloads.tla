------------------------------ MODULE Overloads ------------------------------
(* The function table of a program (prog/sym/func_decl_table.cpp), implicit   *)
(* conversions (prog/internal/implicit_conv.cpp) and overload resolution      *)
(* (prog/internal/overload.cpp).                                              *)
(*                                                                            *)
(* A type is a tuple whose head is its kind or its name: <<"int">>, the user  *)
(* types <<"U">>, futures <<"future", t>>, lazies <<"lazy", t, isAction>> and *)
(* delegates <<"delegate", input, output, isAction>>; the empty tuple is the  *)
(* type that is still to be inferred.  A program has the definitions of its   *)
(* user types, types[name] = [kind, members], and its function table, a       *)
(* sequence of declarations: the index is the FuncId.  Nothing fixes the      *)
(* order in which its hash table hands out the overloads of a name: either    *)
(* that of the declarations or the reverse one.                               *)
EXTENDS Integers, Sequences, FiniteSets, FiniteSetsExt, SequencesExt

Infer    == <<>>
IntType  == <<"int">>
LongType == <<"long">>
BoolType == <<"bool">>
Future(t)          == <<"future", t>>
Lazy(t, isAction)  == <<"lazy", t, isAction>>
Delegate(input, output, isAction) == <<"delegate", input, output, isAction>>

isConcrete(t) == t # Infer
isKind(prog, t, kind) == Len(t) = 1 /\ t[1] \in DOMAIN prog.types /\ prog.types[t[1]].kind = kind
hasType(prog, name)   == name \in {"int", "long", "bool"} \union DOMAIN prog.types
hasFunc(prog, name)   == \E i \in DOMAIN prog.funcs : prog.funcs[i].name = name
isDelegate(t) == Len(t) = 4
isActionDelegate(t) == isDelegate(t) /\ t[4]

NoFunc == 0          \* no function was found
NoOp   == -1         \* the conversion of a pure delegate or lazy to its impure alias

\* A pure delegate (lazy) and its impure version are always declared together, the
\* second as an alias of the first.
Alias(t) == CASE isDelegate(t) /\ ~t[4] -> {Delegate(t[2], t[3], TRUE)}
              [] Len(t) = 3 /\ ~t[3]    -> {Lazy(t[2], TRUE)}
              [] OTHER                  -> {}

lookupByNameAny(prog, name, noActions, onlyUser) ==
  SelectSeq([i \in DOMAIN prog.funcs |-> i], LAMBDA i : prog.funcs[i].name = name /\ (onlyUser => prog.funcs[i].kind = "user"))

\* The functions of the table that have a name.
lookupByName(prog, name, noActions, onlyUser) ==
  LET count == Len(prog.funcs)
      order == [i \in 1 .. count |-> IF prog.reversed THEN count + 1 - i ELSE i]
  IN  SelectSeq(order, LAMBDA i : /\ prog.funcs[i].name = name
                                  /\ noActions => ~prog.funcs[i].action
                                  /\ onlyUser => prog.funcs[i].kind = "user")

\* The implicit conversion from one type to another one, or NoFunc.
findImplicitConv(prog, from, to) ==
  LET found == {i \in DOMAIN prog.funcs : /\ prog.funcs[i].implicit
                                     /\ prog.funcs[i].in = <<from>>
                                     /\ prog.funcs[i].out = to}
  IN  IF ~isConcrete(from) \/ ~isConcrete(to) THEN NoFunc
      ELSE IF to \in Alias(from) THEN NoOp
      ELSE IF found = {} THEN NoFunc ELSE Min(found)

Converts(prog, from, to) == from = to \/ findImplicitConv(prog, from, to) # NoFunc

findImplicitConvTypes(prog, from) ==
  Alias(from) \union {prog.funcs[i].out : i \in {j \in DOMAIN prog.funcs : prog.funcs[j].implicit /\ prog.funcs[j].in = <<from>>}}

isImplicitConvertible(prog, toTypes, fromTypes) ==
  /\ Len(fromTypes) = Len(toTypes)
  /\ \A i \in DOMAIN fromTypes : Converts(prog, fromTypes[i], toTypes[i])

isCallable(prog, delegate, input, noActions) ==
  /\ isDelegate(delegate)
  /\ noActions => ~isActionDelegate(delegate)
  /\ isImplicitConvertible(prog, delegate[2], input)

\* The types every one of the types converts to, with the number of conversions that takes;
\* which one of those that take the fewest is returned, the order of a hash table decides.
Conversions(types, t) == Cardinality({i \in DOMAIN types : types[i] # t})
findCommonType(prog, types) ==
  LET possible == UNION {{types[i]} \union findImplicitConvTypes(prog, types[i]) : i \in DOMAIN types}
      Cheapest(common) == IF common = {} THEN Infer
                          ELSE CHOOSE t \in common : \A s \in common : Conversions(types, t) <= Conversions(types, s)
  IN  IF Len(types) = 1 THEN types[1]
      ELSE Cheapest({t \in possible : \A i \in DOMAIN types : Converts(prog, types[i], t)})

\* The conversions a call of decl with the given argument types needs, at most max unless max
\* is negative; -1 when it cannot be called.
MinInputs(decl) == Len(decl.in) - decl.opt
ConvAmount(prog, decl, input, max, noConvOnFirst) ==
  LET needed == {i \in DOMAIN input : input[i] # decl.in[i]}
  IN  IF /\ Len(input) \in MinInputs(decl) .. Len(decl.in)
         /\ noConvOnFirst => 1 \notin needed
         /\ max >= 0 => Cardinality(needed) <= max
         /\ \A i \in needed : findImplicitConv(prog, input[i], decl.in[i]) # NoFunc
      THEN Cardinality(needed) ELSE -1

\* The first of the overloads that needs the fewest conversions.
findOverload(prog, overloads, input, max, noConvOnFirst) ==
  LET amount(k) == ConvAmount(prog, prog.funcs[overloads[k]], input, max, noConvOnFirst)
      Best(valid) == IF valid = {} THEN NoFunc
                     ELSE overloads[Min({k \in valid : \A l \in valid : amount(k) <= amount(l)})]
  IN  Best({k \in DOMAIN overloads : amount(k) >= 0})

lookupFunc(prog, name, input, max, noActions) ==
  findOverload(prog, lookupByName(prog, name, noActions, FALSE), input, max, FALSE)

=============================================================================
