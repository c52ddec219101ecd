--------------------------------- MODULE Prog ---------------------------------
(***************************************************************************)
(* The program representation shared by the optimizer and the backend      *)
(* (src/prog): typed expression trees, function definitions with their     *)
(* table of constants, execute statements and the type definitions.        *)
(*                                                                         *)
(* A node is [k, a, t, kids]: its kind, its attribute, its type and its    *)
(* children in the order of getChildCount(). The attribute is              *)
(*   Assign, Const       the constant          UnionCheck  the target type *)
(*   Call                [f, mode]             UnionGet    [t, c] target   *)
(*   CallDyn             the call mode                     type, constant  *)
(*   Closure, LitFunc    the function          Field       the field index *)
(*   Lit                 the literal's value, whose kind is the node type  *)
(*   Switch, CallSelf, Group, Fail             none                        *)
(* CallDyn's first child is the delegate; a switch's children are its      *)
(* conditions followed by one branch for each and the else branch.         *)
(*                                                                         *)
(* A function is <<"User", name>> or an intrinsic: an operation of         *)
(* Arithmetic, or one of the pairs listed at IsActionFunc and Backend.     *)
(***************************************************************************)
EXTENDS Arithmetic, SequencesExt, FiniteSets, TLC

CONSTANTS
    Structs,   \* the struct types: name -> sequence of field types
    Unions     \* the union types: name -> sequence of member types

ASSUME TypeTables == DOMAIN Structs \cap DOMAIN Unions = {}

Node(k, a, t, kids) == [k |-> k, a |-> a, t |-> t, kids |-> kids]

Lit(v, t) == Node("Lit", v, t, <<>>)

Call(f, mode, t, args) == Node("Call", [f |-> f, mode |-> mode], t, args)

Conditions(e) == SubSeq(e.kids, 1, Len(e.kids) \div 2)
Branches(e) == SubSeq(e.kids, Len(e.kids) \div 2 + 1, Len(e.kids))

IsLiteral(e) == e.k \in {"Lit", "LitFunc"}

(* The nodes of a tree, parents first, as DeepNodeVisitor meets them.      *)
RECURSIVE Nodes(_)
Nodes(e) == <<e>> \o FlattenSeq([i \in DOMAIN e.kids |-> Nodes(e.kids[i])])

-------------------------------------------------------------------------------
(* ConstDeclTable: constants in the order input, bound, local; an id is    *)
(* never that of another constant, but erasing the highest frees it.       *)

NoConsts == [list |-> <<>>, high |-> -1]

KindRank(kind) == CASE kind = "Input" -> 1 [] kind = "Bound" -> 2 [] kind = "Local" -> 3

RegisterConst(c, kind) ==
    LET before(d) == KindRank(d.kind) <= KindRank(kind)
        n == Len(SelectSeq(c.list, before))
    IN  [list |-> InsertAt(c.list, n + 1, [id |-> c.high + 1, kind |-> kind]),
         high |-> c.high + 1]

ConstIds(c, kinds) ==
    LET sel == SelectSeq(c.list, LAMBDA d : d.kind \in kinds)
    IN  [i \in DOMAIN sel |-> sel[i].id]

Inputs(c) == ConstIds(c, {"Input", "Bound"})

GetOffset(c, id) == SelectInSeq(c.list, LAMBDA d : d.id = id) - 1

EraseConst(c, id) ==
    LET rest == SelectSeq(c.list, LAMBDA d : d.id # id)
        ids  == {rest[i].id : i \in DOMAIN rest}
    IN  [list |-> rest,
         high |-> IF id # c.high THEN c.high
                  ELSE IF ids = {} THEN -1
                  ELSE CHOOSE n \in ids : \A m \in ids : m <= n]

-------------------------------------------------------------------------------
(* A program is [funcs, types, execs]: user functions, the struct and      *)
(* union types it defines, and the execute statements in order. A function *)
(* is [consts, action, noinline, body], a statement [consts, body].        *)

IsUser(p, f) == f \in DOMAIN p.funcs

IsActionFunc(p, f) ==
    IF IsUser(p, f) THEN p.funcs[f].action
    ELSE f[1] = "Action" \/ f \in {<<"Lazy", "ActionGet">>, <<"Future", "WaitNano">>}

IsLazyGet(f) == f \in {<<"Lazy", "Get">>, <<"Lazy", "ActionGet">>}

StructIsTagType(t) == t \in DOMAIN Structs /\ Structs[t] = <<>>

(* A union of a tag type and a struct of two or more fields is kept as the *)
(* struct itself or null.                                                  *)
UnionIsNullableStruct(u) ==
    LET ts == Unions[u]
    IN  /\ Len(ts) = 2
        /\ \A i \in 1..2 : ts[i] \in DOMAIN Structs
        /\ \E i \in 1..2 : StructIsTagType(ts[i])
        /\ \E i \in 1..2 : Len(Structs[ts[i]]) >= 2
===============================================================================
