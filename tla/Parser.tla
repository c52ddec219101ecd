------------------------------- MODULE Parser -------------------------------
(***************************************************************************)
(* The parser (src/parse): a recursive descent parser over the lexer's     *)
(* tokens that never fails. Where the grammar is not met it keeps what it  *)
(* has consumed in an error node and goes on. One step takes one           *)
(* statement (Parser::nextStmt).                                           *)
(*                                                                         *)
(* A token is named by its position in the token sequence; a position past *)
(* the last one is an end token, of which the input yields as many as are  *)
(* asked for, each with the span of the last real token. A node is its     *)
(* kind k, the tokens t it holds, its children c and its span s. What a    *)
(* parse function consumes is the position p it returns with its node n.   *)
(*                                                                         *)
(* A static-int token ('#1') has the category of a keyword but holds none: *)
(* nextExprPrimary dereferences an empty optional for it, so what it sees  *)
(* there is any keyword, or none it knows ("other"). The variable "junk"   *)
(* is that choice.                                                         *)
(***************************************************************************)
EXTENDS Lexer

CONSTANT MaxRecursionDepth      \* g_maxRecursionDepth

ASSUME DepthAssumption == MaxRecursionDepth \in Nat \ {0}

VARIABLES readPos, junk, stmts

parseVars == <<readPos, junk, stmts>>

JunkKeywords == {"intrinsic", "if", "impure", "lambda", "fork", "lazy", "self", "other"}

-----------------------------------------------------------------------------
(* Tokens by position. *)

Kind(p) == IF p <= Len(tokens) THEN tokens[p].kind ELSE "End"
Cat(p) == lookupCat(Kind(p))
getKw(p) == IF Kind(p) = "Keyword" THEN tokens[p].val ELSE "none"

Combine(a, b) == [lo |-> Min({a.lo, b.lo}), hi |-> Max({a.hi, b.hi})]

TokenSpan(p) ==
    LET span(t) == [lo |-> t.lo, hi |-> t.hi] IN span(tokens[IF p <= Len(tokens) THEN p ELSE Len(tokens)])

(* The span of a sequence of spans: from the smallest to the largest in    *)
(* the order where one lies before another.                                *)
CombineAll(spans) ==
    LET Lesser(s, m)  == IF s.hi < m.lo THEN s ELSE m
        Greater(s, m) == IF s.hi < m.lo THEN m ELSE s
        least[i \in DOMAIN spans] == IF i = 1 THEN spans[1] ELSE Lesser(spans[i], least[i - 1])
        most[i \in DOMAIN spans]  == IF i = 1 THEN spans[1] ELSE Greater(spans[i], most[i - 1])
    IN  [lo |-> least[Len(spans)].lo, hi |-> most[Len(spans)].hi]

-----------------------------------------------------------------------------
(* Nodes. A factory that refuses its arguments throws, which the parser    *)
(* does not catch.                                                         *)

Node(k, t, c, s) == [k |-> k, t |-> t, c |-> c, s |-> s]
NullNode == Node("Null", <<>>, <<>>, [lo |-> 0, hi |-> 0])
Thrown == Node("Throw", <<>>, <<>>, [lo |-> 0, hi |-> 0])
Checked(ok, n) == IF ok THEN n ELSE Thrown
anyNodeNull(ns) == \E i \in DOMAIN ns : ns[i].k = "Null"
CommasFit(commas, parts) == Len(commas) = IF parts = <<>> THEN 0 ELSE Len(parts) - 1

commentNode(p) == Node("Comment", <<p>>, <<>>, TokenSpan(p))
importStmtNode(kw, path) == Node("Import", <<kw, path>>, <<>>, Combine(TokenSpan(kw), TokenSpan(path)))
litExprNode(p) == Node("Lit", <<p>>, <<>>, TokenSpan(p))

idExprNode(id, params) ==
    Node("Id", <<id>> \o params.t, <<>>,
         IF params.t = <<>> THEN TokenSpan(id) ELSE Combine(TokenSpan(id), params.s))

intrinsicExprNode(kw, open, id, close, params) ==
    Node("Intrinsic", <<kw, open, id, close>> \o params.t, <<>>,
         Combine(TokenSpan(kw), IF params.t = <<>> THEN TokenSpan(close) ELSE params.s))

unaryExprNode(op, rhs) ==
    Checked(rhs.k # "Null", Node("Unary", <<op>>, <<rhs>>, Combine(TokenSpan(op), rhs.s)))

binaryExprNode(lhs, op, rhs) ==
    Checked(~anyNodeNull(<<lhs, rhs>>), Node("Binary", <<op>>, <<lhs, rhs>>, Combine(lhs.s, rhs.s)))

constDeclExprNode(id, eq, rhs) ==
    Checked(rhs.k # "Null", Node("ConstDecl", <<id, eq>>, <<rhs>>, Combine(TokenSpan(id), rhs.s)))

fieldExprNode(lhs, dot, id) ==
    Checked(lhs.k # "Null", Node("Field", <<dot, id>>, <<lhs>>, Combine(lhs.s, TokenSpan(id))))

isExprNode(lhs, kw, type, id) ==
    Checked(lhs.k # "Null", Node("Is", <<kw>> \o type.t \o id, <<lhs>>,
                                 Combine(lhs.s, IF id = <<>> THEN type.s ELSE TokenSpan(id[1]))))

groupExprNode(subs, semis) ==
    Checked(Len(subs) >= 2 /\ ~anyNodeNull(subs) /\ Len(semis) = Len(subs) - 1,
            Node("Group", semis, subs, Combine(subs[1].s, Last(subs).s)))

callExprNode(mods, lhs, open, args, commas, close) ==
    Checked(~anyNodeNull(args) /\ CommasFit(commas, args),
            Node("Call", mods \o <<open>> \o commas \o <<close>>, <<lhs>> \o args,
                 Combine(IF mods = <<>> THEN lhs.s ELSE TokenSpan(mods[1]), TokenSpan(close))))

indexExprNode(lhs, open, args, commas, close) ==
    Checked(lhs.k # "Null" /\ args # <<>> /\ ~anyNodeNull(args) /\ CommasFit(commas, args),
            Node("Index", <<open>> \o commas \o <<close>>, <<lhs>> \o args, Combine(lhs.s, TokenSpan(close))))

conditionalExprNode(cond, qmark, a, colon, b) ==
    Checked(~anyNodeNull(<<cond, a, b>>),
            Node("Conditional", <<qmark, colon>>, <<cond, a, b>>, Combine(cond.s, b.s)))

parenExprNode(open, e, close) ==
    Checked(e.k # "Null", Node("Paren", <<open, close>>, <<e>>, Combine(TokenSpan(open), TokenSpan(close))))

switchExprIfNode(kw, cond, arrow, rhs) ==
    Checked(~anyNodeNull(<<cond, rhs>>),
            Node("SwitchIf", <<kw, arrow>>, <<cond, rhs>>, Combine(TokenSpan(kw), rhs.s)))

switchExprElseNode(kw, arrow, rhs) ==
    Checked(rhs.k # "Null", Node("SwitchElse", <<kw, arrow>>, <<rhs>>, Combine(TokenSpan(kw), rhs.s)))

switchExprNode(ifs, els) ==
    Checked(ifs # <<>> /\ ~anyNodeNull(ifs),
            Node("Switch", <<>>, ifs \o (IF els.k = "Null" THEN <<>> ELSE <<els>>),
                 Combine(ifs[1].s, IF els.k = "Null" THEN Last(ifs).s ELSE els.s)))

anonFuncExprNode(mods, kw, args, ret, body) ==
    Checked(body.k # "Null",
            Node("AnonFunc", mods \o <<kw>> \o args.t \o ret.t, args.c \o <<body>>,
                 Combine(TokenSpan(IF mods = <<>> THEN kw ELSE mods[1]), body.s)))

execStmtNode(call) == Checked(call.k # "Null", Node("Exec", <<>>, <<call>>, call.s))

funcDeclStmtNode(kw, mods, id, subs, args, ret, body) ==
    Checked(body.k # "Null",
            Node("FuncDecl", <<kw>> \o mods \o <<id>> \o subs.t \o args.t \o ret.t, args.c \o <<body>>,
                 Combine(TokenSpan(kw), body.s)))

(* fields are pairs of a type and an identifier. The span ends at the last *)
(* identifier, before any type substitutions of an empty struct.           *)
structDeclStmtNode(kw, id, subs, eq, fields, commas) ==
    Checked((eq # <<>> => fields # <<>>) /\ CommasFit(commas, fields),
            Node("StructDecl", <<kw, id>> \o subs.t \o eq \o commas \o
                     FlattenSeq([i \in DOMAIN fields |-> fields[i].type.t \o <<fields[i].id>>]), <<>>,
                 Combine(TokenSpan(kw), TokenSpan(IF fields = <<>> THEN id ELSE Last(fields).id))))

unionDeclStmtNode(kw, id, subs, eq, types, commas) ==
    Checked(Len(types) >= 2 /\ CommasFit(commas, types),
            Node("UnionDecl", <<kw, id>> \o subs.t \o <<eq>> \o commas \o
                     FlattenSeq([i \in DOMAIN types |-> types[i].t]), <<>>,
                 Combine(TokenSpan(kw), Last(types).s)))

(* entries hold their identifier first; the span leaves a value out. *)
enumDeclStmtNode(kw, id, eq, entries, commas) ==
    Checked(entries # <<>> /\ CommasFit(commas, entries),
            Node("EnumDecl", <<kw, id, eq>> \o commas \o FlattenSeq([i \in DOMAIN entries |-> entries[i].t]), <<>>,
                 Combine(TokenSpan(kw), TokenSpan(Last(entries).t[1]))))

errorNode(t, c) ==
    Checked(~anyNodeNull(c),
            Node("Error", t, c,
                 LET ts == CombineAll([i \in DOMAIN t |-> TokenSpan(t[i])])
                 IN  IF c = <<>> THEN ts ELSE Combine(ts, CombineAll([i \in DOMAIN c |-> c[i].s]))))

-----------------------------------------------------------------------------
(* The error nodes: which tokens and nodes each keeps. The wording of the  *)
(* message is left out.                                                    *)

errMaxExprRecursionDepthReached(p) == errorNode(<<p>>, <<>>)
errInvalidPrimaryExpr(p) == errorNode(<<p>>, <<>>)
errInvalidUnaryOp(op, rhs) == errorNode(<<op>>, <<rhs>>)
errInvalidStmtImport(kw, path) == errorNode(<<kw, path>>, <<>>)
errInvalidIdExpr(id, params) == errorNode(<<id>> \o params.t, <<>>)
errInvalidIntrinsicExpr(kw, open, id, close, params) == errorNode(<<kw, open, id, close>> \o params.t, <<>>)
errInvalidFieldExpr(lhs, dot, id) == errorNode(<<dot, id>>, <<lhs>>)
errInvalidIsExpr(lhs, kw, type, id) == errorNode(<<kw>> \o type.t \o id, <<lhs>>)
errInvalidCallExpr(mods, lhs, open, args, commas, close) ==
    errorNode(mods \o <<open>> \o commas \o <<close>>, <<lhs>> \o args)
errInvalidIndexExpr(lhs, open, args, commas, close) ==
    errorNode(<<open>> \o commas \o <<close>>, <<lhs>> \o args)
errInvalidConditionalExpr(cond, qmark, a, colon, b) == errorNode(<<qmark, colon>>, <<cond, a, b>>)
errInvalidParenExpr(open, e, close) == errorNode(<<open, close>>, <<e>>)
errInvalidSwitchIf(kw, cond, arrow, rhs) == errorNode(<<kw, arrow>>, <<cond, rhs>>)
errInvalidSwitchElse(kw, arrow, rhs) == errorNode(<<kw, arrow>>, <<rhs>>)

(* The initializers that were left out are not there to keep. *)
Initializers(args) == SelectSeq(args.c, LAMBDA n : n.k # "Null")

errInvalidAnonFuncExpr(mods, kw, args, ret, body) ==
    errorNode(mods \o <<kw>> \o args.t \o ret.t, Initializers(args) \o <<body>>)

errInvalidStmtFuncDeclLosesSubs(kw, mods, id, subs, args, ret, body) ==
    errorNode(<<kw>> \o mods \o <<id>> \o args.t \o ret.t, Initializers(args) \o <<body>>)

errInvalidStmtFuncDecl(kw, mods, id, subs, args, ret, body) ==
    errorNode(<<kw>> \o mods \o <<id>> \o subs.t \o args.t \o ret.t, Initializers(args) \o <<body>>)

errInvalidStmtStructDecl(kw, id, subs, eq, fields, commas) ==
    errorNode(<<kw, id>> \o subs.t \o eq \o
              FlattenSeq([i \in DOMAIN fields |-> <<fields[i].id>> \o fields[i].type.t]) \o commas, <<>>)

errInvalidStmtUnionDecl(kw, id, subs, eq, types, commas) ==
    errorNode(<<kw, id>> \o subs.t \o <<eq>> \o FlattenSeq([i \in DOMAIN types |-> types[i].t]) \o commas, <<>>)

errInvalidStmtEnumDecl(kw, id, eq, entries, commas) ==
    errorNode(<<kw, id, eq>> \o FlattenSeq([i \in DOMAIN entries |-> entries[i].t]) \o commas, <<>>)

-----------------------------------------------------------------------------
(* Operator precedences. *)

Prec == [call |-> 17, field |-> 16, doubleQmark |-> 15, unary |-> 14, multiplicative |-> 13,
         additive |-> 12, shift |-> 11, typeTest |-> 10, relational |-> 9, equality |-> 8, and |-> 7,
         xor |-> 6, or |-> 5, bang |-> 4, conditional |-> 3, assignment |-> 2, grouping |-> 1]

getLhsOpPrecedence(p) ==
    IF Kind(p) \in {"OpPlus", "OpPlusPlus", "OpMinus", "OpMinusMinus", "OpBang", "OpTilde", "OpQMark"}
    THEN Prec.unary ELSE 0

getRhsOpPrecedence(p) ==
    LET k == Kind(p)
    IN  CASE k \in {"OpParenParen", "SepOpenParen", "SepOpenSquare"} -> Prec.call
          [] k = "OpQMarkQMark" -> Prec.doubleQmark
          [] k = "OpDot" -> Prec.field
          [] k \in {"OpStar", "OpSlash", "OpRem"} -> Prec.multiplicative
          [] k \in {"OpPlus", "OpMinus", "OpColonColon", "OpTilde"} -> Prec.additive
          [] k \in {"OpShiftL", "OpShiftR"} -> Prec.shift
          [] k \in {"OpLe", "OpLeEq", "OpGt", "OpGtEq"} -> Prec.relational
          [] k \in {"OpEqEq", "OpBangEq"} -> Prec.equality
          [] k \in {"OpAmp", "OpAmpAmp"} -> Prec.and
          [] k = "OpHat" -> Prec.xor
          [] k \in {"OpPipe", "OpPipePipe"} -> Prec.or
          [] k \in {"OpBang", "OpBangBang"} -> Prec.bang
          [] k = "OpQMark" -> Prec.conditional
          [] k = "OpSemi" -> Prec.grouping
          [] k = "Keyword" /\ getKw(p) \in {"is", "as"} -> Prec.typeTest
          [] OTHER -> 0

NeverRightAssociative(p) == FALSE

isRightAssociative(p) == Kind(p) = "OpColonColon"

-----------------------------------------------------------------------------
(* Types and lists. A list is whether it is valid, its tokens and its      *)
(* span; NoList is an optional list that is not there.                     *)

NoList == [ok |-> TRUE, t |-> <<>>, c |-> <<>>, s |-> [lo |-> 0, hi |-> 0]]

isPossibleTypeToken(p) == Kind(p) \in {"Identifier", "Keyword", "StaticInt"}

(* A type is a name and the parameters behind it. *)
Type(id, params) ==
    [NoList EXCEPT !.ok = isPossibleTypeToken(id) /\ params.ok, !.t = <<id>> \o params.t,
         !.s = IF params.t = <<>> THEN TokenSpan(id) ELSE Combine(TokenSpan(id), params.s)]

TypeParamList(open, types, commas, close, missing) ==
    [NoList EXCEPT
        !.ok = /\ Kind(open) = "SepOpenCurly" /\ Kind(close) = "SepCloseCurly"
               /\ types # <<>> /\ \A i \in DOMAIN types : types[i].ok
               /\ ~missing /\ Len(commas) = Len(types) - 1,
        !.t = <<open>> \o FlattenSeq([i \in DOMAIN types |-> types[i].t]) \o commas \o <<close>>,
        !.s = Combine(TokenSpan(open), TokenSpan(close))]

TypeSubstitutionList(open, subs, commas, close, missing) ==
    [NoList EXCEPT
        !.ok = /\ Kind(open) = "SepOpenCurly" /\ Kind(close) = "SepCloseCurly"
               /\ subs # <<>> /\ \A i \in DOMAIN subs : Kind(subs[i]) = "Identifier"
               /\ ~missing /\ Len(commas) = Len(subs) - 1,
        !.t = <<open>> \o subs \o commas \o <<close>>,
        !.s = Combine(TokenSpan(open), TokenSpan(close))]

RetTypeSpec(arrow, type) == [type EXCEPT !.ok = Kind(arrow) = "SepArrow" /\ @, !.t = <<arrow>> \o @]

RECURSIVE nextType(_), nextTypeParams(_, _, _, _)

(* The loop of nextTypeParamList. *)
nextTypeParams(p, types, commas, missing) ==
    IF Kind(p) \in {"SepCloseCurly", "End"}
    THEN [types |-> types, commas |-> commas, missing |-> missing, p |-> p]
    ELSE LET more(r) == IF Kind(r.p) = "SepComma"
                        THEN nextTypeParams(r.p + 1, Append(types, r.n), Append(commas, r.p), missing)
                        ELSE nextTypeParams(r.p, Append(types, r.n), commas, missing \/ Kind(r.p) # "SepCloseCurly")
         IN  more(nextType(p))

nextTypeParamList(p) ==
    LET list(l) == [n |-> TypeParamList(p, l.types, l.commas, l.p, l.missing), p |-> l.p + 1]
    IN  list(nextTypeParams(p + 1, <<>>, <<>>, FALSE))

optTypeParamList(p) == IF Kind(p) = "SepOpenCurly" THEN nextTypeParamList(p) ELSE [n |-> NoList, p |-> p]

nextType(p) ==
    LET type(params) == [n |-> Type(p, params.n), p |-> params.p] IN type(optTypeParamList(p + 1))

RECURSIVE nextSubs(_, _, _, _)
nextSubs(p, subs, commas, missing) ==
    IF Kind(p) \in {"SepCloseCurly", "End"}
    THEN [subs |-> subs, commas |-> commas, missing |-> missing, p |-> p]
    ELSE IF Kind(p + 1) = "SepComma" THEN nextSubs(p + 2, Append(subs, p), Append(commas, p + 1), missing)
    ELSE nextSubs(p + 1, Append(subs, p), commas, missing \/ Kind(p + 1) # "SepCloseCurly")

(* nextTypeSubstitutionList, where an open curly starts one. *)
optTypeSubstitutionList(p) ==
    LET list(l) == [n |-> TypeSubstitutionList(p, l.subs, l.commas, l.p, l.missing), p |-> l.p + 1]
    IN  IF Kind(p) # "SepOpenCurly" THEN [n |-> NoList, p |-> p] ELSE list(nextSubs(p + 1, <<>>, <<>>, FALSE))

(* nextRetTypeSpec, where an arrow starts one. *)
optRetTypeSpec(p) ==
    LET ret(type) == [n |-> RetTypeSpec(p, type.n), p |-> type.p]
    IN  IF Kind(p) # "SepArrow" THEN [n |-> NoList, p |-> p] ELSE ret(nextType(p + 1))

validateParentheses(open, close) ==
    \/ Kind(open) = "SepOpenParen" /\ Kind(close) = "SepCloseParen"
    \/ Kind(open) = "OpParenParen" /\ Kind(close) = "OpParenParen"

(* An argument: eq and init are there when it has an initializer. *)
ArgSpec(type, id, eq, init) ==
    [ok |-> Kind(id) = "Identifier" /\ type.ok /\ ~anyNodeNull(init),
     t |-> type.t \o <<id>> \o eq, c |-> init]

ArgumentListDecl(open, args, commas, close, missing) ==
    [ok |-> /\ validateParentheses(open, close) /\ \A i \in DOMAIN args : args[i].ok
            /\ ~missing /\ CommasFit(commas, args),
     s |-> Combine(TokenSpan(open), TokenSpan(close)),
     t |-> <<open>> \o FlattenSeq([i \in DOMAIN args |-> args[i].t]) \o commas \o <<close>>,
     c |-> FlattenSeq([i \in DOMAIN args |-> args[i].c])]

-----------------------------------------------------------------------------
(* Expressions. d is m_exprRecursionDepth. *)

RECURSIVE nextExpr(_, _, _, _), nextExprLoop(_, _, _, _), nextExprList(_, _, _, _, _, _),
          nextArgs(_, _, _), nextGroup(_, _, _, _), nextSwitchIfs(_, _, _)

RECURSIVE nextExprPrimary(_, _)

(* The loop of a call or index: expressions up to the closing token. *)
nextExprList(p, d, close, args, commas, missing) ==
    IF Kind(p) \in {close, "End"}
    THEN [args |-> args, commas |-> commas, missing |-> missing, p |-> p]
    ELSE LET more(e) == IF Kind(e.p) = "SepComma"
                        THEN nextExprList(e.p + 1, d, close, Append(args, e.n), Append(commas, e.p), missing)
                        ELSE nextExprList(e.p, d, close, Append(args, e.n), commas, missing \/ Kind(e.p) # close)
         IN  more(nextExpr(p, 0, 99, d))

CallExpr(lhs, mods, l) ==
    [n |-> IF validateParentheses(lhs.p, l.p) /\ ~l.missing /\ CommasFit(l.commas, l.args)
           THEN callExprNode(mods, lhs.n, lhs.p, l.args, l.commas, l.p)
           ELSE errInvalidCallExpr(mods, lhs.n, lhs.p, l.args, l.commas, l.p),
     p |-> l.p + 1]

nextExprCall(lhs, mods, d) ==
    CallExpr(lhs, mods,
             IF Kind(lhs.p) = "OpParenParen" THEN [args |-> <<>>, commas |-> <<>>, missing |-> FALSE, p |-> lhs.p]
             ELSE nextExprList(lhs.p + 1, d, "SepCloseParen", <<>>, <<>>, FALSE))

IndexExpr(lhs, l) ==
    [n |-> IF /\ Kind(lhs.p) = "SepOpenSquare" /\ Kind(l.p) = "SepCloseSquare"
              /\ l.args # <<>> /\ ~l.missing /\ CommasFit(l.commas, l.args)
           THEN indexExprNode(lhs.n, lhs.p, l.args, l.commas, l.p)
           ELSE errInvalidIndexExpr(lhs.n, lhs.p, l.args, l.commas, l.p),
     p |-> l.p + 1]

nextExprIndex(lhs, d) == IndexExpr(lhs, nextExprList(lhs.p + 1, d, "SepCloseSquare", <<>>, <<>>, FALSE))

nextExprField(lhs) ==
    [n |-> IF Kind(lhs.p) = "OpDot" /\ Kind(lhs.p + 1) = "Identifier"
           THEN fieldExprNode(lhs.n, lhs.p, lhs.p + 1) ELSE errInvalidFieldExpr(lhs.n, lhs.p, lhs.p + 1),
     p |-> lhs.p + 2]

TypeTest(lhs, type) ==
    LET id   == IF getKw(lhs.p) = "as" THEN <<type.p>> ELSE <<>>
        ok   == getKw(lhs.p) \in {"is", "as"} /\ type.n.ok
                /\ \A i \in DOMAIN id : Kind(id[i]) \in {"Identifier", "Discard"}
    IN  [n |-> IF ok THEN isExprNode(lhs.n, lhs.p, type.n, id) ELSE errInvalidIsExpr(lhs.n, lhs.p, type.n, id),
         p |-> type.p + Len(id)]

nextExprIs(lhs) == TypeTest(lhs, nextType(lhs.p + 1))

ConditionalExpr(cond, a, b) ==
    [n |-> IF Kind(cond.p) = "OpQMark" /\ Kind(a.p) = "SepColon"
           THEN conditionalExprNode(cond.n, cond.p, a.n, a.p, b.n)
           ELSE errInvalidConditionalExpr(cond.n, cond.p, a.n, a.p, b.n),
     p |-> b.p]

nextExprConditional(cond, d) ==
    LET nextElse(a) == ConditionalExpr(cond, a, nextExpr(a.p + 1, Prec.grouping, 99, d))
    IN  nextElse(nextExpr(cond.p + 1, Prec.grouping, 99, d))

nextGroup(p, d, subs, semis) ==
    IF Kind(p) # "OpSemi" THEN [n |-> groupExprNode(subs, semis), p |-> p]
    ELSE LET more(e) == nextGroup(e.p, d, Append(subs, e.n), Append(semis, p))
         IN  more(nextExpr(p + 1, Prec.grouping, 99, d))

nextExprGroup(lhs, d) == nextGroup(lhs.p, d, <<lhs.n>>, <<>>)

ParenExpr(p, e) ==
    [n |-> IF Kind(p) = "SepOpenParen" /\ Kind(e.p) = "SepCloseParen"
           THEN parenExprNode(p, e.n, e.p) ELSE errInvalidParenExpr(p, e.n, e.p),
     p |-> e.p + 1]

nextExprParen(p, d) == ParenExpr(p, nextExpr(p + 1, 0, 99, d))

SwitchIf(p, cond, rhs) ==
    [n |-> IF getKw(p) = "if" /\ Kind(cond.p) = "SepArrow"
           THEN switchExprIfNode(p, cond.n, cond.p, rhs.n) ELSE errInvalidSwitchIf(p, cond.n, cond.p, rhs.n),
     p |-> rhs.p]

nextExprSwitchIf(p, d) ==
    LET nextArm(cond) == SwitchIf(p, cond, nextExpr(cond.p + 1, 0, 99, d))
    IN  nextArm(nextExpr(p + 1, 0, 99, d))

SwitchElse(p, rhs) ==
    [n |-> IF getKw(p) = "else" /\ Kind(p + 1) = "SepArrow"
           THEN switchExprElseNode(p, p + 1, rhs.n) ELSE errInvalidSwitchElse(p, p + 1, rhs.n),
     p |-> rhs.p]

nextExprSwitchElse(p, d) == SwitchElse(p, nextExpr(p + 2, 0, 99, d))

nextSwitchIfs(p, d, ifs) ==
    LET add(r) == [ifs |-> Append(ifs, r.n), p |-> r.p]
        more(l) == IF getKw(l.p) = "if" THEN nextSwitchIfs(l.p, d, l.ifs) ELSE l
    IN  more(add(nextExprSwitchIf(p, d)))

nextExprSwitch(p, d) ==
    LET join(ifs, e) == [n |-> switchExprNode(ifs, e.n), p |-> e.p]
        optElse(l) == join(l.ifs, IF getKw(l.p) = "else" THEN nextExprSwitchElse(l.p, d) ELSE [n |-> NullNode, p |-> l.p])
    IN  optElse(nextSwitchIfs(p, d, <<>>))

IdExpr(id, params) ==
    [n |-> IF (Kind(id) = "Identifier" \/ getKw(id) = "self") /\ params.n.ok
           THEN idExprNode(id, params.n) ELSE errInvalidIdExpr(id, params.n),
     p |-> params.p]

nextExprId(id) == IdExpr(id, optTypeParamList(id + 1))

IntrinsicExpr(p, params) ==
    LET valid  == /\ getKw(p) = "intrinsic" /\ Kind(p + 2) = "Identifier" /\ params.n.ok
                  /\ Kind(p + 1) = "SepOpenCurly" /\ Kind(p + 3) = "SepCloseCurly"
    IN  [n |-> IF valid THEN intrinsicExprNode(p, p + 1, p + 2, p + 3, params.n)
               ELSE errInvalidIntrinsicExpr(p, p + 1, p + 2, p + 3, params.n),
         p |-> params.p]

nextExprIntrinsic(p) == IntrinsicExpr(p, optTypeParamList(p + 4))

(* The loop of nextArgDeclList, and behind one argument, at p; an          *)
(* initializer that is left out is null.                                   *)
moreArgs(p, d, l) ==
    IF Kind(p) = "SepComma" THEN nextArgs(p + 1, d, [l EXCEPT !.commas = Append(@, p)])
    ELSE nextArgs(p, d, [l EXCEPT !.missing = @ \/ Kind(p) \in {"Identifier", "Keyword"}])

addArg(l, arg) == [l EXCEPT !.args = Append(@, arg)]

nextInitializer(p, d) ==
    IF Kind(p) \in {"SepComma", "SepCloseParen"} THEN [n |-> NullNode, p |-> p]
    ELSE nextExpr(p, Prec.assignment, 99, d)

nextArg(type, d, l) ==
    LET initialized(init) == moreArgs(init.p, d, addArg(l, ArgSpec(type.n, type.p, <<type.p + 1>>, <<init.n>>)))
    IN  IF Kind(type.p + 1) = "OpEq" THEN initialized(nextInitializer(type.p + 2, d))
        ELSE moreArgs(type.p + 1, d, addArg(l, ArgSpec(type.n, type.p, <<>>, <<>>)))

nextArgs(p, d, l) ==
    IF ~(isPossibleTypeToken(p) \/ Kind(p) = "SepComma") THEN [l EXCEPT !.p = p]
    ELSE nextArg(nextType(p), d, l)

nextArgDeclList(p, d) ==
    LET none == [args |-> <<>>, commas |-> <<>>, missing |-> FALSE, p |-> p]
        list(l) == [n |-> ArgumentListDecl(p, l.args, l.commas, l.p, l.missing), p |-> l.p + 1]
    IN  list(IF Kind(p) = "OpParenParen" THEN none ELSE nextArgs(p + 1, d, none))

AnonFunc(p, mods, args, ret, body) ==
    [n |-> IF getKw(p) = "lambda" /\ args.ok /\ ret.ok
           THEN anonFuncExprNode(mods, p, args, ret, body.n)
           ELSE errInvalidAnonFuncExpr(mods, p, args, ret, body.n),
     p |-> body.p]

nextAnonFuncBody(p, mods, args, ret, d) == AnonFunc(p, mods, args, ret.n, nextExpr(ret.p, 0, 99, d))

nextAnonFuncRet(p, mods, args, d) == nextAnonFuncBody(p, mods, args.n, optRetTypeSpec(args.p), d)

nextExprAnonFunc(p, mods, d) == nextAnonFuncRet(p, mods, nextArgDeclList(p + 1, d), d)

nextExprPrimary(p, d) ==
    LET kw == IF Kind(p) = "StaticInt" THEN junk ELSE getKw(p)
        constDecl(rhs) == [n |-> constDeclExprNode(p, p + 1, rhs.n), p |-> rhs.p]
        invalid == [n |-> errInvalidPrimaryExpr(p), p |-> p + 1]
    IN  CASE Cat(p) = "Literal" -> [n |-> litExprNode(p), p |-> p + 1]
          [] Cat(p) = "Identifier" ->
                IF Kind(p + 1) = "OpEq" THEN constDecl(nextExpr(p + 2, Prec.assignment, 99, d))
                ELSE nextExprId(p)
          [] Cat(p) = "Keyword" ->
               (CASE kw = "intrinsic" -> nextExprIntrinsic(p)
                  [] kw = "if" -> nextExprSwitch(p, d)
                  [] kw = "impure" -> nextExprAnonFunc(p + 1, <<p>>, d)
                  [] kw = "lambda" -> nextExprAnonFunc(p, <<>>, d)
                  [] kw \in {"fork", "lazy"} -> nextExprCall(nextExpr(p + 1, 0, Prec.call, d), <<p>>, d)
                  [] kw = "self" -> nextExprId(p)
                  [] OTHER -> invalid)
          [] Kind(p) = "SepOpenParen" -> nextExprParen(p, d)
          [] OTHER -> invalid

nextExprLhs(p, d) ==
    LET prec == getLhsOpPrecedence(p)
        unary(rhs) == [n |-> IF prec = 0 THEN errInvalidUnaryOp(p, rhs.n) ELSE unaryExprNode(p, rhs.n), p |-> rhs.p]
    IN  IF Cat(p) # "Operator" THEN nextExprPrimary(p, d) ELSE unary(nextExpr(p + 1, prec, 99, d))

(* The loop of nextExpr: what follows lhs, as long as it binds tighter     *)
(* than the operator lhs is an operand of.                                 *)
nextExprLoop(lhs, minPrec, maxPrec, d) ==
    LET prec == getRhsOpPrecedence(lhs.p)
        k    == Kind(lhs.p)
        binary(rhs) == [n |-> binaryExprNode(lhs.n, lhs.p, rhs.n), p |-> rhs.p]
        next == CASE k \in {"SepOpenParen", "OpParenParen"} -> nextExprCall(lhs, <<>>, d)
                  [] k = "OpSemi" -> nextExprGroup(lhs, d)
                  [] k = "OpQMark" -> nextExprConditional(lhs, d)
                  [] k = "OpDot" -> nextExprField(lhs)
                  [] k = "SepOpenSquare" -> nextExprIndex(lhs, d)
                  [] k = "Keyword" -> nextExprIs(lhs)
                  [] OTHER -> binary(nextExpr(lhs.p + 1, prec, 99, d))
    IN  IF \/ prec = 0 \/ prec < minPrec \/ prec >= maxPrec
           \/ ~isRightAssociative(lhs.p) /\ prec = minPrec
        THEN lhs
        ELSE nextExprLoop(next, minPrec, maxPrec, d)

nextExpr(p, minPrec, maxPrec, d) ==
    IF d + 1 >= MaxRecursionDepth
    THEN [n |-> errMaxExprRecursionDepthReached(p), p |-> p + 1]
    ELSE nextExprLoop(nextExprLhs(p, d + 1), minPrec, maxPrec, d + 1)

-----------------------------------------------------------------------------
(* Statements. *)

nextImportAnyPath(p) == [n |-> importStmtNode(p, p + 1), p |-> p + 2]

nextImport(p) ==
    [n |-> IF getKw(p) = "import" /\ Kind(p + 1) = "LitString"
           THEN importStmtNode(p, p + 1) ELSE errInvalidStmtImport(p, p + 1),
     p |-> p + 2]

FuncDecl(p, id, subs, args, ret, body) ==
    LET mods  == [i \in 1 .. id - p - 1 |-> p + i]
        valid == /\ getKw(p) \in {"fun", "act"} /\ (Kind(id) = "Identifier" \/ Cat(id) = "Operator")
                 /\ subs.ok /\ ret.ok /\ args.ok
    IN  [n |-> IF valid THEN funcDeclStmtNode(p, mods, id, subs, args, ret, body.n)
               ELSE errInvalidStmtFuncDecl(p, mods, id, subs, args, ret, body.n),
         p |-> body.p]

(* The declaration part by part, each behind the one before. *)
nextFuncBody(p, id, subs, args, ret) == FuncDecl(p, id, subs, args, ret.n, nextExpr(ret.p, 0, 99, 0))

nextFuncRet(p, id, subs, args) == nextFuncBody(p, id, subs, args.n, optRetTypeSpec(args.p))

nextFuncArgs(p, id, subs) == nextFuncRet(p, id, subs.n, nextArgDeclList(subs.p, 0))

nextFuncSubs(p, id) == nextFuncArgs(p, id, optTypeSubstitutionList(id + 1))

nextStmtFuncDecl(p) ==
    nextFuncSubs(p, Min({i \in p + 1 .. Len(tokens) + 1 \cup {p + 1} : getKw(i) \notin {"noinline", "implicit"}}))

RECURSIVE nextFields(_, _)
addField(type, l) ==
    LET more == [l EXCEPT !.fields = Append(@, [type |-> type.n, id |-> type.p])]
    IN  IF Kind(type.p + 1) = "SepComma"
        THEN nextFields(type.p + 2, [more EXCEPT !.commas = Append(@, type.p + 1)])
        ELSE [more EXCEPT !.p = type.p + 1]

nextFields(p, l) == IF isPossibleTypeToken(p) THEN addField(nextType(p), l) ELSE [l EXCEPT !.p = p]

StructDecl(p, subs, eq, l) ==
    LET valid == /\ getKw(p) = "struct" /\ Kind(p + 1) = "Identifier" /\ subs.n.ok
                 /\ eq = <<>> \/ /\ l.fields # <<>> /\ CommasFit(l.commas, l.fields)
                                 /\ \A i \in DOMAIN l.fields : Kind(l.fields[i].id) = "Identifier" /\ l.fields[i].type.ok
    IN  [n |-> IF valid THEN structDeclStmtNode(p, p + 1, subs.n, eq, l.fields, l.commas)
               ELSE errInvalidStmtStructDecl(p, p + 1, subs.n, eq, l.fields, l.commas),
         p |-> l.p]

nextStructBehind(p, subs) ==
    LET none == [fields |-> <<>>, commas |-> <<>>, p |-> subs.p]
    IN  IF Kind(subs.p) # "OpEq" THEN StructDecl(p, subs, <<>>, none)
        ELSE StructDecl(p, subs, <<subs.p>>, nextFields(subs.p + 1, none))

nextStmtStructDecl(p) == nextStructBehind(p, optTypeSubstitutionList(p + 2))

RECURSIVE nextTypes(_, _)
addType(type, l) ==
    LET more == [l EXCEPT !.types = Append(@, type.n)]
    IN  IF Kind(type.p) = "SepComma" THEN nextTypes(type.p + 1, [more EXCEPT !.commas = Append(@, type.p)])
        ELSE [more EXCEPT !.p = type.p]

nextTypes(p, l) == IF isPossibleTypeToken(p) THEN addType(nextType(p), l) ELSE [l EXCEPT !.p = p]

UnionDecl(p, subs, l) ==
    LET valid == /\ getKw(p) = "union" /\ Kind(p + 1) = "Identifier" /\ subs.n.ok /\ Kind(subs.p) = "OpEq"
                 /\ Len(l.types) >= 2 /\ (\A i \in DOMAIN l.types : l.types[i].ok) /\ CommasFit(l.commas, l.types)
    IN  [n |-> IF valid THEN unionDeclStmtNode(p, p + 1, subs.n, subs.p, l.types, l.commas)
               ELSE errInvalidStmtUnionDecl(p, p + 1, subs.n, subs.p, l.types, l.commas),
         p |-> l.p]

nextUnionBehind(p, subs) ==
    UnionDecl(p, subs, nextTypes(subs.p + 1, [types |-> <<>>, commas |-> <<>>, p |-> 0]))

nextStmtUnionDecl(p) == nextUnionBehind(p, optTypeSubstitutionList(p + 2))

RECURSIVE nextEntries(_, _)
nextEntries(p, l) ==
    LET hasVal == Kind(p + 1) \in {"SepColon", "OpEq"}
        minus  == hasVal /\ Kind(p + 2) = "OpMinus"
        last   == IF ~hasVal THEN p ELSE IF minus THEN p + 3 ELSE p + 2
        entry  == [t |-> [i \in 1 .. last - p + 1 |-> p + i - 1],
                   ok |-> hasVal => Kind(p + 1) = "SepColon" /\ Kind(last) = "LitInt"]
        more   == [l EXCEPT !.entries = Append(@, entry)]
    IN  IF Kind(p) # "Identifier" THEN [l EXCEPT !.p = p]
        ELSE IF Kind(last + 1) = "SepComma"
             THEN nextEntries(last + 2, [more EXCEPT !.commas = Append(@, last + 1)])
             ELSE [more EXCEPT !.p = last + 1]

EnumDecl(p, l) ==
    LET valid == /\ getKw(p) = "enum" /\ Kind(p + 1) = "Identifier" /\ Kind(p + 2) = "OpEq"
                 /\ l.entries # <<>> /\ (\A i \in DOMAIN l.entries : l.entries[i].ok)
                 /\ CommasFit(l.commas, l.entries)
    IN  [n |-> IF valid THEN enumDeclStmtNode(p, p + 1, p + 2, l.entries, l.commas)
               ELSE errInvalidStmtEnumDecl(p, p + 1, p + 2, l.entries, l.commas),
         p |-> l.p]

nextStmtEnumDecl(p) == EnumDecl(p, nextEntries(p + 3, [entries |-> <<>>, commas |-> <<>>, p |-> 0]))

nextStmtExec(p) ==
    LET r == nextExprCall(nextExprPrimary(p, 0), <<>>, 0)
    IN  [n |-> execStmtNode(r.n), p |-> r.p]

nextStmt(p) ==
    CASE getKw(p) = "import" -> nextImport(p)
      [] getKw(p) \in {"fun", "act"} -> nextStmtFuncDecl(p)
      [] getKw(p) = "struct" -> nextStmtStructDecl(p)
      [] getKw(p) = "union" -> nextStmtUnionDecl(p)
      [] getKw(p) = "enum" -> nextStmtEnumDecl(p)
      [] Kind(p) = "LineComment" -> [n |-> commentNode(p), p |-> p + 1]
      [] OTHER -> nextStmtExec(p)

(* One statement, when the lexer has reached the end of the text: the      *)
(* frontend lexes and parses a source in one pass over it, and the order   *)
(* does not show.                                                          *)
Parse == /\ AtEnd
         /\ readPos <= Len(tokens)
         /\ \E r \in {nextStmt(readPos)} :
               /\ stmts' = Append(stmts, [from |-> readPos, to |-> r.p - 1, n |-> r.n])
               /\ readPos' = r.p
         /\ UNCHANGED <<lexVars, junk>>

LexStep == Lex /\ UNCHANGED parseVars

SyntaxNext == LexStep \/ Parse

syntaxVars == <<lexVars, parseVars>>

-----------------------------------------------------------------------------
RECURSIVE NodesOf(_)
NodesOf(n) == <<n>> \o FlattenSeq([i \in DOMAIN n.c |-> NodesOf(n.c[i])])

TokensOf(n) == LET ns == NodesOf(n) IN FlattenSeq([i \in DOMAIN ns |-> ns[i].t])

(* Statement nodes by what the last step added. *)
Newest == IF stmts = <<>> THEN {} ELSE {Last(stmts)}

(* Error recovery loses nothing: the statements partition the tokens, and  *)
(* each token a statement consumed is in its tree exactly once (the '()'   *)
(* of an empty list is its open and its close). The language server and    *)
(* the error positions are built on these trees.                           *)
TokensKept ==
    \A st \in Newest :
        LET ts == TokensOf(st.n)
        IN  /\ Range(ts) = st.from .. st.to
            /\ \A p \in st.from .. st.to :
                   LET uses == Cardinality({i \in DOMAIN ts : ts[i] = p})
                   IN  uses = 1 \/ (uses = 2 /\ Kind(p) = "OpParenParen")
            /\ st.from <= st.to
            /\ st.from = IF Len(stmts) = 1 THEN 1 ELSE stmts[Len(stmts) - 1].to + 1

(* A node's span holds those of its children, which do not run into one    *)
(* another: siblings come in source order. An error message points at a    *)
(* place inside the construct it is about.                                 *)
SpansNest ==
    \A st \in Newest : \A n \in Range(NodesOf(st.n)) : \A i \in DOMAIN n.c :
        /\ n.s.lo <= n.c[i].s.lo /\ n.c[i].s.hi <= n.s.hi
        /\ i > 1 /\ st.to <= Len(tokens) => n.c[i - 1].s.hi < n.c[i].s.lo

(* No lexical error and no premature end goes unnoticed: a statement whose *)
(* tree has no error node consumed none of either.                         *)
ErrorsSurface ==
    \A st \in Newest :
        (\A n \in Range(NodesOf(st.n)) : n.k # "Error") =>
            \A p \in st.from .. st.to : Kind(p) \notin {"Error", "End"}

(* The parser never builds a node its factory refuses, whatever the        *)
(* tokens: the exceptions of the node factories cannot leave the parser.   *)
FactoriesAccept ==
    \A st \in Newest : \A n \in Range(NodesOf(st.n)) : n.k # "Throw"

(* Whatever the tokens, intact or damaged: the trees lose nothing, nest as *)
(* the source does, and no factory refuses one of their nodes.             *)
TreesFaithful == TokensKept /\ SpansNest /\ FactoriesAccept

(* Reference for operator precedence: a sequence of operands and operators *)
(* from lo to hi is split at the operator that binds weakest; of several,  *)
(* at the last that groups to the left, or at the first if all group to    *)
(* the right. Semicolons split into one flat group. A shape is the tokens  *)
(* in source order with marks for where a node opens and closes.           *)
OpenMark == -1
CloseMark == -2
GroupMark == -3

InfixOps == {"OpStar", "OpPlus", "OpMinus", "OpColonColon", "OpShiftL", "OpLe", "OpEqEq", "OpAmpAmp",
             "OpHat", "OpPipePipe", "OpBang", "OpQMarkQMark", "OpSemi"}

IsInfix(lo, hi) == /\ lo <= hi /\ (hi - lo) % 2 = 0
                   /\ \A p \in lo .. hi : IF (p - lo) % 2 = 0 THEN Kind(p) = "Identifier" ELSE Kind(p) \in InfixOps

RECURSIVE InfixShape(_, _)
InfixShape(lo, hi) ==
    LET ops  == {p \in lo .. hi : Kind(p) \in InfixOps}
        weak == {p \in ops : \A q \in ops : getRhsOpPrecedence(p) <= getRhsOpPrecedence(q)}
        left == {p \in weak : Kind(p) # "OpColonColon"}
        at   == IF left # {} THEN Max(left) ELSE Min(weak)
    IN  IF lo = hi THEN <<lo>>
        ELSE IF Kind(at) = "OpSemi"
        THEN LET cuts == <<lo - 1>> \o SetToSortSeq(weak, LAMBDA x, y : x < y) \o <<hi + 1>>
             IN  <<GroupMark>> \o FlattenSeq([i \in 1 .. Len(cuts) - 1 |-> InfixShape(cuts[i] + 1, cuts[i + 1] - 1)])
        ELSE <<OpenMark>> \o InfixShape(lo, at - 1) \o <<at>> \o InfixShape(at + 1, hi) \o <<CloseMark>>

RECURSIVE Shape(_)
Shape(n) ==
    CASE n.k = "Binary" -> <<OpenMark>> \o Shape(n.c[1]) \o n.t \o Shape(n.c[2]) \o <<CloseMark>>
      [] n.k = "Group" -> <<GroupMark>> \o FlattenSeq([i \in DOMAIN n.c |-> Shape(n.c[i])])
      [] OTHER -> n.t

(* The precedence climbing of nextExpr groups operators as their           *)
(* precedences and associativity say.                                      *)
PrecedenceAgrees ==
    \A st \in Newest :
        /\ st.n.k = "Exec" /\ st.n.c[1].k = "Call" /\ Len(st.n.c[1].c) = 2
        /\ IsInfix(st.from + 2, st.to - 1)
        => Shape(st.n.c[1].c[2]) = InfixShape(st.from + 2, st.to - 1)
=============================================================================
