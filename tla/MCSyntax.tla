------------------------------ MODULE MCSyntax ------------------------------
(***************************************************************************)
(* Lexer and parser on small sources. A source is either a text, which is  *)
(* lexed and then parsed, or a token sequence, which is only parsed: the   *)
(* statements of the grammar, each also damaged in every way one token can *)
(* damage it, and the infix expressions of up to three operators.          *)
(***************************************************************************)
EXTENDS Parser

CONSTANTS MaxPieces,    \* how many pieces a text is put together from
          MaxOps        \* how many operators an infix expression has

(* Texts: every sequence of pieces. 16 does not fit a scaled int's 4 bits, *)
(* 256 not a long's 8.                                                     *)
Pieces == {<<"0">>, <<"7">>, <<"8">>, <<"2", "5">>, <<"0", "x">>, <<"0", "b", "1">>, <<"f">>, <<"_">>, <<"l">>, <<".">>,
           <<"#">>, <<"-">>, <<"t", "r", "u", "e">>, <<"i">>, <<"SQ">>, <<"DQ">>, <<"BS">>, <<"LF">>, <<"CR">>, <<" ">>,
           <<"/">>, <<"BELL">>, <<"U8S">>, <<"U8C">>, <<"+">>, <<"(">>, <<")">>}

MCTexts == {FlattenSeq(s) : s \in UNION {[1 .. n -> Pieces] : n \in 1 .. MaxPieces}}

(* Token sequences. *)
Tok(k) == IF k \in Keywords THEN Token("Keyword", k, 0, 0) ELSE Token(k, "", 0, 0)
Placed(ks) == [i \in DOMAIN ks |-> [Tok(ks[i]) EXCEPT !.lo = 2 * i, !.hi = 2 * i + 1]]

ID == "Identifier"
OP == "SepOpenParen"
CP == "SepCloseParen"
OC == "SepOpenCurly"
CC == "SepCloseCurly"
CO == "SepComma"
EQ == "OpEq"
AR == "SepArrow"

Grammar == {
    <<"import", "LitString", "LineComment">>,
    <<"fun", "noinline", "implicit", ID, OC, ID, CO, ID, CC, OP, ID, OC, ID, CC, ID, CO, ID, ID, EQ, "LitInt", CP, AR, ID, ID>>,
    <<"act", "OpPlus", "OpParenParen", "OpMinus", ID, "OpStar", ID>>,
    <<"struct", ID, OC, ID, CC, EQ, ID, ID, CO, ID, OC, "StaticInt", CC, ID>>,
    <<"struct", ID, "struct", ID, OC, ID, CC>>,
    <<"union", ID, OC, ID, CC, EQ, ID, CO, ID>>,
    <<"enum", ID, EQ, ID, CO, ID, "SepColon", "OpMinus", "LitInt", CO, ID, "SepColon", "LitInt">>,
    <<ID, OP, ID, OC, ID, CC, CO, "self", "OpParenParen", "OpDot", ID, CP, "LineComment">>,
    <<ID, OP, ID, "OpQMark", ID, "OpSemi", ID, "SepColon", ID, CP>>,
    <<ID, OP, ID, EQ, ID, "OpSemi", ID, "SepOpenSquare", ID, CO, ID, "SepCloseSquare", CP>>,
    <<ID, OP, "if", ID, "as", ID, "Discard", AR, ID, "if", ID, "is", ID, AR, ID, "else", AR, ID, CP>>,
    <<ID, OP, "impure", "lambda", OP, ID, ID, EQ, ID, CP, AR, ID, ID, CP>>,
    <<ID, OP, "lazy", ID, OP, CP, "OpQMarkQMark", "fork", ID, "OpParenParen", CP>>,
    <<"intrinsic", OC, ID, CC, OC, ID, CC, OP, "LitString", CP>>,
    <<ID, OP, ID, "SepOpenSquare", "SepCloseSquare", CP>>,
    <<ID, OP, "StaticInt", OC, ID, CC, ID, CP>> }

(* Nesting around the recursion limit. *)
Repeat(k, n) == [i \in 1 .. n |-> k]
Deep == {<<ID, OP>> \o Repeat(k, n) \o <<ID>> \o Repeat(CP, IF k = OP THEN n + 1 ELSE 1) :
            k \in {OP, "OpMinus", "OpParenParen"}, n \in MaxRecursionDepth - 3 .. MaxRecursionDepth + 1}

Substitutes == {ID, OP, CP, OC, CO, EQ, AR, "OpSemi", "OpParenParen", "StaticInt", "if", "Error"}

DamagedBy(s, i) == {[s EXCEPT ![i] = k] : k \in Substitutes}
                   \cup {SubSeq(s, 1, i - 1) \o SubSeq(s, i + 1, Len(s)), SubSeq(s, 1, i - 1)}

Damaged(s) == UNION {DamagedBy(s, i) : i \in DOMAIN s} \ {<<>>}

Infixes == {<<ID, OP, ID>> \o FlattenSeq([i \in DOMAIN f |-> <<f[i], ID>>]) \o <<CP>> :
                f \in UNION {[1 .. n -> InfixOps] : n \in 1 .. MaxOps}}

TokenSeqs == {Placed(s) : s \in Grammar \cup Deep \cup Infixes \cup UNION {Damaged(s) : s \in Grammar \cup Deep}}

SyntaxInit ==
    /\ readPos = 1 /\ stmts = <<>>
    /\ \/ LexInit /\ junk = "other"
       \/ text = <<>> /\ inputPos = -1 /\ tokens \in TokenSeqs
          /\ IF \E i \in DOMAIN tokens : tokens[i].kind = "StaticInt" THEN junk \in JunkKeywords ELSE junk = "other"
=============================================================================
