-------------------------------- MODULE Lexer --------------------------------
(***************************************************************************)
(* The lexer (src/lex): it takes a source text one character at a time and *)
(* yields tokens until the end token. State: the text, m_inputPos (the     *)
(* index of the last consumed character, counted from 0 as in the code, -1 *)
(* before the first) and the tokens so far. A token's span ends at the     *)
(* character consumed last, so the position after a token is its hi.     *)
(*                                                                         *)
(* A character is a one-letter string; LF, CR, TAB and NUL stand for the   *)
(* control characters, SQ, DQ, BT and BS for quotes, tick and backslash,     *)
(* BELL for a character the lexer does not know, U8S and U8C for a byte    *)
(* that starts and one that continues a UTF-8 sequence. NUL is             *)
(* what is read past the end. The widths of int and long are parameters,   *)
(* so that literals at their limits are a few digits long.                 *)
(***************************************************************************)
EXTENDS Integers, Sequences, SequencesExt, FiniteSets, TLC

CONSTANTS Texts,                \* the source texts
          Int32Max, Int64Max

(* nextStaticInt tests for overflow behind the multiplication: one step    *)
(* past the limit of an int must not wrap.                                 *)
ASSUME WidthAssumption == /\ Int32Max \in Nat /\ Int64Max \in Nat
                          /\ 0 < Int32Max /\ 2 * Int32Max + 1 < Int64Max
                          /\ 10 * Int32Max + 9 <= 2 * Int64Max + 1

ASSUME TextsAssumption == \A t \in Texts : t \in Seq(STRING) /\ "NUL" \notin Range(t)

VARIABLES text, inputPos, tokens

lexVars == <<text, inputPos, tokens>>

UInt32Max == 2 * Int32Max + 1
UInt64Max == 2 * Int64Max + 1

-----------------------------------------------------------------------------
(* Characters. *)

Whitespace == {" ", "TAB", "LF", "CR"}

isTokenSeperator ==
    Whitespace \cup {"NUL", "!", "DQ", "#", "$", "%", "&", "(", ")", "*", "+", ",", "-", ".", "/",
     ":", ";", "<", "=", ">", "?", "@", "[", "BS", "]", "^", "BT", "{", "|", "}", "~"}

Letters == {"a", "b", "c", "d", "e", "f", "g", "h", "i", "j", "k", "l", "m", "n", "o", "p", "q", "r",
            "s", "t", "u", "v", "w", "x", "y", "z", "A", "B", "C", "D", "E", "F", "L", "X"}

isDigit == {"0", "1", "2", "3", "4", "5", "6", "7", "8", "9"}

HexDigit == [c \in isDigit \cup {"a", "b", "c", "d", "e", "f", "A", "B", "C", "D", "E", "F"} |->
    CASE c = "0" -> 0 [] c = "1" -> 1 [] c = "2" -> 2 [] c = "3" -> 3 [] c = "4" -> 4
      [] c = "5" -> 5 [] c = "6" -> 6 [] c = "7" -> 7 [] c = "8" -> 8 [] c = "9" -> 9
      [] c \in {"a", "A"} -> 10 [] c \in {"b", "B"} -> 11 [] c \in {"c", "C"} -> 12
      [] c \in {"d", "D"} -> 13 [] c \in {"e", "E"} -> 14 [] c \in {"f", "F"} -> 15]

isWordStart == Letters \cup {"U8S"}
isWordContinuation == Letters \cup {"U8S", "U8C"}

unescape == ("DQ" :> "DQ") @@ ("SQ" :> "SQ") @@ ("BS" :> "BS") @@ ("0" :> "NUL") @@ ("a" :> "BELL") @@
            ("n" :> "LF") @@ ("r" :> "CR") @@ ("t" :> "TAB")

(* peekChar: the character at index k of text t, NUL past the end. *)
CharAt(t, k) == IF k < Len(t) THEN t[k + 1] ELSE "NUL"

(* The last index before the first character of "stops" after index k.     *)
(* Every loop of the lexer that runs up to some character ends here.       *)
ScanTo(t, k, stops) == Min({j \in k + 1 .. Len(t) : CharAt(t, j) \in stops}) - 1

Chars(t, lo, hi) == SubSeq(t, lo + 1, hi + 1)

(* A loop over the characters from lo to hi, each of which takes a step.   *)
Read(Step(_, _), s, t, lo, hi) ==
    LET upTo[j \in lo - 1 .. hi] == IF j < lo THEN s ELSE Step(upTo[j - 1], CharAt(t, j))
    IN  upTo[hi]

-----------------------------------------------------------------------------
(* Tokens. *)

Token(kind, val, lo, hi) == [kind |-> kind, val |-> val, lo |-> lo, hi |-> hi]
basicToken(kind, lo, hi) == Token(kind, "", lo, hi)
errorToken(err, lo, hi) == Token("Error", err, lo, hi)

(* The characters of each operator and separator. *)
SingleOps == AntiFunction([
    OpPlus |-> "+", OpMinus |-> "-", OpStar |-> "*", OpSlash |-> "/", OpRem |-> "%",
    OpAmp |-> "&", OpPipe |-> "|", OpHat |-> "^", OpTilde |-> "~", OpEq |-> "=",
    OpBang |-> "!", OpLe |-> "<", OpGt |-> ">", OpSemi |-> ";", OpQMark |-> "?", OpDot |-> ".",
    SepOpenParen |-> "(", SepCloseParen |-> ")", SepOpenCurly |-> "{", SepCloseCurly |-> "}",
    SepOpenSquare |-> "[", SepCloseSquare |-> "]", SepComma |-> ",", SepColon |-> ":"])

DoubleOps == AntiFunction([
    OpPlusPlus |-> <<"+", "+">>, SepArrow |-> <<"-", ">">>, OpMinusMinus |-> <<"-", "-">>,
    OpAmpAmp |-> <<"&", "&">>, OpPipePipe |-> <<"|", "|">>, OpEqEq |-> <<"=", "=">>,
    OpBangBang |-> <<"!", "!">>, OpBangEq |-> <<"!", "=">>, OpLeEq |-> <<"<", "=">>,
    OpShiftL |-> <<"<", "<">>, OpGtEq |-> <<">", "=">>, OpShiftR |-> <<">", ">">>,
    OpQMarkQMark |-> <<"?", "?">>, OpParenParen |-> <<"(", ")">>,
    OpSquareSquare |-> <<"[", "]">>, OpColonColon |-> <<":", ":">>])

Keywords == {"intrinsic", "import", "fun", "act", "self", "lambda", "impure", "fork", "lazy",
             "struct", "union", "enum", "if", "else", "is", "as", "noinline", "implicit"}

lookupCat(kind) ==
    CASE kind \in (Range(SingleOps) \cup Range(DoubleOps)) \ {"SepOpenParen", "SepCloseParen",
            "SepOpenCurly", "SepCloseCurly", "SepOpenSquare", "SepCloseSquare", "SepComma", "SepColon",
            "SepArrow"} -> "Operator"
      [] kind \in {"LitInt", "LitLong", "LitFloat", "LitBool", "LitString", "LitChar"} -> "Literal"
      [] kind \in {"Keyword", "StaticInt"} -> "Keyword"
      [] kind \in {"Identifier", "Discard"} -> "Identifier"
      [] kind = "LineComment" -> "Comment"
      [] kind = "Error" -> "Error"
      [] kind = "End" -> "Unknown"
      [] OTHER -> "Seperator"

-----------------------------------------------------------------------------
(* Numbers: the digits are read into a uint64. The first two fields of the *)
(* accumulator are the digits read and, after a decimal point, the divider.*)

NoNumber == [res |-> 0, div |-> 1, dec |-> FALSE, big |-> FALSE, bad |-> FALSE]

(* A two's complement reading of v, max being the largest signed value. *)
Reinterpret(v, max) == IF v > max THEN v - 2 * (max + 1) ELSE v

DecimalStepWraps(s, c) ==
    IF c \in isDigit
    THEN [s EXCEPT !.res = (@ * 10 + HexDigit[c]) % (UInt64Max + 1), !.div = IF s.dec THEN @ * 10 ELSE @]
    ELSE IF c = "_" THEN s
    ELSE IF c = "." /\ ~s.dec THEN [s EXCEPT !.dec = TRUE]
    ELSE [s EXCEPT !.bad = TRUE]

DecimalStep(s, c) ==
    IF c \in isDigit
    THEN LET fits == s.res <= (UInt64Max - HexDigit[c]) \div 10
             room == s.div <= UInt64Max \div 10
         IN  [s EXCEPT !.res = IF fits THEN @ * 10 + HexDigit[c] ELSE @,
                       !.div = IF fits /\ s.dec /\ room THEN @ * 10 ELSE @,
                       !.big = @ \/ ~fits \/ (s.dec /\ ~room)]
    ELSE IF c = "_" THEN s
    ELSE IF c = "." /\ ~s.dec THEN [s EXCEPT !.dec = TRUE]
    ELSE [s EXCEPT !.bad = TRUE]

(* Whether the last character of a literal that ends at e is c. *)
EndsWith(t, e, c) == CharAt(t, e) = c

(* nextLitNumber, its first character at k. An 'l' before any decimal      *)
(* point ends the literal and makes it a long.                             *)
NumberToken(s, long, k, e) ==
    IF s.dec THEN IF s.big THEN errorToken("LitFloatUnrepresentable", k, e)
                  ELSE Token("LitFloat", <<s.res, s.div>>, k, e)
    ELSE IF long THEN IF s.big \/ s.res > Int64Max THEN errorToken("LitLongTooBig", k, e)
                      ELSE Token("LitLong", s.res, k, e)
    ELSE IF s.big \/ s.res > Int32Max THEN errorToken("LitIntTooBig", k, e)
    ELSE Token("LitInt", s.res, k, e)

LitNumber(t, k, e, long) ==
    LET s == Read(DecimalStep, NoNumber, t, k, IF long THEN e - 1 ELSE e)
    IN  CASE s.bad -> errorToken("LitNumberInvalidChar", k, e)
          [] ~s.bad /\ EndsWith(t, e, "_") -> errorToken("LitNumberEndsWithSeperator", k, e)
          [] ~s.bad /\ EndsWith(t, e, ".") -> errorToken("LitNumberEndsWithDecimalPoint", k, e)
          [] OTHER -> NumberToken(s, long, k, e)

nextLitNumber(t, k) ==
    LET all   == ScanTo(t, k, isTokenSeperator \ {"."})
        ells  == {j \in k + 1 .. all : CharAt(t, j) \in {"l", "L"}
                                       /\ "." \notin {CharAt(t, i) : i \in k .. j}}
    IN  LitNumber(t, k, IF ells # {} THEN Min(ells) ELSE all, ells # {})

HexStep(s, c) ==
    LET add == IF c \in DOMAIN HexDigit THEN HexDigit[c] ELSE 0
        fits == s.res <= (UInt64Max - add) \div 16
    IN  IF c = "_" THEN s
        ELSE [s EXCEPT !.bad = @ \/ c \notin DOMAIN HexDigit, !.big = @ \/ ~fits,
                       !.res = IF fits THEN @ * 16 + add ELSE @]

BinaryStep(s, c) ==
    IF c \in {"0", "1"}
    THEN [s EXCEPT !.big = @ \/ s.res > (UInt64Max - HexDigit[c]) \div 2,
                   !.res = (@ * 2 + HexDigit[c]) % (UInt64Max + 1)]
    ELSE IF c = "_" THEN s ELSE [s EXCEPT !.bad = TRUE]

(* The end of a hex or binary literal whose prefix starts at k: it stops   *)
(* at a separator or behind the first 'l'.                                 *)
PrefixedEnd(t, k) ==
    LET all  == ScanTo(t, k + 1, isTokenSeperator)
        ells == {j \in k + 2 .. all : CharAt(t, j) \in {"l", "L"}}
    IN  IF ells # {} THEN Min(ells) ELSE all

PrefixedToken(t, k, e, s, long, err) ==
    CASE s.bad -> errorToken(err, k, e)
      [] ~s.bad /\ EndsWith(t, e, "_") -> errorToken("LitNumberEndsWithSeperator", k, e)
      [] OTHER ->
           IF long THEN IF s.big THEN errorToken("LitLongTooBig", k, e)
                        ELSE Token("LitLong", Reinterpret(s.res, Int64Max), k, e)
           ELSE IF s.big \/ s.res > UInt32Max THEN errorToken("LitIntTooBig", k, e)
           ELSE Token("LitInt", Reinterpret(s.res, Int32Max), k, e)

LitPrefixed(t, k, e, Step(_, _), err) ==
    LET long == CharAt(t, e) \in {"l", "L"}
    IN  PrefixedToken(t, k, e, Read(Step, NoNumber, t, k + 2, IF long THEN e - 1 ELSE e), long, err)

nextLitNumberHex(t, k) == LitPrefixed(t, k, PrefixedEnd(t, k), HexStep, "LitHexInvalidChar")

nextLitNumberBinary(t, k) == LitPrefixed(t, k, PrefixedEnd(t, k), BinaryStep, "LitBinaryInvalidChar")

StaticStep(s, c) ==
    IF c \in isDigit
    THEN LET v == (s.res * 10 + HexDigit[c]) % (UInt64Max + 1)
         IN  [s EXCEPT !.res = v, !.big = @ \/ v > Int32Max, !.div = @ + 1]
    ELSE [s EXCEPT !.bad = TRUE]

(* nextStaticInt, its '#' at k: div counts the digits. *)
nextStaticInt(t, k) ==
    LET neg == CharAt(t, k + 1) = "-"
        e   == ScanTo(t, IF neg THEN k + 1 ELSE k, isTokenSeperator \ {"-"})
        s   == Read(StaticStep, [NoNumber EXCEPT !.div = 0], t, IF neg THEN k + 2 ELSE k + 1, e)
    IN  IF s.bad THEN errorToken("StaticIntInvalidChar", k, e)
        ELSE IF s.div = 0 THEN errorToken("StaticIntNoDigits", k, e)
        ELSE IF s.big THEN errorToken("StaticIntTooBig", k, e)
        ELSE Token("StaticInt", IF neg THEN -s.res ELSE s.res, k, e)

-----------------------------------------------------------------------------
(* Strings, characters, words and comments. *)

(* A backslash escapes whatever follows it, so a character behind an odd   *)
(* number of them is not what ends the string that starts at k.            *)
Escaped(t, k, j) ==
    Cardinality({i \in k + 1 .. j - 1 : \A h \in i .. j - 1 : CharAt(t, h) = "BS"}) % 2 = 1

StrEnd(t, k) ==
    Min({j \in k + 1 .. Len(t) : \/ j = Len(t)
                                 \/ CharAt(t, j) \in {"NUL", "CR", "LF", "DQ"} /\ ~Escaped(t, k, j)})

StrStep(s, c) ==
    IF s.esc THEN IF c \in DOMAIN unescape THEN [s EXCEPT !.esc = FALSE, !.val = Append(@, unescape[c])]
                  ELSE [s EXCEPT !.esc = FALSE, !.bad = TRUE]
    ELSE IF c = "BS" THEN [s EXCEPT !.esc = TRUE] ELSE [s EXCEPT !.val = Append(@, c)]

nextLitStr(t, k) ==
    LET e == StrEnd(t, k)
        s == FoldLeft(StrStep, [val |-> <<>>, esc |-> FALSE, bad |-> FALSE], Chars(t, k + 1, e - 1))
    IN  CASE CharAt(t, e) = "NUL" -> errorToken("LitStrUnterminated", k, e - 1)
          [] CharAt(t, e) \in {"CR", "LF"} -> errorToken("LitStrUnterminated", k, e)
          [] OTHER -> IF s.bad THEN errorToken("LitStrInvalidEscape", k, e) ELSE Token("LitString", s.val, k, e)

(* nextLitChar, its quote at k. Whatever stands first is the character,    *)
(* a line end too; everything up to the closing quote makes it too big.    *)
nextLitChar(t, k) ==
    LET esc  == CharAt(t, k + 1) = "BS"
        good == ~esc \/ CharAt(t, k + 2) \in DOMAIN unescape
        val  == IF ~esc THEN CharAt(t, k + 1) ELSE IF good THEN unescape[CharAt(t, k + 2)] ELSE "BS"
        last == Min({IF esc THEN k + 2 ELSE k + 1, Len(t) - 1})
        e    == ScanTo(t, last, {"NUL", "CR", "LF", "SQ"}) + 1
    IN  CASE CharAt(t, k + 1) = "SQ" -> errorToken("LitCharEmpty", k, k + 1)
          [] CharAt(t, k + 1) # "SQ" /\ CharAt(t, e) = "NUL" -> errorToken("LitCharUnterminated", k, e - 1)
          [] CharAt(t, k + 1) # "SQ" /\ CharAt(t, e) \in {"CR", "LF"} -> errorToken("LitCharUnterminated", k, e)
          [] OTHER -> IF e > last + 1 THEN errorToken("LitCharTooBig", k, e)
                      ELSE IF ~good THEN errorToken("LitCharInvalidEscape", k, e)
                      ELSE Token("LitChar", val, k, e)

(* nextWordToken, its first character at k: a character that cannot be     *)
(* part of a word is dropped from it, as is an underscore before another.  *)
nextWordToken(t, k) ==
    LET e       == ScanTo(t, k, isTokenSeperator)
        doubled == {j \in k .. e : CharAt(t, j) = "_" /\ CharAt(t, j + 1) = "_"}
        valid   == isWordContinuation \cup isDigit \cup {"_"}
        kept    == {j \in k + 1 .. e : CharAt(t, j) \in valid} \ doubled
        word    == FoldLeft(LAMBDA w, c : w \o c, CharAt(t, k),
                            [i \in 1 .. Cardinality(kept) |->
                                CharAt(t, CHOOSE j \in kept : Cardinality({h \in kept : h <= j}) = i)])
    IN  CASE word \in {"true", "false"} -> Token("LitBool", word, k, e)
          [] word \in Keywords -> Token("Keyword", word, k, e)
          [] OTHER -> IF \E j \in k + 1 .. e : CharAt(t, j) \notin valid
                      THEN errorToken("IdentifierIllegalCharacter", k, e)
                      ELSE IF doubled # {} THEN errorToken("IdentifierIllegalSequence", k, e)
                      ELSE Token("Identifier", word, k, e)

nextLineCommentLateStart(t, k) ==
    LET e == ScanTo(t, k + 1, {"NUL", "LF"})
    IN  Token("LineComment", Chars(t, k + 2, e), k + 1, IF CharAt(t, e + 1) = "LF" THEN e + 1 ELSE e)

nextLineComment(t, k) ==
    LET e == ScanTo(t, k + 1, {"NUL", "LF"})
    IN  Token("LineComment", SelectSeq(Chars(t, k + 2, e), LAMBDA c : c # "CR"), k,
              IF CharAt(t, e + 1) = "LF" THEN e + 1 ELSE e)

(* The token whose first character is at k. *)
TokenAt(t, k, c, n) ==
    IF c = "NUL" THEN Token("End", "", IF k = 0 THEN 0 ELSE k - 1, IF k = 0 THEN 0 ELSE k - 1)
    ELSE IF c = "/" /\ n = "/" THEN nextLineComment(t, k)
    ELSE IF c = "." /\ n \in isDigit THEN nextLitNumber(t, k)
    ELSE IF <<c, n>> \in DOMAIN DoubleOps THEN basicToken(DoubleOps[<<c, n>>], k, k + 1)
    ELSE IF c \in DOMAIN SingleOps THEN basicToken(SingleOps[c], k, k)
    ELSE IF c = "#" THEN nextStaticInt(t, k)
    ELSE IF c = "0" /\ n \in {"x", "X"} THEN nextLitNumberHex(t, k)
    ELSE IF c = "0" /\ n \in {"b", "B"} THEN nextLitNumberBinary(t, k)
    ELSE IF c \in isDigit THEN nextLitNumber(t, k)
    ELSE IF c = "DQ" THEN nextLitStr(t, k)
    ELSE IF c = "SQ" THEN nextLitChar(t, k)
    ELSE IF c = "_" /\ n \notin isWordStart \cup isDigit \cup {"_"} THEN basicToken("Discard", k, k)
    ELSE IF c \in isWordStart \cup {"_"} THEN nextWordToken(t, k)
    ELSE errorToken("InvalidChar", k, k)

(* LexerImpl::next, pos being m_inputPos. *)
LexNext(t, pos) ==
    LET k == ScanTo(t, pos, {CharAt(t, j) : j \in 0 .. Len(t)} \ Whitespace) + 1
    IN  TokenAt(t, k, CharAt(t, k), CharAt(t, k + 1))

-----------------------------------------------------------------------------
(* One token is taken from the text; the end token ends the input and is   *)
(* not kept (TokenItr).                                                    *)
Lex == /\ \E t \in {LexNext(text, inputPos)} :
            /\ t.kind # "End"
            /\ tokens' = Append(tokens, t)
            /\ inputPos' = t.hi
       /\ UNCHANGED text

AtEnd == LexNext(text, inputPos).kind = "End"

LexInit == text \in Texts /\ inputPos = -1 /\ tokens = <<>>

LexSpec == LexInit /\ [][Lex]_lexVars

-----------------------------------------------------------------------------
(* The tokens lie in the text one behind the other, and between them there *)
(* is only white space: nothing of a source text is lost or read twice,    *)
(* whatever errors it holds. At the end all of it is consumed.             *)
TokensCover ==
    LET starts == [i \in 1 .. Len(tokens) + 1 |-> IF i > Len(tokens) THEN IF AtEnd THEN Len(text) ELSE inputPos + 1
                                                  ELSE tokens[i].lo]
        ends   == [i \in 0 .. Len(tokens) |-> IF i = 0 THEN -1 ELSE tokens[i].hi]
    IN  text # <<>> => \A i \in 1 .. Len(tokens) + 1 :
            /\ ends[i - 1] < starts[i]
            /\ i <= Len(tokens) => tokens[i].lo <= tokens[i].hi /\ tokens[i].hi < Len(text)
            /\ \A k \in ends[i - 1] + 1 .. starts[i] - 1 : CharAt(text, k) \in Whitespace

(* The digits between lo and hi, as one number of the given base.          *)
DigitsOf(base) == IF base = 16 THEN DOMAIN HexDigit ELSE isDigit

DigitsValue(t, lo, hi, base) ==
    Read(LAMBDA v, c : IF c \in DigitsOf(base) THEN v * base + HexDigit[c] ELSE v, 0, t, lo, hi)

(* Ten to the number of digits between lo and hi. *)
Tenfold(t, lo, hi) == Read(LAMBDA v, c : IF c \in isDigit THEN v * 10 ELSE v, 1, t, lo, hi)

BaseOf(t, k) ==
    IF CharAt(t, k.lo) # "0" \/ k.hi = k.lo THEN 10
    ELSE CASE CharAt(t, k.lo + 1) \in {"x", "X"} -> 16
           [] CharAt(t, k.lo + 1) \in {"b", "B"} -> 2
           [] OTHER -> 10

(* Is the token k of the text t worth its digits?                          *)
Exact(t, k) ==
    LET base  == BaseOf(t, k)
        point == CHOOSE j \in k.lo .. k.hi : CharAt(t, j) = "."
        v     == DigitsValue(t, IF base = 10 THEN k.lo ELSE k.lo + 2, k.hi, base)
        lim   == IF base = 10 THEN Int64Max ELSE UInt64Max
        lim32 == IF base = 10 THEN Int32Max ELSE UInt32Max
    IN  CASE k.kind = "LitInt"  -> v <= lim32 /\ k.val = IF v > Int32Max THEN v - UInt32Max - 1 ELSE v
          [] k.kind = "LitLong" -> v <= lim /\ k.val = IF v > Int64Max THEN v - UInt64Max - 1 ELSE v
          [] k.kind = "LitFloat" -> k.val = <<v, Tenfold(t, point + 1, k.hi)>>
          [] k.kind = "StaticInt" -> v <= Int32Max /\ k.val = IF CharAt(t, k.lo + 1) = "-" THEN -v ELSE v
          [] k.kind = "Error" /\ k.val = "LitIntTooBig" -> v > lim32
          [] k.kind = "Error" /\ k.val = "LitLongTooBig" -> v > lim
          [] k.kind = "Error" /\ k.val = "StaticIntTooBig" -> v > Int32Max
          [] OTHER -> TRUE

(* A number literal is worth its digits, or is refused exactly when they   *)
(* do not fit: a decimal must fit the signed type, a hex or binary literal *)
(* the bits of the unsigned one, whose pattern it is.                      *)
NumbersExact == text # <<>> => \A i \in 1 .. Len(tokens) : Exact(text, tokens[i])
=============================================================================
