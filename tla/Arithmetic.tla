------------------------------ MODULE Arithmetic ------------------------------
(***************************************************************************)
(* The value operations of the Novus machine: what every side-effect free  *)
(* instruction of the interpreter (src/vm/internal/executor.cpp) makes of  *)
(* the values it pops.                                                     *)
(*                                                                         *)
(* A value is a tagged tuple:                                              *)
(*   <<"int", n>>     a 32 bit integer, character, boolean, enum value or  *)
(*                    instruction offset                                   *)
(*   <<"long", n>>    a 64 bit integer (the machine boxes the large ones)  *)
(*   <<"str", chars>> a string; links of unfinished concatenations are     *)
(*                    transparent here (they are the subject of Heap)      *)
(*   <<"ref", a>>     the object at address a, <<"null">> the null struct  *)
(*   <<"raw", h>>     a saved stack home                                   *)
(*   <<"term", f, vs>> the uninterpreted result of f on vs (floats, text)  *)
(*                                                                         *)
(* The machine is scaled: a byte has ByteBits bits, an int four bytes and  *)
(* a long eight, so that every width boundary is met by small numbers.     *)
(***************************************************************************)
EXTENDS Integers, Sequences, Bitwise

CONSTANT ByteBits

ASSUME ByteBitsAssumption == ByteBits \in Nat \ {0}

ByteMax == 2^ByteBits - 1
IntBits == 4 * ByteBits
LongBits == 8 * ByteBits

Unsigned(n, w) == n % 2^w

Signed(n, w) ==
    LET u == Unsigned(n, w)
    IN  IF u < 2^(w - 1) THEN u ELSE u - 2^w

IntVal(n) == <<"int", Signed(n, IntBits)>>

BoolVal(b) == <<"int", IF b THEN 1 ELSE 0>>

IsRef(v) == v[1] \in {"ref", "null"}

(* The operations. An operation is a pair of its name and its operand type.*)
IntegerBinary == {"Add", "Sub", "Mul", "Div", "Rem", "ShiftLeft", "ShiftRight",
                  "And", "Or", "Xor", "CheckEq", "CheckLe", "CheckGt"}
IntegerUnary == {"Negate", "Inv"}
Conversions == {"IntLong", "LongInt", "IntChar", "LongChar", "CharString",
                "IntString", "LongString", "IntFloat", "LongFloat", "FloatInt", "FloatLong",
                "FloatChar"}
FloatBinary == {"Add", "Sub", "Mul", "Div", "Mod", "Pow", "ATan2"}
FloatUnary == {"Sqrt", "Sin", "Cos", "Tan", "ASin", "ACos", "ATan", "Negate"}

UnaryOps == (IntegerUnary \X {"Int", "Long"}) \cup ({"Conv"} \X Conversions)
              \cup (FloatUnary \X {"Float"})
              \cup {<<"CheckZero", "Int">>, <<"CheckEmpty", "String">>, <<"Length", "String">>}
BinaryOps == (IntegerBinary \X {"Int", "Long"}) \cup (FloatBinary \X {"Float"})
              \cup {<<"Add", "String">>, <<"Append", "Char">>, <<"Index", "String">>,
                    <<"CheckEq", "String">>}
PureOps == UnaryOps \cup BinaryOps \cup {<<"Slice", "String">>}

Arity(op) == IF op \in UnaryOps THEN 1 ELSE IF op \in BinaryOps THEN 2 ELSE 3

(* Integer division of C++: the quotient is truncated toward zero.         *)
TruncDiv(a, b) ==
    LET Abs(n) == IF n < 0 THEN -n ELSE n
        q == Abs(a) \div Abs(b)
    IN  IF (a < 0) = (b < 0) THEN q ELSE -q

IntegerOp(name, a, b, w) ==
    LET ua == Unsigned(a, w)
        ub == Unsigned(b, w)
    IN  CASE name = "Add"        -> a + b
          [] name = "Sub"        -> a - b
          [] name = "Mul"        -> a * b
          [] name = "Div"        -> TruncDiv(a, b)
          [] name = "Rem"        -> a - b * TruncDiv(a, b)
          [] name = "Negate"     -> -a
          [] name = "ShiftLeft"  -> ua * 2^b
          [] name = "ShiftRight" -> ua \div 2^b
          [] name = "And"        -> ua & ub
          [] name = "Or"         -> ua | ub
          [] name = "Xor"        -> ua ^^ ub
          [] name = "Inv"        -> -a - 1

Compare(name, a, b) ==
    CASE name = "CheckEq"   -> a = b
      [] name = "CheckLe"   -> a < b
      [] name = "CheckGt"   -> a > b
      [] name = "CheckZero" -> a = 0

Comparisons == {"CheckEq", "CheckLe", "CheckGt", "CheckZero"}

(* sliceString: negative bounds become zero, the end is cut to the string, *)
(* an inverted range is empty, the whole string is itself.                 *)
SliceString(s, from, to) ==
    LET start == IF from < 0 THEN 0 ELSE from
        end   == IF to < 0 THEN 0 ELSE IF to >= Len(s) THEN Len(s) ELSE to
    IN  IF end = Len(s) /\ start = 0 THEN s
        ELSE SubSeq(s, (IF start > end THEN end ELSE start) + 1, end)

IndexString(s, i) == IF i < 0 \/ i >= Len(s) THEN 0 ELSE s[i + 1]

StringOp(op, vs) ==
    LET s == vs[1][2]
    IN  CASE op = <<"Length", "String">>     -> IntVal(Len(s))
          [] op = <<"CheckEmpty", "String">> -> BoolVal(Len(s) = 0)
          [] op = <<"Index", "String">>      -> IntVal(IndexString(s, vs[2][2]))
          [] op = <<"Slice", "String">>      -> <<"str", SliceString(s, vs[2][2], vs[3][2])>>
          [] op = <<"CheckEq", "String">>    -> BoolVal(s = vs[2][2])
          [] op = <<"Add", "String">>        -> <<"str", s \o vs[2][2]>>
          [] op = <<"Append", "Char">>       -> <<"str", Append(s, vs[2][2])>>

(* Conversions to text and to and from floating point stay uninterpreted.  *)
Convert(op, v) ==
    CASE op[2] = "IntLong"    -> <<"long", v[2]>>
      [] op[2] = "LongInt"    -> IntVal(v[2])
      [] op[2] \in {"IntChar", "LongChar"} -> <<"int", Unsigned(v[2], ByteBits)>>
      [] op[2] = "CharString" -> <<"str", <<v[2]>>>>
      [] OTHER                -> <<"term", op, <<v>>>>

(* The operations that end the executor with DivByZero.                    *)
DividesByZero(op, vs) ==
    op \in {"Div", "Rem"} \X {"Int", "Long"} /\ vs[2][2] = 0

Compute(op, vs) ==
    LET a == vs[1][2]
        b == vs[Len(vs)][2]
        w == IF op[2] = "Int" THEN IntBits ELSE LongBits
    IN  CASE op[2] = "Float" \/ (\E i \in DOMAIN vs : vs[i][1] = "term") -> <<"term", op, vs>>
          [] op[1] = "Conv" -> Convert(op, vs[1])
          [] op[2] \in {"String", "Char"} -> StringOp(op, vs)
          [] op[1] \in Comparisons -> BoolVal(Compare(op[1], a, b))
          [] OTHER -> <<IF op[2] = "Int" THEN "int" ELSE "long",
                        Signed(IntegerOp(op[1], a, b, w), w)>>
===============================================================================
