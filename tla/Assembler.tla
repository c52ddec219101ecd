------------------------------- MODULE Assembler -------------------------------
(***************************************************************************)
(* The assembler, the executable it produces and the file format           *)
(* (src/novasm). Code is a sequence of byte cells: <<"op", name, type>> is *)
(* an opcode, <<"byte", n>> one byte of an operand; operands are stored    *)
(* least significant byte first. A file is a sequence of cells as well,    *)
(* with <<"char", c>> for the bytes of its first line.                     *)
(*                                                                         *)
(* Before it is closed, code also holds <<"label", l>> where label l is    *)
(* placed, and <<"ip", l>> and <<"lit", s>> where an operand of four bytes *)
(* is to be patched with the offset of l or the index of literal s.        *)
(***************************************************************************)
EXTENDS Arithmetic, SequencesExt, FiniteSets, TLC

Op(name, type) == <<"op", name, type>>

(* Concatenation of a sequence of sequences, by halves.                    *)
RECURSIVE Concat(_)
Concat(ss) ==
    LET half == Len(ss) \div 2
    IN  CASE ss = <<>> -> <<>>
          [] Len(ss) = 1 -> ss[1]
          [] OTHER -> Concat(SubSeq(ss, 1, half)) \o Concat(SubSeq(ss, half + 1, Len(ss)))

(* writeUInt8/16/32/64: size bytes of n, the rest of n is cut off.         *)
Bytes(n, size) ==
    [i \in 1..size |-> <<"byte", (Unsigned(n, size * ByteBits) \div 2^((i - 1) * ByteBits)) % 2^ByteBits>>]

FromBytes(cells) ==
    FoldLeft(LAMBDA acc, i : acc + cells[i][2] * 2^((i - 1) * ByteBits),
             0, [i \in DOMAIN cells |-> i])

(* An instruction with its operands.                                       *)
Write(op, operands) == <<Op(op[1], op[2])>> \o operands

PutLabel(l) == <<<<"label", l>>>>

(* writeIpOffset: a placeholder, to be patched with the label.             *)
WriteIpOffset(l) == <<<<"ip", l>>>>

(* Mutant: the short opcode with the long operand.                         *)

AddLoadLitInt(n) ==
    CASE n = 0 -> Write(<<"LoadLit", "Int0">>, <<>>)
      [] n = 1 -> Write(<<"LoadLit", "Int1">>, <<>>)
      [] n \in 2..ByteMax -> Write(<<"LoadLit", "IntSmall">>, Bytes(n, 1))
      [] OTHER -> Write(<<"LoadLit", "Int">>, Bytes(n, 4))

AddLoadLitLong(n) == Write(<<"LoadLit", "Long">>, Bytes(n, 8))

(* The four bytes of a floating point number, whose value stays a term.    *)
AddLoadLitFloat(v) == Write(<<"LoadLit", "Float">>, [i \in 1..4 |-> <<"float", v, i>>])

AddLoadLitString(s) == Write(<<"LoadLit", "String">>, <<<<"lit", s>>>>)

AddLoadLitIp(l) == Write(<<"LoadLit", "Ip">>, WriteIpOffset(l))

(* addStackAlloc, addStackStore, addStackLoad: two bytes when one does not *)
(* do.                                                                     *)
AddStack(name, n) ==
    IF n <= ByteMax THEN Write(<<name, "Small">>, Bytes(n, 1)) ELSE Write(<<name, "">>, Bytes(n, 2))

AddPlain(op) == Write(op, <<>>)

AddByte(op, n) == Write(op, Bytes(n, 1))

AddJump(name, l) == Write(<<name, "">>, WriteIpOffset(l))

AddCall(l, argCount, mode) == Write(<<"Call", mode>>, Bytes(argCount, 1) \o WriteIpOffset(l))

AddCallDyn(argCount, mode) == Write(<<"CallDyn", mode>>, Bytes(argCount, 1))

(* The offset of the cell at index k.                                      *)
OffsetAt(code, k) ==
    LET before(kinds) == Cardinality({j \in 1..(k - 1) : code[j][1] \in kinds})
    IN  before({"op", "byte", "float"}) + 4 * before({"ip", "lit"})

(* addLitString: equal literals share their entry.                         *)
Literals(code) ==
    LET cells == SelectSeq(code, LAMBDA x : x[1] = "lit")
        first == {i \in DOMAIN cells : \A j \in 1..(i - 1) : cells[j] # cells[i]}
        order == SetToSortSeq(first, <)
    IN  [i \in DOMAIN order |-> cells[order[i]][2]]

(* close(): patch every operand, look up the entry point.                  *)
Close(code, entryLabel) ==
    LET lits == Literals(code)
        at(l) == OffsetAt(code, CHOOSE k \in DOMAIN code : code[k] = <<"label", l>>)
        patched(x) == CASE x[1] = "label" -> <<>>
                        [] x[1] = "ip"    -> Bytes(at(x[2]), 4)
                        [] x[1] = "lit"   -> Bytes(SelectInSeq(lits, LAMBDA s : s = x[2]) - 1, 4)
                        [] OTHER          -> <<x>>
    IN  [entry |-> at(entryLabel), lits |-> lits,
         code |-> Concat([k \in DOMAIN code |-> patched(code[k])])]

-------------------------------------------------------------------------------
(* serialization.cpp *)

CONSTANT FormatVersion    \* executableFormatVersion

ASSUME FormatVersionAssumption == FormatVersion \in Nat

ShebangLine == <<<<"char", "#!novrt">>, <<"char", "newline">>>>

CompilerVersion == <<1>>

WriteString(s) == Bytes(Len(s), 4) \o [i \in DOMAIN s |-> <<"byte", s[i]>>]

Serialize(x) ==
    ShebangLine \o Bytes(FormatVersion, 2) \o WriteString(CompilerVersion) \o Bytes(x.entry, 4)
      \o Bytes(Len(x.lits), 4) \o Concat([i \in DOMAIN x.lits |-> WriteString(x.lits[i])])
      \o Bytes(Len(x.code), 4) \o x.code

(* A reader is [at, ok, v]: the input position, whether the input sufficed *)
(* so far, and the value read last.                                        *)
ReadInt(file, r, size) ==
    IF ~r.ok \/ r.at + size - 1 > Len(file) THEN [r EXCEPT !.ok = FALSE]
    ELSE [at |-> r.at + size, ok |-> TRUE, v |-> FromBytes(SubSeq(file, r.at, r.at + size - 1))]

(* Mutant: the end of the input ends the data.                             *)
ReadRawShort(file, r, n) ==
    LET end == IF r.at + n - 1 > Len(file) THEN Len(file) ELSE r.at + n - 1
    IN  IF ~r.ok THEN r ELSE [at |-> end + 1, ok |-> TRUE, v |-> SubSeq(file, r.at, end)]

ReadRaw(file, r, n) ==
    IF ~r.ok \/ r.at + n - 1 > Len(file) THEN [r EXCEPT !.ok = FALSE]
    ELSE [at |-> r.at + n, ok |-> TRUE, v |-> SubSeq(file, r.at, r.at + n - 1)]

ReadString(file, r) == LET n == ReadInt(file, r, 4) IN ReadRaw(file, n, n.v)

(* readSet(readString): as many strings as the count says.                 *)
RECURSIVE ReadStrings(_, _, _, _)
ReadStrings(file, r, n, got) ==
    LET s == ReadString(file, r)
    IN  IF ~r.ok \/ n = 0 THEN [r EXCEPT !.v = got]
        ELSE IF ~s.ok THEN s
        ELSE ReadStrings(file, s, n - 1, Append(got, [i \in DOMAIN s.v |-> s.v[i][2]]))

(* skipLine: to behind the first newline, or to the end.                   *)
AfterLine(file) ==
    LET nl == SelectInSeq(file, LAMBDA c : c = <<"char", "newline">>)
    IN  IF nl = 0 THEN Len(file) + 1 ELSE nl + 1

(* deserialize: the executable, or NoExecutable when the file is not one.  *)
NoExecutable == [entry |-> -1, lits |-> <<>>, code |-> <<>>]

Deserialize(file) ==
    LET version  == ReadInt(file, [at |-> AfterLine(file), ok |-> TRUE, v |-> 0], 2)
        compiler == ReadString(file, version)
        entry    == ReadInt(file, compiler, 4)
        count    == ReadInt(file, entry, 4)
        lits     == ReadStrings(file, count, count.v, <<>>)
        size     == ReadInt(file, lits, 4)
        code     == ReadRaw(file, size, size.v)
    IN  IF ~code.ok \/ version.v # FormatVersion THEN NoExecutable
        ELSE [entry |-> entry.v, lits |-> lits.v, code |-> code.v]
===============================================================================
