---------------------------- MODULE SourceProofs ----------------------------
(***************************************************************************)
(* Proofs about Imports, for any source trees, and about Lexer, for any    *)
(* texts and any widths of its integers.                                   *)
(***************************************************************************)
EXTENDS Imports, Lexer, SequenceTheorems, WellFoundedInduction, TLAPS

\* A set of numbers that is not empty has a least one, and that is its Min.
LEMMA MinFacts ==
  ASSUME NEW S, S \subseteq Nat, S # {}
  PROVE  Min(S) \in S /\ \A y \in S : Min(S) <= y
<1>1. PICK x \in S : \A y \in S : ~ (<<y, x>> \in OpToRel(<, Nat))
  BY NatLessThanWellFounded, WFMin
<1>2. \A y \in S : ~ (y < x)
  <2> SUFFICES ASSUME NEW y \in S, y < x PROVE FALSE
    OBVIOUS
  <2>1. <<y, x>> \in OpToRel(<, Nat)
    BY DEF OpToRel
  <2> QED BY <1>1, <2>1
<1>3. \E z \in S : \A y \in S : z =< y
  BY <1>2
<1> QED BY <1>3 DEF Min

LEMMA PrependFacts ==
  ASSUME NEW S, NEW x \in S, NEW s \in Seq(S)
  PROVE  /\ <<x>> \o s \in Seq(S)
         /\ Len(<<x>> \o s) = Len(s) + 1
         /\ (<<x>> \o s)[1] = x
         /\ \A i \in 1 .. Len(s) : (<<x>> \o s)[i + 1] = s[i]
<1>1. <<x>> \in Seq(S) /\ Len(<<x>>) = 1 /\ <<x>>[1] = x
  OBVIOUS
<1>2. <<x>> \o s \in Seq(S) /\ Len(<<x>> \o s) = Len(s) + 1
  BY <1>1
<1>3. (<<x>> \o s)[1] = x
  BY <1>1
<1>4. \A i \in 1 .. Len(s) : (<<x>> \o s)[i + 1] = s[i]
  BY <1>1
<1> QED BY <1>2, <1>3, <1>4

LEMMA PutFacts ==
  ASSUME NEW S, NEW s \in Seq(S), NEW i \in 1 .. Len(s), NEW x \in S, NEW r, r = [s EXCEPT ![i] = x]
  PROVE  /\ r \in Seq(S) /\ Len(r) = Len(s) /\ DOMAIN r = 1 .. Len(s)
         /\ r[i] = x /\ \A j \in 1 .. Len(s) : j # i => r[j] = s[j]
OBVIOUS

LEMMA AppendFacts ==
  ASSUME NEW S, NEW s \in Seq(S), NEW x \in S, NEW r, r = Append(s, x)
  PROVE  /\ r \in Seq(S) /\ Len(r) = Len(s) + 1 /\ DOMAIN r = 1 .. Len(s) + 1
         /\ r[Len(s) + 1] = x /\ \A j \in 1 .. Len(s) : r[j] = s[j]
OBVIOUS

-----------------------------------------------------------------------------
(* Imports *)

\* The import leads to a file that is there.
Settled(f, p) == \E c \in Range(Candidates(f, p)) : Canonical(c) \intersect Range(Contexts) # {}

SettledAt(f, k) == \E p \in {source.files[f].imports[k]} : Settled(f, p)

AllSettled(f) == \A k \in DOMAIN source.files[f].imports : SettledAt(f, k)

\* An import statement that was reached, and is neither settled nor reported, does not exist: what a
\* file on the stack still has to visit begins at its position.
PendingInv ==
  \A f \in Range(Contexts) : \A k \in DOMAIN source.files[f].imports :
    \/ SettledAt(f, k)
    \/ diags # {}
    \/ \E i \in DOMAIN stack : stack[i].file = f /\ stack[i].pos <= k

Frames == [file : DOMAIN source.files, pos : Nat \ {0}]

ImportsInv ==
  /\ IsSourceTree(source)
  /\ imported \in Seq(DOMAIN source.files)
  /\ stack \in Seq(Frames)
  /\ \A i \in DOMAIN stack : stack[i].file \in Range(Contexts)
  /\ \A i, j \in DOMAIN Contexts : i # j => Contexts[i] # Contexts[j]
  /\ phase = "import" => PendingInv
  /\ phase \notin {"import", "rejected"} => \A f \in Range(Contexts) : AllSettled(f)

LEMMA ContextsFacts ==
  ASSUME ImportsInv
  PROVE  /\ Contexts \in Seq(DOMAIN source.files)
         /\ Range(Contexts) = {source.main} \union Range(imported)
<1>1. imported \in Seq(DOMAIN source.files) /\ source.main \in DOMAIN source.files
  BY DEF ImportsInv, IsSourceTree
<1>2. Contexts \in Seq(DOMAIN source.files) /\ Len(Contexts) = Len(imported) + 1
      /\ Contexts[1] = source.main /\ \A i \in 1 .. Len(imported) : Contexts[i + 1] = imported[i]
  <2> DEFINE S == DOMAIN source.files
             x == source.main
  <2>1. imported \in Seq(S) /\ x \in S
    BY <1>1
  <2> HIDE DEF S, x
  <2>2. /\ <<x>> \o imported \in Seq(S) /\ Len(<<x>> \o imported) = Len(imported) + 1
        /\ (<<x>> \o imported)[1] = x /\ \A i \in 1 .. Len(imported) : (<<x>> \o imported)[i + 1] = imported[i]
    BY ONLY <2>1, PrependFacts
  <2> QED BY <2>2 DEF S, x, Contexts
<1>3. \A i \in DOMAIN Contexts : Contexts[i] \in {source.main} \union Range(imported)
  <2> TAKE i \in DOMAIN Contexts
  <2>1. i = 1 \/ i - 1 \in 1 .. Len(imported)
    BY <1>1, <1>2
  <2>2. CASE i = 1
    BY <1>2, <2>2
  <2>3. CASE i - 1 \in 1 .. Len(imported)
    BY <1>1, <1>2, <2>3 DEF Range
  <2> QED BY <2>1, <2>2, <2>3
<1>4. source.main \in Range(Contexts)
  BY <1>2 DEF Range
<1>5. \A i \in DOMAIN imported : imported[i] \in Range(Contexts)
  <2> TAKE i \in DOMAIN imported
  <2>1. i + 1 \in DOMAIN Contexts /\ Contexts[i + 1] = imported[i]
    BY <1>1, <1>2
  <2> QED BY <2>1 DEF Range
<1>6. Range(Contexts) \subseteq {source.main} \union Range(imported)
  BY <1>3 DEF Range
<1>7. {source.main} \union Range(imported) \subseteq Range(Contexts)
  BY <1>4, <1>5 DEF Range
<1> QED BY <1>2, <1>6, <1>7

LEMMA AlreadyFacts ==
  ASSUME ImportsInv, NEW p
  PROVE  alreadyImportedAbsPath(p) <=> p \in Range(Contexts)
BY ContextsFacts DEF alreadyImportedAbsPath, Range

\* Where an import can lead is a sequence of paths.
LEMMA CandidatesFacts ==
  ASSUME IsSourceTree(source), NEW f, NEW p
  PROVE  /\ DOMAIN Candidates(f, p) \subseteq Nat
         /\ \A i \in DOMAIN Candidates(f, p) : Candidates(f, p)[i] \in Range(Candidates(f, p))
<1>1. source.search \in Seq(STRING)
  BY DEF IsSourceTree
<1> DEFINE r == [i \in DOMAIN source.search |-> <<source.search[i], p[2]>>]
           x == <<f[1], p[2]>>
           S == {x} \union {r[i] : i \in DOMAIN source.search}
<1>3. r \in Seq(S)
  <2> DEFINE n == Len(source.search)
  <2>1. n \in Nat /\ DOMAIN source.search = 1 .. n
    BY <1>1
  <2> HIDE DEF n
  <2>2. r \in [1 .. n -> S]
    BY <2>1
  <2> HIDE DEF r, S
  <2> QED BY <2>1, <2>2, SeqDef
<1>4. x \in S
  OBVIOUS
<1>5. DOMAIN (<<x>> \o r) \subseteq Nat
  <2> HIDE DEF r, x, S
  <2> QED BY <1>3, <1>4, PrependFacts
<1>6. DOMAIN <<p>> \subseteq Nat
  OBVIOUS
<1>2. DOMAIN Candidates(f, p) \subseteq Nat
  BY <1>5, <1>6 DEF Candidates
<1> QED BY <1>2 DEF Range

\* What the walk finds for an import statement settles it.
LEMMA Leads ==
  ASSUME IsSourceTree(source), NEW f, NEW p, NEW i \in DOMAIN Candidates(f, p), NEW g \in Range(Contexts),
         Canonical(Candidates(f, p)[i]) = {g}
  PROVE  Settled(f, p)
BY CandidatesFacts DEF Settled

LEMMA RelPathSettles ==
  ASSUME ImportsInv, NEW f, NEW p, alreadyImportedRelPath(f, p)
  PROVE  Settled(f, p)
<1>1. PICK i \in DOMAIN Candidates(f, p) : alreadyImportedAbsPath(Candidates(f, p)[i])
  BY DEF alreadyImportedRelPath
<1>2. Candidates(f, p)[i] \in Range(Contexts)
  BY <1>1, AlreadyFacts
<1>3. Range(Contexts) \subseteq DOMAIN source.files
  BY ContextsFacts DEF Range
<1>4. Canonical(Candidates(f, p)[i]) = {Candidates(f, p)[i]}
  BY <1>2, <1>3 DEF Canonical, ImportsInv, IsSourceTree
<1> QED BY <1>2, <1>4, Leads DEF ImportsInv

-----------------------------------------------------------------------------
Found(f, p) == {i \in DOMAIN Candidates(f, p) : Canonical(Candidates(f, p)[i]) # {}}

LEMMA FoundSettles ==
  ASSUME ImportsInv, NEW f, NEW p, Found(f, p) # {}
  PROVE  /\ Min(Found(f, p)) \in DOMAIN Candidates(f, p)
         /\ source.links[Candidates(f, p)[Min(Found(f, p))]] \in DOMAIN source.files
         /\ Canonical(Candidates(f, p)[Min(Found(f, p))]) = {source.links[Candidates(f, p)[Min(Found(f, p))]]}
<1>1. Found(f, p) \subseteq Nat
  BY CandidatesFacts DEF ImportsInv, Found
<1>2. Min(Found(f, p)) \in Found(f, p)
  BY <1>1, MinFacts
<1>3. Candidates(f, p)[Min(Found(f, p))] \in DOMAIN source.links
  BY <1>2 DEF Canonical, Found
<1> QED BY <1>2, <1>3 DEF Canonical, ImportsInv, IsSourceTree, Found

\* A statement that leads to a file that is there: the walk goes on behind it.
LEMMA PassStep ==
  ASSUME ImportsInv, phase = "import", stack # <<>>,
         NEW stmts, stmts = source.files[Last(stack).file].imports, Last(stack).pos <= Len(stmts),
         \/ diags' # {} /\ (diags # {} => diags' # {})
         \/ Settled(Last(stack).file, stmts[Last(stack).pos]) /\ diags' = diags,
         stack' = Advance, UNCHANGED <<source, imported, phase>>
  PROVE  ImportsInv'
<1> DEFINE n == Len(stack)
<1>1. n \in Nat \ {0} /\ DOMAIN stack = 1 .. n /\ stack[n] \in Frames
  BY DEF ImportsInv
<1>2. Last(stack) = stack[n]
  BY DEF Last
<1>3. stack' = [stack EXCEPT ![n].pos = stack[n].pos + 1]
  BY DEF Advance
<1> HIDE DEF n
<1>4. stack' \in Seq(Frames) /\ DOMAIN stack' = 1 .. n /\ stack'[n] = [file |-> stack[n].file, pos |-> stack[n].pos + 1]
      /\ \A i \in 1 .. n : i # n => stack'[i] = stack[i]
  <2>1. [stack[n] EXCEPT !.pos = stack[n].pos + 1] = [file |-> stack[n].file, pos |-> stack[n].pos + 1]
    BY <1>1 DEF Frames
  <2>2. [file |-> stack[n].file, pos |-> stack[n].pos + 1] \in Frames
    BY <1>1 DEF Frames
  <2> DEFINE g == [file |-> stack[n].file, pos |-> stack[n].pos + 1]
  <2>3. stack' = [stack EXCEPT ![n] = g]
    BY <1>3, <2>1
  <2> HIDE DEF g
  <2>4. stack \in Seq(Frames) /\ g \in Frames
    BY <2>2 DEF ImportsInv, g
  <2>5. stack' \in Seq(Frames)
    BY <2>3, <2>4, <1>1
  <2> QED BY <2>3, <2>4, <2>5, <1>1 DEF g
<1>5. \A i \in 1 .. n : stack'[i].file = stack[i].file
  BY <1>4, <1>1
<1>6. Contexts' = Contexts
  BY DEF Contexts
<1>7. \A f, p : Settled(f, p)' <=> Settled(f, p)
  BY <1>6 DEF Settled, Candidates, Canonical
<1>8. PendingInv'
  <2> SUFFICES ASSUME NEW f \in Range(Contexts), NEW k \in DOMAIN source.files[f].imports, diags' = {},
                      ~SettledAt(f, k)
               PROVE  \E i \in DOMAIN stack' : stack'[i].file = f /\ stack'[i].pos <= k
    BY <1>6, <1>7 DEF PendingInv, SettledAt, Range
  <2>1. Settled(stack[n].file, stmts[stack[n].pos]) /\ diags = {}
    BY <1>2
  <2>2. PICK i \in DOMAIN stack : stack[i].file = f /\ stack[i].pos <= k
    BY <2>1 DEF ImportsInv, PendingInv
  <2>3. CASE i # n
    BY <2>2, <2>3, <1>1, <1>4
  <2>4. CASE i = n
    <3>1. stack[n].pos # k
      BY <2>1, <2>2, <2>4, <1>2 DEF SettledAt
    <3>2. f \in DOMAIN source.files
      BY ContextsFacts DEF Range
    <3>3. k \in Nat
      BY <3>2 DEF ImportsInv, IsSourceTree
    <3>4. stack[n].pos + 1 <= k
      BY <2>2, <2>4, <3>1, <3>3, <1>1 DEF Frames
    <3> QED BY <2>2, <2>4, <3>4, <1>1, <1>4
  <2> QED BY <2>3, <2>4
<1>9. (IsSourceTree(source) /\ imported \in Seq(DOMAIN source.files))'
  BY DEF ImportsInv, IsSourceTree
<1>10. \A i \in DOMAIN stack' : stack'[i].file \in Range(Contexts)'
  BY <1>1, <1>4, <1>5, <1>6 DEF ImportsInv, Range
<1>11. (\A i, j \in DOMAIN Contexts : i # j => Contexts[i] # Contexts[j])'
  BY <1>6 DEF ImportsInv
<1> QED BY <1>4, <1>8, <1>9, <1>10, <1>11 DEF ImportsInv, Frames

\* The statements of a file are all visited.
LEMMA PopStep ==
  ASSUME ImportsInv, phase = "import", stack # <<>>, Last(stack).pos > Len(source.files[Last(stack).file].imports),
         stack' = Front(stack), UNCHANGED <<source, imported, phase, diags>>
  PROVE  ImportsInv'
<1> DEFINE n == Len(stack)
<1>1. n \in Nat \ {0} /\ DOMAIN stack = 1 .. n /\ stack[n] \in Frames
  BY DEF ImportsInv
<1>2. Last(stack) = stack[n]
  BY DEF Last
<1>3. stack' \in Seq(Frames) /\ DOMAIN stack' = 1 .. n - 1 /\ \A i \in 1 .. n - 1 : stack'[i] = stack[i]
  BY DEF Front, ImportsInv
<1> HIDE DEF n
<1>6. Contexts' = Contexts
  BY DEF Contexts
<1>7. \A f, p : Settled(f, p)' <=> Settled(f, p)
  BY <1>6 DEF Settled, Candidates, Canonical
<1>8. PendingInv'
  <2> SUFFICES ASSUME NEW f \in Range(Contexts), NEW k \in DOMAIN source.files[f].imports, diags = {},
                      ~SettledAt(f, k)
               PROVE  \E i \in DOMAIN stack' : stack'[i].file = f /\ stack'[i].pos <= k
    BY <1>6, <1>7 DEF PendingInv, SettledAt, Range
  <2>2. PICK i \in DOMAIN stack : stack[i].file = f /\ stack[i].pos <= k
    BY DEF ImportsInv, PendingInv
  <2>3. f \in DOMAIN source.files
    BY ContextsFacts DEF Range
  <2>4. source.files[f].imports \in Seq(STRING \X STRING)
    BY <2>3 DEF ImportsInv, IsSourceTree
  <2>5. i # n
    BY <2>2, <2>4, <1>1, <1>2 DEF Frames
  <2> QED BY <2>2, <2>5, <1>1, <1>3
<1>9. (IsSourceTree(source) /\ imported \in Seq(DOMAIN source.files))'
  BY DEF ImportsInv, IsSourceTree
<1>10. \A i \in DOMAIN stack' : stack'[i].file \in Range(Contexts)'
  BY <1>1, <1>3, <1>6 DEF ImportsInv, Range
<1>11. (\A i, j \in DOMAIN Contexts : i # j => Contexts[i] # Contexts[j])'
  BY <1>6 DEF ImportsInv
<1> QED BY <1>3, <1>8, <1>9, <1>10, <1>11 DEF ImportsInv, Frames
\* What happens to the files when one is imported.
LEMMA ImportedFacts ==
  ASSUME ImportsInv, NEW file \in DOMAIN source.files, file \notin Range(Contexts),
         imported' = <<file>> \o imported, source' = source
  PROVE  /\ imported' \in Seq(DOMAIN source.files)
         /\ Range(Contexts)' = Range(Contexts) \union {file}
         /\ (\A i, j \in DOMAIN Contexts : i # j => Contexts[i] # Contexts[j])'
<1> DEFINE S == DOMAIN source.files
           m == source.main
<1>1. imported \in Seq(S) /\ m \in S /\ file \in S
  BY DEF ImportsInv, IsSourceTree
<1>2. Contexts = <<m>> \o imported /\ Contexts' = <<m>> \o imported'
  BY DEF Contexts
<1> HIDE DEF S, m
<1>3. /\ imported' \in Seq(S) /\ Len(imported') = Len(imported) + 1 /\ imported'[1] = file
      /\ \A i \in 1 .. Len(imported) : imported'[i + 1] = imported[i]
  BY <1>1, PrependFacts
<1>4. /\ Contexts \in Seq(S) /\ Len(Contexts) = Len(imported) + 1 /\ Contexts[1] = m
      /\ \A i \in 1 .. Len(imported) : Contexts[i + 1] = imported[i]
  BY <1>1, <1>2, PrependFacts
<1>5. /\ Contexts' \in Seq(S) /\ Len(Contexts') = Len(imported') + 1 /\ Contexts'[1] = m
      /\ \A i \in 1 .. Len(imported') : Contexts'[i + 1] = imported'[i]
  BY <1>1, <1>2, <1>3, PrependFacts
<1> DEFINE n == Len(imported)
<1>6. n \in Nat /\ DOMAIN Contexts = 1 .. n + 1 /\ DOMAIN Contexts' = 1 .. n + 2
  BY <1>1, <1>3, <1>4, <1>5
<1>7. Contexts'[2] = file
  <2>1. 1 \in 1 .. Len(imported')
    BY <1>1, <1>3
  <2>2. Contexts'[1 + 1] = imported'[1]
    BY <2>1, <1>5
  <2> QED BY <2>2, <1>3
<1>8. \A i \in 3 .. n + 2 : Contexts'[i] = Contexts[i - 1]
  <2> TAKE i \in 3 .. n + 2
  <2>1. i - 2 \in 1 .. n /\ i - 1 \in 1 .. Len(imported')
    BY <1>3, <1>6
  <2>2. imported'[(i - 2) + 1] = imported[i - 2] /\ Contexts[(i - 2) + 1] = imported[i - 2]
        /\ Contexts'[(i - 1) + 1] = imported'[i - 1]
    BY <2>1, <1>3, <1>4, <1>5
  <2>3. (i - 2) + 1 = i - 1 /\ (i - 1) + 1 = i
    BY <1>6
  <2> QED BY <2>2, <2>3
<1> HIDE DEF n
<1> DEFINE C == Contexts
           D == Contexts'
<1>9. /\ DOMAIN C = 1 .. n + 1 /\ DOMAIN D = 1 .. n + 2 /\ n \in Nat
      /\ C[1] = m /\ D[1] = m /\ D[2] = file /\ \A i \in 3 .. n + 2 : D[i] = C[i - 1]
  BY <1>4, <1>5, <1>6, <1>7, <1>8
<1>10. \A i \in DOMAIN C : C[i] # file
  BY DEF Range
<1>11. \A i, j \in DOMAIN C : i # j => C[i] # C[j]
  BY DEF ImportsInv
<1> HIDE DEF C, D
<1>12. \A i, j \in DOMAIN D : i # j => D[i] # D[j]
  <2> SUFFICES ASSUME NEW i \in DOMAIN D, NEW j \in DOMAIN D, i < j PROVE D[i] # D[j]
    BY <1>9
  <2>1. CASE i = 1 /\ j = 2
    BY <2>1, <1>9, <1>10
  <2>2. CASE i = 1 /\ j > 2
    <3>1. j - 1 \in DOMAIN C /\ j - 1 # 1 /\ 1 \in DOMAIN C /\ D[j] = C[j - 1]
      BY <1>9, <2>2
    <3> QED BY <3>1, <2>2, <1>9, <1>11
  <2>3. CASE i = 2
    <3>1. j - 1 \in DOMAIN C /\ D[j] = C[j - 1]
      BY <1>9, <2>3
    <3> QED BY <3>1, <2>3, <1>9, <1>10
  <2>4. CASE i > 2
    <3>1. i - 1 \in DOMAIN C /\ j - 1 \in DOMAIN C /\ i - 1 # j - 1 /\ D[i] = C[i - 1] /\ D[j] = C[j - 1]
      BY <1>9, <2>4
    <3> QED BY <3>1, <1>11
  <2> QED BY <2>1, <2>2, <2>3, <2>4, <1>9
<1>13. \A i \in DOMAIN D : D[i] \in Range(C) \union {file}
  <2> TAKE i \in DOMAIN D
  <2>1. CASE i = 1
    BY <2>1, <1>9 DEF Range
  <2>2. CASE i = 2
    BY <2>2, <1>9
  <2>3. CASE i > 2
    <3>1. i - 1 \in DOMAIN C /\ D[i] = C[i - 1]
      BY <1>9, <2>3
    <3> QED BY <3>1 DEF Range
  <2> QED BY <2>1, <2>2, <2>3, <1>9
<1>14. \A i \in DOMAIN C : C[i] \in Range(D)
  <2> TAKE i \in DOMAIN C
  <2>1. CASE i = 1
    BY <2>1, <1>9 DEF Range
  <2>2. CASE i > 1
    <3>1. i + 1 \in DOMAIN D /\ D[i + 1] = C[(i + 1) - 1] /\ (i + 1) - 1 = i
      BY <1>9, <2>2
    <3> QED BY <3>1 DEF Range
  <2> QED BY <2>1, <2>2, <1>9
<1>15. file \in Range(D)
  BY <1>9 DEF Range
<1>16. Range(D) \subseteq Range(C) \union {file}
  BY <1>13 DEF Range
<1>17. Range(C) \subseteq Range(D)
  BY <1>14 DEF Range
<1>18. Range(D) = Range(C) \union {file}
  BY <1>15, <1>16, <1>17
<1> QED BY <1>3, <1>12, <1>18 DEF C, D, S, Range

\* A file that was not imported is: it is visited before the rest of the one that imports it.
LEMMA EnterStep ==
  ASSUME ImportsInv, phase = "import", stack # <<>>,
         NEW stmts, stmts = source.files[Last(stack).file].imports, Last(stack).pos <= Len(stmts),
         NEW file \in DOMAIN source.files, file \notin Range(Contexts),
         NEW i0 \in DOMAIN Candidates(Last(stack).file, stmts[Last(stack).pos]),
         Canonical(Candidates(Last(stack).file, stmts[Last(stack).pos])[i0]) = {file},
         imported' = <<file>> \o imported, stack' = Append(Advance, [file |-> file, pos |-> 1]),
         UNCHANGED <<source, phase, diags>>
  PROVE  ImportsInv'
<1> DEFINE n == Len(stack)
           top == Last(stack)
<1>1. n \in Nat \ {0} /\ DOMAIN stack = 1 .. n /\ stack[n] \in Frames
  BY DEF ImportsInv
<1>2. top = stack[n]
  BY DEF Last
<1> DEFINE g == [file |-> stack[n].file, pos |-> stack[n].pos + 1]
           h == [file |-> file, pos |-> 1]
<1>3. Advance = [stack EXCEPT ![n] = g]
  <2>1. [stack[n] EXCEPT !.pos = stack[n].pos + 1] = g
    BY <1>1 DEF Frames
  <2> QED BY <2>1 DEF Advance
<1>4. g \in Frames /\ h \in Frames
  BY <1>1 DEF Frames
<1>5. stack \in Seq(Frames) /\ g.file = stack[n].file /\ g.pos = stack[n].pos + 1
  BY DEF ImportsInv
<1> HIDE DEF n, g, h
<1>6. Advance \in Seq(Frames) /\ Len(Advance) = n /\ Advance[n] = g
      /\ \A i \in 1 .. n : i # n => Advance[i] = stack[i]
  <2>1. n = Len(stack) /\ n \in 1 .. Len(stack)
    BY <1>1 DEF n
  <2> QED BY ONLY <2>1, <1>3, <1>4, <1>5, PutFacts
<1>7. stack' = Append(Advance, h)
  BY DEF h
<1> HIDE DEF top
<1>8. stack' \in Seq(Frames) /\ DOMAIN stack' = 1 .. n + 1 /\ stack'[n] = g /\ stack'[n + 1] = h
      /\ \A i \in 1 .. n : i # n => stack'[i] = stack[i]
  <2> DEFINE A == Advance
  <2> HIDE DEF A
  <2>1. A \in Seq(Frames) /\ Len(A) = n /\ stack' = Append(A, h) /\ n \in Nat
    BY <1>1, <1>6, <1>7 DEF A
  <2>2. stack' \in Seq(Frames) /\ DOMAIN stack' = 1 .. n + 1 /\ stack'[n + 1] = h
        /\ \A i \in 1 .. n : stack'[i] = A[i]
    BY ONLY <2>1, <1>4, AppendFacts
  <2> QED BY <2>2, <1>1, <1>6 DEF A
<1>9. /\ imported' \in Seq(DOMAIN source.files) /\ Range(Contexts)' = Range(Contexts) \union {file}
      /\ (\A i, j \in DOMAIN Contexts : i # j => Contexts[i] # Contexts[j])'
  BY ImportedFacts
<1>10. \A f, p : Candidates(f, p)' = Candidates(f, p) /\ Canonical(p)' = Canonical(p)
  BY DEF Candidates, Canonical
<1>11. \A f, p : Settled(f, p) => Settled(f, p)'
  BY <1>9, <1>10 DEF Settled
<1>12. \A f, p : f = stack[n].file /\ p = stmts[stack[n].pos] => Settled(f, p)'
  <2> SUFFICES ASSUME NEW f, NEW p, f = stack[n].file, p = stmts[stack[n].pos] PROVE Settled(f, p)'
    OBVIOUS
  <2>1. i0 \in DOMAIN Candidates(f, p) /\ Canonical(Candidates(f, p)[i0]) = {file}
    BY <1>2 DEF top
  <2>2. Candidates(f, p)[i0] \in Range(Candidates(f, p))
    BY <2>1 DEF Range
  <2>3. file \in Range(Contexts)'
    BY <1>9
  <2>4. \E c \in Range(Candidates(f, p)) : Canonical(c) \intersect Range(Contexts)' # {}
    BY <2>1, <2>2, <2>3
  <2> QED BY <2>4, <1>10 DEF Settled
<1>13. PendingInv'
  <2> SUFFICES ASSUME NEW f \in Range(Contexts)', NEW k \in (DOMAIN source.files[f].imports)', diags' = {},
                      ~SettledAt(f, k)'
               PROVE  \E i \in DOMAIN stack' : stack'[i].file = f /\ stack'[i].pos <= k
    BY DEF PendingInv
  <2>a. f \in Range(Contexts) \union {file} /\ k \in DOMAIN source.files[f].imports /\ diags = {}
    BY <1>9
  <2>b. \A p \in {source.files[f].imports[k]} : ~Settled(f, p)'
    BY DEF SettledAt
  <2>1. f \in DOMAIN source.files
    BY <2>a, ContextsFacts DEF Range
  <2>2. k \in Nat /\ k >= 1
    BY <2>a, <2>1 DEF ImportsInv, IsSourceTree
  <2>3. CASE f = file
    BY <2>2, <2>3, <1>1, <1>8 DEF h
  <2>4. CASE f # file
    <3>1. PICK i \in DOMAIN stack : stack[i].file = f /\ stack[i].pos <= k
      BY <2>4, <2>a, <2>b, <1>11 DEF ImportsInv, PendingInv, SettledAt
    <3>2. CASE i # n
      BY <3>1, <3>2, <1>1, <1>8
    <3>3. CASE i = n
      <4>1. stmts = source.files[stack[n].file].imports
        BY <1>2 DEF top
      <4>2. stack[n].pos # k
        BY <2>b, <3>1, <3>3, <4>1, <1>12
      <4>3. stack[n].pos + 1 <= k
        BY <3>1, <3>3, <4>2, <2>2, <1>1 DEF Frames
      <4>4. stack'[n].file = f /\ stack'[n].pos <= k
        BY <3>1, <3>3, <4>3, <1>5, <1>8
      <4> QED BY <4>4, <1>1, <1>8
    <3> QED BY <3>2, <3>3
  <2> QED BY <2>3, <2>4
<1>14. IsSourceTree(source)'
  BY DEF ImportsInv, IsSourceTree
<1>15. \A i \in DOMAIN stack' : stack'[i].file \in Range(Contexts)'
  <2> TAKE i \in DOMAIN stack'
  <2>1. CASE i = n + 1
    BY <2>1, <1>8, <1>9 DEF h
  <2>2. CASE i = n
    <3>1. n \in DOMAIN stack
      BY <1>1
    <3>2. stack[n].file \in Range(Contexts)
      BY <3>1 DEF ImportsInv
    <3> QED BY <3>2, <2>2, <1>5, <1>8, <1>9
  <2>3. CASE i \in 1 .. n /\ i # n
    <3>1. stack[i].file \in Range(Contexts)
      BY <2>3, <1>1 DEF ImportsInv
    <3> QED BY <3>1, <2>3, <1>8, <1>9
  <2> QED BY <2>1, <2>2, <2>3, <1>1, <1>8
<1> QED BY <1>8, <1>9, <1>13, <1>14, <1>15 DEF ImportsInv, Frames

LEMMA ImportStep == ImportsInv /\ ImportStmt => ImportsInv'
<1> SUFFICES ASSUME ImportsInv, ImportStmt PROVE ImportsInv'
  OBVIOUS
<1> DEFINE top   == Last(stack)
           stmts == source.files[top.file].imports
           path  == stmts[top.pos]
           cands == Candidates(top.file, path)
           found == {i \in DOMAIN cands : Canonical(cands[i]) # {}}
           file  == source.links[cands[Min(found)]]
<1>1. phase = "import" /\ stack # <<>> /\ UNCHANGED <<source, phase>>
  BY DEF ImportStmt
<1>2. found # {} => /\ file \in DOMAIN source.files /\ Min(found) \in DOMAIN cands
                    /\ Canonical(cands[Min(found)]) = {file}
  <2> DEFINE f == top.file
             p == path
  <2>1. found = Found(f, p) /\ cands = Candidates(f, p) /\ file = source.links[cands[Min(found)]]
    BY DEF Found
  <2> HIDE DEF f, p, found, cands, file
  <2> QED BY <2>1, FoundSettles
<1>3. CASE top.pos > Len(stmts) /\ stack' = Front(stack) /\ UNCHANGED <<imported, diags>>
  BY <1>1, <1>3, PopStep
<1>4. CASE /\ top.pos <= Len(stmts)
           /\ \/ alreadyImportedRelPath(top.file, path)
              \/ found # {} /\ alreadyImportedAbsPath(file)
           /\ stack' = Advance /\ UNCHANGED <<imported, diags>>
  <2>1. Settled(top.file, path)
    <3>1. CASE alreadyImportedRelPath(top.file, path)
      BY <3>1, RelPathSettles
    <3>2. CASE found # {} /\ alreadyImportedAbsPath(file)
      <4>1. file \in Range(Contexts)
        BY <3>2, AlreadyFacts
      <4>2. IsSourceTree(source)
        BY DEF ImportsInv
      <4> QED BY <3>2, <4>1, <4>2, <1>2, Leads
    <3> QED BY <3>1, <3>2, <1>4
  <2> QED BY <2>1, <1>1, <1>4, PassStep
<1>5. CASE /\ top.pos <= Len(stmts)
           /\ found # {} /\ ~alreadyImportedAbsPath(file)
           /\ imported' = <<file>> \o imported
           /\ stack' = Append(Advance, [file |-> file, pos |-> 1])
           /\ UNCHANGED diags
  <2>1. file \notin Range(Contexts)
    BY <1>5, AlreadyFacts
  <2> QED BY <2>1, <1>1, <1>2, <1>5, EnterStep
<1>6. CASE /\ top.pos <= Len(stmts)
           /\ diags' = diags \union {"errUnresolvedImport"} /\ stack' = Advance /\ UNCHANGED imported
  <2>1. diags' # {}
    BY <1>6
  <2> QED BY <2>1, <1>1, <1>6, PassStep
<1> QED BY <1>3, <1>4, <1>5, <1>6 DEF ImportStmt

\* For all source trees, however their files import one another, the invariant holds.
LEMMA ImportsInductive == ImportsSpec => []ImportsInv
<1>1. ImportsInit => ImportsInv
  <2> SUFFICES ASSUME ImportsInit PROVE ImportsInv
    OBVIOUS
  <2>1. IsSourceTree(source)
    BY SourcesAssumption DEF ImportsInit
  <2>2. Contexts = <<source.main>> /\ Range(Contexts) = {source.main} /\ DOMAIN Contexts = {1}
    BY DEF ImportsInit, Contexts, Range
  <2>3. stack \in Seq(Frames) /\ DOMAIN stack = {1} /\ stack[1].file = source.main /\ stack[1].pos = 1
    BY <2>1 DEF ImportsInit, Frames, IsSourceTree
  <2>4. \A k \in DOMAIN source.files[source.main].imports : k \in Nat /\ 1 <= k
    BY <2>1 DEF IsSourceTree
  <2>5. PendingInv
    BY <2>2, <2>3, <2>4 DEF PendingInv
  <2> QED BY <2>1, <2>2, <2>3, <2>5 DEF ImportsInv, ImportsInit
<1>2. ImportsInv /\ [ImportsNext]_importVars => ImportsInv'
  <2> SUFFICES ASSUME ImportsInv, [ImportsNext]_importVars PROVE ImportsInv'
    OBVIOUS
  <2>1. CASE ImportStmt
    BY <2>1, ImportStep
  <2>2. CASE EndImports \/ LaterPhases \/ UNCHANGED importVars
    <3>1. UNCHANGED <<source, stack, imported>>
      BY <2>2 DEF EndImports, LaterPhases, importVars
    <3>2. Contexts' = Contexts
      BY <3>1 DEF Contexts
    <3>3. \A f, p : Settled(f, p)' <=> Settled(f, p)
      BY <3>1, <3>2 DEF Settled, Candidates, Canonical
    <3>4. (\A f \in Range(Contexts) : AllSettled(f)) => (\A f \in Range(Contexts) : AllSettled(f))'
      BY <3>1, <3>2, <3>3 DEF AllSettled, SettledAt, Range
    <3>5. diags' = diags => (PendingInv => PendingInv')
      BY <3>1, <3>2, <3>3 DEF PendingInv, SettledAt, Range
    <3>6. /\ IsSourceTree(source)' /\ imported' \in Seq(DOMAIN source'.files) /\ stack' \in Seq(Frames)'
          /\ \A i \in DOMAIN stack' : stack'[i].file \in Range(Contexts)'
          /\ (\A i, j \in DOMAIN Contexts : i # j => Contexts[i] # Contexts[j])'
      BY <3>1, <3>2 DEF ImportsInv, IsSourceTree, Frames, Range
    <3>7. CASE EndImports
      <4>1. diags = {} => \A f \in Range(Contexts) : AllSettled(f)
        <5> SUFFICES ASSUME diags = {}, NEW f \in Range(Contexts), NEW k \in DOMAIN source.files[f].imports
                     PROVE  SettledAt(f, k)
          BY DEF AllSettled
        <5>1. DOMAIN stack = {}
          BY <3>7 DEF EndImports
        <5> QED BY <5>1, <3>7 DEF ImportsInv, PendingInv, EndImports
      <4>2. phase' = "rejected" \/ (diags = {} /\ phase' = "types")
        BY <3>7 DEF EndImports, Then
      <4> QED BY <4>1, <4>2, <3>4, <3>6 DEF ImportsInv
    <3>8. CASE LaterPhases
      BY <3>8, <3>4, <3>6 DEF ImportsInv, LaterPhases
    <3>9. CASE UNCHANGED importVars
      <4>1. phase' = phase /\ diags' = diags
        BY <3>9 DEF importVars
      <4> QED BY <4>1, <3>4, <3>5, <3>6 DEF ImportsInv
    <3> QED BY <2>2, <3>7, <3>8, <3>9
  <2> QED BY <2>1, <2>2 DEF ImportsNext
<1> QED BY <1>1, <1>2, PTL DEF ImportsSpec

\* Whatever the files import, in cycles, over links or search paths, every file is imported once and
\* every import of a program that is not rejected leads to a file that is there (ImportSources).
THEOREM ImportsSettledHolds == ImportsSpec => []ImportsSettled
<1>1. ImportsInv => ImportsSettled
  <2> SUFFICES ASSUME ImportsInv PROVE ImportsSettled
    OBVIOUS
  <2>1. ASSUME phase \notin {"import", "rejected"}, NEW f \in Range(Contexts), NEW p \in Range(source.files[f].imports)
        PROVE  Settled(f, p)
    <3>1. PICK k \in DOMAIN source.files[f].imports : p = source.files[f].imports[k]
      BY DEF Range
    <3> QED BY <3>1, <2>1 DEF ImportsInv, AllSettled, SettledAt
  <2> QED BY <2>1 DEF ImportsInv, ImportsSettled, Settled
<1> QED BY <1>1, ImportsInductive, PTL
-----------------------------------------------------------------------------
(* Lexer *)

\* A table of operators yields neither numbers nor errors, nor the end token.
NoValues(f) == \A x \in DOMAIN f : f[x] \notin {"End", "Error", "LitInt", "LitLong", "LitFloat", "StaticInt"}

\* What a table that was turned around yields is what it was asked for.
LEMMA AntiFunctionFacts ==
  ASSUME NEW f
  PROVE  \A y \in DOMAIN AntiFunction(f) : AntiFunction(f)[y] \in DOMAIN f
<1> SUFFICES ASSUME NEW y \in Range(f) PROVE AntiFunction(f)[y] \in DOMAIN f
  BY DEF AntiFunction, Inverse
<1>1. \E x \in DOMAIN f : f[x] = y
  BY DEF Range
<1>2. (CHOOSE x \in DOMAIN f : y \in Range(f) => f[x] = y) \in DOMAIN f
  BY <1>1
<1> QED BY <1>2 DEF AntiFunction, Inverse

LEMMA OpsFacts == NoValues(SingleOps) /\ NoValues(DoubleOps)
<1>1. ASSUME NEW f, {"End", "Error", "LitInt", "LitLong", "LitFloat", "StaticInt"} \cap DOMAIN f = {}
      PROVE  NoValues(AntiFunction(f))
  BY <1>1, AntiFunctionFacts DEF NoValues
<1>2. NoValues(SingleOps)
  BY <1>1 DEF SingleOps
<1>3. NoValues(DoubleOps)
  BY <1>1 DEF DoubleOps
<1> QED BY <1>2, <1>3

\* A source text: behind its last character, and nowhere else, NUL is read.
IsText(t) == t \in Seq(STRING) /\ "NUL" \notin Range(t)

LEMMA CharFacts ==
  ASSUME NEW t, IsText(t)
  PROVE  /\ Len(t) \in Nat
         /\ \A j \in Nat : CharAt(t, j) = "NUL" <=> j >= Len(t)
<1>1. t \in Seq(STRING) /\ Len(t) \in Nat
  BY DEF IsText
<1>2. \A j \in Nat : j >= Len(t) => CharAt(t, j) = "NUL"
  BY <1>1 DEF CharAt
<1>3. ASSUME NEW j \in Nat, j < Len(t) PROVE CharAt(t, j) # "NUL"
  <2>1. j + 1 \in DOMAIN t
    BY <1>1, <1>3
  <2> QED BY <2>1, <1>1, <1>3 DEF CharAt, IsText, Range
<1> QED BY <1>1, <1>2, <1>3

\* A loop that runs up to some character ends before the end of the text.
LEMMA ScanFacts ==
  ASSUME NEW t, IsText(t), NEW k \in Int, -1 <= k, k < Len(t), NEW stops, "NUL" \in stops
  PROVE  /\ ScanTo(t, k, stops) \in k .. Len(t) - 1
         /\ CharAt(t, ScanTo(t, k, stops) + 1) \in stops
         /\ \A j \in k + 1 .. ScanTo(t, k, stops) : CharAt(t, j) \notin stops
<1> DEFINE S == {j \in k + 1 .. Len(t) : CharAt(t, j) \in stops}
<1>1. Len(t) \in Nat /\ CharAt(t, Len(t)) = "NUL"
  BY CharFacts
<1>2. S \subseteq Nat /\ Len(t) \in S
  BY <1>1
<1>3. Min(S) \in S /\ \A j \in S : Min(S) <= j
  BY <1>2, MinFacts
<1>4. ScanTo(t, k, stops) = Min(S) - 1
  BY DEF ScanTo
<1> DEFINE m == Min(S)
<1>5. m \in k + 1 .. Len(t) /\ CharAt(t, m) \in stops /\ \A j \in k + 1 .. Len(t) : CharAt(t, j) \in stops => m <= j
  BY <1>3
<1> HIDE DEF m, S
<1>6. m - 1 \in k .. Len(t) - 1 /\ (m - 1) + 1 = m
  BY <1>1, <1>5
<1>7. \A j \in k + 1 .. m - 1 : CharAt(t, j) \notin stops
  BY <1>1, <1>5
<1> QED BY <1>4, <1>5, <1>6, <1>7 DEF m

\* The least of what may be there, within bounds.
LEMMA MinWithin ==
  ASSUME NEW S, NEW lo \in Nat, NEW hi \in Nat, S \subseteq lo .. hi, S # {}
  PROVE  Min(S) \in S /\ Min(S) \in lo .. hi
<1>1. S \subseteq Nat
  OBVIOUS
<1> QED BY <1>1, MinFacts

\* The token at k is no end token, begins there and ends within the text.
Spans(tok, t, k) == tok.kind # "End" /\ tok.lo = k /\ tok.hi \in k .. Len(t) - 1

\* A literal spans from its first character to the end that was found for it, whatever its value.
LEMMA LitNumberSpan ==
  ASSUME NEW t, NEW k, NEW e, NEW long
  PROVE  LET tok == LitNumber(t, k, e, long) IN tok.kind # "End" /\ tok.lo = k /\ tok.hi = e
BY DEF LitNumber, NumberToken, errorToken, Token

LEMMA PrefixedSpan ==
  ASSUME NEW t, NEW k, NEW e, NEW s, NEW long, NEW err
  PROVE  LET tok == PrefixedToken(t, k, e, s, long, err) IN tok.kind # "End" /\ tok.lo = k /\ tok.hi = e
BY DEF PrefixedToken, errorToken, Token

LEMMA NumberSpan ==
  ASSUME NEW t, IsText(t), NEW k \in Nat, k < Len(t)
  PROVE  Spans(nextLitNumber(t, k), t, k)
<1> DEFINE all  == ScanTo(t, k, isTokenSeperator \ {"."})
           ells == {j \in k + 1 .. all : CharAt(t, j) \in {"l", "L"} /\ "." \notin {CharAt(t, i) : i \in k .. j}}
           e    == IF ells # {} THEN Min(ells) ELSE all
<1>1. "NUL" \in isTokenSeperator \ {"."}
  BY DEF isTokenSeperator
<1>2. all \in k .. Len(t) - 1 /\ Len(t) \in Nat
  BY <1>1, ScanFacts, CharFacts
<1>3. ells \subseteq k + 1 .. all
  OBVIOUS
<1>4. nextLitNumber(t, k) = LitNumber(t, k, e, ells # {})
  BY DEF nextLitNumber
<1> HIDE DEF all, ells
<1>5. e \in k .. Len(t) - 1
  <2>1. all \in Nat /\ k + 1 \in Nat
    BY <1>2
  <2>2. ells # {} => Min(ells) \in k + 1 .. all
    BY <2>1, <1>3, MinWithin
  <2> QED BY <2>2, <1>2
<1> HIDE DEF e
<1>6. LET tok == LitNumber(t, k, e, ells # {}) IN tok.kind # "End" /\ tok.lo = k /\ tok.hi = e
  BY LitNumberSpan
<1> QED BY <1>4, <1>5, <1>6 DEF Spans

LEMMA PrefixedEndFacts ==
  ASSUME NEW t, IsText(t), NEW k \in Nat, k + 1 < Len(t)
  PROVE  PrefixedEnd(t, k) \in k .. Len(t) - 1
<1> DEFINE all  == ScanTo(t, k + 1, isTokenSeperator)
           ells == {j \in k + 2 .. all : CharAt(t, j) \in {"l", "L"}}
<1>1. "NUL" \in isTokenSeperator
  BY DEF isTokenSeperator
<1>2. all \in k + 1 .. Len(t) - 1 /\ Len(t) \in Nat
  BY <1>1, ScanFacts, CharFacts
<1>3. ells \subseteq k + 2 .. all
  OBVIOUS
<1>4. PrefixedEnd(t, k) = IF ells # {} THEN Min(ells) ELSE all
  BY DEF PrefixedEnd
<1> HIDE DEF all, ells
<1>5. all \in Nat /\ k + 2 \in Nat
  BY <1>2
<1>6. ells # {} => Min(ells) \in k + 2 .. all
  BY <1>5, <1>3, MinWithin
<1> QED BY <1>2, <1>4, <1>6

LEMMA PrefixedNumberSpan ==
  ASSUME NEW t, IsText(t), NEW k \in Nat, k + 1 < Len(t)
  PROVE  Spans(nextLitNumberHex(t, k), t, k) /\ Spans(nextLitNumberBinary(t, k), t, k)
<1> DEFINE e == PrefixedEnd(t, k)
<1>1. e \in k .. Len(t) - 1
  BY PrefixedEndFacts
<1> HIDE DEF e
<1>2. nextLitNumberHex(t, k).kind # "End" /\ nextLitNumberHex(t, k).lo = k /\ nextLitNumberHex(t, k).hi = e
  BY DEF nextLitNumberHex, LitPrefixed, PrefixedToken, errorToken, Token, e
<1>3. nextLitNumberBinary(t, k).kind # "End" /\ nextLitNumberBinary(t, k).lo = k /\ nextLitNumberBinary(t, k).hi = e
  BY DEF nextLitNumberBinary, LitPrefixed, PrefixedToken, errorToken, Token, e
<1> QED BY <1>1, <1>2, <1>3 DEF Spans

LEMMA StaticIntSpan ==
  ASSUME NEW t, IsText(t), NEW k \in Nat, k < Len(t)
  PROVE  Spans(nextStaticInt(t, k), t, k)
<1> DEFINE from == IF CharAt(t, k + 1) = "-" THEN k + 1 ELSE k
           e == ScanTo(t, from, isTokenSeperator \ {"-"})
<1>1. "NUL" \in isTokenSeperator \ {"-"}
  BY DEF isTokenSeperator
<1>2. from \in k .. Len(t) - 1 /\ Len(t) \in Nat /\ from \in Int /\ -1 <= from /\ from < Len(t)
  BY CharFacts
<1> HIDE DEF from
<1>3. e \in from .. Len(t) - 1
  BY <1>1, <1>2, ScanFacts
<1>4. nextStaticInt(t, k).kind # "End" /\ nextStaticInt(t, k).lo = k /\ nextStaticInt(t, k).hi = e
  BY DEF nextStaticInt, errorToken, Token, from
<1> HIDE DEF e
<1> QED BY <1>2, <1>3, <1>4 DEF Spans

LEMMA DoubleOpsFacts == \A p \in DOMAIN DoubleOps : p[2] # "NUL"
BY DEF DoubleOps, AntiFunction, Inverse, Range

LEMMA StrSpan ==
  ASSUME NEW t, IsText(t), NEW k \in Nat, k < Len(t)
  PROVE  Spans(nextLitStr(t, k), t, k)
<1> DEFINE S == {j \in k + 1 .. Len(t) : \/ j = Len(t)
                                         \/ CharAt(t, j) \in {"NUL", "CR", "LF", "DQ"} /\ ~Escaped(t, k, j)}
           e == StrEnd(t, k)
<1>1. Len(t) \in Nat /\ \A j \in Nat : CharAt(t, j) = "NUL" <=> j >= Len(t)
  BY CharFacts
<1>2. S \subseteq k + 1 .. Len(t) /\ S # {}
  <2>1. Len(t) \in S
    BY <1>1
  <2> QED BY <2>1
<1>3. e = Min(S)
  BY DEF StrEnd
<1> HIDE DEF S, e
<1>4. e \in k + 1 .. Len(t)
  <2>1. k + 1 \in Nat
    OBVIOUS
  <2> QED BY <2>1, <1>1, <1>2, <1>3, MinWithin
<1>5. /\ nextLitStr(t, k).kind # "End" /\ nextLitStr(t, k).lo = k
      /\ \/ nextLitStr(t, k).hi = e - 1 /\ CharAt(t, e) = "NUL"
         \/ nextLitStr(t, k).hi = e /\ CharAt(t, e) # "NUL"
  BY DEF nextLitStr, errorToken, Token, e
<1>6. nextLitStr(t, k).hi \in k .. Len(t) - 1
  BY <1>1, <1>4, <1>5
<1> QED BY <1>5, <1>6 DEF Spans

LEMMA CharSpan ==
  ASSUME NEW t, IsText(t), NEW k \in Nat, k < Len(t)
  PROVE  Spans(nextLitChar(t, k), t, k)
<1> DEFINE first == IF CharAt(t, k + 1) = "BS" THEN k + 2 ELSE k + 1
           last  == Min({first, Len(t) - 1})
           e     == ScanTo(t, last, {"NUL", "CR", "LF", "SQ"}) + 1
           tok   == nextLitChar(t, k)
<1>1. Len(t) \in Nat /\ \A j \in Nat : CharAt(t, j) = "NUL" <=> j >= Len(t)
  BY CharFacts
<1>2. last \in k .. Len(t) - 1
  <2>1. first \in Nat /\ first >= k + 1 /\ Len(t) - 1 \in Nat
    BY <1>1
  <2> HIDE DEF first
  <2> DEFINE S == {first, Len(t) - 1}
  <2>2. S \subseteq Nat /\ S # {}
    BY <2>1
  <2>3. Min(S) \in S /\ \A y \in S : Min(S) <= y
    BY <2>2, MinFacts
  <2>4. (Min(S) = first \/ Min(S) = Len(t) - 1) /\ Min(S) <= Len(t) - 1
    BY <2>3
  <2> HIDE DEF S
  <2>5. Min(S) \in k .. Len(t) - 1
    BY <1>1, <2>1, <2>4
  <2> QED BY <2>5 DEF S
<1> HIDE DEF last
<1>3. e \in k + 1 .. Len(t)
  <2>1. last \in Int /\ -1 <= last /\ last < Len(t)
    BY <1>1, <1>2
  <2>2. ScanTo(t, last, {"NUL", "CR", "LF", "SQ"}) \in last .. Len(t) - 1
    BY <2>1, ScanFacts
  <2> QED BY <1>1, <1>2, <2>2
<1> HIDE DEF e
<1>4. tok.kind # "End" /\ tok.lo = k
  BY DEF nextLitChar, errorToken, Token
<1>5. \/ tok.hi = k + 1 /\ CharAt(t, k + 1) = "SQ"
      \/ tok.hi = e - 1
      \/ tok.hi = e /\ CharAt(t, e) # "NUL"
  BY DEF nextLitChar, errorToken, Token, e, last
<1> HIDE DEF tok
<1>6. tok.hi \in k .. Len(t) - 1
  BY <1>1, <1>3, <1>5
<1> QED BY <1>4, <1>6 DEF Spans, tok

LEMMA WordSpan ==
  ASSUME NEW t, IsText(t), NEW k \in Nat, k < Len(t)
  PROVE  Spans(nextWordToken(t, k), t, k)
<1> DEFINE e == ScanTo(t, k, isTokenSeperator)
<1>1. "NUL" \in isTokenSeperator
  BY DEF isTokenSeperator
<1>2. e \in k .. Len(t) - 1
  BY <1>1, ScanFacts
<1>3. nextWordToken(t, k).kind # "End" /\ nextWordToken(t, k).lo = k /\ nextWordToken(t, k).hi = e
  BY DEF nextWordToken, errorToken, Token
<1> QED BY <1>2, <1>3 DEF Spans

LEMMA CommentSpan ==
  ASSUME NEW t, IsText(t), NEW k \in Nat, k + 1 < Len(t)
  PROVE  Spans(nextLineComment(t, k), t, k)
<1> DEFINE e == ScanTo(t, k + 1, {"NUL", "LF"})
<1>1. Len(t) \in Nat /\ \A j \in Nat : CharAt(t, j) = "NUL" <=> j >= Len(t)
  BY CharFacts
<1>2. e \in k + 1 .. Len(t) - 1
  BY <1>1, ScanFacts
<1>3. nextLineComment(t, k).kind # "End" /\ nextLineComment(t, k).lo = k
      /\ nextLineComment(t, k).hi = IF CharAt(t, e + 1) = "LF" THEN e + 1 ELSE e
  BY DEF nextLineComment, Token
<1> HIDE DEF e
<1>4. CharAt(t, e + 1) = "LF" => e + 1 < Len(t)
  BY <1>1, <1>2
<1>5. nextLineComment(t, k).hi \in k .. Len(t) - 1
  BY <1>1, <1>2, <1>3, <1>4
<1> QED BY <1>3, <1>5 DEF Spans

\* A token that does not begin with NUL spans from its first character to one of the text.
LEMMA TokenAtSpan ==
  ASSUME NEW t, IsText(t), NEW k \in Nat, k < Len(t)
  PROVE  Spans(TokenAt(t, k, CharAt(t, k), CharAt(t, k + 1)), t, k)
<1> DEFINE c == CharAt(t, k)
           n == CharAt(t, k + 1)
<1>1. Len(t) \in Nat /\ c # "NUL" /\ (n # "NUL" => k + 1 < Len(t))
  BY CharFacts
<1>2. /\ Spans(nextLitNumber(t, k), t, k) /\ Spans(nextStaticInt(t, k), t, k) /\ Spans(nextLitStr(t, k), t, k)
      /\ Spans(nextLitChar(t, k), t, k) /\ Spans(nextWordToken(t, k), t, k)
  BY NumberSpan, StaticIntSpan, StrSpan, CharSpan, WordSpan
<1>3. n # "NUL" => /\ Spans(nextLineComment(t, k), t, k) /\ Spans(nextLitNumberHex(t, k), t, k)
                   /\ Spans(nextLitNumberBinary(t, k), t, k)
  BY <1>1, CommentSpan, PrefixedNumberSpan
<1>4. <<c, n>> \in DOMAIN DoubleOps => Spans(basicToken(DoubleOps[<<c, n>>], k, k + 1), t, k)
  <2> SUFFICES ASSUME <<c, n>> \in DOMAIN DoubleOps PROVE Spans(basicToken(DoubleOps[<<c, n>>], k, k + 1), t, k)
    OBVIOUS
  <2> HIDE DEF c, n
  <2>1. <<c, n>>[2] # "NUL"
    BY DoubleOpsFacts
  <2>2. DoubleOps[<<c, n>>] # "End"
    BY OpsFacts DEF NoValues
  <2>3. k + 1 \in k .. Len(t) - 1
    BY <1>1, <2>1
  <2> QED BY <2>2, <2>3 DEF Spans, basicToken, Token
<1>5. c \in DOMAIN SingleOps => Spans(basicToken(SingleOps[c], k, k), t, k)
  <2>1. c \in DOMAIN SingleOps => SingleOps[c] # "End"
    BY OpsFacts DEF NoValues
  <2>2. k \in k .. Len(t) - 1
    BY <1>1
  <2> QED BY <2>1, <2>2 DEF Spans, basicToken, Token
<1>6. Spans(basicToken("Discard", k, k), t, k) /\ Spans(errorToken("InvalidChar", k, k), t, k)
  BY <1>1 DEF Spans, basicToken, errorToken, Token
<1> HIDE DEF c, n
<1>7. Spans(TokenAt(t, k, c, n), t, k)
  <2>1. n \in isDigit \/ n = "/" \/ n \in {"x", "X"} \/ n \in {"b", "B"} => n # "NUL"
    BY DEF isDigit
  <2> DEFINE Ok(tok) == Spans(tok, t, k)
  <2>2. /\ Ok(nextLitNumber(t, k)) /\ Ok(nextStaticInt(t, k)) /\ Ok(nextLitStr(t, k))
        /\ Ok(nextLitChar(t, k)) /\ Ok(nextWordToken(t, k))
        /\ Ok(basicToken("Discard", k, k)) /\ Ok(errorToken("InvalidChar", k, k))
        /\ n = "/" => Ok(nextLineComment(t, k))
        /\ n \in {"x", "X"} => Ok(nextLitNumberHex(t, k))
        /\ n \in {"b", "B"} => Ok(nextLitNumberBinary(t, k))
        /\ <<c, n>> \in DOMAIN DoubleOps => Ok(basicToken(DoubleOps[<<c, n>>], k, k + 1))
        /\ c \in DOMAIN SingleOps => Ok(basicToken(SingleOps[c], k, k))
    BY <1>2, <1>3, <1>4, <1>5, <1>6, <2>1
  <2> HIDE DEF Ok
  <2>3. Ok(TokenAt(t, k, c, n))
    BY <1>1, <2>2 DEF TokenAt
  <2> QED BY <2>3 DEF Ok
<1> QED BY <1>7 DEF c, n

\* The next token: behind the white space, if there is a character left.
LEMMA NextFacts ==
  ASSUME NEW t, IsText(t), NEW pos \in Int, -1 <= pos, pos < Len(t)
  PROVE  LET tok == LexNext(t, pos)
         IN  \/ /\ tok.kind = "End"
                /\ \A j \in pos + 1 .. Len(t) - 1 : CharAt(t, j) \in Whitespace
             \/ /\ tok.kind # "End" /\ tok.lo \in pos + 1 .. Len(t) - 1 /\ tok.hi \in tok.lo .. Len(t) - 1
                /\ \A j \in pos + 1 .. tok.lo - 1 : CharAt(t, j) \in Whitespace
<1> DEFINE stops == {CharAt(t, j) : j \in 0 .. Len(t)} \ Whitespace
           k == ScanTo(t, pos, stops) + 1
           tok == LexNext(t, pos)
<1>1. Len(t) \in Nat /\ \A j \in Nat : CharAt(t, j) = "NUL" <=> j >= Len(t)
  BY CharFacts
<1>2. "NUL" \in stops
  <2>1. Len(t) \in 0 .. Len(t) /\ CharAt(t, Len(t)) = "NUL"
    BY <1>1
  <2>2. "NUL" \notin Whitespace
    BY DEF Whitespace
  <2> QED BY <2>1, <2>2
<1>3. /\ ScanTo(t, pos, stops) \in pos .. Len(t) - 1
      /\ \A j \in pos + 1 .. ScanTo(t, pos, stops) : CharAt(t, j) \notin stops
  <2> HIDE DEF stops
  <2> QED BY <1>2, ScanFacts
<1>4. tok = TokenAt(t, k, CharAt(t, k), CharAt(t, k + 1))
  BY DEF LexNext
<1> DEFINE m == ScanTo(t, pos, stops)
<1>5. \A j \in pos + 1 .. m : CharAt(t, j) \in Whitespace
  <2> TAKE j \in pos + 1 .. m
  <2>1. j \in 0 .. Len(t)
    BY <1>1, <1>3
  <2>2. CharAt(t, j) \notin stops
    BY <1>3
  <2> QED BY <2>1, <2>2
<1>6. m \in pos .. Len(t) - 1 /\ k = m + 1
  BY <1>3
<1> HIDE DEF stops, m, k, tok
<1>7. k \in pos + 1 .. Len(t) /\ k - 1 = m /\ k \in Nat
  BY <1>1, <1>6
<1>8. CASE k = Len(t)
  <2>1. CharAt(t, k) = "NUL"
    BY <1>1, <1>7, <1>8
  <2>2. tok.kind = "End"
    BY <2>1, <1>4 DEF TokenAt, Token
  <2> QED BY <2>2, <1>5, <1>7, <1>8 DEF tok
<1>9. CASE k < Len(t)
  <2>1. Spans(tok, t, k)
    BY <1>4, <1>7, <1>9, TokenAtSpan
  <2>2. k \in pos + 1 .. Len(t) - 1
    BY <1>1, <1>7, <1>9
  <2> QED BY <2>1, <2>2, <1>5, <1>7 DEF tok, Spans
<1> QED BY <1>1, <1>7, <1>8, <1>9

\* The tokens cover the text up to the input position: where one ends the white space before the next
\* begins.
Before(i) == IF i = 1 THEN -1 ELSE tokens[i - 1].hi

Covered(i) ==
  /\ tokens[i].lo \in Before(i) + 1 .. Len(text) - 1 /\ tokens[i].hi \in tokens[i].lo .. Len(text) - 1
  /\ \A j \in Before(i) + 1 .. tokens[i].lo - 1 : CharAt(text, j) \in Whitespace

CoverInv ==
  /\ IsText(text)
  /\ \E S : tokens \in Seq(S)
  /\ inputPos = Before(Len(tokens) + 1)
  /\ inputPos \in Int /\ -1 <= inputPos /\ inputPos < Len(text)
  /\ \A i \in 1 .. Len(tokens) : Before(i) \in Int /\ -1 <= Before(i) /\ Covered(i)

LEMMA LexStepCover == CoverInv /\ Lex => CoverInv'
<1> SUFFICES ASSUME CoverInv, Lex PROVE CoverInv'
  OBVIOUS
<1> DEFINE t == LexNext(text, inputPos)
           n == Len(tokens)
<1>1. t.kind # "End" /\ tokens' = Append(tokens, t) /\ inputPos' = t.hi /\ text' = text
  BY DEF Lex
<1>2. /\ IsText(text) /\ inputPos = Before(n + 1) /\ inputPos \in Int /\ -1 <= inputPos /\ inputPos < Len(text)
      /\ \A i \in 1 .. n : Before(i) \in Int /\ -1 <= Before(i) /\ Covered(i)
  BY DEF CoverInv
<1>3. PICK S : tokens \in Seq(S)
  BY DEF CoverInv
<1>4. /\ t.lo \in inputPos + 1 .. Len(text) - 1 /\ t.hi \in t.lo .. Len(text) - 1
      /\ \A j \in inputPos + 1 .. t.lo - 1 : CharAt(text, j) \in Whitespace
  BY <1>1, <1>2, NextFacts
<1> HIDE DEF t
<1>5. tokens' \in Seq(S \union {t}) /\ Len(tokens') = n + 1 /\ tokens'[n + 1] = t /\ n \in Nat
      /\ \A i \in 1 .. n : tokens'[i] = tokens[i]
  <2>1. tokens \in Seq(S \union {t}) /\ n \in Nat
    BY <1>3, SeqMonotonic
  <2>2. t \in S \union {t}
    OBVIOUS
  <2> QED BY <2>1, <2>2, <1>1, AppendFacts
<1> HIDE DEF n
<1>6. \A i \in 1 .. n + 1 : Before(i)' = Before(i)
  <2> TAKE i \in 1 .. n + 1
  <2>1. CASE i = 1
    BY <2>1 DEF Before
  <2>2. CASE i # 1
    <3>1. i - 1 \in 1 .. n
      BY <2>2, <1>5
    <3> QED BY <3>1, <2>2, <1>5 DEF Before
  <2> QED BY <2>1, <2>2
<1>7. Len(text) \in Nat
  BY <1>2, CharFacts
<1>8. Before(Len(tokens) + 1)' = t.hi
  <2>1. Len(tokens') + 1 # 1 /\ (Len(tokens') + 1) - 1 = n + 1
    BY <1>5
  <2> QED BY <2>1, <1>5 DEF Before
<1>9. inputPos' = Before(Len(tokens) + 1)' /\ inputPos' \in Int /\ -1 <= inputPos' /\ inputPos' < Len(text)
  <2>1. t.hi \in Int /\ -1 <= t.hi /\ t.hi < Len(text)
    BY <1>2, <1>4, <1>7
  <2> QED BY <2>1, <1>8, <1>1
<1>10. ASSUME NEW i \in 1 .. n + 1 PROVE (Before(i) \in Int /\ -1 <= Before(i) /\ Covered(i))'
  <2>1. Before(i)' = Before(i)
    BY <1>6
  <2>2. CASE i \in 1 .. n
    BY <2>1, <2>2, <1>1, <1>2, <1>5 DEF Covered
  <2>3. CASE i = n + 1
    <3>1. Before(i)' = inputPos /\ tokens'[i] = t
      BY <2>1, <2>3, <1>2, <1>5
    <3> QED BY <3>1, <1>1, <1>2, <1>4 DEF Covered
  <2> QED BY <2>2, <2>3, <1>5
<1>11. IsText(text)'
  BY <1>1, <1>2 DEF IsText
<1> QED BY <1>1, <1>5, <1>9, <1>10, <1>11 DEF CoverInv

LEMMA CoverInductive == LexSpec => []CoverInv
<1>1. LexInit => CoverInv
  <2> SUFFICES ASSUME LexInit PROVE CoverInv
    OBVIOUS
  <2>1. IsText(text)
    BY TextsAssumption DEF LexInit, IsText
  <2>2. tokens \in Seq({}) /\ Len(tokens) = 0 /\ inputPos = -1 /\ Before(1) = -1
    BY DEF LexInit, Before
  <2>3. Len(text) \in Nat
    BY <2>1, CharFacts
  <2> QED BY <2>1, <2>2, <2>3 DEF CoverInv
<1>2. CoverInv /\ [Lex]_lexVars => CoverInv'
  <2>1. CoverInv /\ Lex => CoverInv'
    BY LexStepCover
  <2>2. CoverInv /\ UNCHANGED lexVars => CoverInv'
    BY DEF CoverInv, lexVars, IsText, Before, Covered
  <2> QED BY <2>1, <2>2
<1> QED BY <1>1, <1>2, PTL DEF LexSpec

\* Whatever the text holds, its tokens lie in it one behind the other with only white space between
\* them, and at the end all of it is consumed (LexerImpl::next).
THEOREM TokensCoverHolds == LexSpec => []TokensCover
<1>1. CoverInv => TokensCover
  <2> SUFFICES ASSUME CoverInv PROVE TokensCover
    OBVIOUS
  <2> DEFINE n      == Len(tokens)
             starts == [i \in 1 .. n + 1 |-> IF i > n THEN IF AtEnd THEN Len(text) ELSE inputPos + 1 ELSE tokens[i].lo]
             ends   == [i \in 0 .. n |-> IF i = 0 THEN -1 ELSE tokens[i].hi]
  <2>1. n \in Nat /\ Len(text) \in Nat
    BY CharFacts DEF CoverInv
  <2>2. \A i \in 1 .. n + 1 : ends[i - 1] = Before(i)
    BY <2>1 DEF Before
  <2>3. AtEnd => \A j \in inputPos + 1 .. Len(text) - 1 : CharAt(text, j) \in Whitespace
    BY NextFacts DEF AtEnd, CoverInv
  <2>4. ASSUME NEW i \in 1 .. n + 1
        PROVE  /\ ends[i - 1] < starts[i]
               /\ i <= n => tokens[i].lo <= tokens[i].hi /\ tokens[i].hi < Len(text)
               /\ \A k \in ends[i - 1] + 1 .. starts[i] - 1 : CharAt(text, k) \in Whitespace
    <3>1. CASE i <= n
      <4>1. starts[i] = tokens[i].lo /\ i \in 1 .. n
        BY <3>1, <2>1
      <4>2. Before(i) \in Int /\ Covered(i)
        BY <4>1 DEF CoverInv
      <4>3. ends[i - 1] = Before(i)
        BY <2>2
      <4> HIDE DEF starts, ends, n
      <4> QED BY <2>1, <4>1, <4>2, <4>3 DEF Covered
    <3>2. CASE i = n + 1
      <4>1. starts[i] = (IF AtEnd THEN Len(text) ELSE inputPos + 1) /\ ~(i <= n)
        BY <3>2, <2>1
      <4>2. ends[i - 1] = inputPos /\ inputPos \in Int /\ inputPos < Len(text)
        BY <3>2, <2>2 DEF CoverInv
      <4> HIDE DEF starts, ends, n
      <4> QED BY <2>1, <2>3, <4>1, <4>2
    <3> QED BY <3>1, <3>2, <2>1
  <2> QED BY <2>4 DEF TokensCover
<1> QED BY <1>1, CoverInductive, PTL

-----------------------------------------------------------------------------
(* Numbers *)

\* What holds before the first of some consecutive places, and at each if it does before it, holds at all.
LEMMA RangeInduction ==
  ASSUME NEW lo \in Nat, NEW hi \in Int, NEW S, lo - 1 \in S, \A j \in lo .. hi : j - 1 \in S => j \in S
  PROVE  \A j \in lo - 1 .. hi : j \in S
<1> DEFINE Bad == {m \in Nat : lo - 1 + m \in lo - 1 .. hi /\ lo - 1 + m \notin S}
<1>1. SUFFICES ASSUME Bad # {} PROVE FALSE
  <2> SUFFICES ASSUME NEW j \in lo - 1 .. hi, j \notin S PROVE FALSE
    OBVIOUS
  <2>1. j - (lo - 1) \in Nat /\ lo - 1 + (j - (lo - 1)) = j
    OBVIOUS
  <2> QED BY <2>1, <1>1
<1>2. Min(Bad) \in Bad /\ \A y \in Bad : Min(Bad) <= y
  BY <1>1, MinFacts
<1> DEFINE m == Min(Bad)
           j == lo - 1 + m
<1>3. m \in Nat /\ j \in lo - 1 .. hi /\ j \notin S
  BY <1>2
<1> HIDE DEF m
<1>4. m # 0
  BY <1>3
<1>5. m - 1 \in Nat /\ j \in lo .. hi /\ lo - 1 + (m - 1) = j - 1 /\ j - 1 \in lo - 1 .. hi
  BY <1>3, <1>4
<1>6. j - 1 \notin S
  BY <1>3, <1>5
<1>7. m - 1 \in Bad
  BY <1>5, <1>6
<1> HIDE DEF Bad
<1>8. m <= m - 1
  BY <1>2, <1>7 DEF m
<1> QED BY <1>8, <1>3

\* A loop whose steps are the functions F[j] has a result at every place.
Loop(g, s, lo, hi, F) == g[lo - 1] = s /\ \A j \in lo .. hi : g[j] = F[j][g[j - 1]]

LEMMA LoopExists ==
  ASSUME NEW R, NEW s \in R, NEW lo \in Nat, NEW hi \in Int, lo - 1 <= hi, NEW F \in [lo .. hi -> [R -> R]]
  PROVE  \E g \in [lo - 1 .. hi -> R] : Loop(g, s, lo, hi, F)
<1> DEFINE Rec(g, m) == \A j \in lo - 1 .. m : g[j] = IF j < lo THEN s ELSE F[j][g[j - 1]]
           S == {m \in lo - 1 .. hi : \E g \in [lo - 1 .. m -> R] : Rec(g, m)}
<1>1. \E g \in [lo - 1 .. hi -> R] : Rec(g, hi)
  <2>1. lo - 1 \in S
    <3> DEFINE g == [j \in lo - 1 .. lo - 1 |-> s]
    <3>1. g \in [lo - 1 .. lo - 1 -> R] /\ Rec(g, lo - 1)
      OBVIOUS
    <3> HIDE DEF g, Rec
    <3>2. lo - 1 \in lo - 1 .. hi
      OBVIOUS
    <3> QED BY <3>1, <3>2
  <2>2. ASSUME NEW j \in lo .. hi, j - 1 \in S PROVE j \in S
    <3>1. PICK g \in [lo - 1 .. j - 1 -> R] : Rec(g, j - 1)
      BY <2>2
    <3> DEFINE h == [i \in lo - 1 .. j |-> IF i = j THEN F[j][g[j - 1]] ELSE g[i]]
    <3>2. j - 1 \in lo - 1 .. j - 1 /\ g[j - 1] \in R /\ F[j] \in [R -> R]
      OBVIOUS
    <3>3. h \in [lo - 1 .. j -> R]
      <4> SUFFICES ASSUME NEW i \in lo - 1 .. j PROVE h[i] \in R
        OBVIOUS
      <4>1. i # j => i \in lo - 1 .. j - 1
        OBVIOUS
      <4> QED BY <4>1, <3>2
    <3>4. ASSUME NEW i \in lo - 1 .. j PROVE h[i] = IF i < lo THEN s ELSE F[i][h[i - 1]]
      <4>1. CASE i = j
        <5>1. h[j] = F[j][g[j - 1]] /\ h[j - 1] = g[j - 1] /\ ~(j < lo)
          BY <3>2
        <5> QED BY <5>1, <4>1
      <4>2. CASE i # j
        <5>1. i \in lo - 1 .. j - 1 /\ h[i] = g[i]
          BY <4>2
        <5>2. ~(i < lo) => i - 1 \in lo - 1 .. j /\ i - 1 # j /\ h[i - 1] = g[i - 1]
          BY <4>2
        <5>3. g[i] = IF i < lo THEN s ELSE F[i][g[i - 1]]
          BY <3>1, <5>1
        <5> HIDE DEF h
        <5> QED BY <5>1, <5>2, <5>3
      <4> QED BY <4>1, <4>2
    <3>5. j \in lo - 1 .. hi
      OBVIOUS
    <3> HIDE DEF h
    <3>6. Rec(h, j)
      BY <3>4
    <3> HIDE DEF Rec
    <3> QED BY <3>3, <3>5, <3>6
  <2> HIDE DEF S
  <2>3. \A j \in lo - 1 .. hi : j \in S
    BY <2>1, <2>2, RangeInduction
  <2>4. hi \in lo - 1 .. hi
    OBVIOUS
  <2>5. hi \in S
    BY <2>3, <2>4
  <2> QED BY <2>5 DEF S
<1>2. ASSUME NEW g, Rec(g, hi) PROVE Loop(g, s, lo, hi, F)
  BY <1>2 DEF Loop
<1> HIDE DEF Rec
<1> QED BY <1>1, <1>2

Accumulators == [res : Nat, div : Nat, dec : BOOLEAN, big : BOOLEAN, bad : BOOLEAN]

\* What the table of digits holds, and which characters it lacks.
LEMMA HexDigitFacts ==
  /\ \A c : c \in isDigit => c \in DOMAIN HexDigit /\ HexDigit[c] \in Nat /\ HexDigit[c] <= 9
  /\ \A c : c \in DOMAIN HexDigit => HexDigit[c] \in Nat /\ HexDigit[c] <= 15
  /\ HexDigit["0"] = 0 /\ HexDigit["1"] = 1 /\ "0" \in isDigit /\ "1" \in isDigit
  /\ "l" \notin DOMAIN HexDigit /\ "L" \notin DOMAIN HexDigit /\ "_" \notin DOMAIN HexDigit
  /\ "-" \notin DOMAIN HexDigit /\ "." \notin DOMAIN HexDigit
<1>1. DOMAIN HexDigit = isDigit \cup {"a", "b", "c", "d", "e", "f", "A", "B", "C", "D", "E", "F"}
  BY DEF HexDigit
<1>2. /\ HexDigit["0"] = 0 /\ HexDigit["1"] = 1 /\ HexDigit["2"] = 2 /\ HexDigit["3"] = 3 /\ HexDigit["4"] = 4
      /\ HexDigit["5"] = 5 /\ HexDigit["6"] = 6 /\ HexDigit["7"] = 7 /\ HexDigit["8"] = 8 /\ HexDigit["9"] = 9
      /\ HexDigit["a"] = 10 /\ HexDigit["b"] = 11 /\ HexDigit["c"] = 12 /\ HexDigit["d"] = 13 /\ HexDigit["e"] = 14 /\ HexDigit["f"] = 15
      /\ HexDigit["A"] = 10 /\ HexDigit["B"] = 11 /\ HexDigit["C"] = 12 /\ HexDigit["D"] = 13 /\ HexDigit["E"] = 14 /\ HexDigit["F"] = 15
  BY DEF HexDigit, isDigit
<1>3. ASSUME NEW c \in DOMAIN HexDigit PROVE HexDigit[c] \in Nat /\ HexDigit[c] <= 15
  BY <1>1, <1>2 DEF isDigit
<1>6. ASSUME NEW c \in isDigit PROVE HexDigit[c] \in Nat /\ HexDigit[c] <= 9
  BY <1>2 DEF isDigit
<1>4. HexDigit["0"] = 0 /\ HexDigit["1"] = 1 /\ "0" \in isDigit /\ "1" \in isDigit
  BY DEF HexDigit, isDigit
<1>5. /\ "l" \notin DOMAIN HexDigit /\ "L" \notin DOMAIN HexDigit /\ "_" \notin DOMAIN HexDigit
      /\ "-" \notin DOMAIN HexDigit /\ "." \notin DOMAIN HexDigit
  BY <1>1 DEF isDigit
<1> QED BY <1>1, <1>3, <1>4, <1>5, <1>6

\* The arithmetic of the overflow tests: a digit is added where it fits.
LEMMA Fits10 ==
  ASSUME NEW r \in Nat, NEW d \in Nat, NEW u \in Nat
  PROVE  (r <= (u - d) \div 10) <=> (r * 10 + d <= u)
OBVIOUS

LEMMA Fits16 ==
  ASSUME NEW r \in Nat, NEW d \in Nat, NEW u \in Nat
  PROVE  (r <= (u - d) \div 16) <=> (r * 16 + d <= u)
OBVIOUS

LEMMA Fits2 ==
  ASSUME NEW r \in Nat, NEW d \in Nat, NEW u \in Nat
  PROVE  (r > (u - d) \div 2) <=> (r * 2 + d > u)
OBVIOUS

LEMMA ModSmall ==
  ASSUME NEW x \in Nat, NEW u \in Nat, x <= u
  PROVE  x % (u + 1) = x
OBVIOUS

LEMMA ModNat ==
  ASSUME NEW x \in Nat, NEW u \in Nat
  PROVE  x % (u + 1) \in Nat
OBVIOUS

LEMMA Grows16 ==
  ASSUME NEW v \in Nat, NEW d \in Nat, NEW u \in Nat, v > u
  PROVE  v * 16 + d > u
OBVIOUS

-----------------------------------------------------------------------------
(* For each kind of number its loop: after the character at j it is at     *)
(* g[j], and the last of these is what Read yields.                        *)

\* A step leaves an accumulator.
LEMMA DecimalStepType ==
  ASSUME NEW s \in Accumulators, NEW c
  PROVE  DecimalStep(s, c) \in Accumulators
<1>0. s.res \in Nat /\ s.div \in Nat /\ s.dec \in BOOLEAN /\ s.big \in BOOLEAN /\ s.bad \in BOOLEAN
  BY DEF Accumulators
<1>1. c \in isDigit => HexDigit[c] \in Nat
  BY HexDigitFacts
<1>3. CASE c \in isDigit
  <2> DEFINE fits == s.res <= (UInt64Max - HexDigit[c]) \div 10
             room == s.div <= UInt64Max \div 10
             r == IF fits THEN s.res * 10 + HexDigit[c] ELSE s.res
             d == IF fits /\ s.dec /\ room THEN s.div * 10 ELSE s.div
             b == s.big \/ ~fits \/ (s.dec /\ ~room)
  <2>1. DecimalStep(s, c) = [s EXCEPT !.res = r, !.div = d, !.big = b]
    BY <1>3 DEF DecimalStep
  <2>2. r \in Nat /\ d \in Nat /\ b \in BOOLEAN
    BY <1>1, <1>0, <1>3
  <2> HIDE DEF r, d, b
  <2> QED BY <2>1, <2>2 DEF Accumulators
<1>4. CASE c \notin isDigit
  BY <1>0, <1>4 DEF DecimalStep, Accumulators
<1> QED BY <1>3, <1>4

DecimalRun(g, s, t, lo, hi) ==
  /\ g[lo - 1] = s /\ Read(DecimalStep, s, t, lo, hi) = g[hi]
  /\ \A j \in lo .. hi : g[j] = DecimalStep(g[j - 1], CharAt(t, j))

LEMMA DecimalRead ==
  ASSUME NEW s \in Accumulators, NEW t, NEW lo \in Nat, NEW hi \in Int, lo - 1 <= hi
  PROVE  \E g \in [lo - 1 .. hi -> Accumulators] : DecimalRun(g, s, t, lo, hi)
<1> DEFINE upTo[j \in lo - 1 .. hi] == IF j < lo THEN s ELSE DecimalStep(upTo[j - 1], CharAt(t, j))
           Rec(g) == g = [j \in lo - 1 .. hi |-> IF j < lo THEN s ELSE DecimalStep(g[j - 1], CharAt(t, j))]
           F == [j \in lo .. hi |-> [a \in Accumulators |-> DecimalStep(a, CharAt(t, j))]]
<1>1. F \in [lo .. hi -> [Accumulators -> Accumulators]]
  BY DecimalStepType
<1>2. \E g : Rec(g)
  <2>1. PICK g \in [lo - 1 .. hi -> Accumulators] : Loop(g, s, lo, hi, F)
    <3> HIDE DEF F
    <3> QED BY <1>1, LoopExists
  <2>2. g[lo - 1] = s /\ \A j \in lo .. hi : g[j] = F[j][g[j - 1]]
    BY <2>1 DEF Loop
  <2>3. ASSUME NEW j \in lo .. hi PROVE g[j] = DecimalStep(g[j - 1], CharAt(t, j))
    <3>1. g[j - 1] \in Accumulators
      OBVIOUS
    <3>2. F[j][g[j - 1]] = DecimalStep(g[j - 1], CharAt(t, j))
      BY <3>1
    <3> QED BY <2>2, <3>2
  <2> QED BY <2>2, <2>3
<1>3. Rec(upTo)
  <2>1. upTo = CHOOSE g : Rec(g)
    OBVIOUS
  <2> HIDE DEF upTo, Rec
  <2> QED BY <2>1, <1>2
<1>4. Read(DecimalStep, s, t, lo, hi) = upTo[hi]
  BY DEF Read
<1> HIDE DEF upTo
<1>5. upTo[lo - 1] = s /\ \A j \in lo .. hi : upTo[j] = DecimalStep(upTo[j - 1], CharAt(t, j))
  BY <1>3
<1> DEFINE S == {j \in lo - 1 .. hi : upTo[j] \in Accumulators}
<1>6. \A j \in lo - 1 .. hi : j \in S
  <2>1. lo - 1 \in S
    BY <1>5
  <2>2. \A j \in lo .. hi : j - 1 \in S => j \in S
    BY <1>5, DecimalStepType
  <2> HIDE DEF S
  <2> QED BY <2>1, <2>2, RangeInduction
<1>7. upTo \in [lo - 1 .. hi -> Accumulators]
  BY <1>3, <1>6
<1>8. DecimalRun(upTo, s, t, lo, hi)
  BY <1>4, <1>5 DEF DecimalRun
<1> QED BY <1>7, <1>8

LEMMA HexStepType ==
  ASSUME NEW s \in Accumulators, NEW c
  PROVE  HexStep(s, c) \in Accumulators
<1>0. s.res \in Nat /\ s.div \in Nat /\ s.dec \in BOOLEAN /\ s.big \in BOOLEAN /\ s.bad \in BOOLEAN
  BY DEF Accumulators
<1> DEFINE add == IF c \in DOMAIN HexDigit THEN HexDigit[c] ELSE 0
           r == IF s.res <= (UInt64Max - add) \div 16 THEN s.res * 16 + add ELSE s.res
           a == s.bad \/ c \notin DOMAIN HexDigit
           b == s.big \/ ~(s.res <= (UInt64Max - add) \div 16)
<1>1. add \in Nat
  BY HexDigitFacts
<1>2. r \in Nat /\ a \in BOOLEAN /\ b \in BOOLEAN
  BY <1>0, <1>1
<1>3. c # "_" => HexStep(s, c) = [s EXCEPT !.bad = a, !.big = b, !.res = r]
  BY DEF HexStep
<1>4. c = "_" => HexStep(s, c) = s
  BY DEF HexStep
<1> HIDE DEF add, r, a, b
<1> QED BY <1>2, <1>3, <1>4 DEF Accumulators

HexRun(g, s, t, lo, hi) ==
  /\ g[lo - 1] = s /\ Read(HexStep, s, t, lo, hi) = g[hi]
  /\ \A j \in lo .. hi : g[j] = HexStep(g[j - 1], CharAt(t, j))

LEMMA HexRead ==
  ASSUME NEW s \in Accumulators, NEW t, NEW lo \in Nat, NEW hi \in Int, lo - 1 <= hi
  PROVE  \E g \in [lo - 1 .. hi -> Accumulators] : HexRun(g, s, t, lo, hi)
<1> DEFINE upTo[j \in lo - 1 .. hi] == IF j < lo THEN s ELSE HexStep(upTo[j - 1], CharAt(t, j))
           Rec(g) == g = [j \in lo - 1 .. hi |-> IF j < lo THEN s ELSE HexStep(g[j - 1], CharAt(t, j))]
           F == [j \in lo .. hi |-> [a \in Accumulators |-> HexStep(a, CharAt(t, j))]]
<1>1. F \in [lo .. hi -> [Accumulators -> Accumulators]]
  BY HexStepType
<1>2. \E g : Rec(g)
  <2>1. PICK g \in [lo - 1 .. hi -> Accumulators] : Loop(g, s, lo, hi, F)
    <3> HIDE DEF F
    <3> QED BY <1>1, LoopExists
  <2>2. g[lo - 1] = s /\ \A j \in lo .. hi : g[j] = F[j][g[j - 1]]
    BY <2>1 DEF Loop
  <2>3. ASSUME NEW j \in lo .. hi PROVE g[j] = HexStep(g[j - 1], CharAt(t, j))
    <3>1. g[j - 1] \in Accumulators
      OBVIOUS
    <3>2. F[j][g[j - 1]] = HexStep(g[j - 1], CharAt(t, j))
      BY <3>1
    <3> QED BY <2>2, <3>2
  <2> QED BY <2>2, <2>3
<1>3. Rec(upTo)
  <2>1. upTo = CHOOSE g : Rec(g)
    OBVIOUS
  <2> HIDE DEF upTo, Rec
  <2> QED BY <2>1, <1>2
<1>4. Read(HexStep, s, t, lo, hi) = upTo[hi]
  BY DEF Read
<1> HIDE DEF upTo
<1>5. upTo[lo - 1] = s /\ \A j \in lo .. hi : upTo[j] = HexStep(upTo[j - 1], CharAt(t, j))
  BY <1>3
<1> DEFINE S == {j \in lo - 1 .. hi : upTo[j] \in Accumulators}
<1>6. \A j \in lo - 1 .. hi : j \in S
  <2>1. lo - 1 \in S
    BY <1>5
  <2>2. \A j \in lo .. hi : j - 1 \in S => j \in S
    BY <1>5, HexStepType
  <2> HIDE DEF S
  <2> QED BY <2>1, <2>2, RangeInduction
<1>7. upTo \in [lo - 1 .. hi -> Accumulators]
  BY <1>3, <1>6
<1>8. HexRun(upTo, s, t, lo, hi)
  BY <1>4, <1>5 DEF HexRun
<1> QED BY <1>7, <1>8

LEMMA BinaryStepType ==
  ASSUME NEW s \in Accumulators, NEW c
  PROVE  BinaryStep(s, c) \in Accumulators
<1>0. s.res \in Nat /\ s.div \in Nat /\ s.dec \in BOOLEAN /\ s.big \in BOOLEAN /\ s.bad \in BOOLEAN
  BY DEF Accumulators
<1>1. CASE c \in {"0", "1"}
  <2> DEFINE r == (s.res * 2 + HexDigit[c]) % (UInt64Max + 1)
             b == s.big \/ s.res > (UInt64Max - HexDigit[c]) \div 2
  <2>1. HexDigit[c] \in Nat
    BY <1>1, HexDigitFacts
  <2>2. UInt64Max \in Nat
    BY WidthAssumption DEF UInt64Max
  <2>5. s.res * 2 + HexDigit[c] \in Nat
    BY <1>0, <2>1
  <2>3. r \in Nat /\ b \in BOOLEAN
    BY <1>0, <2>2, <2>5, ModNat
  <2>4. BinaryStep(s, c) = [s EXCEPT !.big = b, !.res = r]
    BY <1>1 DEF BinaryStep
  <2> HIDE DEF r, b
  <2> QED BY <2>3, <2>4 DEF Accumulators
<1>2. CASE c \notin {"0", "1"}
  BY <1>0, <1>2 DEF BinaryStep, Accumulators
<1> QED BY <1>1, <1>2

BinaryRun(g, s, t, lo, hi) ==
  /\ g[lo - 1] = s /\ Read(BinaryStep, s, t, lo, hi) = g[hi]
  /\ \A j \in lo .. hi : g[j] = BinaryStep(g[j - 1], CharAt(t, j))

LEMMA BinaryRead ==
  ASSUME NEW s \in Accumulators, NEW t, NEW lo \in Nat, NEW hi \in Int, lo - 1 <= hi
  PROVE  \E g \in [lo - 1 .. hi -> Accumulators] : BinaryRun(g, s, t, lo, hi)
<1> DEFINE upTo[j \in lo - 1 .. hi] == IF j < lo THEN s ELSE BinaryStep(upTo[j - 1], CharAt(t, j))
           Rec(g) == g = [j \in lo - 1 .. hi |-> IF j < lo THEN s ELSE BinaryStep(g[j - 1], CharAt(t, j))]
           F == [j \in lo .. hi |-> [a \in Accumulators |-> BinaryStep(a, CharAt(t, j))]]
<1>1. F \in [lo .. hi -> [Accumulators -> Accumulators]]
  BY BinaryStepType
<1>2. \E g : Rec(g)
  <2>1. PICK g \in [lo - 1 .. hi -> Accumulators] : Loop(g, s, lo, hi, F)
    <3> HIDE DEF F
    <3> QED BY <1>1, LoopExists
  <2>2. g[lo - 1] = s /\ \A j \in lo .. hi : g[j] = F[j][g[j - 1]]
    BY <2>1 DEF Loop
  <2>3. ASSUME NEW j \in lo .. hi PROVE g[j] = BinaryStep(g[j - 1], CharAt(t, j))
    <3>1. g[j - 1] \in Accumulators
      OBVIOUS
    <3>2. F[j][g[j - 1]] = BinaryStep(g[j - 1], CharAt(t, j))
      BY <3>1
    <3> QED BY <2>2, <3>2
  <2> QED BY <2>2, <2>3
<1>3. Rec(upTo)
  <2>1. upTo = CHOOSE g : Rec(g)
    OBVIOUS
  <2> HIDE DEF upTo, Rec
  <2> QED BY <2>1, <1>2
<1>4. Read(BinaryStep, s, t, lo, hi) = upTo[hi]
  BY DEF Read
<1> HIDE DEF upTo
<1>5. upTo[lo - 1] = s /\ \A j \in lo .. hi : upTo[j] = BinaryStep(upTo[j - 1], CharAt(t, j))
  BY <1>3
<1> DEFINE S == {j \in lo - 1 .. hi : upTo[j] \in Accumulators}
<1>6. \A j \in lo - 1 .. hi : j \in S
  <2>1. lo - 1 \in S
    BY <1>5
  <2>2. \A j \in lo .. hi : j - 1 \in S => j \in S
    BY <1>5, BinaryStepType
  <2> HIDE DEF S
  <2> QED BY <2>1, <2>2, RangeInduction
<1>7. upTo \in [lo - 1 .. hi -> Accumulators]
  BY <1>3, <1>6
<1>8. BinaryRun(upTo, s, t, lo, hi)
  BY <1>4, <1>5 DEF BinaryRun
<1> QED BY <1>7, <1>8

LEMMA StaticStepType ==
  ASSUME NEW s \in Accumulators, NEW c
  PROVE  StaticStep(s, c) \in Accumulators
<1>0. s.res \in Nat /\ s.div \in Nat /\ s.dec \in BOOLEAN /\ s.big \in BOOLEAN /\ s.bad \in BOOLEAN
  BY DEF Accumulators
<1>1. CASE c \in isDigit
  <2> DEFINE r == (s.res * 10 + HexDigit[c]) % (UInt64Max + 1)
             b == s.big \/ r > Int32Max
             d == s.div + 1
  <2>1. HexDigit[c] \in Nat
    BY <1>1, HexDigitFacts
  <2>2. UInt64Max \in Nat
    BY WidthAssumption DEF UInt64Max
  <2>5. s.res * 10 + HexDigit[c] \in Nat
    BY <1>0, <2>1
  <2>6. r \in Nat
    BY <2>2, <2>5, ModNat
  <2>3. r \in Nat /\ b \in BOOLEAN /\ d \in Nat
    BY <1>0, <2>6
  <2>4. StaticStep(s, c) = [s EXCEPT !.res = r, !.big = b, !.div = d]
    BY <1>1 DEF StaticStep
  <2> HIDE DEF r, b, d
  <2> QED BY <2>3, <2>4 DEF Accumulators
<1>2. CASE c \notin isDigit
  BY <1>0, <1>2 DEF StaticStep, Accumulators
<1> QED BY <1>1, <1>2

StaticRun(g, s, t, lo, hi) ==
  /\ g[lo - 1] = s /\ Read(StaticStep, s, t, lo, hi) = g[hi]
  /\ \A j \in lo .. hi : g[j] = StaticStep(g[j - 1], CharAt(t, j))

LEMMA StaticRead ==
  ASSUME NEW s \in Accumulators, NEW t, NEW lo \in Nat, NEW hi \in Int, lo - 1 <= hi
  PROVE  \E g \in [lo - 1 .. hi -> Accumulators] : StaticRun(g, s, t, lo, hi)
<1> DEFINE upTo[j \in lo - 1 .. hi] == IF j < lo THEN s ELSE StaticStep(upTo[j - 1], CharAt(t, j))
           Rec(g) == g = [j \in lo - 1 .. hi |-> IF j < lo THEN s ELSE StaticStep(g[j - 1], CharAt(t, j))]
           F == [j \in lo .. hi |-> [a \in Accumulators |-> StaticStep(a, CharAt(t, j))]]
<1>1. F \in [lo .. hi -> [Accumulators -> Accumulators]]
  BY StaticStepType
<1>2. \E g : Rec(g)
  <2>1. PICK g \in [lo - 1 .. hi -> Accumulators] : Loop(g, s, lo, hi, F)
    <3> HIDE DEF F
    <3> QED BY <1>1, LoopExists
  <2>2. g[lo - 1] = s /\ \A j \in lo .. hi : g[j] = F[j][g[j - 1]]
    BY <2>1 DEF Loop
  <2>3. ASSUME NEW j \in lo .. hi PROVE g[j] = StaticStep(g[j - 1], CharAt(t, j))
    <3>1. g[j - 1] \in Accumulators
      OBVIOUS
    <3>2. F[j][g[j - 1]] = StaticStep(g[j - 1], CharAt(t, j))
      BY <3>1
    <3> QED BY <2>2, <3>2
  <2> QED BY <2>2, <2>3
<1>3. Rec(upTo)
  <2>1. upTo = CHOOSE g : Rec(g)
    OBVIOUS
  <2> HIDE DEF upTo, Rec
  <2> QED BY <2>1, <1>2
<1>4. Read(StaticStep, s, t, lo, hi) = upTo[hi]
  BY DEF Read
<1> HIDE DEF upTo
<1>5. upTo[lo - 1] = s /\ \A j \in lo .. hi : upTo[j] = StaticStep(upTo[j - 1], CharAt(t, j))
  BY <1>3
<1> DEFINE S == {j \in lo - 1 .. hi : upTo[j] \in Accumulators}
<1>6. \A j \in lo - 1 .. hi : j \in S
  <2>1. lo - 1 \in S
    BY <1>5
  <2>2. \A j \in lo .. hi : j - 1 \in S => j \in S
    BY <1>5, StaticStepType
  <2> HIDE DEF S
  <2> QED BY <2>1, <2>2, RangeInduction
<1>7. upTo \in [lo - 1 .. hi -> Accumulators]
  BY <1>3, <1>6
<1>8. StaticRun(upTo, s, t, lo, hi)
  BY <1>4, <1>5 DEF StaticRun
<1> QED BY <1>7, <1>8

Digit(base, v, c) == IF c \in DigitsOf(base) THEN v * base + HexDigit[c] ELSE v

LEMMA DigitType ==
  ASSUME NEW base \in {2, 10, 16}, NEW v \in Nat, NEW c
  PROVE  Digit(base, v, c) \in Nat
<1>1. c \in DigitsOf(base) => HexDigit[c] \in Nat
  BY HexDigitFacts DEF DigitsOf
<1> QED BY <1>1 DEF Digit

ValueRun(g, base, t, lo, hi) ==
  /\ g[lo - 1] = 0 /\ DigitsValue(t, lo, hi, base) = g[hi]
  /\ \A j \in lo .. hi : g[j] = Digit(base, g[j - 1], CharAt(t, j))

LEMMA ValueRead ==
  ASSUME NEW base \in {2, 10, 16}, NEW t, NEW lo \in Nat, NEW hi \in Int, lo - 1 <= hi
  PROVE  \E g \in [lo - 1 .. hi -> Nat] : ValueRun(g, base, t, lo, hi)
<1> DEFINE upTo[j \in lo - 1 .. hi] == IF j < lo THEN 0 ELSE Digit(base, upTo[j - 1], CharAt(t, j))
           Rec(g) == g = [j \in lo - 1 .. hi |-> IF j < lo THEN 0 ELSE Digit(base, g[j - 1], CharAt(t, j))]
           F == [j \in lo .. hi |-> [a \in Nat |-> Digit(base, a, CharAt(t, j))]]
<1>1. F \in [lo .. hi -> [Nat -> Nat]]
  BY DigitType
<1>2. \E g : Rec(g)
  <2>1. PICK g \in [lo - 1 .. hi -> Nat] : Loop(g, 0, lo, hi, F)
    <3> HIDE DEF F
    <3> QED BY <1>1, LoopExists
  <2>2. g[lo - 1] = 0 /\ \A j \in lo .. hi : g[j] = F[j][g[j - 1]]
    BY <2>1 DEF Loop
  <2>3. ASSUME NEW j \in lo .. hi PROVE g[j] = Digit(base, g[j - 1], CharAt(t, j))
    <3>1. g[j - 1] \in Nat
      OBVIOUS
    <3>2. F[j][g[j - 1]] = Digit(base, g[j - 1], CharAt(t, j))
      BY <3>1
    <3> QED BY <2>2, <3>2
  <2> QED BY <2>2, <2>3
<1>3. Rec(upTo)
  <2>1. upTo = CHOOSE g : Rec(g)
    OBVIOUS
  <2> HIDE DEF upTo, Rec
  <2> QED BY <2>1, <1>2
<1>4. DigitsValue(t, lo, hi, base) = upTo[hi]
  BY DEF DigitsValue, Read, Digit
<1> HIDE DEF upTo
<1>5. upTo[lo - 1] = 0 /\ \A j \in lo .. hi : upTo[j] = Digit(base, upTo[j - 1], CharAt(t, j))
  BY <1>3
<1> DEFINE S == {j \in lo - 1 .. hi : upTo[j] \in Nat}
<1>6. \A j \in lo - 1 .. hi : j \in S
  <2>1. lo - 1 \in S
    BY <1>5
  <2>2. \A j \in lo .. hi : j - 1 \in S => j \in S
    BY <1>5, DigitType
  <2> HIDE DEF S
  <2> QED BY <2>1, <2>2, RangeInduction
<1>7. upTo \in [lo - 1 .. hi -> Nat]
  BY <1>3, <1>6
<1>8. ValueRun(upTo, base, t, lo, hi)
  BY <1>4, <1>5 DEF ValueRun
<1> QED BY <1>7, <1>8

Ten(v, c) == IF c \in isDigit THEN v * 10 ELSE v

LEMMA TenType ==
  ASSUME NEW v \in Nat, NEW c
  PROVE  Ten(v, c) \in Nat
BY DEF Ten

TenfoldRun(g, t, lo, hi) ==
  /\ g[lo - 1] = 1 /\ Tenfold(t, lo, hi) = g[hi]
  /\ \A j \in lo .. hi : g[j] = Ten(g[j - 1], CharAt(t, j))

LEMMA TenfoldRead ==
  ASSUME NEW t, NEW lo \in Nat, NEW hi \in Int, lo - 1 <= hi
  PROVE  \E g \in [lo - 1 .. hi -> Nat] : TenfoldRun(g, t, lo, hi)
<1> DEFINE upTo[j \in lo - 1 .. hi] == IF j < lo THEN 1 ELSE Ten(upTo[j - 1], CharAt(t, j))
           Rec(g) == g = [j \in lo - 1 .. hi |-> IF j < lo THEN 1 ELSE Ten(g[j - 1], CharAt(t, j))]
           F == [j \in lo .. hi |-> [a \in Nat |-> Ten(a, CharAt(t, j))]]
<1>1. F \in [lo .. hi -> [Nat -> Nat]]
  BY TenType
<1>2. \E g : Rec(g)
  <2>1. PICK g \in [lo - 1 .. hi -> Nat] : Loop(g, 1, lo, hi, F)
    <3> HIDE DEF F
    <3> QED BY <1>1, LoopExists
  <2>2. g[lo - 1] = 1 /\ \A j \in lo .. hi : g[j] = F[j][g[j - 1]]
    BY <2>1 DEF Loop
  <2>3. ASSUME NEW j \in lo .. hi PROVE g[j] = Ten(g[j - 1], CharAt(t, j))
    <3>1. g[j - 1] \in Nat
      OBVIOUS
    <3>2. F[j][g[j - 1]] = Ten(g[j - 1], CharAt(t, j))
      BY <3>1
    <3> QED BY <2>2, <3>2
  <2> QED BY <2>2, <2>3
<1>3. Rec(upTo)
  <2>1. upTo = CHOOSE g : Rec(g)
    OBVIOUS
  <2> HIDE DEF upTo, Rec
  <2> QED BY <2>1, <1>2
<1>4. Tenfold(t, lo, hi) = upTo[hi]
  BY DEF Tenfold, Read, Ten
<1> HIDE DEF upTo
<1>5. upTo[lo - 1] = 1 /\ \A j \in lo .. hi : upTo[j] = Ten(upTo[j - 1], CharAt(t, j))
  BY <1>3
<1> DEFINE S == {j \in lo - 1 .. hi : upTo[j] \in Nat}
<1>6. \A j \in lo - 1 .. hi : j \in S
  <2>1. lo - 1 \in S
    BY <1>5
  <2>2. \A j \in lo .. hi : j - 1 \in S => j \in S
    BY <1>5, TenType
  <2> HIDE DEF S
  <2> QED BY <2>1, <2>2, RangeInduction
<1>7. upTo \in [lo - 1 .. hi -> Nat]
  BY <1>3, <1>6
<1>8. TenfoldRun(upTo, t, lo, hi)
  BY <1>4, <1>5 DEF TenfoldRun
<1> QED BY <1>7, <1>8

\* An accumulator that was told no wrong character: what it says of the value v of the digits it was
\* told, and of the greatest value that fits.
Worth(a, v, max) == IF a.big THEN v > max ELSE a.res = v /\ v <= max

\* The widths.
LEMMA WidthFacts == UInt64Max \in Nat /\ UInt32Max \in Nat /\ Int32Max \in Nat /\ Int64Max \in Nat
                    /\ UInt64Max = 2 * Int64Max + 1 /\ UInt32Max = 2 * Int32Max + 1
                    /\ 10 * Int32Max + 9 <= UInt64Max /\ UInt32Max < Int64Max
BY WidthAssumption DEF UInt64Max, UInt32Max

\* The accumulator at the start.
LEMMA NoNumberFacts ==
  /\ NoNumber \in Accumulators /\ NoNumber.res = 0 /\ NoNumber.div = 1
  /\ ~NoNumber.dec /\ ~NoNumber.big /\ ~NoNumber.bad
BY DEF NoNumber, Accumulators

\* A wrong character is not forgotten.
LEMMA StepsBad ==
  ASSUME NEW a \in Accumulators, NEW c, a.bad
  PROVE  DecimalStep(a, c).bad /\ HexStep(a, c).bad /\ BinaryStep(a, c).bad /\ StaticStep(a, c).bad
<1>1. DecimalStep(a, c).bad
  BY DEF DecimalStep, Accumulators
<1>2. HexStep(a, c).bad
  BY DEF HexStep, Accumulators
<1>3. BinaryStep(a, c).bad
  BY DEF BinaryStep, Accumulators
<1>4. StaticStep(a, c).bad
  BY DEF StaticStep, Accumulators
<1> QED BY <1>1, <1>2, <1>3, <1>4

\* One more character keeps the accumulator worth its digits; a decimal number that became too big
\* need not be worth more than fits, once it has a decimal point.
LEMMA DecimalWorth ==
  ASSUME NEW a \in Accumulators, NEW v \in Nat, NEW c, a.dec \/ Worth(a, v, UInt64Max), a.big \/ Worth(a, v, UInt64Max),
         ~DecimalStep(a, c).bad
  PROVE  LET b == DecimalStep(a, c) IN
         /\ ~a.bad
         /\ b.dec \/ Worth(b, Digit(10, v, c), UInt64Max)
         /\ b.big \/ Worth(b, Digit(10, v, c), UInt64Max)
<1> DEFINE b == DecimalStep(a, c)
<1>0. a.res \in Nat /\ a.div \in Nat /\ a.dec \in BOOLEAN /\ a.big \in BOOLEAN /\ a.bad \in BOOLEAN
  BY DEF Accumulators
<1>1. CASE c \in isDigit
  <2> DEFINE d == HexDigit[c]
             w == v * 10 + d
             fits == a.res <= (UInt64Max - d) \div 10
             room == a.div <= UInt64Max \div 10
  <2>0. d \in Nat /\ UInt64Max \in Nat
    BY <1>1, HexDigitFacts, WidthFacts
  <2>1. d \in Nat /\ UInt64Max \in Nat /\ w \in Nat
    BY <2>0
  <2>2. Digit(10, v, c) = w
    BY <1>1 DEF Digit, DigitsOf
  <2>3. /\ b.res = (IF fits THEN a.res * 10 + d ELSE a.res) /\ (b.dec <=> a.dec) /\ (b.bad <=> a.bad)
        /\ (b.big <=> a.big \/ ~fits \/ (a.dec /\ ~room))
    <3> DEFINE r == IF fits THEN a.res * 10 + d ELSE a.res
               q == IF fits /\ a.dec /\ room THEN a.div * 10 ELSE a.div
               g == a.big \/ ~fits \/ (a.dec /\ ~room)
    <3>1. b = [a EXCEPT !.res = r, !.div = q, !.big = g]
      BY <1>1 DEF DecimalStep
    <3>2. g \in BOOLEAN
      BY <1>0
    <3> HIDE DEF r, q, g, b
    <3>3. b.res = r /\ b.dec = a.dec /\ b.bad = a.bad /\ b.big = g
      BY <3>1 DEF Accumulators
    <3> HIDE DEF fits, room
    <3> QED BY <3>3 DEF r, g
  <2>4. fits <=> a.res * 10 + d <= UInt64Max
    BY <1>0, <2>1, Fits10
  <2> HIDE DEF fits, room, d, b
  <2>5. CASE a.big
    <3>1. a.dec \/ v > UInt64Max
      BY <2>5 DEF Worth
    <3> QED BY <3>1, <2>1, <2>2, <2>3, <2>5 DEF Worth, b
  <2>6. CASE ~a.big
    <3>1. a.res = v /\ v <= UInt64Max
      BY <2>6 DEF Worth
    <3> QED BY <3>1, <2>1, <2>2, <2>3, <2>4, <2>6 DEF Worth, b
  <2> QED BY <2>5, <2>6
<1>2. CASE c \notin isDigit
  <2>1. Digit(10, v, c) = v
    BY <1>2 DEF Digit, DigitsOf
  <2>2. ~a.bad /\ b.res = a.res /\ (b.big <=> a.big) /\ (a.dec => b.dec)
    BY <1>0, <1>2 DEF DecimalStep, Accumulators
  <2> HIDE DEF b
  <2> QED BY <2>1, <2>2 DEF Worth, b
<1> QED BY <1>1, <1>2

\* The same for the other bases, which test each digit in a way of their own.
LEMMA HexWorth ==
  ASSUME NEW a \in Accumulators, NEW v \in Nat, NEW c, Worth(a, v, UInt64Max), ~HexStep(a, c).bad
  PROVE  ~a.bad /\ Worth(HexStep(a, c), Digit(16, v, c), UInt64Max)
<1> DEFINE b == HexStep(a, c)
<1>0. a.res \in Nat /\ a.big \in BOOLEAN /\ a.bad \in BOOLEAN
  BY DEF Accumulators
<1>1. CASE c \in DOMAIN HexDigit
  <2> DEFINE d == HexDigit[c]
             fits == a.res <= (UInt64Max - d) \div 16
  <2>0. c # "_"
    BY <1>1, HexDigitFacts
  <2>1. d \in Nat /\ UInt64Max \in Nat
    BY <1>1, HexDigitFacts, WidthFacts
  <2>2. Digit(16, v, c) = v * 16 + d
    BY <1>1 DEF Digit, DigitsOf
  <2>3. /\ b.res = (IF fits THEN a.res * 16 + d ELSE a.res) /\ (b.bad <=> a.bad)
        /\ (b.big <=> a.big \/ ~fits)
    BY <1>0, <1>1, <2>0 DEF HexStep, Accumulators
  <2>4. fits <=> a.res * 16 + d <= UInt64Max
    BY <1>0, <2>1, Fits16
  <2> HIDE DEF fits, d, b
  <2>5. ~b.bad
    BY DEF b
  <2>6. Worth(b, v * 16 + d, UInt64Max)
    <3>1. CASE a.big
      <4>1. v > UInt64Max
        BY <3>1 DEF Worth
      <4>2. v * 16 + d > UInt64Max
        BY <4>1, <2>1, Grows16
      <4> QED BY <4>2, <2>3, <3>1 DEF Worth
    <3>2. CASE ~a.big
      <4>1. a.res = v
        BY <3>2 DEF Worth
      <4>2. v * 16 + d \in Nat
        BY <2>1
      <4>3. fits => b.res = v * 16 + d /\ v * 16 + d <= UInt64Max /\ ~b.big
        BY <4>1, <2>3, <2>4, <3>2
      <4>4. ~fits => v * 16 + d > UInt64Max /\ b.big
        BY <4>1, <4>2, <2>1, <2>3, <2>4
      <4> QED BY <4>3, <4>4 DEF Worth
    <3> QED BY <3>1, <3>2
  <2> QED BY <2>2, <2>3, <2>5, <2>6 DEF b
<1>2. CASE c \notin DOMAIN HexDigit
  <2>1. Digit(16, v, c) = v
    BY <1>2 DEF Digit, DigitsOf
  <2>2. c = "_" /\ b = a
    BY <1>0, <1>2 DEF HexStep, Accumulators
  <2> HIDE DEF b
  <2> QED BY <2>1, <2>2 DEF b
<1> QED BY <1>1, <1>2

LEMMA BinaryWorth ==
  ASSUME NEW a \in Accumulators, NEW v \in Nat, NEW c, Worth(a, v, UInt64Max), ~BinaryStep(a, c).bad
  PROVE  ~a.bad /\ Worth(BinaryStep(a, c), Digit(2, v, c), UInt64Max)
<1> DEFINE b == BinaryStep(a, c)
<1>0. a.res \in Nat /\ a.big \in BOOLEAN /\ a.bad \in BOOLEAN
  BY DEF Accumulators
<1>1. CASE c \in {"0", "1"}
  <2> DEFINE d == HexDigit[c]
             fits == ~(a.res > (UInt64Max - d) \div 2)
             w == a.res * 2 + d
  <2>1. d \in Nat /\ UInt64Max \in Nat /\ c \in isDigit
    BY <1>1, HexDigitFacts, WidthFacts
  <2>2. Digit(2, v, c) = v * 2 + d
    BY <2>1 DEF Digit, DigitsOf
  <2>3. /\ b.res = w % (UInt64Max + 1) /\ (b.bad <=> a.bad)
        /\ (b.big <=> a.big \/ ~fits)
    BY <1>0, <1>1 DEF BinaryStep, Accumulators
  <2>4. fits <=> w <= UInt64Max
    BY <1>0, <2>1, Fits2
  <2>5. w \in Nat
    BY <1>0, <2>1
  <2>6. w <= UInt64Max => w % (UInt64Max + 1) = w
    BY <2>1, <2>5, ModSmall
  <2> HIDE DEF fits, d, b
  <2>7. CASE a.big
    <3>1. v > UInt64Max
      BY <2>7 DEF Worth
    <3> QED BY <3>1, <2>1, <2>2, <2>3, <2>7 DEF Worth, b
  <2>8. CASE ~a.big
    <3>1. a.res = v /\ w = v * 2 + d
      BY <2>8 DEF Worth
    <3> HIDE DEF w
    <3> QED BY <3>1, <1>0, <2>1, <2>2, <2>3, <2>4, <2>5, <2>6, <2>8 DEF Worth, b
  <2> QED BY <2>7, <2>8
<1>2. CASE c \notin {"0", "1"}
  <2>1. c = "_" /\ b = a
    BY <1>0, <1>2 DEF BinaryStep, Accumulators
  <2>2. Digit(2, v, c) = v
    BY <2>1, HexDigitFacts DEF Digit, DigitsOf
  <2> HIDE DEF b
  <2> QED BY <2>1, <2>2 DEF b
<1> QED BY <1>1, <1>2

LEMMA StaticWorth ==
  ASSUME NEW a \in Accumulators, NEW v \in Nat, NEW c, Worth(a, v, Int32Max), ~StaticStep(a, c).bad
  PROVE  ~a.bad /\ Worth(StaticStep(a, c), Digit(10, v, c), Int32Max)
<1> DEFINE b == StaticStep(a, c)
           d == HexDigit[c]
           w == a.res * 10 + d
           r == w % (UInt64Max + 1)
<1>0. a.res \in Nat /\ a.big \in BOOLEAN /\ a.bad \in BOOLEAN
  BY DEF Accumulators
<1>1. c \in isDigit
  BY <1>0 DEF StaticStep, Accumulators
<1>2. d \in Nat /\ d <= 9 /\ Digit(10, v, c) = v * 10 + d
  BY <1>1, HexDigitFacts DEF Digit, DigitsOf
<1>3. b.res = r /\ (b.bad <=> a.bad) /\ (b.big <=> a.big \/ r > Int32Max)
  BY <1>0, <1>1 DEF StaticStep, Accumulators
<1>4. w \in Nat /\ UInt64Max \in Nat /\ Int32Max \in Nat /\ 10 * Int32Max + 9 <= UInt64Max
  BY <1>0, <1>2, WidthFacts
<1>5. w <= UInt64Max => r = w
  BY <1>4, ModSmall
<1> HIDE DEF b, d, r
<1>6. CASE a.big
  <2>1. v > Int32Max
    BY <1>6 DEF Worth
  <2> QED BY <2>1, <1>2, <1>3, <1>4, <1>6 DEF Worth, b
<1>7. CASE ~a.big
  <2>1. a.res = v /\ v <= Int32Max /\ w = v * 10 + d
    BY <1>7 DEF Worth
  <2> HIDE DEF w
  <2>2. w <= UInt64Max
    BY <2>1, <1>2, <1>4
  <2>3. b.res = w /\ (b.big <=> w > Int32Max)
    BY <2>2, <1>3, <1>5, <1>7
  <2> QED BY <2>1, <2>3, <1>2, <1>3, <1>4 DEF Worth, b
<1> QED BY <1>6, <1>7

\* A character that is no digit adds nothing at the end ...
LEMMA ValueEnds ==
  ASSUME NEW t, NEW lo \in Nat, NEW hi \in Int, lo <= hi, NEW base \in {2, 10, 16}, CharAt(t, hi) \notin DigitsOf(base)
  PROVE  DigitsValue(t, lo, hi, base) = DigitsValue(t, lo, hi - 1, base)
<1> DEFINE m == hi - 1
<1>c. lo - 1 <= hi /\ m \in Int /\ lo - 1 <= m /\ m + 1 = hi
  OBVIOUS
<1>a. PICK w \in [lo - 1 .. hi -> Nat] : ValueRun(w, base, t, lo, hi)
  BY <1>c, ValueRead
<1> HIDE DEF m
<1>1. /\ w[lo - 1] = 0 /\ DigitsValue(t, lo, hi, base) = w[hi]
      /\ \A j \in lo .. hi : w[j] = Digit(base, w[j - 1], CharAt(t, j))
  BY <1>a DEF ValueRun
<1>b. PICK u \in [lo - 1 .. m -> Nat] : ValueRun(u, base, t, lo, m)
  BY <1>c, ValueRead
<1>2. /\ u[lo - 1] = 0 /\ DigitsValue(t, lo, m, base) = u[m]
      /\ \A j \in lo .. m : u[j] = Digit(base, u[j - 1], CharAt(t, j))
  BY <1>b DEF ValueRun
<1> DEFINE S == {j \in lo - 1 .. m : w[j] = u[j]}
<1>3. lo - 1 \in S
  BY <1>c, <1>1, <1>2
<1>4. ASSUME NEW j \in lo .. m, j - 1 \in S PROVE j \in S
  <2>1. j \in lo .. hi /\ w[j - 1] = u[j - 1]
    BY <1>c, <1>4
  <2> QED BY <2>1, <1>1, <1>2
<1> HIDE DEF S
<1>5. \A j \in lo - 1 .. m : j \in S
  BY <1>c, <1>3, <1>4, RangeInduction
<1>6. m \in S /\ hi \in lo .. hi /\ m = hi - 1
  BY <1>c, <1>5
<1>7. w[hi] = w[m]
  BY <1>1, <1>6 DEF Digit
<1> QED BY <1>1, <1>2, <1>6, <1>7 DEF S, m

\* ... or at the beginning.
LEMMA ValueBegins ==
  ASSUME NEW t, NEW lo \in Nat, NEW hi \in Int, lo <= hi, NEW base \in {2, 10, 16}, CharAt(t, lo) \notin DigitsOf(base)
  PROVE  DigitsValue(t, lo, hi, base) = DigitsValue(t, lo + 1, hi, base)
<1> DEFINE m == hi - 1
<1>c. lo - 1 <= hi /\ m \in Int /\ lo - 1 <= m /\ m + 1 = hi
  OBVIOUS
<1>a. PICK w \in [lo - 1 .. hi -> Nat] : ValueRun(w, base, t, lo, hi)
  BY <1>c, ValueRead
<1> HIDE DEF m
<1>1. /\ w[lo - 1] = 0 /\ DigitsValue(t, lo, hi, base) = w[hi]
      /\ \A j \in lo .. hi : w[j] = Digit(base, w[j - 1], CharAt(t, j))
  BY <1>a DEF ValueRun
<1> DEFINE l == lo + 1
<1>0. l \in Nat /\ l - 1 = lo /\ l - 1 <= hi
  OBVIOUS
<1> HIDE DEF l
<1>b. PICK u \in [l - 1 .. hi -> Nat] : ValueRun(u, base, t, l, hi)
  BY <1>0, ValueRead
<1>2. /\ u[lo] = 0 /\ DigitsValue(t, l, hi, base) = u[hi]
      /\ \A j \in l .. hi : u[j] = Digit(base, u[j - 1], CharAt(t, j))
  BY <1>0, <1>b DEF ValueRun
<1> DEFINE S == {j \in lo .. hi : w[j] = u[j]}
<1>3. lo \in S
  BY <1>1, <1>2 DEF Digit
<1>4. ASSUME NEW j \in l .. hi, j - 1 \in S PROVE j \in S
  <2>1. j \in lo .. hi /\ w[j - 1] = u[j - 1]
    BY <1>0, <1>4
  <2> QED BY <2>1, <1>1, <1>2
<1> HIDE DEF S
<1>5. \A j \in l - 1 .. hi : j \in S
  BY <1>0, <1>3, <1>4, RangeInduction
<1>6. hi \in S
  BY <1>0, <1>5
<1> QED BY <1>1, <1>2, <1>6 DEF S, l

\* After a loop without a wrong character the accumulator has the worth of the digits.
LEMMA HexValue ==
  ASSUME NEW t, NEW lo \in Nat, NEW hi \in Int, lo - 1 <= hi, NEW s \in Accumulators, ~s.big, s.res = 0
  PROVE  LET r == Read(HexStep, s, t, lo, hi)
         IN  r \in Accumulators /\ (~r.bad => Worth(r, DigitsValue(t, lo, hi, 16), UInt64Max))
<1> DEFINE r == Read(HexStep, s, t, lo, hi)
<1>a. PICK g \in [lo - 1 .. hi -> Accumulators] : HexRun(g, s, t, lo, hi)
  BY HexRead
<1>1. g[lo - 1] = s /\ r = g[hi] /\ \A j \in lo .. hi : g[j] = HexStep(g[j - 1], CharAt(t, j))
  BY <1>a DEF HexRun
<1> HIDE DEF r
<1>b. PICK w \in [lo - 1 .. hi -> Nat] : ValueRun(w, 16, t, lo, hi)
  BY ValueRead
<1>2. /\ w[lo - 1] = 0 /\ DigitsValue(t, lo, hi, 16) = w[hi]
      /\ \A j \in lo .. hi : w[j] = Digit(16, w[j - 1], CharAt(t, j))
  BY <1>b DEF ValueRun
<1> DEFINE S == {j \in lo - 1 .. hi : ~g[j].bad => Worth(g[j], w[j], UInt64Max)}
<1>3. lo - 1 \in S
  BY <1>1, <1>2, WidthFacts DEF Worth
<1>4. ASSUME NEW j \in lo .. hi, j - 1 \in S PROVE j \in S
  <2> SUFFICES ASSUME ~g[j].bad PROVE Worth(g[j], w[j], UInt64Max)
    OBVIOUS
  <2>1. g[j - 1] \in Accumulators /\ w[j - 1] \in Nat /\ (~g[j - 1].bad => Worth(g[j - 1], w[j - 1], UInt64Max))
    BY <1>4
  <2>2. g[j] = HexStep(g[j - 1], CharAt(t, j)) /\ w[j] = Digit(16, w[j - 1], CharAt(t, j))
    BY <1>1, <1>2
  <2>3. ~HexStep(g[j - 1], CharAt(t, j)).bad
    BY <2>2
  <2> HIDE DEF S
  <2>4. ~g[j - 1].bad
    BY <2>1, <2>3, StepsBad
  <2> QED BY <2>1, <2>2, <2>3, <2>4, HexWorth
<1> HIDE DEF S
<1>5. \A j \in lo - 1 .. hi : j \in S
  BY <1>3, <1>4, RangeInduction
<1>6. hi \in lo - 1 .. hi
  OBVIOUS
<1>7. hi \in S
  BY <1>5, <1>6
<1> QED BY <1>1, <1>2, <1>6, <1>7 DEF S, r

LEMMA BinaryValue ==
  ASSUME NEW t, NEW lo \in Nat, NEW hi \in Int, lo - 1 <= hi, NEW s \in Accumulators, ~s.big, s.res = 0
  PROVE  LET r == Read(BinaryStep, s, t, lo, hi)
         IN  r \in Accumulators /\ (~r.bad => Worth(r, DigitsValue(t, lo, hi, 2), UInt64Max))
<1> DEFINE r == Read(BinaryStep, s, t, lo, hi)
<1>a. PICK g \in [lo - 1 .. hi -> Accumulators] : BinaryRun(g, s, t, lo, hi)
  BY BinaryRead
<1>1. g[lo - 1] = s /\ r = g[hi] /\ \A j \in lo .. hi : g[j] = BinaryStep(g[j - 1], CharAt(t, j))
  BY <1>a DEF BinaryRun
<1> HIDE DEF r
<1>b. PICK w \in [lo - 1 .. hi -> Nat] : ValueRun(w, 2, t, lo, hi)
  BY ValueRead
<1>2. /\ w[lo - 1] = 0 /\ DigitsValue(t, lo, hi, 2) = w[hi]
      /\ \A j \in lo .. hi : w[j] = Digit(2, w[j - 1], CharAt(t, j))
  BY <1>b DEF ValueRun
<1> DEFINE S == {j \in lo - 1 .. hi : ~g[j].bad => Worth(g[j], w[j], UInt64Max)}
<1>3. lo - 1 \in S
  BY <1>1, <1>2, WidthFacts DEF Worth
<1>4. ASSUME NEW j \in lo .. hi, j - 1 \in S PROVE j \in S
  <2> SUFFICES ASSUME ~g[j].bad PROVE Worth(g[j], w[j], UInt64Max)
    OBVIOUS
  <2>1. g[j - 1] \in Accumulators /\ w[j - 1] \in Nat /\ (~g[j - 1].bad => Worth(g[j - 1], w[j - 1], UInt64Max))
    BY <1>4
  <2>2. g[j] = BinaryStep(g[j - 1], CharAt(t, j)) /\ w[j] = Digit(2, w[j - 1], CharAt(t, j))
    BY <1>1, <1>2
  <2>3. ~BinaryStep(g[j - 1], CharAt(t, j)).bad
    BY <2>2
  <2> HIDE DEF S
  <2>4. ~g[j - 1].bad
    BY <2>1, <2>3, StepsBad
  <2> QED BY <2>1, <2>2, <2>3, <2>4, BinaryWorth
<1> HIDE DEF S
<1>5. \A j \in lo - 1 .. hi : j \in S
  BY <1>3, <1>4, RangeInduction
<1>6. hi \in lo - 1 .. hi
  OBVIOUS
<1>7. hi \in S
  BY <1>5, <1>6
<1> QED BY <1>1, <1>2, <1>6, <1>7 DEF S, r

LEMMA StaticValue ==
  ASSUME NEW t, NEW lo \in Nat, NEW hi \in Int, lo - 1 <= hi, NEW s \in Accumulators, ~s.big, s.res = 0
  PROVE  LET r == Read(StaticStep, s, t, lo, hi)
         IN  r \in Accumulators /\ (~r.bad => Worth(r, DigitsValue(t, lo, hi, 10), Int32Max))
<1> DEFINE r == Read(StaticStep, s, t, lo, hi)
<1>a. PICK g \in [lo - 1 .. hi -> Accumulators] : StaticRun(g, s, t, lo, hi)
  BY StaticRead
<1>1. g[lo - 1] = s /\ r = g[hi] /\ \A j \in lo .. hi : g[j] = StaticStep(g[j - 1], CharAt(t, j))
  BY <1>a DEF StaticRun
<1> HIDE DEF r
<1>b. PICK w \in [lo - 1 .. hi -> Nat] : ValueRun(w, 10, t, lo, hi)
  BY ValueRead
<1>2. /\ w[lo - 1] = 0 /\ DigitsValue(t, lo, hi, 10) = w[hi]
      /\ \A j \in lo .. hi : w[j] = Digit(10, w[j - 1], CharAt(t, j))
  BY <1>b DEF ValueRun
<1> DEFINE S == {j \in lo - 1 .. hi : ~g[j].bad => Worth(g[j], w[j], Int32Max)}
<1>3. lo - 1 \in S
  BY <1>1, <1>2, WidthFacts DEF Worth
<1>4. ASSUME NEW j \in lo .. hi, j - 1 \in S PROVE j \in S
  <2> SUFFICES ASSUME ~g[j].bad PROVE Worth(g[j], w[j], Int32Max)
    OBVIOUS
  <2>1. g[j - 1] \in Accumulators /\ w[j - 1] \in Nat /\ (~g[j - 1].bad => Worth(g[j - 1], w[j - 1], Int32Max))
    BY <1>4
  <2>2. g[j] = StaticStep(g[j - 1], CharAt(t, j)) /\ w[j] = Digit(10, w[j - 1], CharAt(t, j))
    BY <1>1, <1>2
  <2>3. ~StaticStep(g[j - 1], CharAt(t, j)).bad
    BY <2>2
  <2> HIDE DEF S
  <2>4. ~g[j - 1].bad
    BY <2>1, <2>3, StepsBad
  <2> QED BY <2>1, <2>2, <2>3, <2>4, StaticWorth
<1> HIDE DEF S
<1>5. \A j \in lo - 1 .. hi : j \in S
  BY <1>3, <1>4, RangeInduction
<1>6. hi \in lo - 1 .. hi
  OBVIOUS
<1>7. hi \in S
  BY <1>5, <1>6
<1> QED BY <1>1, <1>2, <1>6, <1>7 DEF S, r

\* A decimal number can also be too big for its divider, once it has a decimal point.
Valued(a, v) == (a.dec \/ Worth(a, v, UInt64Max)) /\ (a.big \/ Worth(a, v, UInt64Max))

LEMMA DecimalValue ==
  ASSUME NEW t, NEW lo \in Nat, NEW hi \in Int, lo - 1 <= hi, NEW s \in Accumulators, ~s.big, s.res = 0
  PROVE  LET r == Read(DecimalStep, s, t, lo, hi)
         IN  r \in Accumulators /\ (~r.bad => Valued(r, DigitsValue(t, lo, hi, 10)))
<1> DEFINE r == Read(DecimalStep, s, t, lo, hi)
<1>a. PICK g \in [lo - 1 .. hi -> Accumulators] : DecimalRun(g, s, t, lo, hi)
  BY DecimalRead
<1>1. g[lo - 1] = s /\ r = g[hi] /\ \A j \in lo .. hi : g[j] = DecimalStep(g[j - 1], CharAt(t, j))
  BY <1>a DEF DecimalRun
<1> HIDE DEF r
<1>b. PICK w \in [lo - 1 .. hi -> Nat] : ValueRun(w, 10, t, lo, hi)
  BY ValueRead
<1>2. /\ w[lo - 1] = 0 /\ DigitsValue(t, lo, hi, 10) = w[hi]
      /\ \A j \in lo .. hi : w[j] = Digit(10, w[j - 1], CharAt(t, j))
  BY <1>b DEF ValueRun
<1> DEFINE S == {j \in lo - 1 .. hi : ~g[j].bad => Valued(g[j], w[j])}
<1>3. lo - 1 \in S
  BY <1>1, <1>2, WidthFacts DEF Worth, Valued
<1>4. ASSUME NEW j \in lo .. hi, j - 1 \in S PROVE j \in S
  <2> SUFFICES ASSUME ~g[j].bad PROVE Valued(g[j], w[j])
    OBVIOUS
  <2>1. g[j - 1] \in Accumulators /\ w[j - 1] \in Nat /\ (~g[j - 1].bad => Valued(g[j - 1], w[j - 1]))
    BY <1>4
  <2>2. g[j] = DecimalStep(g[j - 1], CharAt(t, j)) /\ w[j] = Digit(10, w[j - 1], CharAt(t, j))
    BY <1>1, <1>2
  <2>3. ~DecimalStep(g[j - 1], CharAt(t, j)).bad
    BY <2>2
  <2> HIDE DEF S
  <2>4. ~g[j - 1].bad
    BY <2>1, <2>3, StepsBad
  <2> QED BY <2>1, <2>2, <2>3, <2>4, DecimalWorth DEF Valued
<1> HIDE DEF S
<1>5. \A j \in lo - 1 .. hi : j \in S
  BY <1>3, <1>4, RangeInduction
<1>6. hi \in lo - 1 .. hi
  OBVIOUS
<1>7. hi \in S
  BY <1>5, <1>6
<1> QED BY <1>1, <1>2, <1>6, <1>7 DEF S, r

\* What one more character does to the decimal point and the divider of a number.
LEMMA PointStep ==
  ASSUME NEW a \in Accumulators, NEW c, ~DecimalStep(a, c).bad
  PROVE  LET b == DecimalStep(a, c) IN
         /\ a.big => b.big
         /\ a.dec => b.dec
         /\ ~a.dec => b.div = a.div
         /\ ~a.dec /\ b.dec => c = "."
         /\ c = "." => ~a.dec /\ b.dec
         /\ a.dec /\ ~b.big => b.div = Ten(a.div, c)
<1> DEFINE b == DecimalStep(a, c)
<1>0. a.res \in Nat /\ a.div \in Nat /\ a.dec \in BOOLEAN /\ a.big \in BOOLEAN /\ a.bad \in BOOLEAN
  BY DEF Accumulators
<1>1. CASE c \in isDigit
  <2> DEFINE d == HexDigit[c]
             fits == a.res <= (UInt64Max - d) \div 10
             room == a.div <= UInt64Max \div 10
             r == IF fits THEN a.res * 10 + d ELSE a.res
             q == IF fits /\ a.dec /\ room THEN a.div * 10 ELSE a.div
             g == a.big \/ ~fits \/ (a.dec /\ ~room)
  <2>1. b = [a EXCEPT !.res = r, !.div = q, !.big = g]
    BY <1>1 DEF DecimalStep
  <2>2. c # "."
    BY <1>1, HexDigitFacts
  <2>3. g \in BOOLEAN
    BY <1>0
  <2>4. Ten(a.div, c) = a.div * 10
    BY <1>1 DEF Ten
  <2>5. (~a.dec => q = a.div) /\ (a.big => g) /\ (a.dec /\ ~g => q = a.div * 10)
    <3> HIDE DEF fits, room
    <3> QED OBVIOUS
  <2> HIDE DEF r, q, g, b
  <2>6. b.dec = a.dec /\ b.div = q /\ b.big = g
    BY <2>1 DEF Accumulators
  <2> QED BY <2>2, <2>4, <2>5, <2>6 DEF b
<1>2. CASE c \notin isDigit
  <2>1. Ten(a.div, c) = a.div
    BY <1>2 DEF Ten
  <2>2. CASE c = "_"
    <3>1. b = a
      BY <1>2, <2>2 DEF DecimalStep
    <3> QED BY <2>1, <2>2, <3>1
  <2>3. CASE c # "_"
    <3>1. c = "." /\ ~a.dec
      BY <1>0, <1>2, <2>3 DEF DecimalStep, Accumulators
    <3>2. b = [a EXCEPT !.dec = TRUE]
      BY <1>2, <2>3, <3>1 DEF DecimalStep
    <3> HIDE DEF b
    <3>3. b.dec /\ b.div = a.div /\ b.big = a.big
      BY <3>2 DEF Accumulators
    <3> QED BY <2>1, <3>1, <3>3 DEF b
  <2> QED BY <2>2, <2>3
<1> QED BY <1>1, <1>2

\* A number has a decimal part if it has a decimal point, and its divider is then the power of ten
\* that the digits behind the point make.
LEMMA DecimalPoint ==
  ASSUME NEW t, NEW lo \in Nat, NEW hi \in Int, lo - 1 <= hi, ~Read(DecimalStep, NoNumber, t, lo, hi).bad
  PROVE  LET r == Read(DecimalStep, NoNumber, t, lo, hi) IN
         /\ r.dec => \E p \in lo .. hi : CharAt(t, p) = "."
         /\ ~r.big => \A p \in lo .. hi : CharAt(t, p) = "." => r.div = Tenfold(t, p + 1, hi)
<1> DEFINE r == Read(DecimalStep, NoNumber, t, lo, hi)
<1>a. PICK g \in [lo - 1 .. hi -> Accumulators] : DecimalRun(g, NoNumber, t, lo, hi)
  BY DecimalRead, NoNumberFacts
<1>1. g[lo - 1] = NoNumber /\ r = g[hi] /\ \A j \in lo .. hi : g[j] = DecimalStep(g[j - 1], CharAt(t, j))
  BY <1>a DEF DecimalRun
<1>2. ~g[hi].bad
  BY <1>1
<1> HIDE DEF r
<1> DEFINE Pointed(j) == \E p \in lo .. j : CharAt(t, p) = "."
           Good(j) == ~g[j].bad => (~g[j].dec => g[j].div = 1) /\ (g[j].dec => Pointed(j))
           S == {j \in lo - 1 .. hi : Good(j)}
<1>3. lo - 1 \in S
  BY <1>1, NoNumberFacts
<1>4. ASSUME NEW j \in lo .. hi, j - 1 \in S PROVE j \in S
  <2>1. g[j - 1] \in Accumulators /\ Good(j - 1) /\ g[j] = DecimalStep(g[j - 1], CharAt(t, j))
    BY <1>1, <1>4
  <2>2. (Pointed(j - 1) => Pointed(j)) /\ (CharAt(t, j) = "." => Pointed(j))
    OBVIOUS
  <2> HIDE DEF Pointed
  <2> SUFFICES ASSUME ~g[j].bad PROVE Good(j)
    OBVIOUS
  <2>3. ~g[j - 1].bad
    BY <2>1, StepsBad
  <2>4. /\ g[j - 1].dec => g[j].dec
        /\ ~g[j - 1].dec => g[j].div = g[j - 1].div
        /\ ~g[j - 1].dec /\ g[j].dec => CharAt(t, j) = "."
    BY <2>1, PointStep
  <2> QED BY <2>1, <2>2, <2>3, <2>4
<1> HIDE DEF Good, S
<1>5. \A j \in lo - 1 .. hi : j \in S
  BY <1>3, <1>4, RangeInduction
<1>6. \A j \in lo - 1 .. hi : Good(j)
  BY <1>5 DEF S
<1>7. r.dec => Pointed(hi)
  BY <1>1, <1>2, <1>6 DEF Good
<1>8. ASSUME NEW p \in lo .. hi, CharAt(t, p) = ".", ~g[hi].big PROVE g[hi].div = Tenfold(t, p + 1, hi)
  <2> DEFINE l == p + 1
  <2>0. l \in Nat /\ l - 1 = p /\ l - 1 <= hi /\ p - 1 \in lo - 1 .. hi
    OBVIOUS
  <2> HIDE DEF l
  <2>a. PICK u \in [l - 1 .. hi -> Nat] : TenfoldRun(u, t, l, hi)
    BY <2>0, TenfoldRead
  <2>1. /\ u[p] = 1 /\ Tenfold(t, l, hi) = u[hi]
        /\ \A j \in l .. hi : u[j] = Ten(u[j - 1], CharAt(t, j))
    BY <2>0, <2>a DEF TenfoldRun
  <2> DEFINE Ok(j) == ~g[j].bad => g[j].dec /\ (~g[j].big => g[j].div = u[j])
             Q == {j \in p .. hi : Ok(j)}
  <2>2. p \in Q
    <3> SUFFICES ASSUME ~g[p].bad PROVE g[p].dec /\ g[p].div = 1
      BY <2>1
    <3>1. g[p - 1] \in Accumulators /\ g[p] = DecimalStep(g[p - 1], CharAt(t, p))
      BY <1>1, <2>0
    <3>2. ~g[p - 1].bad
      BY <3>1, StepsBad
    <3>3. ~g[p - 1].dec /\ g[p].dec /\ g[p].div = g[p - 1].div
      BY <3>1, <1>8, PointStep
    <3> QED BY <3>2, <3>3, <2>0, <1>6 DEF Good
  <2>3. ASSUME NEW j \in l .. hi, j - 1 \in Q PROVE j \in Q
    <3>1. j \in lo .. hi /\ j - 1 \in lo - 1 .. hi /\ j \in p .. hi
      BY <2>0
    <3>2. g[j - 1] \in Accumulators /\ g[j] = DecimalStep(g[j - 1], CharAt(t, j)) /\ Ok(j - 1)
      BY <1>1, <2>3, <3>1
    <3>3. u[j] = Ten(u[j - 1], CharAt(t, j))
      BY <2>1
    <3> SUFFICES ASSUME ~g[j].bad PROVE g[j].dec /\ (~g[j].big => g[j].div = u[j])
      BY <3>1
    <3>4. ~g[j - 1].bad
      BY <3>2, StepsBad
    <3>5. /\ g[j - 1].big => g[j].big
          /\ g[j - 1].dec => g[j].dec
          /\ g[j - 1].dec /\ ~g[j].big => g[j].div = Ten(g[j - 1].div, CharAt(t, j))
      BY <3>2, PointStep
    <3> QED BY <3>2, <3>3, <3>4, <3>5
  <2> HIDE DEF Ok, Q
  <2>4. \A j \in l - 1 .. hi : j \in Q
    BY <2>0, <2>2, <2>3, RangeInduction
  <2>5. hi \in Q
    BY <2>0, <2>4
  <2> QED BY <2>1, <2>5, <1>2, <1>8 DEF Ok, Q, l
<1> QED BY <1>1, <1>7, <1>8 DEF r, Pointed

\* The value of digits is a number.
LEMMA ValueNat ==
  ASSUME NEW base \in {2, 10, 16}, NEW t, NEW lo \in Nat, NEW hi \in Int, lo - 1 <= hi
  PROVE  DigitsValue(t, lo, hi, base) \in Nat
<1>1. PICK w \in [lo - 1 .. hi -> Nat] : ValueRun(w, base, t, lo, hi)
  BY ValueRead
<1>2. hi \in lo - 1 .. hi /\ DigitsValue(t, lo, hi, base) = w[hi]
  BY <1>1 DEF ValueRun
<1> QED BY <1>2

\* What Exact asks of a token whose digits are worth v, behind whose decimal point they make ten.
Says(k, v, ten, neg, lim32, lim) ==
  /\ k.kind = "LitInt" => v <= lim32 /\ k.val = IF v > Int32Max THEN v - UInt32Max - 1 ELSE v
  /\ k.kind = "LitLong" => v <= lim /\ k.val = IF v > Int64Max THEN v - UInt64Max - 1 ELSE v
  /\ k.kind = "LitFloat" => k.val = <<v, ten>>
  /\ k.kind = "StaticInt" => v <= Int32Max /\ k.val = IF neg THEN -v ELSE v
  /\ k.kind = "Error" /\ k.val = "LitIntTooBig" => v > lim32
  /\ k.kind = "Error" /\ k.val = "LitLongTooBig" => v > lim
  /\ k.kind = "Error" /\ k.val = "StaticIntTooBig" => v > Int32Max

Point(t, k) == CHOOSE j \in k.lo .. k.hi : CharAt(t, j) = "."

\* Exact, for a token of each base.
LEMMA SaysDecimal ==
  ASSUME NEW t, NEW k,
         CharAt(t, k.lo) # "0" \/ k.hi = k.lo \/ CharAt(t, k.lo + 1) \notin {"x", "X", "b", "B"},
         Says(k, DigitsValue(t, k.lo, k.hi, 10), Tenfold(t, Point(t, k) + 1, k.hi), CharAt(t, k.lo + 1) = "-", Int32Max, Int64Max)
  PROVE  Exact(t, k)
<1>1. BaseOf(t, k) = 10
  BY DEF BaseOf
<1> QED BY <1>1 DEF Exact, Says, Point

LEMMA SaysPrefixed ==
  ASSUME NEW t, NEW k, NEW base \in {2, 16},
         CharAt(t, k.lo) = "0", k.hi # k.lo,
         CharAt(t, k.lo + 1) \in IF base = 16 THEN {"x", "X"} ELSE {"b", "B"},
         Says(k, DigitsValue(t, k.lo + 2, k.hi, base), Tenfold(t, Point(t, k) + 1, k.hi), CharAt(t, k.lo + 1) = "-", UInt32Max, UInt64Max)
  PROVE  Exact(t, k)
<1>1. BaseOf(t, k) = base
  BY DEF BaseOf
<1> QED BY <1>1 DEF Exact, Says, Point

\* A token that is no number.
Plain(k) == /\ k.kind \notin {"LitInt", "LitLong", "LitFloat", "StaticInt"}
            /\ k.kind = "Error" => k.val \notin {"LitIntTooBig", "LitLongTooBig", "StaticIntTooBig"}

LEMMA PlainExact ==
  ASSUME NEW t, NEW k, Plain(k)
  PROVE  Exact(t, k)
BY DEF Exact, Plain

\* A decimal literal that ends at e says what its digits are worth.
LEMMA LitNumberExact ==
  ASSUME NEW t, NEW k \in Nat, NEW e \in Nat, k <= e, NEW long \in BOOLEAN,
         long => k < e /\ CharAt(t, e) \in {"l", "L"} /\ \A j \in k .. e : CharAt(t, j) # ".",
         CharAt(t, k) # "0" \/ CharAt(t, k + 1) \notin {"x", "X", "b", "B"}
  PROVE  Exact(t, LitNumber(t, k, e, long))
<1> DEFINE tok == LitNumber(t, k, e, long)
           f == IF long THEN e - 1 ELSE e
           r == Read(DecimalStep, NoNumber, t, k, f)
           v == DigitsValue(t, k, e, 10)
<1>1. tok.lo = k /\ tok.hi = e
  BY LitNumberSpan
<1>2. f \in Int /\ k - 1 <= f /\ k - 1 <= e /\ e \in Int
  OBVIOUS
<1>3. v = DigitsValue(t, k, f, 10) /\ v \in Nat
  <2>1. long => CharAt(t, e) \notin DigitsOf(10)
    BY DEF DigitsOf, isDigit
  <2>2. v \in Nat
    BY <1>2, ValueNat
  <2>3. CASE long
    <3>1. v = DigitsValue(t, k, e - 1, 10)
      BY <1>2, <2>1, <2>3, ValueEnds
    <3> QED BY <2>2, <2>3, <3>1
  <2> QED BY <2>2, <2>3
<1>4. tok = CASE r.bad -> errorToken("LitNumberInvalidChar", k, e)
              [] ~r.bad /\ EndsWith(t, e, "_") -> errorToken("LitNumberEndsWithSeperator", k, e)
              [] ~r.bad /\ EndsWith(t, e, ".") -> errorToken("LitNumberEndsWithDecimalPoint", k, e)
              [] OTHER -> NumberToken(r, long, k, e)
  BY DEF LitNumber
<1>5. r \in Accumulators /\ (~r.bad => Valued(r, v))
  <2> HIDE DEF f
  <2> QED BY <1>2, <1>3, NoNumberFacts, DecimalValue
<1>6. ~r.bad => /\ r.dec => \E p \in k .. f : CharAt(t, p) = "."
                /\ ~r.big => \A p \in k .. f : CharAt(t, p) = "." => r.div = Tenfold(t, p + 1, f)
  <2> HIDE DEF f
  <2> QED BY <1>2, DecimalPoint
<1> HIDE DEF r, v, tok
<1>7. CASE r.bad \/ EndsWith(t, e, "_") \/ EndsWith(t, e, ".")
  <2>1. Plain(tok)
    BY <1>4, <1>7 DEF Plain, errorToken, Token, EndsWith
  <2> QED BY <2>1, PlainExact DEF tok
<1>8. CASE ~(r.bad \/ EndsWith(t, e, "_") \/ EndsWith(t, e, "."))
  <2> DEFINE ten == Tenfold(t, Point(t, tok) + 1, tok.hi)
             neg == CharAt(t, k + 1) = "-"
  <2>1. tok = NumberToken(r, long, k, e)
    BY <1>4, <1>8
  <2>2. Says(tok, v, ten, neg, Int32Max, Int64Max)
    <3>1. CASE r.dec
      <4>1. PICK p \in k .. f : CharAt(t, p) = "."
        BY <1>6, <1>8, <3>1
      <4>2. ~long /\ f = e
        BY <4>1, <1>2
      <4>3. CASE r.big
        BY <2>1, <3>1, <4>3 DEF Says, NumberToken, errorToken, Token
      <4>4. CASE ~r.big
        <5>1. tok = Token("LitFloat", <<r.res, r.div>>, k, e)
          BY <2>1, <3>1, <4>4 DEF NumberToken
        <5>2. r.res = v
          BY <1>5, <1>8, <4>4 DEF Valued, Worth
        <5>3. Point(t, tok) \in k .. e /\ CharAt(t, Point(t, tok)) = "."
          BY <1>1, <4>1, <4>2 DEF Point
        <5>4. r.div = ten
          BY <1>1, <1>6, <1>8, <4>2, <4>4, <5>3
        <5> HIDE DEF ten, neg
        <5> QED BY <5>1, <5>2, <5>4 DEF Says, Token
      <4> QED BY <4>3, <4>4
    <3>2. CASE ~r.dec
      <4> HIDE DEF ten, neg
      <4>1. Worth(r, v, UInt64Max)
        BY <1>5, <1>8, <3>2 DEF Valued
      <4>2. UInt64Max >= Int64Max /\ UInt64Max >= Int32Max /\ UInt64Max \in Nat /\ Int64Max \in Nat /\ Int32Max \in Nat
            /\ Int64Max >= Int32Max
        BY WidthFacts
      <4>3. CASE r.big
        <5>1. v > Int64Max /\ v > Int32Max
          BY <1>3, <4>1, <4>2, <4>3 DEF Worth
        <5> QED BY <2>1, <3>2, <4>3, <5>1 DEF Says, NumberToken, errorToken, Token
      <4>4. CASE ~r.big
        <5>1. r.res = v
          BY <4>1, <4>4 DEF Worth
        <5>2. CASE long
          <6>1. CASE v > Int64Max
            BY <2>1, <3>2, <4>4, <5>1, <5>2, <6>1 DEF Says, NumberToken, errorToken, Token
          <6>2. CASE ~(v > Int64Max)
            <7>1. tok = Token("LitLong", v, k, e)
              BY <2>1, <3>2, <4>4, <5>1, <5>2, <6>2 DEF NumberToken
            <7>2. v <= Int64Max
              BY <1>3, <4>2, <6>2
            <7> QED BY <7>1, <7>2, <6>2 DEF Says, Token
          <6> QED BY <6>1, <6>2
        <5>3. CASE ~long
          <6>1. CASE v > Int32Max
            BY <2>1, <3>2, <4>4, <5>1, <5>3, <6>1 DEF Says, NumberToken, errorToken, Token
          <6>2. CASE ~(v > Int32Max)
            <7>1. tok = Token("LitInt", v, k, e)
              BY <2>1, <3>2, <4>4, <5>1, <5>3, <6>2 DEF NumberToken
            <7>2. v <= Int32Max
              BY <1>3, <4>2, <6>2
            <7> QED BY <7>1, <7>2, <6>2 DEF Says, Token
          <6> QED BY <6>1, <6>2
        <5> QED BY <5>2, <5>3
      <4> QED BY <4>3, <4>4
    <3> QED BY <3>1, <3>2
  <2>3. CharAt(t, tok.lo) # "0" \/ tok.hi = tok.lo \/ CharAt(t, tok.lo + 1) \notin {"x", "X", "b", "B"}
    BY <1>1
  <2>4. Says(tok, DigitsValue(t, tok.lo, tok.hi, 10), ten, CharAt(t, tok.lo + 1) = "-", Int32Max, Int64Max)
    BY <1>1, <2>2 DEF v
  <2>5. Exact(t, tok)
    BY <2>3, <2>4, SaysDecimal
  <2> QED BY <2>5 DEF tok
<1> QED BY <1>7, <1>8

\* The accumulator of a hex or binary literal gives the token its digits, as the bits of a signed number.
LEMMA PrefixedSays ==
  ASSUME NEW t, NEW k, NEW e, NEW r \in Accumulators, NEW v \in Nat, ~r.bad => Worth(r, v, UInt64Max),
         NEW long \in BOOLEAN, NEW err, err \notin {"LitIntTooBig", "LitLongTooBig", "StaticIntTooBig"}, NEW ten, NEW neg
  PROVE  Says(PrefixedToken(t, k, e, r, long, err), v, ten, neg, UInt32Max, UInt64Max)
<1> DEFINE tok == PrefixedToken(t, k, e, r, long, err)
<1>1. CASE r.bad
  BY <1>1 DEF PrefixedToken, Says, errorToken, Token
<1>2. CASE ~r.bad /\ EndsWith(t, e, "_")
  BY <1>2 DEF PrefixedToken, Says, errorToken, Token
<1>3. CASE ~r.bad /\ ~EndsWith(t, e, "_")
  <2>1. tok = IF long THEN IF r.big THEN errorToken("LitLongTooBig", k, e)
                           ELSE Token("LitLong", Reinterpret(r.res, Int64Max), k, e)
              ELSE IF r.big \/ r.res > UInt32Max THEN errorToken("LitIntTooBig", k, e)
              ELSE Token("LitInt", Reinterpret(r.res, Int32Max), k, e)
    BY <1>3 DEF PrefixedToken
  <2> HIDE DEF tok
  <2>2. UInt64Max \in Nat /\ UInt32Max \in Nat /\ UInt32Max <= UInt64Max /\ Int64Max \in Nat /\ Int32Max \in Nat
        /\ UInt64Max = 2 * Int64Max + 1 /\ UInt32Max = 2 * Int32Max + 1
    BY WidthFacts
  <2>5. Worth(r, v, UInt64Max)
    BY <1>3
  <2>3. CASE r.big
    <3>0. v > UInt64Max
      BY <2>3, <2>5 DEF Worth
    <3>1. v > UInt64Max /\ v > UInt32Max
      BY <2>2, <3>0
    <3> QED BY <2>1, <2>3, <3>1 DEF Says, errorToken, Token, tok
  <2>4. CASE ~r.big
    <3>1. r.res = v /\ v <= UInt64Max
      BY <2>4, <2>5 DEF Worth
    <3>2. CASE long
      <4>1. tok = Token("LitLong", Reinterpret(v, Int64Max), k, e)
        BY <2>1, <2>4, <3>1, <3>2
      <4>2. Reinterpret(v, Int64Max) = IF v > Int64Max THEN v - UInt64Max - 1 ELSE v
        BY <2>2 DEF Reinterpret
      <4> QED BY <3>1, <4>1, <4>2 DEF Says, Token, tok
    <3>3. CASE ~long /\ v > UInt32Max
      BY <2>1, <2>4, <3>1, <3>3 DEF Says, errorToken, Token, tok
    <3>4. CASE ~long /\ ~(v > UInt32Max)
      <4>1. tok = Token("LitInt", Reinterpret(v, Int32Max), k, e)
        BY <2>1, <2>4, <3>1, <3>4
      <4>2. Reinterpret(v, Int32Max) = IF v > Int32Max THEN v - UInt32Max - 1 ELSE v
        BY <2>2 DEF Reinterpret
      <4>3. v <= UInt32Max
        BY <2>2, <3>4
      <4> QED BY <4>1, <4>2, <4>3 DEF Says, Token, tok
    <3> QED BY <3>2, <3>3, <3>4
  <2> QED BY <2>3, <2>4
<1> QED BY <1>1, <1>2, <1>3

\* A decimal literal: an 'l' behind it is no digit of it, and no decimal point precedes that.
LEMMA NumberExact ==
  ASSUME NEW t, IsText(t), NEW k \in Nat, k < Len(t),
         CharAt(t, k) # "0" \/ CharAt(t, k + 1) \notin {"x", "X", "b", "B"}
  PROVE  Exact(t, nextLitNumber(t, k))
<1> DEFINE all  == ScanTo(t, k, isTokenSeperator \ {"."})
           ells == {j \in k + 1 .. all : CharAt(t, j) \in {"l", "L"} /\ "." \notin {CharAt(t, i) : i \in k .. j}}
           e    == IF ells # {} THEN Min(ells) ELSE all
           long == ells # {}
<1>1. "NUL" \in isTokenSeperator \ {"."}
  BY DEF isTokenSeperator
<1>2. all \in k .. Len(t) - 1 /\ Len(t) \in Nat
  BY <1>1, ScanFacts, CharFacts
<1>3. ells \subseteq k + 1 .. all
  OBVIOUS
<1>4. nextLitNumber(t, k) = LitNumber(t, k, e, long)
  BY DEF nextLitNumber
<1>5. \A j \in ells : CharAt(t, j) \in {"l", "L"} /\ \A i \in k .. j : CharAt(t, i) # "."
  OBVIOUS
<1> HIDE DEF all, ells
<1>6. all \in Nat /\ k + 1 \in Nat
  BY <1>2
<1>7. long => Min(ells) \in ells /\ Min(ells) \in k + 1 .. all
  BY <1>6, <1>3, MinWithin
<1>8. e \in Nat /\ k <= e
  BY <1>2, <1>7
<1>9. long => k < e /\ CharAt(t, e) \in {"l", "L"} /\ \A j \in k .. e : CharAt(t, j) # "."
  <2> SUFFICES ASSUME long PROVE k < e /\ CharAt(t, e) \in {"l", "L"} /\ \A j \in k .. e : CharAt(t, j) # "."
    OBVIOUS
  <2>1. e \in ells /\ e \in k + 1 .. all
    BY <1>7
  <2> HIDE DEF e
  <2>2. k < e
    BY <1>6, <2>1
  <2> QED BY <1>5, <2>1, <2>2
<1>10. long \in BOOLEAN
  OBVIOUS
<1> HIDE DEF e, long
<1> QED BY <1>4, <1>8, <1>9, <1>10, LitNumberExact

\* A hex or binary literal includes its prefix.
LEMMA PrefixedWithin ==
  ASSUME NEW t, IsText(t), NEW k \in Nat, k + 1 < Len(t), CharAt(t, k + 1) \notin {"l", "L"}
  PROVE  LET e == PrefixedEnd(t, k)
         IN  e \in Nat /\ k + 1 <= e /\ (CharAt(t, e) \in {"l", "L"} => k + 2 <= e)
<1> DEFINE all  == ScanTo(t, k + 1, isTokenSeperator)
           ells == {j \in k + 2 .. all : CharAt(t, j) \in {"l", "L"}}
           e    == PrefixedEnd(t, k)
<1>1. "NUL" \in isTokenSeperator
  BY DEF isTokenSeperator
<1>2. all \in k + 1 .. Len(t) - 1 /\ Len(t) \in Nat
  BY <1>1, ScanFacts, CharFacts
<1>3. ells \subseteq k + 2 .. all
  OBVIOUS
<1>4. e = IF ells # {} THEN Min(ells) ELSE all
  BY DEF PrefixedEnd
<1> HIDE DEF all, ells, e
<1>5. all \in Nat /\ k + 2 \in Nat
  BY <1>2
<1>6. ells # {} => Min(ells) \in k + 2 .. all
  BY <1>5, <1>3, MinWithin
<1>7. e \in Nat /\ k + 1 <= e
  BY <1>2, <1>4, <1>5, <1>6
<1>8. e # k + 1 => k + 2 <= e
  BY <1>7
<1>9. CharAt(t, e) \in {"l", "L"} => e # k + 1
  OBVIOUS
<1> QED BY <1>7, <1>8, <1>9 DEF e

\* A hex literal, and a binary one.
LEMMA HexExact ==
  ASSUME NEW t, IsText(t), NEW k \in Nat, k + 1 < Len(t), CharAt(t, k) = "0", CharAt(t, k + 1) \in {"x", "X"}
  PROVE  Exact(t, nextLitNumberHex(t, k))
<1> DEFINE e    == PrefixedEnd(t, k)
           long == CharAt(t, e) \in {"l", "L"}
           f    == IF long THEN e - 1 ELSE e
           r    == Read(HexStep, NoNumber, t, k + 2, f)
           v    == DigitsValue(t, k + 2, e, 16)
           tok  == nextLitNumberHex(t, k)
<1>1. e \in Nat /\ k + 1 <= e /\ (long => k + 2 <= e)
  BY PrefixedWithin
<1>2. tok = PrefixedToken(t, k, e, r, long, "LitHexInvalidChar")
  BY DEF nextLitNumberHex, LitPrefixed
<1>3. long => CharAt(t, e) \notin DigitsOf(16)
  BY HexDigitFacts DEF DigitsOf
<1> HIDE DEF e, tok
<1>4. e \in Int /\ f \in Int /\ k + 2 \in Nat /\ (k + 2) - 1 <= f /\ (k + 2) - 1 <= e
  BY <1>1
<1>5. v \in Nat
  BY <1>4, ValueNat
<1>6. v = DigitsValue(t, k + 2, f, 16)
  <2>1. CASE long
    <3>1. v = DigitsValue(t, k + 2, e - 1, 16)
      BY <1>1, <1>3, <1>4, <2>1, ValueEnds
    <3> QED BY <2>1, <3>1
  <2> QED BY <2>1
<1>7. r \in Accumulators /\ (~r.bad => Worth(r, v, UInt64Max))
  <2> HIDE DEF f
  <2> QED BY <1>4, <1>6, NoNumberFacts, HexValue
<1>8. long \in BOOLEAN
  OBVIOUS
<1>9. tok.lo = k /\ tok.hi = e
  BY <1>2, PrefixedSpan
<1> HIDE DEF r, v, long
<1> DEFINE ten == Tenfold(t, Point(t, tok) + 1, tok.hi)
           neg == CharAt(t, k + 1) = "-"
<1> HIDE DEF ten
<1>10. Says(tok, v, ten, neg, UInt32Max, UInt64Max)
  <2> HIDE DEF neg
  <2> QED BY <1>2, <1>5, <1>7, <1>8, PrefixedSays
<1>11. tok.hi # tok.lo
  BY <1>1, <1>9
<1>12. Exact(t, tok)
  BY <1>9, <1>10, <1>11, SaysPrefixed DEF v, ten
<1> QED BY <1>12 DEF tok

LEMMA BinaryExact ==
  ASSUME NEW t, IsText(t), NEW k \in Nat, k + 1 < Len(t), CharAt(t, k) = "0", CharAt(t, k + 1) \in {"b", "B"}
  PROVE  Exact(t, nextLitNumberBinary(t, k))
<1> DEFINE e    == PrefixedEnd(t, k)
           long == CharAt(t, e) \in {"l", "L"}
           f    == IF long THEN e - 1 ELSE e
           r    == Read(BinaryStep, NoNumber, t, k + 2, f)
           v    == DigitsValue(t, k + 2, e, 2)
           tok  == nextLitNumberBinary(t, k)
<1>1. e \in Nat /\ k + 1 <= e /\ (long => k + 2 <= e)
  BY PrefixedWithin
<1>2. tok = PrefixedToken(t, k, e, r, long, "LitBinaryInvalidChar")
  BY DEF nextLitNumberBinary, LitPrefixed
<1>3. long => CharAt(t, e) \notin DigitsOf(2)
  BY DEF DigitsOf, isDigit
<1> HIDE DEF e, tok
<1>4. e \in Int /\ f \in Int /\ k + 2 \in Nat /\ (k + 2) - 1 <= f /\ (k + 2) - 1 <= e
  BY <1>1
<1>5. v \in Nat
  BY <1>4, ValueNat
<1>6. v = DigitsValue(t, k + 2, f, 2)
  <2>1. CASE long
    <3>1. v = DigitsValue(t, k + 2, e - 1, 2)
      BY <1>1, <1>3, <1>4, <2>1, ValueEnds
    <3> QED BY <2>1, <3>1
  <2> QED BY <2>1
<1>7. r \in Accumulators /\ (~r.bad => Worth(r, v, UInt64Max))
  <2> HIDE DEF f
  <2> QED BY <1>4, <1>6, NoNumberFacts, BinaryValue
<1>8. long \in BOOLEAN
  OBVIOUS
<1>9. tok.lo = k /\ tok.hi = e
  BY <1>2, PrefixedSpan
<1> HIDE DEF r, v, long
<1> DEFINE ten == Tenfold(t, Point(t, tok) + 1, tok.hi)
           neg == CharAt(t, k + 1) = "-"
<1> HIDE DEF ten
<1>10. Says(tok, v, ten, neg, UInt32Max, UInt64Max)
  <2> HIDE DEF neg
  <2> QED BY <1>2, <1>5, <1>7, <1>8, PrefixedSays
<1>11. tok.hi # tok.lo
  BY <1>1, <1>9
<1>12. Exact(t, tok)
  BY <1>9, <1>10, <1>11, SaysPrefixed DEF v, ten
<1> QED BY <1>12 DEF tok

\* A static int: neither its '#' nor its sign is a digit.
LEMMA StaticIntExact ==
  ASSUME NEW t, IsText(t), NEW k \in Nat, k < Len(t), CharAt(t, k) = "#"
  PROVE  Exact(t, nextStaticInt(t, k))
<1> DEFINE neg  == CharAt(t, k + 1) = "-"
           from == IF neg THEN k + 1 ELSE k
           e    == ScanTo(t, from, isTokenSeperator \ {"-"})
           l    == IF neg THEN k + 2 ELSE k + 1
           s    == [NoNumber EXCEPT !.div = 0]
           r    == Read(StaticStep, s, t, l, e)
           v    == DigitsValue(t, k, e, 10)
           tok  == nextStaticInt(t, k)
<1>1. "NUL" \in isTokenSeperator \ {"-"}
  BY DEF isTokenSeperator
<1>2. from \in k .. Len(t) - 1 /\ Len(t) \in Nat /\ from \in Int /\ -1 <= from /\ from < Len(t)
  BY CharFacts
<1>3. e \in from .. Len(t) - 1
  <2> HIDE DEF from
  <2> QED BY <1>1, <1>2, ScanFacts
<1>4. tok = IF r.bad THEN errorToken("StaticIntInvalidChar", k, e)
            ELSE IF r.div = 0 THEN errorToken("StaticIntNoDigits", k, e)
            ELSE IF r.big THEN errorToken("StaticIntTooBig", k, e)
            ELSE Token("StaticInt", IF neg THEN -r.res ELSE r.res, k, e)
  BY DEF nextStaticInt
<1>5. tok.lo = k /\ tok.hi = e
  BY <1>4 DEF errorToken, Token
<1> HIDE DEF e, tok
<1>6. e \in Int /\ k <= e /\ (neg => k + 1 <= e) /\ l \in Nat /\ l - 1 <= e /\ k - 1 <= e
  BY <1>2, <1>3
<1>7. v \in Nat
  BY <1>6, ValueNat
<1>8. v = DigitsValue(t, l, e, 10)
  <2>1. CharAt(t, k) \notin DigitsOf(10) /\ (neg => CharAt(t, k + 1) \notin DigitsOf(10))
    BY DEF DigitsOf, isDigit
  <2>2. v = DigitsValue(t, k + 1, e, 10)
    BY <1>6, <2>1, ValueBegins
  <2>3. CASE neg
    <3>1. k + 1 \in Nat /\ (k + 1) + 1 = k + 2
      OBVIOUS
    <3>2. DigitsValue(t, k + 1, e, 10) = DigitsValue(t, (k + 1) + 1, e, 10)
      BY <1>6, <2>1, <2>3, <3>1, ValueBegins
    <3> QED BY <2>2, <2>3, <3>1, <3>2
  <2> QED BY <2>2, <2>3
<1>9. s \in Accumulators /\ ~s.big /\ s.res = 0
  BY DEF NoNumber, Accumulators
<1> HIDE DEF s, l
<1>10. r \in Accumulators /\ (~r.bad => Worth(r, v, Int32Max))
  BY <1>6, <1>8, <1>9, StaticValue
<1> HIDE DEF r, v, neg
<1> DEFINE ten == Tenfold(t, Point(t, tok) + 1, tok.hi)
<1> HIDE DEF ten
<1>11. Says(tok, v, ten, neg, Int32Max, Int64Max)
  <2>1. CASE r.bad \/ r.div = 0
    BY <1>4, <2>1 DEF Says, errorToken, Token
  <2>2. CASE ~(r.bad \/ r.div = 0) /\ r.big
    <3>1. v > Int32Max
      BY <1>10, <2>2 DEF Worth
    <3> QED BY <1>4, <2>2, <3>1 DEF Says, errorToken, Token
  <2>3. CASE ~(r.bad \/ r.div = 0) /\ ~r.big
    <3>1. r.res = v /\ v <= Int32Max
      BY <1>10, <2>3 DEF Worth
    <3>2. tok = Token("StaticInt", IF neg THEN -v ELSE v, k, e)
      BY <1>4, <2>3, <3>1
    <3> QED BY <3>1, <3>2 DEF Says, Token
  <2> QED BY <2>1, <2>2, <2>3
<1>12. Exact(t, tok)
  <2>1. CharAt(t, tok.lo) # "0"
    BY <1>5
  <2>2. Says(tok, DigitsValue(t, tok.lo, tok.hi, 10), ten, CharAt(t, tok.lo + 1) = "-", Int32Max, Int64Max)
    BY <1>5, <1>11 DEF v, neg
  <2> QED BY <2>1, <2>2, SaysDecimal DEF ten
<1> QED BY <1>12 DEF tok

\* Neither does an operator give a number.
LEMMA OpsPlain ==
  /\ \A c \in DOMAIN SingleOps : \A lo, hi : Plain(basicToken(SingleOps[c], lo, hi))
  /\ \A c \in DOMAIN DoubleOps : \A lo, hi : Plain(basicToken(DoubleOps[c], lo, hi))
BY OpsFacts DEF NoValues, Plain, basicToken, Token

\* No other scanner gives a number.
LEMMA OthersPlain ==
  ASSUME NEW t, NEW k
  PROVE  /\ Plain(nextLitStr(t, k)) /\ Plain(nextLitChar(t, k)) /\ Plain(nextWordToken(t, k)) /\ Plain(nextLineComment(t, k))
         /\ Plain(basicToken("Discard", k, k)) /\ Plain(errorToken("InvalidChar", k, k))
<1>1. Plain(nextLitStr(t, k))
  BY DEF Plain, nextLitStr, errorToken, Token
<1>2. Plain(nextLitChar(t, k))
  BY DEF Plain, nextLitChar, errorToken, Token
<1>3. Plain(nextWordToken(t, k))
  BY DEF Plain, nextWordToken, errorToken, Token
<1>4. Plain(nextLineComment(t, k))
  BY DEF Plain, nextLineComment, Token
<1>5. Plain(basicToken("Discard", k, k)) /\ Plain(errorToken("InvalidChar", k, k))
  BY DEF Plain, basicToken, errorToken, Token
<1> QED BY <1>1, <1>2, <1>3, <1>4, <1>5

\* Every token is worth its digits.
LEMMA TokenAtExact ==
  ASSUME NEW t, IsText(t), NEW k \in Nat, k < Len(t)
  PROVE  Exact(t, TokenAt(t, k, CharAt(t, k), CharAt(t, k + 1)))
<1> DEFINE c == CharAt(t, k)
           n == CharAt(t, k + 1)
           Ok(tok) == Exact(t, tok)
<1>1. Len(t) \in Nat /\ c # "NUL" /\ (n # "NUL" => k + 1 < Len(t))
  BY CharFacts
<1>2. c # "0" \/ n \notin {"x", "X", "b", "B"} => Ok(nextLitNumber(t, k))
  BY NumberExact
<1>3. c = "#" => Ok(nextStaticInt(t, k))
  BY StaticIntExact
<1>4. n \in {"x", "X", "b", "B"} => k + 1 < Len(t)
  BY <1>1
<1>5. c = "0" /\ n \in {"x", "X"} => Ok(nextLitNumberHex(t, k))
  BY <1>4, HexExact
<1>6. c = "0" /\ n \in {"b", "B"} => Ok(nextLitNumberBinary(t, k))
  BY <1>4, BinaryExact
<1>7. /\ Ok(nextLitStr(t, k)) /\ Ok(nextLitChar(t, k)) /\ Ok(nextWordToken(t, k)) /\ Ok(nextLineComment(t, k))
      /\ Ok(basicToken("Discard", k, k)) /\ Ok(errorToken("InvalidChar", k, k))
  BY OthersPlain, PlainExact
<1>8. /\ <<c, n>> \in DOMAIN DoubleOps => Ok(basicToken(DoubleOps[<<c, n>>], k, k + 1))
      /\ c \in DOMAIN SingleOps => Ok(basicToken(SingleOps[c], k, k))
  <2> HIDE DEF c, n
  <2> QED BY OpsPlain, PlainExact
<1> HIDE DEF c, n, Ok
<1>9. Ok(TokenAt(t, k, c, n))
  <2>1. c = "." => c # "0"
    OBVIOUS
  <2> QED BY <1>1, <1>2, <1>3, <1>5, <1>6, <1>7, <1>8, <2>1 DEF TokenAt
<1> QED BY <1>9 DEF c, n, Ok

\* The next token is worth its digits.
LEMMA NextExact ==
  ASSUME NEW t, IsText(t), NEW pos \in Int, -1 <= pos, pos < Len(t), LexNext(t, pos).kind # "End"
  PROVE  Exact(t, LexNext(t, pos))
<1> DEFINE stops == {CharAt(t, j) : j \in 0 .. Len(t)} \ Whitespace
           k == ScanTo(t, pos, stops) + 1
<1>1. Len(t) \in Nat /\ \A j \in Nat : CharAt(t, j) = "NUL" <=> j >= Len(t)
  BY CharFacts
<1>2. "NUL" \in stops
  <2>1. Len(t) \in 0 .. Len(t) /\ CharAt(t, Len(t)) = "NUL"
    BY <1>1
  <2>2. "NUL" \notin Whitespace
    BY DEF Whitespace
  <2> QED BY <2>1, <2>2
<1>3. LexNext(t, pos) = TokenAt(t, k, CharAt(t, k), CharAt(t, k + 1))
  BY DEF LexNext
<1>4. k \in 0 .. Len(t)
  <2> HIDE DEF stops
  <2>1. ScanTo(t, pos, stops) \in pos .. Len(t) - 1
    BY <1>2, ScanFacts
  <2> QED BY <1>1, <2>1
<1> HIDE DEF k
<1>5. CharAt(t, k) # "NUL"
  <2>1. \A n : TokenAt(t, k, "NUL", n).kind = "End"
    BY DEF TokenAt, Token
  <2>2. TokenAt(t, k, CharAt(t, k), CharAt(t, k + 1)).kind # "End"
    BY <1>3
  <2> QED BY <2>1, <2>2
<1>6. k \in Nat /\ k < Len(t)
  BY <1>1, <1>4, <1>5
<1> QED BY <1>3, <1>6, TokenAtExact

\* Whatever the text holds, a number literal of it is worth its digits, or is refused exactly when they
\* do not fit (nextLitNumber, nextLitNumberHex, nextLitNumberBinary, nextStaticInt).
THEOREM NumbersExactHolds == LexSpec => []NumbersExact
<1> DEFINE AllExact == \A i \in 1 .. Len(tokens) : Exact(text, tokens[i])
<1>1. LexInit => AllExact
  BY DEF LexInit
<1>2. CoverInv /\ AllExact /\ [Lex]_lexVars => AllExact'
  <2> SUFFICES ASSUME CoverInv, AllExact, [Lex]_lexVars PROVE AllExact'
    OBVIOUS
  <2>1. CASE Lex
    <3> DEFINE tok == LexNext(text, inputPos)
               n == Len(tokens)
    <3>1. tok.kind # "End" /\ tokens' = Append(tokens, tok) /\ text' = text
      BY <2>1 DEF Lex
    <3>2. Exact(text, tok)
      BY <3>1, NextExact DEF CoverInv
    <3>3. PICK S : tokens \in Seq(S)
      BY DEF CoverInv
    <3> HIDE DEF tok
    <3>4. Len(tokens') = n + 1 /\ tokens'[n + 1] = tok /\ n \in Nat /\ \A i \in 1 .. n : tokens'[i] = tokens[i]
      <4>1. tokens \in Seq(S \union {tok}) /\ n \in Nat
        BY <3>3, SeqMonotonic
      <4>2. tok \in S \union {tok}
        OBVIOUS
      <4> QED BY <4>1, <4>2, <3>1, AppendFacts
    <3> HIDE DEF n
    <3>5. ASSUME NEW i \in 1 .. n + 1 PROVE Exact(text, tokens'[i])
      <4>1. CASE i \in 1 .. n
        BY <3>4, <4>1 DEF n
      <4>2. CASE i = n + 1
        BY <3>2, <3>4, <4>2
      <4> QED BY <3>4, <4>1, <4>2
    <3> QED BY <3>1, <3>4, <3>5
  <2>2. CASE UNCHANGED lexVars
    BY <2>2 DEF lexVars
  <2> QED BY <2>1, <2>2
<1>3. AllExact => NumbersExact
  BY DEF NumbersExact
<1> HIDE DEF AllExact
<1> QED BY <1>1, <1>2, <1>3, CoverInductive, PTL DEF LexSpec
=============================================================================
