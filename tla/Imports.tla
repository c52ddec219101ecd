------------------------------- MODULE Imports -------------------------------
(* The imports of a source (frontend/internal/import_sources.cpp): a depth-    *)
(* first walk from the main source over the files of the source tree.  One     *)
(* step is one import statement.                                               *)
EXTENDS FiniteSets, Functions, SequencesExt

CONSTANT Sources  \* the source trees that are analysed, in families: a sequence of sets

VARIABLES source,    \* the source tree: the files, main, links from paths to files, search paths
          stack,     \* the import statements that are being visited: a sequence of [file, pos]
          imported,  \* the imported files, the last one first
          phase,     \* the phase of the analysis
          diags      \* the diagnostics

importVars == <<source, stack, imported, phase, diags>>

---------------------------------------------------------------------------
(* A path is a directory and a name; only canonical paths name files, and a    *)
(* file's own path leads to it.  An import is a path whose directory is empty  *)
(* if it is relative.                                                          *)

IsSourceTree(s) ==
  /\ s.main \in DOMAIN s.files
  /\ \A p \in DOMAIN s.links : s.links[p] \in DOMAIN s.files
  /\ \A f \in DOMAIN s.files : f \in DOMAIN s.links /\ s.links[f] = f
  /\ \A f \in DOMAIN s.files : s.files[f].imports \in Seq(STRING \X STRING)
  /\ s.search \in Seq(STRING)

ASSUME SourcesAssumption == \A family \in DOMAIN Sources : \A s \in Sources[family] : IsSourceTree(s)

Canonical(path) == IF path \in DOMAIN source.links THEN {source.links[path]} ELSE {}

alreadyImportedExceptMain(path) == \E i \in DOMAIN imported : imported[i] = path

alreadyImportedAbsPath(path) == path = source.main \/ \E i \in DOMAIN imported : imported[i] = path

\* Where the import in a file can lead, in the order in which it is tried.
Candidates(file, path) ==
  IF path[1] # "" THEN <<path>>
  ELSE <<<<file[1], path[2]>>>> \o [i \in DOMAIN source.search |-> <<source.search[i], path[2]>>]

alreadyImportedRelPath(file, path) ==
  path[1] = "" /\ \E i \in DOMAIN Candidates(file, path) : alreadyImportedAbsPath(Candidates(file, path)[i])

Advance == [stack EXCEPT ![Len(stack)].pos = @ + 1]

ImportStmt ==
  /\ phase = "import" /\ stack # <<>>
  /\ LET top   == Last(stack)
         stmts == source.files[top.file].imports
         path  == stmts[top.pos]
         cands == Candidates(top.file, path)
         found == {i \in DOMAIN cands : Canonical(cands[i]) # {}}
         file  == source.links[cands[Min(found)]]
     IN  \/ top.pos > Len(stmts) /\ stack' = Front(stack) /\ UNCHANGED <<imported, diags>>
         \/ /\ top.pos <= Len(stmts)
            /\ \/ /\ \/ alreadyImportedRelPath(top.file, path)
                     \/ found # {} /\ alreadyImportedAbsPath(file)
                  /\ stack' = Advance /\ UNCHANGED <<imported, diags>>
               \/ /\ ~alreadyImportedRelPath(top.file, path) /\ found # {} /\ ~alreadyImportedAbsPath(file)
                  /\ imported' = <<file>> \o imported
                  /\ stack' = Append(Advance, [file |-> file, pos |-> 1])
                  /\ UNCHANGED diags
               \/ /\ ~alreadyImportedRelPath(top.file, path) /\ found = {}
                  /\ diags' = diags \union {"errUnresolvedImport"} /\ stack' = Advance /\ UNCHANGED imported
  /\ UNCHANGED <<source, phase>>

\* The files in the order in which every later phase visits them.
Contexts == <<source.main>> \o imported

\* A phase ends: with diagnostics it was the last one.
Then(nextPhase) == IF diags = {} THEN nextPhase ELSE "rejected"

EndImports == /\ phase = "import" /\ stack = <<>>
              /\ phase' = Then("types")
              /\ UNCHANGED <<source, stack, imported, diags>>

\* What the phases that follow may do with the imports: read them.
LaterPhases == /\ phase # "import" /\ phase' # "import"
               /\ phase = "rejected" => phase' = "rejected"
               /\ UNCHANGED <<source, stack, imported>>

ImportsInit ==
  /\ \E family \in DOMAIN Sources : source \in Sources[family]
  /\ stack = <<[file |-> source.main, pos |-> 1]>> /\ imported = <<>>
  /\ phase = "import" /\ diags = {}

ImportsNext == ImportStmt \/ EndImports \/ LaterPhases

ImportsSpec == ImportsInit /\ [][ImportsNext]_importVars

---------------------------------------------------------------------------

\* Every file is imported at most once, the main source never, and each import statement that was
\* not reported leads to a file that is there.
ImportsSettled ==
  /\ \A i, j \in DOMAIN Contexts : i # j => Contexts[i] # Contexts[j]
  /\ phase \notin {"import", "rejected"} =>
       \A f \in Range(Contexts) : \A p \in Range(source.files[f].imports) :
         \E c \in Range(Candidates(f, p)) : Canonical(c) \intersect Range(Contexts) # {}

=============================================================================
