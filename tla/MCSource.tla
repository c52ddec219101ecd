------------------------------ MODULE MCSource ------------------------------
(* The half of novc that reads sources, on small instances: texts are lexed   *)
(* and parsed, token sequences are parsed, parsed sources are analysed.       *)
EXTENDS MCSyntax, MCFrontend

\* What the part has that does not run.
NoText   == text = <<>> /\ inputPos = -1 /\ tokens = <<>> /\ junk = "other" /\ readPos = 1 /\ stmts = <<>>
NoSource == /\ source = Single(<<>>, <<>>, <<>>) /\ prog = [types |-> NoConsts, funcs |-> <<>>, reversed |-> FALSE]
            /\ phase = "rejected" /\ next = 1 /\ pass = [first |-> TRUE, all |-> TRUE, one |-> FALSE]
            /\ stack = <<>> /\ imported = <<>> /\ decls = <<>> /\ processed = {} /\ execs = <<>> /\ diags = {}

SourceInit == \/ SyntaxInit /\ NoSource
              \/ FrontInit /\ NoText
SourceNext == \/ SyntaxNext /\ UNCHANGED frontVars
              \/ FrontNext /\ UNCHANGED syntaxVars

SourceSpec == SourceInit /\ [][SourceNext]_<<syntaxVars, frontVars>> /\ Progress
=============================================================================
