-------------------------------- MODULE Compiler --------------------------------
(***************************************************************************)
(* From a program to its end: novc optimizes it (or not), generates code   *)
(* and writes the file (apps/novc/compiler.cpp, src/opt/optimize.cpp);     *)
(* novrt reads the file and runs it (apps/novrt/main.cpp, src/vm/vm.cpp).  *)
(* Every pass of the optimizer is a step, then every instruction of every  *)
(* executor.                                                               *)
(***************************************************************************)
EXTENDS Optimizer, Backend, Interpreter, Language

CONSTANTS
    Programs,         \* the source programs, a sequence
    MaxOptimizeItrs   \* g_maxOptimizeItrs

ASSUME MaxOptimizeItrsAssumption == MaxOptimizeItrs \in Nat \ {0}

VARIABLES
    src,        \* which program is compiled
    prog,       \* the program as it stands
    phase,      \* the pass to run next, or where the compiled program is
    itrs,       \* rounds of optimization completed
    modified,   \* this round changed something
    file        \* the executable file

compiling == <<src, prog, phase, itrs, modified, file>>
vars == <<compiling, machine>>

Idle == /\ exe = NoExecutable
        /\ ex = <<>>
        /\ heap = <<>>
        /\ out = <<>>
        /\ aborting = FALSE

Init == /\ src \in DOMAIN Programs
        /\ prog = Programs[src]
        /\ phase \in {"treeshake", "generate"}
        /\ itrs = 0
        /\ modified = FALSE
        /\ file = <<>>
        /\ Idle

(* Run a pass and go on to the next.                                       *)
Pass(from, to, r) ==
    /\ phase = from
    /\ prog' = r.prog
    /\ modified' = (modified \/ r.modified)
    /\ phase' = to
    /\ UNCHANGED <<src, itrs, file, machine>>

TreeshakeFirst == Pass("treeshake", "eliminate", [prog |-> Treeshake(prog), modified |-> FALSE])
EliminatePass == Pass("eliminate", "precompute", EliminateConsts(prog))
PrecomputePass == Pass("precompute", "inline", PrecomputeLiterals(prog))

(* The last pass of a round, and the loop's condition.                     *)
InlinePass ==
    LET r == InlineCalls(prog)
        again == (modified \/ r.modified) /\ itrs + 1 < MaxOptimizeItrs
    IN  /\ phase = "inline"
        /\ prog' = r.prog
        /\ itrs' = itrs + 1
        /\ modified' = FALSE
        /\ phase' = IF again THEN "eliminate" ELSE "shake"
        /\ UNCHANGED <<src, file, machine>>

TreeshakeLast == Pass("shake", "generate", [prog |-> Treeshake(prog), modified |-> FALSE])

(* generate and serialize.                                                 *)
Build ==
    LET x == Generate(prog)
    IN  /\ phase = "generate"
        /\ exe' = x
        /\ file' = Serialize(x)
        /\ phase' = "load"
        /\ UNCHANGED <<src, prog, itrs, modified, ex, heap, out, aborting>>

(* deserialize and run; a file that is not an executable is refused.       *)
Load ==
    LET x == Deserialize(file)
    IN  /\ phase = "load"
        /\ exe' = x
        /\ ex' = IF x = NoExecutable THEN <<>> ELSE <<RootExecutor(x.entry)>>
        /\ phase' = "run"
        /\ file' = <<>>
        /\ UNCHANGED <<src, prog, itrs, modified, heap, out, aborting>>

Execute(i) == phase = "run" /\ i \in DOMAIN ex /\ Step(i) /\ UNCHANGED compiling

Shutdown == phase = "run" /\ ex # <<>> /\ AbortExecutors /\ UNCHANGED compiling

Ended == phase = "run" /\ ex # <<>> /\ ex[1].pc = "done"

Compile == \/ TreeshakeFirst \/ EliminatePass \/ PrecomputePass \/ InlinePass \/ TreeshakeLast
           \/ Build \/ Load

Next == Compile \/ (\E i \in DOMAIN ex : Execute(i)) \/ Shutdown

(* The operating system runs every thread. No program here has more.       *)
MaxThreads == 3

Spec == Init /\ [][Next]_vars /\ \A i \in 1..MaxThreads : WF_vars(Execute(i))

-------------------------------------------------------------------------------
MeaningOf == [s \in DOMAIN Programs |-> Meaning(Programs[s])]

(* Every pass of the optimizer preserves what the program prints and how   *)
(* it ends.                                                                *)
PassesPreserveMeaning ==
    phase \in {"eliminate", "precompute", "inline", "shake", "generate"} =>
        Meaning(prog) = MeaningOf[src]

(* After every pass the program is closed: functions and types in use are  *)
(* defined, and every constant that is read, written or bound is one of    *)
(* the function's, declared once.                                          *)

(* The file gives back exactly the executable that was generated, and no   *)
(* shorter file is taken for an executable.                                *)
FileRoundTrip ==
    phase = "load" =>
        /\ Deserialize(file) = exe
        /\ \A n \in 0..(Len(file) - 1) : Deserialize(SubSeq(file, 1, n)) = NoExecutable

(* However the executors interleave, the program prints what it means to   *)
(* print and ends as it means to end, optimized or not; only a program of  *)
(* more than bounded recursion (deep) may end by running out of stack, and *)
(* has printed nothing else until then.                                    *)
RunMatchesMeaning ==
    LET m == MeaningOf[src]
    IN  phase = "run" =>
          /\ ex # <<>>
          /\ IsPrefix(out, m.out)
          /\ Ended => \/ ex[1].st = m.st /\ out = m.out
                      \/ ex[1].st = "StackOverflow" /\ Programs[src].deep

(* Every executor decodes an instruction where one was encoded, and its    *)
(* frame is whole: the homes in order, and at a return exactly one value   *)
(* above the function's constants.                                         *)

(* The computed value of a lazy object is written once, by the executor    *)
(* that took its lock, before any executor is told that it is there; no    *)
(* other shared object is ever written.                                    *)
LazyWrittenOnce ==
    [][\A a \in DOMAIN heap :
          heap[a].k = "struct" /\ heap'[a] # heap[a] =>
              LET lock == heap[a].f[1]
              IN  /\ lock[1] = "ref" /\ heap[lock[2]].k = "atomic" /\ heap[lock[2]].v = 1
                  /\ heap'[a].f[1] = lock]_vars

(* A program that has been loaded ends, whatever its forks do: no executor *)
(* waits for ever on a lazy value, a future or a fork that has to start.   *)
Terminates == (phase = "run") ~> Ended
===============================================================================
