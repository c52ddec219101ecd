---------------------------- MODULE PlatformCalls ----------------------------
(***************************************************************************)
(* Platform calls (pcall.hpp), from the intrinsic action a program calls   *)
(* to the value the call leaves on the operand stack.                      *)
(*                                                                         *)
(* Three places have to agree without anything comparing them: the         *)
(* signatures the compiler checks calls against (program.cpp), the call    *)
(* codes the backend emits (gen_expr.cpp) and the stack operations of      *)
(* every call (pcall.hpp).  A call that blocks does so as Paused: the      *)
(* collector may run meanwhile and sees only what is on the stack.         *)
(***************************************************************************)
EXTENDS Naturals, Sequences, FiniteSets

VARIABLES
  action,     \* the intrinsic being called ("none": not yet chosen)
  todo,       \* the operations of the call that are left
  operands,   \* the operand stack: values [kind, ref]
  locals,     \* the values the C++ frame of the call holds
  execState,  \* the executor's state
  alive,      \* the references the collector has not freed
  fresh       \* the next reference

callVars == <<action, todo, operands, locals, execState, alive, fresh>>

RefKinds == {"string", "sys_stream", "sys_process", "sys_iowatcher"}
Sig(input, output) == [input |-> input, output |-> output]
-----------------------------------------------------------------------------
(***************************************************************************)
(* What the compiler is told: the argument and result types of every       *)
(* intrinsic action.                                                       *)
(***************************************************************************)
StreamActions ==
  [ActionEndiannessNative     |-> Sig(<<>>, "int"),
   ActionPlatformErrorCode    |-> Sig(<<>>, "int"),
   ActionStreamCheckValid     |-> Sig(<<"sys_stream">>, "bool"),
   ActionStreamReadString     |-> Sig(<<"sys_stream", "int">>, "string"),
   ActionStreamWriteString    |-> Sig(<<"sys_stream", "string">>, "bool"),
   ActionStreamSetOptions     |-> Sig(<<"sys_stream", "int">>, "bool"),
   ActionStreamUnsetOptions   |-> Sig(<<"sys_stream", "int">>, "bool"),
   ActionProcessStart         |-> Sig(<<"string", "int">>, "sys_process"),
   ActionProcessBlock         |-> Sig(<<"sys_process">>, "int"),
   ActionProcessOpenStream    |-> Sig(<<"sys_process", "int">>, "sys_stream"),
   ActionProcessGetId         |-> Sig(<<"sys_process">>, "long"),
   ActionProcessSendSignal    |-> Sig(<<"sys_process", "int">>, "bool"),
   ActionTcpOpenCon           |-> Sig(<<"string", "int", "int">>, "sys_stream"),
   ActionTcpStartServer       |-> Sig(<<"int", "int", "int">>, "sys_stream"),
   ActionTcpAcceptCon         |-> Sig(<<"sys_stream">>, "sys_stream"),
   ActionTcpShutdown          |-> Sig(<<"sys_stream">>, "bool"),
   ActionIpLookupAddress      |-> Sig(<<"string", "int">>, "string"),
   ActionConsoleOpenStream    |-> Sig(<<"int">>, "sys_stream"),
   ActionIsTerm               |-> Sig(<<"sys_stream">>, "bool"),
   ActionTermSetOptions       |-> Sig(<<"sys_stream", "int">>, "bool"),
   ActionTermUnsetOptions     |-> Sig(<<"sys_stream", "int">>, "bool"),
   ActionTermGetWidth         |-> Sig(<<"sys_stream">>, "int"),
   ActionTermGetHeight        |-> Sig(<<"sys_stream">>, "int")]

SystemActions ==
  [ActionFileOpenStream             |-> Sig(<<"string", "int">>, "sys_stream"),
   ActionFileType                   |-> Sig(<<"string">>, "int"),
   ActionFileModTimeMicroSinceEpoch |-> Sig(<<"string">>, "long"),
   ActionFileSize                   |-> Sig(<<"string">>, "long"),
   ActionFileCreateDir              |-> Sig(<<"string">>, "bool"),
   ActionFileRemove                 |-> Sig(<<"string">>, "bool"),
   ActionFileRemoveDir              |-> Sig(<<"string">>, "bool"),
   ActionFileRename                 |-> Sig(<<"string", "string">>, "bool"),
   ActionFileDirList                |-> Sig(<<"string", "int">>, "string"),
   ActionFileDirCount               |-> Sig(<<"string", "int">>, "int"),
   ActionEnvGetArg                  |-> Sig(<<"int">>, "string"),
   ActionEnvGetArgCount             |-> Sig(<<>>, "int"),
   ActionEnvHasVar                  |-> Sig(<<"string">>, "bool"),
   ActionEnvGetVar                  |-> Sig(<<"string">>, "string"),
   ActionInteruptIsReq              |-> Sig(<<>>, "bool"),
   ActionInteruptResetReq           |-> Sig(<<>>, "bool"),
   ActionClockMicroSinceEpoch       |-> Sig(<<>>, "long"),
   ActionClockNanoSteady            |-> Sig(<<>>, "long"),
   ActionClockTimezoneOffset        |-> Sig(<<>>, "int"),
   ActionVersionRt                  |-> Sig(<<>>, "string"),
   ActionVersionCompiler            |-> Sig(<<>>, "string"),
   ActionIOWatcherCreate            |-> Sig(<<"string", "int">>, "sys_iowatcher"),
   ActionIOWatcherGet               |-> Sig(<<"sys_iowatcher">>, "string"),
   ActionPlatformCode               |-> Sig(<<>>, "int"),
   ActionWorkingDirPath             |-> Sig(<<>>, "string"),
   ActionRtPath                     |-> Sig(<<>>, "string"),
   ActionProgramPath                |-> Sig(<<>>, "string"),
   ActionGcCollect                  |-> Sig(<<"int">>, "int"),
   ActionSleepNano                  |-> Sig(<<"long">>, "bool")]

Actions == DOMAIN StreamActions \cup DOMAIN SystemActions

Signature(a) ==
  IF a \in DOMAIN StreamActions THEN StreamActions[a] ELSE SystemActions[a]
-----------------------------------------------------------------------------
(***************************************************************************)
(* What the backend emits for each of them, one call code per action.      *)
(***************************************************************************)
StreamPCalls ==
  [ActionEndiannessNative   |-> "EndiannessNative",
   ActionPlatformErrorCode  |-> "PlatformErrorCode",
   ActionStreamCheckValid   |-> "StreamCheckValid",
   ActionStreamReadString   |-> "StreamReadString",
   ActionStreamWriteString  |-> "StreamWriteString",
   ActionStreamSetOptions   |-> "StreamSetOptions",
   ActionStreamUnsetOptions |-> "StreamUnsetOptions",
   ActionProcessStart       |-> "ProcessStart",
   ActionProcessBlock       |-> "ProcessBlock",
   ActionProcessOpenStream  |-> "ProcessOpenStream",
   ActionProcessGetId       |-> "ProcessGetId",
   ActionProcessSendSignal  |-> "ProcessSendSignal",
   ActionTcpOpenCon         |-> "TcpOpenCon",
   ActionTcpStartServer     |-> "TcpStartServer",
   ActionTcpAcceptCon       |-> "TcpAcceptCon",
   ActionTcpShutdown        |-> "TcpShutdown",
   ActionIpLookupAddress    |-> "IpLookupAddress",
   ActionConsoleOpenStream  |-> "ConsoleOpenStream",
   ActionIsTerm             |-> "IsTerm",
   ActionTermSetOptions     |-> "TermSetOptions",
   ActionTermUnsetOptions   |-> "TermUnsetOptions",
   ActionTermGetWidth       |-> "TermGetWidth",
   ActionTermGetHeight      |-> "TermGetHeight"]

SystemPCalls ==
  [ActionFileOpenStream             |-> "FileOpenStream",
   ActionFileType                   |-> "FileType",
   ActionFileModTimeMicroSinceEpoch |-> "FileModTimeMicroSinceEpoch",
   ActionFileSize                   |-> "FileSize",
   ActionFileCreateDir              |-> "FileCreateDir",
   ActionFileRemove                 |-> "FileRemove",
   ActionFileRemoveDir              |-> "FileRemoveDir",
   ActionFileRename                 |-> "FileRename",
   ActionFileDirList                |-> "FileDirList",
   ActionFileDirCount               |-> "FileDirCount",
   ActionEnvGetArg                  |-> "EnvGetArg",
   ActionEnvGetArgCount             |-> "EnvGetArgCount",
   ActionEnvHasVar                  |-> "EnvHasVar",
   ActionEnvGetVar                  |-> "EnvGetVar",
   ActionInteruptIsReq              |-> "InteruptIsReq",
   ActionInteruptResetReq           |-> "InteruptResetReq",
   ActionClockMicroSinceEpoch       |-> "ClockMicroSinceEpoch",
   ActionClockNanoSteady            |-> "ClockNanoSteady",
   ActionClockTimezoneOffset        |-> "ClockTimezoneOffset",
   ActionVersionRt                  |-> "VersionRt",
   ActionVersionCompiler            |-> "VersionCompiler",
   ActionIOWatcherCreate            |-> "IOWatcherCreate",
   ActionIOWatcherGet               |-> "IOWatcherGet",
   ActionPlatformCode               |-> "PlatformCode",
   ActionWorkingDirPath             |-> "WorkingDirPath",
   ActionRtPath                     |-> "RtPath",
   ActionProgramPath                |-> "ProgramPath",
   ActionGcCollect                  |-> "GcCollect",
   ActionSleepNano                  |-> "SleepNano"]

addPCall(a) == IF a \in DOMAIN StreamPCalls THEN StreamPCalls[a] ELSE SystemPCalls[a]
-----------------------------------------------------------------------------
(***************************************************************************)
(* What each call does to the stack, operation by operation.  A local      *)
(* variable of the C++ code is named; "_" is a value nobody keeps.         *)
(***************************************************************************)
POP(k, n)        == [op |-> "pop", kind |-> k, name |-> n, at |-> 0]
POP_AT(k, i)     == [op |-> "pop", kind |-> k, name |-> "_", at |-> i]
PEEK(k, i, n)    == [op |-> "peek", kind |-> k, name |-> n, at |-> i]
\* getStringRef(): flattening a chain of links allocates, CHECK_ALLOC.
CHECK_STRING(n)  == [op |-> "check", name |-> n]
\* An allocation whose result is kept in n ("null" when it fails).
ALLOC(k, n)      == [op |-> "alloc", kind |-> k, name |-> n]
PUSH_REF(n)      == [op |-> "pushref", name |-> n]
PUSH(k)          == [op |-> "push", kind |-> k]
PUSH_INT         == PUSH("int")
PUSH_BOOL        == PUSH("bool")
PUSH_LONG        == PUSH("long")
\* Paused, a blocking call that uses the locals `uses', Running, trap();
\* when aborted "return" from the call at once, or carry "on" with what
\* follows the blocking function, whose result is then null.
BLOCK(uses, aborted) == [op |-> "block", uses |-> uses, aborted |-> aborted]

PathCall(result) == <<POP("string", "path"), CHECK_STRING("path"), result>>
PathFlagsCall(k) == <<POP("int", "_"), POP("string", "path"), CHECK_STRING("path")>> \o k
StreamIntCall    == <<POP("int", "_"), POP("sys_stream", "stream"), PUSH_BOOL>>
StreamCall(k)    == <<POP("sys_stream", "stream"), PUSH(k)>>
RefResult(k)     == <<ALLOC(k, "result"), PUSH_REF("result")>>

\* The string is popped before the blocking write.
StreamWriteUnprotected ==
  <<POP("string", "str"), CHECK_STRING("str"), PEEK("sys_stream", 0, "stream"),
    BLOCK({"str", "stream"}, "on"), POP("sys_stream", "_"), PUSH_BOOL>>

StreamWriteString ==
  <<PEEK("string", 0, "str"), CHECK_STRING("str"), PEEK("sys_stream", 1, "stream"),
    BLOCK({"str", "stream"}, "on"), POP("string", "_"), POP("sys_stream", "_"), PUSH_BOOL>>

StreamBodies ==
  [EndiannessNative   |-> <<PUSH_INT>>,
   PlatformErrorCode  |-> <<PUSH_INT>>,
   StreamCheckValid   |-> StreamCall("bool"),
   StreamReadString   |-> <<POP("int", "_"), PEEK("sys_stream", 0, "stream"),
                            ALLOC("string", "str"), PUSH_REF("str"),
                            BLOCK({"stream", "str"}, "on"), POP_AT("sys_stream", 1)>>,
   StreamWriteString  |-> StreamWriteString,
   StreamSetOptions   |-> StreamIntCall,
   StreamUnsetOptions |-> StreamIntCall,
   ProcessStart       |-> PathFlagsCall(RefResult("sys_process")),
   ProcessBlock       |-> <<PEEK("sys_process", 0, "process"), BLOCK({"process"}, "return"),
                            POP("sys_process", "_"), PUSH_INT>>,
   ProcessOpenStream  |-> <<POP("int", "_"), POP("sys_process", "process")>>
                          \o RefResult("sys_stream"),
   ProcessGetId       |-> <<POP("sys_process", "process"), PUSH_LONG>>,
   ProcessSendSignal  |-> <<POP("int", "_"), POP("sys_process", "process"), PUSH_BOOL>>,
   TcpOpenCon         |-> <<POP("int", "_"), POP("int", "_"), PEEK("string", 0, "addr"),
                            CHECK_STRING("addr"), BLOCK({"addr"}, "on"),
                            ALLOC("sys_stream", "result"), POP("string", "_"),
                            PUSH_REF("result")>>,
   TcpStartServer     |-> <<POP("int", "_"), POP("int", "_"), POP("int", "_")>>
                          \o RefResult("sys_stream"),
   TcpAcceptCon       |-> <<PEEK("sys_stream", 0, "stream"), BLOCK({"stream"}, "on"),
                            ALLOC("sys_stream", "result"), POP("sys_stream", "_"),
                            PUSH_REF("result")>>,
   TcpShutdown        |-> StreamCall("bool"),
   IpLookupAddress    |-> <<POP("int", "_"), PEEK("string", 0, "host"), CHECK_STRING("host"),
                            BLOCK({"host"}, "on"), ALLOC("string", "result"),
                            POP("string", "_"), PUSH_REF("result")>>,
   ConsoleOpenStream  |-> <<POP("int", "_")>> \o RefResult("sys_stream"),
   IsTerm             |-> StreamCall("bool"),
   TermSetOptions     |-> StreamIntCall,
   TermUnsetOptions   |-> StreamIntCall,
   TermGetWidth       |-> StreamCall("int"),
   TermGetHeight      |-> StreamCall("int")]

DirList == PathFlagsCall(RefResult("string"))

SystemBodies ==
  [FileOpenStream             |-> PathFlagsCall(RefResult("sys_stream")),
   FileType                   |-> PathCall(PUSH_INT),
   FileModTimeMicroSinceEpoch |-> PathCall(PUSH_LONG),
   FileSize                   |-> PathCall(PUSH_LONG),
   FileCreateDir              |-> PathCall(PUSH_BOOL),
   FileRemove                 |-> PathCall(PUSH_BOOL),
   FileRemoveDir              |-> PathCall(PUSH_BOOL),
   FileRename                 |-> <<POP("string", "new"), CHECK_STRING("new")>>
                                  \o PathCall(PUSH_BOOL),
   FileDirList                |-> DirList,
   FileDirCount               |-> PathFlagsCall(<<PUSH_INT>>),
   EnvGetArg                  |-> <<POP("int", "_")>> \o RefResult("string"),
   EnvGetArgCount             |-> <<PUSH_INT>>,
   EnvHasVar                  |-> PathCall(PUSH_BOOL),
   EnvGetVar                  |-> <<POP("string", "name"), CHECK_STRING("name")>>
                                  \o RefResult("string"),
   InteruptIsReq              |-> <<PUSH_BOOL>>,
   InteruptResetReq           |-> <<PUSH_BOOL>>,
   ClockMicroSinceEpoch       |-> <<PUSH_LONG>>,
   ClockNanoSteady            |-> <<PUSH_LONG>>,
   ClockTimezoneOffset        |-> <<PUSH_INT>>,
   VersionRt                  |-> RefResult("string"),
   VersionCompiler            |-> RefResult("string"),
   IOWatcherCreate            |-> PathFlagsCall(RefResult("sys_iowatcher")),
   IOWatcherGet               |-> <<PEEK("sys_iowatcher", 0, "watcher"),
                                    ALLOC("string", "str"), PUSH_REF("str"),
                                    BLOCK({"watcher", "str"}, "on"),
                                    POP_AT("sys_iowatcher", 1)>>,
   PlatformCode               |-> <<PUSH_INT>>,
   WorkingDirPath             |-> RefResult("string"),
   RtPath                     |-> RefResult("string"),
   ProgramPath                |-> RefResult("string"),
   GcCollect                  |-> <<PEEK("int", 0, "_"), BLOCK({}, "return")>>,
   SleepNano                  |-> <<POP("long", "_"), BLOCK({}, "return"), PUSH_BOOL>>]

pcall(code) ==
  IF code \in DOMAIN StreamBodies THEN StreamBodies[code] ELSE SystemBodies[code]
-----------------------------------------------------------------------------
(***************************************************************************)
(* Carrying a call out.                                                    *)
(***************************************************************************)
\* intValue() and getInt() carry booleans and integers alike.
Kind(k) == IF k = "bool" THEN "int" ELSE k
Val(k, r) == [kind |-> Kind(k), ref |-> r]
Behind(i) == operands[Len(operands) - i]
NoRef == 0

CallsInit ==
  /\ action = "none" /\ todo = <<>> /\ operands = <<>>
  /\ locals = [n \in {} |-> NoRef] /\ execState = "Running"
  /\ alive = {} /\ fresh = 1

\* Compiled code has pushed the arguments, a value of the caller is below.
Call(a) ==
  LET in == Signature(a).input
      args == [i \in 1..Len(in) |-> Val(in[i], IF in[i] \in RefKinds THEN i + 1 ELSE NoRef)]
  IN /\ action = "none"
     /\ action' = a
     /\ todo' = pcall(addPCall(a))
     /\ operands' = <<Val("string", 1)>> \o args
     /\ alive' = ({1} \cup {args[i].ref : i \in 1..Len(args)}) \ {NoRef}
     /\ fresh' = Len(in) + 2
     /\ UNCHANGED <<locals, execState>>

Running(op) ==
  /\ execState = "Running" /\ todo # <<>> /\ Head(todo).op = op

Next1 == todo' = Tail(todo)
Bind(n, r) == locals' = [x \in DOMAIN locals \cup ({n} \ {"_"}) |-> IF x = n THEN r ELSE locals[x]]
Stop(s) == execState' = s /\ todo' = <<>>

Pop ==
  /\ Running("pop")
  /\ LET i == Len(operands) - Head(todo).at
     IN /\ Bind(Head(todo).name, operands[i].ref)
        /\ operands' = SubSeq(operands, 1, i - 1) \o SubSeq(operands, i + 1, Len(operands))
  /\ Next1 /\ UNCHANGED <<action, execState, alive, fresh>>

Peek ==
  /\ Running("peek")
  /\ Bind(Head(todo).name, Behind(Head(todo).at).ref)
  /\ Next1 /\ UNCHANGED <<action, operands, execState, alive, fresh>>

\* CHECK_ALLOC after getStringRef().
CheckString ==
  /\ Running("check")
  /\ \/ Next1 /\ UNCHANGED execState
     \/ Stop("AllocFailed")
  /\ UNCHANGED <<action, operands, locals, alive, fresh>>

Alloc ==
  /\ Running("alloc")
  /\ \/ /\ Bind(Head(todo).name, fresh)
        /\ fresh' = fresh + 1 /\ alive' = alive \cup {fresh}
     \/ /\ Bind(Head(todo).name, NoRef) /\ UNCHANGED <<fresh, alive>>
  /\ Next1 /\ UNCHANGED <<action, operands, execState>>

\* The kind of a pushed reference is the kind the last allocation made.
PushedKind(n) ==
  LET b == pcall(addPCall(action))
      i == CHOOSE j \in 1..Len(b) : b[j].op = "alloc" /\ b[j].name = n
  IN b[i].kind

\* CHECK_ALLOC, and a full stack.
PushRef ==
  LET r == locals[Head(todo).name]
  IN /\ Running("pushref")
     /\ \/ /\ r = NoRef /\ Stop("AllocFailed") /\ UNCHANGED operands
        \/ /\ r # NoRef /\ Stop("StackOverflow") /\ UNCHANGED operands
        \/ /\ r # NoRef /\ Next1 /\ UNCHANGED execState
           /\ operands' = Append(operands, Val(PushedKind(Head(todo).name), r))
     /\ UNCHANGED <<action, locals, alive, fresh>>

\* PUSH_LONG boxes a negative value, which allocates.
Push ==
  /\ Running("push")
  /\ \/ /\ operands' = Append(operands, Val(Head(todo).kind, NoRef))
        /\ Next1 /\ UNCHANGED execState
     \/ Stop("StackOverflow") /\ UNCHANGED operands
     \/ Head(todo).kind = "long" /\ Stop("AllocFailed") /\ UNCHANGED operands
  /\ UNCHANGED <<action, locals, alive, fresh>>

\* An operation that does not have to wait goes on at once.
Pause ==
  /\ Running("block")
  /\ \/ execState' = "Paused" /\ UNCHANGED todo
     \/ Next1 /\ UNCHANGED execState
  /\ UNCHANGED <<action, operands, locals, alive, fresh>>

\* A collection while the executor is Paused: what no stack shows is freed.
Collect ==
  /\ execState = "Paused"
  /\ alive' = alive \cap {operands[i].ref : i \in 1..Len(operands)}
  /\ UNCHANGED <<action, todo, operands, locals, execState, fresh>>

\* Running again, trap().
ResumeCall ==
  /\ execState = "Paused"
  /\ \/ execState' = "Running" /\ Next1
     \/ Head(todo).aborted = "return" /\ Stop("Aborted")
     \/ Head(todo).aborted = "on" /\ execState' = "Aborted" /\ Next1
  /\ UNCHANGED <<action, operands, locals, alive, fresh>>

\* After the blocking function was aborted: the call still pops its
\* arguments and pushes a boolean, but no null reference.
AbortedEpilogue ==
  /\ execState = "Aborted" /\ todo # <<>>
  /\ LET i == Len(operands) - Head(todo).at
     IN \/ /\ Head(todo).op = "pop"
           /\ operands' = SubSeq(operands, 1, i - 1) \o SubSeq(operands, i + 1, Len(operands))
           /\ Next1
        \/ /\ Head(todo).op = "push"
           /\ operands' = Append(operands, Val(Head(todo).kind, NoRef))
           /\ Next1
        \/ /\ Head(todo).op = "alloc" /\ Next1 /\ UNCHANGED operands
        \/ /\ Head(todo).op = "pushref" /\ todo' = <<>> /\ UNCHANGED operands
  /\ UNCHANGED <<action, locals, execState, alive, fresh>>

CallReturned == action # "none" /\ todo = <<>>

CallsNext ==
  \/ \E a \in Actions : Call(a)
  \/ Pop \/ Peek \/ CheckString \/ Alloc \/ PushRef \/ Push
  \/ Pause \/ Collect \/ ResumeCall \/ AbortedEpilogue
-----------------------------------------------------------------------------
(***************************************************************************)
(* Properties.                                                             *)
(***************************************************************************)
\* Every operation of a call finds the kind of value it reads its operand
\* as, never touches the caller's value, and a call that succeeds leaves
\* exactly the caller's stack and one value of the type the compiler was
\* promised: signatures, emitted codes and stack code agree
\* (program.cpp:182, gen_expr.cpp:400, pcall.hpp:85).
CallsFit ==
  /\ todo # <<>> /\ Head(todo).op \in {"pop", "peek"} =>
       /\ Len(operands) - Head(todo).at > 1
       /\ Behind(Head(todo).at).kind = Head(todo).kind
  /\ CallReturned /\ execState = "Running" =>
       /\ Len(operands) = 2
       /\ operands[1] = Val("string", 1)
       /\ operands[2].kind = Kind(Signature(action).output)

\* Whatever a call still reads while it blocks, or returns afterwards,
\* survives a collection that runs meanwhile (pcall.hpp:99).
ArgumentsSurvive ==
  /\ todo # <<>> /\ Head(todo).op = "block" =>
       \A n \in Head(todo).uses : locals[n] \in alive
  /\ CallReturned => \A i \in 1..Len(operands) : operands[i].ref \in alive \cup {NoRef}

\* Both: the stack fits and what a call uses stays alive (pcall.hpp:27).
CallsSound == CallsFit /\ ArgumentsSurvive
=============================================================================
