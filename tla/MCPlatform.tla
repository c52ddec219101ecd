------------------------------ MODULE MCPlatform -----------------------------
(***************************************************************************)
(* The platform layer of the runtime for TLC: calls and their stack,       *)
(* streams and sockets, files, and the file watcher.  The four share no    *)
(* state, so a behaviour exercises one of them, chosen at the start, and   *)
(* the others stay as they are.                                            *)
(***************************************************************************)
EXTENDS PlatformCalls, TcpStream, FileStream, IOWatcher, TLC

CONSTANTS e1, e2

VARIABLE part

platformVars == <<part, callVars, streamVars, fileVars, watcherVars>>
-----------------------------------------------------------------------------
\* Streams: every kind and mode for the calls all streams have, sockets for
\* the ones that race.
Stream(k, m, d) ==
  [kind |-> k, mode |-> m, state |-> "Valid", fd |-> d, file |-> IF d = -1 THEN 0 ELSE 1]

Others ==
  {Stream("file", m, 0) : m \in {"Append", "OpenReadOnly", "Create"}}
    \cup {Stream("console", m, 0) : m \in {"StdIn", "StdOut"}}
    \cup {Stream("process", m, 0) : m \in {"StdIn", "StdOut"}}
    \cup {Stream("file", "Open", -1)}

Pair(f, p, q) == [first |-> f, program |-> (e1 :> p @@ e2 :> q)]

MCScenarios ==
  {Pair(f, <<"read", "write">>, <<"options", "read">>) : f \in Others} \cup
  {Pair(f, <<"open", "read">>, <<"open">>) : f \in Others} \cup
  {Pair(f, <<"isterm">>, <<"term", "shutdown", "accept">>) : f \in Others} \cup
  {Pair(Stream("tcp", "Connection", 0), <<"read", "write">>, <<"write", "shutdown">>),
   Pair(Stream("tcp", "Connection", 0), <<"read", "connect">>, <<"accept", "options">>),
   Pair(Stream("tcp", "Server", 0), <<"accept", "read">>, <<"shutdown", "server">>),
   Pair(Stream("tcp", "Server", 0), <<"shutdown", "connect">>, <<"shutdown", "server">>),
   Pair(Stream("tcp", "Server", 0), <<"accept", "shutdown">>, <<"accept", "write">>),
   Pair(Stream("tcp", "Server", 0), <<"connect", "lookup">>, <<"connect">>)}
-----------------------------------------------------------------------------
\* Files: listings while names change, and CreateNew against every mode.
MCNameLength == "a" :> 1 @@ "bb" :> 2 @@ "ccc" :> 3

Directory(a, b, c, fs, p, q) ==
  [entries |-> ("a" :> a @@ "bb" :> b @@ "ccc" :> c), files |-> fs,
   program |-> (e1 :> p @@ e2 :> q)]

NameCalls == {"mkdir", "remove", "rmdir", "rename", "stat", "type"}

MCFileScenarios ==
  {Directory(1, 2, 3, <<"Regular", "Symlink", "Directory">>, <<<<op>>>>, <<<<x>>, <<"list">>>>) :
     op \in {"list", "count"}, x \in NameCalls} \cup
  {Directory(1, 0, 0, <<"Regular">>, <<<<op>>>>, <<<<"mkdir">>, <<"open", "Create">>>>) :
     op \in {"list", "count"}} \cup
  {Directory(0, 1, 0, <<"Regular">>, <<<<"open", "CreateNew">>, <<"open", m>>>>,
             <<<<"open", "CreateNew">>, <<"remove">>>>) : m \in Modes} \cup
  {Directory(0, 0, 1, <<"Directory">>, <<<<"open", "OpenReadOnly">>>>, <<<<"open", "Create">>>>)}
-----------------------------------------------------------------------------
\* The watched tree: nothing yet, or one directory in another.
MCTrees ==
  {[parent |-> ("x" :> None @@ "y" :> None), label |-> ("x" :> None @@ "y" :> None)],
   [parent |-> ("x" :> Root @@ "y" :> "x"), label |-> ("x" :> "p" @@ "y" :> "q")]}
-----------------------------------------------------------------------------
\* Every behaviour may end once no call is under way.
Rest ==
  /\ CASE part = "calls"   -> CallReturned
       [] part = "streams" -> \A e \in Executors : calls[e].stage = "done"
       [] part = "files"   -> \A e \in FileExecutors : listing[e].stage = "done"
       [] part = "watcher" -> \A e \in WatchExecutors : wpc[e] \in {"out", "gone", "next"}
  /\ UNCHANGED platformVars

MCInit ==
  /\ part \in {"calls", "streams", "files", "watcher"}
  /\ CallsInit
  /\ IF part = "streams" THEN StreamsInit
     ELSE StreamsInit /\ streams[1] = Stream("file", "Open", -1) /\ Len(program[e1]) = 1
  /\ IF part = "files" THEN FilesInit ELSE FilesInit /\ fprogram[e2] = <<<<"open", "Create">>>>
  /\ IF part = "watcher" THEN WatcherInit ELSE WatcherInit /\ setup = <<>> /\ parent["x"] = None

MCNext ==
  /\ UNCHANGED part
  /\ \/ part = "calls" /\ CallsNext /\ UNCHANGED <<streamVars, fileVars, watcherVars>>
     \/ part = "streams" /\ StreamsNext /\ UNCHANGED <<callVars, fileVars, watcherVars>>
     \/ part = "files" /\ FilesNext /\ UNCHANGED <<callVars, streamVars, watcherVars>>
     \/ part = "watcher" /\ WatcherNext /\ UNCHANGED <<callVars, streamVars, fileVars>>

\* Threads run, and the receive timeout of a socket elapses.
Streaming(A) == part = "streams" /\ A /\ UNCHANGED <<part, callVars, fileVars, watcherVars>>

MCFairness ==
  \A e \in Executors :
    /\ WF_platformVars(Streaming(CheckState(e)))
    /\ WF_platformVars(Streaming(Enter(e)))
    /\ WF_platformVars(Streaming(AcceptTimeout(e)))
    /\ WF_platformVars(Streaming(Resume(e)))
    /\ WF_platformVars(Streaming(FinishAccept(e)))

MCSpec == MCInit /\ [][MCNext \/ Rest]_platformVars /\ MCFairness
=============================================================================
