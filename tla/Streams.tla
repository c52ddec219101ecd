------------------------------- MODULE Streams -------------------------------
(***************************************************************************)
(* Streams (stream_utilities.hpp and the four ref_stream_*.hpp): reading,  *)
(* writing and configuring file, console, process and tcp streams from     *)
(* several executors at once.                                              *)
(*                                                                         *)
(* Streams are values: executors share them, and nothing serialises their  *)
(* calls.  A descriptor is a small number the system reuses as soon as it  *)
(* is closed; `opened' tells which open file a number stands for now, and  *)
(* every stream remembers (history only) which one it was created with.    *)
(***************************************************************************)
EXTENDS Integers, Sequences, FiniteSets

CONSTANTS Executors,     \* the executors that call
          StreamIds,     \* stream references (numbers)
          Descriptors,   \* descriptor numbers
          Sizes,         \* sizes of strings to read or write
          MaxSignals,    \* bound: signals that interrupt a system call
          Scenarios      \* [first: the stream that exists at the start,
                         \*  program: the calls each executor makes, in order]

Kinds == {"file", "console", "process", "tcp"}

StreamModes ==
  {"Create", "CreateNew", "Open", "OpenReadOnly", "OpenOrCreate", "Append",  \* files
   "StdIn", "StdOut", "StdErr",  \* consoles and processes
   "Connection", "Server"}       \* sockets

ASSUME StreamsAssumption ==
  /\ IsFiniteSet(Executors) /\ IsFiniteSet(StreamIds) /\ IsFiniteSet(Descriptors)
  /\ StreamIds \subseteq Nat /\ Descriptors \subseteq Nat /\ Sizes \subseteq Nat
  /\ MaxSignals \in Nat
  /\ 1 \in StreamIds
  /\ \A c \in Scenarios :
       /\ c.first \in [kind : Kinds, mode : StreamModes,
                       state : {"Valid"}, fd : Descriptors \cup {-1}, file : {0, 1}]
       /\ c.first.file = IF c.first.fd = -1 THEN 0 ELSE 1

VARIABLES
  streams,   \* the stream behind every reference
  opened,    \* the open file behind every descriptor (0: the number is free)
  serial,    \* the number of the next open file
  calls,     \* the call every executor is in, with what the last one gave
  errno,     \* the error number of every executor's thread
  program,   \* the calls every executor has yet to make
  signals,   \* system calls interrupted so far
  aborting,  \* has run() asked the executors to abort?
  nonblock   \* has O_NONBLOCK been set on the console's descriptor?

streamVars == <<streams, opened, serial, calls, errno, program, signals, aborting, nonblock>>

NoStream == [kind |-> "none", mode |-> "none", state |-> "Closed", fd |-> -1, file |-> 0]
Live(s) == streams[s].kind # "none"

\* A call: what, on which stream, how many bytes, where it is, what the
\* system call gave (got: -1 for a failure), its descriptor and file, and
\* the outcome: result and size of the string.  err is the executor's
\* error cell *pErr, which outlives its calls; told (history only) says
\* that this call has written it.  A call ends with why in the cell, or
\* (why = "None") with the cell as it was.
Idle(ret, why, len, c) ==
  [c EXCEPT !.stage = "done", !.ret = ret, !.len = len,
            !.err = IF why = "None" THEN @ ELSE why, !.told = why # "None"]

NoCall ==
  [op |-> "none", s |-> 0, size |-> 0, stage |-> "done", got |-> -1, fd |-> -1, file |-> 0,
   stray |-> FALSE, ret |-> "true", err |-> "None", told |-> FALSE, len |-> 0]

FirstFree == CHOOSE d \in Descriptors : opened[d] = 0 /\ \A x \in Descriptors : opened[x] = 0 => d <= x
AnyFree == \E d \in Descriptors : opened[d] = 0
FreeStream == CHOOSE s \in StreamIds : ~Live(s) /\ \A x \in StreamIds : ~Live(x) => s <= x
AnyFreeStream == \E s \in StreamIds : ~Live(s)
InUse(s) == \E e \in Executors : calls[e].stage # "done" /\ calls[e].s = s

StreamsInit ==
  /\ \E c \in Scenarios :
       /\ streams = [s \in StreamIds |-> IF s = 1 THEN c.first ELSE NoStream]
       /\ program = c.program
  /\ opened = [d \in Descriptors |-> IF d = streams[1].fd THEN 1 ELSE 0]
  /\ serial = 2
  /\ calls = [e \in Executors |-> NoCall]
  /\ errno = [e \in Executors |-> "none"]
  /\ signals = 0 /\ aborting = FALSE /\ nonblock = FALSE
-----------------------------------------------------------------------------
(***************************************************************************)
(* What tells the four kinds of stream apart.                              *)
(***************************************************************************)
isValid(r) == r.fd # -1 /\ (r.kind = "tcp" => r.state = "Valid")

ReadNotSupported(r) ==
  CASE r.kind = "file"    -> r.mode = "Append"
    [] r.kind = "console" -> r.mode # "StdIn"
    [] r.kind = "process" -> r.mode = "StdIn"
    [] r.kind = "tcp"     -> r.mode # "Connection"

WriteNotSupported(r) ==
  CASE r.kind = "file"    -> r.mode = "OpenReadOnly"
    [] r.kind = "console" -> r.mode = "StdIn"
    [] r.kind = "process" -> r.mode # "StdIn"
    [] r.kind = "tcp"     -> r.mode # "Connection"

\* A process stream hands an empty string to the system, the others do not.
SkipsEmpty(r, op) == ~(op = "write" /\ r.kind = "process")

getFilePlatformError(n) ==
  CASE n \in {"EACCES", "EPERM", "EROFS"} -> "FileNoAccess"
    [] n = "ETXTBSY" -> "FileLocked"
    [] n \in {"EDQUOT", "ENOSPC"} -> "FileDiskFull"
    [] n = "ENOENT" -> "FileNotFound"
    [] n = "EISDIR" -> "FileIsDirectory"
    [] n = "ENOTDIR" -> "FileIsNotDirectory"
    [] n = "ENAMETOOLONG" -> "FilePathTooLong"
    [] n = "EEXIST" -> "FileAlreadyExists"
    [] n = "ENOTEMPTY" -> "FileDirectoryNotEmpty"
    [] n = "EINVAL" -> "FileInvalidFileName"
    [] n \in {"EMFILE", "ENFILE"} -> "FileTooManyOpenFiles"
    [] OTHER -> "FileUnknownError"

getConsolePlatformError(n) ==
  CASE n = "EAGAIN" -> "StreamNoDataAvailable"
    [] n \in {"ENOENT", "ETIMEDOUT", "EPIPE"} -> "ConsoleNoLongerAvailable"
    [] OTHER -> "ConsoleUnknownError"

getProcessStreamPlatformError(n) ==
  IF n = "EPIPE" THEN "StreamNoDataAvailable" ELSE "ConsoleUnknownError"

getTcpPlatformError(n) ==
  CASE n = "EALREADY" -> "TcpAlreadyInProcess"
    [] n \in {"ENETDOWN", "EPROTO", "EHOSTDOWN"} -> "TcpNetworkDown"
    [] n = "ENETUNREACH" -> "TcpNetworkUnreachable"
    [] n \in {"EMFILE", "ENFILE", "ENOBUFS", "ENOMEM"} -> "TcpSocketCouldNotBeAllocated"
    [] n = "EACCES" -> "TcpNoAccess"
    [] n = "EADDRINUSE" -> "TcpAddressInUse"
    [] n = "EADDRNOTAVAIL" -> "TcpAddressUnavailable"
    [] n = "EAFNOSUPPORT" -> "TcpAddressFamilyNotSupported"
    [] n = "ECONNREFUSED" -> "TcpConnectionRefused"
    [] n = "ETIMEDOUT" -> "TcpTimeout"
    [] n = "ECONNRESET" -> "TcpRemoteResetConnection"
    [] n \in {"EPIPE", "EPROTOTYPE", "EBADF", "EINVAL"} -> "TcpSocketIsDead"
    [] OTHER -> "TcpUnknownError"

\* A receive that timed out is told apart (readString only).
TransferError(r, op, n) ==
  CASE r.kind = "file"    -> getFilePlatformError(n)
    [] r.kind = "console" -> getConsolePlatformError(n)
    [] r.kind = "process" -> getProcessStreamPlatformError(n)
    [] r.kind = "tcp"     -> IF op = "read" /\ n = "EAGAIN" THEN "TcpTimeout"
                             ELSE getTcpPlatformError(n)

\* The errors the system may give a read or write of such a stream, besides
\* an interruption.
TransferErrnos(r, op) ==
  CASE r.kind = "file"    -> {"EISDIR"} \cup IF op = "write" THEN {"ENOSPC"} ELSE {}
    [] r.kind = "console" -> {"EIO"} \cup IF nonblock THEN {"EAGAIN"} ELSE {}
    [] r.kind = "process" -> IF op = "write" THEN {"EPIPE"} ELSE {"EIO"}
    [] r.kind = "tcp"     -> IF op = "write" THEN {"EPIPE"} ELSE {"ECONNRESET"}
-----------------------------------------------------------------------------
(***************************************************************************)
(* Reading and writing.                                                    *)
(***************************************************************************)
SetCall(e, c) == calls' = [calls EXCEPT ![e] = c]

\* An executor begins a call: a new record, but for the error an earlier
\* call left in the executor's cell.
Begin(e, op, s, size) ==
  [NoCall EXCEPT !.op = op, !.s = s, !.size = size, !.stage = "check", !.err = calls[e].err]

CanCall(e, op) ==
  /\ calls[e].stage = "done" /\ calls[e].ret # "aborted"
  /\ program[e] # <<>> /\ Head(program[e]) = op
  /\ program' = [program EXCEPT ![e] = Tail(@)]

\* streamReadString, streamWriteString, and the guards of readString and
\* writeString: the executor becomes Paused only when the system is called.
Transfer(e, op, s, n) ==
  LET r == streams[s]
      c == Begin(e, op, s, n)
  IN /\ CanCall(e, op) /\ Live(s)
     /\ SetCall(e,
          IF ~isValid(r) THEN Idle("false", "StreamInvalid", 0, c)
          ELSE IF op = "read" /\ ReadNotSupported(r) THEN Idle("false", "StreamReadNotSupported", 0, c)
          ELSE IF op = "write" /\ WriteNotSupported(r) THEN Idle("false", "StreamWriteNotSupported", n, c)
          ELSE IF n = 0 /\ SkipsEmpty(r, op) THEN Idle("true", "None", 0, c)
          ELSE c)
     /\ UNCHANGED <<streams, opened, serial, errno, signals, aborting, nonblock>>

\* The loops over a tcp stream stop when it is no longer Valid.
LoopGoesOn(r) == r.kind = "tcp" => r.state = "Valid"

CheckState(e) ==
  LET c == calls[e]
  IN /\ c.stage = "check"
     /\ SetCall(e, IF LoopGoesOn(streams[c.s])
                   THEN [c EXCEPT !.stage = "enter"]
                   ELSE [c EXCEPT !.stage = "resume", !.got = -1])
     /\ UNCHANGED <<streams, opened, serial, errno, program, signals, aborting, nonblock>>

\* The kernel looks the descriptor up: it may stand for another file by now.
Enter(e) ==
  LET c == calls[e]
      d == streams[c.s].fd
  IN /\ c.stage = "enter" /\ c.op # "connect"
     /\ IF opened[d] = 0
        THEN /\ SetCall(e, [c EXCEPT !.stage = "resume", !.got = -1])
             /\ errno' = [errno EXCEPT ![e] = "EBADF"]
        ELSE /\ SetCall(e, [c EXCEPT !.stage = "blocked", !.file = opened[d],
                                     !.stray = opened[d] # streams[c.s].file])
             /\ UNCHANGED errno
     /\ UNCHANGED <<streams, opened, serial, program, signals, aborting, nonblock>>

\* Bytes were transferred (0: end of the stream, or an empty write).
Transferred(e) ==
  LET c == calls[e]
  IN /\ c.stage = "blocked" /\ c.op \in {"read", "write"}
     /\ \E n \in 0..c.size : SetCall(e, [c EXCEPT !.stage = "resume", !.got = n])
     /\ UNCHANGED <<streams, opened, serial, errno, program, signals, aborting, nonblock>>

Fails(e, n) ==
  /\ SetCall(e, [calls[e] EXCEPT !.stage = "resume", !.got = -1])
  /\ errno' = [errno EXCEPT ![e] = n]

TransferFails(e) ==
  LET c == calls[e]
  IN /\ c.stage = "blocked" /\ c.op \in {"read", "write"}
     /\ \E n \in TransferErrnos(streams[c.s], c.op) : Fails(e, n)
     /\ UNCHANGED <<streams, opened, serial, program, signals, aborting, nonblock>>

\* The receive timeout of a socket (configureSocket) elapses.
ReceiveTimeout(e) ==
  LET c == calls[e]
  IN /\ c.stage = "blocked" /\ c.op = "read" /\ streams[c.s].kind = "tcp"
     /\ Fails(e, "EAGAIN")
     /\ UNCHANGED <<streams, opened, serial, program, signals, aborting, nonblock>>

\* A signal interrupts the system call: only the tcp loops try again.
TransferInterrupted(e) ==
  LET c == calls[e]
  IN /\ c.stage = "blocked" /\ c.op \in {"read", "write"} /\ signals < MaxSignals
     /\ signals' = signals + 1
     /\ errno' = [errno EXCEPT ![e] = "EINTR"]
     /\ SetCall(e, [c EXCEPT !.stage = IF streams[c.s].kind = "tcp" THEN "check" ELSE "resume",
                             !.got = -1])
     /\ UNCHANGED <<streams, opened, serial, program, aborting, nonblock>>

\* setState(Running) and trap(): an aborted executor gives up.
Resume(e) ==
  LET c == calls[e]
  IN /\ c.stage = "resume"
     /\ SetCall(e, IF aborting THEN Idle("aborted", "None", c.size, c)
                   ELSE [c EXCEPT !.stage = "finish"])
     /\ UNCHANGED <<streams, opened, serial, errno, program, signals, aborting, nonblock>>

\* A failed transfer ends a tcp stream.
MarkFailed(c) ==
  streams' = IF c.got = -1 /\ streams[c.s].kind = "tcp"
             THEN [streams EXCEPT ![c.s].state = "Failed"] ELSE streams

\* The end of a stream leaves the error cell alone.
ReadOutcomeUntold(e, c) ==
  IF c.got > 0 THEN Idle("true", "None", c.got, c)
  ELSE IF c.got = 0 THEN Idle("false", "None", 0, c)
  ELSE Idle("false", TransferError(streams[c.s], "read", errno[e]), 0, c)

ReadOutcome(e, c) ==
  IF c.got > 0 THEN Idle("true", "None", c.got, c)
  ELSE IF c.got = 0 THEN Idle("false", "StreamNoDataAvailable", 0, c)
  ELSE Idle("false", TransferError(streams[c.s], "read", errno[e]), 0, c)

FinishRead(e) ==
  LET c == calls[e]
  IN /\ c.stage = "finish" /\ c.op = "read"
     /\ SetCall(e, ReadOutcome(e, c)) /\ MarkFailed(c)
     /\ UNCHANGED <<opened, serial, errno, program, signals, aborting, nonblock>>

\* A short write is an error; after one, errno is what an earlier call left.
WriteOutcome(e, c) ==
  IF c.got = c.size THEN Idle("true", "None", c.size, c)
  ELSE IF c.got >= 0 /\ streams[c.s].kind = "tcp"
       THEN Idle("false", "TcpUnknownError", c.size, c)
       ELSE Idle("false", TransferError(streams[c.s], "write", errno[e]), c.size, c)

FinishWrite(e) ==
  LET c == calls[e]
  IN /\ c.stage = "finish" /\ c.op = "write"
     /\ SetCall(e, WriteOutcome(e, c)) /\ MarkFailed(c)
     /\ UNCHANGED <<opened, serial, errno, program, signals, aborting, nonblock>>
-----------------------------------------------------------------------------
(***************************************************************************)
(* Options of a stream and of a terminal: no call of these blocks.         *)
(***************************************************************************)
\* fcntl() may refuse; options without NoBlock change nothing and count as
\* not supported.
FileDescriptorOpts(opts) == {"NoBlock"} \cap opts # {}

SetOptions(e, s, opts, on) ==
  LET r == streams[s]
      c == Begin(e, "options", s, 0)
      ok == r.kind = "console" /\ FileDescriptorOpts(opts)
  IN /\ CanCall(e, "options") /\ Live(s)
     /\ \/ /\ ~isValid(r)
           /\ SetCall(e, Idle("false", "StreamInvalid", 0, c)) /\ UNCHANGED nonblock
        \/ /\ isValid(r) /\ ok
           /\ SetCall(e, Idle("true", "None", 0, c)) /\ nonblock' = on
        \/ /\ isValid(r)  \* not supported, or fcntl() failed
           /\ SetCall(e, Idle("false", "StreamOptionsNotSupported", 0, c))
           /\ UNCHANGED nonblock
     /\ UNCHANGED <<streams, opened, serial, errno, signals, aborting>>

\* getIsTerm: false for a console that is no terminal, which is no error.
GetIsTerm(e, s, terminal) ==
  LET r == streams[s]
      c == Begin(e, "isterm", s, 0)
  IN /\ CanCall(e, "isterm") /\ Live(s)
     /\ SetCall(e, IF r.kind = "console" /\ isValid(r)
                   THEN Idle(IF terminal THEN "true" ELSE "false", "None", 0, c)
                   ELSE Idle("false", "ConsoleUnknownError", 0, c))
     /\ UNCHANGED <<streams, opened, serial, errno, signals, aborting, nonblock>>

\* termGetWidth, termGetHeight, termSetOpts and termUnsetOpts: not a
\* console, not a terminal, its state cannot be read, or not be written.
TermCall(e, s, outcome) ==
  LET r == streams[s]
      c == Begin(e, "term", s, 0)
  IN /\ CanCall(e, "term") /\ Live(s)
     /\ SetCall(e,
          IF r.kind # "console" \/ ~isValid(r) THEN Idle("false", "ConsoleUnknownError", 0, c)
          ELSE IF outcome = "None" THEN Idle("true", "None", 0, c)
          ELSE Idle("false", outcome, 0, c))
     /\ UNCHANGED <<streams, opened, serial, errno, signals, aborting, nonblock>>

TermOutcomes ==
  {"None", "ConsoleNoTerminal", "ConsoleFailedToGetTermInfo", "ConsoleFailedToUpdateTermInfo"}

\* openConsoleStream and openProcessStream: one more stream on the console
\* or pipe that stream s is on; they borrow its descriptor.
OpenBorrowed(e, s, there) ==
  LET c == Begin(e, "open", s, 0)
      r == streams[s]
  IN /\ CanCall(e, "open") /\ r.kind \in {"console", "process"}
     /\ \/ /\ AnyFreeStream
           /\ streams' = [streams EXCEPT ![FreeStream] = IF there THEN r ELSE [r EXCEPT !.fd = -1, !.file = 0]]
           /\ SetCall(e, IF there \/ r.kind = "process" THEN Idle("true", "None", 0, c)
                         ELSE Idle("false", "ConsoleNotPresent", 0, c))
        \/ /\ UNCHANGED streams
           /\ SetCall(e, Idle("aborted", "None", 0, c))
     /\ UNCHANGED <<opened, serial, errno, signals, aborting, nonblock>>

\* The collector frees a stream nobody holds: files and sockets are closed,
\* a console or process stream leaves its descriptor alone.
Destroy(s) ==
  LET r == streams[s]
      closes == r.kind \in {"file", "tcp"} /\ r.fd # -1 /\ ~(r.kind = "tcp" /\ r.state = "Closed")
  IN /\ Live(s) /\ ~InUse(s)
     /\ streams' = [streams EXCEPT ![s] = NoStream]
     /\ opened' = IF closes THEN [opened EXCEPT ![r.fd] = 0] ELSE opened
     /\ UNCHANGED <<serial, calls, errno, program, signals, aborting, nonblock>>

\* run() ends: executors abort at their next trap().
AbortAll ==
  /\ ~aborting /\ aborting' = TRUE
  /\ UNCHANGED <<streams, opened, serial, calls, errno, program, signals, nonblock>>

StreamStep(e) ==
  \/ \E s \in StreamIds, n \in Sizes, op \in {"read", "write"} : Transfer(e, op, s, n)
  \/ \E s \in StreamIds, o \in {{}, {"NoBlock"}}, on \in BOOLEAN : SetOptions(e, s, o, on)
  \/ \E s \in StreamIds, t \in BOOLEAN : GetIsTerm(e, s, t)
  \/ \E s \in StreamIds, o \in TermOutcomes : TermCall(e, s, o)
  \/ \E s \in StreamIds, there \in BOOLEAN : OpenBorrowed(e, s, there)
  \/ CheckState(e) \/ Enter(e) \/ Transferred(e) \/ TransferFails(e) \/ ReceiveTimeout(e)
  \/ TransferInterrupted(e) \/ Resume(e) \/ FinishRead(e) \/ FinishWrite(e)
=============================================================================
