------------------------------ MODULE TcpStream ------------------------------
(***************************************************************************)
(* Sockets (ref_stream_tcp.hpp): opening and accepting connections,        *)
(* starting and shutting down servers, on top of the streams.              *)
(*                                                                         *)
(* A server is shut down by closing its socket while other executors may   *)
(* be waiting in accept() for it: closing does not wake them, their        *)
(* receive timeout does.                                                   *)
(***************************************************************************)
EXTENDS Streams

Tcp(mode, state, fd, file) ==
  [kind |-> "tcp", mode |-> mode, state |-> state, fd |-> fd, file |-> file]

\* The error is set, then allocPlain<TcpStreamRef>: the call ends with the
\* new stream, or, when memory ran out, with none and the socket nobody owns.
Allocate(e, c, r, why) ==
  \/ /\ AnyFreeStream
     /\ streams' = [streams EXCEPT ![FreeStream] = r]
     /\ SetCall(e, Idle(IF r.state = "Valid" /\ r.fd # -1 THEN "true" ELSE "false", why, 0, c))
  \/ /\ UNCHANGED streams
     /\ SetCall(e, Idle("aborted", why, 0, c))

\* The checks of settings, port, backlog, family and address: which one
\* refuses is the caller's business.
ArgumentErrors(op) ==
  {"FeatureNetworkNotEnabled", "TcpInvalidPort", "TcpInvalidAddressFamily"}
    \cup IF op = "connect" THEN {"TcpInvalidAddress"} ELSE {"TcpInvalidBacklog"}

\* A refused family makes tcpStartServer return an invalid Connection.
Refuse(e, op, why) ==
  /\ CanCall(e, op)
  /\ Allocate(e, Begin(e, op, 0, 0),
       Tcp(IF op = "connect" \/ why = "TcpInvalidAddressFamily" THEN "Connection" ELSE "Server",
           "Valid", -1, 0), why)
  /\ UNCHANGED <<opened, serial, errno, signals, aborting, nonblock>>

\* tcpStartServer after its checks: socket(), bind() and listen() do not
\* block.  A socket that could not be bound stays with the failed stream.
TcpStartServer(e) ==
  LET c == Begin(e, "server", 0, 0)
  IN /\ CanCall(e, "server")
     /\ \/ /\ ~AnyFree
           /\ Allocate(e, c, Tcp("Server", "Failed", -1, 0), "TcpSocketCouldNotBeAllocated")
           /\ UNCHANGED <<opened, serial, errno>>
        \/ /\ AnyFree
           /\ opened' = [opened EXCEPT ![FirstFree] = serial] /\ serial' = serial + 1
           /\ \/ /\ Allocate(e, c, Tcp("Server", "Valid", FirstFree, serial), "None")
                 /\ UNCHANGED errno
              \/ /\ Allocate(e, c, Tcp("Server", "Failed", FirstFree, serial), "TcpAddressInUse")
                 /\ errno' = [errno EXCEPT ![e] = "EADDRINUSE"]
     /\ UNCHANGED <<signals, aborting, nonblock>>

\* tcpOpenConnection: a socket, then connect() as Paused.
TcpOpenConnection(e) ==
  LET c == Begin(e, "connect", 0, 0)
  IN /\ CanCall(e, "connect")
     /\ \/ /\ ~AnyFree
           /\ errno' = [errno EXCEPT ![e] = "EMFILE"]
           /\ Allocate(e, c, Tcp("Connection", "Failed", -1, 0), getTcpPlatformError("EMFILE"))
           /\ UNCHANGED <<opened, serial>>
        \/ /\ AnyFree
           /\ opened' = [opened EXCEPT ![FirstFree] = serial] /\ serial' = serial + 1
           /\ SetCall(e, [c EXCEPT !.stage = "blocked", !.fd = FirstFree, !.file = serial])
           /\ UNCHANGED <<streams, errno>>
     /\ UNCHANGED <<signals, aborting, nonblock>>

\* connect() succeeds, fails for good, or is tried again.
Connected(e) ==
  /\ calls[e].stage = "blocked" /\ calls[e].op = "connect"
  /\ \/ SetCall(e, [calls[e] EXCEPT !.stage = "resume", !.got = 0]) /\ UNCHANGED errno
     \/ \E n \in {"ECONNREFUSED", "ETIMEDOUT"} : Fails(e, n)
  /\ UNCHANGED <<streams, opened, serial, program, signals, aborting, nonblock>>

ConnectRetries(e) ==
  /\ calls[e].stage = "blocked" /\ calls[e].op = "connect" /\ signals < MaxSignals
  /\ signals' = signals + 1
  /\ \E n \in {"EINTR", "EAGAIN"} : errno' = [errno EXCEPT ![e] = n]
  /\ UNCHANGED <<streams, opened, serial, calls, program, aborting, nonblock>>

\* The socket of a connection that failed stays with the failed stream.
FinishConnect(e) ==
  LET c == calls[e]
  IN /\ c.stage = "finish" /\ c.op = "connect"
     /\ IF c.got = -1
        THEN Allocate(e, c, Tcp("Connection", "Failed", c.fd, c.file), getTcpPlatformError(errno[e]))
        ELSE Allocate(e, c, Tcp("Connection", "Valid", c.fd, c.file), "None")
     /\ UNCHANGED <<opened, serial, errno, program, signals, aborting, nonblock>>
-----------------------------------------------------------------------------
(***************************************************************************)
(* Servers.                                                                *)
(***************************************************************************)
\* tcpAcceptConnection and the guard of acceptConnection.
TcpAccept(e, s) ==
  LET r == streams[s]
      c == Begin(e, "accept", s, 0)
      bad == Tcp("Connection", "Valid", -1, 0)
  IN /\ CanCall(e, "accept") /\ Live(s)
     /\ \/ /\ r.kind # "tcp" \/ ~isValid(r)
           /\ Allocate(e, c, bad, "TcpInvalidSocket")
        \/ /\ r.kind = "tcp" /\ isValid(r) /\ r.mode # "Server"
           /\ Allocate(e, c, bad, "TcpInvalidServerSocket")
        \/ /\ r.kind = "tcp" /\ isValid(r) /\ r.mode = "Server"
           /\ SetCall(e, c) /\ UNCHANGED streams
     /\ UNCHANGED <<opened, serial, errno, signals, aborting, nonblock>>

\* accept() yields a connection on the lowest free descriptor.
Accepted(e) ==
  LET c == calls[e]
  IN /\ c.stage = "blocked" /\ c.op = "accept" /\ AnyFree
     /\ opened' = [opened EXCEPT ![FirstFree] = serial] /\ serial' = serial + 1
     /\ SetCall(e, [c EXCEPT !.stage = "resume", !.got = 0, !.fd = FirstFree, !.file = serial])
     /\ UNCHANGED <<streams, errno, program, signals, aborting, nonblock>>

AcceptFails(e) ==
  /\ calls[e].stage = "blocked" /\ calls[e].op = "accept" /\ ~AnyFree
  /\ Fails(e, "EMFILE")
  /\ UNCHANGED <<streams, opened, serial, program, signals, aborting, nonblock>>

\* Where the loop over accept() goes after an error worth a retry: back to
\* the test of m_state, and (a loop that forgets the test) back to accept().
RetryUnconditionally(c) == [c EXCEPT !.stage = "blocked"]

Retry(c) == [c EXCEPT !.stage = "check"]

\* The receive timeout elapses (EAGAIN), without a bound.
AcceptTimeout(e) ==
  /\ calls[e].stage = "blocked" /\ calls[e].op = "accept"
  /\ errno' = [errno EXCEPT ![e] = "EAGAIN"]
  /\ SetCall(e, Retry(calls[e]))
  /\ UNCHANGED <<streams, opened, serial, program, signals, aborting, nonblock>>

AcceptInterrupted(e) ==
  /\ calls[e].stage = "blocked" /\ calls[e].op = "accept" /\ signals < MaxSignals
  /\ signals' = signals + 1
  /\ \E n \in {"EINTR", "ECONNABORTED"} : errno' = [errno EXCEPT ![e] = n]
  /\ SetCall(e, Retry(calls[e]))
  /\ UNCHANGED <<streams, opened, serial, program, aborting, nonblock>>

\* An executor that is aborted here never closes what it accepted.
FinishAccept(e) ==
  LET c == calls[e]
  IN /\ c.stage = "finish" /\ c.op = "accept"
     /\ IF c.got = -1
        THEN Allocate(e, c, Tcp("Connection", "Failed", -1, 0), getTcpPlatformError(errno[e]))
        ELSE Allocate(e, c, Tcp("Connection", "Valid", c.fd, c.file), "None")
     /\ UNCHANGED <<opened, serial, errno, program, signals, aborting, nonblock>>

\* tcpShutdown: the validity test, and shutdown() of a connection, which
\* keeps the descriptor and, when it fails, does not say why.
TcpShutdown(e, s) ==
  LET r == streams[s]
      c == Begin(e, "shutdown", s, 0)
  IN /\ CanCall(e, "shutdown") /\ Live(s)
     /\ \/ /\ r.kind # "tcp" \/ ~isValid(r)
           /\ SetCall(e, Idle("false", "TcpInvalidSocket", 0, c))
        \/ /\ r.kind = "tcp" /\ isValid(r) /\ r.mode = "Connection"
           /\ \E ret \in {"true", "false"} : SetCall(e, Idle(ret, "None", 0, c))
        \/ /\ r.kind = "tcp" /\ isValid(r) /\ r.mode = "Server"
           /\ SetCall(e, [c EXCEPT !.stage = "exchange"])
     /\ UNCHANGED <<streams, opened, serial, errno, signals, aborting, nonblock>>

\* m_state is not read before it is written.
ExchangeBlind(e) ==
  LET c == calls[e]
  IN /\ c.stage = "exchange"
     /\ streams' = [streams EXCEPT ![c.s].state = "Closed"]
     /\ SetCall(e, [c EXCEPT !.stage = "close"])
     /\ UNCHANGED <<opened, serial, errno, program, signals, aborting, nonblock>>

\* m_state.exchange(Closed): only the first shutdown goes on to close.
Exchange(e) ==
  LET c == calls[e]
  IN /\ c.stage = "exchange"
     /\ streams' = [streams EXCEPT ![c.s].state = "Closed"]
     /\ SetCall(e, IF streams[c.s].state # "Closed" THEN [c EXCEPT !.stage = "close"]
                   ELSE Idle("false", "None", 0, c))
     /\ UNCHANGED <<opened, serial, errno, program, signals, aborting, nonblock>>

\* close() frees the number even when it reports a failure.
CloseServer(e) ==
  LET c == calls[e]
  IN /\ c.stage = "close"
     /\ opened' = [opened EXCEPT ![streams[c.s].fd] = 0]
     /\ \E ret \in {"true", "false"} : SetCall(e, Idle(ret, "None", 0, c))
     /\ UNCHANGED <<streams, serial, errno, program, signals, aborting, nonblock>>

\* ipLookupAddress: arguments, getaddrinfo() as Paused, the first address
\* of the family asked for.
IpLookupAddress(e) ==
  LET c == Begin(e, "lookup", 0, 4)
  IN /\ CanCall(e, "lookup")
     /\ \/ \E why \in {"FeatureNetworkNotEnabled", "TcpInvalidAddressFamily",
                       "TcpAddressNotFound", "TcpUnknownError"} :
             SetCall(e, Idle("false", why, 0, c))
        \/ SetCall(e, Idle("true", "None", 4, c))
        \/ aborting /\ SetCall(e, Idle("aborted", "None", 0, c))
     /\ UNCHANGED <<streams, opened, serial, errno, signals, aborting, nonblock>>

TcpStep(e) ==
  \/ \E op \in {"connect", "server"} : \E why \in ArgumentErrors(op) : Refuse(e, op, why)
  \/ TcpStartServer(e) \/ TcpOpenConnection(e) \/ IpLookupAddress(e)
  \/ Connected(e) \/ ConnectRetries(e) \/ FinishConnect(e)
  \/ Accepted(e) \/ AcceptFails(e) \/ AcceptTimeout(e) \/ AcceptInterrupted(e) \/ FinishAccept(e)
  \/ Exchange(e) \/ CloseServer(e)
  \/ \E s \in StreamIds : TcpAccept(e, s) \/ TcpShutdown(e, s)

StreamsNext ==
  \/ \E e \in Executors : StreamStep(e) \/ TcpStep(e)
  \/ \E s \in StreamIds : Destroy(s)
  \/ AbortAll

StreamsSpec == StreamsInit /\ [][StreamsNext]_streamVars
-----------------------------------------------------------------------------
(***************************************************************************)
(* Properties.                                                             *)
(***************************************************************************)
\* Every stream that has not been closed still has the open file it was
\* created with, under a descriptor no other stream has: no shutdown,
\* however many executors race in it, and no destructor ever closes a
\* descriptor that someone else has been given since
\* (ref_stream_tcp.hpp:91, 113).
Owns(s) == Live(s) /\ streams[s].fd # -1 /\ streams[s].state # "Closed"

DescriptorsOwned ==
  /\ \A s \in StreamIds : Owns(s) => opened[streams[s].fd] = streams[s].file
  /\ \A s, t \in StreamIds :
       Owns(s) /\ Owns(t) /\ s # t /\ streams[s].kind \in {"file", "tcp"} =>
         streams[s].fd # streams[t].fd
  /\ \A e \in Executors : calls[e].stage = "close" =>
       opened[streams[calls[e].s].fd] = streams[calls[e].s].file

\* read() of std (stream.ns:46) never sees the result of the platform call:
\* it takes an empty string with another error than the end of data in the
\* cell for a failed read.
TakenForFailure(c) == c.len = 0 /\ c.err # "StreamNoDataAvailable"

Honest(c) ==
  c.stage = "done" /\ c.ret # "aborted" =>
    /\ c.ret = "false" /\ c.op \notin {"shutdown", "isterm"} => c.told
    /\ c.told => c.ret = "false"
    /\ c.op = "read" /\ c.size > 0 =>
         /\ TakenForFailure(c) <=> c.told /\ c.err # "StreamNoDataAvailable"
         /\ c.len = IF c.ret = "true" THEN c.got ELSE 0
    /\ c.op = "write" /\ c.ret = "true" /\ c.size > 0 => c.got = c.size

StrayExplained(c, r) == c.stray /\ c.stage # "done" => c.op = "accept" /\ r.state = "Closed"

\* What a finished call tells is true, although the error cell it is read
\* from is the executor's and no call clears it (executor.cpp:286,
\* pcall.hpp:89): after a failure the error is that of the very call, never
\* one that an earlier call left, but for tcpShutdown, which may fail
\* without a reason (ref_stream_tcp.hpp:113), and getIsTerm, whose false
\* may be an answer; a success leaves the cell alone; std takes a read of
\* at least a byte for a failure just when that read has failed, and the
\* string has exactly the bytes that arrived; a write that succeeded wrote
\* everything; and a system call only ever reached another stream's file
\* from a server that was shut down while the call was on its way
\* (stream_utilities.hpp:38).  An executor that was aborted asks no more.
ResultsHonest ==
  \A e \in Executors : Honest(calls[e]) /\ StrayExplained(calls[e], streams[calls[e].s])

\* An executor waiting in accept() on a server that has been shut down gets
\* an answer: closing the socket wakes nobody, the receive timeout and the
\* test of m_state do (ref_stream_tcp.hpp:264).
AcceptEnds ==
  \A e \in Executors :
    (calls[e].op = "accept" /\ calls[e].stage # "done" /\ streams[calls[e].s].state = "Closed")
      ~> (calls[e].stage = "done")
-----------------------------------------------------------------------------
(***************************************************************************)
(* The inductive invariant of the two safety properties.                   *)
(***************************************************************************)
StreamSet ==
  [kind : Kinds \cup {"none"}, mode : StreamModes \cup {"none"},
   state : {"Valid", "Failed", "Closed"}, fd : Descriptors \cup {-1}, file : Nat]

Ops ==
  {"read", "write", "options", "isterm", "term", "open", "connect", "server", "accept",
   "shutdown", "lookup"}

\* PlatformError, as far as streams report it.
Errors ==
  {"StreamInvalid", "StreamReadNotSupported", "StreamWriteNotSupported", "StreamNoDataAvailable",
   "StreamOptionsNotSupported", "FileNoAccess", "FileLocked", "FileDiskFull", "FileNotFound",
   "FileIsDirectory", "FileIsNotDirectory", "FilePathTooLong", "FileAlreadyExists",
   "FileDirectoryNotEmpty", "FileInvalidFileName", "FileTooManyOpenFiles", "FileUnknownError",
   "ConsoleNoLongerAvailable", "ConsoleUnknownError", "ConsoleNotPresent", "ConsoleNoTerminal",
   "ConsoleFailedToGetTermInfo", "ConsoleFailedToUpdateTermInfo", "FeatureNetworkNotEnabled",
   "TcpInvalidPort", "TcpInvalidAddressFamily", "TcpInvalidAddress", "TcpInvalidBacklog",
   "TcpInvalidSocket", "TcpInvalidServerSocket", "TcpSocketCouldNotBeAllocated",
   "TcpAlreadyInProcess", "TcpNetworkDown", "TcpNetworkUnreachable", "TcpNoAccess",
   "TcpAddressInUse", "TcpAddressUnavailable", "TcpAddressFamilyNotSupported",
   "TcpAddressNotFound", "TcpConnectionRefused", "TcpTimeout", "TcpRemoteResetConnection",
   "TcpSocketIsDead", "TcpUnknownError"}

Stages == {"check", "enter", "blocked", "resume", "finish", "exchange", "close", "done"}

CallSet ==
  [op : Ops \cup {"none"}, s : StreamIds \cup {0}, size : Nat,
   stage : Stages, got : Int, fd : Descriptors \cup {-1}, file : Nat, stray : BOOLEAN,
   ret : {"true", "false", "aborted"}, err : Errors \cup {"None"}, told : BOOLEAN, len : Nat]

StreamsTypeOK ==
  /\ streams \in [StreamIds -> StreamSet] /\ calls \in [Executors -> CallSet]
  /\ opened \in [Descriptors -> Nat] /\ serial \in Nat \ {0}

\* Only a server is ever closed.
ClosedServers ==
  \A s \in StreamIds : Live(s) /\ streams[s].state = "Closed" =>
    streams[s].kind = "tcp" /\ streams[s].mode = "Server"

\* A call c under way on stream r: what its guards have tested stays true,
\* and which stages it goes through.
CallInv(c, r) ==
  /\ c.stage # "done" => c.op \in {"read", "write", "accept", "shutdown", "connect"}
  /\ c.op = "connect" => c.stage \in {"blocked", "resume", "finish", "done"}
  /\ c.op = "shutdown" => c.stage \in {"exchange", "close", "done"}
  /\ c.op \in {"read", "write", "accept"} => c.stage \notin {"exchange", "close"}
  /\ c.op \in {"read", "write"} => c.got \in -1..c.size
  /\ c.op = "accept" => c.got \in {-1, 0}
  /\ c.stage # "done" /\ c.op # "connect" =>
       /\ c.s \in StreamIds /\ r.kind # "none" /\ r.fd # -1
       /\ c.op \in {"read", "write"} /\ r.kind = "tcp" => r.mode = "Connection"
       /\ c.op \in {"accept", "shutdown"} => r.kind = "tcp" /\ r.mode = "Server"
  /\ c.stage = "close" => r.state = "Closed"

CallsInv == \A e \in Executors : CallInv(calls[e], streams[calls[e].s])

\* At most one shutdown of a server gets as far as closing it.
OneCloser ==
  \A e, f \in Executors :
    calls[e].stage = "close" /\ calls[f].stage = "close" /\ calls[e].s = calls[f].s => e = f

\* The streams that answer for an open file, a closed server as long as its
\* shutdown has yet to close it, and the calls that will make such a stream.
Holders ==
  {s \in StreamIds :
     /\ Live(s) /\ streams[s].fd # -1
     /\ streams[s].state = "Closed" =>
          \E e \in Executors : calls[e].stage = "close" /\ calls[e].s = s}

Pending(c) ==
  \/ c.op = "connect" /\ c.stage # "done"
  \/ c.op = "accept" /\ c.stage \in {"resume", "finish"} /\ c.got = 0

Openers == {e \in Executors : Pending(calls[e])}

\* Holders ss and openers es, by what they hold: every descriptor still is the
\* file they got, and no descriptor is in two hands, but for what console
\* and process streams borrow.
Booked(ss, st, es, cs, files) ==
  /\ \A s \in ss : files[st[s].fd] = st[s].file /\ st[s].file # 0
  /\ \A e \in es : cs[e].fd # -1 /\ files[cs[e].fd] = cs[e].file /\ cs[e].file # 0
  /\ \A s, t \in ss : s # t /\ st[s].kind \in {"file", "tcp"} => st[s].fd # st[t].fd
  /\ \A s \in ss, e \in es : st[s].fd # cs[e].fd
  /\ \A e, f \in es : e # f => cs[e].fd # cs[f].fd

StreamsInv ==
  /\ StreamsTypeOK /\ ClosedServers /\ CallsInv /\ OneCloser
  /\ Booked(Holders, streams, Openers, calls, opened)
  /\ ResultsHonest
=============================================================================
