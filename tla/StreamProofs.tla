---------------------------- MODULE StreamProofs ----------------------------
(***************************************************************************)
(* Proofs about TcpStream and Streams, for any executors, streams,         *)
(* descriptors and programs of calls.                                      *)
(***************************************************************************)
EXTENDS TcpStream, WellFoundedInduction, TLAPS

\* A set of numbers that is not empty has a least one.
LEMMA Least ==
  ASSUME NEW S, S \subseteq Nat, S # {}
  PROVE  \E x \in S : \A y \in S : x <= y
<1>1. PICK x \in S : \A y \in S : ~ (<<y, x>> \in OpToRel(<, Nat))
  BY NatLessThanWellFounded, WFMin
<1>2. \A y \in S : ~ (y < x)
  <2> SUFFICES ASSUME NEW y \in S, y < x PROVE FALSE
    OBVIOUS
  <2>1. <<y, x>> \in OpToRel(<, Nat)
    BY DEF OpToRel
  <2> QED BY <1>1, <2>1
<1> QED BY <1>2

\* The descriptor the system gives out is free.
LEMMA FirstFreeFacts ==
  ASSUME AnyFree
  PROVE  FirstFree \in Descriptors /\ FirstFree # -1 /\ opened[FirstFree] = 0
<1>1. Descriptors \subseteq Nat
  BY StreamsAssumption
<1>2. \E d \in {x \in Descriptors : opened[x] = 0} :
        \A x \in {y \in Descriptors : opened[y] = 0} : d <= x
  BY <1>1, Least DEF AnyFree
<1>3. \E d \in Descriptors : opened[d] = 0 /\ \A x \in Descriptors : opened[x] = 0 => d <= x
  BY <1>2
<1>4. FirstFree \in Descriptors /\ opened[FirstFree] = 0
  BY <1>3 DEF FirstFree
<1> QED BY <1>1, <1>4

\* A new stream takes the place of none.
LEMMA FreeStreamFacts ==
  ASSUME AnyFreeStream
  PROVE  FreeStream \in StreamIds /\ ~Live(FreeStream)
<1>1. StreamIds \subseteq Nat
  BY StreamsAssumption
<1>2. \E s \in {x \in StreamIds : ~Live(x)} : \A x \in {y \in StreamIds : ~Live(y)} : s <= x
  BY <1>1, Least DEF AnyFreeStream
<1>3. \E s \in StreamIds : ~Live(s) /\ \A x \in StreamIds : ~Live(x) => s <= x
  BY <1>2
<1> QED BY <1>3 DEF FreeStream

\* Every error number is told as some error.
LEMMA ErrorFacts ==
  ASSUME NEW n
  PROVE  /\ getTcpPlatformError(n) \in Errors
         /\ \A r, op : r.kind \in Kinds => TransferError(r, op, n) \in Errors
<1>1. getTcpPlatformError(n) \in Errors
  BY DEF getTcpPlatformError, Errors
<1>2. getFilePlatformError(n) \in Errors
  BY DEF getFilePlatformError, Errors
<1>3. getConsolePlatformError(n) \in Errors /\ getProcessStreamPlatformError(n) \in Errors
  BY DEF getConsolePlatformError, getProcessStreamPlatformError, Errors
<1>4. "TcpTimeout" \in Errors
  BY DEF Errors
<1> QED BY <1>1, <1>2, <1>3, <1>4 DEF TransferError, Kinds
-----------------------------------------------------------------------------
(* Who holds which descriptor. *)

\* What nobody holds may be opened or closed.
LEMMA BookedFiles ==
  ASSUME NEW ss, NEW st, NEW es, NEW cs, NEW files, Booked(ss, st, es, cs, files),
         NEW files2, \A s \in ss : files2[st[s].fd] = files[st[s].fd],
         \A e \in es : files2[cs[e].fd] = files[cs[e].fd]
  PROVE  Booked(ss, st, es, cs, files2)
BY DEF Booked

\* What holders and openers hold are descriptors.
LEMMA HeldFacts ==
  ASSUME StreamsInv
  PROVE  /\ \A s \in Holders : s \in StreamIds /\ streams[s].fd \in Descriptors
         /\ \A e \in Openers : e \in Executors /\ calls[e].fd \in Descriptors
<1>1. /\ streams \in [StreamIds -> StreamSet] /\ calls \in [Executors -> CallSet]
      /\ Booked(Holders, streams, Openers, calls, opened)
  BY DEF StreamsInv, StreamsTypeOK
<1>2. \A s \in Holders : s \in StreamIds /\ streams[s].fd # -1
  BY DEF Holders
<1>3. \A e \in Openers : e \in Executors /\ calls[e].fd # -1
  BY <1>1 DEF Openers, Booked
<1> QED BY <1>1, <1>2, <1>3 DEF StreamSet, CallSet

\* A stream joins the holders, with a descriptor of its own or, on a console
\* or pipe, one it shares.
LEMMA BookedStream ==
  ASSUME NEW ss, NEW st, NEW es, NEW cs, NEW files, Booked(ss, st, es, cs, files),
         NEW s, files[st[s].fd] = st[s].file, st[s].file # 0,
         \A t \in ss : st[t].fd = st[s].fd =>
           st[t].kind \notin {"file", "tcp"} /\ st[s].kind \notin {"file", "tcp"},
         \A e \in es : cs[e].fd # st[s].fd
  PROVE  Booked(ss \cup {s}, st, es, cs, files)
BY DEF Booked
-----------------------------------------------------------------------------
(* Calls. *)

\* The fields of a call that begins ...
LEMMA BeginFacts ==
  ASSUME StreamsInv, NEW e \in Executors, NEW op \in Ops, NEW s \in StreamIds \cup {0}, NEW n \in Nat
  PROVE  LET c == Begin(e, op, s, n)
         IN  /\ c \in CallSet /\ c.op = op /\ c.s = s /\ c.size = n /\ c.stage = "check"
             /\ c.got = -1 /\ c.fd = -1 /\ ~c.stray
<1> DEFINE c1 == [NoCall EXCEPT !.op = op]
           c2 == [c1 EXCEPT !.s = s]
           c3 == [c2 EXCEPT !.size = n]
           c4 == [c3 EXCEPT !.stage = "check"]
<1>1. NoCall \in CallSet /\ NoCall.got = -1 /\ NoCall.fd = -1 /\ ~NoCall.stray
  BY DEF NoCall, CallSet, Stages
<1>2. c1 \in CallSet /\ c1.op = op /\ c1.got = -1 /\ c1.fd = -1 /\ ~c1.stray
  BY <1>1 DEF CallSet
<1> HIDE DEF c1
<1>3. c2 \in CallSet /\ c2.op = op /\ c2.s = s /\ c2.got = -1 /\ c2.fd = -1 /\ ~c2.stray
  BY <1>2 DEF CallSet
<1> HIDE DEF c2
<1>4. c3 \in CallSet /\ c3.op = op /\ c3.s = s /\ c3.size = n /\ c3.got = -1 /\ c3.fd = -1 /\ ~c3.stray
  BY <1>3 DEF CallSet
<1>5. Begin(e, op, s, n) = [c4 EXCEPT !.err = calls[e].err]
  BY DEF Begin, c1, c2
<1> HIDE DEF c3
<1>6. /\ c4 \in CallSet /\ c4.op = op /\ c4.s = s /\ c4.size = n /\ c4.stage = "check"
      /\ c4.got = -1 /\ c4.fd = -1 /\ ~c4.stray
  BY <1>4 DEF CallSet, Stages
<1> HIDE DEF c4
<1>7. calls[e].err \in Errors \cup {"None"}
  BY DEF StreamsInv, StreamsTypeOK, CallSet
<1> QED BY <1>5, <1>6, <1>7 DEF CallSet

\* ... of one that goes on ...
At(c, g) == [c EXCEPT !.stage = g]
Answer(c, g, n) == [c EXCEPT !.stage = g, !.got = n]
Reach(c, n, x) == [c EXCEPT !.stage = "blocked", !.file = n, !.stray = x]
Get(c, m, n) == [c EXCEPT !.stage = "blocked", !.fd = m, !.file = n]
Accept(c, m, n) == [c EXCEPT !.stage = "resume", !.got = 0, !.fd = m, !.file = n]

LEMMA AtFacts ==
  ASSUME NEW c \in CallSet, NEW g \in Stages
  PROVE  LET d == At(c, g)
         IN  /\ d \in CallSet /\ d.stage = g /\ d.op = c.op /\ d.s = c.s /\ d.size = c.size
             /\ d.got = c.got /\ d.fd = c.fd /\ d.file = c.file /\ d.stray = c.stray
BY DEF At, CallSet

LEMMA AnswerFacts ==
  ASSUME NEW c \in CallSet, NEW g \in Stages, NEW n \in Int
  PROVE  LET d == Answer(c, g, n)
         IN  /\ d \in CallSet /\ d.stage = g /\ d.got = n /\ d.op = c.op /\ d.s = c.s /\ d.size = c.size
             /\ d.fd = c.fd /\ d.file = c.file /\ d.stray = c.stray
<1> DEFINE b == At(c, g)
<1>1. /\ b \in CallSet /\ b.stage = g /\ b.op = c.op /\ b.s = c.s /\ b.size = c.size
      /\ b.fd = c.fd /\ b.file = c.file /\ b.stray = c.stray
  BY AtFacts
<1>2. Answer(c, g, n) = [b EXCEPT !.got = n]
  BY DEF Answer, At
<1> HIDE DEF b
<1> QED BY <1>1, <1>2 DEF CallSet

LEMMA FailedFacts ==
  ASSUME NEW c \in CallSet
  PROVE  LET d == Answer(c, "resume", -1)
         IN  /\ d \in CallSet /\ d.stage = "resume" /\ d.got = -1 /\ d.op = c.op /\ d.s = c.s /\ d.size = c.size
             /\ d.fd = c.fd /\ d.file = c.file /\ d.stray = c.stray
<1>1. -1 \in Int /\ "resume" \in Stages
  BY DEF Stages
<1> QED BY <1>1, AnswerFacts, Zenon

\* ... that reaches file n ...
LEMMA ReachFacts ==
  ASSUME NEW c \in CallSet, NEW n \in Nat, NEW x \in BOOLEAN
  PROVE  LET d == Reach(c, n, x)
         IN  /\ d \in CallSet /\ d.stage = "blocked" /\ d.op = c.op /\ d.s = c.s /\ d.size = c.size
             /\ d.got = c.got /\ d.stray = x
<1> DEFINE b == At(c, "blocked")
<1>1. /\ b \in CallSet /\ b.stage = "blocked" /\ b.op = c.op /\ b.s = c.s /\ b.size = c.size
      /\ b.got = c.got
  BY AtFacts DEF Stages
<1>2. Reach(c, n, x) = [b EXCEPT !.file = n, !.stray = x]
  BY DEF Reach, At
<1> HIDE DEF b
<1> QED BY <1>1, <1>2 DEF CallSet

\* ... that gets a descriptor ...
LEMMA GetFacts ==
  ASSUME NEW c \in CallSet, NEW m \in Descriptors, NEW n \in Nat
  PROVE  LET d == Get(c, m, n)
         IN  /\ d \in CallSet /\ d.stage = "blocked" /\ d.op = c.op /\ d.s = c.s /\ d.size = c.size
             /\ d.got = c.got /\ d.stray = c.stray /\ d.fd = m /\ d.file = n
<1> DEFINE b == At(c, "blocked")
<1>1. /\ b \in CallSet /\ b.stage = "blocked" /\ b.op = c.op /\ b.s = c.s /\ b.size = c.size
      /\ b.got = c.got /\ b.stray = c.stray
  BY AtFacts DEF Stages
<1>2. Get(c, m, n) = [b EXCEPT !.fd = m, !.file = n]
  BY DEF Get, At
<1> HIDE DEF b
<1> QED BY <1>1, <1>2 DEF CallSet

LEMMA AcceptFacts ==
  ASSUME NEW c \in CallSet, NEW m \in Descriptors, NEW n \in Nat
  PROVE  LET d == Accept(c, m, n)
         IN  /\ d \in CallSet /\ d.stage = "resume" /\ d.op = c.op /\ d.s = c.s /\ d.size = c.size
             /\ d.got = 0 /\ d.stray = c.stray /\ d.fd = m /\ d.file = n
<1> DEFINE b == Answer(c, "resume", 0)
<1>1. /\ b \in CallSet /\ b.stage = "resume" /\ b.op = c.op /\ b.s = c.s /\ b.size = c.size
      /\ b.got = 0 /\ b.stray = c.stray
  BY AnswerFacts DEF Stages
<1>2. Accept(c, m, n) = [b EXCEPT !.fd = m, !.file = n]
  BY DEF Answer, Accept
<1> HIDE DEF b
<1> QED BY <1>1, <1>2 DEF CallSet

\* ... and of one that ends.
Ended(d, c, ret, why, len) ==
  /\ d \in CallSet /\ d.stage = "done" /\ d.ret = ret /\ d.len = len
  /\ (why # "None" => d.err = why) /\ (d.told <=> why # "None")
  /\ d.op = c.op /\ d.s = c.s /\ d.size = c.size /\ d.got = c.got

Results == {"true", "false", "aborted"}

LEMMA IdleFacts ==
  ASSUME NEW c \in CallSet, NEW ret \in Results, NEW why \in Errors \cup {"None"}, NEW len \in Nat
  PROVE  Ended(Idle(ret, why, len, c), c, ret, why, len)
<1> DEFINE a == [c EXCEPT !.stage = "done", !.ret = ret, !.len = len]
           err == IF why = "None" THEN c.err ELSE why
           told == why # "None"
<1>1. /\ a \in CallSet /\ a.stage = "done" /\ a.ret = ret /\ a.len = len
      /\ a.op = c.op /\ a.s = c.s /\ a.size = c.size /\ a.got = c.got
  BY DEF CallSet, Stages, Results
<1>2. Idle(ret, why, len, c) = [a EXCEPT !.err = err, !.told = told]
  BY DEF Idle
<1>3. err \in Errors \cup {"None"} /\ told \in BOOLEAN
  BY DEF CallSet
<1>4. (why # "None" => err = why) /\ (told <=> why # "None")
  OBVIOUS
<1> HIDE DEF a, err, told
<1> QED BY <1>1, <1>2, <1>3, <1>4 DEF Ended, CallSet

\* A failure has a reason, a success has none; shutdown may fail without,
\* and isterm answer.
Reasoned(op, ret, why) ==
  /\ ret = "false" /\ op \notin {"shutdown", "isterm"} => why # "None"
  /\ ret = "true" => why = "None"

LEMMA EndedHonest ==
  ASSUME NEW d, NEW c, NEW ret, NEW why, NEW len, Ended(d, c, ret, why, len), ret \in Results,
         Reasoned(c.op, ret, why), c.op \notin {"read", "write"}
  PROVE  Honest(d)
BY DEF Ended, Reasoned, Results, Honest

Keeps(s) ==
  /\ streams'[s].kind = streams[s].kind /\ streams'[s].mode = streams[s].mode
  /\ streams'[s].fd = streams[s].fd
  /\ streams[s].state = "Closed" => streams'[s].state = "Closed"

UnderWay(c) == c.stage # "done" /\ c.op # "connect"

\* One executor's call changes, and the streams as far as the other calls
\* under way allow.
LEMMA CallStep ==
  ASSUME StreamsInv, NEW e \in Executors, NEW c \in CallSet, calls' = [calls EXCEPT ![e] = c],
         \A f \in Executors \ {e} : UnderWay(calls[f]) => Keeps(calls[f].s),
         CallInv(c, streams'[c.s]), Honest(c), StrayExplained(c, streams'[c.s]),
         c.stage = "close" =>
           \A f \in Executors \ {e} : ~(calls[f].stage = "close" /\ calls[f].s = c.s)
  PROVE  calls' \in [Executors -> CallSet] /\ CallsInv' /\ OneCloser' /\ ResultsHonest'
<1>1. calls \in [Executors -> CallSet] /\ CallsInv /\ OneCloser /\ ResultsHonest
  BY DEF StreamsInv, StreamsTypeOK
<1>2. calls' \in [Executors -> CallSet] /\ calls'[e] = c /\ \A f \in Executors \ {e} : calls'[f] = calls[f]
  BY <1>1
<1>3. ASSUME NEW f \in Executors \ {e}
      PROVE  /\ CallInv(calls[f], streams'[calls[f].s])
             /\ Honest(calls[f]) /\ StrayExplained(calls[f], streams'[calls[f].s])
  <2>1. CallInv(calls[f], streams[calls[f].s]) /\ Honest(calls[f]) /\ StrayExplained(calls[f], streams[calls[f].s])
    BY <1>1 DEF CallsInv, ResultsHonest
  <2>2. CASE UnderWay(calls[f])
    BY <2>1, <2>2 DEF CallInv, StrayExplained, Keeps
  <2>3. CASE ~UnderWay(calls[f])
    BY <2>1, <2>3 DEF CallInv, StrayExplained, UnderWay
  <2> QED BY <2>2, <2>3
<1>4. \A f \in Executors : /\ CallInv(calls'[f], streams'[calls'[f].s])
                           /\ Honest(calls'[f]) /\ StrayExplained(calls'[f], streams'[calls'[f].s])
  BY <1>2, <1>3
<1>5. OneCloser'
  BY <1>1, <1>2 DEF OneCloser
<1> QED BY <1>2, <1>4, <1>5 DEF CallsInv, ResultsHonest

\* A step of a call that changes no stream and opens and closes nothing.
LEMMA CallOnly ==
  ASSUME StreamsInv, UNCHANGED <<streams, opened, serial>>,
         NEW e \in Executors, NEW c \in CallSet, calls' = [calls EXCEPT ![e] = c],
         calls[e].stage # "close", c.stage # "close",
         Pending(c) => Pending(calls[e]) /\ c.fd = calls[e].fd /\ c.file = calls[e].file,
         CallInv(c, streams[c.s]), Honest(c), StrayExplained(c, streams[c.s])
  PROVE  StreamsInv'
<1>1. calls \in [Executors -> CallSet] /\ StreamsTypeOK /\ ClosedServers
      /\ Booked(Holders, streams, Openers, calls, opened)
  BY DEF StreamsInv, StreamsTypeOK
<1>2. calls' \in [Executors -> CallSet] /\ CallsInv' /\ OneCloser' /\ ResultsHonest'
  <2>1. \A f \in Executors \ {e} : Keeps(calls[f].s)
    BY DEF Keeps
  <2> QED BY <2>1, CallStep
<1>3. calls'[e] = c /\ \A f \in Executors \ {e} : calls'[f] = calls[f]
  BY <1>1
<1>4. \A f \in Executors : calls'[f].stage = "close" <=> calls[f].stage = "close" /\ f # e
  BY <1>3
<1>5. Holders' = Holders
  <2>1. \A s : (\E f \in Executors : calls'[f].stage = "close" /\ calls'[f].s = s)
                 <=> (\E f \in Executors : calls[f].stage = "close" /\ calls[f].s = s)
    BY <1>3, <1>4
  <2> QED BY <2>1 DEF Holders, Live
<1>6. Openers' \subseteq Openers
  BY <1>3 DEF Openers
<1>7. \A f \in Openers' : calls'[f].fd = calls[f].fd /\ calls'[f].file = calls[f].file
  BY <1>3 DEF Openers
<1>8. Booked(Holders', streams', Openers', calls', opened')
  <2>1. Booked(Holders, streams, Openers', calls', opened)
    BY <1>1, <1>6, <1>7 DEF Booked
  <2> QED BY <2>1, <1>5
<1>9. ClosedServers' /\ StreamsTypeOK'
  BY <1>1, <1>2 DEF ClosedServers, StreamsTypeOK, Live
<1> QED BY <1>2, <1>8, <1>9 DEF StreamsInv

\* A call that ends without a stream.
LEMMA CallEnds ==
  ASSUME StreamsInv, UNCHANGED <<streams, opened, serial>>,
         NEW e \in Executors, NEW c \in CallSet, c.stage = "done", calls' = [calls EXCEPT ![e] = c],
         calls[e].stage # "close", Honest(c),
         c.op \in {"read", "write"} => c.got \in -1..c.size, c.op = "accept" => c.got \in {-1, 0}
  PROVE  StreamsInv'
<1>1. ~Pending(c) /\ CallInv(c, streams[c.s]) /\ StrayExplained(c, streams[c.s])
  BY DEF Pending, CallInv, StrayExplained
<1> QED BY <1>1, CallOnly

\* A call that ends with a new stream.
LEMMA NewStream ==
  ASSUME StreamsInv, NEW e \in Executors, NEW c \in CallSet, c.stage = "done",
         calls' = [calls EXCEPT ![e] = c], calls[e].stage # "close", Honest(c),
         c.op \in {"read", "write"} => c.got \in -1..c.size, c.op = "accept" => c.got \in {-1, 0},
         AnyFreeStream, NEW r \in StreamSet, r.kind # "none", r.state # "Closed",
         streams' = [streams EXCEPT ![FreeStream] = r],
         opened' \in [Descriptors -> Nat], serial' \in Nat \ {0},
         r.fd = -1 => opened' = opened,
         r.fd # -1 => Booked(Holders \cup {FreeStream}, streams', Openers \ {e}, calls', opened')
  PROVE  StreamsInv'
<1> DEFINE s == FreeStream
<1>1. streams \in [StreamIds -> StreamSet] /\ calls \in [Executors -> CallSet] /\ ClosedServers /\ CallsInv
      /\ Booked(Holders, streams, Openers, calls, opened)
  BY DEF StreamsInv, StreamsTypeOK
<1>2. s \in StreamIds /\ ~Live(s)
  BY FreeStreamFacts
<1> HIDE DEF s
<1>3. streams' \in [StreamIds -> StreamSet] /\ streams'[s] = r /\ \A t \in StreamIds \ {s} : streams'[t] = streams[t]
  BY <1>1, <1>2 DEF s
<1>4. CallInv(c, streams'[c.s]) /\ StrayExplained(c, streams'[c.s]) /\ ~Pending(c)
  BY DEF Pending, CallInv, StrayExplained
<1>5. \A f \in Executors : UnderWay(calls[f]) => calls[f].s \in StreamIds /\ calls[f].s # s
  BY <1>1, <1>2 DEF CallsInv, CallInv, UnderWay, Live
<1>6. calls' \in [Executors -> CallSet] /\ CallsInv' /\ OneCloser' /\ ResultsHonest'
  <2>1. \A f \in Executors \ {e} : UnderWay(calls[f]) => Keeps(calls[f].s)
    BY <1>3, <1>5 DEF Keeps
  <2> QED BY <1>4, <2>1, CallStep
<1>7. calls'[e] = c /\ \A f \in Executors \ {e} : calls'[f] = calls[f]
  BY <1>1
<1>8. \A t : (\E f \in Executors : calls'[f].stage = "close" /\ calls'[f].s = t)
               <=> (\E f \in Executors : calls[f].stage = "close" /\ calls[f].s = t)
  BY <1>7
<1>9. s \notin Holders
  BY <1>2 DEF Holders
<1>10. Holders' = IF r.fd = -1 THEN Holders ELSE Holders \cup {s}
  <2>1. \A t \in StreamIds \ {s} : t \in Holders' <=> t \in Holders
    BY <1>3, <1>8 DEF Holders, Live
  <2>2. s \in Holders' <=> r.fd # -1
    BY <1>2, <1>3 DEF Holders, Live
  <2>3. Holders \subseteq StreamIds /\ Holders' \subseteq StreamIds
    BY DEF Holders
  <2> QED BY <1>2, <1>9, <2>1, <2>2, <2>3
<1>11. Openers' = Openers \ {e}
  BY <1>4, <1>7 DEF Openers
<1>12. Booked(Holders', streams', Openers', calls', opened')
  <2>1. CASE r.fd = -1
    <3>1. \A t \in Holders : streams'[t] = streams[t]
      BY <1>3, <1>9 DEF Holders
    <3>2. \A f \in Openers \ {e} : calls'[f] = calls[f]
      BY <1>7 DEF Openers
    <3>3. Booked(Holders, streams', Openers \ {e}, calls', opened)
      BY <1>1, <3>1, <3>2 DEF Booked
    <3> QED BY <1>10, <1>11, <2>1, <3>3
  <2>2. CASE r.fd # -1
    BY <1>10, <1>11, <2>2 DEF s
  <2> QED BY <2>1, <2>2
<1>13. ClosedServers'
  BY <1>1, <1>3 DEF ClosedServers, Live
<1> QED BY <1>3, <1>6, <1>12, <1>13 DEF StreamsInv, StreamsTypeOK
-----------------------------------------------------------------------------
(* The steps of a call under way. *)

\* What is known of a call.
LEMMA CallFacts ==
  ASSUME StreamsInv, NEW e \in Executors
  PROVE  /\ calls[e] \in CallSet
         /\ CallInv(calls[e], streams[calls[e].s])
         /\ Honest(calls[e]) /\ StrayExplained(calls[e], streams[calls[e].s])
         /\ UnderWay(calls[e]) => streams[calls[e].s] \in StreamSet
BY DEF StreamsInv, StreamsTypeOK, CallsInv, CallInv, ResultsHonest, UnderWay

\* A transfer or an accept goes on to another stage.
LEMMA MoveStep ==
  ASSUME StreamsInv, UNCHANGED <<streams, opened, serial>>, NEW e \in Executors,
         calls[e].stage # "done", calls[e].op \in {"read", "write", "accept"},
         NEW c \in CallSet, calls' = [calls EXCEPT ![e] = c],
         c.op = calls[e].op, c.s = calls[e].s, c.size = calls[e].size,
         c.stage \in {"check", "enter", "blocked", "resume", "finish"},
         c.op # "accept" => c.got \in -1..c.size, c.op = "accept" => c.got \in {-1, 0},
         Pending(c) => Pending(calls[e]) /\ c.fd = calls[e].fd /\ c.file = calls[e].file,
         StrayExplained(c, streams[c.s])
  PROVE  StreamsInv'
<1>1. CallInv(calls[e], streams[calls[e].s])
  BY CallFacts
<1>2. CallInv(c, streams[c.s])
  BY <1>1 DEF CallInv
<1>3. Honest(c) /\ c.stage # "close" /\ calls[e].stage # "close"
  BY <1>1 DEF Honest, CallInv
<1> QED BY <1>2, <1>3, CallOnly

LEMMA CheckStateStep == StreamsInv /\ (\E e \in Executors : CheckState(e)) => StreamsInv'
<1> SUFFICES ASSUME StreamsInv, NEW e \in Executors, CheckState(e) PROVE StreamsInv'
  OBVIOUS
<1> DEFINE c == calls[e]
           d == IF LoopGoesOn(streams[c.s]) THEN At(c, "enter") ELSE Answer(c, "resume", -1)
<1>1. c \in CallSet /\ CallInv(c, streams[c.s]) /\ StrayExplained(c, streams[c.s])
  BY CallFacts
<1>2. c.stage = "check" /\ calls' = [calls EXCEPT ![e] = d] /\ UNCHANGED <<streams, opened, serial>>
  BY DEF CheckState, SetCall, At, Answer
<1>3. c.op \in {"read", "write", "accept"}
  BY <1>1, <1>2 DEF CallInv
<1>4. /\ d \in CallSet /\ d.op = c.op /\ d.s = c.s /\ d.size = c.size /\ d.stray = c.stray
      /\ d.stage \in {"enter", "resume"} /\ d.got \in {-1, c.got} /\ (d.stage = "resume" => d.got = -1)
  <2>1. /\ At(c, "enter") \in CallSet /\ At(c, "enter").op = c.op /\ At(c, "enter").s = c.s
        /\ At(c, "enter").size = c.size /\ At(c, "enter").stray = c.stray
        /\ At(c, "enter").stage = "enter" /\ At(c, "enter").got = c.got
    BY <1>1, AtFacts DEF Stages
  <2> DEFINE a == Answer(c, "resume", -1)
  <2>2. /\ a \in CallSet /\ a.op = c.op /\ a.s = c.s /\ a.size = c.size /\ a.stray = c.stray
        /\ a.stage = "resume" /\ a.got = -1
    BY <1>1, FailedFacts
  <2>3. d = At(c, "enter") \/ d = a
    OBVIOUS
  <2> HIDE DEF d, a
  <2> QED BY <2>1, <2>2, <2>3
<1> HIDE DEF d
<1>5. ~Pending(d) /\ StrayExplained(d, streams[d.s])
  BY <1>1, <1>2, <1>3, <1>4 DEF Pending, StrayExplained
<1>6. /\ d.op # "accept" => d.got \in -1..d.size
      /\ d.op = "accept" => d.got \in {-1, 0}
  BY <1>1, <1>3, <1>4 DEF CallInv, CallSet
<1> QED BY <1>2, <1>3, <1>4, <1>5, <1>6, MoveStep

\* A call only reaches another stream's file from a server that was closed.
LEMMA EnterStep == StreamsInv /\ (\E e \in Executors : Enter(e)) => StreamsInv'
<1> SUFFICES ASSUME StreamsInv, NEW e \in Executors, Enter(e) PROVE StreamsInv'
  OBVIOUS
<1> DEFINE c == calls[e]
           r == streams[c.s]
           n == opened[r.fd]
           d == IF n = 0 THEN Answer(c, "resume", -1) ELSE Reach(c, n, n # r.file)
<1>1. c \in CallSet /\ CallInv(c, r) /\ StrayExplained(c, r) /\ (UnderWay(c) => r \in StreamSet)
  BY CallFacts
<1>2. c.stage = "enter" /\ calls' = [calls EXCEPT ![e] = d] /\ UNCHANGED <<streams, opened, serial>>
  BY DEF Enter, SetCall, Answer, Reach
<1>3. c.op \in {"read", "write", "accept"} /\ UnderWay(c)
  BY <1>1, <1>2 DEF CallInv, UnderWay
<1>4. /\ c.s \in StreamIds /\ Live(c.s) /\ r.fd # -1 /\ r.fd \in Descriptors
      /\ c.op \in {"read", "write"} /\ r.kind = "tcp" => r.mode = "Connection"
  BY <1>1, <1>3 DEF CallInv, Live, StreamSet, UnderWay
<1>5. n \in Nat
  BY <1>4 DEF StreamsInv, StreamsTypeOK
<1>6. n # r.file => r.state = "Closed"
  BY <1>4 DEF StreamsInv, Booked, Holders
<1>7. n # r.file => c.op = "accept"
  <2>1. r.state = "Closed" => r.kind = "tcp" /\ r.mode = "Server"
    BY <1>4 DEF StreamsInv, ClosedServers
  <2> QED BY <1>3, <1>4, <1>6, <2>1
<1>8. /\ d \in CallSet /\ d.op = c.op /\ d.s = c.s /\ d.size = c.size
      /\ d.stray => c.stray \/ n # r.file
      /\ d.stage \in {"blocked", "resume"} /\ d.got \in {-1, c.got} /\ (d.stage = "resume" => d.got = -1)
  <2> HIDE DEF n
  <2>1. "resume" \in Stages /\ (n # r.file) \in BOOLEAN /\ -1 \in Int
    BY DEF Stages
  <2>2. CASE n = 0
    BY <1>1, <2>1, <2>2, AnswerFacts
  <2>3. CASE n # 0
    BY <1>1, <1>5, <2>1, <2>3, ReachFacts
  <2> QED BY <2>2, <2>3
<1> HIDE DEF d, n
<1>9. ~Pending(d) /\ StrayExplained(d, streams[d.s])
  BY <1>1, <1>2, <1>3, <1>6, <1>7, <1>8 DEF Pending, StrayExplained
<1>10. /\ d.op # "accept" => d.got \in -1..d.size
       /\ d.op = "accept" => d.got \in {-1, 0}
  BY <1>1, <1>3, <1>8 DEF CallInv, CallSet
<1> QED BY <1>2, <1>3, <1>8, <1>9, <1>10, MoveStep

\* What the system answers to a transfer.
LEMMA AnswerStep ==
  StreamsInv /\ (\E e \in Executors : Transferred(e) \/ TransferFails(e) \/ ReceiveTimeout(e) \/ TransferInterrupted(e))
    => StreamsInv'
<1> SUFFICES ASSUME StreamsInv, NEW e \in Executors,
                    Transferred(e) \/ TransferFails(e) \/ ReceiveTimeout(e) \/ TransferInterrupted(e)
             PROVE  StreamsInv'
  OBVIOUS
<1> DEFINE c == calls[e]
<1>1. c \in CallSet /\ CallInv(c, streams[c.s]) /\ StrayExplained(c, streams[c.s])
  BY CallFacts
<1>2. c.stage = "blocked" /\ c.op \in {"read", "write"} /\ UNCHANGED <<streams, opened, serial>>
  BY DEF Transferred, TransferFails, ReceiveTimeout, TransferInterrupted, Fails
<1>3. \E n \in -1..c.size, g \in {"resume", "check"} :
        calls' = [calls EXCEPT ![e] = Answer(c, g, n)]
  <2>1. -1 \in -1..c.size /\ 0..c.size \subseteq -1..c.size
    BY <1>1 DEF CallSet
  <2> QED BY <2>1 DEF Transferred, TransferFails, ReceiveTimeout, TransferInterrupted, Fails, SetCall, Answer
<1>4. PICK n \in -1..c.size, g \in {"resume", "check"} :
        calls' = [calls EXCEPT ![e] = Answer(c, g, n)]
  BY <1>3
<1> DEFINE d == Answer(c, g, n)
<1>5. /\ d \in CallSet /\ d.op = c.op /\ d.s = c.s /\ d.size = c.size /\ d.stray = c.stray
      /\ d.stage = g /\ d.got = n
  <2>1. g \in Stages /\ n \in Int
    BY <1>1 DEF CallSet, Stages
  <2> QED BY <1>1, <2>1, AnswerFacts
<1>6. calls' = [calls EXCEPT ![e] = d]
  BY <1>4
<1> HIDE DEF d
<1>7. ~Pending(d) /\ StrayExplained(d, streams[d.s])
  BY <1>1, <1>2, <1>5 DEF Pending, StrayExplained
<1> QED BY <1>2, <1>5, <1>6, <1>7, MoveStep

\* An executor that is aborted gives up, another finishes.
LEMMA ResumeStep == StreamsInv /\ (\E e \in Executors : Resume(e)) => StreamsInv'
<1> SUFFICES ASSUME StreamsInv, NEW e \in Executors, Resume(e) PROVE StreamsInv'
  OBVIOUS
<1> DEFINE c == calls[e]
<1>1. c \in CallSet /\ CallInv(c, streams[c.s]) /\ StrayExplained(c, streams[c.s])
  BY CallFacts
<1>2. c.stage = "resume" /\ UNCHANGED <<streams, opened, serial>>
  BY DEF Resume
<1>3. CASE aborting
  <2> DEFINE d == Idle("aborted", "None", c.size, c)
  <2>1. calls' = [calls EXCEPT ![e] = d]
    BY <1>3 DEF Resume, SetCall
  <2>2. Ended(d, c, "aborted", "None", c.size)
    <3>1. c.size \in Nat /\ "aborted" \in Results
      BY <1>1 DEF CallSet, Results
    <3> QED BY <1>1, <3>1, IdleFacts
  <2> HIDE DEF d
  <2>3. /\ Honest(d) /\ c.stage # "close"
        /\ d.op \in {"read", "write"} => d.got \in -1..d.size
        /\ d.op = "accept" => d.got \in {-1, 0}
    BY <1>1, <1>2, <2>2 DEF Ended, Honest, CallInv
  <2> QED BY <1>2, <2>1, <2>2, <2>3, CallEnds DEF Ended
<1>4. CASE ~aborting
  <2> DEFINE d == At(c, "finish")
  <2>1. calls' = [calls EXCEPT ![e] = d]
    BY <1>4 DEF Resume, SetCall, At
  <2>2. /\ d \in CallSet /\ d.stage = "finish" /\ d.op = c.op /\ d.s = c.s /\ d.size = c.size
        /\ d.got = c.got /\ d.fd = c.fd /\ d.file = c.file /\ d.stray = c.stray
    BY <1>1, AtFacts DEF Stages
  <2> HIDE DEF d
  <2>3. Honest(d) /\ StrayExplained(d, streams[d.s]) /\ (Pending(d) => Pending(c))
    BY <1>1, <1>2, <2>2 DEF Honest, StrayExplained, Pending
  <2>4. CallInv(d, streams[d.s])
    BY <1>1, <1>2, <2>2 DEF CallInv
  <2> QED BY <1>2, <2>1, <2>2, <2>3, <2>4, CallOnly
<1> QED BY <1>3, <1>4

\* The end of a transfer, which may end a connection but never brings a
\* closed server back.
LEMMA TransferEnds ==
  ASSUME StreamsInv, NEW e \in Executors, calls[e].stage = "finish", calls[e].op \in {"read", "write"},
         MarkFailed(calls[e]), UNCHANGED <<opened, serial>>,
         NEW d \in CallSet, d.stage = "done", d.op = calls[e].op, d.size = calls[e].size,
         d.got = calls[e].got, Honest(d), calls' = [calls EXCEPT ![e] = d]
  PROVE  StreamsInv'
<1> DEFINE c == calls[e]
           r == streams[c.s]
<1>1. c \in CallSet /\ CallInv(c, r) /\ (UnderWay(c) => r \in StreamSet) /\ UnderWay(c)
  BY CallFacts DEF UnderWay
<1>2. /\ streams \in [StreamIds -> StreamSet] /\ calls \in [Executors -> CallSet]
      /\ Booked(Holders, streams, Openers, calls, opened) /\ ClosedServers
  BY DEF StreamsInv, StreamsTypeOK
<1>3. c.s \in StreamIds /\ Live(c.s) /\ r.fd # -1 /\ (r.kind = "tcp" => r.mode = "Connection")
  BY <1>1 DEF CallInv, UnderWay, Live
<1>4. r.state # "Closed"
  BY <1>2, <1>3 DEF ClosedServers
<1>5. /\ streams' \in [StreamIds -> StreamSet]
      /\ \A s \in StreamIds : Keeps(s) /\ streams'[s].file = streams[s].file
      /\ \A s \in StreamIds : streams'[s].state = "Closed" <=> streams[s].state = "Closed"
  <2>1. CASE streams' = streams
    BY <1>2, <2>1 DEF Keeps
  <2>2. CASE streams' = [streams EXCEPT ![c.s].state = "Failed"]
    <3> DEFINE r2 == [r EXCEPT !.state = "Failed"]
    <3>1. /\ r2 \in StreamSet /\ r2.state = "Failed" /\ r2.kind = r.kind /\ r2.mode = r.mode
          /\ r2.fd = r.fd /\ r2.file = r.file
      BY <1>1 DEF StreamSet
    <3>2. streams' = [streams EXCEPT ![c.s] = r2]
      BY <2>2
    <3> HIDE DEF r2
    <3>3. streams' \in [StreamIds -> StreamSet] /\ streams'[c.s] = r2
          /\ \A s \in StreamIds \ {c.s} : streams'[s] = streams[s]
      BY <1>2, <1>3, <3>1, <3>2
    <3> QED BY <1>4, <3>1, <3>3 DEF Keeps
  <2> QED BY <2>1, <2>2 DEF MarkFailed
<1>6. \A f \in Executors : UnderWay(calls[f]) => calls[f].s \in StreamIds
  BY CallFacts DEF CallInv, UnderWay
<1>7. CallInv(d, streams'[d.s]) /\ StrayExplained(d, streams'[d.s]) /\ ~Pending(d)
  BY <1>1 DEF CallInv, StrayExplained, Pending
<1>8. calls' \in [Executors -> CallSet] /\ CallsInv' /\ OneCloser' /\ ResultsHonest'
  <2>1. \A f \in Executors \ {e} : UnderWay(calls[f]) => Keeps(calls[f].s)
    BY <1>5, <1>6
  <2> QED BY <1>7, <2>1, CallStep
<1>9. calls'[e] = d /\ \A f \in Executors \ {e} : calls'[f] = calls[f]
  BY <1>2
<1>10. \A t : (\E f \in Executors : calls'[f].stage = "close" /\ calls'[f].s = t)
                <=> (\E f \in Executors : calls[f].stage = "close" /\ calls[f].s = t)
  BY <1>9
<1>11. Holders' = Holders
  BY <1>5, <1>10 DEF Holders, Live, Keeps
<1>12. Openers' \subseteq Openers /\ \A f \in Openers' : calls'[f] = calls[f]
  BY <1>7, <1>9 DEF Openers
<1>13. \A s \in Holders : /\ streams'[s].fd = streams[s].fd /\ streams'[s].file = streams[s].file
                          /\ streams'[s].kind = streams[s].kind
  BY <1>5 DEF Holders, Keeps
<1>14. Booked(Holders, streams', Openers', calls', opened)
  BY <1>2, <1>12, <1>13 DEF Booked
<1>15. Booked(Holders', streams', Openers', calls', opened')
  BY <1>11, <1>14
<1>16. ClosedServers'
  BY <1>2, <1>5 DEF ClosedServers, Live, Keeps
<1>17. StreamsTypeOK'
  BY <1>5, <1>8 DEF StreamsInv, StreamsTypeOK
<1> QED BY <1>8, <1>15, <1>16, <1>17 DEF StreamsInv

\* What a read or a write tells is what happened.
LEMMA FinishStep ==
  StreamsInv /\ (\E e \in Executors : FinishRead(e) \/ FinishWrite(e)) => StreamsInv'
<1> SUFFICES ASSUME StreamsInv, NEW e \in Executors, FinishRead(e) \/ FinishWrite(e) PROVE StreamsInv'
  OBVIOUS
<1> DEFINE c == calls[e]
           err(op) == TransferError(streams[c.s], op, errno[e])
<1>1. c \in CallSet /\ CallInv(c, streams[c.s])
  BY CallFacts
<1>2. c.stage = "finish" /\ MarkFailed(c) /\ UNCHANGED <<opened, serial>>
  BY DEF FinishRead, FinishWrite
<1>3. /\ c.size \in Nat /\ c.got \in Int
      /\ \A op : UnderWay(c) => err(op) \in Errors
  <2>1. c.size \in Nat /\ c.got \in Int
    BY <1>1 DEF CallSet
  <2>2. UnderWay(c) => streams[c.s] \in StreamSet /\ streams[c.s].kind # "none"
    BY <1>1, CallFacts DEF UnderWay, CallInv
  <2>3. UnderWay(c) => streams[c.s].kind \in Kinds
    BY <2>2 DEF StreamSet
  <2> QED BY <2>1, <2>2, <2>3, ErrorFacts
<1> HIDE DEF err
<1>4. "None" \notin Errors /\ "StreamNoDataAvailable" \in Errors /\ "TcpUnknownError" \in Errors
  BY DEF Errors
<1>5. ASSUME NEW d \in CallSet, d.stage = "done", d.op = c.op, d.size = c.size, d.got = c.got,
             calls' = [calls EXCEPT ![e] = d], Honest(d), c.op \in {"read", "write"}
      PROVE  StreamsInv'
  BY <1>2, <1>5, TransferEnds
<1>6. "true" \in Results /\ "false" \in Results
  BY DEF Results
<1>7. CASE FinishRead(e)
  <2>1. c.op = "read" /\ calls' = [calls EXCEPT ![e] = ReadOutcome(e, c)] /\ UnderWay(c)
    BY <1>2, <1>7 DEF FinishRead, SetCall, UnderWay
  <2>2. c.got \in -1..c.size
    BY <1>1, <2>1 DEF CallInv
  <2>3. CASE c.got > 0
    <3> DEFINE d == Idle("true", "None", c.got, c)
    <3>1. c.got \in Nat /\ c.size # 0
      BY <1>3, <2>2, <2>3
    <3>2. calls' = [calls EXCEPT ![e] = d]
      BY <2>1, <2>3 DEF ReadOutcome
    <3>3. Ended(d, c, "true", "None", c.got)
      BY <1>1, <1>6, <3>1, IdleFacts
    <3> HIDE DEF d
    <3>4. Honest(d)
      BY <2>1, <2>3, <3>1, <3>3 DEF Honest, Ended, TakenForFailure
    <3> QED BY <1>5, <2>1, <3>2, <3>3, <3>4 DEF Ended
  <2>4. CASE ~(c.got > 0)
    <3> DEFINE x == IF c.got = 0 THEN "StreamNoDataAvailable" ELSE err("read")
               d == Idle("false", x, 0, c)
    <3>1. x \in Errors
      BY <1>3, <1>4, <2>1
    <3>2. ReadOutcome(e, c) = d
      BY <2>4 DEF ReadOutcome, err
    <3> HIDE DEF x
    <3>3. Ended(d, c, "false", x, 0)
      BY <1>1, <1>6, <3>1, IdleFacts
    <3> HIDE DEF d
    <3>4. Honest(d)
      BY <1>4, <2>1, <3>1, <3>3 DEF Honest, Ended, TakenForFailure
    <3> QED BY <1>5, <2>1, <3>2, <3>3, <3>4 DEF Ended
  <2> QED BY <2>3, <2>4
<1>8. CASE FinishWrite(e)
  <2>1. c.op = "write" /\ calls' = [calls EXCEPT ![e] = WriteOutcome(e, c)] /\ UnderWay(c)
    BY <1>2, <1>8 DEF FinishWrite, SetCall, UnderWay
  <2>2. CASE c.got = c.size
    <3> DEFINE d == Idle("true", "None", c.size, c)
    <3>1. calls' = [calls EXCEPT ![e] = d]
      BY <2>1, <2>2 DEF WriteOutcome
    <3>2. Ended(d, c, "true", "None", c.size)
      BY <1>1, <1>3, <1>6, IdleFacts
    <3> HIDE DEF d
    <3>3. Honest(d)
      BY <2>1, <2>2, <3>2 DEF Honest, Ended, TakenForFailure
    <3> QED BY <1>5, <2>1, <3>1, <3>2, <3>3 DEF Ended
  <2>3. CASE c.got # c.size
    <3> DEFINE x == IF c.got >= 0 /\ streams[c.s].kind = "tcp" THEN "TcpUnknownError" ELSE err("write")
               d == Idle("false", x, c.size, c)
    <3>1. x \in Errors
      BY <1>3, <1>4, <2>1
    <3>2. WriteOutcome(e, c) = d
      BY <2>3 DEF WriteOutcome, err
    <3> HIDE DEF x
    <3>3. Ended(d, c, "false", x, c.size)
      BY <1>1, <1>3, <1>6, <3>1, IdleFacts
    <3> HIDE DEF d
    <3>4. Honest(d)
      BY <1>4, <2>1, <3>1, <3>3 DEF Honest, Ended, TakenForFailure
    <3> QED BY <1>5, <2>1, <3>2, <3>3, <3>4 DEF Ended
  <2> QED BY <2>2, <2>3
<1> QED BY <1>7, <1>8
-----------------------------------------------------------------------------
(* Calls that begin. *)

\* A call that ends at once, with what its guards say.
LEMMA AtOnce ==
  ASSUME StreamsInv, UNCHANGED <<streams, opened, serial>>, NEW e \in Executors,
         calls[e].stage = "done",
         NEW op \in Ops, NEW s \in StreamIds \cup {0}, NEW n \in Nat,
         NEW ret \in Results, NEW why \in Errors \cup {"None"}, NEW len \in Nat,
         SetCall(e, Idle(ret, why, len, Begin(e, op, s, n))),
         Reasoned(op, ret, why), op = "read" => len = 0,
         op \in {"read", "write"} /\ ret = "true" => n = 0
  PROVE  StreamsInv'
<1> DEFINE b == Begin(e, op, s, n)
           d == Idle(ret, why, len, b)
<1>1. b \in CallSet /\ b.op = op /\ b.size = n /\ b.got = -1
  BY BeginFacts
<1> HIDE DEF b
<1>2. Ended(d, b, ret, why, len)
  BY <1>1, IdleFacts
<1>3. calls' = [calls EXCEPT ![e] = d]
  BY DEF SetCall, b
<1> HIDE DEF d
<1>4. Honest(d)
  BY <1>1, <1>2 DEF Ended, Honest, TakenForFailure, Reasoned, Results
<1>5. /\ d.op \in {"read", "write"} => d.got \in -1..d.size
      /\ d.op = "accept" => d.got \in {-1, 0}
      /\ d \in CallSet /\ d.stage = "done"
  BY <1>1, <1>2 DEF Ended
<1> QED BY <1>3, <1>4, <1>5, CallEnds

\* A call that has passed its guards and goes on.
LEMMA GoesOn ==
  ASSUME StreamsInv, UNCHANGED <<streams, opened, serial>>, NEW e \in Executors,
         calls[e].stage = "done", NEW c \in CallSet, SetCall(e, c),
         c.stage \in {"check", "exchange"}, ~c.stray, CallInv(c, streams[c.s])
  PROVE  StreamsInv'
<1>1. /\ calls' = [calls EXCEPT ![e] = c] /\ Honest(c) /\ StrayExplained(c, streams[c.s])
      /\ ~Pending(c) /\ c.stage # "close"
  BY DEF SetCall, Honest, StrayExplained, Pending, CallInv
<1> QED BY <1>1, CallOnly

LEMMA TransferStep ==
  StreamsInv /\ (\E e \in Executors, s \in StreamIds, n \in Sizes, op \in {"read", "write"} : Transfer(e, op, s, n))
    => StreamsInv'
<1> SUFFICES ASSUME StreamsInv, NEW e \in Executors, NEW s \in StreamIds, NEW n \in Sizes,
                    NEW op \in {"read", "write"}, Transfer(e, op, s, n)
             PROVE  StreamsInv'
  OBVIOUS
<1> DEFINE r == streams[s]
           c == Begin(e, op, s, n)
           ends(ret, err, len) == SetCall(e, Idle(ret, err, len, c))
<1>1. /\ n \in Nat /\ s \in StreamIds \cup {0} /\ op \in Ops /\ 0 \in Nat
      /\ "true" \in Results /\ "false" \in Results
      /\ "StreamInvalid" \in Errors /\ "StreamReadNotSupported" \in Errors /\ "StreamWriteNotSupported" \in Errors
  BY StreamsAssumption DEF Ops, Results, Errors
<1>2. calls[e].stage = "done" /\ UNCHANGED <<streams, opened, serial>> /\ Live(s)
  BY DEF Transfer, CanCall
<1>3. c \in CallSet /\ c.op = op /\ c.s = s /\ c.size = n /\ c.stage = "check" /\ c.got = -1 /\ ~c.stray
  BY <1>1, BeginFacts
<1> HIDE DEF c
<1>4. CASE ~isValid(r)
  <2>1. ends("false", "StreamInvalid", 0)
    BY <1>4 DEF Transfer, c
  <2> QED BY <1>1, <1>2, <2>1, AtOnce DEF c, Reasoned
<1>5. CASE isValid(r) /\ op = "read" /\ ReadNotSupported(r)
  <2>1. ends("false", "StreamReadNotSupported", 0)
    BY <1>5 DEF Transfer, c
  <2> QED BY <1>1, <1>2, <2>1, AtOnce DEF c, Reasoned
<1>6. CASE isValid(r) /\ op = "write" /\ WriteNotSupported(r)
  <2>1. ends("false", "StreamWriteNotSupported", n)
    BY <1>6 DEF Transfer, c
  <2> QED BY <1>1, <1>2, <1>6, <2>1, AtOnce DEF c, Reasoned
<1> DEFINE guarded == /\ isValid(r) /\ ~(op = "read" /\ ReadNotSupported(r))
                      /\ ~(op = "write" /\ WriteNotSupported(r))
<1>7. CASE guarded /\ n = 0 /\ SkipsEmpty(r, op)
  <2>1. ends("true", "None", 0)
    BY <1>7 DEF Transfer, c
  <2> QED BY <1>1, <1>2, <1>7, <2>1, AtOnce DEF c, Reasoned
<1>8. CASE guarded /\ ~(n = 0 /\ SkipsEmpty(r, op))
  <2>1. SetCall(e, c)
    BY <1>8 DEF Transfer, c
  <2>2. r.kind # "none" /\ r.fd # -1 /\ (r.kind = "tcp" => r.mode = "Connection")
    BY <1>2, <1>8 DEF Live, isValid, ReadNotSupported, WriteNotSupported
  <2>3. CallInv(c, streams[c.s])
    BY <1>1, <1>3, <2>2 DEF CallInv
  <2> QED BY <1>2, <1>3, <2>1, <2>3, GoesOn
<1> QED BY <1>4, <1>5, <1>6, <1>7, <1>8

\* Options and terminals: calls that end at once.
LEMMA OptionsStep ==
  StreamsInv /\ (\E e \in Executors, s \in StreamIds :
                   \/ \E o \in {{}, {"NoBlock"}}, on \in BOOLEAN : SetOptions(e, s, o, on)
                   \/ \E t \in BOOLEAN : GetIsTerm(e, s, t)
                   \/ \E o \in TermOutcomes : TermCall(e, s, o)) => StreamsInv'
<1> SUFFICES ASSUME StreamsInv, NEW e \in Executors, NEW s \in StreamIds,
                    \/ \E o \in {{}, {"NoBlock"}}, on \in BOOLEAN : SetOptions(e, s, o, on)
                    \/ \E t \in BOOLEAN : GetIsTerm(e, s, t)
                    \/ \E o \in TermOutcomes : TermCall(e, s, o)
             PROVE  StreamsInv'
  OBVIOUS
<1>1. calls[e].stage = "done" /\ UNCHANGED <<streams, opened, serial>>
  BY DEF SetOptions, GetIsTerm, TermCall, CanCall
<1>2. s \in StreamIds \cup {0} /\ 0 \in Nat /\ {"options", "isterm", "term"} \subseteq Ops
      /\ Results = {"true", "false", "aborted"} /\ "None" \notin Errors
      /\ {"StreamInvalid", "StreamOptionsNotSupported", "ConsoleUnknownError", "ConsoleNoTerminal",
          "ConsoleFailedToGetTermInfo", "ConsoleFailedToUpdateTermInfo"} \subseteq Errors
  BY DEF Ops, Results, Errors
<1>3. \E op \in {"options", "isterm", "term"}, ret \in {"true", "false"}, why \in Errors \cup {"None"} :
        Reasoned(op, ret, why) /\ SetCall(e, Idle(ret, why, 0, Begin(e, op, s, 0)))
  <2>1. CASE \E o \in {{}, {"NoBlock"}}, on \in BOOLEAN : SetOptions(e, s, o, on)
    BY <1>2, <2>1 DEF SetOptions, Reasoned
  <2>2. CASE \E t \in BOOLEAN : GetIsTerm(e, s, t)
    BY <1>2, <2>2 DEF GetIsTerm, Reasoned
  <2>3. CASE \E o \in TermOutcomes : TermCall(e, s, o)
    BY <1>2, <2>3 DEF TermCall, TermOutcomes, Reasoned
  <2> QED BY <2>1, <2>2, <2>3
<1>4. PICK op \in {"options", "isterm", "term"}, ret \in {"true", "false"}, why \in Errors \cup {"None"} :
        Reasoned(op, ret, why) /\ SetCall(e, Idle(ret, why, 0, Begin(e, op, s, 0)))
  BY <1>3
<1>5. op \in Ops /\ op # "read" /\ op # "write" /\ ret \in Results
  BY <1>2
<1> QED BY <1>1, <1>2, <1>4, <1>5, AtOnce

LEMMA LookupStep == StreamsInv /\ (\E e \in Executors : IpLookupAddress(e)) => StreamsInv'
<1> SUFFICES ASSUME StreamsInv, NEW e \in Executors, IpLookupAddress(e) PROVE StreamsInv'
  OBVIOUS
<1>1. calls[e].stage = "done" /\ UNCHANGED <<streams, opened, serial>>
  BY DEF IpLookupAddress, CanCall
<1>2. 0 \in StreamIds \cup {0} /\ 0 \in Nat /\ 4 \in Nat /\ "lookup" \in Ops /\ "lookup" \notin {"read", "write"}
      /\ Results = {"true", "false", "aborted"} /\ "None" \notin Errors
      /\ {"FeatureNetworkNotEnabled", "TcpInvalidAddressFamily", "TcpAddressNotFound", "TcpUnknownError"} \subseteq Errors
  BY DEF Ops, Results, Errors
<1>3. \/ SetCall(e, Idle("true", "None", 4, Begin(e, "lookup", 0, 4)))
      \/ SetCall(e, Idle("aborted", "None", 0, Begin(e, "lookup", 0, 4)))
      \/ \E err \in Errors : SetCall(e, Idle("false", err, 0, Begin(e, "lookup", 0, 4)))
  BY <1>2 DEF IpLookupAddress
<1>4. CASE SetCall(e, Idle("true", "None", 4, Begin(e, "lookup", 0, 4)))
  BY <1>1, <1>2, <1>4, AtOnce DEF Reasoned
<1>5. CASE SetCall(e, Idle("aborted", "None", 0, Begin(e, "lookup", 0, 4)))
  BY <1>1, <1>2, <1>5, AtOnce DEF Reasoned
<1>6. ASSUME NEW err \in Errors, SetCall(e, Idle("false", err, 0, Begin(e, "lookup", 0, 4))) PROVE StreamsInv'
  BY <1>1, <1>2, <1>6, AtOnce DEF Reasoned
<1> QED BY <1>3, <1>4, <1>5, <1>6

LEMMA ShutdownStep ==
  StreamsInv /\ (\E e \in Executors, s \in StreamIds : TcpShutdown(e, s)) => StreamsInv'
<1> SUFFICES ASSUME StreamsInv, NEW e \in Executors, NEW s \in StreamIds, TcpShutdown(e, s) PROVE StreamsInv'
  OBVIOUS
<1> DEFINE r == streams[s]
           c == Begin(e, "shutdown", s, 0)
<1>1. calls[e].stage = "done" /\ UNCHANGED <<streams, opened, serial>> /\ Live(s)
  BY DEF TcpShutdown, CanCall
<1>2. s \in StreamIds \cup {0} /\ 0 \in Nat /\ "shutdown" \in Ops /\ "shutdown" \notin {"read", "write"}
      /\ Results = {"true", "false", "aborted"} /\ "TcpInvalidSocket" \in Errors /\ "None" \notin Errors
  BY DEF Ops, Results, Errors
<1>3. c \in CallSet /\ c.op = "shutdown" /\ c.s = s /\ c.size = 0 /\ c.stage = "check" /\ ~c.stray
  BY <1>2, BeginFacts
<1> HIDE DEF c
<1>4. CASE SetCall(e, Idle("false", "TcpInvalidSocket", 0, c))
  BY <1>1, <1>2, <1>4, AtOnce DEF c, Reasoned
<1>5. CASE SetCall(e, Idle("true", "None", 0, c))
  BY <1>1, <1>2, <1>5, AtOnce DEF c, Reasoned
<1>6. CASE SetCall(e, Idle("false", "None", 0, c))
  BY <1>1, <1>2, <1>6, AtOnce DEF c, Reasoned
<1>7. CASE isValid(r) /\ r.kind = "tcp" /\ r.mode = "Server" /\ SetCall(e, At(c, "exchange"))
  <2> DEFINE d == At(c, "exchange")
  <2>1. d \in CallSet /\ d.op = "shutdown" /\ d.s = s /\ d.stage = "exchange" /\ ~d.stray
    BY <1>3, AtFacts DEF Stages
  <2> HIDE DEF d
  <2>2. CallInv(d, streams[d.s])
    BY <1>1, <1>7, <2>1 DEF CallInv, Live, isValid
  <2> QED BY <1>1, <1>7, <2>1, <2>2, GoesOn DEF d
<1>8. \/ SetCall(e, Idle("false", "TcpInvalidSocket", 0, c))
      \/ SetCall(e, Idle("true", "None", 0, c))
      \/ SetCall(e, Idle("false", "None", 0, c))
      \/ isValid(r) /\ r.kind = "tcp" /\ r.mode = "Server" /\ SetCall(e, At(c, "exchange"))
  BY DEF TcpShutdown, c, At
<1> QED BY <1>4, <1>5, <1>6, <1>7, <1>8
-----------------------------------------------------------------------------
(* Connecting and accepting. *)

\* connect() answers, or is tried again.
LEMMA ConnectingStep ==
  StreamsInv /\ (\E e \in Executors : Connected(e) \/ ConnectRetries(e)) => StreamsInv'
<1> SUFFICES ASSUME StreamsInv, NEW e \in Executors, Connected(e) \/ ConnectRetries(e) PROVE StreamsInv'
  OBVIOUS
<1> DEFINE c == calls[e]
<1>1. c \in CallSet /\ CallInv(c, streams[c.s]) /\ StrayExplained(c, streams[c.s]) /\ Honest(c)
  BY CallFacts
<1>2. c.stage = "blocked" /\ c.op = "connect" /\ UNCHANGED <<streams, opened, serial>>
  BY DEF Connected, ConnectRetries, Fails
<1>3. ASSUME NEW n \in {-1, 0}, calls' = [calls EXCEPT ![e] = Answer(c, "resume", n)] PROVE StreamsInv'
  <2> DEFINE d == Answer(c, "resume", n)
  <2>1. n \in Int /\ "resume" \in Stages
    BY DEF Stages
  <2>2. /\ d \in CallSet /\ d.stage = "resume" /\ d.op = c.op /\ d.s = c.s /\ d.size = c.size
        /\ d.fd = c.fd /\ d.file = c.file /\ d.stray = c.stray
    BY <1>1, <2>1, AnswerFacts
  <2>3. calls' = [calls EXCEPT ![e] = d]
    BY <1>3
  <2> HIDE DEF d
  <2>4. Pending(c) /\ CallInv(d, streams[d.s]) /\ Honest(d) /\ StrayExplained(d, streams[d.s])
    BY <1>1, <1>2, <2>2 DEF Pending, CallInv, Honest, StrayExplained
  <2> QED BY <1>2, <2>2, <2>3, <2>4, CallOnly
<1>4. CASE Connected(e)
  <2>1. calls' = [calls EXCEPT ![e] = Answer(c, "resume", 0)] \/ calls' = [calls EXCEPT ![e] = Answer(c, "resume", -1)]
    BY <1>4 DEF Connected, Fails, SetCall, Answer
  <2> QED BY <1>3, <2>1
<1>5. CASE ConnectRetries(e)
  <2>1. calls' = [calls EXCEPT ![e] = c]
    <3>1. calls' = calls /\ calls \in [Executors -> CallSet]
      BY <1>5 DEF ConnectRetries, StreamsInv, StreamsTypeOK
    <3> QED BY <3>1
  <2> QED BY <1>1, <1>2, <2>1, CallOnly
<1> QED BY <1>4, <1>5

\* accept() is tried again, or gives up.
LEMMA AcceptAgainStep ==
  StreamsInv /\ (\E e \in Executors : AcceptFails(e) \/ AcceptTimeout(e) \/ AcceptInterrupted(e)) => StreamsInv'
<1> SUFFICES ASSUME StreamsInv, NEW e \in Executors, AcceptFails(e) \/ AcceptTimeout(e) \/ AcceptInterrupted(e)
             PROVE  StreamsInv'
  OBVIOUS
<1> DEFINE c == calls[e]
<1>1. c \in CallSet /\ CallInv(c, streams[c.s]) /\ StrayExplained(c, streams[c.s])
  BY CallFacts
<1>2. c.stage = "blocked" /\ c.op = "accept" /\ UNCHANGED <<streams, opened, serial>>
  BY DEF AcceptFails, AcceptTimeout, AcceptInterrupted
<1>3. PICK d \in {Answer(c, "resume", -1), At(c, "check")} : calls' = [calls EXCEPT ![e] = d]
  BY DEF AcceptFails, AcceptTimeout, AcceptInterrupted, Fails, SetCall, Retry, Answer, At
<1>4. /\ d \in CallSet /\ d.op = c.op /\ d.s = c.s /\ d.size = c.size /\ d.stray = c.stray
      /\ \/ d.stage = "resume" /\ d.got = -1
         \/ d.stage = "check" /\ d.got = c.got
  <2>1. CASE d = Answer(c, "resume", -1)
    BY <1>1, <2>1, FailedFacts
  <2>2. CASE d = At(c, "check")
    <3>1. "check" \in Stages
      BY DEF Stages
    <3> QED BY <1>1, <2>2, <3>1, AtFacts
  <2> QED BY <2>1, <2>2
<1>5. ~Pending(d) /\ StrayExplained(d, streams[d.s]) /\ d.got \in {-1, 0}
  BY <1>1, <1>2, <1>4 DEF Pending, StrayExplained, CallInv
<1> QED BY <1>2, <1>3, <1>4, <1>5, MoveStep

\* A call gets a descriptor that nobody has.
LEMMA DescriptorStep ==
  ASSUME StreamsInv, AnyFree, streams' = streams, opened' = [opened EXCEPT ![FirstFree] = serial],
         serial' = serial + 1, NEW e \in Executors, NEW c \in CallSet, calls' = [calls EXCEPT ![e] = c],
         calls[e].stage # "close", c.stage # "close", Pending(c), c.fd = FirstFree, c.file = serial,
         CallInv(c, streams[c.s]), Honest(c), StrayExplained(c, streams[c.s])
  PROVE  StreamsInv'
<1> DEFINE x == FirstFree
<1>1. /\ streams \in [StreamIds -> StreamSet] /\ calls \in [Executors -> CallSet] /\ ClosedServers
      /\ opened \in [Descriptors -> Nat] /\ serial \in Nat \ {0}
      /\ Booked(Holders, streams, Openers, calls, opened)
  BY DEF StreamsInv, StreamsTypeOK
<1>2. x \in Descriptors /\ x # -1 /\ opened[x] = 0
  BY FirstFreeFacts
<1> HIDE DEF x
<1>3. calls' \in [Executors -> CallSet] /\ CallsInv' /\ OneCloser' /\ ResultsHonest'
  <2>1. \A f \in Executors \ {e} : Keeps(calls[f].s)
    BY DEF Keeps
  <2> QED BY <2>1, CallStep
<1>4. calls'[e] = c /\ \A f \in Executors \ {e} : calls'[f] = calls[f]
  BY <1>1
<1>5. Holders' = Holders
  <2>1. \A s : (\E f \in Executors : calls'[f].stage = "close" /\ calls'[f].s = s)
                 <=> (\E f \in Executors : calls[f].stage = "close" /\ calls[f].s = s)
    BY <1>4
  <2> QED BY <2>1 DEF Holders, Live
<1>6. Openers' = (Openers \ {e}) \cup {e}
  BY <1>4 DEF Openers
<1>7. (\A s \in Holders : streams[s].fd # x) /\ (\A f \in Openers : calls[f].fd # x)
  BY <1>1, <1>2 DEF Booked
<1>8. (\A f \in Openers \ {e} : calls'[f] = calls[f]) /\ (\A f \in Openers \ {e} : calls'[f].fd # x)
  BY <1>4, <1>7 DEF Openers
<1>9. Booked(Holders, streams, Openers \ {e}, calls', opened)
  BY <1>1, <1>8 DEF Booked
<1>10. Booked(Holders, streams, Openers \ {e}, calls', opened')
  <2>1. opened' = [opened EXCEPT ![x] = serial]
    BY DEF x
  <2>2. \A s \in Holders : opened'[streams[s].fd] = opened[streams[s].fd]
    BY <1>1, <1>7, <2>1, HeldFacts
  <2>3. \A f \in Openers \ {e} : opened'[calls'[f].fd] = opened[calls'[f].fd]
    BY <1>1, <1>8, <2>1, HeldFacts
  <2> QED BY <1>9, <2>2, <2>3 DEF Booked
<1>11. calls'[e].fd = x /\ opened'[x] = serial /\ calls'[e].file = serial /\ serial # 0
  BY <1>1, <1>2, <1>4 DEF x
<1>12. Booked(Holders, streams, (Openers \ {e}) \cup {e}, calls', opened')
  BY <1>2, <1>7, <1>8, <1>10, <1>11 DEF Booked
<1>13. Booked(Holders', streams', Openers', calls', opened')
  BY <1>5, <1>6, <1>12
<1>14. opened' \in [Descriptors -> Nat] /\ serial' \in Nat \ {0}
  <2>1. serial \in Nat /\ serial + 1 \in Nat \ {0}
    BY <1>1
  <2> QED BY <1>1, <2>1
<1>15. ClosedServers'
  BY <1>1 DEF ClosedServers, Live
<1> QED BY <1>1, <1>3, <1>13, <1>14, <1>15 DEF StreamsInv, StreamsTypeOK

LEMMA AcceptedStep == StreamsInv /\ (\E e \in Executors : Accepted(e)) => StreamsInv'
<1> SUFFICES ASSUME StreamsInv, NEW e \in Executors, Accepted(e) PROVE StreamsInv'
  OBVIOUS
<1> DEFINE c == calls[e]
           d == Accept(c, FirstFree, serial)
<1>1. c \in CallSet /\ CallInv(c, streams[c.s]) /\ StrayExplained(c, streams[c.s])
  BY CallFacts
<1>2. /\ c.stage = "blocked" /\ c.op = "accept" /\ AnyFree /\ streams' = streams
      /\ opened' = [opened EXCEPT ![FirstFree] = serial] /\ serial' = serial + 1
      /\ calls' = [calls EXCEPT ![e] = d]
  BY DEF Accepted, SetCall, Accept
<1>3. FirstFree \in Descriptors /\ serial \in Nat
  BY <1>2, FirstFreeFacts DEF StreamsInv, StreamsTypeOK
<1>4. /\ d \in CallSet /\ d.stage = "resume" /\ d.op = c.op /\ d.s = c.s /\ d.size = c.size
      /\ d.got = 0 /\ d.stray = c.stray /\ d.fd = FirstFree /\ d.file = serial
  BY <1>1, <1>3, AcceptFacts
<1> HIDE DEF d
<1>5. Pending(d) /\ Honest(d) /\ StrayExplained(d, streams[d.s]) /\ CallInv(d, streams[d.s])
  BY <1>1, <1>2, <1>4 DEF Pending, Honest, StrayExplained, CallInv
<1> QED BY <1>2, <1>4, <1>5, DescriptorStep
-----------------------------------------------------------------------------
(* Closing. *)

\* Only the first shutdown goes on to close.
LEMMA ExchangeStep == StreamsInv /\ (\E e \in Executors : Exchange(e)) => StreamsInv'
<1> SUFFICES ASSUME StreamsInv, NEW e \in Executors, Exchange(e) PROVE StreamsInv'
  OBVIOUS
<1> DEFINE c == calls[e]
           r == streams[c.s]
           r2 == [r EXCEPT !.state = "Closed"]
<1>1. c \in CallSet /\ CallInv(c, r) /\ (UnderWay(c) => r \in StreamSet) /\ StrayExplained(c, r)
  BY CallFacts
<1>2. c.stage = "exchange" /\ opened' = opened /\ serial' = serial /\ streams' = [streams EXCEPT ![c.s] = r2]
  BY DEF Exchange
<1>3. /\ c.op = "shutdown" /\ UnderWay(c) /\ c.s \in StreamIds /\ Live(c.s) /\ r.fd # -1
      /\ r.kind = "tcp" /\ r.mode = "Server"
  BY <1>1, <1>2 DEF CallInv, UnderWay, Live
<1>4. /\ streams \in [StreamIds -> StreamSet] /\ calls \in [Executors -> CallSet] /\ ClosedServers
      /\ Booked(Holders, streams, Openers, calls, opened) /\ StreamsTypeOK
  BY DEF StreamsInv, StreamsTypeOK
<1>5. CASE r.state = "Closed"
  <2> DEFINE d == Idle("false", "None", 0, c)
  <2>1. r2 = r
    BY <1>1, <1>3, <1>5 DEF StreamSet
  <2>2. streams' = streams
    BY <1>2, <1>3, <1>4, <2>1
  <2>3. calls' = [calls EXCEPT ![e] = d]
    BY <1>5 DEF Exchange, SetCall
  <2>4. Ended(d, c, "false", "None", 0)
    <3>1. "false" \in Results
      BY DEF Results
    <3> QED BY <1>1, <3>1, IdleFacts
  <2> HIDE DEF d
  <2>5. Honest(d) /\ d.op = "shutdown" /\ d \in CallSet /\ d.stage = "done"
    BY <1>3, <2>4, EndedHonest DEF Ended, Reasoned, Results
  <2> QED BY <1>2, <2>2, <2>3, <2>5, CallEnds
<1>6. CASE r.state # "Closed"
  <2> DEFINE d == At(c, "close")
  <2>1. calls' = [calls EXCEPT ![e] = d]
    BY <1>6 DEF Exchange, SetCall, At
  <2>2. /\ d \in CallSet /\ d.stage = "close" /\ d.op = c.op /\ d.s = c.s /\ d.stray = c.stray
    BY <1>1, AtFacts DEF Stages
  <2>3. /\ r2 \in StreamSet /\ r2.state = "Closed" /\ r2.kind = r.kind /\ r2.mode = r.mode
        /\ r2.fd = r.fd /\ r2.file = r.file
    BY <1>1, <1>3 DEF StreamSet
  <2> HIDE DEF d, r2
  <2>4. streams' \in [StreamIds -> StreamSet] /\ streams'[c.s] = r2
        /\ \A s \in StreamIds \ {c.s} : streams'[s] = streams[s]
    BY <1>2, <1>3, <1>4, <2>3
  <2>5. \A s \in StreamIds : Keeps(s) /\ streams'[s].file = streams[s].file
    BY <1>6, <2>3, <2>4 DEF Keeps
  <2>6. \A f \in Executors : UnderWay(calls[f]) => calls[f].s \in StreamIds
    BY CallFacts DEF CallInv, UnderWay
  <2>7. CallInv(d, streams'[d.s]) /\ Honest(d) /\ StrayExplained(d, streams'[d.s]) /\ ~Pending(d)
    BY <1>1, <1>2, <1>3, <2>2, <2>3, <2>4 DEF CallInv, Honest, StrayExplained, Pending, Live
  <2>8. \A f \in Executors : ~(calls[f].stage = "close" /\ calls[f].s = c.s)
    BY <1>6, CallFacts DEF CallInv
  <2>9. calls' \in [Executors -> CallSet] /\ CallsInv' /\ OneCloser' /\ ResultsHonest'
    <3>1. \A f \in Executors \ {e} : UnderWay(calls[f]) => Keeps(calls[f].s)
      BY <2>5, <2>6
    <3> QED BY <2>1, <2>2, <2>7, <2>8, <3>1, CallStep
  <2>10. calls'[e] = d /\ \A f \in Executors \ {e} : calls'[f] = calls[f]
    BY <1>4, <2>1
  <2>11. Holders' = Holders
    <3>1. c.s \in Holders /\ c.s \in Holders'
      BY <1>3, <1>6, <2>2, <2>3, <2>4, <2>10 DEF Holders, Live
    <3>2. ASSUME NEW s \in StreamIds, s # c.s PROVE s \in Holders' <=> s \in Holders
      <4>1. (\E f \in Executors : calls'[f].stage = "close" /\ calls'[f].s = s)
              <=> (\E f \in Executors : calls[f].stage = "close" /\ calls[f].s = s)
        BY <1>2, <2>2, <2>10, <3>2
      <4> QED BY <2>4, <3>2, <4>1 DEF Holders, Live
    <3>3. Holders \subseteq StreamIds /\ Holders' \subseteq StreamIds
      BY DEF Holders
    <3> QED BY <3>1, <3>2, <3>3
  <2>12. Openers' \subseteq Openers /\ \A f \in Openers' : calls'[f] = calls[f]
    BY <2>7, <2>10 DEF Openers
  <2>13. \A s \in Holders : /\ streams'[s].fd = streams[s].fd /\ streams'[s].file = streams[s].file
                            /\ streams'[s].kind = streams[s].kind
    BY <2>5 DEF Holders, Keeps
  <2>14. Booked(Holders, streams', Openers', calls', opened)
    BY <1>4, <2>12, <2>13 DEF Booked
  <2>15. Booked(Holders', streams', Openers', calls', opened')
    BY <1>2, <2>11, <2>14
  <2>16. ClosedServers'
    BY <1>3, <1>4, <2>3, <2>4 DEF ClosedServers, Live
  <2>17. StreamsTypeOK'
    BY <1>2, <1>4, <2>4, <2>9 DEF StreamsTypeOK
  <2> QED BY <2>9, <2>15, <2>16, <2>17 DEF StreamsInv
<1> QED BY <1>5, <1>6

\* A holder leaves, and its descriptor is closed.
LEMMA BookedClose ==
  ASSUME StreamsInv, NEW s \in Holders, streams[s].kind \in {"file", "tcp"},
         Holders' = Holders \ {s}, Openers' \subseteq Openers,
         \A t \in Holders' : streams'[t] = streams[t], \A f \in Openers' : calls'[f] = calls[f],
         opened' = [opened EXCEPT ![streams[s].fd] = 0]
  PROVE  Booked(Holders', streams', Openers', calls', opened')
<1> DEFINE d == streams[s].fd
<1>1. Booked(Holders, streams, Openers, calls, opened)
  BY DEF StreamsInv
<1>2. (\A t \in Holders' : streams'[t].fd # d) /\ (\A f \in Openers' : calls'[f].fd # d)
  BY <1>1 DEF Booked
<1>3. Booked(Holders', streams', Openers', calls', opened)
  BY <1>1 DEF Booked
<1> HIDE DEF d
<1>4. opened' = [opened EXCEPT ![d] = 0] /\ opened \in [Descriptors -> Nat]
  BY DEF d, StreamsInv, StreamsTypeOK
<1>5. \A t \in Holders' : opened'[streams'[t].fd] = opened[streams'[t].fd]
  BY <1>2, <1>4, HeldFacts
<1>6. \A f \in Openers' : opened'[calls'[f].fd] = opened[calls'[f].fd]
  BY <1>2, <1>4, HeldFacts
<1> QED BY <1>3, <1>5, <1>6 DEF Booked

\* The server is closed once, while the descriptor still is its own.
LEMMA CloseServerStep == StreamsInv /\ (\E e \in Executors : CloseServer(e)) => StreamsInv'
<1> SUFFICES ASSUME StreamsInv, NEW e \in Executors, CloseServer(e), NEW ret \in {"true", "false"},
                    SetCall(e, Idle(ret, "None", 0, calls[e]))
             PROVE  StreamsInv'
  BY DEF CloseServer
<1> DEFINE c == calls[e]
           r == streams[c.s]
           d == Idle(ret, "None", 0, c)
<1>1. c \in CallSet /\ CallInv(c, r)
  BY CallFacts
<1>2. /\ c.stage = "close" /\ streams' = streams /\ serial' = serial
      /\ opened' = [opened EXCEPT ![r.fd] = 0] /\ calls' = [calls EXCEPT ![e] = d]
  BY DEF CloseServer, SetCall
<1>3. /\ c.op = "shutdown" /\ c.s \in StreamIds /\ Live(c.s) /\ r.fd # -1
      /\ r.kind = "tcp" /\ r.mode = "Server" /\ r.state = "Closed"
  BY <1>1, <1>2 DEF CallInv, Live
<1>4. /\ streams \in [StreamIds -> StreamSet] /\ calls \in [Executors -> CallSet] /\ ClosedServers
      /\ OneCloser /\ opened \in [Descriptors -> Nat] /\ serial \in Nat \ {0}
  BY DEF StreamsInv, StreamsTypeOK
<1>5. Ended(d, c, ret, "None", 0) /\ ret \in Results
  <2>1. ret \in Results
    BY DEF Results
  <2> QED BY <1>1, <2>1, IdleFacts
<1> HIDE DEF d
<1>6. /\ Honest(d) /\ CallInv(d, streams'[d.s]) /\ StrayExplained(d, streams'[d.s]) /\ ~Pending(d)
      /\ d \in CallSet /\ d.stage = "done"
  <2>1. Honest(d)
    BY <1>3, <1>5, EndedHonest DEF Reasoned
  <2> QED BY <1>3, <1>5, <2>1 DEF Ended, CallInv, StrayExplained, Pending
<1>7. calls' \in [Executors -> CallSet] /\ CallsInv' /\ OneCloser' /\ ResultsHonest'
  <2>1. \A f \in Executors \ {e} : Keeps(calls[f].s)
    BY <1>2 DEF Keeps
  <2> QED BY <1>2, <1>6, <2>1, CallStep
<1>8. calls'[e] = d /\ \A f \in Executors \ {e} : calls'[f] = calls[f]
  BY <1>2, <1>4
<1>9. c.s \in Holders
  BY <1>2, <1>3 DEF Holders
<1>10. Holders' = Holders \ {c.s}
  <2>1. c.s \notin Holders'
    <3>1. \A f \in Executors : ~(calls'[f].stage = "close" /\ calls'[f].s = c.s)
      BY <1>2, <1>4, <1>6, <1>8 DEF OneCloser
    <3> QED BY <1>2, <1>3, <3>1 DEF Holders, Live
  <2>2. ASSUME NEW s \in StreamIds, s # c.s PROVE s \in Holders' <=> s \in Holders
    <3>1. (\E f \in Executors : calls'[f].stage = "close" /\ calls'[f].s = s)
            <=> (\E f \in Executors : calls[f].stage = "close" /\ calls[f].s = s)
      BY <1>6, <1>8, <2>2
    <3> QED BY <1>2, <3>1 DEF Holders, Live
  <2>3. Holders \subseteq StreamIds /\ Holders' \subseteq StreamIds
    BY DEF Holders
  <2> QED BY <2>1, <2>2, <2>3
<1>11. Openers' \subseteq Openers /\ \A f \in Openers' : calls'[f] = calls[f]
  BY <1>6, <1>8 DEF Openers
<1>12. Booked(Holders', streams', Openers', calls', opened')
  <2>1. \A t \in Holders' : streams'[t] = streams[t]
    BY <1>2
  <2> QED BY <1>2, <1>3, <1>9, <1>10, <1>11, <2>1, BookedClose
<1>13. StreamsTypeOK' /\ ClosedServers'
  BY <1>2, <1>4, <1>7 DEF StreamsTypeOK, ClosedServers, Live
<1> QED BY <1>7, <1>12, <1>13 DEF StreamsInv

\* The collector closes what a stream still owns, and nothing else.
LEMMA DestroyStep == StreamsInv /\ (\E s \in StreamIds : Destroy(s)) => StreamsInv'
<1> SUFFICES ASSUME StreamsInv, NEW s \in StreamIds, Destroy(s) PROVE StreamsInv'
  OBVIOUS
<1> DEFINE r == streams[s]
           closes == r.kind \in {"file", "tcp"} /\ r.fd # -1 /\ ~(r.kind = "tcp" /\ r.state = "Closed")
<1>1. /\ streams \in [StreamIds -> StreamSet] /\ calls \in [Executors -> CallSet] /\ ClosedServers
      /\ opened \in [Descriptors -> Nat] /\ serial \in Nat \ {0} /\ CallsInv /\ OneCloser /\ ResultsHonest
      /\ Booked(Holders, streams, Openers, calls, opened)
  BY DEF StreamsInv, StreamsTypeOK
<1>2. /\ Live(s) /\ ~InUse(s) /\ streams' = [streams EXCEPT ![s] = NoStream]
      /\ opened' = IF closes THEN [opened EXCEPT ![r.fd] = 0] ELSE opened
      /\ serial' = serial /\ calls' = calls
  BY DEF Destroy
<1>3. /\ NoStream \in StreamSet /\ NoStream.kind = "none"
  BY DEF NoStream, StreamSet
<1>4. /\ streams' \in [StreamIds -> StreamSet] /\ streams'[s].kind = "none"
      /\ \A t \in StreamIds \ {s} : streams'[t] = streams[t]
  BY <1>1, <1>2, <1>3
<1>5. \A f \in Executors : UnderWay(calls[f]) => calls[f].s \in StreamIds \ {s}
  BY <1>1, <1>2 DEF CallsInv, CallInv, UnderWay, InUse
<1>6. CallsInv' /\ ResultsHonest'
  <2> SUFFICES ASSUME NEW f \in Executors
               PROVE  /\ CallInv(calls[f], streams'[calls[f].s])
                      /\ Honest(calls[f]) /\ StrayExplained(calls[f], streams'[calls[f].s])
    BY <1>2 DEF CallsInv, ResultsHonest
  <2>1. CallInv(calls[f], streams[calls[f].s]) /\ Honest(calls[f]) /\ StrayExplained(calls[f], streams[calls[f].s])
    BY <1>1 DEF CallsInv, ResultsHonest
  <2>2. CASE UnderWay(calls[f])
    BY <1>4, <1>5, <2>1, <2>2
  <2>3. CASE ~UnderWay(calls[f])
    BY <2>1, <2>3 DEF CallInv, StrayExplained, UnderWay
  <2> QED BY <2>2, <2>3
<1>7. OneCloser' /\ Openers' = Openers
  BY <1>1, <1>2 DEF OneCloser, Openers
<1>8. Holders' = Holders \ {s}
  <2>1. s \notin Holders'
    BY <1>4 DEF Holders, Live
  <2>2. ASSUME NEW t \in StreamIds, t # s PROVE t \in Holders' <=> t \in Holders
    BY <1>2, <1>4, <2>2 DEF Holders, Live
  <2>3. Holders \subseteq StreamIds /\ Holders' \subseteq StreamIds
    BY DEF Holders
  <2> QED BY <2>1, <2>2, <2>3
<1>9. \A t \in Holders' : streams'[t] = streams[t]
  BY <1>4, <1>8 DEF Holders
<1>10. opened' \in [Descriptors -> Nat]
  BY <1>1, <1>2
<1>11. Booked(Holders', streams', Openers', calls', opened')
  <2>1. CASE closes
    <3>1. s \in Holders
      BY <1>1, <1>2, <2>1 DEF Holders, ClosedServers
    <3> QED BY <1>2, <1>7, <1>8, <1>9, <2>1, <3>1, BookedClose
  <2>2. CASE ~closes
    <3>1. opened' = opened /\ Holders' \subseteq Holders
      BY <1>2, <1>8, <2>2
    <3> QED BY <1>1, <1>2, <1>7, <1>9, <3>1 DEF Booked
  <2> QED BY <2>1, <2>2
<1>12. StreamsTypeOK' /\ ClosedServers'
  BY <1>1, <1>2, <1>4, <1>10 DEF StreamsTypeOK, ClosedServers, Live
<1> QED BY <1>6, <1>7, <1>11, <1>12 DEF StreamsInv
-----------------------------------------------------------------------------
(* Calls that make a stream. *)

\* A call that ends without one, whatever it had opened.
LEMMA CallLeaves ==
  ASSUME StreamsInv, streams' = streams, NEW e \in Executors, NEW c \in CallSet, c.stage = "done",
         calls' = [calls EXCEPT ![e] = c], calls[e].stage # "close", Honest(c),
         c.op \notin {"read", "write"}, c.op = "accept" => c.got \in {-1, 0},
         opened' \in [Descriptors -> Nat], serial' \in Nat \ {0},
         Booked(Holders, streams, Openers \ {e}, calls, opened')
  PROVE  StreamsInv'
<1>1. calls \in [Executors -> CallSet] /\ StreamsTypeOK /\ ClosedServers
  BY DEF StreamsInv, StreamsTypeOK
<1>2. CallInv(c, streams'[c.s]) /\ StrayExplained(c, streams'[c.s]) /\ ~Pending(c)
  BY DEF Pending, CallInv, StrayExplained
<1>3. calls' \in [Executors -> CallSet] /\ CallsInv' /\ OneCloser' /\ ResultsHonest'
  <2>1. \A f \in Executors \ {e} : Keeps(calls[f].s)
    BY DEF Keeps
  <2> QED BY <1>2, <2>1, CallStep
<1>4. calls'[e] = c /\ \A f \in Executors \ {e} : calls'[f] = calls[f]
  BY <1>1
<1>5. Holders' = Holders
  <2>1. \A s : (\E f \in Executors : calls'[f].stage = "close" /\ calls'[f].s = s)
                 <=> (\E f \in Executors : calls[f].stage = "close" /\ calls[f].s = s)
    BY <1>4
  <2> QED BY <2>1 DEF Holders, Live
<1>6. Openers' = Openers \ {e} /\ \A f \in Openers \ {e} : calls'[f] = calls[f]
  BY <1>2, <1>4 DEF Openers
<1>7. Booked(Holders', streams', Openers', calls', opened')
  <2>1. Booked(Holders, streams, Openers \ {e}, calls', opened')
    BY <1>6 DEF Booked
  <2> QED BY <1>5, <1>6, <2>1
<1>8. ClosedServers'
  BY <1>1 DEF ClosedServers, Live
<1>9. StreamsTypeOK'
  BY <1>1, <1>3 DEF StreamsTypeOK
<1> QED BY <1>3, <1>7, <1>8, <1>9 DEF StreamsInv

LEMMA TcpFacts ==
  ASSUME NEW mode \in {"Connection", "Server"}, NEW state \in {"Valid", "Failed"},
         NEW fd \in Descriptors \cup {-1}, NEW file \in Nat
  PROVE  LET r == Tcp(mode, state, fd, file)
         IN  r \in StreamSet /\ r.kind = "tcp" /\ r.state = state /\ r.fd = fd /\ r.file = file
BY DEF Tcp, StreamSet, Kinds, StreamModes

\* What a stream r without a descriptor, or with one that nobody else has,
\* leaves to the others.
Own(e, r) ==
  IF r.fd = -1 THEN opened' = opened
  ELSE /\ r.fd \in Descriptors /\ opened'[r.fd] = r.file /\ r.file # 0
       /\ \A d \in Descriptors \ {r.fd} : opened'[d] = opened[d]
       /\ \A s \in Holders : streams[s].fd # r.fd
       /\ \A f \in Openers \ {e} : calls[f].fd # r.fd

LEMMA AllocateStep ==
  ASSUME StreamsInv, NEW e \in Executors, calls[e].stage # "close",
         NEW c \in CallSet, c.op \notin {"read", "write"}, c.op = "accept" => c.got \in {-1, 0},
         NEW r \in StreamSet, r.kind = "tcp", r.state \in {"Valid", "Failed"},
         NEW why \in Errors \cup {"None"}, why = "None" <=> r.state = "Valid" /\ r.fd # -1,
         Allocate(e, c, r, why), opened' \in [Descriptors -> Nat], serial' \in Nat \ {0}, Own(e, r)
  PROVE  StreamsInv'
<1>1. /\ streams \in [StreamIds -> StreamSet] /\ calls \in [Executors -> CallSet]
      /\ Booked(Holders, streams, Openers, calls, opened)
  BY DEF StreamsInv, StreamsTypeOK
<1>2. Booked(Holders, streams, Openers \ {e}, calls, opened')
  <2>1. Booked(Holders, streams, Openers \ {e}, calls, opened)
    BY <1>1 DEF Booked
  <2>2. CASE r.fd = -1
    BY <2>1, <2>2 DEF Own
  <2>3. CASE r.fd # -1
    <3>1. \A s \in Holders : opened'[streams[s].fd] = opened[streams[s].fd]
      BY <2>3, HeldFacts DEF Own
    <3>2. \A f \in Openers \ {e} : opened'[calls[f].fd] = opened[calls[f].fd]
      BY <2>3, HeldFacts DEF Own
    <3> QED BY <2>1, <3>1, <3>2, BookedFiles
  <2> QED BY <2>2, <2>3
<1>3. "true" \in Results /\ "false" \in Results /\ "aborted" \in Results
  BY DEF Results
<1>4. CASE UNCHANGED streams /\ SetCall(e, Idle("aborted", why, 0, c))
  <2> DEFINE d == Idle("aborted", why, 0, c)
  <2>1. Ended(d, c, "aborted", why, 0) /\ calls' = [calls EXCEPT ![e] = d]
    BY <1>3, <1>4, IdleFacts DEF SetCall
  <2> HIDE DEF d
  <2>2. /\ d \in CallSet /\ d.stage = "done" /\ Honest(d) /\ d.op \notin {"read", "write"}
        /\ d.op = "accept" => d.got \in {-1, 0}
    BY <2>1 DEF Ended, Honest
  <2>3. streams' = streams
    BY <1>4
  <2> QED BY <1>2, <2>1, <2>2, <2>3, CallLeaves
<1>5. CASE /\ AnyFreeStream /\ streams' = [streams EXCEPT ![FreeStream] = r]
           /\ SetCall(e, Idle(IF r.state = "Valid" /\ r.fd # -1 THEN "true" ELSE "false", why, 0, c))
  <2> DEFINE ret == IF r.state = "Valid" /\ r.fd # -1 THEN "true" ELSE "false"
             d == Idle(ret, why, 0, c)
             s == FreeStream
  <2>1. ret \in Results /\ Reasoned(c.op, ret, why)
    BY <1>3 DEF Reasoned
  <2>2. calls' = [calls EXCEPT ![e] = d]
    BY <1>5 DEF SetCall
  <2> HIDE DEF ret
  <2>3. Ended(d, c, ret, why, 0)
    BY <2>1, IdleFacts
  <2> HIDE DEF d
  <2>4. /\ d \in CallSet /\ d.stage = "done" /\ Honest(d) /\ d.op \notin {"read", "write"}
        /\ d.op = "accept" => d.got \in {-1, 0}
    BY <2>1, <2>3, EndedHonest DEF Ended
  <2>5. s \in StreamIds /\ ~Live(s) /\ streams' = [streams EXCEPT ![s] = r]
    BY <1>5, FreeStreamFacts
  <2> HIDE DEF s
  <2>6. streams'[s] = r /\ \A t \in Holders : streams'[t] = streams[t]
    BY <1>1, <2>5 DEF Holders
  <2>7. \A f \in Openers \ {e} : calls'[f] = calls[f]
    BY <1>1, <2>2 DEF Openers
  <2>8. Booked(Holders, streams', Openers \ {e}, calls', opened')
    BY <1>2, <2>6, <2>7 DEF Booked
  <2>9. r.fd # -1 => Booked(Holders \cup {s}, streams', Openers \ {e}, calls', opened')
    BY <2>6, <2>7, <2>8 DEF Own, Booked
  <2>10. r.fd # -1 => Booked(Holders \cup {FreeStream}, streams', Openers \ {e}, calls', opened')
    BY <2>9 DEF s
  <2>11. r.fd = -1 => opened' = opened
    BY DEF Own
  <2> QED BY <1>5, <2>2, <2>4, <2>10, <2>11, NewStream
<1> QED BY <1>4, <1>5 DEF Allocate

\* Arguments that are refused.
LEMMA RefuseStep ==
  StreamsInv /\ (\E e \in Executors, op \in {"connect", "server"} : \E why \in ArgumentErrors(op) : Refuse(e, op, why))
    => StreamsInv'
<1> SUFFICES ASSUME StreamsInv, NEW e \in Executors, NEW op \in {"connect", "server"},
                    NEW why \in ArgumentErrors(op), Refuse(e, op, why)
             PROVE  StreamsInv'
  OBVIOUS
<1> DEFINE c == Begin(e, op, 0, 0)
           mode == IF op = "connect" \/ why = "TcpInvalidAddressFamily" THEN "Connection" ELSE "Server"
           r == Tcp(mode, "Valid", -1, 0)
<1>1. /\ op \in Ops /\ 0 \in StreamIds \cup {0} /\ 0 \in Nat /\ op \notin {"read", "write", "accept"}
      /\ mode \in {"Connection", "Server"} /\ -1 \in Descriptors \cup {-1}
  BY DEF Ops
<1>2. why \in Errors /\ why # "None"
  BY DEF ArgumentErrors, Errors
<1>3. c \in CallSet /\ c.op = op
  BY <1>1, BeginFacts
<1>4. r \in StreamSet /\ r.kind = "tcp" /\ r.state = "Valid" /\ r.fd = -1
  BY <1>1, TcpFacts
<1>5. calls[e].stage = "done" /\ Allocate(e, c, r, why) /\ opened' = opened /\ serial' = serial
  BY DEF Refuse, CanCall
<1> HIDE DEF c, r
<1>6. Own(e, r) /\ opened' \in [Descriptors -> Nat] /\ serial' \in Nat \ {0}
  BY <1>4, <1>5 DEF Own, StreamsInv, StreamsTypeOK
<1> QED BY <1>1, <1>2, <1>3, <1>4, <1>5, <1>6, AllocateStep

\* A descriptor the system just gave out is nobody else's.
LEMMA FreshOwn ==
  ASSUME StreamsInv, AnyFree, opened' = [opened EXCEPT ![FirstFree] = serial], serial' = serial + 1,
         NEW e \in Executors, NEW r, r.fd = FirstFree, r.file = serial
  PROVE  /\ FirstFree \in Descriptors /\ FirstFree # -1 /\ serial \in Nat
         /\ Own(e, r) /\ opened' \in [Descriptors -> Nat] /\ serial' \in Nat \ {0}
<1> DEFINE x == FirstFree
<1>1. /\ opened \in [Descriptors -> Nat] /\ serial \in Nat \ {0}
      /\ Booked(Holders, streams, Openers, calls, opened)
  BY DEF StreamsInv, StreamsTypeOK
<1>2. x \in Descriptors /\ x # -1 /\ opened[x] = 0
  BY FirstFreeFacts
<1> HIDE DEF x
<1>3. opened' = [opened EXCEPT ![x] = serial] /\ r.fd = x
  BY DEF x
<1>4. (\A s \in Holders : streams[s].fd # x) /\ (\A f \in Openers : calls[f].fd # x)
  BY <1>1, <1>2 DEF Booked
<1>5. opened'[x] = serial /\ \A d \in Descriptors \ {x} : opened'[d] = opened[d]
  BY <1>1, <1>2, <1>3
<1>6. Own(e, r)
  BY <1>1, <1>2, <1>3, <1>4, <1>5 DEF Own
<1>7. serial \in Nat /\ serial + 1 \in Nat \ {0}
  BY <1>1
<1>8. opened' \in [Descriptors -> Nat]
  BY <1>1, <1>3
<1> QED BY <1>2, <1>6, <1>7, <1>8 DEF x

LEMMA StartServerStep == StreamsInv /\ (\E e \in Executors : TcpStartServer(e)) => StreamsInv'
<1> SUFFICES ASSUME StreamsInv, NEW e \in Executors, TcpStartServer(e) PROVE StreamsInv'
  OBVIOUS
<1> DEFINE c == Begin(e, "server", 0, 0)
<1>1. /\ "server" \in Ops /\ 0 \in StreamIds \cup {0} /\ 0 \in Nat /\ -1 \in Descriptors \cup {-1}
      /\ "TcpSocketCouldNotBeAllocated" \in Errors /\ "TcpAddressInUse" \in Errors /\ "None" \notin Errors
  BY DEF Ops, Errors
<1>2. c \in CallSet /\ c.op = "server"
  BY <1>1, BeginFacts
<1>3. calls[e].stage = "done"
  BY DEF TcpStartServer, CanCall
<1> HIDE DEF c
<1>4. CASE ~AnyFree
  <2> DEFINE r == Tcp("Server", "Failed", -1, 0)
  <2>1. Allocate(e, c, r, "TcpSocketCouldNotBeAllocated") /\ opened' = opened /\ serial' = serial
    BY <1>4 DEF TcpStartServer, c
  <2>2. r \in StreamSet /\ r.kind = "tcp" /\ r.state = "Failed" /\ r.fd = -1
    BY <1>1, TcpFacts
  <2> HIDE DEF r
  <2>3. Own(e, r) /\ opened' \in [Descriptors -> Nat] /\ serial' \in Nat \ {0}
    BY <2>1, <2>2 DEF Own, StreamsInv, StreamsTypeOK
  <2> QED BY <1>1, <1>2, <1>3, <2>1, <2>2, <2>3, AllocateStep
<1>5. CASE AnyFree
  <2>1. /\ opened' = [opened EXCEPT ![FirstFree] = serial] /\ serial' = serial + 1
        /\ \/ Allocate(e, c, Tcp("Server", "Valid", FirstFree, serial), "None")
           \/ Allocate(e, c, Tcp("Server", "Failed", FirstFree, serial), "TcpAddressInUse")
    BY <1>5 DEF TcpStartServer, c
  <2>2. ASSUME NEW state \in {"Valid", "Failed"}, NEW err \in Errors \cup {"None"},
               err = "None" <=> state = "Valid",
               Allocate(e, c, Tcp("Server", state, FirstFree, serial), err)
        PROVE  StreamsInv'
    <3> DEFINE r == Tcp("Server", state, FirstFree, serial)
    <3>1. r.fd = FirstFree /\ r.file = serial
      BY DEF Tcp
    <3> HIDE DEF r
    <3>2. /\ FirstFree \in Descriptors /\ FirstFree # -1 /\ serial \in Nat
          /\ Own(e, r) /\ opened' \in [Descriptors -> Nat] /\ serial' \in Nat \ {0}
      BY <1>5, <2>1, <3>1, FreshOwn
    <3>3. r \in StreamSet /\ r.kind = "tcp" /\ r.state = state
      BY <3>2, TcpFacts DEF r
    <3>4. Allocate(e, c, r, err)
      BY <2>2 DEF r
    <3> QED BY <1>2, <1>3, <2>2, <3>1, <3>2, <3>3, <3>4, AllocateStep
  <2>3. CASE Allocate(e, c, Tcp("Server", "Valid", FirstFree, serial), "None")
    BY <2>2, <2>3
  <2>4. CASE Allocate(e, c, Tcp("Server", "Failed", FirstFree, serial), "TcpAddressInUse")
    BY <1>1, <2>2, <2>4
  <2> QED BY <2>1, <2>3, <2>4
<1> QED BY <1>4, <1>5

LEMMA OpenConnectionStep == StreamsInv /\ (\E e \in Executors : TcpOpenConnection(e)) => StreamsInv'
<1> SUFFICES ASSUME StreamsInv, NEW e \in Executors, TcpOpenConnection(e) PROVE StreamsInv'
  OBVIOUS
<1> DEFINE c == Begin(e, "connect", 0, 0)
<1>1. "connect" \in Ops /\ 0 \in StreamIds \cup {0} /\ 0 \in Nat /\ -1 \in Descriptors \cup {-1} /\ "None" \notin Errors
  BY DEF Ops, Errors
<1>2. c \in CallSet /\ c.op = "connect" /\ c.s = 0 /\ c.stage = "check" /\ c.got = -1 /\ ~c.stray
  BY <1>1, BeginFacts
<1>3. calls[e].stage = "done"
  BY DEF TcpOpenConnection, CanCall
<1> HIDE DEF c
<1>4. CASE ~AnyFree
  <2> DEFINE r == Tcp("Connection", "Failed", -1, 0)
             err == getTcpPlatformError("EMFILE")
  <2>1. Allocate(e, c, r, err) /\ opened' = opened /\ serial' = serial
    BY <1>4 DEF TcpOpenConnection, c
  <2>2. r \in StreamSet /\ r.kind = "tcp" /\ r.state = "Failed" /\ r.fd = -1
    BY <1>1, TcpFacts
  <2>3. err \in Errors
    BY ErrorFacts
  <2> HIDE DEF r, err
  <2>4. Own(e, r) /\ opened' \in [Descriptors -> Nat] /\ serial' \in Nat \ {0}
    BY <2>1, <2>2 DEF Own, StreamsInv, StreamsTypeOK
  <2> QED BY <1>1, <1>2, <1>3, <2>1, <2>2, <2>3, <2>4, AllocateStep
<1>5. CASE AnyFree
  <2> DEFINE d == Get(c, FirstFree, serial)
  <2>1. /\ opened' = [opened EXCEPT ![FirstFree] = serial] /\ serial' = serial + 1 /\ streams' = streams
        /\ calls' = [calls EXCEPT ![e] = d]
    BY <1>5 DEF TcpOpenConnection, SetCall, Get, c
  <2>2. FirstFree \in Descriptors /\ serial \in Nat
    BY <1>5, FirstFreeFacts DEF StreamsInv, StreamsTypeOK
  <2>3. /\ d \in CallSet /\ d.stage = "blocked" /\ d.op = c.op /\ d.s = c.s /\ d.got = c.got
        /\ d.stray = c.stray /\ d.fd = FirstFree /\ d.file = serial
    BY <1>2, <2>2, GetFacts
  <2> HIDE DEF d
  <2>4. Pending(d) /\ Honest(d) /\ StrayExplained(d, streams[d.s]) /\ CallInv(d, streams[d.s])
    BY <1>2, <2>3 DEF Pending, Honest, StrayExplained, CallInv
  <2> QED BY <1>3, <1>5, <2>1, <2>3, <2>4, DescriptorStep
<1> QED BY <1>4, <1>5

\* The stream takes the descriptor over from the call that got it.
LEMMA FinishOpenStep ==
  StreamsInv /\ (\E e \in Executors : FinishConnect(e) \/ FinishAccept(e)) => StreamsInv'
<1> SUFFICES ASSUME StreamsInv, NEW e \in Executors, FinishConnect(e) \/ FinishAccept(e) PROVE StreamsInv'
  OBVIOUS
<1> DEFINE c == calls[e]
           err == getTcpPlatformError(errno[e])
<1>1. c \in CallSet /\ CallInv(c, streams[c.s])
  BY CallFacts
<1>2. /\ c.stage = "finish" /\ c.op \in {"connect", "accept"} /\ opened' = opened /\ serial' = serial
  BY DEF FinishConnect, FinishAccept
<1>3. /\ opened' \in [Descriptors -> Nat] /\ serial' \in Nat \ {0} /\ Booked(Holders, streams, Openers, calls, opened)
  BY <1>2 DEF StreamsInv, StreamsTypeOK
<1>4. err \in Errors /\ "None" \notin Errors
  BY ErrorFacts DEF Errors
<1> HIDE DEF err
<1>5. /\ c.op \notin {"read", "write"} /\ (c.op = "accept" => c.got \in {-1, 0}) /\ c.stage # "close"
      /\ c.fd \in Descriptors \cup {-1} /\ c.file \in Nat
  BY <1>1, <1>2 DEF CallInv, CallSet
<1>6. ASSUME NEW state \in {"Valid", "Failed"}, NEW x \in Errors \cup {"None"}, x = "None" <=> state = "Valid",
             Pending(c), Allocate(e, c, Tcp("Connection", state, c.fd, c.file), x)
      PROVE  StreamsInv'
  <2> DEFINE r == Tcp("Connection", state, c.fd, c.file)
  <2>1. r \in StreamSet /\ r.kind = "tcp" /\ r.state = state /\ r.fd = c.fd /\ r.file = c.file
    BY <1>5, TcpFacts
  <2>2. Allocate(e, c, r, x)
    BY <1>6
  <2> HIDE DEF r
  <2>3. e \in Openers
    BY <1>6 DEF Openers
  <2>4. /\ c.fd # -1 /\ opened[c.fd] = c.file /\ c.file # 0
        /\ \A s \in Holders : streams[s].fd # c.fd
        /\ \A f \in Openers \ {e} : calls[f].fd # c.fd
    BY <1>3, <2>3 DEF Booked
  <2>5. Own(e, r)
    BY <1>2, <1>5, <2>1, <2>4 DEF Own
  <2> QED BY <1>3, <1>1, <1>5, <1>6, <2>1, <2>2, <2>4, <2>5, AllocateStep
<1>7. CASE c.op = "accept" /\ c.got = -1
  <2> DEFINE r == Tcp("Connection", "Failed", -1, 0)
  <2>1. r \in StreamSet /\ r.kind = "tcp" /\ r.state = "Failed" /\ r.fd = -1
    <3>1. -1 \in Descriptors \cup {-1} /\ 0 \in Nat
      OBVIOUS
    <3> QED BY <3>1, TcpFacts
  <2>2. Allocate(e, c, r, err)
    BY <1>7 DEF FinishConnect, FinishAccept, err
  <2> HIDE DEF r
  <2>3. Own(e, r)
    BY <1>2, <2>1 DEF Own
  <2> QED BY <1>1, <1>3, <1>4, <1>5, <2>1, <2>2, <2>3, AllocateStep
<1>8. CASE ~(c.op = "accept" /\ c.got = -1)
  <2>1. Pending(c)
    BY <1>2, <1>5, <1>8 DEF Pending
  <2>2. \/ Allocate(e, c, Tcp("Connection", "Failed", c.fd, c.file), err)
        \/ Allocate(e, c, Tcp("Connection", "Valid", c.fd, c.file), "None")
    BY <1>8 DEF FinishConnect, FinishAccept, err
  <2> QED BY <1>4, <1>6, <2>1, <2>2
<1> QED BY <1>7, <1>8

LEMMA AcceptStep == StreamsInv /\ (\E e \in Executors, s \in StreamIds : TcpAccept(e, s)) => StreamsInv'
<1> SUFFICES ASSUME StreamsInv, NEW e \in Executors, NEW s \in StreamIds, TcpAccept(e, s) PROVE StreamsInv'
  OBVIOUS
<1> DEFINE r == streams[s]
           c == Begin(e, "accept", s, 0)
           bad == Tcp("Connection", "Valid", -1, 0)
<1>1. /\ "accept" \in Ops /\ s \in StreamIds \cup {0} /\ 0 \in Nat /\ -1 \in Descriptors \cup {-1}
      /\ "TcpInvalidSocket" \in Errors /\ "TcpInvalidServerSocket" \in Errors /\ "None" \notin Errors
  BY DEF Ops, Errors
<1>2. c \in CallSet /\ c.op = "accept" /\ c.s = s /\ c.size = 0 /\ c.stage = "check" /\ c.got = -1 /\ ~c.stray
  BY <1>1, BeginFacts
<1>3. calls[e].stage = "done" /\ opened' = opened /\ serial' = serial /\ Live(s)
  BY DEF TcpAccept, CanCall
<1>4. bad \in StreamSet /\ bad.kind = "tcp" /\ bad.state = "Valid" /\ bad.fd = -1
  BY <1>1, TcpFacts
<1>5. \/ \E err \in Errors : Allocate(e, c, bad, err)
      \/ r.kind = "tcp" /\ isValid(r) /\ r.mode = "Server" /\ SetCall(e, c) /\ UNCHANGED streams
  BY <1>1 DEF TcpAccept
<1> HIDE DEF c, bad
<1>6. ASSUME NEW err \in Errors, Allocate(e, c, bad, err) PROVE StreamsInv'
  <2>1. Own(e, bad) /\ opened' \in [Descriptors -> Nat] /\ serial' \in Nat \ {0}
    BY <1>3, <1>4 DEF Own, StreamsInv, StreamsTypeOK
  <2>2. err \in Errors \cup {"None"} /\ (err = "None" <=> bad.state = "Valid" /\ bad.fd # -1)
    BY <1>1, <1>4
  <2>3. calls[e].stage # "close" /\ c.op \notin {"read", "write"} /\ (c.op = "accept" => c.got \in {-1, 0})
    BY <1>2, <1>3
  <2> QED BY <1>2, <1>4, <1>6, <2>1, <2>2, <2>3, AllocateStep
<1>7. CASE r.kind = "tcp" /\ isValid(r) /\ r.mode = "Server" /\ SetCall(e, c) /\ UNCHANGED streams
  <2>1. CallInv(c, streams[c.s])
    BY <1>2, <1>7 DEF CallInv, isValid
  <2> QED BY <1>2, <1>3, <1>7, <2>1, GoesOn
<1> QED BY <1>5, <1>6, <1>7

\* One more stream on a console or pipe shares its descriptor.
LEMMA OpenBorrowedStep ==
  StreamsInv /\ (\E e \in Executors, s \in StreamIds, there \in BOOLEAN : OpenBorrowed(e, s, there)) => StreamsInv'
<1> SUFFICES ASSUME StreamsInv, NEW e \in Executors, NEW s \in StreamIds, NEW there \in BOOLEAN,
                    OpenBorrowed(e, s, there)
             PROVE  StreamsInv'
  OBVIOUS
<1> DEFINE r == streams[s]
           c == Begin(e, "open", s, 0)
           r2 == IF there THEN r ELSE [r EXCEPT !.fd = -1, !.file = 0]
<1>1. /\ "open" \in Ops /\ s \in StreamIds \cup {0} /\ 0 \in Nat
      /\ "ConsoleNotPresent" \in Errors /\ "None" \notin Errors
      /\ "true" \in Results /\ "false" \in Results /\ "aborted" \in Results
  BY DEF Ops, Errors, Results
<1>2. c \in CallSet /\ c.op = "open"
  BY <1>1, BeginFacts
<1>3. /\ calls[e].stage = "done" /\ opened' = opened /\ serial' = serial /\ r.kind \in {"console", "process"}
  BY DEF OpenBorrowed, CanCall
<1>4. /\ streams \in [StreamIds -> StreamSet] /\ calls \in [Executors -> CallSet] /\ ClosedServers
      /\ opened \in [Descriptors -> Nat] /\ serial \in Nat \ {0}
      /\ Booked(Holders, streams, Openers, calls, opened)
  BY DEF StreamsInv, StreamsTypeOK
<1>5. CASE UNCHANGED streams /\ SetCall(e, Idle("aborted", "None", 0, c))
  BY <1>1, <1>3, <1>5, AtOnce DEF Reasoned
<1>6. CASE /\ AnyFreeStream
           /\ streams' = [streams EXCEPT ![FreeStream] = r2]
           /\ SetCall(e, IF there \/ r.kind = "process" THEN Idle("true", "None", 0, c)
                         ELSE Idle("false", "ConsoleNotPresent", 0, c))
  <2>1. r \in StreamSet /\ r.state # "Closed"
    BY <1>3, <1>4 DEF ClosedServers, Live
  <2>2. /\ r2 \in StreamSet /\ r2.kind = r.kind /\ r2.state = r.state
        /\ r2.fd # -1 => r2.fd = r.fd /\ r2.file = r.file
    BY <2>1 DEF StreamSet
  <2> HIDE DEF r2, c
  <2>3. PICK d \in CallSet : /\ calls' = [calls EXCEPT ![e] = d] /\ d.stage = "done" /\ Honest(d) /\ d.op = "open"
    <3> DEFINE good == Idle("true", "None", 0, c)
               none == Idle("false", "ConsoleNotPresent", 0, c)
    <3>1. Ended(good, c, "true", "None", 0) /\ Ended(none, c, "false", "ConsoleNotPresent", 0)
      BY <1>1, <1>2, IdleFacts
    <3>2. calls' = [calls EXCEPT ![e] = good] \/ calls' = [calls EXCEPT ![e] = none]
      BY <1>6 DEF SetCall
    <3> HIDE DEF good, none
    <3>3. /\ good \in CallSet /\ good.stage = "done" /\ Honest(good) /\ good.op = "open"
          /\ none \in CallSet /\ none.stage = "done" /\ Honest(none) /\ none.op = "open"
      BY <1>2, <3>1 DEF Ended, Honest
    <3> QED BY <3>2, <3>3
  <2>4. opened' \in [Descriptors -> Nat] /\ serial' \in Nat \ {0}
    BY <1>3, <1>4
  <2>5. ASSUME r2.fd # -1
        PROVE  Booked(Holders \cup {FreeStream}, streams', Openers \ {e}, calls', opened')
    <3> DEFINE x == FreeStream
    <3>1. x \in StreamIds /\ ~Live(x) /\ streams' = [streams EXCEPT ![x] = r2]
      BY <1>6, FreeStreamFacts
    <3> HIDE DEF x
    <3>2. streams'[x] = r2 /\ \A t \in Holders : streams'[t] = streams[t]
      BY <1>4, <3>1 DEF Holders
    <3>3. \A f \in Openers \ {e} : calls'[f] = calls[f]
      BY <1>4, <2>3 DEF Openers
    <3>4. Booked(Holders, streams', Openers \ {e}, calls', opened')
      BY <1>3, <1>4, <3>2, <3>3 DEF Booked
    <3>5. s \in Holders /\ r2.fd = r.fd /\ r2.file = r.file
      BY <1>3, <2>1, <2>2, <2>5 DEF Holders, Live
    <3>6. opened[r.fd] = r.file /\ r.file # 0 /\ \A f \in Openers : calls[f].fd # r.fd
      BY <1>4, <3>5 DEF Booked
    <3>7. \A t \in Holders : streams[t].fd = r.fd => streams[t].kind \notin {"file", "tcp"}
      BY <1>3, <1>4, <3>5 DEF Booked
    <3>8. opened'[streams'[x].fd] = streams'[x].file /\ streams'[x].file # 0
      BY <1>3, <3>2, <3>5, <3>6
    <3>9. \A t \in Holders : streams'[t].fd = streams'[x].fd =>
            streams'[t].kind \notin {"file", "tcp"} /\ streams'[x].kind \notin {"file", "tcp"}
      BY <1>3, <2>2, <3>2, <3>5, <3>7
    <3>10. \A f \in Openers \ {e} : calls'[f].fd # streams'[x].fd
      BY <3>2, <3>3, <3>5, <3>6
    <3>11. Booked(Holders \cup {x}, streams', Openers \ {e}, calls', opened')
      BY <3>4, <3>8, <3>9, <3>10, BookedStream
    <3> QED BY <3>11 DEF x
  <2>6. r2.kind # "none" /\ r2.state # "Closed"
    BY <1>3, <2>1, <2>2
  <2> QED BY <1>3, <1>6, <2>2, <2>3, <2>4, <2>5, <2>6, NewStream
<1> QED BY <1>5, <1>6 DEF OpenBorrowed

\* A step that leaves streams, descriptors and calls alone.
LEMMA StutterStep == StreamsInv /\ UNCHANGED <<streams, opened, serial, calls>> => StreamsInv'
<1> SUFFICES ASSUME StreamsInv, UNCHANGED <<streams, opened, serial, calls>> PROVE StreamsInv'
  OBVIOUS
<1>1. Holders' = Holders /\ Openers' = Openers
  BY DEF Holders, Openers, Live
<1>2. Booked(Holders', streams', Openers', calls', opened')
  BY <1>1 DEF StreamsInv
<1>3. StreamsTypeOK' /\ ClosedServers'
  BY DEF StreamsInv, StreamsTypeOK, ClosedServers, Live
<1>4. CallsInv' /\ OneCloser' /\ ResultsHonest'
  BY DEF StreamsInv, CallsInv, OneCloser, ResultsHonest
<1> QED BY <1>2, <1>3, <1>4 DEF StreamsInv
-----------------------------------------------------------------------------
(* The theorems. *)

LEMMA StreamsStart == StreamsInit => StreamsInv
<1> SUFFICES ASSUME StreamsInit PROVE StreamsInv
  OBVIOUS
<1>1. PICK c \in Scenarios : streams = [s \in StreamIds |-> IF s = 1 THEN c.first ELSE NoStream]
  BY DEF StreamsInit
<1> DEFINE r == c.first
<1>2. /\ 1 \in StreamIds /\ Descriptors \subseteq Nat
      /\ r \in [kind : Kinds, mode : StreamModes, state : {"Valid"}, fd : Descriptors \cup {-1}, file : {0, 1}]
      /\ r.file = IF r.fd = -1 THEN 0 ELSE 1
  BY StreamsAssumption
<1>3. NoStream \in StreamSet /\ NoStream.kind = "none"
  BY DEF NoStream, StreamSet
<1>4. r \in StreamSet /\ r.kind # "none" /\ r.state = "Valid"
  BY <1>2 DEF StreamSet, Kinds
<1> HIDE DEF r
<1>5. streams \in [StreamIds -> StreamSet] /\ streams[1] = r /\ \A s \in StreamIds \ {1} : streams[s].kind = "none"
  BY <1>1, <1>2, <1>3, <1>4 DEF r
<1>6. NoCall \in CallSet /\ NoCall.stage = "done" /\ NoCall.op = "none" /\ NoCall.ret = "true" /\ ~NoCall.told
  BY DEF NoCall, CallSet, Stages
<1>7. calls \in [Executors -> CallSet] /\ \A e \in Executors : calls[e] = NoCall
  BY <1>6 DEF StreamsInit
<1>8. opened \in [Descriptors -> Nat] /\ serial \in Nat \ {0} /\ (r.fd # -1 => opened[r.fd] = 1)
  BY <1>2, <1>4, <1>5 DEF StreamsInit, StreamSet
<1>9. Holders \subseteq {1} /\ (1 \in Holders => r.fd # -1) /\ Openers = {}
  BY <1>5, <1>6, <1>7 DEF Holders, Openers, Live, Pending
<1>10. Booked(Holders, streams, Openers, calls, opened)
  BY <1>2, <1>5, <1>8, <1>9 DEF Booked, r
<1>11. CallsInv /\ OneCloser /\ ResultsHonest
  BY <1>6, <1>7 DEF CallsInv, CallInv, OneCloser, ResultsHonest, Honest, StrayExplained
<1>12. ClosedServers
  BY <1>4, <1>5 DEF ClosedServers, Live
<1> QED BY <1>5, <1>7, <1>8, <1>10, <1>11, <1>12 DEF StreamsInv, StreamsTypeOK

LEMMA StreamStepKeeps == StreamsInv /\ (\E e \in Executors : StreamStep(e)) => StreamsInv'
<1> SUFFICES ASSUME StreamsInv, NEW e \in Executors, StreamStep(e) PROVE StreamsInv'
  OBVIOUS
<1>1. CASE \E s \in StreamIds, n \in Sizes, op \in {"read", "write"} : Transfer(e, op, s, n)
  BY <1>1, TransferStep
<1>2. CASE \/ \E s \in StreamIds, o \in {{}, {"NoBlock"}}, on \in BOOLEAN : SetOptions(e, s, o, on)
           \/ \E s \in StreamIds, t \in BOOLEAN : GetIsTerm(e, s, t)
           \/ \E s \in StreamIds, o \in TermOutcomes : TermCall(e, s, o)
  BY <1>2, OptionsStep
<1>3. CASE \E s \in StreamIds, there \in BOOLEAN : OpenBorrowed(e, s, there)
  BY <1>3, OpenBorrowedStep
<1>4. CASE CheckState(e)
  BY <1>4, CheckStateStep
<1>5. CASE Enter(e)
  BY <1>5, EnterStep
<1>6. CASE Transferred(e) \/ TransferFails(e) \/ ReceiveTimeout(e) \/ TransferInterrupted(e)
  BY <1>6, AnswerStep
<1>7. CASE Resume(e)
  BY <1>7, ResumeStep
<1>8. CASE FinishRead(e) \/ FinishWrite(e)
  BY <1>8, FinishStep
<1> QED BY <1>1, <1>2, <1>3, <1>4, <1>5, <1>6, <1>7, <1>8 DEF StreamStep

LEMMA TcpStepKeeps == StreamsInv /\ (\E e \in Executors : TcpStep(e)) => StreamsInv'
<1> SUFFICES ASSUME StreamsInv, NEW e \in Executors, TcpStep(e) PROVE StreamsInv'
  OBVIOUS
<1>1. CASE \E op \in {"connect", "server"} : \E why \in ArgumentErrors(op) : Refuse(e, op, why)
  BY <1>1, RefuseStep
<1>2. CASE TcpStartServer(e)
  BY <1>2, StartServerStep
<1>3. CASE TcpOpenConnection(e)
  BY <1>3, OpenConnectionStep
<1>4. CASE IpLookupAddress(e)
  BY <1>4, LookupStep
<1>5. CASE Connected(e) \/ ConnectRetries(e)
  BY <1>5, ConnectingStep
<1>6. CASE FinishConnect(e) \/ FinishAccept(e)
  BY <1>6, FinishOpenStep
<1>7. CASE Accepted(e)
  BY <1>7, AcceptedStep
<1>8. CASE AcceptFails(e) \/ AcceptTimeout(e) \/ AcceptInterrupted(e)
  BY <1>8, AcceptAgainStep
<1>9. CASE Exchange(e)
  BY <1>9, ExchangeStep
<1>10. CASE CloseServer(e)
  BY <1>10, CloseServerStep
<1>11. CASE \E s \in StreamIds : TcpAccept(e, s)
  BY <1>11, AcceptStep
<1>12. CASE \E s \in StreamIds : TcpShutdown(e, s)
  BY <1>12, ShutdownStep
<1> QED BY <1>1, <1>2, <1>3, <1>4, <1>5, <1>6, <1>7, <1>8, <1>9, <1>10, <1>11, <1>12 DEF TcpStep

\* The invariant holds however many executors share however many streams.
THEOREM Inductive == StreamsSpec => []StreamsInv
<1>1. StreamsInv /\ [StreamsNext]_streamVars => StreamsInv'
  <2> SUFFICES ASSUME StreamsInv, [StreamsNext]_streamVars PROVE StreamsInv'
    OBVIOUS
  <2>1. CASE \E e \in Executors : StreamStep(e) \/ TcpStep(e)
    BY <2>1, StreamStepKeeps, TcpStepKeeps
  <2>2. CASE \E s \in StreamIds : Destroy(s)
    BY <2>2, DestroyStep
  <2>3. CASE AbortAll
    BY <2>3, StutterStep DEF AbortAll
  <2>4. CASE UNCHANGED streamVars
    BY <2>4, StutterStep DEF streamVars
  <2> QED BY <2>1, <2>2, <2>3, <2>4 DEF StreamsNext
<1> QED BY <1>1, StreamsStart, PTL DEF StreamsSpec

\* Every stream that has not been closed still has the file it was created
\* with, on a descriptor of its own, and so has a server that is being shut
\* down: however many executors race in tcpShutdown, and whatever the
\* collector destroys meanwhile, no close() hits a descriptor that has been
\* given to another (ref_stream_tcp.hpp:91, 113).
THEOREM DescriptorsOwnedHolds == StreamsSpec => []DescriptorsOwned
<1>1. StreamsInv => DescriptorsOwned
  <2> SUFFICES ASSUME StreamsInv PROVE DescriptorsOwned
    OBVIOUS
  <2>1. Booked(Holders, streams, Openers, calls, opened) /\ CallsInv
    BY DEF StreamsInv
  <2>2. \A s \in StreamIds : Owns(s) => s \in Holders
    BY DEF Owns, Holders
  <2>3. \A e \in Executors : calls[e].stage = "close" => calls[e].s \in Holders
    BY <2>1 DEF CallsInv, CallInv, Holders, Live
  <2> QED BY <2>1, <2>2, <2>3 DEF DescriptorsOwned, Booked
<1> QED BY <1>1, Inductive, PTL

\* What a call tells is what happened, although no call clears the
\* executor's error cell: a failure leaves its own error there, tcpShutdown
\* and getIsTerm excepted, a success leaves it alone, std takes a read for
\* failed just when it has, a string has the bytes that arrived, a write
\* that succeeded wrote everything, and no call but an accept on a server
\* that was shut down meanwhile ever reached a file other than its stream's.
THEOREM ResultsHonestHolds == StreamsSpec => []ResultsHonest
BY Inductive, PTL DEF StreamsInv
=============================================================================
