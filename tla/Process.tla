------------------------------- MODULE Process -------------------------------
(***************************************************************************)
(* A child process (ref_process.hpp): executors that wait for it with      *)
(* block() or send it signals, the operating system's process, and the     *)
(* destructor, which runs when nobody holds the process any more, or at    *)
(* shutdown, when executors may still be inside block().                   *)
(*                                                                         *)
(* m_mutex is explicit: block() calls itself while it holds it.            *)
(***************************************************************************)
EXTENDS Naturals, FiniteSets

CONSTANTS Holders,     \* executors that hold the process
          Destructor,  \* the thread that destroys it
          Codes,       \* exit codes
          Detached     \* was it started with ProcessDetached?

ASSUME ProcessAssumption ==
  /\ Destructor \notin Holders /\ IsFiniteSet(Holders)
  /\ "none" \notin Holders \cup {Destructor}
  /\ {"InvalidProcess", "UnknownErr"} \cap Codes = {}
  /\ Detached \in BOOLEAN

ProcessThreads == Holders \cup {Destructor}

VARIABLES
  processState,    \* m_state
  code,     \* m_exitCode ("unset": it is not initialised)
  owner,    \* who holds m_mutex ("none")
  child,    \* the operating system's process: running, zombie, reaped
  exitStatus,   \* how it ended: an exit code or "signal"
  pc,       \* where each thread is
  depth,    \* is it in the recursive call of block()?
  waited,   \* what waitpid() gave it
  blockAnswer,   \* what block() returned
  shut,     \* has run() aborted the executors?
  dead      \* has the destructor ended?

processVars == <<processState, code, owner, child, exitStatus, pc, depth, waited, blockAnswer, shut, dead>>

ProcessInit ==
  /\ processState = "Unknown" /\ code = "unset" /\ owner = "none"
  /\ child = "running" /\ exitStatus = "none"
  /\ pc = [t \in ProcessThreads |-> IF t = Destructor THEN "none" ELSE "run"]
  /\ depth = [t \in ProcessThreads |-> FALSE]
  /\ waited = [t \in ProcessThreads |-> "none"]
  /\ blockAnswer = [t \in ProcessThreads |-> "none"]
  /\ shut = FALSE /\ dead = FALSE

ThreadTo(t, l) == pc' = [pc EXCEPT ![t] = l]
-----------------------------------------------------------------------------
(***************************************************************************)
(* The operating system.                                                   *)
(***************************************************************************)
Exit ==
  /\ child = "running"
  /\ child' = "zombie" /\ exitStatus' \in Codes
  /\ UNCHANGED <<processState, code, owner, pc, depth, waited, blockAnswer, shut, dead>>

\* kill() of a process that has not been reaped.
Kill ==
  /\ child' = IF child = "running" THEN "zombie" ELSE child
  /\ exitStatus' = IF child = "running" THEN "signal" ELSE exitStatus
-----------------------------------------------------------------------------
(***************************************************************************)
(* block(), by an executor or by the destructor.                           *)
(***************************************************************************)
Block(t) ==
  /\ pc[t] = "run"
  /\ ThreadTo(t, "load")
  /\ UNCHANGED <<processState, code, owner, child, exitStatus, depth, waited, blockAnswer, shut, dead>>

\* The switch on m_state.
Load(t) ==
  /\ pc[t] = "load"
  /\ ThreadTo(t, CASE processState = "Finished" -> "return"
               [] processState = "Waiting"  -> "lockWait"
               [] processState = "Unknown"  -> "lockStart")
  /\ UNCHANGED <<processState, code, owner, child, exitStatus, depth, waited, blockAnswer, shut, dead>>

Lock(t, from, to) ==
  /\ pc[t] = from /\ owner = "none"
  /\ owner' = t /\ ThreadTo(t, to)
  /\ UNCHANGED <<processState, code, child, exitStatus, depth, waited, blockAnswer, shut, dead>>

LockWait(t) == Lock(t, "lockWait", "test")
LockStart(t) == Lock(t, "lockStart", "start")
LockPublish(t) == Lock(t, "lockPublish", "publish")

\* m_condVar.wait(): the mutex is free while the thread sleeps.
TestState(t) ==
  /\ pc[t] = "test"
  /\ IF processState = "Finished" THEN ThreadTo(t, "return") ELSE ThreadTo(t, "asleep")
  /\ owner' = "none"
  /\ UNCHANGED <<processState, code, child, exitStatus, depth, waited, blockAnswer, shut, dead>>

SpuriousWakeup(t) ==
  /\ pc[t] = "asleep"
  /\ ThreadTo(t, "lockWait")
  /\ UNCHANGED <<processState, code, owner, child, exitStatus, depth, waited, blockAnswer, shut, dead>>

\* Mutant: the state is not looked at again under the mutex.
StartUnchecked(t) ==
  /\ pc[t] = "start"
  /\ processState' = "Waiting" /\ owner' = "none" /\ ThreadTo(t, "waitpid")
  /\ UNCHANGED <<code, child, exitStatus, depth, waited, blockAnswer, shut, dead>>

\* The state again, under the mutex: if somebody else waits by now block()
\* calls itself, and still holds the mutex.
Start(t) ==
  /\ pc[t] = "start"
  /\ IF processState # "Unknown"
       THEN /\ depth' = [depth EXCEPT ![t] = TRUE]
            /\ ThreadTo(t, "load")
            /\ UNCHANGED <<processState, owner>>
       ELSE /\ processState' = "Waiting" /\ owner' = "none"
            /\ ThreadTo(t, "waitpid")
            /\ UNCHANGED depth
  /\ UNCHANGED <<code, child, exitStatus, waited, blockAnswer, shut, dead>>

\* blockImpl(): a process can be waited for once.
WaitPid(t) ==
  /\ pc[t] = "waitpid" /\ child # "running"
  /\ waited' = [waited EXCEPT ![t] =
                  IF child = "reaped" THEN "UnknownErr"
                  ELSE IF exitStatus = "signal" THEN "InvalidProcess" ELSE exitStatus]
  /\ child' = "reaped"
  /\ ThreadTo(t, "lockPublish")
  /\ UNCHANGED <<processState, code, owner, exitStatus, depth, blockAnswer, shut, dead>>

\* Mutant: nobody is notified.
PublishSilent(t) ==
  /\ pc[t] = "publish"
  /\ code' = waited[t] /\ processState' = "Finished" /\ owner' = "none"
  /\ ThreadTo(t, "return")
  /\ UNCHANGED <<child, exitStatus, depth, waited, blockAnswer, shut, dead>>

Publish(t) ==
  /\ pc[t] = "publish"
  /\ code' = waited[t] /\ processState' = "Finished" /\ owner' = "none"
  /\ pc' = [u \in ProcessThreads |-> IF u = t THEN "return"
                              ELSE IF pc[u] = "asleep" THEN "lockWait" ELSE pc[u]]
  /\ UNCHANGED <<child, exitStatus, depth, waited, blockAnswer, shut, dead>>

\* Leaving block() unlocks what the recursive call kept locked.
BlockReturn(t) ==
  /\ pc[t] = "return"
  /\ blockAnswer' = [blockAnswer EXCEPT ![t] = IF waited[t] # "none" THEN waited[t] ELSE code]
  /\ owner' = IF depth[t] THEN "none" ELSE owner
  /\ depth' = [depth EXCEPT ![t] = FALSE]
  /\ ThreadTo(t, IF t = Destructor THEN "close" ELSE IF shut THEN "stopped" ELSE "answered")
  /\ UNCHANGED <<processState, code, child, exitStatus, waited, shut, dead>>
-----------------------------------------------------------------------------
(***************************************************************************)
(* Executors.                                                              *)
(***************************************************************************)

\* sendSignal() of a signal that is not ignored.  It does not look at m_state:
\* the process may have ended, or even have been reaped.
SendSignal(t) ==
  /\ pc[t] = "run"
  /\ Kill
  /\ UNCHANGED <<processState, code, owner, pc, depth, waited, blockAnswer, shut, dead>>

\* Other calls on the process may follow, or it is dropped.
BlockAgain(t) ==
  /\ pc[t] = "answered" /\ ~shut
  /\ ThreadTo(t, "run") /\ waited' = [waited EXCEPT ![t] = "none"]
  /\ blockAnswer' = [blockAnswer EXCEPT ![t] = "none"]
  /\ UNCHANGED <<processState, code, owner, child, exitStatus, depth, shut, dead>>

DropProcess(t) ==
  /\ t \in Holders /\ pc[t] \in {"run", "answered"} /\ ~shut
  /\ ThreadTo(t, "stopped")
  /\ UNCHANGED <<processState, code, owner, child, exitStatus, depth, waited, blockAnswer, shut, dead>>

\* abortExecutors(): whoever is inside block() counts as paused.
Shutdown ==
  /\ ~shut
  /\ shut' = TRUE
  /\ pc' = [t \in ProcessThreads |-> IF pc[t] \in {"run", "answered"} THEN "stopped" ELSE pc[t]]
  /\ UNCHANGED <<processState, code, owner, child, exitStatus, depth, waited, blockAnswer, dead>>
-----------------------------------------------------------------------------
(***************************************************************************)
(* ~ProcessRef()                                                           *)
(***************************************************************************)
ProcessUnreachable == \A t \in Holders : pc[t] = "stopped"

\* Mutant: the process is killed and not waited for.
DestroyNoBlock ==
  /\ pc[Destructor] = "none" /\ (ProcessUnreachable \/ shut)
  /\ ThreadTo(Destructor, "close")
  /\ IF ~Detached /\ processState # "Finished"
       THEN Kill
       ELSE UNCHANGED <<child, exitStatus>>
  /\ UNCHANGED <<processState, code, owner, depth, waited, blockAnswer, shut, dead>>

DestroyProcess ==
  /\ pc[Destructor] = "none" /\ (ProcessUnreachable \/ shut)
  /\ IF ~Detached /\ processState # "Finished"
       THEN Kill /\ ThreadTo(Destructor, "load")
       ELSE ThreadTo(Destructor, "close") /\ UNCHANGED <<child, exitStatus>>
  /\ UNCHANGED <<processState, code, owner, depth, waited, blockAnswer, shut, dead>>

\* The pipes are closed and the memory is free.
Close ==
  /\ pc[Destructor] = "close"
  /\ dead' = TRUE /\ ThreadTo(Destructor, "gone")
  /\ UNCHANGED <<processState, code, owner, child, exitStatus, depth, waited, blockAnswer, shut>>
-----------------------------------------------------------------------------
\* A step of block(); once the process object is freed what its users do is
\* undefined, and the host is about to end.
BlockStep(t) ==
  /\ ~dead
  /\ \/ Load(t) \/ LockWait(t) \/ LockStart(t) \/ LockPublish(t) \/ TestState(t)
     \/ Start(t) \/ WaitPid(t) \/ Publish(t) \/ BlockReturn(t)

ProcessThreadStep(t) ==
  ~dead /\ (Block(t) \/ SpuriousWakeup(t) \/ SendSignal(t) \/ BlockAgain(t) \/ DropProcess(t))

Ended == dead /\ UNCHANGED processVars

ProcessNext ==
  \/ (~dead /\ Exit) \/ (~dead /\ Shutdown) \/ DestroyProcess \/ Close \/ Ended
  \/ \E t \in ProcessThreads : BlockStep(t) \/ ProcessThreadStep(t)

ProcessSpec == ProcessInit /\ [][ProcessNext]_processVars

\* A thread that can take a step does, the mutex starves nobody, and the child
\* process ends one day.
ProcessFairness ==
  /\ WF_processVars(Exit /\ ~dead) /\ WF_processVars(DestroyProcess) /\ WF_processVars(Close)
  /\ \A t \in ProcessThreads :
       /\ WF_processVars(BlockStep(t)) /\ SF_processVars(~dead /\ LockWait(t))
       /\ SF_processVars(~dead /\ LockStart(t)) /\ SF_processVars(~dead /\ LockPublish(t))

ProcessFairSpec == ProcessSpec /\ ProcessFairness
-----------------------------------------------------------------------------
(***************************************************************************)
(* Properties.                                                             *)
(***************************************************************************)
Results == Codes \cup {"none", "unset", "InvalidProcess", "UnknownErr"}

ProcessTypeOK ==
  /\ processState \in {"Unknown", "Waiting", "Finished"}
  /\ code \in Results /\ owner \in ProcessThreads \cup {"none"}
  /\ child \in {"running", "zombie", "reaped"}
  /\ exitStatus \in Codes \cup {"none", "signal"}
  /\ pc \in [ProcessThreads -> {"none", "run", "load", "lockWait", "lockStart", "lockPublish",
                         "test", "asleep", "start", "waitpid", "publish", "return",
                         "answered", "stopped", "close", "gone"}]
  /\ depth \in [ProcessThreads -> BOOLEAN]
  /\ waited \in [ProcessThreads -> Results] /\ blockAnswer \in [ProcessThreads -> Results]
  /\ shut \in BOOLEAN /\ dead \in BOOLEAN

\* How the process ended, as block() tells it.
Answer == IF exitStatus = "signal" THEN "InvalidProcess" ELSE exitStatus

\* A thread that has waitpid() to itself, and has not yet published what it
\* gave.
Reaping(t) == pc[t] \in {"waitpid", "lockPublish", "publish"}

\* The mutex has one holder, who is in the critical section or in the call
\* block() makes of itself there; by then somebody else waits or has waited.
MutexInv ==
  \A t \in ProcessThreads :
    /\ pc[t] \in {"test", "start", "publish"} => owner = t
    /\ depth[t] => owner = t /\ pc[t] \in {"load", "lockWait", "return"} /\ processState # "Unknown"
    /\ owner = t => pc[t] \in {"test", "start", "publish"} \/ depth[t]

\* At most one thread ever calls waitpid(), and only its return reaps the
\* process; what it gave is what everybody is told.
AnswerInv ==
  /\ child = "running" => exitStatus = "none"
  /\ child = "reaped" => processState # "Unknown"
  /\ processState = "Finished" => child = "reaped" /\ code = Answer
  /\ \A t \in ProcessThreads :
       /\ Reaping(t) => processState = "Waiting" /\ \A u \in ProcessThreads : Reaping(u) => u = t
       /\ pc[t] = "waitpid" => child # "reaped"
       /\ pc[t] \in {"lockPublish", "publish"} => child = "reaped" /\ waited[t] = Answer
       /\ pc[t] = "return" => processState = "Finished"
       /\ waited[t] # "none" => child = "reaped" /\ waited[t] = Answer
       /\ blockAnswer[t] # "none" => child = "reaped" /\ blockAnswer[t] = Answer

\* The destructor passes through block() unless it need not.
DestructorInv ==
  /\ pc[Destructor] \notin {"run", "answered", "stopped"}
  /\ \A t \in Holders : pc[t] \notin {"none", "close", "gone"}
  /\ pc[Destructor] \in {"close", "gone"} /\ ~Detached => child = "reaped"
  /\ dead => pc[Destructor] = "gone"

ProcessInv == ProcessTypeOK /\ MutexInv /\ AnswerInv /\ DestructorInv

\* Everybody who asked gets the same answer, which is how the process ended.
ExitCodeAgrees ==
  \A t \in ProcessThreads :
    blockAnswer[t] # "none" =>
      blockAnswer[t] = IF exitStatus = "signal" THEN "InvalidProcess" ELSE exitStatus

\* "This prevents leaking zombie processes": a process that is not detached
\* has been reaped when its destructor ends.
NoZombie == dead /\ ~Detached => child = "reaped"

\* A caller waits for a mutex it holds itself.
SelfLocked(t) == pc[t] \in {"lockWait", "lockStart"} /\ owner = t

\* The only way for block() not to return is a caller that waits for its own
\* mutex.
BlockReturnsOrSelfLocks ==
  \A t \in Holders :
    pc[t] = "load" ~> pc[t] \in {"answered", "stopped"} \/ dead
                     \/ \E u \in ProcessThreads : SelfLocked(u)

\* "Another executor beat us to it, recurse to wait for it": block() returns.
BlockReturns ==
  \A t \in Holders : pc[t] = "load" ~> pc[t] \in {"answered", "stopped"} \/ dead
=============================================================================
