-------------------------- MODULE ExecutorRegistry --------------------------
(***************************************************************************)
(* The executor registry of the novus virtual machine and the handles it   *)
(* keeps: how the collector thread pauses and resumes every executor, how  *)
(* vm::run aborts them at the end, and how executors start, fork, block,   *)
(* trap and finish meanwhile (executor_registry.cpp, executor_handle.hpp,  *)
(* the control part of executor.cpp, collect() of garbage_collector.cpp    *)
(* and run() of vm.cpp).                                                   *)
(*                                                                         *)
(* Every access to an atomic of a handle is a step of its own.  A critical *)
(* section of the registry mutex is one step when it touches only what the *)
(* mutex protects; the scans over the handles hold the mutex over several  *)
(* steps.  The intrusive list m_head/m_next is the set of its members: a   *)
(* scan visits each of them once, in an order no step depends on.          *)
(***************************************************************************)
EXTENDS FiniteSets

CONSTANTS Executors,       \* executor threads, each used for one execute()
          Main,            \* the one vm::run calls execute() for
          BufferedStores,  \* may a release store be delayed past a later load?
          EarlyCollection  \* may the first collection precede Main's
                           \* registration? (needs setup() to last longer
                           \* than gcMinIntervalMilliseconds)

ASSUME RegistryAssumption ==
  /\ Main \in Executors
  /\ BufferedStores \in BOOLEAN
  /\ EarlyCollection \in BOOLEAN

VARIABLES
  regState,   \* ExecutorRegistry::m_state
  registered, \* the handles linked from ExecutorRegistry::m_head
  mutex,      \* ExecutorRegistry::m_mutex: the pauser that holds it, or NoOne
  state,      \* ExecutorHandle::m_state
  request,    \* ExecutorHandle::m_request
  pending,    \* a store to m_state still in its thread's store buffer
  pc,         \* where each executor is
  kid,        \* the executor that a forking executor waits for
  started,    \* FutureRef::m_started of the future that backs an executor
  ppc,        \* where each thread that pauses executors is
  todo,       \* handles its current scan has not visited yet
  target,     \* handle between the two accesses of requestPause()
  done        \* the local 'done' of pauseExecutors()

handleVars == <<state, request, pending>>
execVars   == <<pc, kid, started>>
scanVars   == <<todo, target, done>>
vars == <<regState, registered, mutex, handleVars, execVars, ppc, scanVars>>

NoOne   == "NoOne"
NoStore == "NoStore"

\* The threads that call pauseExecutors(): the collector, and the thread of
\* vm::run when it aborts.
Pausers == {"collector", "vm"}

States   == {"Running", "Paused", "Success", "Failed", "Aborted"}
Requests == {"None", "Pause", "Abort"}

\* Program points at which an executor may touch its stack, references or
\* the registry ...
ActivePcs == {"register", "setup", "run", "forkWait", "end"}
\* ... at which it is blocked or inside trap() ...
ParkedPcs == {"blocked", "trap", "trapPause", "trapSpin", "trapResume",
              "trapAbort"}
\* ... and at which it has no thread (any more).
OutPcs == {"absent", "exited", "aborted"}

PauserPcs == {"idle", "pauseLock", "pauseNext", "pauseLoad", "pauseDone",
              "stopped", "resumeLock", "resumeNext", "terminated",
              "terminating", "abortLock", "abortNext", "abortDone",
              "shutDown"}

Init ==
  /\ regState = "Running"
  /\ registered = {}
  /\ mutex = NoOne
  /\ state = [e \in Executors |-> "Running"]
  /\ request = [e \in Executors |-> "None"]
  /\ pending = [e \in Executors |-> NoStore]
  /\ pc = [e \in Executors |-> IF e = Main THEN "register" ELSE "absent"]
  /\ kid = [e \in Executors |-> e]
  /\ started = [e \in Executors |-> FALSE]
  /\ ppc = [p \in Pausers |-> "idle"]
  /\ todo = [p \in Pausers |-> {}]
  /\ target = [p \in Pausers |-> Main]
  /\ done = [p \in Pausers |-> FALSE]
-----------------------------------------------------------------------------
(***************************************************************************)
(* The handle: stores of m_state by its own thread.                        *)
(***************************************************************************)

\* setState(): a release store.  It becomes visible at once, or stays in the
\* store buffer until Drain.
SetState(e, s) ==
  IF BufferedStores
    THEN pending[e] = NoStore /\ pending' = [pending EXCEPT ![e] = s]
         /\ UNCHANGED state
    ELSE state' = [state EXCEPT ![e] = s] /\ UNCHANGED pending

\* The store buffer reaches memory.
Drain(e) ==
  /\ pending[e] # NoStore
  /\ state' = [state EXCEPT ![e] = pending[e]]
  /\ pending' = [pending EXCEPT ![e] = NoStore]
  /\ UNCHANGED <<regState, registered, mutex, request, execVars, ppc, scanVars>>

\* A locked instruction or a fence waits for the store buffer to be empty.
Fence(e) == pending[e] = NoStore

Goto(e, l) == pc' = [pc EXCEPT ![e] = l]
-----------------------------------------------------------------------------
(***************************************************************************)
(* trap(), one step per access to an atomic.                               *)
(***************************************************************************)

\* TrapBegin: load m_request and branch on it.
TrapLoad(e) ==
  /\ pc[e] = "trap"
  /\ \/ request[e] = "None"  /\ Goto(e, "run")
     \/ request[e] = "Pause" /\ Goto(e, "trapPause")
     \/ request[e] = "Abort" /\ Goto(e, "trapAbort")
  /\ UNCHANGED <<regState, registered, mutex, handleVars, kid, started, ppc,
                 scanVars>>

\* Store Paused and start to spin.
TrapPause(e) ==
  /\ pc[e] = "trapPause"
  /\ SetState(e, "Paused")
  /\ Goto(e, "trapSpin")
  /\ UNCHANGED <<regState, registered, mutex, request, kid, started, ppc,
                 scanVars>>

\* The spin ends when m_request is no longer Pause.
TrapSpin(e) ==
  /\ pc[e] = "trapSpin"
  /\ \/ request[e] = "None"  /\ Goto(e, "trapResume")
     \/ request[e] = "Abort" /\ Goto(e, "trapAbort")
  /\ UNCHANGED <<regState, registered, mutex, handleVars, kid, started, ppc,
                 scanVars>>

\* Mutant: continue without restarting the trap check.
TrapResumeNoRecheck(e) ==
  /\ pc[e] = "trapResume"
  /\ Fence(e)
  /\ state' = [state EXCEPT ![e] = "Running"]
  /\ Goto(e, "run")
  /\ UNCHANGED <<regState, registered, mutex, request, pending, kid, started,
                 ppc, scanVars>>

\* Store Running with sequential consistency, then check again.
TrapResume(e) ==
  /\ pc[e] = "trapResume"
  /\ Fence(e)
  /\ state' = [state EXCEPT ![e] = "Running"]
  /\ Goto(e, "trap")
  /\ UNCHANGED <<regState, registered, mutex, request, pending, kid, started,
                 ppc, scanVars>>

\* Store Aborted; execute() then returns without touching shared memory.
TrapAbort(e) ==
  /\ pc[e] = "trapAbort"
  /\ SetState(e, "Aborted")
  /\ Goto(e, "aborted")
  /\ UNCHANGED <<regState, registered, mutex, request, kid, started, ppc,
                 scanVars>>
-----------------------------------------------------------------------------
(***************************************************************************)
(* execute(): the life of an executor between registration and return.     *)
(***************************************************************************)

\* registerExecutor(), under the mutex.
Register(e) ==
  /\ pc[e] = "register"
  /\ mutex = NoOne
  /\ registered' = registered \cup {e}
  /\ Goto(e, "setup")
  /\ UNCHANGED <<regState, mutex, handleVars, kid, started, ppc, scanVars>>

\* Push the promise and the arguments, publish 'started', then trap.
Setup(e) ==
  /\ pc[e] = "setup"
  /\ started' = [started EXCEPT ![e] = TRUE]
  /\ Goto(e, "trap")
  /\ UNCHANGED <<regState, registered, mutex, handleVars, kid, ppc, scanVars>>

\* Ret, CallTail and AtomicBlock trap at a safe-point.
SafePoint(e) ==
  /\ pc[e] = "run"
  /\ Goto(e, "trap")
  /\ UNCHANGED <<regState, registered, mutex, handleVars, kid, started, ppc,
                 scanVars>>

\* Mutant: block without announcing it.
BlockNotPaused(e) ==
  /\ pc[e] = "run"
  /\ Goto(e, "blocked")
  /\ UNCHANGED <<regState, registered, mutex, handleVars, kid, started, ppc,
                 scanVars>>

\* A blocking operation (a future, a stream, a process, a sleep, collectNow):
\* setState(Paused) before it ...
Block(e) ==
  /\ pc[e] = "run"
  /\ SetState(e, "Paused")
  /\ Goto(e, "blocked")
  /\ UNCHANGED <<regState, registered, mutex, request, kid, started, ppc,
                 scanVars>>

\* Mutant: the blocking operation returns without a trap.
UnblockNoTrap(e) ==
  /\ pc[e] = "blocked"
  /\ Fence(e)
  /\ SetState(e, "Running")
  /\ Goto(e, "run")
  /\ UNCHANGED <<regState, registered, mutex, request, kid, started, ppc,
                 scanVars>>

\* ... and setState(Running) followed by trap() when it returns.  The
\* operation itself locks a mutex or enters the kernel: the buffer is empty.
Unblock(e) ==
  /\ pc[e] = "blocked"
  /\ Fence(e)
  /\ SetState(e, "Running")
  /\ Goto(e, "trap")
  /\ UNCHANGED <<regState, registered, mutex, request, kid, started, ppc,
                 scanVars>>

\* Mutant: the parent does not wait for its fork to start.
ForkNoWait(e, c) ==
  /\ pc[e] = "run" /\ pc[c] = "absent"
  /\ Fence(e)
  /\ Goto(c, "register")
  /\ UNCHANGED <<regState, registered, mutex, handleVars, kid, started, ppc,
                 scanVars>>

\* fork(): start a thread that executes the call ...
Fork(e, c) ==
  /\ pc[e] = "run" /\ pc[c] = "absent"
  /\ Fence(e)
  /\ pc' = [pc EXCEPT ![e] = "forkWait", ![c] = "register"]
  /\ kid' = [kid EXCEPT ![e] = c]
  /\ UNCHANGED <<regState, registered, mutex, handleVars, started, ppc,
                 scanVars>>

\* ... and spin until it has started.
ForkDone(e) ==
  /\ pc[e] = "forkWait"
  /\ started[kid[e]]
  /\ Goto(e, "run")
  /\ UNCHANGED <<regState, registered, mutex, handleVars, kid, started, ppc,
                 scanVars>>

\* Return from the root frame, or fail (stack overflow, failed allocation or
\* fork, division by zero, a failed future, Fail): the state is set first.
Finish(e) ==
  /\ pc[e] = "run"
  /\ \E s \in {"Success", "Failed"} : SetState(e, s)
  /\ Goto(e, "end")
  /\ UNCHANGED <<regState, registered, mutex, request, kid, started, ppc,
                 scanVars>>

\* End: fill in the promise, then unregisterExecutor() under the mutex.
Unregister(e) ==
  /\ pc[e] = "end"
  /\ Fence(e)
  /\ mutex = NoOne
  /\ registered' = registered \ {e}
  /\ Goto(e, "exited")
  /\ UNCHANGED <<regState, mutex, handleVars, kid, started, ppc, scanVars>>
-----------------------------------------------------------------------------
(***************************************************************************)
(* pauseExecutors(), called by collect() and by abortExecutors().          *)
(***************************************************************************)
PGoto(p, l) == ppc' = [ppc EXCEPT ![p] = l]

\* Lock the mutex and start a pass over the list.
PauseLock(p) ==
  /\ ppc[p] = "pauseLock"
  /\ mutex = NoOne
  /\ mutex' = p
  /\ todo' = [todo EXCEPT ![p] = registered]
  /\ done' = [done EXCEPT ![p] = TRUE]
  /\ PGoto(p, "pauseNext")
  /\ UNCHANGED <<regState, registered, handleVars, execVars, target>>

\* requestPause(): exchange None for Pause ...
PauseRequest(p) ==
  /\ ppc[p] = "pauseNext"
  /\ \E e \in todo[p] :
       /\ request' = [request EXCEPT ![e] = IF @ = "None" THEN "Pause" ELSE @]
       /\ target' = [target EXCEPT ![p] = e]
  /\ PGoto(p, "pauseLoad")
  /\ UNCHANGED <<regState, registered, mutex, state, pending, execVars, todo,
                 done>>

\* ... then load m_state.
PauseLoad(p) ==
  /\ ppc[p] = "pauseLoad"
  /\ done' = [done EXCEPT ![p] = @ /\ state[target[p]] = "Paused"]
  /\ todo' = [todo EXCEPT ![p] = @ \ {target[p]}]
  /\ PGoto(p, "pauseNext")
  /\ UNCHANGED <<regState, registered, mutex, handleVars, execVars, target>>

\* End of a pass: unlock, then leave the loop or yield and start again.
PausePassEnd(p) ==
  /\ ppc[p] = "pauseNext" /\ todo[p] = {}
  /\ mutex' = NoOne
  /\ PGoto(p, IF done[p] THEN "pauseDone" ELSE "pauseLock")
  /\ UNCHANGED <<regState, registered, handleVars, execVars, scanVars>>

\* m_state = Paused; collect() goes on to mark, abortExecutors() to abort.
PauseDone(p) ==
  /\ ppc[p] = "pauseDone"
  /\ regState' = "Paused"
  /\ PGoto(p, IF p = "collector" THEN "stopped" ELSE "abortLock")
  /\ UNCHANGED <<registered, mutex, handleVars, execVars, scanVars>>
-----------------------------------------------------------------------------
(***************************************************************************)
(* collect(): pause, mark (and sweep), resume.                             *)
(***************************************************************************)

\* Mutant: the loop does not look at Terminate before it collects.
CollectBeginAlways ==
  /\ ppc["collector"] = "idle"
  /\ EarlyCollection \/ pc[Main] # "register"
  /\ PGoto("collector", "pauseLock")
  /\ UNCHANGED <<regState, registered, mutex, handleVars, execVars, scanVars>>

\* collectorLoop() wakes up by a request to collect or by its timeout.
CollectBegin ==
  /\ ppc["collector"] = "idle" /\ ppc["vm"] # "terminating"
  /\ EarlyCollection \/ pc[Main] # "register"
  /\ PGoto("collector", "pauseLock")
  /\ UNCHANGED <<regState, registered, mutex, handleVars, execVars, scanVars>>

\* resumeExecutors(): m_state = Running comes first ...
ResumeBegin ==
  /\ ppc["collector"] = "stopped"
  /\ regState' = "Running"
  /\ PGoto("collector", "resumeLock")
  /\ UNCHANGED <<registered, mutex, handleVars, execVars, scanVars>>

ResumeLock ==
  /\ ppc["collector"] = "resumeLock"
  /\ mutex = NoOne
  /\ mutex' = "collector"
  /\ todo' = [todo EXCEPT !["collector"] = registered]
  /\ PGoto("collector", "resumeNext")
  /\ UNCHANGED <<regState, registered, handleVars, execVars, target, done>>

\* ... then resume() exchanges Pause for None, one handle at a time.
ResumeHandle ==
  /\ ppc["collector"] = "resumeNext"
  /\ \E e \in todo["collector"] :
       /\ request' = [request EXCEPT ![e] = IF @ = "Pause" THEN "None" ELSE @]
       /\ todo' = [todo EXCEPT !["collector"] = @ \ {e}]
  /\ UNCHANGED <<regState, registered, mutex, state, pending, execVars, ppc,
                 target, done>>

ResumeEnd ==
  /\ ppc["collector"] = "resumeNext" /\ todo["collector"] = {}
  /\ mutex' = NoOne
  /\ PGoto("collector", "idle")
  /\ UNCHANGED <<regState, registered, handleVars, execVars, scanVars>>

\* collectorLoop() sees Terminate, at the start of an iteration.
CollectorExit ==
  /\ ppc["collector"] = "idle" /\ ppc["vm"] = "terminating"
  /\ PGoto("collector", "terminated")
  /\ UNCHANGED <<regState, registered, mutex, handleVars, execVars, scanVars>>
-----------------------------------------------------------------------------
(***************************************************************************)
(* run() after the main executor returned: terminateCollector(), then      *)
(* abortExecutors().                                                       *)
(***************************************************************************)
TerminateCollector ==
  /\ ppc["vm"] = "idle" /\ pc[Main] = "exited"
  /\ PGoto("vm", "terminating")
  /\ UNCHANGED <<regState, registered, mutex, handleVars, execVars, scanVars>>

\* The collector has terminated: abortExecutors() starts with a pause.
AbortBegin ==
  /\ ppc["vm"] = "terminating" /\ ppc["collector"] = "terminated"
  /\ PGoto("vm", "pauseLock")
  /\ UNCHANGED <<regState, registered, mutex, handleVars, execVars, scanVars>>

AbortLock ==
  /\ ppc["vm"] = "abortLock"
  /\ mutex = NoOne
  /\ mutex' = "vm"
  /\ todo' = [todo EXCEPT !["vm"] = registered]
  /\ PGoto("vm", "abortNext")
  /\ UNCHANGED <<regState, registered, handleVars, execVars, target, done>>

\* requestAbort()
AbortHandle ==
  /\ ppc["vm"] = "abortNext"
  /\ \E e \in todo["vm"] :
       /\ request' = [request EXCEPT ![e] = "Abort"]
       /\ todo' = [todo EXCEPT !["vm"] = @ \ {e}]
  /\ UNCHANGED <<regState, registered, mutex, state, pending, execVars, ppc,
                 target, done>>

\* m_head = nullptr, unlock ...
AbortUnlock ==
  /\ ppc["vm"] = "abortNext" /\ todo["vm"] = {}
  /\ registered' = {}
  /\ mutex' = NoOne
  /\ PGoto("vm", "abortDone")
  /\ UNCHANGED <<regState, handleVars, execVars, scanVars>>

\* ... m_state = Aborted.  run() then destroys the allocators.
AbortDone ==
  /\ ppc["vm"] = "abortDone"
  /\ regState' = "Aborted"
  /\ PGoto("vm", "shutDown")
  /\ UNCHANGED <<registered, mutex, handleVars, execVars, scanVars>>
-----------------------------------------------------------------------------
Trap(e) == TrapLoad(e) \/ TrapPause(e) \/ TrapSpin(e) \/ TrapResume(e)
           \/ TrapAbort(e)

ExecutorStep(e) ==
  \/ Trap(e)
  \/ Register(e) \/ Setup(e) \/ SafePoint(e) \/ Block(e) \/ Unblock(e)
  \/ ForkDone(e) \/ Finish(e) \/ Unregister(e)
  \/ Drain(e)

Pause(p) == PauseLock(p) \/ PauseRequest(p) \/ PauseLoad(p)
            \/ PausePassEnd(p) \/ PauseDone(p)

Collector == CollectBegin \/ Pause("collector") \/ ResumeBegin \/ ResumeLock
             \/ ResumeHandle \/ ResumeEnd \/ CollectorExit

Shutdown == TerminateCollector \/ AbortBegin \/ Pause("vm") \/ AbortLock
            \/ AbortHandle \/ AbortUnlock \/ AbortDone

\* run() has returned and every other thread has ended.
Halted ==
  /\ ppc["vm"] = "shutDown" /\ \A e \in Executors : pc[e] \in OutPcs
  /\ \A e \in Executors : pending[e] = NoStore
  /\ UNCHANGED vars

Next == \/ \E e \in Executors :
             ExecutorStep(e) \/ \E c \in Executors : Fork(e, c)
        \/ Collector
        \/ Shutdown
        \/ Halted

Spec == Init /\ [][Next]_vars

\* An executor always reaches the next trap, blocking call or end (the
\* generated code has no loop without a tail-call or a return), a thread
\* gets the registry mutex if it is free again and again (pauseExecutors()
\* yields between its passes), and sees a request that is withdrawn again and
\* again (two collections are gcMinIntervalMilliseconds apart unless an
\* executor runs).  Nothing is assumed of a blocking call: it may never return.
Fairness ==
  /\ \A e \in Executors :
       /\ WF_vars(TrapLoad(e) \/ TrapPause(e) \/ TrapResume(e) \/ TrapAbort(e)
                 \/ Setup(e) \/ ForkDone(e) \/ Drain(e))
       /\ WF_vars(SafePoint(e) \/ Block(e) \/ Finish(e))
       /\ SF_vars(TrapSpin(e)) /\ SF_vars(Register(e)) /\ SF_vars(Unregister(e))
  /\ WF_vars(Pause("collector") \/ ResumeBegin \/ ResumeLock \/ ResumeHandle
             \/ ResumeEnd \/ CollectorExit)
  /\ WF_vars(Shutdown)

FairSpec == Spec /\ Fairness
-----------------------------------------------------------------------------
(***************************************************************************)
(* Properties.                                                             *)
(***************************************************************************)
TypeOK ==
  /\ regState \in {"Running", "Paused", "Aborted"}
  /\ registered \in SUBSET Executors
  /\ mutex \in Pausers \cup {NoOne}
  /\ state \in [Executors -> States]
  /\ request \in [Executors -> Requests]
  /\ pending \in [Executors -> States \cup {NoStore}]
  /\ pc \in [Executors -> ActivePcs \cup ParkedPcs \cup OutPcs]
  /\ kid \in [Executors -> Executors]
  /\ started \in [Executors -> BOOLEAN]
  /\ ppc \in [Pausers -> PauserPcs]
  /\ todo \in [Pausers -> SUBSET Executors]
  /\ target \in [Pausers -> Executors]
  /\ done \in [Pausers -> BOOLEAN]

\* While the registry is paused (or aborted) no executor is at a point where
\* it touches its stack, a reference or the registry: what collect() says of
\* pauseExecutors(), "we are free to inspect the stacks ... and no new
\* allocations are being made", and what run() relies on when it destroys the
\* allocators after abortExecutors().
WorldStopped ==
  regState # "Running" => \A e \in Executors : pc[e] \notin ActivePcs

\* While the collector marks, the stack of every executor that can still
\* continue is in the list that populateMarkQueue() walks.
AllStacksVisible ==
  ppc["collector"] = "stopped" =>
    \A e \in Executors : pc[e] \notin OutPcs => e \in registered

\* populateMarkQueue() walks the list without the mutex: nobody links or
\* unlinks a handle while it does.
ListStable == [][ppc["collector"] = "stopped" => UNCHANGED registered]_vars

\* The asserts of registerExecutor() and unregisterExecutor(), before and
\* after they lock the mutex: the registry is running.
RegisterAsserts ==
  \A e \in Executors : pc[e] \in {"register", "end"} => regState = "Running"

\* The asserts of the registry: executors register and unregister, and
\* pauseExecutors() starts, with a running registry, abortExecutors() goes on
\* with a paused one, resume() finds a pause request in every handle it visits.
RegistryAsserts ==
  /\ RegisterAsserts
  /\ \A p \in Pausers :
       ppc[p] \in {"pauseLock", "pauseNext", "pauseLoad", "pauseDone"}
         => regState = "Running"
  /\ ppc["vm"] \in {"abortLock", "abortNext", "abortDone"} => regState = "Paused"
  /\ ppc["collector"] = "resumeNext" =>
       \A e \in todo["collector"] : request[e] # "None"

\* A pause request never outlives the collection that placed it.
NoStrayRequest ==
  (\A p \in Pausers : ppc[p] \in {"idle", "terminating", "terminated"})
    => \A e \in registered : request[e] = "None"

-----------------------------------------------------------------------------
(***************************************************************************)
(* The inductive invariant behind the safety properties, for a machine     *)
(* whose stores are not delayed and a main executor that registers before  *)
(* the first collection.                                                   *)
(***************************************************************************)

\* An executor that can do nothing but spin in trap() or block: its next
\* load of m_request finds a request.
Parked(e) == pc[e] \in ParkedPcs /\ request[e] # "None"

AllParked == \A e \in Executors : pc[e] \in OutPcs \/ Parked(e)

\* Which state, request and membership go with which program point.
HandleInv ==
  \A e \in Executors :
    /\ pending[e] = NoStore
    /\ state[e] = "Paused" =>
         pc[e] \in {"blocked", "trapSpin", "trapResume", "trapAbort"}
    /\ e \in registered => pc[e] \notin {"absent", "register", "exited"}
    /\ pc[e] \in (ActivePcs \ {"register"}) \cup ParkedPcs =>
         e \in registered \/ ppc["vm"] \in {"abortDone", "shutDown"}
    /\ request[e] = "Abort" => ppc["vm"] \in {"abortNext", "abortDone", "shutDown"}
    /\ pc[e] \in {"trapAbort", "aborted"} => request[e] = "Abort"
    /\ pc[e] \in {"absent", "register"} => request[e] = "None"

\* An executor that has no handle in the list yet has a parent that waits for
\* it, and so is not paused; the main executor registers before a collection.
ForkInv ==
  /\ \A e \in Executors :
       /\ pc[e] \in {"absent", "register", "setup"} => ~started[e]
       /\ pc[e] = "register" =>
            \/ e = Main
            \/ \E q \in Executors : pc[q] = "forkWait" /\ kid[q] = e
  /\ pc[Main] # "absent"
  /\ pc[Main] = "register" => \A p \in Pausers : ppc[p] = "idle"

\* The two pausers take turns, and hold the mutex exactly during their scans.
TurnInv ==
  /\ ppc["collector"] \notin {"terminating", "abortLock", "abortNext",
                              "abortDone", "shutDown"}
  /\ ppc["vm"] \notin {"stopped", "resumeLock", "resumeNext", "terminated"}
  /\ ppc["vm"] \in {"idle", "terminating"} \/ ppc["collector"] = "terminated"
  /\ \A p \in Pausers :
       mutex = p <=>
         ppc[p] \in {"pauseNext", "pauseLoad", "resumeNext", "abortNext"}
  /\ regState = "Paused" <=>
       \/ ppc["collector"] = "stopped"
       \/ ppc["vm"] \in {"abortLock", "abortNext", "abortDone"}
  /\ regState = "Aborted" <=> ppc["vm"] = "shutDown"

\* What a pass has established so far: if all handles visited were paused,
\* they are parked, and stay so because their request is already placed.
ScanInv ==
  \A p \in Pausers :
    /\ mutex = p => todo[p] \subseteq registered
    /\ ppc[p] = "pauseLoad" => target[p] \in todo[p] /\ request[target[p]] # "None"
    /\ ppc[p] \in {"pauseNext", "pauseLoad"} /\ done[p] =>
         \A e \in registered \ todo[p] : Parked(e)
    /\ ppc[p] \in {"pauseDone", "stopped", "resumeLock", "abortLock",
                    "abortNext", "abortDone", "shutDown"} => AllParked
    /\ ppc[p] = "resumeNext" =>
         /\ \A e \in todo[p] : Parked(e)
         /\ \A e \in registered \ todo[p] : request[e] = "None"

RegistryInv == TypeOK /\ HandleInv /\ ForkInv /\ TurnInv /\ ScanInv
               /\ NoStrayRequest
-----------------------------------------------------------------------------
\* The registry implements the abstract stop-the-world protocol.
ModeOf(l) == CASE l \in ActivePcs -> "active"
               [] l \in ParkedPcs -> "parked"
               [] l = "absent" -> "absent"
               [] OTHER -> "gone"

World == INSTANCE StopTheWorld
           WITH world <- regState, mode <- [e \in Executors |-> ModeOf(pc[e])]

ImplementsWorld == World!WorldSpec

\* pauseExecutors() returns, whatever the executors do: none of them can
\* delay it for ever by forking, finishing, blocking or re-trapping.
PauseCompletes ==
  \A p \in Pausers : ppc[p] = "pauseLock" ~> regState = "Paused"

\* When the main executor returns the virtual machine shuts down, and every
\* executor that is not inside a blocking call ends.
ShutdownCompletes ==
  pc[Main] = "exited" ~>
    (regState = "Aborted"
     /\ \A e \in Executors : pc[e] \in OutPcs \cup {"blocked"})
=============================================================================
