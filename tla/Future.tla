------------------------------- MODULE Future -------------------------------
(***************************************************************************)
(* A future (ref_future.hpp): the forked executor that computes its value, *)
(* the executors that poll it, wait for it or block on it (executor.cpp),  *)
(* and its destruction, by the sweep when nobody holds it any more, or at  *)
(* the end of run(), when executors may still be blocked on it.            *)
(*                                                                         *)
(* A section under m_mutex is one step; m_condVar.wait() is the step that  *)
(* falls asleep, the notification, and the step that tests again.          *)
(***************************************************************************)
EXTENDS Naturals, FiniteSets

CONSTANT Waiters   \* executors that hold the future

ASSUME FutureAssumption == IsFiniteSet(Waiters)

VARIABLES
  state,     \* m_state
  waiters,   \* m_waitersCount
  result,    \* has m_result been set?
  forkpc,       \* where the forked executor is
  final,     \* the state in which it ends
  wpc,       \* where each waiter is
  timed,     \* does it call waitNano() (or block())?
  answer,    \* what the call answered
  runpc,       \* where run() is: "run", "aborting", "aborted"
  dpc        \* where the destructor is; "freed" after it

futureVars == <<state, waiters, result, forkpc, final, wpc, timed, answer, runpc, dpc>>

FutureInit ==
  /\ state = "Running" /\ waiters = 0 /\ result = FALSE
  /\ forkpc = "compute" /\ final \in {"Success", "Failed"}
  /\ wpc = [w \in Waiters |-> "run"]
  /\ timed = [w \in Waiters |-> FALSE]
  /\ answer = [w \in Waiters |-> "none"]
  /\ runpc = "run" /\ dpc = "alive"

WaiterTo(w, l) == wpc' = [wpc EXCEPT ![w] = l]

Done == state # "Running"
-----------------------------------------------------------------------------
(***************************************************************************)
(* The forked executor.                                                    *)
(***************************************************************************)
\* notify_all(): whoever sleeps will test again.
Notify == wpc' = [w \in Waiters |-> IF wpc[w] = "asleep" THEN "notified" ELSE wpc[w]]

\* Mutant: the state is set before the result.
ComputeStateFirst ==
  /\ forkpc = "compute"
  /\ state' = final /\ Notify
  /\ forkpc' = IF final = "Success" THEN "setResult" ELSE "setState"
  /\ UNCHANGED <<waiters, result, final, timed, answer, runpc, dpc>>

Compute ==
  /\ forkpc = "compute"
  /\ forkpc' = IF final = "Success" THEN "setResult" ELSE "setState"
  /\ UNCHANGED <<state, waiters, result, final, wpc, timed, answer, runpc, dpc>>

SetResult ==
  /\ forkpc = "setResult"
  /\ result' = TRUE /\ forkpc' = "setState"
  /\ UNCHANGED <<state, waiters, final, wpc, timed, answer, runpc, dpc>>

\* Mutant: the waiters are not notified.
SetStateSilent ==
  /\ forkpc = "setState"
  /\ state' = final /\ forkpc' = "done"
  /\ UNCHANGED <<waiters, result, final, wpc, timed, answer, runpc, dpc>>

SetState ==
  /\ forkpc = "setState"
  /\ state' = final /\ Notify
  /\ forkpc' = "done"
  /\ UNCHANGED <<waiters, result, final, timed, answer, runpc, dpc>>

\* An executor that is aborted leaves its promise alone.
AbortChild ==
  /\ forkpc = "compute" /\ runpc = "aborting"
  /\ forkpc' = "aborted"
  /\ UNCHANGED <<state, waiters, result, final, wpc, timed, answer, runpc, dpc>>
-----------------------------------------------------------------------------
(***************************************************************************)
(* An executor that holds the future.                                      *)
(***************************************************************************)

\* FutureWaitNano without a timeout polls.
Poll(w) ==
  /\ wpc[w] = "run"
  /\ answer' = [answer EXCEPT ![w] = IF Done THEN "finished" ELSE "pending"]
  /\ WaiterTo(w, "answered")
  /\ UNCHANGED <<state, waiters, result, forkpc, final, timed, runpc, dpc>>

\* FutureWaitNano and FutureBlock mark the executor as paused.
MarkPaused(w) ==
  /\ wpc[w] = "run"
  /\ \E t \in BOOLEAN : timed' = [timed EXCEPT ![w] = t]
  /\ WaiterTo(w, "marked")
  /\ UNCHANGED <<state, waiters, result, forkpc, final, answer, runpc, dpc>>

Enter(w) ==
  /\ wpc[w] = "marked" /\ dpc # "freed"
  /\ waiters' = waiters + 1
  /\ WaiterTo(w, "entered")
  /\ UNCHANGED <<state, result, forkpc, final, timed, answer, runpc, dpc>>

\* The predicate, under the mutex.
Test(w) ==
  /\ wpc[w] \in {"entered", "notified"}
  /\ IF Done
       THEN /\ WaiterTo(w, "awake")
            /\ answer' = IF timed[w] THEN [answer EXCEPT ![w] = "finished"] ELSE answer
       ELSE WaiterTo(w, "asleep") /\ UNCHANGED answer
  /\ UNCHANGED <<state, waiters, result, forkpc, final, timed, runpc, dpc>>

\* A spurious wake-up tests again.
Spurious(w) ==
  /\ wpc[w] = "asleep"
  /\ WaiterTo(w, "notified")
  /\ UNCHANGED <<state, waiters, result, forkpc, final, timed, answer, runpc, dpc>>

\* wait_for() answers what the predicate says when the time is over.
Timeout(w) ==
  /\ wpc[w] \in {"asleep", "notified"} /\ timed[w]
  /\ answer' = [answer EXCEPT ![w] = IF Done THEN "finished" ELSE "pending"]
  /\ WaiterTo(w, "awake")
  /\ UNCHANGED <<state, waiters, result, forkpc, final, timed, runpc, dpc>>

Leave(w) ==
  /\ wpc[w] = "awake"
  /\ waiters' = waiters - 1
  /\ WaiterTo(w, IF timed[w] THEN "returned" ELSE "left")
  /\ UNCHANGED <<state, result, forkpc, final, timed, answer, runpc, dpc>>

\* block() reads m_state once more, after it was counted out.
ReadState(w) ==
  /\ wpc[w] = "left" /\ dpc # "freed"
  /\ answer' = [answer EXCEPT ![w] = state]
  /\ WaiterTo(w, "returned")
  /\ UNCHANGED <<state, waiters, result, forkpc, final, timed, runpc, dpc>>

\* What a freed future answers is undefined.
UseAfterFree(w) ==
  /\ wpc[w] \in {"marked", "left"} /\ dpc = "freed"
  /\ WaiterTo(w, "undefined")
  /\ UNCHANGED <<state, waiters, result, forkpc, final, timed, answer, runpc, dpc>>

\* The executor runs again, unless trap() stops it.
Resume(w) ==
  /\ wpc[w] = "returned"
  /\ WaiterTo(w, IF runpc = "run" THEN "answered" ELSE "stopped")
  /\ UNCHANGED <<state, waiters, result, forkpc, final, timed, answer, runpc, dpc>>

\* It keeps the future for another call, or drops it (FutureBlock, once it
\* has fetched the result).
Again(w) ==
  /\ wpc[w] = "answered" /\ answer[w] \in {"finished", "pending"}
  /\ WaiterTo(w, "run")
  /\ answer' = [answer EXCEPT ![w] = "none"]
  /\ UNCHANGED <<state, waiters, result, forkpc, final, timed, runpc, dpc>>

Drop(w) ==
  /\ wpc[w] = "answered"
  /\ WaiterTo(w, "dropped")
  /\ UNCHANGED <<state, waiters, result, forkpc, final, timed, answer, runpc, dpc>>

\* An executor that runs is aborted at its next safe point.
AbortWaiter(w) ==
  /\ wpc[w] \in {"run", "answered"} /\ runpc = "aborting"
  /\ WaiterTo(w, "stopped")
  /\ UNCHANGED <<state, waiters, result, forkpc, final, timed, answer, runpc, dpc>>
-----------------------------------------------------------------------------
(***************************************************************************)
(* run() and the destructor.                                               *)
(***************************************************************************)

\* The main executor ends; it need not have waited for its forks.
AbortBegin ==
  /\ runpc = "run"
  /\ runpc' = "aborting"
  /\ UNCHANGED <<state, waiters, result, forkpc, final, wpc, timed, answer, dpc>>

\* abortExecutors() returns: whoever is in block() counts as paused.
AbortEnd ==
  /\ runpc = "aborting"
  /\ forkpc \in {"done", "aborted"}
  /\ \A w \in Waiters : wpc[w] \notin {"run", "answered"}
  /\ runpc' = "aborted"
  /\ UNCHANGED <<state, waiters, result, forkpc, final, wpc, timed, answer, dpc>>

\* The sweep frees what nobody holds, ~RefAllocator() everything.
Unreachable ==
  /\ forkpc = "done"
  /\ \A w \in Waiters : wpc[w] \in {"dropped", "stopped"}

\* Mutant: the destructor does not notify.
DestroyBeginSilent ==
  /\ dpc = "alive"
  /\ Unreachable \/ runpc = "aborted"
  /\ state' = IF Done THEN state ELSE "Aborted"
  /\ dpc' = "spin"
  /\ UNCHANGED <<waiters, result, forkpc, final, wpc, timed, answer, runpc>>

DestroyBegin ==
  /\ dpc = "alive"
  /\ Unreachable \/ runpc = "aborted"
  /\ state' = IF Done THEN state ELSE "Aborted"
  /\ Notify
  /\ dpc' = "spin"
  /\ UNCHANGED <<waiters, result, forkpc, final, timed, answer, runpc>>

\* Mutant: the destructor does not wait.
DestroyEndNoWait ==
  /\ dpc = "spin"
  /\ dpc' = "freed"
  /\ UNCHANGED <<state, waiters, result, forkpc, final, wpc, timed, answer, runpc>>

DestroyEnd ==
  /\ dpc = "spin" /\ waiters = 0
  /\ dpc' = "freed"
  /\ UNCHANGED <<state, waiters, result, forkpc, final, wpc, timed, answer, runpc>>
-----------------------------------------------------------------------------
ChildStep == Compute \/ SetResult \/ SetState \/ AbortChild

\* What a call does once it was made.
CallStep(w) ==
  \/ Enter(w) \/ Test(w) \/ Leave(w) \/ ReadState(w) \/ UseAfterFree(w)
  \/ Resume(w) \/ AbortWaiter(w)

WaiterStep(w) ==
  \/ CallStep(w) \/ Poll(w) \/ MarkPaused(w) \/ Spurious(w) \/ Timeout(w)
  \/ Again(w) \/ Drop(w)

RunStep == AbortEnd \/ DestroyBegin \/ DestroyEnd

\* The future is freed and nobody is left.
FutureFinished ==
  /\ dpc = "freed"
  /\ \A w \in Waiters : wpc[w] \in {"dropped", "stopped", "undefined"}
  /\ UNCHANGED futureVars

FutureNext ==
  \/ ChildStep \/ AbortBegin \/ RunStep
  \/ \E w \in Waiters : WaiterStep(w)
  \/ FutureFinished

FutureSpec == FutureInit /\ [][FutureNext]_futureVars

\* A thread that can take a step does.  The program decides whether it calls,
\* computes for ever and when the main executor ends; a program that is to be
\* aborted meets a safe point.
FutureFairness ==
  /\ WF_futureVars(RunStep) /\ WF_futureVars(SetResult \/ SetState)
  /\ SF_futureVars(AbortChild)
  /\ \A w \in Waiters : WF_futureVars(CallStep(w)) /\ SF_futureVars(AbortWaiter(w))

FutureFairSpec == FutureSpec /\ FutureFairness
-----------------------------------------------------------------------------
(***************************************************************************)
(* Properties.                                                             *)
(***************************************************************************)
ExecStates == {"Running", "Success", "Failed", "Aborted"}
Calling == {"entered", "asleep", "notified", "awake"}

\* The executors that m_waitersCount counts.
Counted == {w \in Waiters : wpc[w] \in Calling}

FutureTypeOK ==
  /\ state \in ExecStates /\ final \in {"Success", "Failed"}
  /\ waiters \in Nat /\ result \in BOOLEAN
  /\ forkpc \in {"compute", "setResult", "setState", "done", "aborted"}
  /\ wpc \in [Waiters -> {"run", "marked", "left", "returned", "answered",
                          "dropped", "stopped", "undefined"} \cup Calling]
  /\ timed \in [Waiters -> BOOLEAN]
  /\ answer \in [Waiters -> ExecStates \cup {"none", "finished", "pending"}]
  /\ runpc \in {"run", "aborting", "aborted"}
  /\ dpc \in {"alive", "spin", "freed"}

\* What a call has answered agrees with the forked executor.
AnswerTrue(w) ==
  /\ answer[w] \in {"Success", "Failed", "finished", "Aborted"} => Done
  /\ answer[w] \in {"Success", "Failed", "Aborted"} => answer[w] = state
  /\ answer[w] # "Running"

\* The forked executor, the future, run() and the destructor.
PhaseInv ==
  /\ forkpc = "done" <=> state \in {"Success", "Failed"}
  /\ forkpc = "done" => state = final
  /\ state = "Aborted" => forkpc = "aborted" /\ dpc # "alive"
  /\ forkpc = "aborted" => runpc # "run"
  /\ (forkpc = "setState" \/ forkpc = "done") /\ final = "Success" => result
  /\ dpc # "alive" => Done /\ forkpc \in {"done", "aborted"}
  /\ dpc # "alive" => runpc = "aborted" \/ Unreachable
  /\ dpc = "freed" => waiters = 0
  /\ runpc = "aborted" => forkpc \in {"done", "aborted"}

\* One waiter.
WaiterInv(w) ==
  /\ wpc[w] \in {"run", "answered"} => runpc # "aborted" /\ dpc = "alive"
  /\ wpc[w] = "left" \/ (wpc[w] = "awake" /\ ~timed[w]) => Done
  /\ wpc[w] = "asleep" => ~Done
  /\ wpc[w] \in {"answered", "returned"} => AnswerTrue(w)
  /\ wpc[w] = "awake" /\ timed[w] => AnswerTrue(w)

\* Why the destructor may free: the counter counts exactly the executors that
\* will touch the mutex or the condition variable again; and why an answer
\* can be trusted: the states of child, future and destructor go together.
FutureInv ==
  /\ FutureTypeOK
  /\ waiters = Cardinality(Counted)
  /\ PhaseInv
  /\ \A w \in Waiters : WaiterInv(w)

\* A block() or a wait that the program sees answered tells the truth: a
\* final answer is that of the forked executor, and its result is there.
AnswerSound ==
  \A w \in Waiters :
    wpc[w] = "answered" =>
      /\ answer[w] \in {"Success", "Failed"} => answer[w] = final
      /\ answer[w] \in {"Success", "Failed", "finished"} => forkpc = "done"
      /\ answer[w] = "Success" => result
      /\ answer[w] # "Aborted"

\* Once an executor has ended, its future does not change its mind.
FinalForever == [][Done => state' = state]_futureVars

\* The mutex and the condition variable are not destroyed under a waiter.
NoWaiterWhenFreed == dpc = "freed" => Counted = {}

\* Nobody stays in block() or waitNano() once the future is done.
Wakes == \A w \in Waiters : wpc[w] \in Calling /\ Done ~> wpc[w] \notin Calling

\* run() gets rid of every executor and every future.
DestructorReturns == runpc = "aborting" ~> dpc = "freed"

\* "Wait until all waiters have received the abort message": no waiter still
\* has to read m_state when the destructor has ended.
NoUseAfterFree == \A w \in Waiters : dpc = "freed" => wpc[w] # "left"
=============================================================================
