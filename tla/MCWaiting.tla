------------------------------ MODULE MCWaiting ------------------------------
(***************************************************************************)
(* Everything an executor waits for, on small instances: a collection, a   *)
(* future, a child process.  The three share no state, so a behaviour      *)
(* exercises one of them while the other two are over.                     *)
(***************************************************************************)
EXTENDS Collector, Future, Process

CollectorOver ==
  /\ status = "Terminated" /\ reqType = "Terminate" /\ reqFlags = FALSE /\ flags = FALSE
  /\ begun = 0 /\ finished = 0 /\ bytes = ByteInterval
  /\ cpc = "gone" /\ vpc = "returned"
  /\ tpc = [t \in Threads |-> "ended"] /\ covered = [t \in Threads |-> "no"]
  /\ accum = [t \in Threads |-> 0] /\ id = [t \in Threads |-> 0]
  /\ want = [t \in Threads |-> FALSE] /\ wait = [t \in Threads |-> FALSE]

FutureOver ==
  /\ state = "Success" /\ waiters = 0 /\ result = TRUE /\ final = "Success"
  /\ forkpc = "done" /\ runpc = "aborted" /\ dpc = "freed"
  /\ wpc = [w \in Waiters |-> "dropped"]
  /\ timed = [w \in Waiters |-> FALSE] /\ answer = [w \in Waiters |-> "none"]

ProcessOver ==
  /\ processState = "Finished" /\ code = "InvalidProcess" /\ owner = "none"
  /\ child = "reaped" /\ exitStatus = "signal" /\ shut = TRUE /\ dead = TRUE
  /\ pc = [t \in ProcessThreads |-> IF t = Destructor THEN "gone" ELSE "stopped"]
  /\ depth = [t \in ProcessThreads |-> FALSE]
  /\ waited = [t \in ProcessThreads |-> "none"]
  /\ blockAnswer = [t \in ProcessThreads |-> "none"]

\* What is exercised.
OnlyCollector == FutureOver /\ ProcessOver
OnlyFuture    == CollectorOver /\ ProcessOver
OnlyProcess   == CollectorOver /\ FutureOver

WaitingInit == \/ Init /\ OnlyCollector
               \/ FutureInit /\ OnlyFuture
               \/ ProcessInit /\ OnlyProcess

WaitingNext == \/ OnlyCollector /\ Next /\ UNCHANGED <<futureVars, processVars>>
               \/ OnlyFuture /\ FutureNext /\ UNCHANGED <<vars, processVars>>
               \/ OnlyProcess /\ ProcessNext /\ UNCHANGED <<vars, futureVars>>

\* The fairness of what is exercised, as its module justifies it.
WaitingFairness == \/ OnlyCollector /\ Fairness
                   \/ OnlyFuture /\ FutureFairness
                   \/ OnlyProcess /\ ProcessFairness

WaitingSpec ==
  /\ WaitingInit /\ [][WaitingNext]_<<vars, futureVars, processVars>>
  /\ WaitingFairness
=============================================================================
