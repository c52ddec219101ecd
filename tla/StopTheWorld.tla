---------------------------- MODULE StopTheWorld ----------------------------
(***************************************************************************)
(* What the executor registry promises to the garbage collector and to     *)
(* vm::run, without saying how: once the world is stopped no executor is   *)
(* active, it stays that way until the world is resumed, and after an      *)
(* abort no executor ever becomes active again.                            *)
(*                                                                         *)
(* ExecutorRegistry implements this specification (see RegistryProofs);    *)
(* Heap builds on it.                                                      *)
(***************************************************************************)
CONSTANTS Executors, \* the threads that may execute novus assembly
          Main       \* the executor vm::run executes on the calling thread

ASSUME MainAssumption == Main \in Executors

VARIABLES world, \* RegistryState: "Running", "Paused" or "Aborted"
          mode   \* per executor: "absent", "active", "parked" or "gone"

worldVars == <<world, mode>>

WorldStates == {"Running", "Paused", "Aborted"}
Modes == {"absent", "active", "parked", "gone"}

WorldInit ==
  /\ world = "Running"
  /\ mode = [e \in Executors |-> IF e = Main THEN "active" ELSE "absent"]

\* An active executor starts another one on a new thread.
WorldFork(e, c) ==
  /\ mode[e] = "active" /\ mode[c] = "absent"
  /\ mode' = [mode EXCEPT ![c] = "active"]
  /\ UNCHANGED world

\* An executor reaches a safe-point or enters a blocking call.
WorldPark(e) ==
  /\ mode[e] = "active"
  /\ mode' = [mode EXCEPT ![e] = "parked"]
  /\ UNCHANGED world

\* A parked executor continues: only while the world runs.
WorldUnpark(e) ==
  /\ mode[e] = "parked" /\ world = "Running"
  /\ mode' = [mode EXCEPT ![e] = "active"]
  /\ UNCHANGED world

\* An executor returns from its root stack frame, or fails.
WorldExit(e) ==
  /\ mode[e] = "active"
  /\ mode' = [mode EXCEPT ![e] = "gone"]
  /\ UNCHANGED world

\* A parked executor unwinds because it was asked to abort.
WorldUnwind(e) ==
  /\ mode[e] = "parked" /\ world # "Running"
  /\ mode' = [mode EXCEPT ![e] = "gone"]
  /\ UNCHANGED world

WorldStop ==
  /\ world = "Running" /\ \A e \in Executors : mode[e] # "active"
  /\ world' = "Paused"
  /\ UNCHANGED mode

WorldResume == world = "Paused" /\ world' = "Running" /\ UNCHANGED mode

WorldAbort == world = "Paused" /\ world' = "Aborted" /\ UNCHANGED mode

WorldNext ==
  \/ WorldStop \/ WorldResume \/ WorldAbort
  \/ \E e \in Executors :
       \/ WorldPark(e) \/ WorldUnpark(e) \/ WorldExit(e) \/ WorldUnwind(e)
       \/ \E c \in Executors : WorldFork(e, c)

WorldSpec == WorldInit /\ [][WorldNext]_worldVars
=============================================================================
