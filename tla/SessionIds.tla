----------------------------- MODULE SessionIds -----------------------------
(***************************************************************************)
(* DiamConn.Gen_Session_Id: goroutines of the application ask one          *)
(* connection for Session-Ids.  An id is origin_host;start_time;run, where *)
(* start_time is drawn once when the connection is made and run is a       *)
(* counter of 32 bits, incremented and copied under the mutex mtx.         *)
(* origin_host never changes and is left out.                              *)
(*                                                                         *)
(* A process may die and start again: the counter restarts at 0 and only   *)
(* the new start_time tells the new ids from the old ones.                 *)
(***************************************************************************)
EXTENDS Integers

CONSTANTS
  Callers,      \* goroutines that call Gen_Session_Id
  RunMod,       \* 2^32 in the code
  StartTimes,   \* what init can draw for start_time
  MaxIds,       \* bound: calls in one life of the process
  MaxInstances  \* bound: lives of the process

ASSUME SessionIdsAssumption ==
  /\ RunMod \in Nat \ {0}
  /\ MaxIds \in Nat
  /\ MaxInstances \in Nat \ {0}

Free == "free"
ASSUME FreeIsNoCaller == Free \notin Callers

VARIABLES
  mtx,          \* Free or the caller that holds it
  run_ind,      \* c.run_ind
  start_time,   \* c.start_time
  c_run,        \* local variable of each call
  call_pc,      \* idle, increment, copy, unlock, return
  \* history
  instance,     \* number of the life of the process
  count,        \* increments of run_ind in this life
  nth,          \* which of them the call of each caller made
  issued        \* ids returned: [instance, nth, start, run]

sessionVars == <<mtx, run_ind, start_time, c_run, call_pc, instance, count, nth, issued>>

Id == [instance : 1..MaxInstances, nth : 1..MaxIds, start : StartTimes, run : 0..(RunMod - 1)]

SessionTypeOK ==
  /\ mtx \in Callers \union {Free}
  /\ run_ind \in 0..(RunMod - 1)
  /\ start_time \in StartTimes
  /\ c_run \in [Callers -> 0..(RunMod - 1)]
  /\ call_pc \in [Callers -> {"idle", "increment", "copy", "unlock", "return"}]
  /\ instance \in 1..MaxInstances
  /\ count \in 0..MaxIds
  /\ nth \in [Callers -> 0..MaxIds]
  /\ issued \subseteq Id

\* NewDiamConn and init: nobody is inside, run_ind is 0.
SessionInit ==
  /\ mtx = Free
  /\ run_ind = 0
  /\ start_time \in StartTimes
  /\ c_run = [g \in Callers |-> 0]
  /\ call_pc = [g \in Callers |-> "idle"]
  /\ instance = 1
  /\ count = 0
  /\ nth = [g \in Callers |-> 0]
  /\ issued = {}

\* Fault: RLock in place of Lock.
LockShared(g) ==
  /\ call_pc[g] = "idle"
  /\ count < MaxIds
  /\ mtx' = g
  /\ call_pc' = [call_pc EXCEPT ![g] = "increment"]
  /\ UNCHANGED <<run_ind, start_time, c_run, instance, count, nth, issued>>

\* mtx.Lock()
Lock(g) ==
  /\ call_pc[g] = "idle"
  /\ mtx = Free
  /\ count < MaxIds
  /\ mtx' = g
  /\ call_pc' = [call_pc EXCEPT ![g] = "increment"]
  /\ UNCHANGED <<run_ind, start_time, c_run, instance, count, nth, issued>>

\* Fault: the counter is wider than 32 bits.
IncrementWide(g) ==
  /\ call_pc[g] = "increment"
  /\ run_ind' = run_ind + 1
  /\ count' = count + 1
  /\ nth' = [nth EXCEPT ![g] = count + 1]
  /\ call_pc' = [call_pc EXCEPT ![g] = "copy"]
  /\ UNCHANGED <<mtx, start_time, c_run, instance, issued>>

\* c.run_ind = c.run_ind + 1
Increment(g) ==
  /\ call_pc[g] = "increment"
  /\ run_ind' = (run_ind + 1) % RunMod
  /\ count' = count + 1
  /\ nth' = [nth EXCEPT ![g] = count + 1]
  /\ call_pc' = [call_pc EXCEPT ![g] = "copy"]
  /\ UNCHANGED <<mtx, start_time, c_run, instance, issued>>

\* c_run = c.run_ind
Copy(g) ==
  /\ call_pc[g] = "copy"
  /\ c_run' = [c_run EXCEPT ![g] = run_ind]
  /\ call_pc' = [call_pc EXCEPT ![g] = "unlock"]
  /\ UNCHANGED <<mtx, run_ind, start_time, instance, count, nth, issued>>

\* mtx.Unlock()
Unlock(g) ==
  /\ call_pc[g] = "unlock"
  /\ mtx' = Free
  /\ call_pc' = [call_pc EXCEPT ![g] = "return"]
  /\ UNCHANGED <<run_ind, start_time, c_run, instance, count, nth, issued>>

\* The id is put together outside the critical section and returned.
Return(g) ==
  /\ call_pc[g] = "return"
  /\ issued' = issued \union
       {[instance |-> instance, nth |-> nth[g], start |-> start_time, run |-> c_run[g]]}
  /\ call_pc' = [call_pc EXCEPT ![g] = "idle"]
  /\ UNCHANGED <<mtx, run_ind, start_time, c_run, instance, count, nth>>

\* The process dies at any point and starts again.
Restart ==
  /\ instance < MaxInstances
  /\ mtx' = Free
  /\ run_ind' = 0
  /\ start_time' \in StartTimes
  /\ c_run' = [g \in Callers |-> 0]
  /\ call_pc' = [g \in Callers |-> "idle"]
  /\ instance' = instance + 1
  /\ count' = 0
  /\ nth' = [g \in Callers |-> 0]
  /\ UNCHANGED issued

Call(g) == Lock(g) \/ Increment(g) \/ Copy(g) \/ Unlock(g) \/ Return(g)

\* Every bound is reached and nobody is inside.
AllCallsMade ==
  /\ count = MaxIds /\ instance = MaxInstances
  /\ \A g \in Callers : call_pc[g] = "idle"
  /\ UNCHANGED sessionVars

SessionNext == Restart \/ AllCallsMade \/ \E g \in Callers : Call(g)

SessionSpec == SessionInit /\ [][SessionNext]_sessionVars

-----------------------------------------------------------------------------
\* Two calls answered by one life of the process never share a Session-Id,
\* unless RunMod calls (the whole range of the counter) lie between them,
\* however the callers interleave.
SessionIdsDistinct ==
  \A a, b \in issued :
    a # b /\ a.instance = b.instance =>
      a.run # b.run \/ a.nth - b.nth >= RunMod \/ b.nth - a.nth >= RunMod
=============================================================================
