------------------------------ MODULE ForkJoin ------------------------------
(***************************************************************************)
(* What a fork-join pool promises the thread that calls it (the contract   *)
(* stated on thread_pool::parallel_for and ::run_workers): a call runs     *)
(* every task once, a task that throws ends only the stride it belongs to, *)
(* and the call returns after the last task, with an exception exactly     *)
(* when a task threw one.  Threads, phases and parking do not appear here. *)
(***************************************************************************)
EXTENDS Integers

CONSTANT MaxTasks       \* the largest number of tasks of one call

VARIABLES status,       \* "starting", "idle", "running" or "gone"
          width,        \* the number of strides, num_threads()
          size,         \* num_tasks of the current or the last call
          ran,          \* how often each task of that call was started
          threw,        \* the tasks of that call that raised an exception
          outcome       \* how the last call returned

vars == <<status, width, size, ran, threw, outcome>>

TaskIds == 0 .. MaxTasks - 1

\* An earlier task of t's stride threw, so t is skipped.
Skipped(t) == \E u \in threw : u < t /\ u % width = t % width

\* A call's outcome is the task whose exception it raised, or NoError.
NoError == -1

Init ==
    /\ status \in {"starting", "idle"}
    /\ width \in Nat \ {0}
    /\ size = 0
    /\ ran = [t \in TaskIds |-> 0]
    /\ threw = {}
    /\ outcome = NoError

Start ==
    /\ status = "starting"
    /\ status' \in {"idle", "gone"}
    /\ UNCHANGED <<width, size, ran, threw, outcome>>

Fork ==
    /\ status = "idle"
    /\ status' = "running"
    /\ size' \in 1 .. MaxTasks
    /\ ran' = [t \in TaskIds |-> 0]
    /\ threw' = {}
    /\ UNCHANGED <<width, outcome>>

RunTask(t) ==
    /\ status = "running"
    /\ t < size
    /\ ran[t] = 0
    /\ ~ Skipped(t)
    /\ ran' = [ran EXCEPT ![t] = 1]
    /\ \/ threw' = threw
       \/ threw' = threw \cup {t}
    /\ UNCHANGED <<status, width, size, outcome>>

Join ==
    /\ status = "running"
    /\ \A t \in 0 .. size - 1 : ran[t] = 1 \/ Skipped(t)
    /\ outcome' \in IF threw = {} THEN {NoError} ELSE threw
    /\ status' = "idle"
    /\ UNCHANGED <<width, size, ran, threw>>

Destroy ==
    /\ status = "idle"
    /\ status' = "gone"
    /\ UNCHANGED <<width, size, ran, threw, outcome>>

Next ==
    \/ Start
    \/ Fork
    \/ \E t \in TaskIds : RunTask(t)
    \/ Join
    \/ Destroy

Spec == Init /\ [][Next]_vars
=============================================================================
