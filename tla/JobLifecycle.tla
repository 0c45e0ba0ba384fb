---------------------------- MODULE JobLifecycle ----------------------------
(***************************************************************************)
(* What the Jobs table promises to everybody who only reads it (the job    *)
(* page, the container status, the wait-for-job action): one state and one *)
(* execution count per job.  A job is submitted, started, its command is   *)
(* executed at most once, and it ends in the verdict of that execution or  *)
(* in a cancellation.  A cancellation is only provisional: the verdict of  *)
(* a command that ended while the runner was shutting down replaces it.    *)
(* Nothing ever replaces a verdict, and no job goes back.                  *)
(***************************************************************************)
EXTENDS Naturals

CONSTANT Jobs            \* the rows of the Jobs table

VARIABLES
  state,                 \* state[j]: the status column as readers see it
  executions             \* executions[j]: times the command was handed to spawn()

vars == <<state, executions>>

Verdicts == {"success", "failure"}
States   == {"absent", "pending", "running", "cancelled"} \cup Verdicts

TypeOK ==
  /\ state \in [Jobs -> States]
  /\ executions \in [Jobs -> 0..1]

Init ==
  /\ state = [j \in Jobs |-> "absent"]
  /\ executions = [j \in Jobs |-> 0]

Move(j, from, to) ==
  /\ state[j] \in from
  /\ \E s \in to : state' = [state EXCEPT ![j] = s]

Submit(j) == Move(j, {"absent"}, {"pending"}) /\ UNCHANGED executions

Start(j) == Move(j, {"pending"}, {"running"}) /\ UNCHANGED executions

Execute(j) ==
  /\ state[j] = "running"
  /\ executions[j] = 0
  /\ executions' = [executions EXCEPT ![j] = 1]
  /\ UNCHANGED state

\* The command's own outcome, also when a cancellation was recorded first.
Finish(j) ==
  /\ executions[j] = 1
  /\ Move(j, {"running", "cancelled"}, Verdicts)
  /\ UNCHANGED executions

Cancel(j) ==
  /\ executions[j] = 1
  /\ Move(j, {"running"}, {"cancelled"})
  /\ UNCHANGED executions

Next == \E j \in Jobs : Submit(j) \/ Start(j) \/ Execute(j) \/ Finish(j) \/ Cancel(j)

Spec == Init /\ [][Next]_vars
=============================================================================
