----------------------------- MODULE JobRunner -----------------------------
(***************************************************************************)
(* create-a-container/job-runner.js against the Jobs table.                *)
(*                                                                         *)
(* Any number of runner processes poll the table, claim the oldest pending *)
(* row in a transaction that locks it (SELECT ... FOR UPDATE), spawn its   *)
(* command as a child process, and record the child's outcome from         *)
(* asynchronous event handlers.  A signal makes a runner cancel its jobs   *)
(* and exit; a crash makes it vanish.  Either way it can be started again, *)
(* and it then knows nothing of the jobs the former process had running.   *)
(*                                                                         *)
(* One action is one stretch of JavaScript between two awaits, or one      *)
(* database statement.  Job output rows are left out (JobStatuses is a     *)
(* log), but the await on writing one is not: other handlers run there.    *)
(*                                                                         *)
(* PostgreSQL semantics, modelled as the code relies on them: a SELECT     *)
(* ... ORDER BY ... LIMIT 1 FOR UPDATE takes its candidates from one       *)
(* snapshot, waits for a candidate another transaction has locked, and     *)
(* goes on to the next candidate when, on waking up, the row no longer     *)
(* satisfies the WHERE clause.  A dropped connection rolls back.           *)
(***************************************************************************)
EXTENDS Naturals

CONSTANTS
  Jobs,          \* identities of the Job rows
  Runners,       \* runner processes that may run at the same time
  None,          \* no runner, no job
  MaxFaults,     \* bound: crashes, database errors and throwing spawns
  MaxStops       \* bound: SIGINT / SIGTERM deliveries

ASSUME ConstantsAssumption ==
  /\ None \notin Jobs \cup Runners
  /\ MaxFaults \in Nat
  /\ MaxStops \in Nat

VARIABLES
  status,        \* Jobs.status, or "absent" / "staged" (in an open transaction)
  created,       \* Jobs.createdAt
  clock,         \* the latest createdAt handed out
  ahead,         \* history: rows visible, and stamped earlier, when j was inserted
  starts,        \* history: times j's command was given to spawn()
  proc,          \* the child process of j
  up,            \* the runner process runs
  pc,            \* where claimPendingJob stands: idle, scan, locked, claimed
  snap,          \* candidates of its SELECT not examined yet
  got,           \* the row it locked or claimed
  owner,         \* the runner whose memory still holds j (else None)
  children,      \* the jobs of activeChildren, of all runners
  killed,        \* the jobs whose child.killed is true
  handler,       \* handler[j][e]: the 'error' or 'close' handler of j's child
  shut,          \* shutdownAndCancelJobs: no, next, mark, wait
  todo,          \* the entries it has still to cancel
  cur,           \* the entry it is cancelling
  faults, stops  \* how many faults and signals have happened

jobVars     == <<status, created, clock, ahead>>
claimVars   == <<pc, snap, got>>
childVars   == <<children, killed>>
shutVars    == <<shut, todo, cur>>
budget      == <<faults, stops>>
vars == <<jobVars, starts, proc, up, claimVars, owner, childVars, handler, shutVars, budget>>

Verdicts == {"success", "failure"}
Terminal == Verdicts \cup {"cancelled"}
Statuses == {"absent", "staged", "pending", "running"} \cup Terminal
Ended    == {"ok", "bad", "nospawn"}
Events   == {"error", "close"}
Phases   == {"idle", "append", "read", "write", "done"}

\* The type invariant of the table and of the runners' memories.
TypeOK ==
  /\ status \in [Jobs -> Statuses]
  /\ created \in [Jobs -> Nat]
  /\ clock \in Nat
  /\ ahead \in [Jobs -> SUBSET Jobs]
  /\ starts \in [Jobs -> Nat]
  /\ proc \in [Jobs -> {"none", "live"} \cup Ended]
  /\ up \in [Runners -> BOOLEAN]
  /\ pc \in [Runners -> {"idle", "scan", "locked", "claimed"}]
  /\ snap \in [Runners -> SUBSET Jobs]
  /\ got \in [Runners -> Jobs \cup {None}]
  /\ owner \in [Jobs -> Runners \cup {None}]
  /\ children \in SUBSET Jobs
  /\ killed \in SUBSET Jobs
  /\ handler \in [Jobs -> [Events -> Phases]]
  /\ shut \in [Runners -> {"no", "next", "mark", "wait"}]
  /\ todo \in [Runners -> SUBSET Jobs]
  /\ cur \in [Runners -> Jobs \cup {None}]
  /\ faults \in 0..MaxFaults
  /\ stops \in 0..MaxStops

NoHandler == [e \in Events |-> "idle"]

Init ==
  /\ status = [j \in Jobs |-> "absent"]
  /\ created = [j \in Jobs |-> 0]
  /\ clock = 0
  /\ ahead = [j \in Jobs |-> {}]
  /\ starts = [j \in Jobs |-> 0]
  /\ proc = [j \in Jobs |-> "none"]
  /\ up = [r \in Runners |-> TRUE]
  /\ pc = [r \in Runners |-> "idle"]
  /\ snap = [r \in Runners |-> {}]
  /\ got = [r \in Runners |-> None]
  /\ owner = [j \in Jobs |-> None]
  /\ children = {}
  /\ killed = {}
  /\ handler = [j \in Jobs |-> NoHandler]
  /\ shut = [r \in Runners |-> "no"]
  /\ todo = [r \in Runners |-> {}]
  /\ cur = [r \in Runners |-> None]
  /\ faults = 0
  /\ stops = 0

-----------------------------------------------------------------------------
(* The web server: a Job row is inserted inside the request's transaction   *)
(* and becomes visible when that commits.  A transaction that is rolled     *)
(* back leaves its row "staged" for ever, which nothing can tell apart.     *)

\* Job.create: createdAt comes from the clock of the inserting process; two
\* inserts may fall into the same millisecond.
InsertJob(j) ==
  /\ status[j] = "absent"
  /\ status' = [status EXCEPT ![j] = "staged"]
  /\ \E now \in {clock, clock + 1} \ {0} :
       /\ clock' = now
       /\ created' = [created EXCEPT ![j] = now]
       /\ ahead' = [ahead EXCEPT ![j] =
            {i \in Jobs : status[i] \notin {"absent", "staged"} /\ created[i] < now}]
  /\ UNCHANGED <<starts, proc, up, claimVars, owner, childVars, handler, shutVars, budget>>

CommitJob(j) ==
  /\ status[j] = "staged"
  /\ status' = [status EXCEPT ![j] = "pending"]
  /\ UNCHANGED <<created, clock, ahead, starts, proc, up, claimVars, owner, childVars,
                 handler, shutVars, budget>>

-----------------------------------------------------------------------------
(* loop() and claimPendingJob()                                             *)

Pending == {j \in Jobs : status[j] = "pending"}

Locked(j) == \E r \in Runners : pc[r] = "locked" /\ got[r] = j

\* Mutant of Oldest: ORDER BY "createdAt" DESC.
OldestDescending(S, j) == j \in S /\ \A i \in S : created[j] >= created[i]

\* The candidate the ORDER BY "createdAt" ASC examines next (ties: either).
Oldest(S, j) == j \in S /\ \A i \in S : created[j] <= created[i]

\* loop() returns at once when the process is shutting down; otherwise the
\* SELECT takes its snapshot.  An empty snapshot makes the turn a no-op.
ClaimSelect(r) ==
  /\ up[r] /\ pc[r] = "idle" /\ shut[r] = "no"
  /\ Pending # {}
  /\ pc' = [pc EXCEPT ![r] = "scan"]
  /\ snap' = [snap EXCEPT ![r] = Pending]
  /\ UNCHANGED <<jobVars, starts, proc, up, got, owner, childVars, handler, shutVars, budget>>

\* Mutant of ClaimLock: the SELECT without "lock: LOCK.UPDATE".
ClaimWithoutLock(r) ==
  /\ pc[r] = "scan"
  /\ \E j \in snap[r] :
       /\ Oldest(snap[r], j)
       /\ status[j] = "pending"
       /\ got' = [got EXCEPT ![r] = j]
  /\ pc' = [pc EXCEPT ![r] = "locked"]
  /\ snap' = [snap EXCEPT ![r] = {}]
  /\ UNCHANGED <<jobVars, starts, proc, up, owner, childVars, handler, shutVars, budget>>

\* FOR UPDATE: the row is still pending once nobody else holds its lock.
ClaimLock(r) ==
  /\ pc[r] = "scan"
  /\ \E j \in snap[r] :
       /\ Oldest(snap[r], j)
       /\ ~Locked(j)
       /\ status[j] = "pending"
       /\ got' = [got EXCEPT ![r] = j]
  /\ pc' = [pc EXCEPT ![r] = "locked"]
  /\ snap' = [snap EXCEPT ![r] = {}]
  /\ UNCHANGED <<jobVars, starts, proc, up, owner, childVars, handler, shutVars, budget>>

\* Another runner claimed the row meanwhile: on to the next candidate, or
\* findOne returns null and the turn is over.
ClaimSkip(r) ==
  /\ pc[r] = "scan"
  /\ \E j \in snap[r] :
       /\ Oldest(snap[r], j)
       /\ ~Locked(j)
       /\ status[j] # "pending"
       /\ snap' = [snap EXCEPT ![r] = @ \ {j}]
       /\ pc' = [pc EXCEPT ![r] = IF snap[r] = {j} THEN "idle" ELSE "scan"]
  /\ UNCHANGED <<jobVars, starts, proc, up, got, owner, childVars, handler, shutVars, budget>>

\* job.update({status: 'running'}) and the commit of the transaction.
ClaimCommit(r) ==
  /\ pc[r] = "locked"
  /\ status' = [status EXCEPT ![got[r]] = "running"]
  /\ owner' = [owner EXCEPT ![got[r]] = r]
  /\ pc' = [pc EXCEPT ![r] = "claimed"]
  /\ UNCHANGED <<created, clock, ahead, starts, proc, up, snap, got, childVars, handler,
                 shutVars, budget>>

\* A database error in the transaction: rolled back, logged, polled again.
ClaimError(r) ==
  /\ pc[r] \in {"scan", "locked"}
  /\ faults < MaxFaults
  /\ faults' = faults + 1
  /\ pc' = [pc EXCEPT ![r] = "idle"]
  /\ snap' = [snap EXCEPT ![r] = {}]
  /\ got' = [got EXCEPT ![r] = None]
  /\ UNCHANGED <<jobVars, starts, proc, up, owner, childVars, handler, shutVars, stops>>

-----------------------------------------------------------------------------
(* runJob()                                                                 *)

Idle(r) ==
  /\ pc' = [pc EXCEPT ![r] = "idle"]
  /\ got' = [got EXCEPT ![r] = None]
  /\ UNCHANGED snap

Spawn(r) ==
  LET j == got[r] IN
  /\ pc[r] = "claimed"
  /\ starts' = [starts EXCEPT ![j] = @ + 1]
  /\ children' = children \cup {j}
  /\ proc' = [proc EXCEPT ![j] = "live"]
  /\ Idle(r)
  /\ UNCHANGED <<jobVars, up, owner, killed, handler, shutVars, budget>>

\* A spawn that fails asynchronously (no fork, no working directory) gives a
\* child object too, which emits 'error' and later 'close'.
SpawnFails(r) ==
  LET j == got[r] IN
  /\ pc[r] = "claimed"
  /\ starts' = [starts EXCEPT ![j] = @ + 1]
  /\ children' = children \cup {j}
  /\ proc' = [proc EXCEPT ![j] = "nospawn"]
  /\ handler' = [handler EXCEPT ![j]["error"] = "append"]
  /\ Idle(r)
  /\ UNCHANGED <<jobVars, up, owner, killed, shutVars, budget>>

\* spawn() throws (out of memory): loop() logs it and nothing listens for j.
SpawnThrows(r) ==
  LET j == got[r] IN
  /\ pc[r] = "claimed"
  /\ faults < MaxFaults
  /\ faults' = faults + 1
  /\ starts' = [starts EXCEPT ![j] = @ + 1]
  /\ owner' = [owner EXCEPT ![j] = None]
  /\ Idle(r)
  /\ UNCHANGED <<jobVars, proc, up, childVars, handler, shutVars, stops>>

\* The child ends by itself or because of a signal; with SIGTERM sent to the
\* whole service it may end before its runner notices the signal.
ChildExit(j) ==
  /\ proc[j] = "live"
  /\ \E code \in {"ok", "bad"} : proc' = [proc EXCEPT ![j] = code]
  /\ UNCHANGED <<jobVars, starts, up, claimVars, owner, childVars, handler, shutVars, budget>>

\* Mutant of CloseEvent: only a command that exited with 0 is recorded.
CloseEventOnSuccess(j) ==
  /\ owner[j] # None /\ proc[j] = "ok" /\ handler[j]["close"] = "idle"
  /\ children' = children \ {j}
  /\ handler' = [handler EXCEPT ![j]["close"] = "append"]
  /\ UNCHANGED <<jobVars, starts, proc, up, claimVars, owner, killed, shutVars, budget>>

\* 'close' reaches the runner: activeChildren.delete, then the output append.
CloseEvent(j) ==
  /\ owner[j] # None /\ proc[j] \in Ended /\ handler[j]["close"] = "idle"
  /\ children' = children \ {j}
  /\ handler' = [handler EXCEPT ![j]["close"] = "append"]
  /\ UNCHANGED <<jobVars, starts, proc, up, claimVars, owner, killed, shutVars, budget>>

\* appendJobOutput has resolved; only 'error' deletes from the map after it.
HandlerAppend(j, e) ==
  /\ owner[j] # None /\ handler[j][e] = "append"
  /\ handler' = [handler EXCEPT ![j][e] = "read"]
  /\ children' = IF e = "error" THEN children \ {j} ELSE children
  /\ UNCHANGED <<jobVars, starts, proc, up, claimVars, owner, killed, shutVars, budget>>

\* Mutant of HandlerRead: the row is compared with the status it had before.
HandlerReadStale(j, e) ==
  /\ owner[j] # None /\ handler[j][e] = "read"
  /\ handler' = [handler EXCEPT ![j][e] = IF status[j] = "pending" THEN "write" ELSE "done"]
  /\ UNCHANGED <<jobVars, starts, proc, up, claimVars, owner, childVars, shutVars, budget>>

\* findByPk, and the test fresh.status === 'running'.
HandlerRead(j, e) ==
  /\ owner[j] # None /\ handler[j][e] = "read"
  /\ handler' = [handler EXCEPT ![j][e] = IF status[j] = "running" THEN "write" ELSE "done"]
  /\ UNCHANGED <<jobVars, starts, proc, up, claimVars, owner, childVars, shutVars, budget>>

\* Mutant of Verdict: a command that never started counts as a success.
VerdictOfExitOnly(j) == IF proc[j] = "bad" THEN "failure" ELSE "success"

Verdict(j) == IF proc[j] = "ok" THEN "success" ELSE "failure"

\* fresh.update({status}): UPDATE ... WHERE id, whatever the status is by now.
HandlerWrite(j, e) ==
  /\ owner[j] # None /\ handler[j][e] = "write"
  /\ status' = [status EXCEPT ![j] = Verdict(j)]
  /\ handler' = [handler EXCEPT ![j][e] = "done"]
  /\ UNCHANGED <<created, clock, ahead, starts, proc, up, claimVars, owner, childVars,
                 shutVars, budget>>

\* findByPk or update fails: caught and logged, the status stays.
HandlerError(j, e) ==
  /\ owner[j] # None /\ handler[j][e] \in {"read", "write"}
  /\ faults < MaxFaults
  /\ faults' = faults + 1
  /\ handler' = [handler EXCEPT ![j][e] = "done"]
  /\ UNCHANGED <<jobVars, starts, proc, up, claimVars, owner, childVars, shutVars, stops>>

-----------------------------------------------------------------------------
(* shutdownAndCancelJobs(), crashes and restarts                            *)

Own(r) == {j \in Jobs : owner[j] = r}

\* The process is gone: its memory, and the transaction of an open claim.
Gone(r) ==
  /\ up' = [up EXCEPT ![r] = FALSE]
  /\ pc' = [pc EXCEPT ![r] = "idle"]
  /\ snap' = [snap EXCEPT ![r] = {}]
  /\ got' = [got EXCEPT ![r] = None]
  /\ owner' = [j \in Jobs |-> IF owner[j] = r THEN None ELSE owner[j]]
  /\ children' = children \ Own(r)
  /\ killed' = killed \ Own(r)
  /\ handler' = [j \in Jobs |-> IF owner[j] = r THEN NoHandler ELSE handler[j]]
  /\ shut' = [shut EXCEPT ![r] = "no"]
  /\ todo' = [todo EXCEPT ![r] = {}]
  /\ cur' = [cur EXCEPT ![r] = None]

\* The first signal; shutdownAndCancelJobs ignores the later ones.
Signalled(r) ==
  /\ up[r] /\ shut[r] = "no"
  /\ stops < MaxStops
  /\ stops' = stops + 1
  /\ UNCHANGED <<jobVars, starts, proc, faults>>

\* Nothing in activeChildren: process.exit(0) at once, whatever a claim or a
\* close handler is in the middle of.
SignalIdle(r) ==
  /\ children \cap Own(r) = {}
  /\ Signalled(r)
  /\ Gone(r)

SignalBusy(r) ==
  /\ children \cap Own(r) # {}
  /\ Signalled(r)
  /\ shut' = [shut EXCEPT ![r] = "next"]
  /\ todo' = [todo EXCEPT ![r] = children \cap Own(r)]
  /\ UNCHANGED <<up, claimVars, owner, childVars, handler, cur>>

\* The note is appended, then child.kill('SIGTERM'): child.killed becomes true
\* when there was still a process to signal.
ShutKill(r) ==
  /\ shut[r] = "next"
  /\ \E j \in todo[r] :
       /\ killed' = IF proc[j] = "live" THEN killed \cup {j} ELSE killed
       /\ todo' = [todo EXCEPT ![r] = @ \ {j}]
       /\ cur' = [cur EXCEPT ![r] = j]
  /\ shut' = [shut EXCEPT ![r] = "mark"]
  /\ UNCHANGED <<jobVars, starts, proc, up, claimVars, owner, children, handler, budget>>

ShutNext(r) ==
  /\ shut' = [shut EXCEPT ![r] = "next"]
  /\ cur' = [cur EXCEPT ![r] = None]
  /\ UNCHANGED todo

\* Mutant of ShutMark: a status that is not one of the enum's.
ShutMarkMisspelt(r) ==
  LET j == cur[r] IN
  /\ shut[r] = "mark"
  /\ status' = [status EXCEPT ![j] = IF @ = "running" THEN "canceled" ELSE @]
  /\ ShutNext(r)
  /\ UNCHANGED <<created, clock, ahead, starts, proc, up, claimVars, owner, childVars,
                 handler, budget>>

\* Mutant of ShutMark: the WHERE clause names only the id.
ShutMarkAnyStatus(r) ==
  LET j == cur[r] IN
  /\ shut[r] = "mark"
  /\ status' = [status EXCEPT ![j] = "cancelled"]
  /\ ShutNext(r)
  /\ UNCHANGED <<created, clock, ahead, starts, proc, up, claimVars, owner, childVars,
                 handler, budget>>

\* Job.update({status: 'cancelled'}, {where: {id, status: 'running'}})
ShutMark(r) ==
  LET j == cur[r] IN
  /\ shut[r] = "mark"
  /\ status' = [status EXCEPT ![j] = IF @ = "running" THEN "cancelled" ELSE @]
  /\ ShutNext(r)
  /\ UNCHANGED <<created, clock, ahead, starts, proc, up, claimVars, owner, childVars,
                 handler, budget>>

ShutMarkError(r) ==
  /\ shut[r] = "mark"
  /\ faults < MaxFaults
  /\ faults' = faults + 1
  /\ ShutNext(r)
  /\ UNCHANGED <<jobVars, starts, proc, up, claimVars, owner, childVars, handler, stops>>

ShutWait(r) ==
  /\ shut[r] = "next" /\ todo[r] = {}
  /\ shut' = [shut EXCEPT ![r] = "wait"]
  /\ UNCHANGED <<jobVars, starts, proc, up, claimVars, owner, childVars, handler, todo,
                 cur, budget>>

\* Two seconds later: SIGKILL where child.killed is false, then process.exit(0).
ShutExit(r) ==
  LET victims == (children \cap Own(r)) \ killed IN
  /\ shut[r] = "wait"
  /\ proc' = [j \in Jobs |-> IF j \in victims /\ proc[j] = "live" THEN "bad" ELSE proc[j]]
  /\ Gone(r)
  /\ UNCHANGED <<jobVars, starts, budget>>

\* The process dies: power, kill -9, or an unhandled rejection (an output
\* append that fails in an event handler is one).  Its children may live on.
Crash(r) ==
  /\ up[r]
  /\ faults < MaxFaults
  /\ faults' = faults + 1
  /\ Gone(r)
  /\ UNCHANGED <<jobVars, starts, proc, stops>>

\* Mutant of Start: rows left 'running' are queued again.
StartRequeues(r) ==
  /\ ~up[r]
  /\ up' = [up EXCEPT ![r] = TRUE]
  /\ status' = [j \in Jobs |->
       IF status[j] = "running" /\ owner[j] = None THEN "pending" ELSE status[j]]
  /\ UNCHANGED <<created, clock, ahead, starts, proc, claimVars, owner, childVars, handler,
                 shutVars, budget>>

\* start(): migrations, then loop().  Nothing looks at rows left 'running'.
Start(r) ==
  /\ ~up[r]
  /\ up' = [up EXCEPT ![r] = TRUE]
  /\ UNCHANGED <<jobVars, starts, proc, claimVars, owner, childVars, handler, shutVars, budget>>

-----------------------------------------------------------------------------

Web(j) == InsertJob(j) \/ CommitJob(j)

Claim(r) == ClaimSelect(r) \/ ClaimLock(r) \/ ClaimSkip(r) \/ ClaimCommit(r)

Run(r) == Spawn(r) \/ SpawnFails(r)

Handle(j) ==
  \/ CloseEvent(j)
  \/ \E e \in Events : HandlerAppend(j, e) \/ HandlerRead(j, e) \/ HandlerWrite(j, e)

Signal(r) == SignalIdle(r) \/ SignalBusy(r)

Shutdown(r) == ShutKill(r) \/ ShutMark(r) \/ ShutWait(r) \/ ShutExit(r)

Fault(r) == ClaimError(r) \/ SpawnThrows(r) \/ ShutMarkError(r) \/ Crash(r)

Next ==
  \/ \E j \in Jobs : Web(j) \/ ChildExit(j) \/ Handle(j) \/ \E e \in Events : HandlerError(j, e)
  \/ \E r \in Runners : Claim(r) \/ Run(r) \/ Signal(r) \/ Shutdown(r) \/ Fault(r) \/ Start(r)

Spec == Init /\ [][Next]_vars

\* Node's event loop and PostgreSQL make progress, commands end (they bound
\* their own waits), systemd (Restart=on-failure) or the package's postinstall
\* (systemctl restart) starts a stopped runner again.  Requests and faults
\* need not happen.
Fairness ==
  /\ \A j \in Jobs : WF_vars(ChildExit(j)) /\ WF_vars(Handle(j))
  /\ \A r \in Runners : /\ WF_vars(Claim(r)) /\ WF_vars(Run(r))
                        /\ WF_vars(Shutdown(r)) /\ WF_vars(Start(r))

FairSpec == Spec /\ Fairness
-----------------------------------------------------------------------------
(* Properties                                                               *)

\* A live process still has j's close handler ahead of it, or is in it.
Attended(j) == owner[j] # None /\ up[owner[j]] /\ handler[j]["close"] # "done"

\* No command is handed to spawn() twice: not by two runners that poll at the
\* same time, not after a crash or a restart (claimPendingJob's row lock).
SpawnedAtMostOnce == \A j \in Jobs : starts[j] <= 1

\* A verdict is never a guess: 'success' only for a command that exited with
\* code 0, 'failure' only for one that ended otherwise or never started.
VerdictIsTheExit ==
  \A j \in Jobs : /\ status[j] = "success" => proc[j] = "ok"
                  /\ status[j] = "failure" => proc[j] \in {"bad", "nospawn"}

\* While nothing crashes and nobody stops a runner, every 'running' row has a
\* live runner that will still settle it: no row is left behind by a race.
RunningIsAttended ==
  faults = 0 /\ stops = 0 => \A j \in Jobs : status[j] = "running" => Attended(j)

\* First come, first started, also with several runners and failed claims: a
\* job that was visible, with an older createdAt, when j was inserted is no
\* longer pending once j has been started.
NoOvertaking ==
  \A j \in Jobs : status[j] \in {"running"} \cup Terminal =>
    \A i \in ahead[j] : status[i] # "pending"

\* 'success' and 'failure' are final, in spite of the handlers' read-then-write
\* and of a shutdown that marks rows cancelled in between.
VerdictsAreFinal ==
  [][\A j \in Jobs : status[j] \in Verdicts => status'[j] = status[j]]_vars

\* What shutdownAndCancelJobs says it does ("mark cancelled in DB"): a row it
\* has cancelled stays cancelled.  The close handler's update breaks it.
CancelledSticks ==
  [][\A j \in Jobs : status[j] = "cancelled" => status'[j] = "cancelled"]_vars

\* The readers' view: an uncommitted row does not exist.
VisibleStatus == [j \in Jobs |-> IF status[j] = "staged" THEN "absent" ELSE status[j]]

Lifecycle == INSTANCE JobLifecycle WITH state <- VisibleStatus, executions <- starts

\* The runners and their handlers implement the lifecycle the readers rely on.
RefinesLifecycle == Lifecycle!Spec

\* Every submitted job reaches a terminal status, unless a fault or a signal
\* has left its row 'running' with nobody to settle it.
SettlesOrIsAbandoned ==
  \A j \in Jobs : status[j] = "pending" ~>
    \/ status[j] \in Terminal
    \/ status[j] = "running" /\ ~Attended(j) /\ faults + stops > 0
-----------------------------------------------------------------------------
(* The inductive invariant behind the safety properties.                    *)

Quiet(j) == \A e \in Events : handler[j][e] = "idle"

\* Until it is claimed a row has no process, no handler and no runner.
Unclaimed ==
  \A j \in Jobs : status[j] \in {"absent", "staged", "pending"} =>
    /\ starts[j] = 0 /\ proc[j] = "none" /\ owner[j] = None
    /\ j \notin children /\ Quiet(j)

\* What a runner that has locked or claimed a row may rely on.
Claims ==
  \A r \in Runners :
    /\ pc[r] # "idle" => up[r]
    /\ pc[r] \in {"locked", "claimed"} => got[r] \in Jobs
    /\ pc[r] = "locked" => status[got[r]] = "pending"
    /\ pc[r] = "claimed" =>
         /\ status[got[r]] = "running" /\ owner[got[r]] = r
         /\ starts[got[r]] = 0 /\ proc[got[r]] = "none"
         /\ got[r] \notin children /\ Quiet(got[r])

\* FOR UPDATE: two runners never hold the same row.
RowLock ==
  \A r1, r2 \in Runners :
    pc[r1] = "locked" /\ pc[r2] = "locked" /\ got[r1] = got[r2] => r1 = r2

\* A process, a handler and a cancellation all need an execution before them.
Executed ==
  \A j \in Jobs :
    /\ starts[j] \in 0..1
    /\ proc[j] # "none" => starts[j] = 1
    /\ j \in children => starts[j] = 1
    /\ handler[j]["close"] # "idle" => proc[j] \in Ended
    /\ handler[j]["error"] # "idle" => proc[j] = "nospawn"
    /\ status[j] \in Terminal => starts[j] = 1

\* The entries of a shutdown come from activeChildren, and only a live runner
\* that got a signal is shutting down.
Shutting ==
  \A r \in Runners :
    /\ shut[r] # "no" => up[r] /\ stops > 0
    /\ \A j \in todo[r] : starts[j] = 1
    /\ shut[r] = "mark" => cur[r] \in Jobs /\ starts[cur[r]] = 1

OwnersUp == \A j \in Jobs : owner[j] # None => up[owner[j]]

\* What was ahead of a job was visible and older, and remains so.
AheadIsOlder ==
  \A j \in Jobs : \A i \in ahead[j] :
    status[i] \notin {"absent", "staged"} /\ created[i] < created[j]

\* A candidate's elders are candidates too, or are no longer pending.
CandidatesInOrder ==
  \A r \in Runners :
    /\ \A j \in snap[r] : status[j] \notin {"absent", "staged"}
    /\ pc[r] = "scan" => \A j \in snap[r] : \A i \in ahead[j] :
         status[i] = "pending" => i \in snap[r]
    /\ pc[r] = "locked" => \A i \in ahead[got[r]] : status[i] # "pending"

IInv ==
  /\ TypeOK /\ Unclaimed /\ Claims /\ RowLock /\ Executed /\ Shutting /\ OwnersUp
  /\ AheadIsOlder /\ CandidatesInOrder /\ VerdictIsTheExit /\ RunningIsAttended /\ NoOvertaking
=============================================================================
