--------------------------- MODULE JobRunner_proofs ---------------------------
(***************************************************************************)
(* For every number of jobs and runners, and every bound on the faults:    *)
(* the inductive invariant of JobRunner, with one lemma per action; from   *)
(* it the safety properties, the finality of verdicts, and that the        *)
(* runners implement JobLifecycle.                                         *)
(***************************************************************************)
EXTENDS JobRunner, TLAPS

USE ConstantsAssumption DEF Terminal, Verdicts, Ended, NoHandler, Events, Phases, Statuses

\* An empty table and idle runners satisfy every part of the invariant.
LEMMA IInvInit == Init => IInv
BY DEF Init, IInv, TypeOK, Unclaimed, Claims, RowLock, Executed, Shutting, OwnersUp, AheadIsOlder, CandidatesInOrder, VerdictIsTheExit, RunningIsAttended, NoOvertaking, Attended, Quiet

\* Job.create: the new row is staged, and what is ahead of it is visible and older.
LEMMA InsertJobStep ==
  ASSUME IInv, NEW j \in Jobs, InsertJob(j)
  PROVE  IInv'
<1> USE DEF IInv, Quiet, InsertJob, jobVars, claimVars, childVars, shutVars, budget
<1>1. TypeOK'
  BY DEF TypeOK
<1>2. Unclaimed'
  BY DEF Unclaimed, Claims, TypeOK
<1>3. Claims'
  BY DEF Claims, Unclaimed, RowLock, Executed, Shutting, OwnersUp, TypeOK
<1>4. Executed'
  BY DEF Executed, Unclaimed, Claims, Shutting, TypeOK
<1>5. AheadIsOlder'
  BY DEF AheadIsOlder, TypeOK
<1>6. CandidatesInOrder'
  BY DEF CandidatesInOrder, AheadIsOlder, Claims, TypeOK
<1>7. VerdictIsTheExit'
  BY DEF VerdictIsTheExit, Executed, Claims, TypeOK
<1>8. RunningIsAttended'
  BY DEF RunningIsAttended, Claims, Unclaimed, Executed, Shutting, TypeOK, Attended
<1>9. NoOvertaking'
  BY DEF NoOvertaking, AheadIsOlder, CandidatesInOrder, Claims, Executed, Unclaimed, TypeOK
<1>10. RowLock' /\ Shutting' /\ OwnersUp'
  BY DEF RowLock, Shutting, OwnersUp
<1> QED BY <1>1, <1>2, <1>3, <1>4, <1>5, <1>6, <1>7, <1>8, <1>9, <1>10

\* The commit shows the row; it is younger than whatever has it ahead.
LEMMA CommitJobStep ==
  ASSUME IInv, NEW j \in Jobs, CommitJob(j)
  PROVE  IInv'
<1> USE DEF IInv, Quiet, CommitJob, jobVars, claimVars, childVars, shutVars, budget
<1>1. TypeOK'
  BY DEF TypeOK
<1>2. Unclaimed'
  BY DEF Unclaimed, Claims, TypeOK
<1>3. Claims'
  BY DEF Claims, Unclaimed, RowLock, Executed, Shutting, OwnersUp, TypeOK
<1>4. Executed'
  BY DEF Executed, Unclaimed, Claims, Shutting, TypeOK
<1>5. AheadIsOlder'
  BY DEF AheadIsOlder, TypeOK
<1>6. CandidatesInOrder'
  BY DEF CandidatesInOrder, AheadIsOlder, Claims, TypeOK
<1>7. VerdictIsTheExit'
  BY DEF VerdictIsTheExit, Executed, Claims, TypeOK
<1>8. RunningIsAttended'
  BY DEF RunningIsAttended, Claims, Unclaimed, Executed, Shutting, TypeOK, Attended
<1>9. NoOvertaking'
  BY DEF NoOvertaking, AheadIsOlder, CandidatesInOrder, Claims, Executed, Unclaimed, TypeOK
<1>10. RowLock' /\ Shutting' /\ OwnersUp'
  BY DEF RowLock, Shutting, OwnersUp
<1> QED BY <1>1, <1>2, <1>3, <1>4, <1>5, <1>6, <1>7, <1>8, <1>9, <1>10

\* The command ends: no row says anything about it before its close event.
LEMMA ChildExitStep ==
  ASSUME IInv, NEW j \in Jobs, ChildExit(j)
  PROVE  IInv'
<1> USE DEF IInv, Quiet, ChildExit, jobVars, claimVars, childVars, shutVars, budget
<1>1. TypeOK'
  BY DEF TypeOK
<1>2. Unclaimed'
  BY DEF Unclaimed, Claims, TypeOK
<1>3. Claims'
  BY DEF Claims, Unclaimed, RowLock, Executed, Shutting, OwnersUp, TypeOK
<1>4. Executed'
  BY DEF Executed, Unclaimed, Claims, Shutting, TypeOK
<1>5. VerdictIsTheExit'
  BY DEF VerdictIsTheExit, Executed, Claims, TypeOK
<1>6. RowLock' /\ Shutting' /\ OwnersUp' /\ AheadIsOlder' /\ CandidatesInOrder' /\ RunningIsAttended' /\ NoOvertaking'
  BY DEF RowLock, Shutting, OwnersUp, AheadIsOlder, CandidatesInOrder, RunningIsAttended, NoOvertaking, Attended
<1> QED BY <1>1, <1>2, <1>3, <1>4, <1>5, <1>6

\* 'close' takes the job off activeChildren; its handler is still ahead.
LEMMA CloseEventStep ==
  ASSUME IInv, NEW j \in Jobs, CloseEvent(j)
  PROVE  IInv'
<1> USE DEF IInv, Quiet, CloseEvent, jobVars, claimVars, childVars, shutVars, budget
<1>1. TypeOK'
  BY DEF TypeOK
<1>2. Unclaimed'
  BY DEF Unclaimed, Claims, TypeOK
<1>3. Claims'
  BY DEF Claims, Unclaimed, RowLock, Executed, Shutting, OwnersUp, TypeOK
<1>4. Executed'
  BY DEF Executed, Unclaimed, Claims, Shutting, TypeOK
<1>5. RunningIsAttended'
  BY DEF RunningIsAttended, Claims, Unclaimed, Executed, Shutting, TypeOK, Attended
<1>6. RowLock' /\ Shutting' /\ OwnersUp' /\ AheadIsOlder' /\ CandidatesInOrder' /\ VerdictIsTheExit' /\ NoOvertaking'
  BY DEF RowLock, Shutting, OwnersUp, AheadIsOlder, CandidatesInOrder, VerdictIsTheExit, NoOvertaking
<1> QED BY <1>1, <1>2, <1>3, <1>4, <1>5, <1>6

\* The output append: only the handler's phase moves on.
LEMMA HandlerAppendStep ==
  ASSUME IInv, NEW j \in Jobs, NEW e \in Events, HandlerAppend(j, e)
  PROVE  IInv'
<1> USE DEF IInv, Quiet, HandlerAppend, jobVars, claimVars, childVars, shutVars, budget
<1>1. TypeOK'
  BY DEF TypeOK
<1>2. Unclaimed'
  BY DEF Unclaimed, Claims, TypeOK
<1>3. Claims'
  BY DEF Claims, Unclaimed, RowLock, Executed, Shutting, OwnersUp, TypeOK
<1>4. Executed'
  BY DEF Executed, Unclaimed, Claims, Shutting, TypeOK
<1>5. RunningIsAttended'
  BY DEF RunningIsAttended, Claims, Unclaimed, Executed, Shutting, TypeOK, Attended
<1>6. RowLock' /\ Shutting' /\ OwnersUp' /\ AheadIsOlder' /\ CandidatesInOrder' /\ VerdictIsTheExit' /\ NoOvertaking'
  BY DEF RowLock, Shutting, OwnersUp, AheadIsOlder, CandidatesInOrder, VerdictIsTheExit, NoOvertaking
<1> QED BY <1>1, <1>2, <1>3, <1>4, <1>5, <1>6

\* The handler's read: a 'running' row goes on to be written.
LEMMA HandlerReadStep ==
  ASSUME IInv, NEW j \in Jobs, NEW e \in Events, HandlerRead(j, e)
  PROVE  IInv'
<1> USE DEF IInv, Quiet, HandlerRead, jobVars, claimVars, childVars, shutVars, budget
<1>1. TypeOK'
  BY DEF TypeOK
<1>2. Unclaimed'
  BY DEF Unclaimed, Claims, TypeOK
<1>3. Claims'
  BY DEF Claims, Unclaimed, RowLock, Executed, Shutting, OwnersUp, TypeOK
<1>4. Executed'
  BY DEF Executed, Unclaimed, Claims, Shutting, TypeOK
<1>5. RunningIsAttended'
  BY DEF RunningIsAttended, Claims, Unclaimed, Executed, Shutting, TypeOK, Attended
<1>6. RowLock' /\ Shutting' /\ OwnersUp' /\ AheadIsOlder' /\ CandidatesInOrder' /\ VerdictIsTheExit' /\ NoOvertaking'
  BY DEF RowLock, Shutting, OwnersUp, AheadIsOlder, CandidatesInOrder, VerdictIsTheExit, NoOvertaking
<1> QED BY <1>1, <1>2, <1>3, <1>4, <1>5, <1>6

\* The handler's update: the verdict written is the exit, and the row had one start.
LEMMA HandlerWriteStep ==
  ASSUME IInv, NEW j \in Jobs, NEW e \in Events, HandlerWrite(j, e)
  PROVE  IInv'
<1> USE DEF IInv, Quiet, HandlerWrite, Verdict, jobVars, claimVars, childVars, shutVars, budget
<1>1. TypeOK'
  BY DEF TypeOK
<1>2. Unclaimed'
  BY DEF Unclaimed, Claims, TypeOK
<1>3. Claims'
  BY DEF Claims, Unclaimed, RowLock, Executed, Shutting, OwnersUp, TypeOK
<1>4. Executed'
  BY DEF Executed, Unclaimed, Claims, Shutting, TypeOK
<1>5. AheadIsOlder'
  BY DEF AheadIsOlder, TypeOK
<1>6. CandidatesInOrder'
  BY DEF CandidatesInOrder, AheadIsOlder, Claims, TypeOK
<1>7. VerdictIsTheExit'
  BY DEF VerdictIsTheExit, Executed, Claims, TypeOK
<1>8. RunningIsAttended'
  BY DEF RunningIsAttended, Claims, Unclaimed, Executed, Shutting, TypeOK, Attended
<1>9. NoOvertaking'
  BY DEF NoOvertaking, AheadIsOlder, CandidatesInOrder, Claims, Executed, Unclaimed, TypeOK
<1>10. RowLock' /\ Shutting' /\ OwnersUp'
  BY DEF RowLock, Shutting, OwnersUp
<1> QED BY <1>1, <1>2, <1>3, <1>4, <1>5, <1>6, <1>7, <1>8, <1>9, <1>10

\* A failed read or update costs a fault, which RunningIsAttended allows for.
LEMMA HandlerErrorStep ==
  ASSUME IInv, NEW j \in Jobs, NEW e \in Events, HandlerError(j, e)
  PROVE  IInv'
<1> USE DEF IInv, Quiet, HandlerError, jobVars, claimVars, childVars, shutVars, budget
<1>1. TypeOK'
  BY DEF TypeOK
<1>2. Unclaimed'
  BY DEF Unclaimed, Claims, TypeOK
<1>3. Claims'
  BY DEF Claims, Unclaimed, RowLock, Executed, Shutting, OwnersUp, TypeOK
<1>4. Executed'
  BY DEF Executed, Unclaimed, Claims, Shutting, TypeOK
<1>5. RunningIsAttended'
  BY DEF RunningIsAttended, Claims, Unclaimed, Executed, Shutting, TypeOK, Attended
<1>6. RowLock' /\ Shutting' /\ OwnersUp' /\ AheadIsOlder' /\ CandidatesInOrder' /\ VerdictIsTheExit' /\ NoOvertaking'
  BY DEF RowLock, Shutting, OwnersUp, AheadIsOlder, CandidatesInOrder, VerdictIsTheExit, NoOvertaking
<1> QED BY <1>1, <1>2, <1>3, <1>4, <1>5, <1>6

\* The SELECT's snapshot holds every pending row, so also the elders of each.
LEMMA ClaimSelectStep ==
  ASSUME IInv, NEW r \in Runners, ClaimSelect(r)
  PROVE  IInv'
<1> USE DEF IInv, Quiet, ClaimSelect, Pending, jobVars, claimVars, childVars, shutVars, budget
<1>1. TypeOK'
  BY DEF TypeOK
<1>2. Claims'
  BY DEF Claims, Unclaimed, RowLock, Executed, Shutting, OwnersUp, TypeOK
<1>3. RowLock'
  BY DEF RowLock, TypeOK
<1>4. CandidatesInOrder'
  BY DEF CandidatesInOrder, AheadIsOlder, Claims, TypeOK
<1>5. Unclaimed' /\ Executed' /\ Shutting' /\ OwnersUp' /\ AheadIsOlder' /\ VerdictIsTheExit' /\ RunningIsAttended' /\ NoOvertaking'
  BY DEF Unclaimed, Executed, Shutting, OwnersUp, AheadIsOlder, VerdictIsTheExit, RunningIsAttended, NoOvertaking, Attended
<1> QED BY <1>1, <1>2, <1>3, <1>4, <1>5

\* FOR UPDATE: nobody else has the row, and its elders are no longer pending.
LEMMA ClaimLockStep ==
  ASSUME IInv, NEW r \in Runners, ClaimLock(r)
  PROVE  IInv'
<1> USE DEF IInv, Quiet, ClaimLock, Oldest, Locked, jobVars, claimVars, childVars, shutVars, budget
<1>1. TypeOK'
  BY DEF TypeOK
<1>2. Claims'
  BY DEF Claims, Unclaimed, RowLock, Executed, Shutting, OwnersUp, TypeOK
<1>3. RowLock'
  BY DEF RowLock, TypeOK
<1>4. CandidatesInOrder'
  BY DEF CandidatesInOrder, AheadIsOlder, Claims, TypeOK
<1>5. Unclaimed' /\ Executed' /\ Shutting' /\ OwnersUp' /\ AheadIsOlder' /\ VerdictIsTheExit' /\ RunningIsAttended' /\ NoOvertaking'
  BY DEF Unclaimed, Executed, Shutting, OwnersUp, AheadIsOlder, VerdictIsTheExit, RunningIsAttended, NoOvertaking, Attended
<1> QED BY <1>1, <1>2, <1>3, <1>4, <1>5

\* A candidate that is no longer pending leaves the snapshot; the others keep their elders.
LEMMA ClaimSkipStep ==
  ASSUME IInv, NEW r \in Runners, ClaimSkip(r)
  PROVE  IInv'
<1> USE DEF IInv, Quiet, ClaimSkip, Oldest, Locked, jobVars, claimVars, childVars, shutVars, budget
<1>1. TypeOK'
  BY DEF TypeOK
<1>2. Claims'
  BY DEF Claims, Unclaimed, RowLock, Executed, Shutting, OwnersUp, TypeOK
<1>3. RowLock'
  BY DEF RowLock, TypeOK
<1>4. CandidatesInOrder'
  BY DEF CandidatesInOrder, AheadIsOlder, Claims, TypeOK
<1>5. Unclaimed' /\ Executed' /\ Shutting' /\ OwnersUp' /\ AheadIsOlder' /\ VerdictIsTheExit' /\ RunningIsAttended' /\ NoOvertaking'
  BY DEF Unclaimed, Executed, Shutting, OwnersUp, AheadIsOlder, VerdictIsTheExit, RunningIsAttended, NoOvertaking, Attended
<1> QED BY <1>1, <1>2, <1>3, <1>4, <1>5

\* The commit of the claim: the row was pending, locked by this runner only, and unspawned.
LEMMA ClaimCommitStep ==
  ASSUME IInv, NEW r \in Runners, ClaimCommit(r)
  PROVE  IInv'
<1> USE DEF IInv, Quiet, ClaimCommit, jobVars, claimVars, childVars, shutVars, budget
<1>1. TypeOK'
  BY DEF TypeOK
<1>2. Unclaimed'
  BY DEF Unclaimed, Claims, TypeOK
<1>3. Claims'
  BY DEF Claims, Unclaimed, RowLock, Executed, Shutting, OwnersUp, TypeOK
<1>4. RowLock'
  BY DEF RowLock, TypeOK
<1>5. Executed'
  BY DEF Executed, Unclaimed, Claims, Shutting, TypeOK
<1>6. OwnersUp'
  BY DEF OwnersUp, Claims, TypeOK
<1>7. AheadIsOlder'
  BY DEF AheadIsOlder, TypeOK
<1>8. CandidatesInOrder'
  BY DEF CandidatesInOrder, AheadIsOlder, Claims, TypeOK
<1>9. VerdictIsTheExit'
  BY DEF VerdictIsTheExit, Executed, Claims, TypeOK
<1>10. RunningIsAttended'
  BY DEF RunningIsAttended, Claims, Unclaimed, Executed, Shutting, TypeOK, Attended
<1>11. NoOvertaking'
  BY DEF NoOvertaking, AheadIsOlder, CandidatesInOrder, Claims, Executed, Unclaimed, TypeOK
<1>12. Shutting'
  BY DEF Shutting
<1> QED BY <1>1, <1>2, <1>3, <1>4, <1>5, <1>6, <1>7, <1>8, <1>9, <1>10, <1>11, <1>12

\* A rolled back claim leaves the row as it was.
LEMMA ClaimErrorStep ==
  ASSUME IInv, NEW r \in Runners, ClaimError(r)
  PROVE  IInv'
<1> USE DEF IInv, Quiet, ClaimError, jobVars, claimVars, childVars, shutVars, budget
<1>1. TypeOK'
  BY DEF TypeOK
<1>2. Claims'
  BY DEF Claims, Unclaimed, RowLock, Executed, Shutting, OwnersUp, TypeOK
<1>3. RowLock'
  BY DEF RowLock, TypeOK
<1>4. CandidatesInOrder'
  BY DEF CandidatesInOrder, AheadIsOlder, Claims, TypeOK
<1>5. RunningIsAttended'
  BY DEF RunningIsAttended, Claims, Unclaimed, Executed, Shutting, TypeOK, Attended
<1>6. Unclaimed' /\ Executed' /\ Shutting' /\ OwnersUp' /\ AheadIsOlder' /\ VerdictIsTheExit' /\ NoOvertaking'
  BY DEF Unclaimed, Executed, Shutting, OwnersUp, AheadIsOlder, VerdictIsTheExit, NoOvertaking
<1> QED BY <1>1, <1>2, <1>3, <1>4, <1>5, <1>6

\* spawn(): the claimed row had no start yet, and now has its one.
LEMMA SpawnStep ==
  ASSUME IInv, NEW r \in Runners, Spawn(r)
  PROVE  IInv'
<1> USE DEF IInv, Quiet, Spawn, Idle, jobVars, claimVars, childVars, shutVars, budget
<1>1. TypeOK'
  BY DEF TypeOK, Claims
<1>2. Unclaimed'
  BY DEF Unclaimed, Claims, TypeOK
<1>3. Claims'
  BY DEF Claims, Unclaimed, RowLock, Executed, Shutting, OwnersUp, TypeOK
<1>4. RowLock'
  BY DEF RowLock, TypeOK
<1>5. Executed'
  BY DEF Executed, Unclaimed, Claims, Shutting, TypeOK
<1>6. Shutting'
  BY DEF Shutting, Executed, Claims, TypeOK
<1>7. CandidatesInOrder'
  BY DEF CandidatesInOrder, AheadIsOlder, Claims, TypeOK
<1>8. VerdictIsTheExit'
  BY DEF VerdictIsTheExit, Executed, Claims, TypeOK
<1>9. OwnersUp' /\ AheadIsOlder' /\ RunningIsAttended' /\ NoOvertaking'
  BY DEF OwnersUp, AheadIsOlder, RunningIsAttended, NoOvertaking, Attended
<1> QED BY <1>1, <1>2, <1>3, <1>4, <1>5, <1>6, <1>7, <1>8, <1>9

\* A spawn that fails still counts as the row's one start, with an 'error' handler.
LEMMA SpawnFailsStep ==
  ASSUME IInv, NEW r \in Runners, SpawnFails(r)
  PROVE  IInv'
<1> USE DEF IInv, Quiet, SpawnFails, Idle, jobVars, claimVars, childVars, shutVars, budget
<1>1. TypeOK'
  BY DEF TypeOK, Claims
<1>2. Unclaimed'
  BY DEF Unclaimed, Claims, TypeOK
<1>3. Claims'
  BY DEF Claims, Unclaimed, RowLock, Executed, Shutting, OwnersUp, TypeOK
<1>4. RowLock'
  BY DEF RowLock, TypeOK
<1>5. Executed'
  BY DEF Executed, Unclaimed, Claims, Shutting, TypeOK
<1>6. Shutting'
  BY DEF Shutting, Executed, Claims, TypeOK
<1>7. CandidatesInOrder'
  BY DEF CandidatesInOrder, AheadIsOlder, Claims, TypeOK
<1>8. VerdictIsTheExit'
  BY DEF VerdictIsTheExit, Executed, Claims, TypeOK
<1>9. RunningIsAttended'
  BY DEF RunningIsAttended, Claims, Unclaimed, Executed, Shutting, TypeOK, Attended
<1>10. OwnersUp' /\ AheadIsOlder' /\ NoOvertaking'
  BY DEF OwnersUp, AheadIsOlder, NoOvertaking
<1> QED BY <1>1, <1>2, <1>3, <1>4, <1>5, <1>6, <1>7, <1>8, <1>9, <1>10

\* A spawn that throws orphans the row, at the cost of a fault.
LEMMA SpawnThrowsStep ==
  ASSUME IInv, NEW r \in Runners, SpawnThrows(r)
  PROVE  IInv'
<1> USE DEF IInv, Quiet, SpawnThrows, Idle, jobVars, claimVars, childVars, shutVars, budget
<1>1. TypeOK'
  BY DEF TypeOK, Claims
<1>2. Unclaimed'
  BY DEF Unclaimed, Claims, TypeOK
<1>3. Claims'
  BY DEF Claims, Unclaimed, RowLock, Executed, Shutting, OwnersUp, TypeOK
<1>4. RowLock'
  BY DEF RowLock, TypeOK
<1>5. Executed'
  BY DEF Executed, Unclaimed, Claims, Shutting, TypeOK
<1>6. Shutting'
  BY DEF Shutting, Executed, Claims, TypeOK
<1>7. OwnersUp'
  BY DEF OwnersUp, Claims, TypeOK
<1>8. CandidatesInOrder'
  BY DEF CandidatesInOrder, AheadIsOlder, Claims, TypeOK
<1>9. RunningIsAttended'
  BY DEF RunningIsAttended, Claims, Unclaimed, Executed, Shutting, TypeOK, Attended
<1>10. AheadIsOlder' /\ VerdictIsTheExit' /\ NoOvertaking'
  BY DEF AheadIsOlder, VerdictIsTheExit, NoOvertaking
<1> QED BY <1>1, <1>2, <1>3, <1>4, <1>5, <1>6, <1>7, <1>8, <1>9, <1>10

\* A signal without children: the process exits, and its claim with it.
LEMMA SignalIdleStep ==
  ASSUME IInv, NEW r \in Runners, SignalIdle(r)
  PROVE  IInv'
<1> USE DEF IInv, Quiet, SignalIdle, Signalled, Gone, Own, jobVars, claimVars, childVars, shutVars, budget
<1>1. TypeOK'
  BY DEF TypeOK
<1>2. Unclaimed'
  BY DEF Unclaimed, Claims, TypeOK
<1>3. Claims'
  BY DEF Claims, Unclaimed, RowLock, Executed, Shutting, OwnersUp, TypeOK
<1>4. RowLock'
  BY DEF RowLock, TypeOK
<1>5. Executed'
  BY DEF Executed, Unclaimed, Claims, Shutting, TypeOK
<1>6. Shutting'
  BY DEF Shutting, Executed, Claims, TypeOK
<1>7. OwnersUp'
  BY DEF OwnersUp, Claims, TypeOK
<1>8. CandidatesInOrder'
  BY DEF CandidatesInOrder, AheadIsOlder, Claims, TypeOK
<1>9. RunningIsAttended'
  BY DEF RunningIsAttended, Claims, Unclaimed, Executed, Shutting, TypeOK, Attended
<1>10. AheadIsOlder' /\ VerdictIsTheExit' /\ NoOvertaking'
  BY DEF AheadIsOlder, VerdictIsTheExit, NoOvertaking
<1> QED BY <1>1, <1>2, <1>3, <1>4, <1>5, <1>6, <1>7, <1>8, <1>9, <1>10

\* A signal with children: each entry to cancel had been started.
LEMMA SignalBusyStep ==
  ASSUME IInv, NEW r \in Runners, SignalBusy(r)
  PROVE  IInv'
<1> USE DEF IInv, Quiet, SignalBusy, Signalled, Own, jobVars, claimVars, childVars, shutVars, budget
<1>1. TypeOK'
  BY DEF TypeOK
<1>2. Shutting'
  BY DEF Shutting, Executed, Claims, TypeOK
<1>3. RunningIsAttended'
  BY DEF RunningIsAttended, Claims, Unclaimed, Executed, Shutting, TypeOK, Attended
<1>4. Unclaimed' /\ Claims' /\ RowLock' /\ Executed' /\ OwnersUp' /\ AheadIsOlder' /\ CandidatesInOrder' /\ VerdictIsTheExit' /\ NoOvertaking'
  BY DEF Unclaimed, Claims, RowLock, Executed, OwnersUp, AheadIsOlder, CandidatesInOrder, VerdictIsTheExit, NoOvertaking
<1> QED BY <1>1, <1>2, <1>3, <1>4

\* The kill of one entry: the row stays, the process may be signalled.
LEMMA ShutKillStep ==
  ASSUME IInv, NEW r \in Runners, ShutKill(r)
  PROVE  IInv'
<1> USE DEF IInv, Quiet, ShutKill, jobVars, claimVars, childVars, shutVars, budget
<1>1. TypeOK'
  BY DEF TypeOK, Shutting
<1>2. Shutting'
  BY DEF Shutting, Executed, Claims, TypeOK
<1>3. Unclaimed' /\ Claims' /\ RowLock' /\ Executed' /\ OwnersUp' /\ AheadIsOlder' /\ CandidatesInOrder' /\ VerdictIsTheExit' /\ RunningIsAttended' /\ NoOvertaking'
  BY DEF Unclaimed, Claims, RowLock, Executed, OwnersUp, AheadIsOlder, CandidatesInOrder, VerdictIsTheExit, RunningIsAttended, NoOvertaking, Attended
<1> QED BY <1>1, <1>2, <1>3

\* The guarded update marks a started row cancelled, and no other.
LEMMA ShutMarkStep ==
  ASSUME IInv, NEW r \in Runners, ShutMark(r)
  PROVE  IInv'
<1> USE DEF IInv, Quiet, ShutMark, ShutNext, jobVars, claimVars, childVars, shutVars, budget
<1>1. TypeOK'
  BY DEF TypeOK
<1>2. Unclaimed'
  BY DEF Unclaimed, Claims, TypeOK
<1>3. Claims'
  BY DEF Claims, Unclaimed, RowLock, Executed, Shutting, OwnersUp, TypeOK
<1>4. Executed'
  BY DEF Executed, Unclaimed, Claims, Shutting, TypeOK
<1>5. Shutting'
  BY DEF Shutting, Executed, Claims, TypeOK
<1>6. AheadIsOlder'
  BY DEF AheadIsOlder, TypeOK
<1>7. CandidatesInOrder'
  BY DEF CandidatesInOrder, AheadIsOlder, Claims, TypeOK
<1>8. VerdictIsTheExit'
  BY DEF VerdictIsTheExit, Executed, Claims, TypeOK
<1>9. RunningIsAttended'
  BY DEF RunningIsAttended, Claims, Unclaimed, Executed, Shutting, TypeOK, Attended
<1>10. NoOvertaking'
  BY DEF NoOvertaking, AheadIsOlder, CandidatesInOrder, Claims, Executed, Unclaimed, TypeOK
<1>11. RowLock' /\ OwnersUp'
  BY DEF RowLock, OwnersUp
<1> QED BY <1>1, <1>2, <1>3, <1>4, <1>5, <1>6, <1>7, <1>8, <1>9, <1>10, <1>11

\* A failed update leaves the row, and the shutdown goes on.
LEMMA ShutMarkErrorStep ==
  ASSUME IInv, NEW r \in Runners, ShutMarkError(r)
  PROVE  IInv'
<1> USE DEF IInv, Quiet, ShutMarkError, ShutNext, jobVars, claimVars, childVars, shutVars, budget
<1>1. TypeOK'
  BY DEF TypeOK
<1>2. Shutting'
  BY DEF Shutting, Executed, Claims, TypeOK
<1>3. RunningIsAttended'
  BY DEF RunningIsAttended, Claims, Unclaimed, Executed, Shutting, TypeOK, Attended
<1>4. Unclaimed' /\ Claims' /\ RowLock' /\ Executed' /\ OwnersUp' /\ AheadIsOlder' /\ CandidatesInOrder' /\ VerdictIsTheExit' /\ NoOvertaking'
  BY DEF Unclaimed, Claims, RowLock, Executed, OwnersUp, AheadIsOlder, CandidatesInOrder, VerdictIsTheExit, NoOvertaking
<1> QED BY <1>1, <1>2, <1>3, <1>4

\* The two seconds' wait starts when no entry is left.
LEMMA ShutWaitStep ==
  ASSUME IInv, NEW r \in Runners, ShutWait(r)
  PROVE  IInv'
<1> USE DEF IInv, Quiet, ShutWait, jobVars, claimVars, childVars, shutVars, budget
<1>1. TypeOK'
  BY DEF TypeOK
<1>2. Shutting'
  BY DEF Shutting, Executed, Claims, TypeOK
<1>3. Unclaimed' /\ Claims' /\ RowLock' /\ Executed' /\ OwnersUp' /\ AheadIsOlder' /\ CandidatesInOrder' /\ VerdictIsTheExit' /\ RunningIsAttended' /\ NoOvertaking'
  BY DEF Unclaimed, Claims, RowLock, Executed, OwnersUp, AheadIsOlder, CandidatesInOrder, VerdictIsTheExit, RunningIsAttended, NoOvertaking, Attended
<1> QED BY <1>1, <1>2, <1>3

\* SIGKILL and exit: the runner's memory is gone, its rows keep their status.
LEMMA ShutExitStep ==
  ASSUME IInv, NEW r \in Runners, ShutExit(r)
  PROVE  IInv'
<1> USE DEF IInv, Quiet, ShutExit, Gone, Own, jobVars, claimVars, childVars, shutVars, budget
<1>1. TypeOK'
  BY DEF TypeOK
<1>2. Unclaimed'
  BY DEF Unclaimed, Claims, TypeOK
<1>3. Claims'
  BY DEF Claims, Unclaimed, RowLock, Executed, Shutting, OwnersUp, TypeOK
<1>4. RowLock'
  BY DEF RowLock, TypeOK
<1>5. Executed'
  BY DEF Executed, Unclaimed, Claims, Shutting, TypeOK
<1>6. Shutting'
  BY DEF Shutting, Executed, Claims, TypeOK
<1>7. OwnersUp'
  BY DEF OwnersUp, Claims, TypeOK
<1>8. CandidatesInOrder'
  BY DEF CandidatesInOrder, AheadIsOlder, Claims, TypeOK
<1>9. VerdictIsTheExit'
  BY DEF VerdictIsTheExit, Executed, Claims, TypeOK
<1>10. RunningIsAttended'
  BY DEF RunningIsAttended, Claims, Unclaimed, Executed, Shutting, TypeOK, Attended
<1>11. AheadIsOlder' /\ NoOvertaking'
  BY DEF AheadIsOlder, NoOvertaking
<1> QED BY <1>1, <1>2, <1>3, <1>4, <1>5, <1>6, <1>7, <1>8, <1>9, <1>10, <1>11

\* A crash: the runner's memory is gone, at the cost of a fault.
LEMMA CrashStep ==
  ASSUME IInv, NEW r \in Runners, Crash(r)
  PROVE  IInv'
<1> USE DEF IInv, Quiet, Crash, Gone, Own, jobVars, claimVars, childVars, shutVars, budget
<1>1. TypeOK'
  BY DEF TypeOK
<1>2. Unclaimed'
  BY DEF Unclaimed, Claims, TypeOK
<1>3. Claims'
  BY DEF Claims, Unclaimed, RowLock, Executed, Shutting, OwnersUp, TypeOK
<1>4. RowLock'
  BY DEF RowLock, TypeOK
<1>5. Executed'
  BY DEF Executed, Unclaimed, Claims, Shutting, TypeOK
<1>6. Shutting'
  BY DEF Shutting, Executed, Claims, TypeOK
<1>7. OwnersUp'
  BY DEF OwnersUp, Claims, TypeOK
<1>8. CandidatesInOrder'
  BY DEF CandidatesInOrder, AheadIsOlder, Claims, TypeOK
<1>9. RunningIsAttended'
  BY DEF RunningIsAttended, Claims, Unclaimed, Executed, Shutting, TypeOK, Attended
<1>10. AheadIsOlder' /\ VerdictIsTheExit' /\ NoOvertaking'
  BY DEF AheadIsOlder, VerdictIsTheExit, NoOvertaking
<1> QED BY <1>1, <1>2, <1>3, <1>4, <1>5, <1>6, <1>7, <1>8, <1>9, <1>10

\* A restarted runner knows no job and holds no lock.
LEMMA StartStep ==
  ASSUME IInv, NEW r \in Runners, Start(r)
  PROVE  IInv'
<1> USE DEF IInv, Quiet, Start, jobVars, claimVars, childVars, shutVars, budget
<1>1. TypeOK'
  BY DEF TypeOK
<1>2. Claims'
  BY DEF Claims, Unclaimed, RowLock, Executed, Shutting, OwnersUp, TypeOK
<1>3. Shutting'
  BY DEF Shutting, Executed, Claims, TypeOK
<1>4. OwnersUp'
  BY DEF OwnersUp, Claims, TypeOK
<1>5. RunningIsAttended'
  BY DEF RunningIsAttended, Claims, Unclaimed, Executed, Shutting, TypeOK, Attended
<1>6. Unclaimed' /\ RowLock' /\ Executed' /\ AheadIsOlder' /\ CandidatesInOrder' /\ VerdictIsTheExit' /\ NoOvertaking'
  BY DEF Unclaimed, RowLock, Executed, AheadIsOlder, CandidatesInOrder, VerdictIsTheExit, NoOvertaking
<1> QED BY <1>1, <1>2, <1>3, <1>4, <1>5, <1>6

\* Every step of Next, and every stutter, preserves the invariant.
LEMMA IInvNext == IInv /\ [Next]_vars => IInv'
<1> SUFFICES ASSUME IInv, [Next]_vars PROVE IInv'
  OBVIOUS
<1>1. CASE UNCHANGED vars
  BY <1>1 DEF vars, jobVars, claimVars, childVars, shutVars, budget, IInv, TypeOK, Unclaimed, Claims, RowLock, Executed, Shutting, OwnersUp, AheadIsOlder, CandidatesInOrder, VerdictIsTheExit, RunningIsAttended, NoOvertaking, Attended, Quiet
<1>2. CASE Next
  BY <1>2, InsertJobStep, CommitJobStep, ChildExitStep, CloseEventStep, HandlerAppendStep, HandlerReadStep, HandlerWriteStep, HandlerErrorStep, ClaimSelectStep, ClaimLockStep, ClaimSkipStep, ClaimCommitStep, ClaimErrorStep, SpawnStep, SpawnFailsStep, SpawnThrowsStep, SignalIdleStep, SignalBusyStep, ShutKillStep, ShutMarkStep, ShutMarkErrorStep, ShutWaitStep, ShutExitStep, CrashStep, StartStep DEF Next, Web, Claim, Run, Handle, Signal, Shutdown, Fault
<1> QED BY <1>1, <1>2

\* The Jobs table, the child processes and the memories of all runners keep the
\* inductive invariant through every interleaving, fault, signal and restart.
THEOREM InvariantHolds == Spec => []IInv
BY IInvInit, IInvNext, PTL DEF Spec

\* Type correctness of the table and of the runners' memories.
THEOREM TypeCorrect == Spec => []TypeOK
BY InvariantHolds, PTL DEF IInv

\* claimPendingJob's row lock: no command is ever spawned twice.
THEOREM NeverSpawnedTwice == Spec => []SpawnedAtMostOnce
<1>1. ASSUME IInv, NEW j \in Jobs PROVE starts[j] <= 1
  <2>1. starts[j] \in 0..1
    BY <1>1 DEF IInv, Executed
  <2> QED BY <2>1
<1>2. IInv => SpawnedAtMostOnce
  BY <1>1 DEF SpawnedAtMostOnce
<1> QED BY <1>2, InvariantHolds, PTL

\* The close and error handlers: a recorded verdict is the command's own exit.
THEOREM VerdictsAreTrue == Spec => []VerdictIsTheExit
BY InvariantHolds, PTL DEF IInv

\* Without a fault or a signal no interleaving leaves a 'running' row behind.
THEOREM NoRowIsLeftBehind == Spec => []RunningIsAttended
BY InvariantHolds, PTL DEF IInv

\* ORDER BY createdAt under concurrent claims: first come, first started.
THEOREM FirstComeFirstStarted == Spec => []NoOvertaking
BY InvariantHolds, PTL DEF IInv

-----------------------------------------------------------------------------
(* A verdict is final: the five actions that write the status column.       *)

\* No action writes another value over a verdict: the handlers' and the shutdown's
\* updates are the only ones that could.
LEMMA VerdictKept ==
  ASSUME IInv, [Next]_vars, NEW k \in Jobs, status[k] \in Verdicts
  PROVE  status'[k] = status[k]
<1> USE DEF IInv, TypeOK
<1>1. ASSUME NEW j \in Jobs, Web(j) PROVE status'[k] = status[k]
  BY <1>1 DEF Web, InsertJob, CommitJob
<1>2. ASSUME NEW j \in Jobs, NEW e \in Events, HandlerWrite(j, e)
      PROVE  status'[k] = status[k]
  BY <1>2 DEF HandlerWrite, Verdict, VerdictIsTheExit, Executed
<1>3. ASSUME NEW j \in Jobs, ChildExit(j) \/ Handle(j) \/ \E e \in Events : HandlerError(j, e)
      PROVE  status'[k] = status[k]
  BY <1>2, <1>3 DEF ChildExit, Handle, CloseEvent, HandlerAppend, HandlerRead, HandlerError,
     jobVars
<1>4. ASSUME NEW r \in Runners, Claim(r) PROVE status'[k] = status[k]
  BY <1>4 DEF Claim, ClaimSelect, ClaimLock, ClaimSkip, ClaimCommit, Claims, jobVars
<1>5. ASSUME NEW r \in Runners, Signal(r) \/ Shutdown(r) PROVE status'[k] = status[k]
  BY <1>5 DEF Signal, SignalIdle, SignalBusy, Signalled, Shutdown, ShutKill, ShutMark, ShutWait,
     ShutExit, Shutting, jobVars
<1>6. ASSUME NEW r \in Runners, Run(r) \/ Fault(r) \/ Start(r) PROVE status'[k] = status[k]
  BY <1>6 DEF Run, Spawn, SpawnFails, Fault, ClaimError, SpawnThrows, ShutMarkError, Crash, Start,
     jobVars
<1> QED BY <1>1, <1>3, <1>4, <1>5, <1>6 DEF Next, vars, jobVars

\* 'success' and 'failure' are never replaced, whatever a shutdown or a second
\* handler does at the same time.
THEOREM VerdictsNeverChange == Spec => VerdictsAreFinal
<1>1. IInv /\ [Next]_vars => \A j \in Jobs : status[j] \in Verdicts => status'[j] = status[j]
  BY VerdictKept
<1> QED BY <1>1, InvariantHolds, PTL DEF Spec, VerdictsAreFinal

-----------------------------------------------------------------------------
(* Refinement: each action is a step of the lifecycle or a stutter.          *)

\* An empty table is the lifecycle's initial state.
LEMMA RefinesInit == Init => Lifecycle!Init
BY DEF Init, Lifecycle!Init, VisibleStatus

\* Each action of the runners is a step of the lifecycle or leaves it alone.
LEMMA RefinesNext ==
  ASSUME IInv, [Next]_vars
  PROVE  [Lifecycle!Next]_(Lifecycle!vars)
<1> DEFINE Step == [Lifecycle!Next]_(Lifecycle!vars)
           Same == UNCHANGED <<VisibleStatus, starts>>
<1> USE DEF IInv, TypeOK
<1>1. ASSUME NEW j \in Jobs, InsertJob(j) PROVE Step
  <2>1. Same
    BY <1>1 DEF InsertJob, VisibleStatus
  <2> QED BY <2>1 DEF Lifecycle!vars
<1>2. ASSUME NEW j \in Jobs, CommitJob(j) PROVE Step
  <2>1. Lifecycle!Submit(j)
    BY <1>2 DEF CommitJob, Lifecycle!Submit, Lifecycle!Move, VisibleStatus
  <2> QED BY <2>1 DEF Lifecycle!Next
<1>3. ASSUME NEW j \in Jobs, NEW e \in Events, HandlerWrite(j, e) PROVE Step
  <2>1. starts[j] = 1 /\ status[j] \notin {"absent", "staged", "pending"}
    BY <1>3 DEF HandlerWrite, Executed, Unclaimed
  <2>2. CASE status[j] \in {"running", "cancelled"}
    <3>1. Lifecycle!Finish(j)
      BY <1>3, <2>1, <2>2 DEF HandlerWrite, Verdict, Lifecycle!Finish, Lifecycle!Move,
         Lifecycle!Verdicts, VisibleStatus
    <3> QED BY <3>1 DEF Lifecycle!Next
  <2>3. CASE status[j] \in Verdicts
    <3>1. status[j] = Verdict(j)
      BY <1>3, <2>3 DEF HandlerWrite, Verdict, VerdictIsTheExit, Executed
    <3>2. UNCHANGED <<status, starts>>
      BY <1>3, <3>1 DEF HandlerWrite
    <3>3. Same
      BY <3>2 DEF VisibleStatus
    <3> QED BY <3>3 DEF Lifecycle!vars
  <2> QED BY <2>1, <2>2, <2>3
<1>4. ASSUME NEW r \in Runners, ClaimCommit(r) PROVE Step
  <2>1. got[r] \in Jobs /\ status[got[r]] = "pending"
    BY <1>4 DEF ClaimCommit, Claims
  <2>2. UNCHANGED starts /\ status' = [status EXCEPT ![got[r]] = "running"]
    BY <1>4 DEF ClaimCommit
  <2>3. Lifecycle!Start(got[r])
    BY <2>1, <2>2 DEF Lifecycle!Start, Lifecycle!Move, VisibleStatus
  <2> QED BY <2>1, <2>3 DEF Lifecycle!Next
<1>5. ASSUME NEW r \in Runners, Run(r) \/ SpawnThrows(r) PROVE Step
  <2>1. got[r] \in Jobs /\ Lifecycle!Execute(got[r])
    BY <1>5 DEF Run, Spawn, SpawnFails, SpawnThrows, Claims, Lifecycle!Execute, VisibleStatus,
       jobVars
  <2> QED BY <2>1 DEF Lifecycle!Next
<1>6. ASSUME NEW r \in Runners, ShutMark(r) PROVE Step
  <2>1. cur[r] \in Jobs /\ starts[cur[r]] = 1
    BY <1>6 DEF ShutMark, Shutting
  <2>2. CASE status[cur[r]] = "running"
    <3>1. Lifecycle!Cancel(cur[r])
      BY <1>6, <2>1, <2>2 DEF ShutMark, Lifecycle!Cancel, Lifecycle!Move, VisibleStatus
    <3> QED BY <2>1, <3>1 DEF Lifecycle!Next
  <2>3. CASE status[cur[r]] # "running"
    <3>1. Same
      BY <1>6, <2>1, <2>3 DEF ShutMark, VisibleStatus
    <3> QED BY <3>1 DEF Lifecycle!vars
  <2> QED BY <2>2, <2>3
<1>7. ASSUME UNCHANGED <<status, starts>> PROVE Step
  <2>1. Same
    BY <1>7 DEF VisibleStatus
  <2> QED BY <2>1 DEF Lifecycle!vars
<1>8. ASSUME NEW j \in Jobs, \/ ChildExit(j) \/ CloseEvent(j)
                             \/ \E e \in Events : \/ HandlerAppend(j, e) \/ HandlerRead(j, e)
                                                  \/ HandlerError(j, e)
      PROVE  Step
  BY <1>7, <1>8 DEF ChildExit, CloseEvent, HandlerAppend, HandlerRead, HandlerError, jobVars
<1>9. ASSUME NEW r \in Runners, \/ ClaimSelect(r) \/ ClaimLock(r) \/ ClaimSkip(r)
                                \/ ClaimError(r) \/ Signal(r) \/ ShutKill(r) \/ ShutWait(r)
                                \/ ShutExit(r) \/ ShutMarkError(r) \/ Crash(r) \/ Start(r)
      PROVE  Step
  BY <1>7, <1>9 DEF ClaimSelect, ClaimLock, ClaimSkip, ClaimError, Signal, SignalIdle, SignalBusy,
     Signalled, ShutKill, ShutWait, ShutExit, ShutMarkError, Crash, Start, jobVars
<1>10. CASE UNCHANGED vars
  BY <1>7, <1>10 DEF vars, jobVars
<1> QED
  BY <1>1, <1>2, <1>3, <1>4, <1>5, <1>6, <1>8, <1>9, <1>10
     DEF Next, Web, Claim, Handle, Shutdown, Fault

\* The runner implements the lifecycle that the readers of the table rely on.
THEOREM RunnersImplementLifecycle == Spec => RefinesLifecycle
<1>1. IInv /\ [Next]_vars => [Lifecycle!Next]_(Lifecycle!vars)
  BY RefinesNext
<1> QED BY <1>1, RefinesInit, InvariantHolds, PTL DEF Spec, RefinesLifecycle, Lifecycle!Spec
=============================================================================
