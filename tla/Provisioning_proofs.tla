------------------------ MODULE Provisioning_proofs ------------------------
(***************************************************************************)
(* For any number of containers, ids and requests, and on both kinds of    *)
(* node: DELETE spares the guests of other names; with every call          *)
(* answered and nothing racing, a user who only creates a container sees   *)
(* in the end what became of it; and the row of a container that keeps     *)
(* its guest (on a Proxmox node always, on a Docker node until it is       *)
(* reconfigured) describes that guest. Where all keep theirs, as long      *)
(* as calls succeed and nothing races, no guest and no record of a         *)
(* container is left behind. What a reconfiguration has applied on a       *)
(* Proxmox node stays applied, whatever the creation and the PUTs do       *)
(* next to it and whichever calls fail; on a Docker node no                *)
(* reconfiguration succeeds.                                               *)
(***************************************************************************)
EXTENDS Provisioning, TLAPS

USE ConstantsAssumption, NoneIsNoGuest

(* The invariant: where requests and scripts are *)

\* A DELETE under way.
Deleting(d) == del[d].pc \notin {"idle", "done"}

\* Requests are about rows that were posted, and ask the node only about ids; every
\* script is at a step of its own kind, on a posted row.
Placed ==
  /\ \A c \in Rows : row[c] # "no" => name[c] \in Names
  /\ \A d \in Deletes :
       /\ IF del[d].pc = "idle" THEN del[d].of = None
          ELSE del[d].of \in Rows /\ row[del[d].of] # "no"
       /\ del[d].pc \in {"check", "destroy"} => del[d].cid \in Ids
  /\ \A u \in Updates : IF put[u].pc = "idle" THEN put[u].of = None ELSE put[u].of \in Rows
  /\ \A j \in Jobs : Active(j) => /\ row[j[1]] # "no"
                                  /\ pc[j] \in (IF j = Creation(j[1]) THEN CreateSteps ELSE RestartSteps)

\* A script that runs is recorded as running; a job that is not yet queued has no script.
Recorded == \A j \in Jobs : Active(j) => st[j] = "running"

Shaped == TypeOK /\ Placed /\ Recorded

-----------------------------------------------------------------------------

LEMMA Initially == Init => Shaped
<1> SUFFICES ASSUME Init PROVE Shaped
  OBVIOUS
<1>1. TypeOK BY DEF Init, TypeOK, rowVars
<1>2. Placed BY DEF Init, Placed, Active, Steps, CreateSteps, RestartSteps
<1>3. Recorded BY DEF Init, Recorded, Active, Steps, CreateSteps, RestartSteps
<1> QED BY <1>1, <1>2, <1>3 DEF Shaped

\* A script that moves on, or ends.
LEMMA Moves ==
  ASSUME TypeOK, NEW j \in Jobs
  PROVE  /\ \A step \in Steps : Go(j, step) =>
              /\ pc' \in [Jobs -> {"idle", "done"} \cup Steps] /\ pc'[j] = step
              /\ \A i \in Jobs : i # j => pc'[i] = pc[i]
         /\ \A verdict \in {"success", "failure", "cancelled", "running"} : End(j, verdict) =>
              /\ pc' \in [Jobs -> {"idle", "done"} \cup Steps] /\ pc'[j] = "done"
              /\ \A i \in Jobs : i # j => pc'[i] = pc[i]
              /\ st' \in [Jobs -> {"absent", "pending", "running", "success", "failure", "cancelled"}]
<1>1. pc \in [Jobs -> {"idle", "done"} \cup Steps] BY DEF TypeOK
<1>2. st \in [Jobs -> {"absent", "pending", "running", "success", "failure", "cancelled"}]
  BY DEF TypeOK
<1>3. ASSUME NEW step \in Steps, Go(j, step)
      PROVE  /\ pc' \in [Jobs -> {"idle", "done"} \cup Steps] /\ pc'[j] = step
             /\ \A i \in Jobs : i # j => pc'[i] = pc[i]
  BY <1>1, <1>3 DEF Go
<1>4. ASSUME NEW verdict \in {"success", "failure", "cancelled", "running"}, End(j, verdict)
      PROVE  /\ pc' \in [Jobs -> {"idle", "done"} \cup Steps] /\ pc'[j] = "done"
             /\ \A i \in Jobs : i # j => pc'[i] = pc[i]
             /\ st' \in [Jobs -> {"absent", "pending", "running", "success", "failure", "cancelled"}]
  BY <1>1, <1>2, <1>4 DEF End
<1> QED BY <1>3, <1>4

\* A guest that is made anew under its own id, or another.
LEMMA SetEnvTyped ==
  ASSUME TypeOK, NEW v \in Ids, On(v), NEW w \in Ids, NEW version \in Nat, SetEnv(v, w, version)
  PROVE  guest' \in [Ids -> Guests \cup {None}] /\ issued' \in SUBSET Ids
<1>1. guest[v] \in Guests BY DEF TypeOK, On
<1>2. \A b \in BOOLEAN : [guest[v] EXCEPT !.env = version, !.on = b] \in Guests
  BY <1>1 DEF Guests
<1>3. [guest[v] EXCEPT !.env = version, !.on = IF docker THEN FALSE ELSE @] \in Guests
  BY <1>1, <1>2 DEF Guests
<1> QED BY <1>3 DEF TypeOK, SetEnv

\* Made anew, a guest keeps its name and its row; on a Docker node it has another id then.
LEMMA SetEnvSteps ==
  ASSUME TypeOK, NEW v \in Ids, On(v), NEW w \in Ids, NEW version \in Nat, SetEnv(v, w, version)
  PROVE  /\ guest'[w] # None /\ guest'[w].name = guest[v].name /\ guest'[w].of = guest[v].of
         /\ guest'[w].on = IF docker THEN FALSE ELSE guest[v].on
         /\ \A u \in Ids : u # v /\ u # w => guest'[u] = guest[u]
         /\ w # v => guest'[v] = None
         /\ IF docker THEN w \notin issued ELSE w = v
         /\ issued' = issued \cup {w}
<1> DEFINE new == [guest[v] EXCEPT !.env = version, !.on = IF docker THEN FALSE ELSE @]
<1>1. guest \in [Ids -> Guests \cup {None}] /\ guest[v] \in Guests BY DEF TypeOK, On
<1>2. docker \in BOOLEAN BY DEF TypeOK
<1>3. /\ new \in Guests /\ new.name = guest[v].name /\ new.of = guest[v].of
      /\ new.on = IF docker THEN FALSE ELSE guest[v].on
  BY <1>1, <1>2 DEF Guests
<1>4. /\ IF docker THEN w \notin issued ELSE w = v
      /\ guest' = [guest EXCEPT ![v] = IF docker THEN None ELSE @, ![w] = new]
      /\ issued' = issued \cup {w}
  BY DEF SetEnv, Fresh, Lowest
<1> HIDE DEF new
<1>5. guest'[w] = new BY <1>1, <1>4
<1>6. guest'[w] # None BY <1>3, <1>5
<1>7. \A u \in Ids : u # v /\ u # w => guest'[u] = guest[u] BY <1>1, <1>4
<1>8. w # v => guest'[v] = None BY <1>1, <1>4
<1> QED BY <1>3, <1>4, <1>5, <1>6, <1>7, <1>8

\* The steps of Next, by who takes them.
ServerStep ==
  \/ \E c \in Rows : Post(c)
  \/ \E u \in Updates : PutLoad(u) \/ PutCommit(u)
  \/ \E d \in Deletes : Delete(d) \/ DeleteDies(d)
CreationStep(c) == Create(c)
JobStep(j) == Script(j) \/ ScriptFails(j) \/ RecreateFails(j) \/ ScriptKilled(j)

LEMMA JobsOf == \A c \in Rows : Creation(c) \in Jobs /\ Creation(c)[1] = c
BY DEF Creation, Jobs

DeleteRecords == [pc: {"idle", "dns", "check", "destroy", "row", "done"},
                  of: Rows \cup {None}, cid: Ids \cup {None}]

LEMMA DeleteMoves ==
  ASSUME TypeOK, NEW d \in Deletes, NEW step \in {"check", "destroy", "row", "done"}, DeleteTo(d, step)
  PROVE  /\ del' \in [Deletes -> DeleteRecords]
         /\ del'[d].pc = step /\ del'[d].of = del[d].of /\ del'[d].cid = del[d].cid
         /\ \A e \in Deletes : e # d => del'[e] = del[e]
<1>1. del \in [Deletes -> DeleteRecords] BY DEF TypeOK, DeleteRecords
<1>2. [del[d] EXCEPT !.pc = step] \in DeleteRecords BY <1>1 DEF DeleteRecords
<1>3. del' = [del EXCEPT ![d] = [del[d] EXCEPT !.pc = step]] BY <1>1 DEF DeleteTo
<1> QED BY <1>1, <1>2, <1>3 DEF DeleteRecords

\* A change to PutCommit's job.
LEMMA QueuedTyped ==
  ASSUME TypeOK, NEW j \in Jobs, NEW version \in Nat,
         st' = [st EXCEPT ![j] = "pending"], want' = [want EXCEPT ![j] = version]
  PROVE  /\ st' \in [Jobs -> {"absent", "pending", "running", "success", "failure", "cancelled"}]
         /\ want' \in [Jobs -> Nat]
BY DEF TypeOK

LEMMA RemoveTyped ==
  ASSUME TypeOK, NEW v \in Ids, NEW others, Remove(v, others)
  PROVE  guest' \in [Ids -> Guests \cup {None}] /\ causes' \in SUBSET Races
<1>1. guest' \in [Ids -> Guests \cup {None}] BY DEF TypeOK, Remove
<1>2. \A race \in causes' : race \in causes \/ race = "raced" BY DEF Remove
<1> QED BY <1>1, <1>2 DEF TypeOK, Races

LEMMA TypeServer == ASSUME Shaped, ServerStep PROVE TypeOK'
<1> USE JobsOf DEF Shaped, TypeOK, rowVars, nodeVars, jobVars, reqVars, budget
<1>1. ASSUME NEW c \in Rows, Post(c) PROVE TypeOK'
  BY <1>1 DEF Post
<1>2. ASSUME NEW u \in Updates, PutLoad(u) PROVE TypeOK'
  BY <1>2 DEF PutLoad
<1>3. ASSUME NEW u \in Updates, PutCommit(u) PROVE TypeOK'
  <2>1. put[u].of \in Rows BY <1>3 DEF PutCommit, Placed
  <2>2. put' \in [Updates -> [pc: {"idle", "commit", "done"},
                              of: Rows \cup {None}, cid: Ids \cup {None}]]
    BY <1>3 DEF PutCommit
  <2>3. causes' \in SUBSET Races BY <1>3 DEF PutCommit, Races
  <2>4. env' \in [Rows -> Nat] /\ newest' \in [Rows -> Nat] BY <1>3, <2>1 DEF PutCommit
  <2>5. \A k \in 1..MaxRestarts : <<put[u].of, k>> \in Jobs BY <2>1 DEF Jobs
  <2>8. env'[put[u].of] \in Nat BY <2>1, <2>4
  <2>7. \/ UNCHANGED <<st, want>>
        \/ \E k \in 1..MaxRestarts, version \in Nat :
             /\ st' = [st EXCEPT ![<<put[u].of, k>>] = "pending"]
             /\ want' = [want EXCEPT ![<<put[u].of, k>>] = version]
    BY <1>3, <2>8 DEF PutCommit
  <2>6. /\ st' \in [Jobs -> {"absent", "pending", "running", "success", "failure", "cancelled"}]
        /\ want' \in [Jobs -> Nat]
    BY <2>5, <2>7, QueuedTyped
  <2> QED BY <1>3, <2>2, <2>3, <2>4, <2>6 DEF PutCommit
<1>4. ASSUME NEW d \in Deletes, DeleteLoad(d) PROVE TypeOK'
  <2>1. causes' \in SUBSET Races BY <1>4 DEF DeleteLoad, Races
  <2>2. del' \in [Deletes -> [pc: {"idle", "dns", "check", "destroy", "row", "done"},
                              of: Rows \cup {None}, cid: Ids \cup {None}]]
    BY <1>4 DEF DeleteLoad
  <2> QED BY <1>4, <2>1, <2>2 DEF DeleteLoad
<1>5. ASSUME NEW d \in Deletes, NEW step \in {"check", "destroy", "row", "done"}, DeleteTo(d, step)
      PROVE  del' \in [Deletes -> [pc: {"idle", "dns", "check", "destroy", "row", "done"},
                                   of: Rows \cup {None}, cid: Ids \cup {None}]]
  BY <1>5, DeleteMoves DEF DeleteRecords
<1>6. ASSUME Fault PROVE faults' \in 0..MaxFaults BY <1>6 DEF Fault
<1>7. ASSUME NEW d \in Deletes, DeleteDns(d) PROVE TypeOK'
  <2>1. dns' \in [Rows -> BOOLEAN] BY <1>7 DEF DeleteDns
  <2> QED BY <1>5, <1>6, <1>7, <2>1 DEF DeleteDns
<1>8. ASSUME NEW d \in Deletes, DeleteCheck(d) PROVE TypeOK'
  BY <1>5, <1>6, <1>8 DEF DeleteCheck
<1>9. ASSUME NEW d \in Deletes, DeleteGuest(d) PROVE TypeOK'
  <2>1. guest' \in [Ids -> Guests \cup {None}] /\ causes' \in SUBSET Races
    BY <1>9, RemoveTyped DEF DeleteGuest, Placed
  <2> QED BY <1>5, <1>6, <1>9, <2>1 DEF DeleteGuest
<1>10. ASSUME NEW d \in Deletes, DeleteRow(d) PROVE TypeOK'
  BY <1>5, <1>10 DEF DeleteRow
<1>11. ASSUME NEW d \in Deletes, DeleteDies(d) PROVE TypeOK'
  BY <1>5, <1>6, <1>11 DEF DeleteDies
<1> QED BY <1>1, <1>2, <1>3, <1>4, <1>7, <1>8, <1>9, <1>10, <1>11 DEF ServerStep, Delete

LEMMA TypeCreation == ASSUME Shaped, NEW c \in Rows, CreationStep(c) PROVE TypeOK'
<1> DEFINE j == Creation(c)
<1>1. j \in Jobs /\ j[1] = c BY JobsOf
<1> HIDE DEF j
<1> USE DEF Shaped, TypeOK, rowVars, nodeVars, jobVars, reqVars, budget
<1>2. ASSUME NEW step \in Steps, Go(j, step)
      PROVE  /\ pc' \in [Jobs -> {"idle", "done"} \cup Steps]
             /\ st' \in [Jobs -> {"absent", "pending", "running", "success", "failure", "cancelled"}]
  BY <1>1, <1>2, Moves DEF Go
<1>3. ASSUME NEW verdict \in {"success", "failure"}, End(j, verdict)
      PROVE  /\ pc' \in [Jobs -> {"idle", "done"} \cup Steps]
             /\ st' \in [Jobs -> {"absent", "pending", "running", "success", "failure", "cancelled"}]
  BY <1>1, <1>3, Moves
<1>4. ASSUME NEW v \in Ids, mem' = [mem EXCEPT ![j].vm = v]
      PROVE  mem' \in [Jobs -> [env: Nat, vm: Ids \cup {None}]]
  BY <1>1, <1>4
<1>5. ASSUME NextId(c) PROVE TypeOK'
  BY <1>2, <1>4, <1>5 DEF NextId, Steps, CreateSteps, j
<1>6. ASSUME CreateGuest(c) PROVE TypeOK'
  <2>1. \/ /\ \E v \in Ids :
                /\ guest' = [guest EXCEPT ![v] = [name |-> name[c], of |-> c, env |-> None, on |-> FALSE]]
                /\ issued' = issued \cup {v}
                /\ mem' = [mem EXCEPT ![j].vm = v]
           /\ Go(j, "persist")
        \/ Throw(j) /\ UNCHANGED <<nodeVars, mem>>
    BY <1>6 DEF CreateGuest, j
  <2>2. UNCHANGED <<rowVars, dns, want, reqVars, budget, causes>> BY <1>6 DEF CreateGuest
  <2>3. CASE Throw(j) /\ UNCHANGED <<nodeVars, mem>> BY <1>3, <2>2, <2>3 DEF Throw
  <2>4. ASSUME NEW v \in Ids,
               guest' = [guest EXCEPT ![v] = [name |-> name[c], of |-> c, env |-> None, on |-> FALSE]],
               issued' = issued \cup {v}, mem' = [mem EXCEPT ![j].vm = v], Go(j, "persist")
        PROVE  TypeOK'
    <3>1. name[c] \in Names
      <4>1. Active(j) BY <1>6 DEF CreateGuest, Active, Steps, CreateSteps, j
      <4> QED BY <1>1, <4>1 DEF Placed
    <3>2. [name |-> name[c], of |-> c, env |-> None, on |-> FALSE] \in Guests
      BY <3>1 DEF Guests
    <3>3. guest' \in [Ids -> Guests \cup {None}] BY <2>4, <3>2
    <3> QED BY <1>2, <1>4, <2>2, <2>4, <3>3 DEF Steps, CreateSteps
  <2> QED BY <2>1, <2>3, <2>4
<1>7. ASSUME Persist(c) PROVE TypeOK'
  <2>1. env' \in [Rows -> Nat]
    <3>1. mem[j].env \in Nat BY <1>1
    <3> QED BY <1>7, <3>1 DEF Persist, j
  <2>2. Go(j, "apply") \/ Throw(j) BY <1>7 DEF Persist, j
  <2> QED BY <1>2, <1>3, <1>7, <2>1, <2>2 DEF Persist, Throw, Steps, CreateSteps
<1>8. ASSUME Apply(c) PROVE TypeOK'
  <2>1. CASE Throw(j) /\ UNCHANGED <<nodeVars, mem>> BY <1>3, <1>8, <2>1 DEF Apply, Throw
  <2>2. ASSUME On(mem[j].vm), NEW w \in Ids, SetEnv(mem[j].vm, w, mem[j].env),
               mem' = [mem EXCEPT ![j].vm = w], Go(j, "store")
        PROVE  TypeOK'
    <3>1. mem[j].vm \in Ids /\ mem[j].env \in Nat BY <1>1, <2>2 DEF On
    <3>2. guest' \in [Ids -> Guests \cup {None}] /\ issued' \in SUBSET Ids
      BY <2>2, <3>1, SetEnvTyped
    <3> QED BY <1>2, <1>4, <1>8, <2>2, <3>2 DEF Apply, Steps, CreateSteps
  <2> QED BY <1>8, <2>1, <2>2 DEF Apply, j
<1>9. ASSUME Store(c) PROVE TypeOK'
  <2>1. cid' \in [Rows -> Ids \cup {None}]
    <3>1. mem[j].vm \in Ids \cup {None} BY <1>1
    <3> QED BY <1>9, <3>1 DEF Store, j
  <2>2. Go(j, "start") \/ Throw(j) BY <1>9 DEF Store, j
  <2>3. causes' \in SUBSET Races BY <1>9 DEF Store, Races
  <2> QED BY <1>2, <1>3, <1>9, <2>1, <2>2, <2>3 DEF Store, Throw, Steps, CreateSteps
<1>10. ASSUME FindServices(c) PROVE TypeOK'
  <2>1. Go(j, "publish") \/ End(j, "success") BY <1>10 DEF FindServices, j
  <2> QED BY <1>2, <1>3, <1>10, <2>1 DEF FindServices, Steps, CreateSteps
<1>11. ASSUME Publish(c) PROVE TypeOK'
  <2>1. dns' \in [Rows -> BOOLEAN] BY <1>11 DEF Publish
  <2>2. faults' \in 0..MaxFaults BY <1>11 DEF Publish, Fault
  <2>3. End(j, "success") BY <1>11 DEF Publish, j
  <2> QED BY <1>3, <1>11, <2>1, <2>2, <2>3 DEF Publish
<1> QED BY <1>5, <1>6, <1>7, <1>8, <1>9, <1>10, <1>11 DEF CreationStep, Create

LEMMA TypeJob == ASSUME Shaped, NEW j \in Jobs, JobStep(j) PROVE TypeOK'
<1> USE DEF Shaped, TypeOK, rowVars, nodeVars, jobVars, reqVars, budget
<1>1. j[1] \in Rows /\ mem[j] \in [env: Nat, vm: Ids \cup {None}] BY DEF Jobs
<1>2. ASSUME NEW step \in Steps, Go(j, step)
      PROVE  /\ pc' \in [Jobs -> {"idle", "done"} \cup Steps]
             /\ st' \in [Jobs -> {"absent", "pending", "running", "success", "failure", "cancelled"}]
  BY <1>2, Moves DEF Go
<1>3. ASSUME NEW verdict \in {"success", "failure", "cancelled", "running"}, End(j, verdict)
      PROVE  /\ pc' \in [Jobs -> {"idle", "done"} \cup Steps]
             /\ st' \in [Jobs -> {"absent", "pending", "running", "success", "failure", "cancelled"}]
  BY <1>3, Moves
<1>4. ASSUME Fault PROVE faults' \in 0..MaxFaults BY <1>4 DEF Fault
<1>5. ASSUME Begin(j) PROVE TypeOK'
  <2>1. CASE Throw(j) /\ UNCHANGED mem BY <1>3, <1>5, <2>1 DEF Begin, Throw
  <2>2. CASE /\ mem' = [mem EXCEPT ![j] = [env |-> env[j[1]], vm |-> cid[j[1]]]]
             /\ pc' = [pc EXCEPT ![j] = IF j # Creation(j[1]) THEN "reapply"
                                        ELSE IF docker THEN "create" ELSE "id"]
             /\ st' = [st EXCEPT ![j] = "running"]
    <3>1. mem' \in [Jobs -> [env: Nat, vm: Ids \cup {None}]] BY <1>1, <2>2
    <3>2. pc' \in [Jobs -> {"idle", "done"} \cup Steps]
      BY <2>2 DEF Steps, CreateSteps, RestartSteps
    <3>3. st' \in [Jobs -> {"absent", "pending", "running", "success", "failure", "cancelled"}]
      BY <2>2
    <3> QED BY <1>5, <3>1, <3>2, <3>3 DEF Begin
  <2> QED BY <1>5, <2>1, <2>2 DEF Begin
<1>6. ASSUME NEW v \in Ids, On(v), NEW b \in BOOLEAN, guest' = [guest EXCEPT ![v].on = b]
      PROVE  guest' \in [Ids -> Guests \cup {None}]
  <2>1. guest[v] \in Guests BY <1>6 DEF On
  <2>2. [guest[v] EXCEPT !.on = b] \in Guests BY <2>1 DEF Guests
  <2> QED BY <1>6, <2>2
<1>7. ASSUME StartGuest(j) PROVE TypeOK'
  <2>1. CASE Throw(j) /\ UNCHANGED guest BY <1>3, <1>7, <2>1 DEF StartGuest, Throw
  <2>2. CASE Stopped(mem[j].vm) /\ guest' = [guest EXCEPT ![mem[j].vm].on = TRUE] /\ Go(j, "record")
    <3>1. guest' \in [Ids -> Guests \cup {None}] BY <1>1, <1>6, <2>2 DEF Stopped, On
    <3> QED BY <1>2, <1>7, <2>2, <3>1 DEF StartGuest, Steps, CreateSteps
  <2> QED BY <1>7, <2>1, <2>2 DEF StartGuest
<1>8. ASSUME Record(j) PROVE TypeOK'
  <2>1. CASE Throw(j) /\ UNCHANGED addr BY <1>3, <1>8, <2>1 DEF Record, Throw
  <2>2. CASE /\ Running(mem[j].vm)
             /\ addr' = [addr EXCEPT ![j[1]] = IF There(j[1]) THEN guest[mem[j].vm].of ELSE @]
             /\ Go(j, "dns") \/ End(j, "success")
    <3>1. guest[mem[j].vm].of \in Rows BY <1>1, <2>2 DEF Running, On, Guests
    <3>2. addr' \in [Rows -> Rows \cup {None}] BY <1>1, <2>2, <3>1
    <3> QED BY <1>2, <1>3, <1>8, <2>2, <3>2 DEF Record, Steps, CreateSteps
  <2> QED BY <1>8, <2>1, <2>2 DEF Record
<1>9. ASSUME Reapply(j) PROVE TypeOK'
  <2>1. CASE Throw(j) /\ UNCHANGED nodeVars BY <1>3, <1>9, <2>1 DEF Reapply, Throw
  <2>2. ASSUME On(mem[j].vm), NEW w \in Ids, SetEnv(mem[j].vm, w, mem[j].env), Go(j, "check")
        PROVE  TypeOK'
    <3>1. mem[j].vm \in Ids /\ mem[j].env \in Nat BY <1>1, <2>2 DEF On
    <3>2. guest' \in [Ids -> Guests \cup {None}] /\ issued' \in SUBSET Ids
      BY <2>2, <3>1, SetEnvTyped
    <3> QED BY <1>2, <1>9, <2>2, <3>2 DEF Reapply, Steps, RestartSteps
  <2> QED BY <1>9, <2>1, <2>2 DEF Reapply
<1>10. ASSUME Check(j) PROVE TypeOK'
  <2>1. Go(j, "stop") \/ Go(j, "start") \/ End(j, "success") \/ Throw(j) BY <1>10 DEF Check
  <2> QED BY <1>2, <1>3, <1>10, <2>1 DEF Check, Throw, Steps, RestartSteps
<1>11. ASSUME StopGuest(j) PROVE TypeOK'
  <2>1. CASE Throw(j) /\ UNCHANGED guest BY <1>3, <1>11, <2>1 DEF StopGuest, Throw
  <2>2. CASE On(mem[j].vm) /\ guest' = [guest EXCEPT ![mem[j].vm].on = FALSE] /\ Go(j, "start")
    <3>1. guest' \in [Ids -> Guests \cup {None}] BY <1>1, <1>6, <2>2 DEF On
    <3> QED BY <1>2, <1>11, <2>2, <3>1 DEF StopGuest, Steps, RestartSteps
  <2> QED BY <1>11, <2>1, <2>2 DEF StopGuest, Running
<1>12. ASSUME ScriptFails(j) PROVE TypeOK'
  BY <1>3, <1>4, <1>12 DEF ScriptFails, Throw
<1>13. ASSUME RecreateFails(j) PROVE TypeOK'
  <2>1. mem[j].vm \in Ids BY <1>1, <1>13 DEF RecreateFails, On
  <2>2. guest' \in [Ids -> Guests \cup {None}] BY <1>13, <2>1 DEF RecreateFails
  <2> QED BY <1>3, <1>4, <1>13, <2>2 DEF RecreateFails, Throw
<1>14. ASSUME ScriptKilled(j) PROVE TypeOK'
  BY <1>3, <1>4, <1>14 DEF ScriptKilled
<1> QED BY <1>5, <1>7, <1>8, <1>9, <1>10, <1>11, <1>12, <1>13, <1>14 DEF JobStep, Script, Restart

LEMMA TypeStep == Shaped /\ [Next]_vars => TypeOK'
<1> SUFFICES ASSUME Shaped, [Next]_vars PROVE TypeOK'
  OBVIOUS
<1>1. CASE UNCHANGED vars
  BY <1>1 DEF vars, Shaped, TypeOK, rowVars, nodeVars, jobVars, reqVars, budget
<1>2. ASSUME NEW v \in Ids, RemovedOnNode(v) PROVE TypeOK'
  <2>1. guest' \in [Ids -> Guests \cup {None}] /\ causes' \in SUBSET Races
    BY <1>2, RemoveTyped DEF RemovedOnNode, Shaped
  <2> QED BY <1>2, <2>1 DEF RemovedOnNode, Shaped, TypeOK, rowVars, nodeVars, jobVars, reqVars, budget
<1> QED
  BY <1>1, <1>2, TypeServer, TypeCreation, TypeJob
  DEF Next, ServerStep, CreationStep, JobStep
-----------------------------------------------------------------------------
(* What a step does to each part of the state *)

\* Who changes what.
LEMMA Frames ==
  ASSUME [Next]_vars
  PROVE  /\ docker' = docker
         /\ \/ ServerStep /\ UNCHANGED <<cid, addr, issued, pc, mem, removals>>
            \/ /\ \/ \E c \in Rows : CreationStep(c)
                  \/ \E j \in Jobs : JobStep(j)
               /\ UNCHANGED <<row, name, del, put, removals>>
            \/ (\E v \in Ids : RemovedOnNode(v)) /\ UNCHANGED <<rowVars, issued, jobVars, del, put>>
            \/ UNCHANGED vars
<1> USE DEF rowVars, nodeVars, jobVars, reqVars, budget
<1>1. CASE UNCHANGED vars BY <1>1 DEF vars
<1>2. ASSUME NEW c \in Rows, Post(c) PROVE docker' = docker /\ UNCHANGED <<cid, addr, issued, pc, mem, removals>>
  BY <1>2 DEF Post
<1>3. ASSUME NEW u \in Updates, PutLoad(u) \/ PutCommit(u)
      PROVE  docker' = docker /\ UNCHANGED <<cid, addr, issued, pc, mem, removals>>
  BY <1>3 DEF PutLoad, PutCommit
<1>4. ASSUME NEW d \in Deletes, Delete(d) \/ DeleteDies(d)
      PROVE  docker' = docker /\ UNCHANGED <<cid, addr, issued, pc, mem, removals>>
  BY <1>4 DEF Delete, DeleteLoad, DeleteDns, DeleteCheck, DeleteGuest, DeleteRow, DeleteDies
<1>5. ASSUME NEW c \in Rows, Create(c) PROVE UNCHANGED <<docker, row, name, del, put, removals>>
  BY <1>5 DEF Create, NextId, CreateGuest, Persist, Apply, Store, FindServices, Publish
<1>6. ASSUME NEW j \in Jobs, JobStep(j) PROVE UNCHANGED <<docker, row, name, del, put, removals>>
  BY <1>6 DEF JobStep, Script, Restart, Begin, StartGuest, Record, Reapply, Check, StopGuest,
     ScriptFails, RecreateFails, ScriptKilled
<1>7. ASSUME NEW v \in Ids, RemovedOnNode(v) PROVE docker' = docker /\ UNCHANGED <<rowVars, issued, jobVars, del, put>>
  BY <1>7 DEF RemovedOnNode
<1> QED BY <1>1, <1>2, <1>3, <1>4, <1>5, <1>6, <1>7 DEF Next, ServerStep, CreationStep, JobStep

\* Rows are posted, with a name that no other row has; and deleted by a DELETE.
LEMMA RowSteps ==
  ASSUME Shaped, [Next]_vars, NEW c \in Rows
  PROVE  \/ row'[c] = row[c] /\ name'[c] = name[c]
         \/ /\ row[c] = "no" /\ row'[c] = "yes" /\ name'[c] \in Names
            /\ \A b \in Rows : There(b) => name[b] # name'[c]
            /\ \A b \in Rows : b # c => row'[b] = row[b] /\ name'[b] = name[b]
         \/ /\ row'[c] = "gone" /\ name'[c] = name[c]
            /\ \E d \in Deletes : del[d].pc = "row" /\ del[d].of = c /\ del'[d].pc = "done"
<1> USE DEF rowVars, nodeVars, jobVars, reqVars, budget
<1>1. row \in [Rows -> {"no", "yes", "gone"}] /\ name \in [Rows -> Names \cup {None}]
  BY DEF Shaped, TypeOK
<1>2. ASSUME NEW b \in Rows, Post(b)
      PROVE  \/ row'[c] = row[c] /\ name'[c] = name[c]
             \/ /\ row[c] = "no" /\ row'[c] = "yes" /\ name'[c] \in Names
                /\ \A e \in Rows : There(e) => name[e] # name'[c]
                /\ \A e \in Rows : e # c => row'[e] = row[e] /\ name'[e] = name[e]
  BY <1>1, <1>2 DEF Post
<1>3. ASSUME NEW u \in Updates, PutLoad(u) \/ PutCommit(u) PROVE UNCHANGED <<row, name>>
  BY <1>3 DEF PutLoad, PutCommit
<1>4. ASSUME NEW d \in Deletes, DeleteRow(d)
      PROVE  \/ row'[c] = row[c] /\ name'[c] = name[c]
             \/ /\ row'[c] = "gone" /\ name'[c] = name[c]
                /\ \E e \in Deletes : del[e].pc = "row" /\ del[e].of = c /\ del'[e].pc = "done"
  <2>1. name' = name /\ row' = [row EXCEPT ![del[d].of] = "gone"] /\ del[d].pc = "row"
        /\ del'[d].pc = "done"
    BY <1>4, DeleteMoves DEF DeleteRow, Shaped
  <2> QED BY <1>1, <2>1
<1>5. ASSUME NEW d \in Deletes, Delete(d) \/ DeleteDies(d), ~DeleteRow(d) PROVE UNCHANGED <<row, name>>
  BY <1>5 DEF Delete, DeleteLoad, DeleteDns, DeleteCheck, DeleteGuest, DeleteDies
<1>6. ServerStep \/ UNCHANGED <<row, name>> BY Frames DEF vars
<1> QED BY <1>2, <1>3, <1>4, <1>5, <1>6 DEF ServerStep

\* A DELETE notes its row's id; it destroys only after it has compared the names.
LEMMA DeleteSteps ==
  ASSUME Shaped, [Next]_vars, NEW d \in Deletes
  PROVE  \/ del'[d] = del[d]
         \/ /\ del[d].pc = "idle" /\ del'[d].pc = "dns" /\ del'[d].of \in Rows
            /\ There(del'[d].of) /\ del'[d].cid = cid[del'[d].of]
            /\ UNCHANGED <<row, cid, guest>>
            /\ \A e \in Deletes : e # d => del'[e] = del[e]
            /\ \A e \in Deletes : del[e].of = del'[d].of /\ del[e].pc # "done" => "overlap" \in causes'
         \/ /\ Deleting(d) /\ del'[d].of = del[d].of /\ del'[d].cid = del[d].cid
            /\ \/ del'[d].pc \in {"row", "done"}
               \/ del'[d].pc = "check" /\ del[d].cid # None
               \/ /\ del[d].pc = "check" /\ del'[d].pc = "destroy" /\ UNCHANGED <<name, guest>>
                  /\ On(del[d].cid) /\ guest[del[d].cid].name = name[del[d].of]
<1> USE DEF rowVars, nodeVars, jobVars, reqVars, budget
<1> DEFINE Goal ==
         \/ del'[d] = del[d]
         \/ /\ del[d].pc = "idle" /\ del'[d].pc = "dns" /\ del'[d].of \in Rows
            /\ There(del'[d].of) /\ del'[d].cid = cid[del'[d].of]
            /\ UNCHANGED <<row, cid, guest>>
            /\ \A e \in Deletes : e # d => del'[e] = del[e]
            /\ \A e \in Deletes : del[e].of = del'[d].of /\ del[e].pc # "done" => "overlap" \in causes'
         \/ /\ Deleting(d) /\ del'[d].of = del[d].of /\ del'[d].cid = del[d].cid
            /\ \/ del'[d].pc \in {"row", "done"}
               \/ del'[d].pc = "check" /\ del[d].cid # None
               \/ /\ del[d].pc = "check" /\ del'[d].pc = "destroy" /\ UNCHANGED <<name, guest>>
                  /\ On(del[d].cid) /\ guest[del[d].cid].name = name[del[d].of]
<1>1. TypeOK /\ del \in [Deletes -> DeleteRecords] BY DEF Shaped, TypeOK, DeleteRecords
<1>2. ASSUME NEW e \in Deletes, NEW step \in {"check", "destroy", "row", "done"}, DeleteTo(e, step)
      PROVE  /\ e # d => del'[d] = del[d]
             /\ e = d => del'[d].of = del[d].of /\ del'[d].cid = del[d].cid /\ del'[d].pc = step
  BY <1>1, <1>2, DeleteMoves
<1>3. ASSUME NEW e \in Deletes, DeleteLoad(e) PROVE Goal
  <2>1. PICK c \in Rows :
          /\ There(c)
          /\ del' = [del EXCEPT ![e] = [pc |-> "dns", of |-> c, cid |-> cid[c]]]
          /\ causes' = causes \cup
               {race \in {"busy"} : \E j \in Jobs : j[1] = c /\ st[j] \in {"pending", "running"}} \cup
               {race \in {"overlap"} : \E f \in Deletes : del[f].of = c /\ del[f].pc # "done"}
    BY <1>3 DEF DeleteLoad
  <2>2. UNCHANGED <<row, cid, guest>> /\ del[e].pc = "idle" BY <1>3 DEF DeleteLoad
  <2>3. CASE e # d BY <1>1, <2>1, <2>3
  <2>4. CASE e = d
    <3>1. del'[d] = [pc |-> "dns", of |-> c, cid |-> cid[c]] BY <1>1, <2>1, <2>4
    <3>2. \A f \in Deletes : f # d => del'[f] = del[f] BY <1>1, <2>1, <2>4
    <3>3. \A f \in Deletes : del[f].of = c /\ del[f].pc # "done" => "overlap" \in causes' BY <2>1
    <3> QED BY <2>1, <2>2, <2>4, <3>1, <3>2, <3>3
  <2> QED BY <2>3, <2>4
<1>4. ASSUME NEW e \in Deletes, DeleteDns(e) PROVE Goal
  <2>1. del[e].pc = "dns" /\ DeleteTo(e, IF del[e].cid = None THEN "row" ELSE "check")
    BY <1>4 DEF DeleteDns
  <2> QED BY <1>2, <2>1 DEF Deleting
<1>5. ASSUME NEW e \in Deletes, DeleteCheck(e) PROVE Goal
  <2>1. /\ del[e].pc = "check" /\ UNCHANGED <<name, guest>>
        /\ \/ DeleteTo(e, "row") \/ DeleteTo(e, "done")
           \/ DeleteTo(e, "destroy") /\ On(del[e].cid) /\ guest[del[e].cid].name = name[del[e].of]
    BY <1>5 DEF DeleteCheck
  <2> QED BY <1>2, <2>1 DEF Deleting
<1>6. ASSUME NEW e \in Deletes, DeleteGuest(e) PROVE Goal
  BY <1>2, <1>6 DEF DeleteGuest, Deleting
<1>7. ASSUME NEW e \in Deletes, DeleteRow(e) PROVE Goal
  BY <1>2, <1>7 DEF DeleteRow, Deleting
<1>8. ASSUME NEW e \in Deletes, DeleteDies(e) PROVE Goal
  BY <1>2, <1>8 DEF DeleteDies, Deleting
<1>9. ASSUME NEW c \in Rows, Post(c) PROVE del' = del BY <1>9 DEF Post
<1>10. ASSUME NEW u \in Updates, PutLoad(u) \/ PutCommit(u) PROVE del' = del
  BY <1>10 DEF PutLoad, PutCommit
<1>11. ServerStep \/ del' = del BY Frames DEF vars
<1> QED BY <1>3, <1>4, <1>5, <1>6, <1>7, <1>8, <1>9, <1>10, <1>11 DEF ServerStep, Delete

\* The calls of a script follow one another.
Follows ==
  { <<"persist", "apply">>, <<"store", "start">>, <<"start", "record">>, <<"record", "dns">>,
    <<"dns", "publish">>, <<"reapply", "check">>, <<"check", "stop">>, <<"check", "start">>,
    <<"stop", "start">> }

\* The guest that a creation makes.
Makes(c) ==
  LET v == mem'[Creation(c)].vm IN
  /\ v \in Ids /\ guest'[v] # None
  /\ guest'[v].of = c /\ guest'[v].name = name[c]

\* The script that makes a Docker container anew, under another id, or fails to.
Remakes(j) == docker /\ pc[j] \in {"apply", "reapply"} /\ pc'[j] # pc[j] /\ On(mem[j].vm)

\* What it was, it still is.
Remade(j) ==
  LET v == mem'[j].vm IN
  /\ v \in Ids /\ guest'[v] # None
  /\ guest'[v].of = guest[mem[j].vm].of /\ guest'[v].name = guest[mem[j].vm].name

\* One script moves at a time; it begins on a row that is there, and keeps its id but when it
\* makes a guest, or makes it anew.
ScriptStep(j) ==
  LET c == j[1] IN
  \/ pc'[j] = pc[j] /\ mem'[j] = mem[j]
  \/ pc'[j] = "done"
  \/ /\ There(c) /\ mem'[j].vm = cid[c] /\ (j = Creation(c) <=> cid[c] = None)
     /\ pc'[j] \in (IF j = Creation(c) THEN {"id", "create"} ELSE {"reapply"})
  \/ j = Creation(c) /\ pc[j] = "id" /\ pc'[j] = "create"
  \/ j = Creation(c) /\ pc[j] = "create" /\ pc'[j] = "persist" /\ Makes(c)
  \/ /\ j = Creation(c) /\ pc[j] = "apply" /\ pc'[j] = "store"
     /\ IF docker THEN Remakes(j) /\ Remade(j) ELSE mem'[j] = mem[j]
  \/ <<pc[j], pc'[j]>> \in Follows /\ mem'[j] = mem[j] /\ (pc'[j] = "dns" => j = Creation(c))

LEMMA ScriptSteps == ASSUME Shaped, [Next]_vars, NEW j \in Jobs PROVE ScriptStep(j)
<1> USE DEF rowVars, nodeVars, jobVars, reqVars, budget
<1>1. TypeOK /\ mem \in [Jobs -> [env: Nat, vm: Ids \cup {None}]] BY DEF Shaped, TypeOK
<1>2. ASSUME pc' = pc, mem' = mem PROVE ScriptStep(j) BY <1>2 DEF ScriptStep
<1>3. ASSUME NEW i \in Jobs, Throw(i) \/ End(i, "success"), i # j => mem'[j] = mem[j]
      PROVE  ScriptStep(j)
  BY <1>1, <1>3, Moves DEF ScriptStep, Throw
<1>4. ASSUME NEW i \in Jobs, NEW step \in Steps, Go(i, step), <<pc[i], step>> \in Follows,
             mem' = mem, step = "dns" => i = Creation(i[1])
      PROVE  ScriptStep(j)
  BY <1>1, <1>4, Moves DEF ScriptStep
<1>5. \A c \in Rows : Creation(c) \in Jobs /\ Creation(c)[1] = c BY JobsOf
<1>6. ASSUME NEW c \in Rows, NextId(c) PROVE ScriptStep(j)
  <2>1. \E v : mem' = [mem EXCEPT ![Creation(c)].vm = v] BY <1>6 DEF NextId
  <2>2. pc[Creation(c)] = "id" /\ Go(Creation(c), "create") BY <1>6 DEF NextId
  <2> QED BY <1>1, <1>5, <2>1, <2>2, Moves DEF ScriptStep, Steps, CreateSteps
<1>7. ASSUME NEW c \in Rows, CreateGuest(c) PROVE ScriptStep(j)
  <2>1. CASE Throw(Creation(c)) /\ UNCHANGED mem BY <1>3, <1>5, <2>1
  <2>2. ASSUME NEW v \in Ids, mem' = [mem EXCEPT ![Creation(c)].vm = v], Go(Creation(c), "persist"),
               guest' = [guest EXCEPT ![v] = [name |-> name[c], of |-> c, env |-> None, on |-> FALSE]]
        PROVE  ScriptStep(j)
    <3>1. pc[Creation(c)] = "create" BY <1>7 DEF CreateGuest
    <3>2. /\ pc'[Creation(c)] = "persist"
          /\ \A i \in Jobs : i # Creation(c) => pc'[i] = pc[i]
      BY <1>1, <1>5, <2>2, Moves DEF Steps, CreateSteps
    <3>3. mem'[Creation(c)].vm = v /\ \A i \in Jobs : i # Creation(c) => mem'[i] = mem[i]
      BY <1>1, <1>5, <2>2
    <3>4. guest'[v] = [name |-> name[c], of |-> c, env |-> None, on |-> FALSE]
      BY <1>1, <2>2 DEF TypeOK
    <3>5. guest'[v] \in Guests
      <4>1. Active(Creation(c)) BY <3>1 DEF Active, Steps, CreateSteps
      <4>2. name[c] \in Names BY <1>5, <4>1 DEF Shaped, Placed
      <4> QED BY <3>4, <4>2 DEF Guests
    <3>6. guest'[v] # None BY <3>5
    <3> QED BY <1>5, <3>1, <3>2, <3>3, <3>4, <3>6 DEF ScriptStep, Makes
  <2> QED BY <1>7, <2>1, <2>2 DEF CreateGuest
<1>8. ASSUME NEW c \in Rows, Persist(c) PROVE ScriptStep(j)
  BY <1>3, <1>4, <1>5, <1>8 DEF Persist, Follows, Steps, CreateSteps
<1>9. ASSUME NEW c \in Rows, Apply(c) PROVE ScriptStep(j)
  <2>1. CASE Throw(Creation(c)) /\ UNCHANGED mem BY <1>3, <1>5, <2>1
  <2>2. ASSUME NEW w \in Ids, SetEnv(mem[Creation(c)].vm, w, mem[Creation(c)].env),
               mem' = [mem EXCEPT ![Creation(c)].vm = w], Go(Creation(c), "store"),
               On(mem[Creation(c)].vm)
        PROVE  ScriptStep(j)
    <3>1. ~docker => w = mem[Creation(c)].vm BY <2>2 DEF SetEnv
    <3>2. ~docker => mem'[Creation(c)] = mem[Creation(c)] BY <1>1, <1>5, <2>2, <3>1
    <3>3. pc[Creation(c)] = "apply" BY <1>9 DEF Apply
    <3>4. /\ pc'[Creation(c)] = "store"
          /\ \A i \in Jobs : i # Creation(c) => pc'[i] = pc[i]
      BY <1>1, <1>5, <2>2, Moves DEF Steps, CreateSteps
    <3>5. \A i \in Jobs : i # Creation(c) => mem'[i] = mem[i] BY <1>1, <1>5, <2>2
    <3>6. mem'[Creation(c)].vm = w
      <4>1. mem[Creation(c)] \in [env: Nat, vm: Ids \cup {None}] BY <1>1, <1>5
      <4>2. mem'[Creation(c)] = [mem[Creation(c)] EXCEPT !.vm = w] BY <1>1, <1>5, <2>2
      <4> QED BY <4>1, <4>2
    <3>7. mem[Creation(c)].vm \in Ids /\ mem[Creation(c)].env \in Nat BY <1>1, <1>5, <2>2 DEF On
    <3>8. /\ guest'[w] # None /\ guest'[w].of = guest[mem[Creation(c)].vm].of
          /\ guest'[w].name = guest[mem[Creation(c)].vm].name
      BY <1>1, <2>2, <3>7, SetEnvSteps
    <3>9. Remade(Creation(c)) BY <3>6, <3>8 DEF Remade
    <3>10. docker => Remakes(Creation(c)) BY <2>2, <3>3, <3>4 DEF Remakes
    <3> QED BY <1>5, <3>2, <3>3, <3>4, <3>5, <3>9, <3>10 DEF ScriptStep
  <2> QED BY <1>9, <2>1, <2>2 DEF Apply
<1>10. ASSUME NEW c \in Rows, Store(c) PROVE ScriptStep(j)
  BY <1>3, <1>4, <1>5, <1>10 DEF Store, Follows, Steps, CreateSteps
<1>11. ASSUME NEW c \in Rows, FindServices(c) \/ Publish(c) PROVE ScriptStep(j)
  BY <1>3, <1>4, <1>5, <1>11 DEF FindServices, Publish, Follows, Steps, CreateSteps
<1>12. ASSUME NEW i \in Jobs, Begin(i) PROVE ScriptStep(j)
  <2>1. CASE Throw(i) /\ UNCHANGED mem BY <1>3, <2>1
  <2>2. CASE /\ There(i[1]) /\ (i = Creation(i[1]) <=> cid[i[1]] = None)
             /\ mem' = [mem EXCEPT ![i] = [env |-> env[i[1]], vm |-> cid[i[1]]]]
             /\ pc' = [pc EXCEPT ![i] = IF i # Creation(i[1]) THEN "reapply"
                                        ELSE IF docker THEN "create" ELSE "id"]
    BY <1>1, <2>2 DEF ScriptStep, TypeOK
  <2> QED BY <1>12, <2>1, <2>2 DEF Begin
<1>13. ASSUME NEW i \in Jobs, StartGuest(i) PROVE ScriptStep(j)
  BY <1>3, <1>4, <1>13 DEF StartGuest, Follows, Steps, CreateSteps
<1>14. ASSUME NEW i \in Jobs, Record(i) PROVE ScriptStep(j)
  <2>1. /\ pc[i] = "record" /\ mem' = mem
        /\ Throw(i) \/ End(i, "success") \/ (i = Creation(i[1]) /\ Go(i, "dns"))
    BY <1>14 DEF Record
  <2> QED BY <1>3, <1>4, <2>1 DEF Follows, Steps, CreateSteps
<1>15. ASSUME NEW i \in Jobs, Reapply(i) PROVE ScriptStep(j)
  BY <1>3, <1>4, <1>15 DEF Reapply, Follows, Steps, RestartSteps
<1>16. ASSUME NEW i \in Jobs, Check(i) PROVE ScriptStep(j)
  <2>1. /\ pc[i] = "check" /\ mem' = mem
        /\ Throw(i) \/ End(i, "success") \/ Go(i, "stop") \/ Go(i, "start")
    BY <1>16 DEF Check
  <2> QED BY <1>3, <1>4, <2>1 DEF Follows, Steps, RestartSteps
<1>17. ASSUME NEW i \in Jobs, StopGuest(i) PROVE ScriptStep(j)
  BY <1>3, <1>4, <1>17 DEF StopGuest, Follows, Steps, RestartSteps
<1>18. ASSUME NEW i \in Jobs, ScriptFails(i) \/ RecreateFails(i) PROVE ScriptStep(j)
  BY <1>3, <1>18 DEF ScriptFails, RecreateFails
<1>19. ASSUME NEW i \in Jobs, ScriptKilled(i) PROVE ScriptStep(j)
  <2>1. mem' = mem /\ (End(i, "cancelled") \/ End(i, "running")) BY <1>19 DEF ScriptKilled
  <2> QED BY <1>1, <2>1, Moves DEF ScriptStep
<1>20. \/ \E c \in Rows : Create(c)
       \/ \E i \in Jobs : JobStep(i)
       \/ pc' = pc /\ mem' = mem
  BY Frames DEF vars, CreationStep
<1> QED
  BY <1>2, <1>6, <1>7, <1>8, <1>9, <1>10, <1>11, <1>12, <1>13, <1>14, <1>15, <1>16, <1>17,
     <1>18, <1>19, <1>20 DEF Create, JobStep, Script, Restart

\* A row gets its id once, when its creation stores it and no other row has it; and its
\* address from the guest that its script finds running.
LEMMA IdSteps ==
  ASSUME Shaped, [Next]_vars, NEW c \in Rows
  PROVE  /\ \/ cid'[c] = cid[c]
            \/ /\ There(c) /\ pc[Creation(c)] = "store" /\ pc'[Creation(c)] = "start"
               /\ mem'[Creation(c)] = mem[Creation(c)] /\ cid'[c] = mem[Creation(c)].vm
               /\ \A b \in Rows : There(b) => cid[b] # mem[Creation(c)].vm
               /\ \A b \in Rows : b # c => cid'[b] = cid[b]
               /\ UNCHANGED <<row, name, guest>>
         /\ \/ addr'[c] = addr[c]
            \/ There(c) /\ \E j \in Jobs : /\ j[1] = c /\ pc[j] = "record" /\ Running(mem[j].vm)
                                           /\ addr'[c] = guest[mem[j].vm].of
<1> USE DEF rowVars, nodeVars, jobVars, reqVars, budget
<1>1. /\ TypeOK /\ cid \in [Rows -> Ids \cup {None}] /\ addr \in [Rows -> Rows \cup {None}]
      /\ mem \in [Jobs -> [env: Nat, vm: Ids \cup {None}]]
  BY DEF Shaped, TypeOK
<1> DEFINE Cid == \/ cid'[c] = cid[c]
                  \/ /\ There(c) /\ pc[Creation(c)] = "store" /\ pc'[Creation(c)] = "start"
                     /\ mem'[Creation(c)] = mem[Creation(c)] /\ cid'[c] = mem[Creation(c)].vm
                     /\ \A b \in Rows : There(b) => cid[b] # mem[Creation(c)].vm
                     /\ \A b \in Rows : b # c => cid'[b] = cid[b]
                     /\ UNCHANGED <<row, name, guest>>
           Addr == \/ addr'[c] = addr[c]
                   \/ There(c) /\ \E j \in Jobs : /\ j[1] = c /\ pc[j] = "record" /\ Running(mem[j].vm)
                                                  /\ addr'[c] = guest[mem[j].vm].of
<1>2. ASSUME NEW b \in Rows, Store(b) PROVE Cid /\ addr' = addr
  <2>1. addr' = addr /\ UNCHANGED <<row, name, guest, mem>> /\ pc[Creation(b)] = "store"
    BY <1>2 DEF Store
  <2>2. CASE cid' = cid BY <2>1, <2>2
  <2>3. CASE /\ There(b) /\ ~\E e \in Rows : There(e) /\ cid[e] = mem[Creation(b)].vm
             /\ cid' = [cid EXCEPT ![b] = mem[Creation(b)].vm] /\ Go(Creation(b), "start")
    <3>1. pc'[Creation(b)] = "start"
      BY <1>1, <2>3, JobsOf, Moves DEF Steps, CreateSteps
    <3>2. CASE b # c BY <1>1, <2>1, <2>3, <3>2
    <3>3. CASE b = c BY <1>1, <2>1, <2>3, <3>1, <3>3
    <3> QED BY <2>1, <3>2, <3>3
  <2> QED BY <1>2, <2>1, <2>2, <2>3 DEF Store
<1>3. ASSUME NEW i \in Jobs, Record(i) PROVE cid' = cid /\ Addr
  <2>1. cid' = cid /\ pc[i] = "record" BY <1>3 DEF Record
  <2>2. \/ addr' = addr
        \/ /\ Running(mem[i].vm)
           /\ addr' = [addr EXCEPT ![i[1]] = IF There(i[1]) THEN guest[mem[i].vm].of ELSE @]
    BY <1>3 DEF Record
  <2> QED BY <1>1, <2>1, <2>2
<1>4. ASSUME NEW b \in Rows, CreationStep(b), ~Store(b) PROVE UNCHANGED <<cid, addr>>
  BY <1>4 DEF CreationStep, Create, NextId, CreateGuest, Persist, Apply, FindServices, Publish
<1>5. ASSUME NEW i \in Jobs, JobStep(i), ~Record(i) PROVE UNCHANGED <<cid, addr>>
  BY <1>5 DEF JobStep, Script, Restart, Begin, StartGuest, Reapply, Check, StopGuest,
     ScriptFails, RecreateFails, ScriptKilled
<1>6. \/ UNCHANGED <<cid, addr>>
      \/ \E b \in Rows : CreationStep(b)
      \/ \E i \in Jobs : JobStep(i)
  BY Frames DEF vars
<1>7. Cid /\ Addr
  <2>1. cid' = cid => Cid OBVIOUS
  <2>2. addr' = addr => Addr OBVIOUS
  <2> HIDE DEF Cid, Addr
  <2> QED BY <1>2, <1>3, <1>4, <1>5, <1>6, <2>1, <2>2
<1> QED BY <1>7

\* Races are remembered.
LEMMA CausesGrow == ASSUME [Next]_vars PROVE causes \subseteq causes' /\ issued \subseteq issued'
<1> USE DEF rowVars, nodeVars, jobVars, reqVars, budget
<1>1. ASSUME NEW c \in Rows, Post(c) PROVE causes' = causes /\ issued' = issued
  BY <1>1 DEF Post
<1>2. ASSUME NEW u \in Updates, PutLoad(u) \/ PutCommit(u)
      PROVE  causes \subseteq causes' /\ issued' = issued
  BY <1>2 DEF PutLoad, PutCommit
<1>3. ASSUME NEW d \in Deletes, Delete(d) \/ DeleteDies(d)
      PROVE  causes \subseteq causes' /\ issued' = issued
  BY <1>3 DEF Delete, DeleteLoad, DeleteDns, DeleteCheck, DeleteGuest, DeleteRow, DeleteDies, Remove
<1>4. ASSUME NEW c \in Rows, Create(c) PROVE causes \subseteq causes' /\ issued \subseteq issued'
  BY <1>4 DEF Create, NextId, CreateGuest, Persist, Apply, Store, FindServices, Publish, SetEnv
<1>5. ASSUME NEW j \in Jobs, JobStep(j) PROVE causes' = causes /\ issued \subseteq issued'
  BY <1>5 DEF JobStep, Script, Restart, Begin, StartGuest, Record, Reapply, Check, StopGuest,
     ScriptFails, RecreateFails, ScriptKilled, SetEnv
<1>6. ASSUME NEW v \in Ids, RemovedOnNode(v) PROVE causes \subseteq causes' /\ issued' = issued
  BY <1>6 DEF RemovedOnNode, Remove
<1>7. CASE UNCHANGED vars BY <1>7 DEF vars
<1> QED BY <1>1, <1>2, <1>3, <1>4, <1>5, <1>6, <1>7 DEF Next, JobStep

\* A new guest is a creation's, or one made anew.
Appears(v) ==
  \/ \E c \in Rows : /\ pc[Creation(c)] = "create" /\ pc'[Creation(c)] = "persist"
                     /\ mem'[Creation(c)].vm = v /\ guest'[v].of = c
  \/ \E j \in Jobs : /\ Remakes(j) /\ guest'[v].of = guest[mem[j].vm].of
                     /\ pc[j] = "apply" => pc'[j] = "store" /\ mem'[j].vm = v

\* A guest keeps its name and its row as long as it is there. A DELETE that has checked it, or
\* the operator, removes it, and whoever has checked it as well is noted; and on a Docker node
\* the script that makes it anew. A new guest has an id that is free, on a Docker node one that
\* is new.
GuestStep(v) ==
  \/ guest'[v] = guest[v] /\ issued \subseteq issued'
  \/ /\ On(v) /\ guest'[v] # None
     /\ guest'[v].name = guest[v].name /\ guest'[v].of = guest[v].of
  \/ /\ On(v) /\ guest'[v] = None
     /\ \/ /\ \/ removals' = removals + 1
              \/ \E d \in Deletes : del[d].pc = "destroy" /\ del[d].cid = v /\ del'[d].pc = "row"
           /\ \A e \in Deletes : del'[e].pc = "destroy" /\ del'[e].cid = v => "raced" \in causes'
        \/ \E j \in Jobs : Remakes(j) /\ mem[j].vm = v
  \/ /\ guest'[v] # None /\ v \in issued'
     /\ IF docker THEN v \notin issued ELSE ~On(v)
     /\ Appears(v)

LEMMA GuestSteps == ASSUME Shaped, [Next]_vars, NEW v \in Ids PROVE GuestStep(v)
<1> USE DEF rowVars, nodeVars, jobVars, reqVars, budget
<1>1. /\ TypeOK /\ guest \in [Ids -> Guests \cup {None}]
      /\ mem \in [Jobs -> [env: Nat, vm: Ids \cup {None}]]
  BY DEF Shaped, TypeOK
<1>2. v # None BY DEF On
<1>3. guest' = guest => GuestStep(v) BY CausesGrow DEF GuestStep
<1>4. ASSUME NEW w \in Ids, On(w), NEW b \in BOOLEAN, guest' = [guest EXCEPT ![w].on = b]
      PROVE  GuestStep(v)
  <2>1. guest[w] \in Guests BY <1>1, <1>4 DEF On
  <2>2. [guest[w] EXCEPT !.on = b] \in Guests BY <2>1 DEF Guests
  <2>3. guest' = [guest EXCEPT ![w] = [guest[w] EXCEPT !.on = b]] BY <1>1, <1>4
  <2>4. CASE v = w
    <3>1. guest'[v] = [guest[w] EXCEPT !.on = b] BY <1>1, <2>3, <2>4
    <3>2. guest'[v] # None BY <2>2, <3>1
    <3>3. guest'[v].name = guest[v].name /\ guest'[v].of = guest[v].of BY <2>1, <2>4, <3>1 DEF Guests
    <3> QED BY <1>4, <2>4, <3>2, <3>3 DEF GuestStep
  <2>5. CASE v # w
    <3>1. guest'[v] = guest[v] BY <1>1, <2>3, <2>5
    <3> QED BY <3>1, CausesGrow DEF GuestStep
  <2> QED BY <2>4, <2>5
<1>5. ASSUME NEW j \in Jobs, pc[j] \in {"apply", "reapply"}, pc'[j] # pc[j], On(mem[j].vm),
             NEW w \in Ids, SetEnv(mem[j].vm, w, mem[j].env),
             pc[j] = "apply" => pc'[j] = "store" /\ mem'[j].vm = w
      PROVE  GuestStep(v)
  <2> DEFINE x == mem[j].vm
  <2>1. x \in Ids /\ mem[j].env \in Nat BY <1>1, <1>5 DEF On
  <2>2. /\ guest'[w] # None /\ guest'[w].name = guest[x].name /\ guest'[w].of = guest[x].of
        /\ \A u \in Ids : u # x /\ u # w => guest'[u] = guest[u]
        /\ w # x => guest'[x] = None
        /\ IF docker THEN w \notin issued ELSE w = x
        /\ issued' = issued \cup {w}
    BY <1>1, <1>5, <2>1, SetEnvSteps
  <2>3. docker => Remakes(j) BY <1>5 DEF Remakes
  <2> HIDE DEF x
  <2>4. CASE v = w /\ docker BY <1>5, <2>2, <2>3, <2>4 DEF GuestStep, Appears, x
  <2>5. CASE v = w /\ ~docker BY <1>5, <2>2, <2>5 DEF GuestStep, x
  <2>6. CASE v # w /\ v = x BY <1>5, <2>2, <2>3, <2>6 DEF GuestStep, x
  <2>7. CASE v # w /\ v # x
    <3>1. guest'[v] = guest[v] BY <2>2, <2>7
    <3> QED BY <3>1, CausesGrow DEF GuestStep
  <2> QED BY <2>4, <2>5, <2>6, <2>7
<1>6. ASSUME NEW c \in Rows, CreateGuest(c) PROVE GuestStep(v)
  <2>1. CASE UNCHANGED nodeVars BY <1>3, <2>1
  <2>2. ASSUME NEW w \in Ids,
               ~(IF docker THEN \E x \in Ids : On(x) /\ guest[x].name = name[c]
                           ELSE On(mem[Creation(c)].vm)),
               IF docker THEN Fresh(w) ELSE w = mem[Creation(c)].vm,
               guest' = [guest EXCEPT ![w] = [name |-> name[c], of |-> c, env |-> None, on |-> FALSE]],
               issued' = issued \cup {w}, mem' = [mem EXCEPT ![Creation(c)].vm = w],
               Go(Creation(c), "persist")
        PROVE  GuestStep(v)
    <3>1. CASE v # w
      <4>1. guest'[v] = guest[v] BY <1>1, <2>2, <3>1
      <4> QED BY <4>1, CausesGrow DEF GuestStep
    <3>2. CASE v = w
      <4>1. guest'[v] = [name |-> name[c], of |-> c, env |-> None, on |-> FALSE] BY <1>1, <2>2, <3>2
      <4>2. name[c] \in Names
        <5>1. Active(Creation(c)) BY <1>6 DEF CreateGuest, Active, Steps, CreateSteps
        <5> QED BY <5>1, JobsOf DEF Shaped, Placed
      <4>3. [name |-> name[c], of |-> c, env |-> None, on |-> FALSE] \in Guests BY <4>2 DEF Guests
      <4>4. docker => v \notin issued BY <2>2, <3>2 DEF Fresh, Lowest
      <4>5. ~docker => ~On(v) BY <2>2, <3>2
      <4>6. /\ pc[Creation(c)] = "create" /\ pc'[Creation(c)] = "persist"
            /\ mem'[Creation(c)].vm = v
        BY <1>1, <1>6, <2>2, <3>2, JobsOf, Moves DEF CreateGuest, Steps, CreateSteps
      <4>9. guest'[v] \in Guests BY <4>1, <4>3
      <4>7. guest'[v].of = c /\ guest'[v] # None
        <5>1. guest'[v].of = c BY <4>1
        <5>2. guest'[v] # None BY <4>9
        <5> QED BY <5>1, <5>2
      <4>8. v \in issued' BY <2>2, <3>2
      <4> QED BY <4>4, <4>5, <4>6, <4>7, <4>8 DEF GuestStep, Appears
    <3> QED BY <3>1, <3>2
  <2> QED BY <1>6, <2>1, <2>2 DEF CreateGuest
<1>7. ASSUME NEW c \in Rows, Apply(c) PROVE GuestStep(v)
  <2>1. CASE UNCHANGED nodeVars BY <1>3, <2>1
  <2>2. ASSUME NEW w \in Ids, On(mem[Creation(c)].vm), SetEnv(mem[Creation(c)].vm, w, mem[Creation(c)].env),
               mem' = [mem EXCEPT ![Creation(c)].vm = w], Go(Creation(c), "store")
        PROVE  GuestStep(v)
    <3>1. Creation(c) \in Jobs /\ pc[Creation(c)] = "apply" BY <1>7, JobsOf DEF Apply
    <3>2. pc'[Creation(c)] = "store" BY <1>1, <2>2, <3>1, Moves DEF Steps, CreateSteps
    <3>3. mem'[Creation(c)].vm = w
      <4>1. mem[Creation(c)] \in [env: Nat, vm: Ids \cup {None}] BY <1>1, <3>1
      <4>2. mem'[Creation(c)] = [mem[Creation(c)] EXCEPT !.vm = w] BY <1>1, <2>2, <3>1
      <4> QED BY <4>1, <4>2
    <3> QED BY <1>5, <2>2, <3>1, <3>2, <3>3
  <2> QED BY <1>7, <2>1, <2>2 DEF Apply
<1>8. ASSUME NEW c \in Rows, NextId(c) \/ Persist(c) \/ Store(c) \/ FindServices(c) \/ Publish(c)
      PROVE  GuestStep(v)
  BY <1>3, <1>8 DEF NextId, Persist, Store, FindServices, Publish
<1>9. ASSUME NEW j \in Jobs, Begin(j) \/ Record(j) \/ Check(j) \/ ScriptFails(j) \/ ScriptKilled(j)
      PROVE  GuestStep(v)
  BY <1>3, <1>9 DEF Begin, Record, Check, ScriptFails, ScriptKilled
<1>10. ASSUME NEW j \in Jobs, StartGuest(j) \/ StopGuest(j) PROVE GuestStep(v)
  <2>1. \/ guest' = guest
        \/ On(mem[j].vm) /\ \E b \in BOOLEAN : guest' = [guest EXCEPT ![mem[j].vm].on = b]
    BY <1>10 DEF StartGuest, StopGuest, Stopped, Running
  <2>2. On(mem[j].vm) => mem[j].vm \in Ids BY <1>1 DEF On
  <2> QED BY <1>3, <1>4, <2>1, <2>2
<1>11. ASSUME NEW j \in Jobs, Reapply(j) PROVE GuestStep(v)
  <2>1. CASE UNCHANGED nodeVars BY <1>3, <2>1
  <2>2. ASSUME NEW w \in Ids, On(mem[j].vm), SetEnv(mem[j].vm, w, mem[j].env), Go(j, "check")
        PROVE  GuestStep(v)
    <3>1. pc[j] = "reapply" BY <1>11 DEF Reapply
    <3>2. pc'[j] = "check" BY <1>1, <2>2, Moves DEF Steps, RestartSteps
    <3> QED BY <1>5, <2>2, <3>1, <3>2
  <2> QED BY <1>11, <2>1, <2>2 DEF Reapply
<1>12. ASSUME NEW j \in Jobs, RecreateFails(j) PROVE GuestStep(v)
  <2>1. docker /\ On(mem[j].vm) /\ guest' = [guest EXCEPT ![mem[j].vm] = None]
    BY <1>12 DEF RecreateFails
  <2>2. CASE v = mem[j].vm
    <3>1. pc[j] \in {"apply", "reapply"} BY <1>12 DEF RecreateFails
    <3>2. pc'[j] = "done" BY <1>1, <1>12, Moves DEF RecreateFails, Throw
    <3>3. Remakes(j) BY <2>1, <3>1, <3>2 DEF Remakes
    <3>4. guest'[v] = None BY <1>1, <2>1, <2>2
    <3> QED BY <2>1, <2>2, <3>3, <3>4 DEF GuestStep
  <2>3. CASE v # mem[j].vm
    <3>1. guest'[v] = guest[v] BY <1>1, <2>1, <2>3
    <3> QED BY <3>1, CausesGrow DEF GuestStep
  <2> QED BY <2>2, <2>3
<1>13. ASSUME NEW w \in Ids, RemovedOnNode(w) PROVE GuestStep(v)
  <2>1. /\ On(w) /\ removals' = removals + 1 /\ del' = del
        /\ guest' = [guest EXCEPT ![w] = None]
        /\ causes' = causes \cup
             {race \in {"raced"} : \E d \in Deletes : del[d].pc = "destroy" /\ del[d].cid = w}
    BY <1>13 DEF RemovedOnNode, Remove
  <2>2. CASE v = w
    <3>1. guest'[v] = None BY <1>1, <2>1, <2>2
    <3>2. \A e \in Deletes : del'[e].pc = "destroy" /\ del'[e].cid = v => "raced" \in causes'
      BY <2>1, <2>2
    <3> QED BY <2>1, <2>2, <3>1, <3>2 DEF GuestStep
  <2>3. CASE v # w
    <3>1. guest'[v] = guest[v] BY <1>1, <2>1, <2>3
    <3> QED BY <3>1, CausesGrow DEF GuestStep
  <2> QED BY <2>2, <2>3
<1>14. ASSUME NEW d \in Deletes, DeleteGuest(d) PROVE GuestStep(v)
  <2>1. CASE guest' = guest BY <1>3, <2>1
  <2>2. CASE Remove(del[d].cid, Deletes \ {d})
    <3>1. /\ guest' = [guest EXCEPT ![del[d].cid] = None]
          /\ causes' = causes \cup {race \in {"raced"} :
               \E e \in Deletes \ {d} : del[e].pc = "destroy" /\ del[e].cid = del[d].cid}
      BY <2>2 DEF Remove
    <3>2. /\ del'[d].pc = "row" /\ \A e \in Deletes : e # d => del'[e] = del[e]
      BY <1>1, <1>14, DeleteMoves DEF DeleteGuest
    <3>3. del[d].pc = "destroy" BY <1>14 DEF DeleteGuest
    <3>4. CASE v = del[d].cid
      <4>1. guest'[v] = None BY <1>1, <3>1, <3>4
      <4>2. \A e \in Deletes : del'[e].pc = "destroy" /\ del'[e].cid = v => "raced" \in causes'
        BY <3>1, <3>2, <3>4
      <4>3. CASE On(v) BY <3>2, <3>3, <3>4, <4>1, <4>2, <4>3 DEF GuestStep
      <4>4. CASE ~On(v) BY <1>2, <4>1, <4>4, CausesGrow DEF GuestStep, On
      <4> QED BY <4>3, <4>4
    <3>5. CASE v # del[d].cid
      <4>1. guest'[v] = guest[v] BY <1>1, <3>1, <3>5
      <4> QED BY <4>1, CausesGrow DEF GuestStep
    <3> QED BY <3>4, <3>5
  <2> QED BY <1>14, <2>1, <2>2 DEF DeleteGuest
<1>15. ASSUME NEW d \in Deletes, Delete(d) \/ DeleteDies(d), ~DeleteGuest(d) PROVE guest' = guest
  BY <1>15 DEF Delete, DeleteLoad, DeleteDns, DeleteCheck, DeleteRow, DeleteDies
<1>16. ASSUME NEW u \in Updates, PutLoad(u) \/ PutCommit(u) PROVE guest' = guest
  BY <1>16 DEF PutLoad, PutCommit
<1>17. ASSUME NEW c \in Rows, Post(c) PROVE guest' = guest BY <1>17 DEF Post
<1>18. CASE UNCHANGED vars BY <1>3, <1>18 DEF vars
<1> QED
  BY <1>3, <1>6, <1>7, <1>8, <1>9, <1>10, <1>11, <1>12, <1>13, <1>14, <1>15, <1>16, <1>17, <1>18
  DEF Next, Create, Script, Restart
-----------------------------------------------------------------------------
(* Where requests and scripts are *)

LEMMA RowsStay ==
  ASSUME Shaped, [Next]_vars, NEW c \in Rows, row[c] # "no"
  PROVE  row'[c] # "no" /\ name'[c] = name[c]
<1>1. \/ row'[c] = row[c] /\ name'[c] = name[c]
      \/ row[c] = "no"
      \/ row'[c] = "gone" /\ name'[c] = name[c]
  BY RowSteps
<1> QED BY <1>1

LEMMA PlacedStep == ASSUME Shaped, [Next]_vars PROVE Placed'
<1>1. TypeOK /\ TypeOK' BY TypeStep DEF Shaped
<1>2. ASSUME NEW c \in Rows, row'[c] # "no" PROVE name'[c] \in Names
  <2>1. CASE row[c] # "no" BY <2>1, RowsStay DEF Shaped, Placed
  <2>2. CASE row[c] = "no" BY <1>2, <2>2, RowSteps DEF Shaped, Placed
  <2> QED BY <2>1, <2>2
<1>3. ASSUME NEW d \in Deletes
      PROVE  /\ IF del'[d].pc = "idle" THEN del'[d].of = None
                ELSE del'[d].of \in Rows /\ row'[del'[d].of] # "no"
             /\ del'[d].pc \in {"check", "destroy"} => del'[d].cid \in Ids
  <2>1. CASE del'[d] = del[d] BY <2>1, RowsStay DEF Shaped, Placed
  <2>2. CASE /\ del'[d].pc = "dns" /\ del'[d].of \in Rows /\ There(del'[d].of)
    BY <2>2, RowsStay DEF There
  <2>3. CASE /\ Deleting(d) /\ del'[d].of = del[d].of /\ del'[d].cid = del[d].cid
             /\ \/ del'[d].pc \in {"row", "done"}
                \/ del'[d].pc = "check" /\ del[d].cid # None
                \/ del'[d].pc = "destroy" /\ del[d].pc = "check"
    <3>1. del[d].of \in Rows /\ row[del[d].of] # "no" BY <2>3 DEF Shaped, Placed, Deleting
    <3>2. del[d].cid \in Ids \cup {None} BY <1>1 DEF TypeOK
    <3> QED BY <2>3, <3>1, <3>2, RowsStay DEF Shaped, Placed
  <2> QED BY <2>1, <2>2, <2>3, DeleteSteps
<1> DEFINE Aims(u) == IF put'[u].pc = "idle" THEN put'[u].of = None ELSE put'[u].of \in Rows
<1>4. ASSUME NEW u \in Updates PROVE Aims(u)
  <2> USE DEF rowVars, nodeVars, jobVars, reqVars, budget
  <2>1. put \in [Updates -> [pc: {"idle", "commit", "done"}, of: Rows \cup {None}, cid: Ids \cup {None}]]
    BY <1>1 DEF TypeOK
  <2>2. put' = put => Aims(u) BY <1>4 DEF Shaped, Placed
  <2>3. ASSUME NEW w \in Updates, PutLoad(w) PROVE Aims(u)
    <3>1. \E c \in Rows : put' = [put EXCEPT ![w] = [pc |-> "commit", of |-> c, cid |-> cid[c]]]
      BY <2>3 DEF PutLoad
    <3> QED BY <1>4, <2>1, <3>1 DEF Shaped, Placed
  <2>4. ASSUME NEW w \in Updates, PutCommit(w) PROVE Aims(u)
    <3>1. put' = [put EXCEPT ![w].pc = "done"] /\ put[w].pc = "commit" BY <2>4 DEF PutCommit
    <3> QED BY <1>4, <2>1, <3>1 DEF Shaped, Placed
  <2>5. ASSUME NEW d \in Deletes, Delete(d) \/ DeleteDies(d) PROVE put' = put
    BY <2>5 DEF Delete, DeleteLoad, DeleteDns, DeleteCheck, DeleteGuest, DeleteRow, DeleteDies
  <2>6. ASSUME NEW c \in Rows, Post(c) PROVE put' = put BY <2>6 DEF Post
  <2>7. ServerStep \/ put' = put BY Frames DEF vars
  <2> QED BY <2>2, <2>3, <2>4, <2>5, <2>6, <2>7 DEF ServerStep
<1>5. ASSUME NEW j \in Jobs, Active(j)'
      PROVE  /\ row'[j[1]] # "no"
             /\ pc'[j] \in (IF j = Creation(j[1]) THEN CreateSteps ELSE RestartSteps)
  <2> USE DEF Steps, CreateSteps, RestartSteps
  <2>1. ScriptStep(j) BY ScriptSteps
  <2>2. j[1] \in Rows BY DEF Jobs
  <2>3. Active(j) => row'[j[1]] # "no" BY <2>2, RowsStay DEF Shaped, Placed
  <2>4. There(j[1]) => row'[j[1]] # "no" BY <2>2, RowsStay DEF There
  <2>5. Active(j) => pc[j] \in (IF j = Creation(j[1]) THEN CreateSteps ELSE RestartSteps)
    BY DEF Shaped, Placed
  <2>6. CASE pc'[j] = pc[j] BY <1>5, <2>3, <2>5, <2>6 DEF Active
  <2>7. CASE pc'[j] = "done" BY <1>5, <2>7 DEF Active
  <2>8. CASE There(j[1]) /\ pc'[j] \in (IF j = Creation(j[1]) THEN {"id", "create"} ELSE {"reapply"})
    BY <2>4, <2>8
  <2>9. CASE j = Creation(j[1]) /\ pc[j] \in {"id", "create", "apply"}
             /\ pc'[j] \in {"create", "persist", "store"}
    BY <2>3, <2>9 DEF Active
  <2>10. CASE <<pc[j], pc'[j]>> \in Follows /\ (pc'[j] = "dns" => j = Creation(j[1]))
    BY <2>3, <2>5, <2>10 DEF Follows, Active
  <2> QED BY <2>1, <2>6, <2>7, <2>8, <2>9, <2>10 DEF ScriptStep
<1> QED BY <1>2, <1>3, <1>4, <1>5 DEF Placed

Open(j) == st[j] \in {"pending", "running"}

\* How a job comes to be open.
StatusStep(j) ==
  LET c == j[1] IN
  \/ st'[j] = st[j]
  \/ st'[j] \in {"success", "failure", "cancelled"}
  \/ j = Creation(c) /\ row[c] = "no" /\ st'[j] = "pending"
  \/ /\ st[j] = "absent" /\ st'[j] = "pending"
     /\ \A d \in Deletes : del[d].of = c /\ del[d].pc # "done" => "busy" \in causes'
     /\ del' = del
  \/ st[j] = "pending" /\ st'[j] = "running" /\ There(c)
  \/ st'[j] = "running" /\ pc'[j] = "done" /\ faults' = faults + 1

LEMMA StatusSteps ==
  ASSUME Shaped, [Next]_vars
  PROVE  Recorded' /\ \A j \in Jobs : StatusStep(j)
<1> USE DEF rowVars, nodeVars, jobVars, reqVars, budget
<1>1. /\ TypeOK /\ Recorded /\ pc \in [Jobs -> {"idle", "done"} \cup Steps]
      /\ st \in [Jobs -> {"absent", "pending", "running", "success", "failure", "cancelled"}]
  BY DEF Shaped, TypeOK
<1> DEFINE Goal == Recorded' /\ \A j \in Jobs : StatusStep(j)
<1>2. ASSUME st' = st, pc' = pc PROVE Goal BY <1>1, <1>2 DEF Recorded, Active, StatusStep
<1>3. ASSUME NEW i \in Jobs, NEW step \in Steps, Go(i, step), Active(i) PROVE Goal
  BY <1>1, <1>3, Moves DEF Recorded, Active, StatusStep, Go
<1>4. ASSUME NEW i \in Jobs, NEW verdict \in {"success", "failure", "cancelled", "running"}, End(i, verdict),
             verdict = "running" => faults' = faults + 1
      PROVE  Goal
  <2>1. pc'[i] = "done" /\ \A j \in Jobs : j # i => pc'[j] = pc[j] BY <1>1, <1>4, Moves
  <2>2. st'[i] = verdict /\ \A j \in Jobs : j # i => st'[j] = st[j] BY <1>1, <1>4 DEF End
  <2>3. Recorded'
    <3>1. "done" \notin Steps BY DEF Steps, CreateSteps, RestartSteps
    <3> QED BY <1>1, <2>1, <2>2, <3>1 DEF Recorded, Active
  <2>4. \A j \in Jobs : StatusStep(j) BY <1>4, <2>1, <2>2 DEF StatusStep
  <2> QED BY <2>3, <2>4
<1>5. ASSUME NEW c \in Rows, Post(c) PROVE Goal
  <2>1. /\ row[c] = "no" /\ pc' = pc /\ st' = [st EXCEPT ![Creation(c)] = "pending"]
    BY <1>5 DEF Post
  <2>2. ~Active(Creation(c)) BY <2>1, JobsOf DEF Shaped, Placed
  <2> QED BY <1>1, <2>1, <2>2, JobsOf DEF Recorded, Active, StatusStep
<1>6. ASSUME NEW u \in Updates, PutLoad(u) PROVE Goal BY <1>2, <1>6 DEF PutLoad
<1>7. ASSUME NEW u \in Updates, PutCommit(u) PROVE Goal
  <2>1. CASE st' = st BY <1>2, <1>7, <2>1 DEF PutCommit
  <2>2. ASSUME NEW k \in 1..MaxRestarts, st[<<put[u].of, k>>] = "absent",
               st' = [st EXCEPT ![<<put[u].of, k>>] = "pending"]
        PROVE  Goal
    <3>1. put[u].of \in Rows BY <1>7 DEF PutCommit, Shaped, Placed
    <3>2. <<put[u].of, k>> \in Jobs /\ <<put[u].of, k>>[1] = put[u].of BY <3>1 DEF Jobs
    <3>3. pc' = pc /\ del' = del BY <1>7 DEF PutCommit
    <3>4. \A d \in Deletes : del[d].of = put[u].of /\ del[d].pc # "done" => "busy" \in causes'
      BY <1>7 DEF PutCommit
    <3>5. st'[<<put[u].of, k>>] = "pending" /\ \A j \in Jobs : j # <<put[u].of, k>> => st'[j] = st[j]
      BY <1>1, <2>2, <3>2
    <3>6. Recorded' BY <1>1, <2>2, <3>2, <3>3, <3>5 DEF Recorded, Active
    <3>7. \A j \in Jobs : StatusStep(j) BY <2>2, <3>2, <3>3, <3>4, <3>5 DEF StatusStep
    <3> QED BY <3>6, <3>7
  <2> QED BY <1>7, <2>1, <2>2 DEF PutCommit
<1>8. ASSUME NEW d \in Deletes, Delete(d) \/ DeleteDies(d) PROVE st' = st /\ pc' = pc
  BY <1>8 DEF Delete, DeleteLoad, DeleteDns, DeleteCheck, DeleteGuest, DeleteRow, DeleteDies
<1>9. ASSUME NEW v \in Ids, RemovedOnNode(v) PROVE st' = st /\ pc' = pc BY <1>9 DEF RemovedOnNode
<1>10. ASSUME UNCHANGED vars PROVE Goal BY <1>2, <1>10 DEF vars
<1>11. ASSUME NEW j \in Jobs, Begin(j) PROVE Goal
  <2>1. CASE Throw(j) BY <1>4, <2>1 DEF Throw
  <2>2. CASE /\ st[j] = "pending" /\ There(j[1]) /\ st' = [st EXCEPT ![j] = "running"]
             /\ \E step : pc' = [pc EXCEPT ![j] = step]
    <3>1. st'[j] = "running" /\ \A i \in Jobs : i # j => st'[i] = st[i] /\ pc'[i] = pc[i]
      BY <1>1, <2>2
    <3> QED BY <1>1, <2>2, <3>1 DEF Recorded, Active, StatusStep
  <2> QED BY <1>11, <2>1, <2>2 DEF Begin
<1>12. ASSUME NEW c \in Rows, NextId(c) \/ CreateGuest(c) \/ Persist(c) \/ Apply(c) \/ Store(c) PROVE Goal
  <2>1. /\ Active(Creation(c))
        /\ Throw(Creation(c)) \/ \E step \in Steps : Go(Creation(c), step)
    BY <1>12 DEF NextId, CreateGuest, Persist, Apply, Store, Active, Steps, CreateSteps
  <2> QED BY <1>3, <1>4, <2>1, JobsOf DEF Throw
<1>13. ASSUME NEW c \in Rows, FindServices(c) \/ Publish(c) PROVE Goal
  <2>1. /\ Active(Creation(c))
        /\ End(Creation(c), "success") \/ \E step \in Steps : Go(Creation(c), step)
    BY <1>13 DEF FindServices, Publish, Active, Steps, CreateSteps
  <2> QED BY <1>3, <1>4, <2>1, JobsOf
<1>14. ASSUME NEW j \in Jobs, StartGuest(j) \/ Record(j) \/ Reapply(j) \/ Check(j) \/ StopGuest(j)
       PROVE  Goal
  <2>1. /\ Active(j)
        /\ Throw(j) \/ End(j, "success") \/ \E step \in Steps : Go(j, step)
    BY <1>14 DEF StartGuest, Record, Reapply, Check, StopGuest, Active, Steps, CreateSteps, RestartSteps
  <2> QED BY <1>3, <1>4, <2>1 DEF Throw
<1>15. ASSUME NEW j \in Jobs, ScriptFails(j) \/ RecreateFails(j) \/ ScriptKilled(j) PROVE Goal
  <2>1. faults' = faults + 1 /\ (Throw(j) \/ End(j, "cancelled") \/ End(j, "running"))
    BY <1>15 DEF ScriptFails, RecreateFails, ScriptKilled, Fault
  <2> QED BY <1>4, <2>1 DEF Throw
<1> HIDE DEF Goal
<1>16. Goal
  <2>1. ASSUME NEW c \in Rows, Create(c) PROVE Goal BY <1>12, <1>13, <2>1 DEF Create
  <2>2. ASSUME NEW j \in Jobs, Script(j) PROVE Goal BY <1>11, <1>14, <2>2 DEF Script, Restart
  <2>3. (st' = st /\ pc' = pc) => Goal BY <1>2
  <2> QED BY <1>5, <1>6, <1>7, <1>8, <1>9, <1>10, <1>15, <2>1, <2>2, <2>3 DEF Next
<1> QED BY <1>16 DEF Goal

-----------------------------------------------------------------------------
(* What a DELETE is about to destroy *)

\* From the check of a guest's name to its destruction there is no other guest under its id,
\* unless another DELETE or the operator has destroyed it ("raced").  A Docker node never
\* gives an id again.
Checked ==
  /\ \A v \in Ids : On(v) => v \in issued
  /\ \A d \in Deletes : del[d].pc = "destroy" /\ "raced" \notin causes =>
       LET v == del[d].cid IN
       /\ v \in issued /\ (docker \/ On(v))
       /\ On(v) => guest[v].name = name[del[d].of]

LEMMA CheckedStep == ASSUME Shaped, Checked, [Next]_vars PROVE Checked'
<1>1. ASSUME NEW v \in Ids, On(v)' PROVE v \in issued'
  <2>1. GuestStep(v) BY GuestSteps
  <2>2. issued \subseteq issued' BY CausesGrow
  <2> QED BY <1>1, <2>1, <2>2 DEF GuestStep, Checked, On
<1>2. ASSUME NEW d \in Deletes, del'[d].pc = "destroy", "raced" \notin causes'
      PROVE  LET v == del'[d].cid IN
             /\ v \in issued' /\ (docker' \/ guest'[v] # None)
             /\ guest'[v] # None => guest'[v].name = name'[del'[d].of]
  <2>1. "raced" \notin causes /\ issued \subseteq issued' /\ docker' = docker
    BY <1>2, CausesGrow, Frames
  <2>2. \/ del'[d] = del[d]
        \/ /\ del[d].pc = "check" /\ del'[d].of = del[d].of /\ del'[d].cid = del[d].cid
           /\ guest' = guest /\ name' = name
           /\ On(del[d].cid) /\ guest[del[d].cid].name = name[del[d].of]
    BY <1>2, DeleteSteps
  <2>3. ASSUME NEW v \in Ids, v = del[d].cid, NEW c \in Rows, c = del[d].of, del'[d] = del[d]
        PROVE  /\ v \in issued' /\ (docker \/ guest'[v] # None)
               /\ guest'[v] # None => guest'[v].name = name'[c]
    <3>1. row[c] # "no" BY <1>2, <2>3 DEF Shaped, Placed
    <3>2. /\ v \in issued /\ (docker \/ On(v)) /\ (On(v) => guest[v].name = name[c])
      BY <1>2, <2>1, <2>3 DEF Checked
    <3>3. name'[c] = name[c] BY <3>1, RowsStay
    <3>4. GuestStep(v) BY GuestSteps
    <3>5. v # None /\ v \in issued' BY <2>1, <3>2
    <3>6. CASE guest'[v] = guest[v] BY <3>2, <3>3, <3>5, <3>6 DEF On
    <3>7. CASE On(v) /\ guest'[v] # None /\ guest'[v].name = guest[v].name
      BY <3>2, <3>3, <3>5, <3>7
    <3>8. CASE On(v) /\ guest'[v] = None
      <4>1. docker BY <1>2, <2>3, <3>4, <3>8 DEF GuestStep, On, Remakes
      <4> QED BY <3>5, <3>8, <4>1
    <3>9. CASE IF docker THEN v \notin issued ELSE ~On(v) BY <3>2, <3>9
    <3> QED BY <3>4, <3>6, <3>7, <3>8, <3>9 DEF GuestStep
  <2>4. CASE del'[d] = del[d]
    <3>1. del[d].cid \in Ids /\ del[d].of \in Rows BY <1>2, <2>4 DEF Shaped, Placed
    <3> QED BY <2>1, <2>3, <2>4, <3>1
  <2>5. CASE /\ del[d].pc = "check" /\ del'[d].of = del[d].of /\ del'[d].cid = del[d].cid
             /\ guest' = guest /\ name' = name
             /\ On(del[d].cid) /\ guest[del[d].cid].name = name[del[d].of]
    <3>1. del[d].cid \in Ids BY <2>5 DEF Shaped, Placed
    <3>2. del[d].cid \in issued BY <2>5, <3>1 DEF Checked
    <3> QED BY <2>1, <2>5, <3>2 DEF On
  <2> QED BY <2>2, <2>4, <2>5
<1>3. \A d \in Deletes : del'[d].pc = "destroy" => del'[d].cid \in Ids
  BY PlacedStep DEF Placed
<1> QED BY <1>1, <1>2, <1>3 DEF Checked, On

-----------------------------------------------------------------------------
(* Ids of rows *)

\* No two rows that are there have one name, or one id; a row has neither id nor address
\* before it is posted, and no id before its creation has stored one.
Distinct ==
  /\ \A b, c \in Rows : There(b) /\ There(c) /\ b # c =>
       name[b] # name[c] /\ (cid[b] # None => cid[b] # cid[c])
  /\ \A c \in Rows : row[c] = "no" => cid[c] = None /\ addr[c] = None
  /\ \A c \in Rows : cid[c] # None =>
       pc[Creation(c)] \in {"start", "record", "dns", "publish", "done"}

LEMMA DistinctStep == ASSUME Shaped, Distinct, [Next]_vars PROVE Distinct'
<1>1. ASSUME NEW b \in Rows, NEW c \in Rows, There(b)', There(c)', b # c
      PROVE  name'[b] # name'[c] /\ (cid'[b] # None => cid'[b] # cid'[c])
  <2>1. \A a \in Rows : There(a)' =>
          \/ There(a) /\ name'[a] = name[a]
          \/ /\ row[a] = "no" /\ \A e \in Rows : There(e) => name[e] # name'[a]
             /\ \A e \in Rows : e # a => row'[e] = row[e] /\ name'[e] = name[e]
    BY RowSteps DEF There
  <2>2. CASE There(b) /\ There(c)
    <3>1. name'[b] # name'[c] BY <1>1, <2>1, <2>2 DEF Distinct, There
    <3>2. ASSUME cid'[b] # None PROVE cid'[b] # cid'[c]
      <4>1. CASE cid'[b] = cid[b] /\ cid'[c] = cid[c] BY <1>1, <2>2, <3>2, <4>1 DEF Distinct
      <4>2. CASE /\ cid'[b] = mem[Creation(b)].vm
                 /\ \A e \in Rows : There(e) => cid[e] # mem[Creation(b)].vm
                 /\ \A e \in Rows : e # b => cid'[e] = cid[e]
        BY <1>1, <2>2, <4>2
      <4>3. CASE /\ cid'[c] = mem[Creation(c)].vm
                 /\ \A e \in Rows : There(e) => cid[e] # mem[Creation(c)].vm
                 /\ \A e \in Rows : e # c => cid'[e] = cid[e]
        BY <1>1, <2>2, <4>3
      <4> QED BY <4>1, <4>2, <4>3, IdSteps
    <3> QED BY <3>1, <3>2
  <2>3. ASSUME NEW a \in Rows, row[a] = "no" PROVE cid'[a] = None
    BY <2>3, IdSteps DEF Distinct, There
  <2>4. CASE row[b] = "no"
    <3>1. name'[b] # name'[c]
      <4>1. /\ \A e \in Rows : There(e) => name[e] # name'[b]
            /\ \A e \in Rows : e # b => row'[e] = row[e] /\ name'[e] = name[e]
        BY <1>1, <2>1, <2>4 DEF There
      <4> QED BY <1>1, <4>1 DEF There
    <3> QED BY <2>3, <2>4, <3>1
  <2>5. CASE row[c] = "no"
    <3>1. name'[b] # name'[c]
      <4>1. /\ \A e \in Rows : There(e) => name[e] # name'[c]
            /\ \A e \in Rows : e # c => row'[e] = row[e] /\ name'[e] = name[e]
        BY <1>1, <2>1, <2>5 DEF There
      <4> QED BY <1>1, <4>1 DEF There
    <3> QED BY <2>3, <2>5, <3>1
  <2> QED BY <1>1, <2>1, <2>2, <2>4, <2>5
<1>2. ASSUME NEW c \in Rows, row'[c] = "no" PROVE cid'[c] = None /\ addr'[c] = None
  <2>1. row[c] = "no" BY <1>2, RowsStay
  <2> QED BY <2>1, IdSteps DEF Distinct, There
<1>3. ASSUME NEW c \in Rows, cid'[c] # None
      PROVE  pc'[Creation(c)] \in {"start", "record", "dns", "publish", "done"}
  <2>1. Creation(c) \in Jobs /\ Creation(c)[1] = c BY JobsOf
  <2>2. CASE cid'[c] = cid[c]
    <3>1. pc[Creation(c)] \in {"start", "record", "dns", "publish", "done"} /\ cid[c] # None
      BY <1>3, <2>2 DEF Distinct
    <3>2. ScriptStep(Creation(c)) BY <2>1, ScriptSteps
    <3> QED BY <2>1, <3>1, <3>2 DEF ScriptStep, Follows
  <2>3. CASE pc'[Creation(c)] = "start" BY <2>3
  <2> QED BY <2>2, <2>3, IdSteps
<1> QED BY <1>1, <1>2, <1>3 DEF Distinct
-----------------------------------------------------------------------------
(* Ids of a Docker node *)

Its(c, v) == On(v) /\ guest[v].of = c /\ guest[v].name = name[c]

\* An id that was made for c: no other container's guest ever answers to it.
MadeFor(c, v) == v \in issued /\ (On(v) => Its(c, v))

\* A script that has the id of a guest.
Handles(j) == Active(j) /\ pc[j] \notin {"id", "create"}

\* On a Docker node an id is never given again, and so rows and scripts have ids of their own,
\* though the guest may have gone.
Faithful ==
  docker => \A c \in Rows :
    /\ cid[c] # None => MadeFor(c, cid[c])
    /\ \A j \in Jobs : j[1] = c /\ Handles(j) => MadeFor(c, mem[j].vm)

LEMMA FaithfulStep == ASSUME Shaped, Checked, Distinct, Faithful, [Next]_vars PROVE Faithful'
<1>1. /\ TypeOK /\ docker' = docker /\ Checked' /\ issued \subseteq issued'
      /\ guest \in [Ids -> Guests \cup {None}]
  BY Frames, CheckedStep, CausesGrow DEF Shaped, TypeOK
<1> SUFFICES ASSUME docker, NEW c \in Rows
             PROVE  /\ cid'[c] # None => MadeFor(c, cid[c])'
                    /\ \A j \in Jobs : j[1] = c /\ Handles(j)' => MadeFor(c, mem[j].vm)'
  BY <1>1 DEF Faithful
<1>2. ASSUME NEW v \in Ids, MadeFor(c, v), row[c] # "no"
      PROVE  v \in issued' /\ (guest'[v] # None => guest'[v].of = c /\ guest'[v].name = name'[c])
  <2>1. name'[c] = name[c] BY <1>2, RowsStay
  <2>2. GuestStep(v) BY GuestSteps
  <2> QED BY <1>1, <1>2, <2>1, <2>2 DEF MadeFor, Its, On, GuestStep
<1>3. \A v : MadeFor(c, v) => v \in Ids BY <1>1 DEF MadeFor, TypeOK
<1>4. ASSUME cid'[c] # None PROVE MadeFor(c, cid[c])'
  <2>2. CASE cid'[c] = cid[c]
    <3>1. MadeFor(c, cid[c]) /\ row[c] # "no" BY <1>4, <2>2 DEF Faithful, Distinct
    <3> QED BY <1>2, <1>3, <2>2, <3>1 DEF MadeFor, Its, On
  <2>3. CASE There(c) /\ pc[Creation(c)] = "store" /\ cid'[c] = mem[Creation(c)].vm
    <3>1. Handles(Creation(c)) BY <2>3 DEF Handles, Active, Steps, CreateSteps
    <3>2. MadeFor(c, mem[Creation(c)].vm) BY <3>1, JobsOf DEF Faithful
    <3> QED BY <1>2, <1>3, <2>3, <3>2 DEF MadeFor, Its, On, There
  <2> QED BY <2>2, <2>3, IdSteps
<1>5. ASSUME NEW j \in Jobs, j[1] = c, Handles(j)' PROVE MadeFor(c, mem[j].vm)'
  <2>1. ScriptStep(j) BY ScriptSteps
  <2>2. Active(j) => row[c] # "no" BY <1>5 DEF Shaped, Placed
  <2>3. CASE Handles(j) /\ mem'[j] = mem[j]
    <3>1. MadeFor(c, mem[j].vm) /\ row[c] # "no" BY <1>5, <2>2, <2>3 DEF Faithful, Handles
    <3> QED BY <1>2, <1>3, <2>3, <3>1 DEF MadeFor, Its, On
  <2>4. CASE There(c) /\ mem'[j].vm = cid[c] /\ cid[c] # None
    <3>1. MadeFor(c, cid[c]) BY <2>4 DEF Faithful
    <3> QED BY <1>2, <1>3, <2>4, <3>1 DEF MadeFor, Its, On, There
  <2>5. CASE j = Creation(c) /\ pc[j] = "create" /\ Makes(c)
    <3>1. row[c] # "no" BY <2>2, <2>5 DEF Active, Steps, CreateSteps
    <3>2. name'[c] = name[c] BY <3>1, RowsStay
    <3>3. mem'[j].vm \in issued' BY <1>1, <2>5 DEF Checked, Makes, On
    <3> QED BY <2>5, <3>2, <3>3 DEF MadeFor, Its, On, Makes
  <2>6. CASE Remakes(j) /\ Remade(j)
    <3>1. Handles(j) BY <2>6 DEF Remakes, Handles, Active, Steps, CreateSteps, RestartSteps
    <3>2. Its(c, mem[j].vm) /\ row[c] # "no"
      BY <1>5, <2>2, <2>6, <3>1 DEF Faithful, MadeFor, Remakes, Handles
    <3>3. name'[c] = name[c] BY <3>2, RowsStay
    <3>4. mem'[j].vm \in issued' BY <1>1, <2>6 DEF Checked, Remade, On
    <3> QED BY <2>6, <3>2, <3>3, <3>4 DEF MadeFor, Its, On, Remade
  <2>7. \/ Handles(j) /\ mem'[j] = mem[j]
        \/ There(c) /\ mem'[j].vm = cid[c] /\ cid[c] # None
        \/ j = Creation(c) /\ pc[j] = "create" /\ Makes(c)
        \/ Remakes(j) /\ Remade(j)
    BY <1>5, <2>1 DEF ScriptStep, Handles, Active, Follows, Steps, CreateSteps, RestartSteps
  <2> QED BY <2>3, <2>4, <2>5, <2>6, <2>7
<1> QED BY <1>4, <1>5

Reconfigurations == Rows \X (1..MaxRestarts)

LEMMA ReconfigurationsAre ==
  ASSUME NEW i \in Reconfigurations
  PROVE  /\ i \in Jobs /\ i[1] \in Rows /\ i # Creation(i[1])
         /\ \A c \in Rows : i # Creation(c)
         /\ \E k \in 1..MaxRestarts : i = <<i[1], k>>
BY DEF Reconfigurations, Jobs, Creation

\* A container that keeps its guest when it is configured: on a Proxmox node, or on a Docker node
\* as long as no reconfiguration of it has begun.
Keeps(c) == docker => \A i \in Reconfigurations : i[1] = c => st[i] \in {"absent", "pending"}

AllKeep == \A c \in Rows : Keeps(c)

\* The only script of such a container that runs on a Docker node is its creation.
LEMMA OnlyCreations ==
  ASSUME Shaped, docker, NEW j \in Jobs, Keeps(j[1]), Active(j)
  PROVE  j = Creation(j[1]) /\ pc[j] \in CreateSteps
<1>1. st[j] = "running" BY DEF Shaped, Recorded
<1>2. j \notin Reconfigurations BY <1>1 DEF Keeps
<1>3. j = Creation(j[1]) BY <1>2 DEF Jobs, Reconfigurations, Creation
<1> QED BY <1>3 DEF Shaped, Placed

\* Who makes it anew there is its own creation, before it has stored the id.
LEMMA RemakesOwn ==
  ASSUME Shaped, Faithful, NEW j \in Jobs, Keeps(j[1]), Remakes(j)
  PROVE  /\ docker /\ j[1] \in Rows /\ j = Creation(j[1]) /\ pc[j] = "apply"
         /\ Its(j[1], mem[j].vm)
<1>1. docker /\ Handles(j) /\ On(mem[j].vm) /\ j[1] \in Rows
  BY DEF Remakes, Handles, Active, Steps, CreateSteps, RestartSteps, Jobs
<1>2. j = Creation(j[1]) /\ pc[j] = "apply"
  BY <1>1, OnlyCreations DEF Handles, Remakes, CreateSteps
<1> QED BY <1>1, <1>2 DEF Faithful, MadeFor

\* A container that keeps its guest has kept it so far: what is absent or pending was never begun.
LEMMA KeepsBefore == ASSUME Shaped, [Next]_vars, NEW c \in Rows, Keeps(c)' PROVE Keeps(c)
<1> SUFFICES ASSUME docker, NEW i \in Reconfigurations, i[1] = c PROVE st[i] \in {"absent", "pending"}
  BY DEF Keeps
<1>1. st'[i] \in {"absent", "pending"} BY Frames DEF Keeps
<1>2. i \in Jobs /\ i # Creation(i[1]) BY ReconfigurationsAre
<1>3. StatusStep(i) BY <1>2, StatusSteps
<1> QED BY <1>1, <1>2, <1>3 DEF StatusStep

-----------------------------------------------------------------------------
(* DELETEs that do not overlap *)

\* DELETEs under way are of different rows, which are there and have the ids they noted.
Aimed ==
  "overlap" \notin causes =>
    /\ \A d, e \in Deletes : Deleting(d) /\ Deleting(e) /\ d # e => del[d].of # del[e].of
    /\ \A d \in Deletes : Deleting(d) =>
         /\ There(del[d].of)
         /\ del[d].cid # None => cid[del[d].of] = del[d].cid

LEMMA AimedStep == ASSUME Shaped, Distinct, Aimed, [Next]_vars PROVE Aimed'
<1> SUFFICES ASSUME "overlap" \notin causes'
             PROVE  /\ \A d, e \in Deletes : Deleting(d)' /\ Deleting(e)' /\ d # e => del'[d].of # del'[e].of
                    /\ \A d \in Deletes : Deleting(d)' =>
                         /\ row'[del'[d].of] = "yes"
                         /\ del'[d].cid # None => cid'[del'[d].of] = del'[d].cid
  BY DEF Aimed, Deleting, There
<1>1. "overlap" \notin causes BY CausesGrow
<1>2. \A d \in Deletes : Deleting(d)' =>
        \/ Deleting(d) /\ del'[d].of = del[d].of /\ del'[d].cid = del[d].cid
        \/ /\ del[d].pc = "idle" /\ del'[d].of \in Rows
           /\ There(del'[d].of) /\ del'[d].cid = cid[del'[d].of]
           /\ row' = row /\ cid' = cid
           /\ \A e \in Deletes : e # d => del'[e] = del[e]
           /\ \A e \in Deletes : del[e].of # del'[d].of \/ del[e].pc = "done"
  BY DeleteSteps DEF Deleting
<1>3. ASSUME NEW d \in Deletes, NEW e \in Deletes, Deleting(d)', Deleting(e)', d # e
      PROVE  del'[d].of # del'[e].of
  <2>1. CASE Deleting(d) /\ Deleting(e) /\ del'[d].of = del[d].of /\ del'[e].of = del[e].of
    BY <1>1, <1>3, <2>1 DEF Aimed
  <2>2. CASE del'[e] = del[e] /\ (del[e].of # del'[d].of \/ del[e].pc = "done")
    BY <1>3, <2>2 DEF Deleting
  <2>3. CASE del'[d] = del[d] /\ (del[d].of # del'[e].of \/ del[d].pc = "done")
    BY <1>3, <2>3 DEF Deleting
  <2> QED BY <1>2, <1>3, <2>1, <2>2, <2>3
<1>4. ASSUME NEW d \in Deletes, Deleting(d)'
      PROVE  /\ row'[del'[d].of] = "yes"
             /\ del'[d].cid # None => cid'[del'[d].of] = del'[d].cid
  <2>1. CASE Deleting(d) /\ del'[d].of = del[d].of /\ del'[d].cid = del[d].cid
    <3>1. /\ del[d].of \in Rows /\ There(del[d].of)
          /\ del[d].cid # None => cid[del[d].of] = del[d].cid
      BY <1>1, <2>1 DEF Aimed, Shaped, Placed, Deleting
    <3>2. row'[del[d].of] = "yes"
      <4>1. CASE row'[del[d].of] = row[del[d].of] BY <3>1, <4>1 DEF There
      <4>2. ASSUME NEW e \in Deletes, del[e].pc = "row", del[e].of = del[d].of, del'[e].pc = "done"
            PROVE  FALSE
        <5>1. Deleting(e) BY <4>2 DEF Deleting
        <5>2. e = d BY <1>1, <2>1, <4>2, <5>1 DEF Aimed
        <5> QED BY <1>4, <4>2, <5>2 DEF Deleting
      <4> QED BY <3>1, <4>1, <4>2, RowSteps DEF There
    <3>3. del[d].cid # None => cid'[del[d].of] = del[d].cid
      <4>1. CASE cid'[del[d].of] = cid[del[d].of] BY <3>1, <4>1
      <4>2. CASE pc[Creation(del[d].of)] = "store" BY <3>1, <4>2 DEF Distinct
      <4> QED BY <3>1, <4>1, <4>2, IdSteps
    <3> QED BY <2>1, <3>2, <3>3
  <2>2. CASE There(del'[d].of) /\ del'[d].cid = cid[del'[d].of] /\ row' = row /\ cid' = cid
    BY <2>2 DEF There
  <2> QED BY <1>2, <1>4, <2>1, <2>2
<1> QED BY <1>3, <1>4

-----------------------------------------------------------------------------
(* A row's own guest *)

\* Nobody but the manager destroys guests, one DELETE of a container at a time.
Quiet == removals = 0 /\ "overlap" \notin causes

\* Two DELETEs do not have one id in mind, as their rows are there and have it.
NoRace == Quiet => "raced" \notin causes

\* The steps of a creation that has made its guest.
Later == {"persist", "apply", "store", "start", "record", "dns", "publish"}

\* The guests that a row's id and its scripts' ids stand for are its own.
OwnGuest(c) ==
  /\ cid[c] # None => Its(c, cid[c])
  /\ addr[c] \in {c, None}
  /\ pc[Creation(c)] \in Later => Its(c, mem[Creation(c)].vm)
  /\ \A j \in Jobs : j[1] = c /\ j # Creation(c) /\ Active(j) =>
       cid[c] # None /\ mem[j].vm = cid[c]

Owned == Quiet => \A c \in Rows : There(c) /\ ~Targeted(c) /\ Keeps(c) => OwnGuest(c)

LEMMA QuietBefore == ASSUME Shaped, Quiet', [Next]_vars PROVE Quiet /\ removals' = removals
<1>1. "overlap" \notin causes BY CausesGrow DEF Quiet
<1>2. removals \in Nat BY DEF Shaped, TypeOK
<1>3. removals' = removals \/ removals' = removals + 1
  BY Frames DEF RemovedOnNode, vars, budget
<1> QED BY <1>1, <1>2, <1>3 DEF Quiet

\* Who deletes a guest is its own row, and no other DELETE is about to.
LEMMA DestroysOwn ==
  ASSUME Shaped, Distinct, Aimed, Checked, NoRace, Quiet,
         NEW d \in Deletes, del[d].pc = "destroy"
  PROVE  /\ del[d].cid # None
         /\ On(del[d].cid) => guest[del[d].cid].name = name[del[d].of]
         /\ del[d].of \in Rows /\ There(del[d].of) /\ cid[del[d].of] = del[d].cid
<1>1. Deleting(d) /\ del[d].cid \in Ids /\ del[d].of \in Rows BY DEF Deleting, Shaped, Placed
<1>2. On(del[d].cid) => guest[del[d].cid].name = name[del[d].of]
  BY DEF Checked, NoRace, Quiet
<1> QED BY <1>1, <1>2 DEF Aimed, Quiet

LEMMA NoRaceStep ==
  ASSUME Shaped, Distinct, Aimed, Checked, NoRace, [Next]_vars
  PROVE  NoRace'
<1> SUFFICES ASSUME Quiet' PROVE "raced" \notin causes'
  BY DEF NoRace
<1> USE DEF rowVars, nodeVars, jobVars, reqVars, budget
<1>1. Quiet /\ removals' = removals /\ "raced" \notin causes BY QuietBefore DEF NoRace
<1>2. removals \in Nat BY DEF Shaped, TypeOK
<1>3. ASSUME NEW d \in Deletes, DeleteGuest(d) PROVE "raced" \notin causes'
  <2>1. ASSUME NEW e \in Deletes \ {d}, del[e].pc = "destroy", del[e].cid = del[d].cid
        PROVE  FALSE
    <3>1. del[d].pc = "destroy" BY <1>3 DEF DeleteGuest
    <3>2. del[d].of = del[e].of
      BY <1>1, <2>1, <3>1, DestroysOwn DEF Distinct
    <3>3. Deleting(d) /\ Deleting(e) BY <2>1, <3>1 DEF Deleting
    <3> QED BY <1>1, <2>1, <3>2, <3>3 DEF Aimed, Quiet
  <2> QED BY <1>1, <1>3, <2>1 DEF DeleteGuest, Remove
<1>4. ASSUME NEW d \in Deletes, Delete(d) \/ DeleteDies(d), ~DeleteGuest(d) PROVE "raced" \notin causes'
  BY <1>1, <1>4 DEF Delete, DeleteLoad, DeleteDns, DeleteCheck, DeleteRow, DeleteDies
<1>5. ASSUME NEW c \in Rows, Post(c) PROVE causes' = causes BY <1>5 DEF Post
<1>6. ASSUME NEW u \in Updates, PutLoad(u) \/ PutCommit(u) PROVE "raced" \notin causes'
  BY <1>1, <1>6 DEF PutLoad, PutCommit
<1>7. ASSUME NEW c \in Rows, Create(c) PROVE "raced" \notin causes'
  BY <1>1, <1>7 DEF Create, NextId, CreateGuest, Persist, Apply, Store, FindServices, Publish
<1>8. ASSUME NEW j \in Jobs, JobStep(j) PROVE causes' = causes
  BY <1>8 DEF JobStep, Script, Restart, Begin, StartGuest, Record, Reapply, Check, StopGuest,
     ScriptFails, RecreateFails, ScriptKilled
<1>9. ASSUME NEW v \in Ids, RemovedOnNode(v) PROVE FALSE
  BY <1>1, <1>2, <1>9 DEF RemovedOnNode
<1>10. CASE UNCHANGED vars BY <1>1, <1>10 DEF vars
<1> QED BY <1>1, <1>3, <1>4, <1>5, <1>6, <1>7, <1>8, <1>9, <1>10 DEF Next, JobStep

\* The creation of c makes its guest v anew.
Replaces(c, v) == Remakes(Creation(c)) /\ mem[Creation(c)].vm = v

\* A guest of a container that nobody deletes stays, or is made anew: who destroys a guest has
\* found its own row's name on it, and names are different.
LEMMA ItsLasts ==
  ASSUME Shaped, Distinct, Aimed, Checked, Faithful, NoRace, [Next]_vars, Quiet',
         NEW c \in Rows, There(c), ~Targeted(c), Keeps(c), NEW v \in Ids, Its(c, v), ~Replaces(c, v)
  PROVE  guest'[v] # None /\ guest'[v].of = c /\ guest'[v].name = name'[c]
<1>1. Quiet /\ removals' = removals /\ removals \in Nat BY QuietBefore DEF Shaped, TypeOK
<1>2. name'[c] = name[c] BY RowsStay DEF There
<1>3. GuestStep(v) BY GuestSteps
<1>4. ASSUME NEW d \in Deletes, del[d].pc = "destroy", del[d].cid = v PROVE FALSE
  <2>1. guest[v].name = name[del[d].of] /\ del[d].of \in Rows /\ There(del[d].of)
    BY <1>1, <1>4, DestroysOwn DEF Its
  <2>2. del[d].of = c BY <2>1 DEF Its, Distinct
  <2> QED BY <2>2 DEF Targeted
<1>5. ASSUME NEW j \in Jobs, Remakes(j), mem[j].vm = v PROVE FALSE
  <2>1. docker /\ Handles(j) /\ On(v) /\ j[1] \in Rows
    BY <1>5 DEF Remakes, Handles, Active, Steps, CreateSteps, RestartSteps, Jobs
  <2>2. j[1] = c BY <1>5, <2>1 DEF Faithful, MadeFor, Its
  <2>3. j = Creation(c) BY <1>5, <2>2, RemakesOwn
  <2> QED BY <1>5, <2>3 DEF Replaces
<1>6. v # None /\ guest[v] # None /\ guest[v].of = c /\ guest[v].name = name[c] BY DEF Its, On
<1>7. \/ guest'[v] = guest[v]
      \/ guest'[v].name = guest[v].name /\ guest'[v].of = guest[v].of /\ guest'[v] # None
      \/ docker /\ v \notin issued
  BY <1>1, <1>3, <1>4, <1>5, <1>6 DEF GuestStep, On
<1>8. v \in issued BY DEF Checked, Its
<1> QED BY <1>2, <1>6, <1>7, <1>8

LEMMA OwnedStep ==
  ASSUME Shaped, Distinct, Aimed, Checked, Faithful, NoRace, Owned, [Next]_vars
  PROVE  Owned'
<1> SUFFICES ASSUME Quiet', NEW c \in Rows, There(c)', ~Targeted(c)', Keeps(c)'
             PROVE  /\ cid'[c] # None => Its(c, cid[c])'
                    /\ addr'[c] \in {c, None}
                    /\ pc'[Creation(c)] \in Later => Its(c, mem[Creation(c)].vm)'
                    /\ \A j \in Jobs : j[1] = c /\ j # Creation(c) /\ Active(j)' =>
                         cid'[c] # None /\ mem'[j].vm = cid'[c]
  BY DEF Owned, OwnGuest
<1>1. Quiet /\ TypeOK /\ Keeps(c) BY QuietBefore, KeepsBefore DEF Shaped
<1>2. Creation(c) \in Jobs /\ Creation(c)[1] = c BY JobsOf
<1>3. \A j \in Jobs : ScriptStep(j) BY ScriptSteps
<1>4. ~Targeted(c)
  <2>1. ASSUME NEW d \in Deletes, del[d].of = c PROVE del'[d].of = c
    <3>1. del[d].pc # "idle" BY <2>1 DEF Shaped, Placed
    <3> QED BY <2>1, <3>1, DeleteSteps
  <2> QED BY <2>1 DEF Targeted
<1>5. CASE row[c] = "no"
  <2>1. cid[c] = None /\ addr[c] = None /\ ~There(c) BY <1>5 DEF Distinct, There
  <2>2. cid'[c] = None /\ addr'[c] = None BY <2>1, IdSteps
  <2>3. ASSUME NEW j \in Jobs, j[1] = c PROVE ~Active(j)'
    <3>1. ~Active(j) BY <1>5, <2>3 DEF Shaped, Placed
    <3>2. \/ pc'[j] = pc[j] \/ pc'[j] = "done"
          \/ pc[j] \in {"id", "create", "apply"} \/ <<pc[j], pc'[j]>> \in Follows
      BY <1>3, <2>1, <2>3 DEF ScriptStep
    <3> QED BY <3>1, <3>2 DEF Active, Follows, Steps, CreateSteps, RestartSteps
  <2>4. pc'[Creation(c)] \notin Later
    BY <1>2, <2>3 DEF Active, Later, Steps, CreateSteps
  <2> QED BY <2>2, <2>3, <2>4
<1>6. CASE row[c] # "no"
  <2>1. There(c)
    <3>1. row[c] \in {"no", "yes", "gone"} BY <1>1 DEF TypeOK
    <3>2. row'[c] = "yes" BY DEF There
    <3> QED BY <1>6, <3>1, <3>2, RowSteps DEF There
  <2>2. OwnGuest(c) BY <1>1, <1>4, <2>1 DEF Owned
  <2>3. \A v \in Ids : Its(c, v) /\ ~Replaces(c, v) =>
          guest'[v] # None /\ guest'[v].of = c /\ guest'[v].name = name'[c]
    BY <1>1, <1>4, <2>1, ItsLasts
  <2>4. /\ cid[c] \in Ids \cup {None} /\ \A j \in Jobs : mem[j].vm \in Ids \cup {None}
    BY <1>1 DEF TypeOK
  <2>5. cid'[c] # None =>
          guest'[cid'[c]] # None /\ guest'[cid'[c]].of = c /\ guest'[cid'[c]].name = name'[c]
    <3>1. CASE cid'[c] = cid[c]
      <4>1. ASSUME cid[c] # None PROVE ~Replaces(c, cid[c])
        <5>1. pc[Creation(c)] \in CreateSteps \cup {"done"} /\ pc[Creation(c)] # "apply"
          BY <4>1 DEF Distinct, CreateSteps
        <5> QED BY <5>1 DEF Replaces, Remakes, CreateSteps
      <4> QED BY <2>2, <2>3, <2>4, <3>1, <4>1 DEF OwnGuest
    <3>2. CASE pc[Creation(c)] = "store" /\ cid'[c] = mem[Creation(c)].vm
      <4>1. Its(c, mem[Creation(c)].vm) BY <2>2, <3>2 DEF OwnGuest, Later
      <4>2. ~Replaces(c, mem[Creation(c)].vm) BY <3>2 DEF Replaces, Remakes
      <4> QED BY <1>2, <2>3, <2>4, <3>2, <4>1, <4>2
    <3> QED BY <3>1, <3>2, IdSteps
  <2>6. addr'[c] \in {c, None}
    <3>1. CASE addr'[c] = addr[c] BY <2>2, <3>1 DEF OwnGuest
    <3>2. ASSUME NEW j \in Jobs, j[1] = c, pc[j] = "record", addr'[c] = guest[mem[j].vm].of
          PROVE  addr'[c] = c
      <4>1. CASE j = Creation(c) BY <2>2, <3>2, <4>1 DEF OwnGuest, Later, Its
      <4>2. CASE j # Creation(c)
        <5>1. Active(j) BY <3>2 DEF Active, Steps, CreateSteps
        <5> QED BY <2>2, <3>2, <4>2, <5>1 DEF OwnGuest, Its
      <4> QED BY <4>1, <4>2
    <3> QED BY <3>1, <3>2, IdSteps
  <2>7. ASSUME pc'[Creation(c)] \in Later
        PROVE  /\ mem'[Creation(c)].vm # None
               /\ guest'[mem'[Creation(c)].vm] # None
               /\ guest'[mem'[Creation(c)].vm].of = c
               /\ guest'[mem'[Creation(c)].vm].name = name'[c]
    <3>1. CASE /\ pc[Creation(c)] \in Later /\ mem'[Creation(c)] = mem[Creation(c)]
               /\ ~Remakes(Creation(c))
      <4>1. Its(c, mem[Creation(c)].vm) BY <2>2, <3>1 DEF OwnGuest
      <4> QED BY <1>2, <2>3, <2>4, <3>1, <4>1 DEF Its, On, Replaces
    <3>2. CASE Makes(c)
      <4>1. name'[c] = name[c] BY <2>1, RowsStay DEF There
      <4> QED BY <3>2, <4>1 DEF Makes
    <3>3. CASE pc[Creation(c)] \in Later /\ Remade(Creation(c))
      <4>1. Its(c, mem[Creation(c)].vm) BY <2>2, <3>3 DEF OwnGuest
      <4>2. name'[c] = name[c] BY <2>1, RowsStay DEF There
      <4> QED BY <3>3, <4>1, <4>2 DEF Remade, Its
    <3>4. \/ pc[Creation(c)] \in Later /\ mem'[Creation(c)] = mem[Creation(c)] /\ ~Remakes(Creation(c))
          \/ pc[Creation(c)] \in Later /\ Remade(Creation(c))
          \/ Makes(c)
      <4>1. ScriptStep(Creation(c)) BY <1>2, <1>3
      <4>2. Active(Creation(c)) => pc[Creation(c)] \in CreateSteps BY <1>2 DEF Shaped, Placed
      <4> QED BY <1>2, <2>7, <4>1, <4>2
              DEF ScriptStep, Follows, Remakes, Later, Active, Steps, CreateSteps, RestartSteps
    <3> QED BY <3>1, <3>2, <3>3, <3>4
  <2>8. ASSUME NEW j \in Jobs, j[1] = c, j # Creation(c), Active(j)'
        PROVE  cid'[c] # None /\ mem'[j].vm = cid'[c]
    <3>1. ScriptStep(j) BY <1>3
    <3>2. \/ Active(j) /\ mem'[j] = mem[j]
          \/ mem'[j].vm = cid[c] /\ cid[c] # None
      BY <2>8, <3>1 DEF ScriptStep, Follows, Active, Steps, CreateSteps, RestartSteps
    <3>3. cid[c] # None /\ mem'[j].vm = cid[c] BY <2>2, <2>8, <3>2 DEF OwnGuest
    <3>4. cid'[c] = cid[c] BY <3>3, IdSteps DEF Distinct
    <3> QED BY <3>3, <3>4
  <2> QED BY <2>5, <2>6, <2>7, <2>8 DEF Its, On
<1> QED BY <1>5, <1>6

-----------------------------------------------------------------------------
(* The theorems *)

IInv == Shaped /\ Checked /\ Distinct /\ Faithful /\ Aimed /\ NoRace /\ Owned

LEMMA IInvInitially == Init => IInv
<1> SUFFICES ASSUME Init PROVE IInv
  OBVIOUS
<1>1. Shaped BY Initially
<1>2. Checked BY DEF Init, Checked, On
<1>3. Distinct BY DEF Init, Distinct, There
<1>4. Aimed BY DEF Init, Aimed, Deleting
<1>5. NoRace BY DEF Init, NoRace
<1>6. Owned BY DEF Init, Owned, There
<1>7. Faithful BY DEF Init, Faithful, Handles, Active, Steps, CreateSteps, RestartSteps
<1> QED BY <1>1, <1>2, <1>3, <1>4, <1>5, <1>6, <1>7 DEF IInv

LEMMA IInvStep == IInv /\ [Next]_vars => IInv'
BY TypeStep, PlacedStep, StatusSteps, CheckedStep, DistinctStep, FaithfulStep, AimedStep, NoRaceStep,
   OwnedStep DEF IInv, Shaped

\* The type invariant of rows, node, jobs and requests.
THEOREM TypeCorrect == Spec => []TypeOK
<1>1. IInv => TypeOK BY DEF IInv, Shaped
<1> QED BY <1>1, IInvInitially, IInvStep, PTL DEF Spec

\* DELETE /containers/:id compares the node's hostname with the row's and then destroys: on
\* both kinds of node, and with any number of requests, what disappears has the row's name,
\* unless another DELETE or the operator has destroyed it in between.
THEOREM DeletesSpareOthers == Spec => DeleteSparesOthers
<1>1. ASSUME IInv, [Next]_vars
      PROVE  [\A d \in Deletes : LET v == del[d].cid IN
                /\ del[d].pc = "destroy" /\ v # None
                /\ On(v) /\ guest'[v] = None
                /\ "raced" \notin causes
                => guest[v].name = name[del[d].of]]_vars
  BY <1>1 DEF IInv, Checked
<1> QED BY <1>1, IInvInitially, IInvStep, PTL DEF Spec, DeleteSparesOthers

\* Whichever call fails or script dies, and though two creations may be given the same VMID: a
\* row that nobody deletes, of a container that keeps its guest, has the id and the address of
\* its own guest.  (On Docker its creation makes that guest anew, others may be reconfigured.)
THEOREM RowsOfKeepers ==
  Spec => [](removals = 0 /\ "overlap" \notin causes => \A c \in Rows :
               There(c) /\ ~Targeted(c) /\ Keeps(c) =>
                 /\ cid[c] # None => On(cid[c]) /\ guest[cid[c]].of = c /\ guest[cid[c]].name = name[c]
                 /\ addr[c] \in {c, None})
<1>1. IInv => (removals = 0 /\ "overlap" \notin causes => \A c \in Rows :
                 There(c) /\ ~Targeted(c) /\ Keeps(c) =>
                   /\ cid[c] # None => On(cid[c]) /\ guest[cid[c]].of = c /\ guest[cid[c]].name = name[c]
                   /\ addr[c] \in {c, None})
  BY DEF IInv, Owned, OwnGuest, Its, Quiet
<1> QED BY <1>1, IInvInitially, IInvStep, PTL DEF Spec

\* Where every container keeps its guest (on Proxmox always, on Docker until something is
\* reconfigured), that is what the run checks.
THEOREM RowsDescribe == Spec => [](AllKeep => RowsDescribeTheirGuest)
<1>1. IInv => (AllKeep => RowsDescribeTheirGuest)
  BY DEF IInv, Owned, OwnGuest, Its, Quiet, RowsDescribeTheirGuest, AllKeep
<1> QED BY <1>1, IInvInitially, IInvStep, PTL DEF Spec

-----------------------------------------------------------------------------
(* What is left behind *)

\* Every call succeeds, and nothing races.
Smooth == faults = 0 /\ removals = 0 /\ causes = {}

\* And no container has lost its guest by a reconfiguration.
Calm == AllKeep /\ Smooth

\* Scripts work for rows that are there and that nobody deletes; a DELETE that is over has
\* deleted its row.
Undisturbed ==
  /\ \A j \in Jobs : Active(j) => There(j[1])
  /\ \A d \in Deletes : del[d].pc # "idle" =>
       IF del[d].pc = "done" THEN row[del[d].of] = "gone"
       ELSE \A j \in Jobs : j[1] = del[d].of => ~Open(j)

\* The guest a row has the id of is there until a DELETE of the row has destroyed it.
Standing ==
  \A c \in Rows : There(c) /\ cid[c] # None =>
    Its(c, cid[c]) \/ \E d \in Deletes : del[d].of = c /\ del[d].pc = "row"

\* A creation that has made its guest and not yet stored the id.
Unstored == {"persist", "apply", "store"}

\* A guest's row is there, and has its id or is about to.
Belongs ==
  \A v \in Ids : On(v) =>
    LET c == guest[v].of IN
    /\ There(c)
    /\ \/ cid[c] = v
       \/ cid[c] = None /\ pc[Creation(c)] \in Unstored /\ mem[Creation(c)].vm = v

\* A DELETE that has nothing more to destroy has left nothing of its container.
Cleared ==
  \A d \in Deletes :
    del[d].pc = "row" \/ (del[d].pc = "dns" /\ del[d].cid = None) =>
      \A v \in Ids : On(v) => guest[v].of # del[d].of

\* The record goes before the row, and does not come back.
Unpublished ==
  /\ \A c \in Rows : row[c] = "gone" => ~dns[c]
  /\ \A d \in Deletes : Deleting(d) /\ del[d].pc # "dns" => ~dns[del[d].of]

Kept == Undisturbed /\ Standing /\ Belongs /\ Cleared /\ Unpublished

-----------------------------------------------------------------------------
LEMMA FaultsGrow ==
  ASSUME Shaped, [Next]_vars
  PROVE  faults' = faults \/ faults' = faults + 1
<1> USE DEF rowVars, nodeVars, jobVars, reqVars, budget
<1>1. ASSUME NEW c \in Rows, Post(c) PROVE faults' = faults BY <1>1 DEF Post
<1>2. ASSUME NEW u \in Updates, PutLoad(u) \/ PutCommit(u) PROVE faults' = faults
  BY <1>2 DEF PutLoad, PutCommit
<1>3. ASSUME NEW d \in Deletes, Delete(d) \/ DeleteDies(d) PROVE faults' = faults \/ faults' = faults + 1
  BY <1>3 DEF Delete, DeleteLoad, DeleteDns, DeleteCheck, DeleteGuest, DeleteRow, DeleteDies, Fault
<1>4. ASSUME NEW c \in Rows, Create(c) PROVE faults' = faults \/ faults' = faults + 1
  BY <1>4 DEF Create, NextId, CreateGuest, Persist, Apply, Store, FindServices, Publish, Fault
<1>5. ASSUME NEW j \in Jobs, JobStep(j) PROVE faults' = faults \/ faults' = faults + 1
  BY <1>5 DEF JobStep, Script, Restart, Begin, StartGuest, Record, Reapply, Check, StopGuest,
     ScriptFails, RecreateFails, ScriptKilled, Fault
<1>6. ASSUME NEW v \in Ids, RemovedOnNode(v) PROVE faults' = faults BY <1>6 DEF RemovedOnNode
<1>7. CASE UNCHANGED vars BY <1>7 DEF vars
<1> QED BY <1>1, <1>2, <1>3, <1>4, <1>5, <1>6, <1>7 DEF Next, JobStep

LEMMA SmoothBefore ==
  ASSUME Shaped, Smooth', [Next]_vars
  PROVE  /\ Smooth /\ Quiet /\ Quiet'
         /\ faults' = faults /\ removals' = removals /\ causes' = causes /\ docker' = docker
<1>1. causes = {} /\ docker' = docker BY CausesGrow, Frames DEF Smooth
<1>2. Quiet' BY DEF Smooth, Quiet
<1>3. Quiet /\ removals' = removals BY <1>2, QuietBefore
<1>4. faults \in Nat BY DEF Shaped, TypeOK
<1>5. faults' = faults BY <1>4, FaultsGrow DEF Smooth
<1> QED BY <1>1, <1>2, <1>3, <1>5 DEF Smooth

LEMMA CalmBefore ==
  ASSUME Shaped, Calm', [Next]_vars
  PROVE  /\ Calm /\ Smooth /\ AllKeep /\ Quiet /\ Quiet'
         /\ faults' = faults /\ removals' = removals /\ causes' = causes /\ docker' = docker
<1>1. AllKeep BY KeepsBefore DEF Calm, AllKeep
<1> QED BY <1>1, SmoothBefore DEF Calm

\* The steps of a DELETE whose calls succeed.
DeleteMove(d) ==
  LET c == del[d].of
      v == del[d].cid
      to(step) == del'[d].pc = step
      stays == UNCHANGED <<row, cid, guest>>
  IN
  /\ Deleting(d) /\ del'[d].of = c /\ del'[d].cid = v
  /\ UNCHANGED <<name, cid, st, pc, mem>>
  /\ \/ del[d].pc = "dns" /\ to(IF v = None THEN "row" ELSE "check") /\ ~dns'[c] /\ stays
     \/ del[d].pc = "check" /\ to("row") /\ ~On(v) /\ stays /\ dns' = dns
     \/ del[d].pc = "check" /\ to("done") /\ On(v) /\ guest[v].name # name[c] /\ stays /\ dns' = dns
     \/ del[d].pc = "check" /\ to("destroy") /\ On(v) /\ stays /\ dns' = dns
     \/ del[d].pc = "destroy" /\ to("row") /\ guest' = [guest EXCEPT ![v] = None] /\ UNCHANGED <<row, dns>>
     \/ del[d].pc = "row" /\ to("done") /\ row' = [row EXCEPT ![c] = "gone"] /\ UNCHANGED <<guest, dns>>

\* A DELETE begins on a row that is there and whose jobs are over, or moves on.
CalmDelete(d) ==
  \/ del'[d] = del[d]
  \/ /\ del[d].pc = "idle" /\ del'[d].pc = "dns"
     /\ del'[d].of \in Rows /\ There(del'[d].of) /\ del'[d].cid = cid[del'[d].of]
     /\ UNCHANGED <<rowVars, guest, dns, st, pc, mem>>
     /\ \A j \in Jobs : j[1] = del'[d].of => ~Open(j)
  \/ DeleteMove(d)

LEMMA CalmDeletes == ASSUME Shaped, Calm', [Next]_vars, NEW d \in Deletes PROVE CalmDelete(d)
<1> USE DEF rowVars, nodeVars, jobVars, reqVars, budget
<1>1. /\ TypeOK /\ del \in [Deletes -> DeleteRecords] /\ del[d] \in DeleteRecords
      /\ dns \in [Rows -> BOOLEAN] /\ faults \in Nat /\ row \in [Rows -> {"no", "yes", "gone"}]
  BY DEF Shaped, TypeOK, DeleteRecords
<1>2. faults' = 0 /\ faults = 0 /\ causes' = {} BY CalmBefore DEF Calm, Smooth
<1>3. ASSUME NEW e \in Deletes, Delete(e) \/ DeleteDies(e), e # d PROVE del'[d] = del[d]
  BY <1>1, <1>3 DEF Delete, DeleteLoad, DeleteDns, DeleteCheck, DeleteGuest, DeleteRow, DeleteDies, DeleteTo
<1>4. ASSUME NEW step \in {"dns", "check", "destroy", "row", "done"}, DeleteTo(d, step)
      PROVE  del'[d].pc = step /\ del'[d].of = del[d].of /\ del'[d].cid = del[d].cid
  BY <1>1, <1>4 DEF DeleteTo, DeleteRecords
<1>5. ASSUME DeleteLoad(d) PROVE CalmDelete(d)
  <2>1. PICK c \in Rows :
          /\ There(c)
          /\ del' = [del EXCEPT ![d] = [pc |-> "dns", of |-> c, cid |-> cid[c]]]
          /\ causes' = causes \cup
               {race \in {"busy"} : \E j \in Jobs : j[1] = c /\ st[j] \in {"pending", "running"}} \cup
               {race \in {"overlap"} : \E e \in Deletes : del[e].of = c /\ del[e].pc # "done"}
    BY <1>5 DEF DeleteLoad
  <2>2. del'[d] = [pc |-> "dns", of |-> c, cid |-> cid[c]] BY <1>1, <2>1
  <2>3. \A j \in Jobs : j[1] = c => ~Open(j) BY <1>2, <2>1 DEF Open
  <2> QED BY <1>5, <2>1, <2>2, <2>3 DEF DeleteLoad, CalmDelete
<1>6. ASSUME DeleteDns(d) PROVE DeleteMove(d)
  <2>1. del[d].of \in Rows BY <1>6 DEF DeleteDns, Shaped, Placed
  <2>2. dns' = [dns EXCEPT ![del[d].of] = FALSE] BY <1>2, <1>6 DEF DeleteDns, Fault
  <2>3. ~dns'[del[d].of] BY <1>1, <2>1, <2>2
  <2>4. /\ del'[d].pc = IF del[d].cid = None THEN "row" ELSE "check"
        /\ del'[d].of = del[d].of /\ del'[d].cid = del[d].cid
    BY <1>4, <1>6 DEF DeleteDns
  <2> QED BY <1>6, <2>3, <2>4 DEF DeleteDns, DeleteMove, Deleting
<1>7. ASSUME DeleteCheck(d) PROVE DeleteMove(d)
  <2>1. DeleteTo(d, IF ~On(del[d].cid) THEN "row"
                    ELSE IF guest[del[d].cid].name # name[del[d].of] THEN "done" ELSE "destroy")
    BY <1>2, <1>7 DEF DeleteCheck, Fault
  <2>2. /\ del'[d].pc = IF ~On(del[d].cid) THEN "row"
                        ELSE IF guest[del[d].cid].name # name[del[d].of] THEN "done" ELSE "destroy"
        /\ del'[d].of = del[d].of /\ del'[d].cid = del[d].cid
    BY <1>4, <2>1
  <2> QED BY <1>7, <2>2 DEF DeleteCheck, DeleteMove, Deleting
<1>8. ASSUME DeleteGuest(d) PROVE DeleteMove(d)
  <2>1. guest' = [guest EXCEPT ![del[d].cid] = None] BY <1>2, <1>8 DEF DeleteGuest, Fault, Remove
  <2>2. del'[d].pc = "row" /\ del'[d].of = del[d].of /\ del'[d].cid = del[d].cid
    BY <1>4, <1>8 DEF DeleteGuest
  <2> QED BY <1>8, <2>1, <2>2 DEF DeleteGuest, DeleteMove, Deleting
<1>9. ASSUME DeleteRow(d) PROVE DeleteMove(d)
  <2>1. del'[d].pc = "done" /\ del'[d].of = del[d].of /\ del'[d].cid = del[d].cid
    BY <1>4, <1>9 DEF DeleteRow
  <2> QED BY <1>9, <2>1 DEF DeleteRow, DeleteMove, Deleting
<1>10. ASSUME DeleteDies(d) PROVE FALSE BY <1>2, <1>10 DEF DeleteDies, Fault
<1>11. ASSUME del' = del PROVE CalmDelete(d) BY <1>11 DEF CalmDelete
<1>12. \A e \in Deletes : Delete(e) \/ DeleteDies(e) => CalmDelete(d)
  BY <1>3, <1>5, <1>6, <1>7, <1>8, <1>9, <1>10 DEF Delete, CalmDelete
<1>13. (\E e \in Deletes : Delete(e) \/ DeleteDies(e)) \/ del' = del
  <2>1. ASSUME NEW c \in Rows, Post(c) PROVE del' = del BY <2>1 DEF Post
  <2>2. ASSUME NEW u \in Updates, PutLoad(u) \/ PutCommit(u) PROVE del' = del
    BY <2>2 DEF PutLoad, PutCommit
  <2>3. ServerStep \/ del' = del BY Frames DEF vars
  <2> QED BY <2>1, <2>2, <2>3 DEF ServerStep
<1> QED BY <1>11, <1>12, <1>13

\* A creation that has made its guest goes on until it has stored the id; on a Docker node it
\* makes the guest anew before.
LEMMA CreationMoves ==
  ASSUME Shaped, Checked, Smooth', [Next]_vars,
         NEW c \in Rows, pc[Creation(c)] \in Unstored, On(mem[Creation(c)].vm)
  PROVE  LET j == Creation(c) IN
         \/ pc'[j] \in Unstored /\ mem'[j] = mem[j]
         \/ /\ pc[j] = "store" /\ pc'[j] = "start"
            /\ There(c) => cid'[c] = mem[j].vm
         \/ docker /\ guest'[mem[j].vm] = None
<1> USE DEF rowVars, nodeVars, jobVars, reqVars, budget
<1> DEFINE j == Creation(c)
<1>1. /\ TypeOK /\ j \in Jobs /\ j[1] = c
      /\ pc \in [Jobs -> {"idle", "done"} \cup Steps] /\ mem \in [Jobs -> [env: Nat, vm: Ids \cup {None}]]
      /\ cid \in [Rows -> Ids \cup {None}] /\ faults \in Nat
  BY JobsOf DEF Shaped, TypeOK
<1>2. faults' = 0 /\ faults = 0 /\ causes' = {} BY SmoothBefore DEF Smooth
<1>3. st[j] = "running" /\ Active(j)
  BY <1>1 DEF Shaped, Recorded, Active, Unstored, Steps, CreateSteps
<1> DEFINE Same == pc'[j] = pc[j] /\ mem'[j] = mem[j]
           Goal == \/ pc'[j] \in Unstored /\ mem'[j] = mem[j]
                   \/ /\ pc[j] = "store" /\ pc'[j] = "start"
                      /\ There(c) => cid'[c] = mem[j].vm
                   \/ docker /\ guest'[mem[j].vm] = None
<1>4. Same => Goal OBVIOUS
<1>5. ASSUME NEW b \in Rows, Create(b), b # c PROVE Same
  <2>1. Creation(b) \in Jobs /\ Creation(b) # j BY <1>1, <1>5, JobsOf
  <2>2. \/ \E step : pc' = [pc EXCEPT ![Creation(b)] = step]
    BY <1>5 DEF Create, NextId, CreateGuest, Persist, Apply, Store, FindServices, Publish, Go, End, Throw
  <2>3. mem' = mem \/ \E v : mem' = [mem EXCEPT ![Creation(b)].vm = v]
    BY <1>5 DEF Create, NextId, CreateGuest, Persist, Apply, Store, FindServices, Publish
  <2> QED BY <1>1, <2>1, <2>2, <2>3
<1>6. ASSUME NEW i \in Jobs, JobStep(i), i # j PROVE Same
  <2>1. \E step : pc' = [pc EXCEPT ![i] = step]
    BY <1>6 DEF JobStep, Script, Restart, Begin, StartGuest, Record, Reapply, Check, StopGuest,
       ScriptFails, RecreateFails, ScriptKilled, Go, End, Throw
  <2>2. mem' = mem \/ \E m : mem' = [mem EXCEPT ![i] = m]
    BY <1>6 DEF JobStep, Script, Restart, Begin, StartGuest, Record, Reapply, Check, StopGuest,
       ScriptFails, RecreateFails, ScriptKilled
  <2> QED BY <1>1, <1>6, <2>1, <2>2
<1>7. ASSUME JobStep(j) PROVE FALSE
  BY <1>2, <1>3, <1>7 DEF Unstored, JobStep, Script, Restart, Begin, StartGuest, Record, Reapply, Check,
     StopGuest, ScriptFails, RecreateFails, ScriptKilled, Fault
<1>8. ASSUME Persist(c) PROVE pc'[j] = "apply" /\ mem'[j] = mem[j]
  BY <1>1, <1>8 DEF Persist, Go
<1>9. ASSUME Apply(c) PROVE Goal
  <2>1. PICK w \in Ids : /\ Go(j, "store") /\ SetEnv(mem[j].vm, w, mem[j].env)
                         /\ mem' = [mem EXCEPT ![j].vm = w]
    BY <1>9 DEF Apply
  <2>2. mem[j].vm \in Ids /\ mem[j].env \in Nat BY <1>1 DEF On
  <2>3. /\ IF docker THEN w \notin issued ELSE w = mem[j].vm
        /\ w # mem[j].vm => guest'[mem[j].vm] = None
    BY <1>1, <2>1, <2>2, SetEnvSteps
  <2>4. CASE docker
    <3>1. mem[j].vm \in issued BY <2>2 DEF Checked
    <3> QED BY <2>3, <2>4, <3>1
  <2>5. CASE ~docker
    <3>1. mem'[j] = mem[j] BY <1>1, <2>1, <2>3, <2>5
    <3> QED BY <1>1, <2>1, <3>1 DEF Go, Unstored
  <2> QED BY <2>4, <2>5
<1>10. ASSUME Store(c) PROVE pc[j] = "store" /\ pc'[j] = "start" /\ (There(c) => cid'[c] = mem[j].vm)
  BY <1>1, <1>2, <1>10 DEF Store, Go
<1>11. ASSUME NextId(c) \/ CreateGuest(c) \/ FindServices(c) \/ Publish(c) PROVE FALSE
  BY <1>11 DEF NextId, CreateGuest, FindServices, Publish, Unstored
<1>12. ServerStep \/ UNCHANGED vars \/ (\E v \in Ids : RemovedOnNode(v)) => Same
  BY Frames DEF vars, RemovedOnNode, ServerStep, Post, PutLoad, PutCommit, Delete, DeleteLoad, DeleteDns,
     DeleteCheck, DeleteGuest, DeleteRow, DeleteDies
<1>13. \A b \in Rows : Create(b) => Goal
  BY <1>4, <1>5, <1>8, <1>9, <1>10, <1>11 DEF Create, Unstored
<1>14. \A i \in Jobs : JobStep(i) => Goal BY <1>4, <1>6, <1>7
<1>15. Goal
  <2>1. ServerStep \/ UNCHANGED vars \/ (\E v \in Ids : RemovedOnNode(v))
        \/ (\E b \in Rows : Create(b)) \/ \E i \in Jobs : JobStep(i)
    BY DEF Next, ServerStep, JobStep
  <2> HIDE DEF Goal, Same
  <2> QED BY <1>4, <1>12, <1>13, <1>14, <2>1
<1> QED BY <1>15

\* A record is made at the end of a creation.
LEMMA RecordSteps ==
  ASSUME Shaped, [Next]_vars, NEW c \in Rows
  PROVE  dns'[c] = dns[c] \/ ~dns'[c] \/ pc[Creation(c)] = "publish"
<1> USE DEF rowVars, nodeVars, jobVars, reqVars, budget
<1>1. TypeOK /\ dns \in [Rows -> BOOLEAN] BY DEF Shaped, TypeOK
<1>2. ASSUME NEW b \in Rows, Post(b) \/ (Create(b) /\ ~Publish(b)) PROVE dns' = dns
  BY <1>2 DEF Post, Create, NextId, CreateGuest, Persist, Apply, Store, FindServices
<1>3. ASSUME NEW b \in Rows, Publish(b) PROVE dns'[c] = dns[c] \/ pc[Creation(c)] = "publish"
  BY <1>1, <1>3 DEF Publish
<1>4. ASSUME NEW u \in Updates, PutLoad(u) \/ PutCommit(u) PROVE dns' = dns
  BY <1>4 DEF PutLoad, PutCommit
<1>5. ASSUME NEW d \in Deletes, Delete(d) \/ DeleteDies(d) PROVE dns'[c] = dns[c] \/ ~dns'[c]
  <2>1. dns' = dns \/ dns' = [dns EXCEPT ![del[d].of] = FALSE]
    BY <1>5 DEF Delete, DeleteLoad, DeleteDns, DeleteCheck, DeleteGuest, DeleteRow, DeleteDies
  <2> QED BY <1>1, <2>1
<1>6. ASSUME NEW j \in Jobs, JobStep(j) PROVE dns' = dns
  BY <1>6 DEF JobStep, Script, Restart, Begin, StartGuest, Record, Reapply, Check, StopGuest,
     ScriptFails, RecreateFails, ScriptKilled
<1>7. ASSUME NEW v \in Ids, RemovedOnNode(v) PROVE dns' = dns BY <1>7 DEF RemovedOnNode
<1>8. CASE UNCHANGED vars BY <1>8 DEF vars
<1> QED BY <1>2, <1>3, <1>4, <1>5, <1>6, <1>7, <1>8 DEF Next, JobStep

-----------------------------------------------------------------------------
(* Each part is kept *)

\* All that is known of a calm state.
Known == IInv /\ (Calm => Kept)

\* A row whose scripts run is there, and no DELETE is about it.
LEMMA Unaimed ==
  ASSUME Shaped, Undisturbed, NEW j \in Jobs, Open(j), There(j[1])
  PROVE  ~Targeted(j[1])
<1> SUFFICES ASSUME NEW d \in Deletes, del[d].of = j[1] PROVE FALSE
  BY DEF Targeted
<1>1. j[1] \in Rows BY DEF Jobs
<1>2. del[d].pc # "idle" BY <1>1 DEF Shaped, Placed
<1> QED BY <1>2 DEF Undisturbed, There

LEMMA UndisturbedStep ==
  ASSUME Known, Calm', [Next]_vars
  PROVE  Undisturbed'
<1>1. Calm /\ Undisturbed /\ Shaped /\ Recorded /\ Aimed /\ Distinct /\ Standing
  BY CalmBefore DEF Known, Kept, IInv, Shaped
<1>2. faults' = faults /\ faults \in Nat /\ causes' = {} /\ "overlap" \notin causes
  BY <1>1, CalmBefore DEF Calm, Smooth, Shaped, TypeOK
<1>3. Recorded' /\ \A j \in Jobs : StatusStep(j) BY <1>1, StatusSteps
<1>4. \A d \in Deletes : CalmDelete(d) BY <1>1, CalmDeletes
<1>5. row \in [Rows -> {"no", "yes", "gone"}] BY <1>1 DEF Shaped, TypeOK
<1>6. ASSUME NEW j \in Jobs, Active(j)' PROVE There(j[1])'
  <2>1. j[1] \in Rows /\ pc'[j] # "done" BY <1>6 DEF Jobs, Active, Steps, CreateSteps, RestartSteps
  <2>2. st'[j] = "running" BY <1>3, <1>6 DEF Recorded
  <2>3. Open(j) BY <1>2, <1>3, <2>1, <2>2 DEF StatusStep, Open
  <2>4. There(j[1])
    <3>1. ScriptStep(j) BY <1>1, ScriptSteps
    <3>2. Active(j) \/ There(j[1])
      BY <1>6, <2>1, <3>1 DEF ScriptStep, Follows, Active, Steps, CreateSteps, RestartSteps
    <3> QED BY <1>1, <3>2 DEF Undisturbed
  <2>5. ASSUME NEW d \in Deletes, del[d].pc = "row", del[d].of = j[1] PROVE FALSE
    BY <1>1, <2>3, <2>5 DEF Undisturbed
  <2> QED BY <1>1, <2>1, <2>4, <2>5, RowSteps DEF There
<1>7. ASSUME NEW d \in Deletes, del'[d].pc # "idle", del'[d].pc = "done"
      PROVE  row'[del'[d].of] = "gone"
  <2>1. CASE del'[d] = del[d]
    <3>1. del[d].of \in Rows /\ row[del[d].of] = "gone"
      BY <1>1, <1>7, <2>1 DEF Undisturbed, Shaped, Placed
    <3> QED BY <1>1, <2>1, <3>1, RowSteps
  <2>2. CASE DeleteMove(d)
    <3>1. del[d].of \in Rows /\ del'[d].of = del[d].of
      BY <1>1, <2>2 DEF DeleteMove, Deleting, Shaped, Placed
    <3>2. CASE row' = [row EXCEPT ![del[d].of] = "gone"] BY <1>5, <3>1, <3>2
    <3>3. CASE del[d].pc = "check" /\ On(del[d].cid) /\ guest[del[d].cid].name # name[del[d].of]
      <4>1. Deleting(d) /\ del[d].cid # None BY <2>2, <3>3 DEF DeleteMove, On
      <4>2. There(del[d].of) /\ cid[del[d].of] = del[d].cid BY <1>2, <1>1, <4>1 DEF Aimed
      <4>3. PICK e \in Deletes : del[e].of = del[d].of /\ del[e].pc = "row"
        BY <1>1, <3>1, <3>3, <4>1, <4>2 DEF Standing, Its
      <4>4. e # d /\ Deleting(e) BY <3>3, <4>3 DEF Deleting
      <4> QED BY <1>1, <1>2, <4>1, <4>3, <4>4 DEF Aimed
    <3> QED BY <1>7, <2>2, <3>2, <3>3 DEF DeleteMove
  <2> QED BY <1>4, <1>7, <2>1, <2>2 DEF CalmDelete
<1>8. ASSUME NEW d \in Deletes, del'[d].pc # "idle", del'[d].pc # "done",
             NEW j \in Jobs, j[1] = del'[d].of
      PROVE  st'[j] \notin {"pending", "running"}
  <2>1. CASE DeleteMove(d) \/ (del'[d] = del[d])
    <3>1. del'[d].of = del[d].of /\ Deleting(d)
      BY <1>8, <2>1 DEF DeleteMove, Deleting
    <3>2. ~Open(j) /\ There(j[1]) BY <1>1, <1>2, <1>8, <3>1 DEF Undisturbed, Aimed, Deleting
    <3>3. del[d].of = j[1] /\ del[d].pc # "done" BY <1>8, <3>1 DEF Deleting
    <3> QED BY <1>2, <1>3, <3>2, <3>3 DEF StatusStep, Open, There
  <2>2. CASE st' = st /\ ~Open(j) BY <2>2 DEF Open
  <2> QED BY <1>4, <1>8, <2>1, <2>2 DEF CalmDelete
<1> QED BY <1>6, <1>7, <1>8 DEF Undisturbed, Open

LEMMA StandingStep ==
  ASSUME Known, Calm', [Next]_vars
  PROVE  Standing'
<1>1. /\ Calm /\ Undisturbed /\ Shaped /\ Recorded /\ Aimed /\ Distinct /\ Standing
      /\ Checked /\ Faithful /\ NoRace /\ Owned /\ Quiet
  BY CalmBefore DEF Known, Kept, IInv, Shaped
<1>2. /\ removals' = removals /\ removals \in Nat
      /\ row \in [Rows -> {"no", "yes", "gone"}] /\ cid \in [Rows -> Ids \cup {None}]
      /\ mem \in [Jobs -> [env: Nat, vm: Ids \cup {None}]]
  BY <1>1, CalmBefore DEF Calm, Smooth, Shaped, TypeOK
<1> SUFFICES ASSUME NEW c \in Rows, There(c)', cid'[c] # None
             PROVE  \/ Its(c, cid[c])'
                    \/ \E d \in Deletes : del'[d].of = c /\ del'[d].pc = "row"
  BY DEF Standing
<1>3. There(c)
  <2>1. row[c] # "no"
    <3>1. ASSUME row[c] = "no" PROVE cid'[c] = None BY <1>1, <3>1, IdSteps DEF Distinct, There
    <3> QED BY <3>1
  <2> QED BY <1>1, <1>2, <2>1, RowSteps DEF There
<1>4. name'[c] = name[c] BY <1>1, <1>3, RowsStay DEF There
<1>5. CASE cid'[c] = cid[c]
  <2>1. CASE Its(c, cid[c])
    <3>1. cid[c] \in Ids BY <1>2, <1>5
    <3>2. GuestStep(cid[c]) BY <1>1, <3>1, GuestSteps
    <3>3. CASE \/ guest'[cid[c]] = guest[cid[c]]
               \/ /\ guest'[cid[c]] # None
                  /\ guest'[cid[c]].name = guest[cid[c]].name /\ guest'[cid[c]].of = guest[cid[c]].of
      BY <1>4, <1>5, <2>1, <3>3 DEF Its, On
    <3>4. ASSUME NEW d \in Deletes, del[d].pc = "destroy", del[d].cid = cid[c], del'[d].pc = "row"
          PROVE  del'[d].of = c
      <4>1. del[d].of \in Rows /\ There(del[d].of) /\ cid[del[d].of] = cid[c]
        BY <1>1, <3>4, DestroysOwn
      <4>2. del[d].of = c BY <1>1, <1>3, <1>5, <4>1 DEF Distinct
      <4> QED BY <1>1, <3>4, <4>2, DeleteSteps
    <3>5. ASSUME NEW j \in Jobs, Remakes(j), mem[j].vm = cid[c] PROVE FALSE
      <4>1. j = Creation(j[1]) /\ pc[j] = "apply" /\ Its(j[1], cid[c])
        BY <1>1, <3>5, RemakesOwn DEF Calm, AllKeep, Remakes, Jobs
      <4>2. j = Creation(c) BY <2>1, <4>1 DEF Its
      <4> QED BY <1>1, <1>5, <4>1, <4>2 DEF Distinct
    <3>6. docker => cid[c] \in issued BY <1>1, <2>1, <3>1 DEF Checked, Its
    <3>7. On(cid[c]) BY <2>1 DEF Its
    <3>8. \/ guest'[cid[c]] = guest[cid[c]]
          \/ /\ guest'[cid[c]] # None
             /\ guest'[cid[c]].name = guest[cid[c]].name /\ guest'[cid[c]].of = guest[cid[c]].of
          \/ \E d \in Deletes : del[d].pc = "destroy" /\ del[d].cid = cid[c] /\ del'[d].pc = "row"
      BY <1>2, <3>2, <3>5, <3>6, <3>7 DEF GuestStep
    <3> QED BY <3>3, <3>4, <3>8
  <2>2. ASSUME NEW d \in Deletes, del[d].of = c, del[d].pc = "row"
        PROVE  del'[d].of = c /\ del'[d].pc = "row"
    <3>1. CalmDelete(d) BY <1>1, CalmDeletes
    <3>2. ~DeleteMove(d)
      <4>1. DeleteMove(d) => row' = [row EXCEPT ![c] = "gone"] BY <2>2 DEF DeleteMove
      <4>2. DeleteMove(d) => row'[c] = "gone" BY <1>2, <4>1
      <4> QED BY <4>2 DEF There
    <3> QED BY <2>2, <3>1, <3>2 DEF CalmDelete
  <2> QED BY <1>1, <1>3, <1>5, <2>1, <2>2 DEF Standing
<1>6. CASE pc[Creation(c)] = "store" /\ cid'[c] = mem[Creation(c)].vm /\ UNCHANGED guest
  <2>1. Creation(c) \in Jobs /\ Creation(c)[1] = c BY JobsOf
  <2>2. Open(Creation(c)) BY <1>1, <1>6, <2>1 DEF Recorded, Active, Open, Steps, CreateSteps
  <2>3. ~Targeted(c) BY <1>1, <1>3, <2>1, <2>2, Unaimed
  <2>4. Its(c, mem[Creation(c)].vm) BY <1>1, <1>3, <1>6, <2>3 DEF Calm, AllKeep, Owned, OwnGuest, Later
  <2> QED BY <1>4, <1>6, <2>4 DEF Its, On
<1> QED BY <1>1, <1>5, <1>6, IdSteps

LEMMA BelongsStep ==
  ASSUME Known, Calm', [Next]_vars
  PROVE  Belongs'
<1>1. /\ Calm /\ Undisturbed /\ Undisturbed' /\ Shaped /\ Recorded /\ Distinct /\ Belongs /\ Cleared
      /\ Checked /\ Faithful
  BY CalmBefore, UndisturbedStep DEF Known, Kept, IInv, Shaped
<1>2. /\ removals' = removals /\ removals \in Nat
      /\ row \in [Rows -> {"no", "yes", "gone"}] /\ cid \in [Rows -> Ids \cup {None}]
      /\ guest \in [Ids -> Guests \cup {None}]
  BY <1>1, CalmBefore DEF Calm, Smooth, Shaped, TypeOK
<1> SUFFICES ASSUME NEW v \in Ids, On(v)', NEW c, c = guest'[v].of
             PROVE  /\ row'[c] = "yes"
                    /\ \/ cid'[c] = v
                       \/ cid'[c] = None /\ pc'[Creation(c)] \in Unstored /\ mem'[Creation(c)].vm = v
  BY DEF Belongs, Creation, There
<1>3. GuestStep(v) BY <1>1, GuestSteps
<1>4. CASE On(v) /\ guest'[v].of = guest[v].of
  <2>1. c \in Rows BY <1>2, <1>4 DEF On, Guests
  <2>2. /\ There(c)
        /\ \/ cid[c] = v
           \/ cid[c] = None /\ pc[Creation(c)] \in Unstored /\ mem[Creation(c)].vm = v
    BY <1>1, <1>4 DEF Belongs
  <2>3. ASSUME NEW d \in Deletes, del[d].pc = "row", del[d].of = c PROVE FALSE
    BY <1>1, <1>4, <2>3 DEF Cleared
  <2>4. row'[c] = "yes" BY <1>1, <2>1, <2>2, <2>3, RowSteps DEF There
  <2>5. v # None BY <1>4 DEF On
  <2>6. CASE cid[c] = v
    <3>1. pc[Creation(c)] # "store" BY <1>1, <2>1, <2>5, <2>6 DEF Distinct
    <3>2. cid'[c] = v BY <1>1, <2>1, <2>6, <3>1, IdSteps
    <3> QED BY <2>4, <3>2
  <2>7. CASE cid[c] = None /\ pc[Creation(c)] \in Unstored /\ mem[Creation(c)].vm = v
    <3>1. On(mem[Creation(c)].vm) BY <1>4, <2>7
    <3>2. CASE pc'[Creation(c)] \in Unstored /\ mem'[Creation(c)] = mem[Creation(c)]
      <4>1. pc'[Creation(c)] # "start" BY <3>2 DEF Unstored
      <4>2. cid'[c] = cid[c] BY <1>1, <2>1, <4>1, IdSteps
      <4> QED BY <2>4, <2>7, <3>2, <4>2
    <3>3. CASE There(c) => cid'[c] = mem[Creation(c)].vm
      BY <2>2, <2>4, <2>7, <3>3
    <3>4. guest'[mem[Creation(c)].vm] # None BY <2>7 DEF On
    <3> QED BY <1>1, <2>1, <2>7, <3>1, <3>2, <3>3, <3>4, CreationMoves DEF Calm
  <2> QED BY <2>2, <2>6, <2>7
<1>5. ASSUME c \in Rows, pc[Creation(c)] \in {"create", "apply"}, pc'[Creation(c)] \in {"persist", "store"}
      PROVE  row'[c] = "yes" /\ cid'[c] = None
  <2>1. Creation(c) \in Jobs /\ Creation(c)[1] = c BY <1>5, JobsOf
  <2>2. Active(Creation(c))' BY <1>5 DEF Active, Steps, CreateSteps, Creation
  <2>3. row'[c] = "yes" BY <1>1, <2>1, <2>2 DEF Undisturbed, There
  <2>4. cid[c] = None BY <1>1, <1>5 DEF Distinct
  <2> QED BY <1>1, <1>5, <2>3, <2>4, IdSteps
<1>6. CASE On(v) /\ guest'[v] = guest[v] BY <1>4, <1>6
<1>7. CASE ~On(v)
  <2>1. guest'[v] # guest[v] BY <1>7 DEF On
  <2>2. Appears(v)
    <3>1. guest'[v] # None BY DEF On
    <3> QED BY <1>3, <1>7, <2>1, <3>1 DEF GuestStep
  <2>3. ASSUME NEW j \in Jobs, Remakes(j), guest'[v].of = guest[mem[j].vm].of,
               pc[j] = "apply" => pc'[j] = "store" /\ mem'[j].vm = v
        PROVE  c \in Rows /\ pc[Creation(c)] = "apply" /\ pc'[Creation(c)] = "store" /\ mem'[Creation(c)].vm = v
    <3>1. j[1] \in Rows /\ j = Creation(j[1]) /\ pc[j] = "apply" /\ c = j[1]
      BY <1>1, <2>3, RemakesOwn DEF Calm, AllKeep, Jobs, Its
    <3> QED BY <2>3, <3>1
  <2> QED BY <1>5, <2>2, <2>3 DEF Appears, Unstored
<1>8. ASSUME On(v) PROVE guest'[v] = guest[v] \/ guest'[v].of = guest[v].of
  BY <1>1, <1>3, <1>8 DEF GuestStep, On, Checked
<1> QED BY <1>4, <1>6, <1>7, <1>8

LEMMA ClearedStep ==
  ASSUME Known, Calm', [Next]_vars
  PROVE  Cleared'
<1>1. /\ Calm /\ Undisturbed /\ Shaped /\ Recorded /\ Aimed /\ Belongs /\ Cleared
      /\ Checked /\ Faithful
  BY CalmBefore DEF Known, Kept, IInv, Shaped
<1>2. /\ "overlap" \notin causes
      /\ guest \in [Ids -> Guests \cup {None}] /\ cid \in [Rows -> Ids \cup {None}]
  BY <1>1 DEF Calm, Smooth, Shaped, TypeOK
<1> SUFFICES ASSUME NEW d \in Deletes, del'[d].pc = "row" \/ (del'[d].pc = "dns" /\ del'[d].cid = None),
                    NEW v \in Ids, On(v)', guest'[v].of = del'[d].of
             PROVE  FALSE
  BY DEF Cleared
<1>3. CalmDelete(d) BY <1>1, CalmDeletes
<1>4. ASSUME On(v) PROVE guest[v].of \in Rows BY <1>2, <1>4 DEF On, Guests
<1>5. CASE del'[d] = del[d]
  <2>1. Deleting(d) /\ del[d].of \in Rows BY <1>1, <1>5 DEF Deleting, Shaped, Placed
  <2>2. CASE On(v) /\ guest'[v].of = guest[v].of BY <1>1, <1>5, <2>2 DEF Cleared
  <2>3. ASSUME NEW c \in Rows, pc[Creation(c)] \in {"create", "apply"}, guest'[v].of = c PROVE FALSE
    <3>1. Creation(c) \in Jobs /\ Creation(c)[1] = c BY JobsOf
    <3>2. Open(Creation(c)) BY <1>1, <2>3, <3>1 DEF Recorded, Active, Open, Steps, CreateSteps
    <3> QED BY <1>1, <1>5, <2>1, <2>3, <3>1, <3>2 DEF Undisturbed, Deleting
  <2>4. ASSUME NEW j \in Jobs, Remakes(j), guest'[v].of = guest[mem[j].vm].of PROVE FALSE
    <3>1. j[1] \in Rows /\ j = Creation(j[1]) /\ pc[j] = "apply" /\ guest'[v].of = j[1]
      BY <1>1, <2>4, RemakesOwn DEF Calm, AllKeep, Jobs, Its
    <3> QED BY <2>3, <3>1
  <2>5. GuestStep(v) BY <1>1, GuestSteps
  <2>6. guest'[v] # None /\ v # None BY DEF On
  <2>7. (On(v) /\ guest'[v].of = guest[v].of) \/ Appears(v)
    <3>1. guest'[v] = guest[v] => On(v) BY <2>6 DEF On
    <3> QED BY <2>5, <2>6, <3>1 DEF GuestStep
  <2> QED BY <2>2, <2>3, <2>4, <2>7 DEF Appears
<1>6. CASE /\ del'[d].of \in Rows /\ There(del'[d].of) /\ del'[d].cid = cid[del'[d].of]
           /\ del'[d].pc = "dns" /\ UNCHANGED guest
           /\ \A j \in Jobs : j[1] = del'[d].of => ~Open(j)
  <2> DEFINE c == del'[d].of
  <2>1. On(v) /\ guest[v].of = c /\ cid[c] = None BY <1>6 DEF On
  <2>2. cid[c] # v BY <2>1 DEF On
  <2>3. pc[Creation(c)] \in Unstored BY <1>1, <2>1, <2>2 DEF Belongs
  <2>4. Creation(c) \in Jobs /\ Creation(c)[1] = c BY <1>6, JobsOf
  <2>5. Open(Creation(c)) BY <1>1, <2>3, <2>4 DEF Recorded, Active, Open, Unstored, Steps, CreateSteps
  <2> QED BY <1>6, <2>4, <2>5
<1>7. CASE DeleteMove(d)
  <2>1. /\ Deleting(d) /\ del'[d].of = del[d].of /\ del[d].of \in Rows
        /\ There(del[d].of) /\ (del[d].cid # None => cid[del[d].of] = del[d].cid)
    BY <1>1, <1>2, <1>7 DEF DeleteMove, Deleting, Shaped, Placed, Aimed
  <2>2. ASSUME On(v), guest[v].of = del[d].of, del[d].cid # None PROVE v = del[d].cid
    BY <1>1, <2>1, <2>2 DEF Belongs
  <2>3. CASE del[d].pc = "dns" /\ del[d].cid = None /\ UNCHANGED guest
    BY <1>1, <2>1, <2>3 DEF Cleared, On
  <2>4. CASE del[d].pc = "check" /\ ~On(del[d].cid) /\ UNCHANGED guest
    <3>1. del[d].cid \in Ids BY <1>1, <2>4 DEF Shaped, Placed
    <3> QED BY <2>1, <2>2, <2>4, <3>1 DEF On
  <2>5. CASE del[d].pc = "destroy" /\ guest' = [guest EXCEPT ![del[d].cid] = None]
    <3>1. del[d].cid \in Ids BY <1>1, <2>5 DEF Shaped, Placed
    <3>2. v # del[d].cid /\ On(v) /\ guest[v] = guest'[v] BY <1>2, <2>5, <3>1 DEF On
    <3> QED BY <2>1, <2>2, <3>1, <3>2
  <2> QED BY <1>7, <2>3, <2>4, <2>5 DEF DeleteMove
<1> QED BY <1>3, <1>5, <1>6, <1>7 DEF CalmDelete

LEMMA UnpublishedStep ==
  ASSUME Known, Calm', [Next]_vars
  PROVE  Unpublished'
<1>1. /\ Calm /\ Undisturbed /\ Shaped /\ Recorded /\ Unpublished
  BY CalmBefore DEF Known, Kept, IInv, Shaped
<1>2. \A d \in Deletes : CalmDelete(d) BY <1>1, CalmDeletes
<1>3. ASSUME NEW c \in Rows, ~dns[c], dns'[c]
      PROVE  Open(Creation(c)) /\ Creation(c) \in Jobs /\ Creation(c)[1] = c /\ There(c)
  <2>1. Creation(c) \in Jobs /\ Creation(c)[1] = c BY JobsOf
  <2>2. Active(Creation(c)) BY <1>1, <1>3, RecordSteps DEF Active, Steps, CreateSteps
  <2> QED BY <1>1, <2>1, <2>2 DEF Recorded, Undisturbed, Open
<1>4. ASSUME NEW c \in Rows, row'[c] = "gone" PROVE ~dns'[c]
  <2>1. CASE row[c] = "gone" BY <1>1, <1>3, <2>1 DEF Unpublished, There
  <2>2. ASSUME NEW d \in Deletes, del[d].pc = "row", del[d].of = c PROVE ~dns'[c]
    <3>1. ~dns[c] BY <1>1, <2>2 DEF Unpublished, Deleting
    <3> QED BY <1>1, <1>3, <2>2, <3>1 DEF Undisturbed
  <2> QED BY <1>1, <1>4, <2>1, <2>2, RowSteps
<1>5. ASSUME NEW d \in Deletes, Deleting(d)', del'[d].pc # "dns" PROVE ~dns'[del'[d].of]
  <2>1. Deleting(d) /\ del'[d].of = del[d].of BY <1>2, <1>5 DEF CalmDelete, DeleteMove, Deleting
  <2>2. del[d].of \in Rows BY <1>1, <2>1 DEF Deleting, Shaped, Placed
  <2>3. CASE ~dns[del[d].of]
    BY <1>1, <1>3, <2>1, <2>2, <2>3 DEF Undisturbed, Deleting
  <2>4. CASE del[d].pc = "dns" /\ ~dns'[del[d].of] BY <2>1, <2>4
  <2>5. CASE del[d].pc = "dns" BY <1>2, <1>5, <2>1, <2>5 DEF CalmDelete, DeleteMove
  <2> QED BY <1>1, <2>1, <2>3, <2>5 DEF Unpublished
<1> QED BY <1>4, <1>5 DEF Unpublished

-----------------------------------------------------------------------------
(* The theorem about leaks *)

LEMMA KnownInitially == Init => Known
<1> SUFFICES ASSUME Init PROVE Known
  OBVIOUS
<1>1. IInv BY IInvInitially
<1>2. Undisturbed /\ Cleared BY DEF Init, Undisturbed, Cleared, Active, Steps, CreateSteps, RestartSteps
<1>3. Standing /\ Belongs BY DEF Init, Standing, Belongs, There, On
<1>4. Unpublished BY DEF Init, Unpublished, Deleting
<1> QED BY <1>1, <1>2, <1>3, <1>4 DEF Known, Kept

LEMMA KnownStep == Known /\ [Next]_vars => Known'
<1> SUFFICES ASSUME Known, [Next]_vars PROVE Known'
  OBVIOUS
<1>1. IInv' BY IInvStep DEF Known
<1>2. Calm' => Kept'
  BY UndisturbedStep, StandingStep, BelongsStep, ClearedStep, UnpublishedStep DEF Kept
<1> QED BY <1>1, <1>2 DEF Known

\* As long as every container keeps its guest, guests and A records leak only by a failed call or
\* a killed script, a removal behind the manager, a DELETE or PUT that meets another request or
\* job of its container, or a VMID that is given out again: in no other way, whatever overlaps.
THEOREM LeaksExplained == Spec => [](AllKeep => LeaksAreExplained)
<1>1. ASSUME Known, Calm PROVE (\A v \in Ids : ~Lost(v)) /\ \A c \in Rows : row[c] = "gone" => ~dns[c]
  <2>1. Belongs /\ Unpublished /\ guest \in [Ids -> Guests \cup {None}]
    BY <1>1 DEF Known, Kept, IInv, Shaped, TypeOK
  <2>2. ASSUME NEW v \in Ids, Lost(v) PROVE FALSE
    <3> DEFINE c == guest[v].of
    <3>1. On(v) /\ c \in Rows BY <2>1, <2>2 DEF Lost, On, Guests
    <3>2. Creation(c) \in Jobs BY <3>1, JobsOf
    <3>3. pc[Creation(c)] \in Unstored => Active(Creation(c)) BY DEF Unstored, Active, Steps, CreateSteps
    <3> QED BY <2>1, <2>2, <3>1, <3>2, <3>3 DEF Belongs, Lost
  <2> QED BY <2>1, <2>2 DEF Unpublished
<1>2. Known => (AllKeep => LeaksAreExplained)
  BY <1>1 DEF Calm, Smooth, LeaksAreExplained
<1> QED BY <1>2, KnownInitially, KnownStep, PTL DEF Spec

-----------------------------------------------------------------------------
(* What a user sees who only creates *)

\* What a creation has done at each of its steps, if nobody touches its container.
Progress(c) ==
  LET j == Creation(c)
      v == mem[j].vm
  IN
  /\ row[c] # "gone"
  /\ row[c] = "no" => pc[j] = "idle" /\ st[j] = "absent"
  /\ \A i \in Jobs : i[1] = c /\ i # j => st[i] = "absent"
  /\ pc[j] \in {"idle", "id", "create"} => st[j] \in {"absent", "pending", "running"}
  /\ pc[j] \in Unstored \cup {"start"} => Stopped(v)
  /\ pc[j] \in {"start", "record", "dns", "publish"} => cid[c] = v
  /\ pc[j] \in {"record", "dns", "publish"} => Running(v)
  /\ pc[j] \in {"dns", "publish"} => addr[c] = c
  /\ pc[j] = "done" => \/ st[j] = "failure" /\ cid[c] = None
                       \/ st[j] = "success" /\ Running(cid[c]) /\ addr[c] = c /\ dns[c]

\* Its guest, if it has one, has the id that the row has or is about to have.
Mine(c) ==
  \A v \in Ids : On(v) /\ guest[v].of = c =>
    \/ cid[c] = v
    \/ cid[c] = None /\ pc[Creation(c)] \in Unstored /\ mem[Creation(c)].vm = v

Followed == \A c \in Rows : Untouched(c) => Progress(c) /\ Mine(c)

\* No row has the address of another's guest, not even a row that is being deleted.
Addresses == \A c \in Rows : addr[c] \in {c, None}

Told == Known /\ (Smooth => Followed /\ Addresses)

\* On a Proxmox node updateLxcConfig changes the environment and nothing else.
LEMMA SetEnvInPlace ==
  ASSUME TypeOK, ~docker, NEW v, On(v), v \in Ids \cup {None}, NEW w, NEW e, SetEnv(v, w, e)
  PROVE  guest' = [guest EXCEPT ![v] = [@ EXCEPT !.env = e]]
<1>1. w = v /\ v \in Ids /\ guest \in [Ids -> Guests \cup {None}] BY DEF SetEnv, On, TypeOK
<1>2. guest[v] \in Guests BY <1>1 DEF On
<1>3. [guest[v] EXCEPT !.env = e, !.on = guest[v].on] = [guest[v] EXCEPT !.env = e]
  BY <1>2 DEF Guests
<1> QED BY <1>1, <1>3 DEF SetEnv

\* The guest a script works on is of the script's row.
LEMMA WorksOnOwn ==
  ASSUME Known, Smooth, NEW i \in Jobs, Active(i), pc[i] \in Later \cup RestartSteps, On(mem[i].vm)
  PROVE  guest[mem[i].vm].of = i[1]
<1>1. Shaped /\ Recorded /\ Owned /\ Faithful /\ i[1] \in Rows BY DEF Known, IInv, Shaped, Jobs
<1>2. CASE docker
  <2>1. Handles(i) BY DEF Handles, Later, RestartSteps
  <2> QED BY <1>1, <1>2, <2>1 DEF Faithful, MadeFor, Its
<1>3. CASE ~docker
  <2>1. Calm /\ Undisturbed /\ Quiet BY <1>3 DEF Calm, AllKeep, Keeps, Known, Kept, Smooth, Quiet
  <2>2. There(i[1]) /\ st[i] = "running" BY <1>1, <2>1 DEF Undisturbed, Recorded
  <2>3. ~Targeted(i[1]) BY <1>1, <2>1, <2>2, Unaimed DEF Open
  <2>4. OwnGuest(i[1]) BY <1>1, <2>1, <2>2, <2>3 DEF Owned, Calm, AllKeep
  <2>5. CASE i = Creation(i[1])
    <3>1. pc[i] \in CreateSteps BY <1>1, <2>5 DEF Shaped, Placed
    <3>2. pc[i] \in Later BY <3>1 DEF Later, CreateSteps, RestartSteps
    <3> QED BY <2>4, <2>5, <3>2 DEF OwnGuest, Its
  <2>6. CASE i # Creation(i[1]) BY <2>4, <2>6 DEF OwnGuest, Its
  <2> QED BY <2>5, <2>6
<1> QED BY <1>2, <1>3

\* A container that nobody touches keeps its guest, whatever is reconfigured elsewhere.
LEMMA UntouchedKeeps ==
  ASSUME Known, Smooth, NEW c \in Rows, Untouched(c), Progress(c)
  PROVE  /\ Keeps(c) /\ Quiet
         /\ There(c) => OwnGuest(c)
         /\ Active(Creation(c)) => There(c) /\ st[Creation(c)] = "running" /\ pc[Creation(c)] \in CreateSteps
<1>1. Shaped /\ Recorded /\ TypeOK /\ Owned /\ Quiet BY DEF Known, IInv, Shaped, Smooth, Quiet
<1>2. Keeps(c)
  <2>1. \A i \in Reconfigurations : i[1] = c => st[i] = "absent" BY ReconfigurationsAre DEF Progress
  <2> QED BY <2>1 DEF Keeps
<1>3. There(c) => OwnGuest(c) BY <1>1, <1>2 DEF Owned, Untouched
<1>4. ASSUME Active(Creation(c))
      PROVE  There(c) /\ st[Creation(c)] = "running" /\ pc[Creation(c)] \in CreateSteps
  <2>1. row[c] \in {"no", "yes", "gone"} BY <1>1 DEF TypeOK
  <2>2. pc[Creation(c)] # "idle" BY <1>4 DEF Active, Steps, CreateSteps, RestartSteps
  <2> QED BY <1>1, <1>4, <2>1, <2>2, JobsOf DEF Progress, There, Recorded, Shaped, Placed
<1> QED BY <1>1, <1>2, <1>3, <1>4

\* The steps that move a container's creation.
OwnStep(c) ==
  LET j == Creation(c) IN
  \/ Post(c) \/ NextId(c) \/ CreateGuest(c) \/ Persist(c) \/ Apply(c) \/ Store(c)
  \/ FindServices(c) \/ Publish(c)
  \/ Begin(j) \/ StartGuest(j) \/ Record(j)

\* What the creation of c has done so far.
Same(c) ==
  /\ pc'[Creation(c)] = pc[Creation(c)] /\ mem'[Creation(c)] = mem[Creation(c)]
  /\ \A i \in Jobs : i[1] = c => st'[i] = st[i]
  /\ cid'[c] = cid[c] /\ addr'[c] = addr[c] /\ dns'[c] = dns[c]
  /\ \A v \in Ids : Its(c, v) => guest'[v] # None /\ guest'[v].on = guest[v].on

\* No other step touches it.
LEMMA Elsewhere ==
  ASSUME Known, Smooth', [Next]_vars, NEW c \in Rows, Untouched(c), Untouched(c)',
         Progress(c), Mine(c), ~OwnStep(c)
  PROVE  Same(c)
<1> USE DEF rowVars, nodeVars, jobVars, reqVars, budget
<1> DEFINE j == Creation(c)
<1>1. /\ Smooth /\ Shaped /\ Recorded /\ Distinct /\ Aimed /\ Checked /\ Faithful /\ NoRace
      /\ TypeOK /\ Keeps(c) /\ Quiet' /\ j \in Jobs /\ j[1] = c
  BY SmoothBefore, UntouchedKeeps, JobsOf DEF Known, IInv, Shaped
<1>2. /\ faults' = faults /\ faults \in Nat /\ removals' = removals /\ removals \in Nat
      /\ pc \in [Jobs -> {"idle", "done"} \cup Steps] /\ mem \in [Jobs -> [env: Nat, vm: Ids \cup {None}]]
      /\ st \in [Jobs -> {"absent", "pending", "running", "success", "failure", "cancelled"}]
      /\ cid \in [Rows -> Ids \cup {None}] /\ addr \in [Rows -> Rows \cup {None}]
      /\ dns \in [Rows -> BOOLEAN] /\ guest \in [Ids -> Guests \cup {None}]
      /\ del \in [Deletes -> DeleteRecords]
  BY <1>1, SmoothBefore DEF Smooth, TypeOK, DeleteRecords
<1>14. ASSUME NEW v \in Ids, Its(c, v) PROVE There(c)
  <2>1. cid[c] # None \/ pc[j] \in Unstored BY <1>14 DEF Mine, Its, On
  <2>2. row[c] # "no" BY <1>1, <2>1 DEF Distinct, Progress, Unstored
  <2>3. row[c] \in {"no", "yes", "gone"} BY <1>1 DEF TypeOK
  <2> QED BY <2>2, <2>3 DEF Progress, There
<1>3. ASSUME UNCHANGED <<pc, mem, st, cid, addr, dns, guest>> PROVE Same(c) BY <1>3 DEF Same, Its, On
<1>4. ASSUME NEW b \in Rows, Post(b) PROVE Same(c)
  <2>1. b # c BY <1>4 DEF OwnStep
  <2>2. Creation(b) \in Jobs /\ Creation(b)[1] = b BY JobsOf
  <2>3. \A i \in Jobs : i[1] = c => st'[i] = st[i] BY <1>2, <1>4, <2>1, <2>2 DEF Post
  <2> QED BY <1>4, <2>3 DEF Post, Same, Its, On
<1>5. ASSUME NEW u \in Updates, PutLoad(u) PROVE Same(c) BY <1>3, <1>5 DEF PutLoad
<1>6. ASSUME NEW u \in Updates, PutCommit(u) PROVE Same(c)
  <2>1. put[u].of # c BY DEF Untouched
  <2>2. st' = st \/ \E k : st' = [st EXCEPT ![<<put[u].of, k>>] = "pending"] BY <1>6 DEF PutCommit
  <2>3. ASSUME NEW i \in Jobs, i[1] = c PROVE st'[i] = st[i]
    <3>1. ASSUME NEW k, st' = [st EXCEPT ![<<put[u].of, k>>] = "pending"] PROVE st'[i] = st[i]
      <4>1. <<put[u].of, k>> # i BY <2>1, <2>3
      <4> QED BY <1>2, <3>1, <4>1
    <3> QED BY <2>2, <3>1
  <2> QED BY <1>6, <2>3 DEF PutCommit, Same, Its, On
<1>7. ASSUME NEW d \in Deletes, Delete(d) \/ DeleteDies(d) PROVE Same(c)
  <2>1. del[d].of # c BY DEF Untouched, Targeted
  <2>2. UNCHANGED <<pc, mem, st, cid, addr>>
    BY <1>7 DEF Delete, DeleteLoad, DeleteDns, DeleteCheck, DeleteGuest, DeleteRow, DeleteDies
  <2>3. dns' = dns \/ dns' = [dns EXCEPT ![del[d].of] = FALSE]
    BY <1>7 DEF Delete, DeleteLoad, DeleteDns, DeleteCheck, DeleteGuest, DeleteRow, DeleteDies
  <2>4. guest' = guest \/ guest' = [guest EXCEPT ![del[d].cid] = None]
    BY <1>7 DEF Delete, DeleteLoad, DeleteDns, DeleteCheck, DeleteGuest, DeleteRow, DeleteDies, Remove
  <2>5. ASSUME NEW v \in Ids, Its(c, v) PROVE guest'[v] # None /\ guest'[v].on = guest[v].on
    <3>1. There(c) BY <1>14, <2>5
    <3>2. guest'[v] # None BY <1>1, <2>2, <2>5, <3>1, ItsLasts DEF Untouched, Replaces, Remakes
    <3> QED BY <1>2, <2>4, <2>5, <3>2
  <2>6. dns'[c] = dns[c] BY <1>2, <2>1, <2>3
  <2> QED BY <2>2, <2>5, <2>6 DEF Same
<1>8. ASSUME NEW i \in Jobs, i # j, \E step : pc' = [pc EXCEPT ![i] = step],
             mem' = mem \/ (\E m : mem' = [mem EXCEPT ![i] = m]),
             st' = st \/ (\E verdict : st' = [st EXCEPT ![i] = verdict]),
             i[1] # c
      PROVE  /\ pc'[j] = pc[j] /\ mem'[j] = mem[j]
             /\ \A k \in Jobs : k[1] = c => st'[k] = st[k]
  BY <1>1, <1>2, <1>8
<1>9. ASSUME NEW v \in Ids, Its(c, v), NEW w,
             \/ guest' = guest
             \/ ~On(w) /\ \E g : guest' = [guest EXCEPT ![w] = g]
             \/ w # v /\ \E g : guest' = [guest EXCEPT ![w] = g]
      PROVE  guest'[v] # None /\ guest'[v].on = guest[v].on
  <2>1. On(v) /\ guest[v] \in Guests BY <1>2, <1>9 DEF Its, On
  <2>2. ASSUME w # v, NEW g, guest' = [guest EXCEPT ![w] = g] PROVE guest'[v] = guest[v]
    BY <1>2, <2>2
  <2>3. ~On(w) => w # v BY <2>1
  <2>4. guest[v] # None BY <2>1 DEF On
  <2> QED BY <1>9, <2>2, <2>3, <2>4
<1>15. ASSUME NEW i \in Jobs, i[1] # c, Active(i), pc[i] \in Later \cup RestartSteps, On(mem[i].vm),
              NEW w \in Ids, SetEnv(mem[i].vm, w, mem[i].env), NEW v \in Ids, Its(c, v)
       PROVE  guest'[v] # None /\ guest'[v].on = guest[v].on
  <2> DEFINE x == mem[i].vm
             version == mem[i].env
  <2>1. x \in Ids /\ version \in Nat BY <1>2, <1>15 DEF On
  <2>2. v # x BY <1>1, <1>15, WorksOnOwn DEF Its
  <2> HIDE DEF x, version
  <2>3. /\ IF docker THEN w \notin issued ELSE w = x
        /\ \A u \in Ids : u # x /\ u # w => guest'[u] = guest[u]
    <3>1. On(x) /\ SetEnv(x, w, version) BY <1>15 DEF x, version
    <3> QED BY <1>1, <2>1, <3>1, SetEnvSteps
  <2>4. v # w BY <1>1, <1>15, <2>2, <2>3 DEF Checked, Its
  <2> QED BY <1>15, <2>2, <2>3, <2>4 DEF Its, On
<1>10. ASSUME NEW b \in Rows, Create(b) PROVE Same(c)
  <2>1. b # c BY <1>10 DEF OwnStep, Create
  <2>2. Creation(b) \in Jobs /\ Creation(b)[1] = b BY JobsOf
  <2>3. /\ \E step : pc' = [pc EXCEPT ![Creation(b)] = step]
        /\ st' = st \/ \E verdict : st' = [st EXCEPT ![Creation(b)] = verdict]
    BY <1>10 DEF Create, NextId, CreateGuest, Persist, Apply, Store, FindServices, Publish, Go, End, Throw
  <2>4. mem' = mem \/ \E m : mem' = [mem EXCEPT ![Creation(b)] = m]
    <3>1. mem' = mem \/ \E v : mem' = [mem EXCEPT ![Creation(b)].vm = v]
      BY <1>10 DEF Create, NextId, CreateGuest, Persist, Apply, Store, FindServices, Publish
    <3> QED BY <3>1
  <2>5. cid'[c] = cid[c] /\ addr' = addr
    BY <1>2, <1>10, <2>1 DEF Create, NextId, CreateGuest, Persist, Apply, Store, FindServices, Publish
  <2>6. dns'[c] = dns[c]
    BY <1>2, <1>10, <2>1 DEF Create, NextId, CreateGuest, Persist, Apply, Store, FindServices, Publish
  <2>7. ASSUME NEW v \in Ids, Its(c, v) PROVE guest'[v] # None /\ guest'[v].on = guest[v].on
    <3>1. CASE guest' = guest BY <1>9, <2>7, <3>1
    <3>2. CASE CreateGuest(b) /\ guest' # guest
      <4>1. PICK w \in Ids : /\ IF docker THEN Fresh(w) ELSE ~On(w)
                             /\ \E g : guest' = [guest EXCEPT ![w] = g]
        BY <1>2, <3>2 DEF CreateGuest
      <4>2. ~On(w) BY <1>1, <4>1 DEF Checked, Fresh, Lowest
      <4> QED BY <1>9, <2>7, <4>1, <4>2
    <3>3. CASE Apply(b) /\ guest' # guest
      <4>1. /\ pc[Creation(b)] = "apply" /\ On(mem[Creation(b)].vm)
            /\ \E w \in Ids : SetEnv(mem[Creation(b)].vm, w, mem[Creation(b)].env)
        BY <3>3 DEF Apply
      <4>2. Active(Creation(b)) /\ pc[Creation(b)] \in Later
        BY <4>1 DEF Active, Later, Steps, CreateSteps
      <4> QED BY <1>15, <2>1, <2>2, <2>7, <4>1, <4>2
    <3>4. CreateGuest(b) \/ Apply(b) \/ guest' = guest
      BY <1>10 DEF Create, NextId, Persist, Store, FindServices, Publish
    <3> QED BY <3>1, <3>2, <3>3, <3>4
  <2>9. Creation(b) # j BY <1>1, <2>1, <2>2
  <2> QED BY <1>8, <2>1, <2>2, <2>3, <2>4, <2>5, <2>6, <2>7, <2>9 DEF Same
<1>11. ASSUME NEW i \in Jobs, JobStep(i) PROVE Same(c)
  <2>1. ~ScriptFails(i) /\ ~RecreateFails(i) /\ ~ScriptKilled(i)
    BY <1>2 DEF ScriptFails, RecreateFails, ScriptKilled, Fault
  <2>2. i # j
    <3>1. ASSUME i = j PROVE Reapply(j) \/ Check(j) \/ StopGuest(j)
      BY <1>11, <2>1, <3>1 DEF OwnStep, JobStep, Script, Restart
    <3>2. pc[j] \notin {"reapply", "check", "stop"}
      <4>1. Active(j) => pc[j] \in CreateSteps BY <1>1 DEF Shaped, Placed
      <4> QED BY <4>1 DEF Active, Steps, CreateSteps, RestartSteps
    <3> QED BY <3>1, <3>2 DEF Reapply, Check, StopGuest
  <2>3. i[1] # c
    <3>1. ASSUME i[1] = c PROVE FALSE
      <4>1. st[i] = "absent" BY <2>2, <3>1 DEF Progress
      <4>2. ~Active(i) BY <1>1, <4>1 DEF Recorded
      <4>3. ~Begin(i) BY <4>1 DEF Begin
      <4> QED BY <1>11, <2>1, <4>2, <4>3
              DEF JobStep, Script, Restart, StartGuest, Record, Reapply, Check, StopGuest,
                  Active, Steps, CreateSteps, RestartSteps
    <3> QED BY <3>1
  <2>4. /\ \E step : pc' = [pc EXCEPT ![i] = step]
        /\ st' = st \/ \E verdict : st' = [st EXCEPT ![i] = verdict]
        /\ mem' = mem \/ \E m : mem' = [mem EXCEPT ![i] = m]
    BY <1>11, <2>1 DEF JobStep, Script, Restart, Begin, StartGuest, Record, Reapply, Check, StopGuest, Go, End, Throw
  <2>5. i[1] \in Rows /\ cid' = cid /\ dns' = dns
    BY <1>11, <2>1 DEF Jobs, JobStep, Script, Restart, Begin, StartGuest, Record, Reapply, Check, StopGuest
  <2>6. addr'[c] = addr[c]
    BY <1>2, <1>11, <2>1, <2>3 DEF JobStep, Script, Restart, Begin, StartGuest, Record, Reapply, Check, StopGuest
  <2>7. ASSUME NEW v \in Ids, Its(c, v) PROVE guest'[v] # None /\ guest'[v].on = guest[v].on
    <3>1. CASE guest' = guest BY <1>9, <2>7, <3>1
    <3>2. CASE Reapply(i) /\ guest' # guest
      <4>1. On(mem[i].vm) /\ \E w \in Ids : SetEnv(mem[i].vm, w, mem[i].env) BY <3>2 DEF Reapply
      <4>2. Active(i) /\ pc[i] \in RestartSteps BY <3>2 DEF Reapply, Active, Steps, RestartSteps
      <4> QED BY <1>15, <2>3, <2>7, <4>1, <4>2
    <3>3. CASE (StartGuest(i) \/ StopGuest(i)) /\ guest' # guest
      <4>1. Active(i) /\ pc[i] \in Later \cup RestartSteps
        BY <3>3 DEF StartGuest, StopGuest, Active, Later, Steps, CreateSteps, RestartSteps
      <4>5. On(mem[i].vm) BY <3>3 DEF StartGuest, StopGuest, Stopped, Running
      <4>2. guest[mem[i].vm].of # c BY <1>1, <2>3, <4>1, <4>5, WorksOnOwn
      <4>3. mem[i].vm # v BY <2>7, <4>2 DEF Its
      <4>4. \E g : guest' = [guest EXCEPT ![mem[i].vm] = g]
        <5>1. \E b \in BOOLEAN : guest' = [guest EXCEPT ![mem[i].vm].on = b]
          BY <3>3 DEF StartGuest, StopGuest
        <5> QED BY <5>1
      <4> QED BY <1>9, <2>7, <4>3, <4>4
    <3>4. Reapply(i) \/ StartGuest(i) \/ StopGuest(i) \/ guest' = guest
      BY <1>11, <2>1 DEF JobStep, Script, Restart, Begin, Record, Check
    <3> QED BY <3>1, <3>2, <3>3, <3>4
  <2> QED BY <1>8, <2>2, <2>3, <2>4, <2>5, <2>6, <2>7 DEF Same
<1>12. ASSUME NEW v \in Ids, RemovedOnNode(v) PROVE FALSE BY <1>2, <1>12 DEF RemovedOnNode
<1>13. CASE UNCHANGED vars BY <1>3, <1>13 DEF vars
<1> QED BY <1>4, <1>5, <1>6, <1>7, <1>10, <1>11, <1>12, <1>13 DEF Next, JobStep

LEMMA AddressesStep ==
  ASSUME Told, Smooth', [Next]_vars
  PROVE  Addresses'
<1>1. Smooth /\ Known /\ Shaped /\ Addresses BY SmoothBefore DEF Told, Known, IInv
<1> SUFFICES ASSUME NEW c \in Rows PROVE addr'[c] \in {c, None}
  BY DEF Addresses
<1>2. ASSUME NEW j \in Jobs, j[1] = c, pc[j] = "record", Running(mem[j].vm), addr'[c] = guest[mem[j].vm].of
      PROVE  addr'[c] = c
  <2>1. Active(j) /\ pc[j] \in Later BY <1>2 DEF Active, Later, Steps, CreateSteps
  <2> QED BY <1>1, <1>2, <2>1, WorksOnOwn DEF Running
<1>3. addr'[c] = addr[c] \/ \E j \in Jobs : /\ j[1] = c /\ pc[j] = "record" /\ Running(mem[j].vm)
                                              /\ addr'[c] = guest[mem[j].vm].of
  BY <1>1, IdSteps
<1> QED BY <1>1, <1>2, <1>3 DEF Addresses

\* A step elsewhere leaves a creation where it is.
LEMMA ProgressElsewhere ==
  ASSUME Known, Smooth', [Next]_vars, NEW c \in Rows, Untouched(c), Untouched(c)',
         Progress(c), Mine(c), ~OwnStep(c)
  PROVE  Progress(c)'
<1> DEFINE j == <<c, 0>>
<1>1. /\ Smooth /\ Shaped /\ j \in Jobs /\ j[1] = c /\ j = Creation(c)
      /\ There(c) => OwnGuest(c)
      /\ Active(j) => There(c)
      /\ row \in [Rows -> {"no", "yes", "gone"}]
      /\ pc \in [Jobs -> {"idle", "done"} \cup Steps] /\ mem \in [Jobs -> [env: Nat, vm: Ids \cup {None}]]
      /\ cid \in [Rows -> Ids \cup {None}]
  BY SmoothBefore, UntouchedKeeps, JobsOf DEF Known, IInv, Shaped, TypeOK, Creation
<1>2. Same(c) BY Elsewhere
<1>3. row'[c] = row[c]
  <2>1. ASSUME row'[c] # row[c] PROVE row[c] = "no" /\ row'[c] = "yes"
    <3>1. ~\E d \in Deletes : del[d].of = c BY DEF Untouched, Targeted
    <3> QED BY <1>1, <2>1, <3>1, RowSteps
  <2>2. ASSUME row[c] = "no", row'[c] = "yes" PROVE Post(c)
    <3> USE DEF rowVars, nodeVars, jobVars, reqVars, budget
    <3>1. \/ \E b \in Rows : Post(b)
          \/ row' = row
          \/ \E d \in Deletes : DeleteRow(d)
      <4>1. ServerStep \/ row' = row BY Frames DEF vars
      <4> QED BY <4>1 DEF ServerStep, PutLoad, PutCommit, Delete, DeleteLoad, DeleteDns, DeleteCheck,
                          DeleteGuest, DeleteDies
    <3>2. \A b \in Rows : Post(b) => b = c BY <1>1, <2>2 DEF Post
    <3>3. \A d \in Deletes : DeleteRow(d) => row'[c] \in {row[c], "gone"} BY <1>1 DEF DeleteRow
    <3> QED BY <2>2, <3>1, <3>2, <3>3
  <2> QED BY <2>1, <2>2 DEF OwnStep
<1>4. ASSUME pc[j] \in Later PROVE Its(c, mem[j].vm) /\ mem[j].vm \in Ids
  <2>1. Active(j) BY <1>4 DEF Active, Later, Steps, CreateSteps
  <2>2. Its(c, mem[j].vm) BY <1>1, <1>4, <2>1 DEF OwnGuest
  <2> QED BY <1>1, <2>2 DEF Its, On
<1>5. ASSUME pc[j] = "done", st[j] = "success" PROVE Its(c, cid[c]) /\ cid[c] \in Ids
  <2>1. There(c) BY <1>1, <1>5 DEF Progress, There
  <2>2. Running(cid[c]) BY <1>1, <1>5 DEF Progress
  <2>3. cid[c] \in Ids BY <1>1, <2>2 DEF Running, On
  <2>4. OwnGuest(c) BY <1>1, <2>1
  <2> QED BY <2>3, <2>4 DEF OwnGuest
<1>6. /\ pc'[j] = pc[j] /\ mem'[j] = mem[j] /\ cid'[c] = cid[c] /\ addr'[c] = addr[c] /\ dns'[c] = dns[c]
      /\ \A i \in Jobs : i[1] = c => st'[i] = st[i]
  BY <1>1, <1>2 DEF Same
<1>7. ASSUME pc[j] \in Later
      PROVE  guest'[mem[j].vm] # None /\ guest'[mem[j].vm].on = guest[mem[j].vm].on
  BY <1>2, <1>4, <1>7 DEF Same
<1>8. ASSUME pc[j] = "done", st[j] = "success"
      PROVE  guest'[cid[c]] # None /\ guest'[cid[c]].on = guest[cid[c]].on
  BY <1>2, <1>5, <1>8 DEF Same
<1>9. /\ pc[j] \in Unstored \cup {"start", "record", "dns", "publish"} => pc[j] \in Later
  BY DEF Unstored, Later
<1>10. st'[j] = st[j] BY <1>1, <1>6
<1> HIDE DEF j
<1> QED BY <1>1, <1>3, <1>6, <1>7, <1>8, <1>9, <1>10 DEF Progress, Stopped, Running, On

\* A creation whose calls succeed does what its next step says.
LEMMA ProgressOwn ==
  ASSUME Told, Smooth', [Next]_vars, NEW c \in Rows, Untouched(c), Progress(c), OwnStep(c)
  PROVE  Progress(c)'
<1> USE DEF rowVars, nodeVars, jobVars, reqVars, budget
<1> DEFINE j == <<c, 0>>
<1>1. /\ Smooth /\ Known /\ Shaped /\ Recorded /\ Distinct /\ Addresses
      /\ There(c) => OwnGuest(c)
      /\ Active(j) => There(c) /\ st[j] = "running" /\ pc[j] \in CreateSteps
      /\ j \in Jobs /\ j[1] = c /\ j = Creation(c)
      /\ row \in [Rows -> {"no", "yes", "gone"}] /\ addr \in [Rows -> Rows \cup {None}]
      /\ pc \in [Jobs -> {"idle", "done"} \cup Steps] /\ mem \in [Jobs -> [env: Nat, vm: Ids \cup {None}]]
      /\ st \in [Jobs -> {"absent", "pending", "running", "success", "failure", "cancelled"}]
      /\ cid \in [Rows -> Ids \cup {None}] /\ guest \in [Ids -> Guests \cup {None}] /\ dns \in [Rows -> BOOLEAN]
  BY SmoothBefore, UntouchedKeeps, JobsOf DEF Told, Known, IInv, Shaped, TypeOK, Creation
<1>2. faults' = 0 /\ faults = 0 /\ causes' = {} BY SmoothBefore, <1>1 DEF Smooth
<1>3. ASSUME Active(j)
      PROVE  /\ st[j] = "running" /\ There(c) /\ pc[j] \in CreateSteps
             /\ pc[j] \in Later => Its(c, mem[j].vm) /\ mem[j].vm \in Ids
  <2>1. st[j] = "running" /\ There(c) /\ pc[j] \in CreateSteps BY <1>1, <1>3
  <2>2. pc[j] \in Later => Its(c, mem[j].vm) BY <1>1, <2>1 DEF OwnGuest
  <2> QED BY <1>1, <2>1, <2>2 DEF Its, On
<1>4. ASSUME NEW step \in Steps, Go(j, step)
      PROVE  pc'[j] = step /\ st' = st
  BY <1>1, <1>4 DEF Go
<1>5. ASSUME NEW verdict, End(j, verdict)
      PROVE  pc'[j] = "done" /\ st'[j] = verdict /\ \A i \in Jobs : i # j => st'[i] = st[i]
  BY <1>1, <1>5 DEF End
<1>19. ASSUME \A i \in Jobs : i # j => st'[i] = st[i]
       PROVE  \A i \in Jobs : i[1] = c /\ i # j => st'[i] = "absent"
  BY <1>1, <1>19 DEF Progress
<1>6. ASSUME NEW step \in {"id", "create"}, pc'[j] = step, st'[j] = "running", row' = row, There(c),
             \A i \in Jobs : i # j => st'[i] = st[i]
      PROVE  Progress(c)'
  <2>1. row'[c] = "yes" BY <1>6 DEF There
  <2>2. \A i \in Jobs : i[1] = c /\ i # j => st'[i] = "absent" BY <1>6, <1>19
  <2> QED BY <1>1, <1>6, <2>1, <2>2 DEF Progress, Unstored
<1>7. ASSUME pc'[j] = "done", st'[j] = "failure", cid'[c] = None, row' = row, row[c] = "yes",
             \A i \in Jobs : i # j => st'[i] = st[i]
      PROVE  Progress(c)'
  <2>1. \A i \in Jobs : i[1] = c /\ i # j => st'[i] = "absent" BY <1>7, <1>19
  <2> QED BY <1>1, <1>7, <2>1 DEF Progress, Unstored
<1>8. CASE Post(c)
  <2>1. row'[c] = "yes" /\ st'[j] = "pending" /\ (\A i \in Jobs : i # j => st'[i] = st[i]) /\ pc'[j] = pc[j]
    BY <1>1, <1>8 DEF Post
  <2>2. pc[j] = "idle" BY <1>1, <1>8 DEF Post, Progress
  <2>3. \A i \in Jobs : i[1] = c /\ i # j => st'[i] = "absent" BY <1>1, <2>1 DEF Progress
  <2>4. pc'[j] = "idle" BY <2>1, <2>2
  <2> QED BY <1>1, <2>1, <2>3, <2>4 DEF Progress, Unstored
<1>9. CASE Begin(j)
  <2>1. st[j] = "pending" /\ cid' = cid /\ row' = row BY <1>9 DEF Begin
  <2>2. row[c] = "yes" BY <1>1, <2>1 DEF Progress
  <2>3. pc[j] = "idle"
    <3>1. ~Active(j) BY <1>1, <2>1 DEF Recorded
    <3> QED BY <1>1, <2>1, <3>1 DEF Progress, Active
  <2>4. cid[c] = None BY <1>1, <2>3 DEF Distinct
  <2>5. CASE Throw(j) BY <1>5, <1>7, <2>1, <2>2, <2>4, <2>5 DEF Throw
  <2>6. CASE ~Throw(j)
    <3>1. /\ There(c) /\ pc' = [pc EXCEPT ![j] = IF docker THEN "create" ELSE "id"]
          /\ st' = [st EXCEPT ![j] = "running"]
      BY <1>1, <1>9, <2>6 DEF Begin
    <3>2. pc'[j] \in {"id", "create"} /\ st'[j] = "running" /\ \A i \in Jobs : i # j => st'[i] = st[i]
      BY <1>1, <3>1
    <3> QED BY <1>6, <2>1, <3>1, <3>2
  <2> QED BY <2>5, <2>6
<1>10. CASE NextId(c)
  <2>1. pc[j] = "id" /\ Go(j, "create") /\ row' = row BY <1>1, <1>10 DEF NextId
  <2>2. Active(j) BY <2>1 DEF Active, Steps, CreateSteps
  <2> QED BY <1>3, <1>4, <1>6, <2>1, <2>2 DEF Steps, CreateSteps
<1>11. CASE CreateGuest(c)
  <2>1. pc[j] = "create" /\ row' = row /\ cid' = cid BY <1>1, <1>11 DEF CreateGuest
  <2>2. Active(j) BY <2>1 DEF Active, Steps, CreateSteps
  <2>3. cid[c] = None BY <1>1, <2>1 DEF Distinct
  <2>4. row[c] = "yes" /\ st[j] = "running" BY <1>3, <2>2 DEF There
  <2>5. CASE Throw(j) BY <1>5, <1>7, <2>1, <2>3, <2>4, <2>5 DEF Throw
  <2>6. ASSUME NEW v \in Ids, Go(j, "persist"), mem' = [mem EXCEPT ![j].vm = v],
               guest' = [guest EXCEPT ![v] = [name |-> name[c], of |-> c, env |-> None, on |-> FALSE]]
        PROVE  Progress(c)'
    <3>1. mem'[j].vm = v /\ pc'[j] = "persist" /\ st' = st
      <4>1. pc'[j] = "persist" /\ st' = st BY <1>4, <2>6 DEF Steps, CreateSteps
      <4>2. mem'[j] = [mem[j] EXCEPT !.vm = v] BY <1>1, <2>6
      <4>3. mem[j] \in [env: Nat, vm: Ids \cup {None}] BY <1>1
      <4>4. mem'[j].vm = v BY <4>2, <4>3
      <4> QED BY <4>1, <4>4
    <3>2. guest'[v] = [name |-> name[c], of |-> c, env |-> None, on |-> FALSE] BY <1>1, <2>6
    <3>3. guest'[v] \in Guests
      <4>1. name[c] \in Names BY <1>1, <2>4 DEF Shaped, Placed
      <4> QED BY <3>2, <4>1 DEF Guests
    <3>4. guest'[v] # None /\ ~guest'[v].on
      <4>1. guest'[v] # None BY <3>3
      <4>2. guest'[v].on = FALSE BY <3>2
      <4> QED BY <4>1, <4>2
    <3>5. v # None OBVIOUS
    <3> QED BY <1>1, <2>1, <2>4, <3>1, <3>4, <3>5 DEF Progress, Unstored, Stopped, On
  <2> QED BY <1>1, <1>11, <2>5, <2>6 DEF CreateGuest
<1>12. CASE Persist(c)
  <2>1. pc[j] = "persist" /\ row' = row /\ guest' = guest /\ mem' = mem BY <1>1, <1>12 DEF Persist
  <2>2. Active(j) /\ Stopped(mem[j].vm) BY <1>1, <2>1 DEF Active, Steps, CreateSteps, Progress, Unstored
  <2>3. Go(j, "apply") BY <1>1, <1>12, <2>2 DEF Persist, Stopped
  <2>4. pc'[j] = "apply" /\ st' = st BY <1>4, <2>3 DEF Steps, CreateSteps
  <2> QED BY <1>1, <1>3, <2>1, <2>2, <2>4 DEF Progress, Unstored, Stopped, On, There
<1>13. CASE Apply(c)
  <2>1. pc[j] = "apply" /\ row' = row BY <1>1, <1>13 DEF Apply
  <2>2. Active(j) /\ Stopped(mem[j].vm) BY <1>1, <2>1 DEF Active, Steps, CreateSteps, Progress, Unstored
  <2>3. PICK w \in Ids : SetEnv(mem[j].vm, w, mem[j].env) /\ mem' = [mem EXCEPT ![j].vm = w] /\ Go(j, "store")
    BY <1>1, <1>13, <2>2 DEF Apply, Stopped
  <2>4. pc'[j] = "store" /\ st' = st BY <1>4, <2>3 DEF Steps, CreateSteps
  <2>5. mem[j].vm \in Ids /\ mem[j].env \in Nat BY <1>1, <2>2 DEF Stopped, On
  <2>6. mem'[j].vm = w
    <3>1. mem[j] \in [env: Nat, vm: Ids \cup {None}] BY <1>1
    <3>2. mem'[j] = [mem[j] EXCEPT !.vm = w] BY <1>1, <2>3
    <3> QED BY <3>1, <3>2
  <2>7. guest'[w] # None /\ guest'[w].on = IF docker THEN FALSE ELSE guest[mem[j].vm].on
    BY <1>1, <2>2, <2>3, <2>5, SetEnvSteps DEF Stopped, Shaped
  <2>8. w # None /\ ~guest'[w].on BY <2>2, <2>7 DEF Stopped
  <2>9. row[c] = "yes" /\ st'[j] = "running" BY <1>3, <2>2, <2>4 DEF There
  <2> QED BY <1>1, <2>1, <2>4, <2>6, <2>7, <2>8, <2>9 DEF Progress, Unstored, Stopped, On
<1>14. CASE Store(c)
  <2>1. pc[j] = "store" /\ row' = row /\ guest' = guest /\ mem' = mem BY <1>1, <1>14 DEF Store
  <2>2. Active(j) /\ Stopped(mem[j].vm) BY <1>1, <2>1 DEF Active, Steps, CreateSteps, Progress, Unstored
  <2>3. There(c) BY <1>3, <2>2
  <2>4. Go(j, "start") /\ cid' = [cid EXCEPT ![c] = mem[j].vm]
    BY <1>1, <1>2, <1>14, <2>3 DEF Store
  <2>5. pc'[j] = "start" /\ st' = st BY <1>4, <2>4 DEF Steps, CreateSteps
  <2>6. cid'[c] = mem[j].vm BY <1>1, <2>4
  <2> QED BY <1>1, <1>3, <2>1, <2>2, <2>3, <2>5, <2>6 DEF Progress, Unstored, Stopped, On, There
<1>15. CASE StartGuest(j)
  <2>1. pc[j] = "start" /\ row' = row /\ mem' = mem /\ cid' = cid BY <1>15 DEF StartGuest
  <2>2. Active(j) /\ Stopped(mem[j].vm) /\ cid[c] = mem[j].vm
    BY <1>1, <2>1 DEF Active, Steps, CreateSteps, Progress
  <2>3. Go(j, "record") /\ guest' = [guest EXCEPT ![mem[j].vm].on = TRUE] BY <1>15, <2>2 DEF StartGuest
  <2>4. pc'[j] = "record" /\ st' = st BY <1>4, <2>3 DEF Steps, CreateSteps
  <2>5. mem[j].vm \in Ids /\ guest[mem[j].vm] \in Guests BY <1>1, <2>2 DEF Stopped, On
  <2>6. guest'[mem[j].vm] = [guest[mem[j].vm] EXCEPT !.on = TRUE] BY <1>1, <2>3, <2>5
  <2>7. guest'[mem[j].vm] \in Guests /\ guest'[mem[j].vm].on BY <2>5, <2>6 DEF Guests
  <2>8. guest'[mem[j].vm] # None BY <2>7
  <2>9. Running(mem[j].vm)' BY <2>1, <2>5, <2>7, <2>8 DEF Running, On
  <2>10. /\ cid'[c] = mem'[j].vm /\ row'[c] = "yes" /\ Running(mem[j].vm)'
         /\ \A i \in Jobs : i[1] = c /\ i # j => st'[i] = "absent"
    BY <1>1, <1>3, <2>1, <2>2, <2>4, <2>9 DEF Progress, There
  <2> QED BY <1>1, <2>4, <2>10 DEF Progress, Unstored
<1>16. CASE Record(j)
  <2>1. pc[j] = "record" /\ row' = row /\ mem' = mem /\ cid' = cid /\ guest' = guest BY <1>16 DEF Record
  <2>2. Active(j) /\ Running(mem[j].vm) /\ cid[c] = mem[j].vm
    BY <1>1, <2>1 DEF Active, Steps, CreateSteps, Progress
  <2>3. Its(c, mem[j].vm) BY <1>3, <2>1, <2>2 DEF Later
  <2>4. There(c) BY <1>3, <2>2
  <2>5. \A b \in Rows \ {c} : addr[b] # c
    <3>1. \A b \in Rows : addr[b] \in {b, None} BY <1>1 DEF Addresses
    <3> QED BY <3>1
  <2>6. Go(j, "dns") /\ addr' = [addr EXCEPT ![c] = c]
    BY <1>1, <1>16, <2>2, <2>3, <2>4, <2>5 DEF Record, Its
  <2>7. pc'[j] = "dns" /\ st' = st BY <1>4, <2>6 DEF Steps, CreateSteps
  <2>8. addr'[c] = c BY <1>1, <2>6
  <2> QED BY <1>1, <1>3, <2>1, <2>2, <2>4, <2>7, <2>8 DEF Progress, Unstored, Running, On, There
<1>17. CASE FindServices(c)
  <2>1. pc[j] = "dns" /\ UNCHANGED <<row, mem, cid, guest, addr>> BY <1>1, <1>17 DEF FindServices
  <2>2. Active(j) /\ Running(mem[j].vm) /\ cid[c] = mem[j].vm /\ addr[c] = c
    BY <1>1, <2>1 DEF Active, Steps, CreateSteps, Progress
  <2>3. There(c) BY <1>3, <2>2
  <2>4. Go(j, "publish") BY <1>1, <1>17, <2>3 DEF FindServices
  <2>5. pc'[j] = "publish" /\ st' = st BY <1>4, <2>4 DEF Steps, CreateSteps
  <2> QED BY <1>1, <1>3, <2>1, <2>2, <2>3, <2>5 DEF Progress, Unstored, Running, On, There
<1>18. CASE Publish(c)
  <2>1. pc[j] = "publish" /\ UNCHANGED <<row, mem, cid, guest, addr>> BY <1>1, <1>18 DEF Publish
  <2>2. Active(j) /\ Running(mem[j].vm) /\ cid[c] = mem[j].vm /\ addr[c] = c
    BY <1>1, <2>1 DEF Active, Steps, CreateSteps, Progress
  <2>3. dns' = [dns EXCEPT ![c] = TRUE] BY <1>2, <1>18 DEF Publish, Fault
  <2>4. dns'[c] BY <1>1, <2>3
  <2>5. End(j, "success") BY <1>1, <1>18 DEF Publish
  <2>6. pc'[j] = "done" /\ st'[j] = "success" /\ \A i \in Jobs : i # j => st'[i] = st[i]
    BY <1>5, <2>5
  <2>7. There(c) BY <1>3, <2>2
  <2>8. /\ Running(cid[c])' /\ addr'[c] = c /\ row'[c] = "yes"
        /\ \A i \in Jobs : i[1] = c /\ i # j => st'[i] = "absent"
    BY <1>1, <2>1, <2>2, <2>6, <2>7 DEF Progress, Running, On, There
  <2> QED BY <1>1, <2>4, <2>6, <2>8 DEF Progress, Unstored
<1> QED BY <1>1, <1>8, <1>9, <1>10, <1>11, <1>12, <1>13, <1>14, <1>15, <1>16, <1>17, <1>18 DEF OwnStep

\* A PUT stays with its row.
LEMMA PutSteps ==
  ASSUME Shaped, [Next]_vars, NEW u \in Updates
  PROVE  \/ put'[u] = put[u]
         \/ /\ put[u].pc = "idle" /\ put'[u].of \in Rows /\ put'[u].cid = cid[put'[u].of]
            /\ put'[u].pc = "commit" /\ UNCHANGED <<row, cid, env, st, pc, want, newest>>
         \/ /\ put[u].pc = "commit" /\ put'[u].of = put[u].of /\ put'[u].cid = put[u].cid
            /\ UNCHANGED cid
<1> USE DEF rowVars, nodeVars, jobVars, reqVars, budget
<1>1. put \in [Updates -> [pc: {"idle", "commit", "done"}, of: Rows \cup {None}, cid: Ids \cup {None}]]
  BY DEF Shaped, TypeOK
<1>2. ASSUME NEW w \in Updates, PutLoad(w)
      PROVE  \/ put'[u] = put[u]
             \/ /\ put[u].pc = "idle" /\ put'[u].of \in Rows /\ put'[u].cid = cid[put'[u].of]
                /\ put'[u].pc = "commit" /\ UNCHANGED <<row, cid, env, st, pc, want, newest>>
  <2>1. PICK c \in Rows : put' = [put EXCEPT ![w] = [pc |-> "commit", of |-> c, cid |-> cid[c]]]
    BY <1>2 DEF PutLoad
  <2>2. CASE w = u
    <3>1. put'[u] = [pc |-> "commit", of |-> c, cid |-> cid[c]] BY <1>1, <2>1, <2>2
    <3> QED BY <1>2, <2>2, <3>1 DEF PutLoad
  <2>3. CASE w # u BY <1>1, <2>1, <2>3
  <2> QED BY <2>2, <2>3
<1>3. ASSUME NEW w \in Updates, PutCommit(w)
      PROVE  \/ put'[u] = put[u]
             \/ /\ put[u].pc = "commit" /\ put'[u].of = put[u].of /\ put'[u].cid = put[u].cid
                /\ UNCHANGED cid
  <2>1. put[w].pc = "commit" /\ put' = [put EXCEPT ![w].pc = "done"] /\ cid' = cid BY <1>3 DEF PutCommit
  <2>2. CASE w = u BY <1>1, <2>1, <2>2
  <2>3. CASE w # u BY <1>1, <2>1, <2>3
  <2> QED BY <2>2, <2>3
<1>4. ASSUME NEW c \in Rows, Post(c) PROVE put' = put BY <1>4 DEF Post
<1>5. ASSUME NEW d \in Deletes, Delete(d) \/ DeleteDies(d) PROVE put' = put
  BY <1>5 DEF Delete, DeleteLoad, DeleteDns, DeleteCheck, DeleteGuest, DeleteRow, DeleteDies
<1>6. ServerStep \/ put' = put BY Frames DEF vars
<1> QED BY <1>2, <1>3, <1>4, <1>5, <1>6 DEF ServerStep

\* The guests of a container that nobody touches stay with it: only its creation makes one for
\* it, or makes it anew, and that creation does not end before it has stored the id.
LEMMA MineStep ==
  ASSUME Told, Smooth', [Next]_vars, NEW c \in Rows, Untouched(c), Progress(c), Mine(c)
  PROVE  Mine(c)'
<1> DEFINE j == Creation(c)
<1>1. /\ Smooth /\ Known /\ Shaped /\ Recorded /\ Distinct /\ Checked /\ Faithful /\ Keeps(c)
      /\ There(c) => OwnGuest(c)
      /\ Active(j) => There(c)
      /\ j \in Jobs /\ j[1] = c /\ docker' = docker
      /\ cid \in [Rows -> Ids \cup {None}] /\ guest \in [Ids -> Guests \cup {None}]
  BY SmoothBefore, UntouchedKeeps, JobsOf DEF Told, Known, IInv, Shaped, TypeOK
<1>2. CASE ~docker
  <2>1. Known' BY <1>1, KnownStep
  <2>2. Calm' BY <1>1, <1>2 DEF Calm, AllKeep, Keeps
  <2>3. Belongs' BY <2>1, <2>2 DEF Known, Kept
  <2> QED BY <2>3 DEF Belongs, Mine
<1>3. CASE docker
  <2> SUFFICES ASSUME NEW v \in Ids, guest'[v] # None, guest'[v].of = c
               PROVE  \/ cid'[c] = v
                      \/ cid'[c] = None /\ pc'[j] \in Unstored /\ mem'[j].vm = v
    BY DEF Mine, On
  <2>1. GuestStep(v) BY <1>1, GuestSteps
  <2>2. v # None OBVIOUS
  <2>3. CASE On(v) /\ guest[v].of = c
    <3>1. CASE cid[c] = v
      <4>1. pc[j] # "store" BY <1>1, <2>2, <3>1 DEF Distinct
      <4> QED BY <1>1, <3>1, <4>1, IdSteps
    <3>2. CASE cid[c] = None /\ pc[j] \in Unstored /\ mem[j].vm = v
      <4>1. There(c) BY <1>1, <3>2 DEF Active, Unstored, Steps, CreateSteps
      <4>2. CASE pc'[j] \in Unstored /\ mem'[j] = mem[j]
        <5>1. pc'[j] # "start" BY <4>2 DEF Unstored
        <5>2. cid'[c] = cid[c] BY <1>1, <5>1, IdSteps
        <5> QED BY <3>2, <4>2, <5>2
      <4>3. CASE There(c) => cid'[c] = mem[j].vm BY <3>2, <4>1, <4>3
      <4>4. guest'[mem[j].vm] # None BY <3>2
      <4>5. On(mem[j].vm) BY <2>3, <3>2
      <4> QED BY <1>1, <3>2, <4>2, <4>3, <4>4, <4>5, CreationMoves
    <3> QED BY <2>3, <3>1, <3>2 DEF Mine
  <2>4. ASSUME pc[j] \in {"create", "apply"}, pc'[j] \in Unstored, mem'[j].vm = v
        PROVE  cid'[c] = None /\ pc'[j] \in Unstored /\ mem'[j].vm = v
    <3>1. cid[c] = None BY <1>1, <2>4 DEF Distinct
    <3> QED BY <1>1, <2>4, <3>1, IdSteps DEF Unstored
  <2>5. CASE Appears(v)
    <3>1. CASE /\ pc[j] = "create" /\ pc'[j] = "persist" /\ mem'[j].vm = v
      BY <2>4, <3>1 DEF Unstored
    <3>2. ASSUME NEW i \in Jobs, Remakes(i), guest[mem[i].vm].of = c,
                 pc[i] = "apply" => pc'[i] = "store" /\ mem'[i].vm = v
          PROVE  cid'[c] = None /\ pc'[j] \in Unstored /\ mem'[j].vm = v
      <4>1. Handles(i) /\ On(mem[i].vm) /\ i[1] \in Rows
        BY <3>2 DEF Remakes, Handles, Active, Steps, CreateSteps, RestartSteps, Jobs
      <4>2. i[1] = c BY <1>1, <1>3, <3>2, <4>1 DEF Faithful, MadeFor, Its
      <4>3. i = j /\ pc[i] = "apply" BY <1>1, <3>2, <4>2, RemakesOwn
      <4> QED BY <2>4, <3>2, <4>3 DEF Unstored
    <3> QED BY <2>5, <3>1, <3>2 DEF Appears
  <2>6. CASE ~On(v) /\ ~Appears(v)
    BY <2>1, <2>2, <2>6 DEF GuestStep, On
  <2>7. On(v) => guest[v].of = c \/ Appears(v)
    BY <1>1, <1>3, <2>1 DEF GuestStep, On
  <2> QED BY <2>3, <2>5, <2>6, <2>7
<1> QED BY <1>2, <1>3

LEMMA FollowedStep ==
  ASSUME Told, Smooth', [Next]_vars
  PROVE  Followed'
<1>1. Smooth /\ Known /\ Shaped /\ Followed BY SmoothBefore DEF Told, Known, IInv
<1> SUFFICES ASSUME NEW c \in Rows, Untouched(c)' PROVE Progress(c)' /\ Mine(c)'
  BY DEF Followed
<1>2. Untouched(c)
  <2>1. ASSUME NEW d \in Deletes, del[d].of = c PROVE del'[d].of = c
    <3>1. del[d].pc # "idle" BY <1>1, <2>1 DEF Shaped, Placed
    <3> QED BY <1>1, <2>1, <3>1, DeleteSteps
  <2>2. ASSUME NEW u \in Updates, put[u].of = c PROVE put'[u].of = c
    <3>1. put[u].pc # "idle" BY <1>1, <2>2 DEF Shaped, Placed
    <3> QED BY <1>1, <2>2, <3>1, PutSteps
  <2> QED BY <2>1, <2>2 DEF Untouched, Targeted
<1>3. Progress(c) /\ Mine(c) BY <1>1, <1>2 DEF Followed
<1> QED BY <1>1, <1>2, <1>3, ProgressElsewhere, ProgressOwn, MineStep

LEMMA ToldAlways == (Init => Told) /\ (Told /\ [Next]_vars => Told')
<1>1. ASSUME Init PROVE Told
  <2>1. Known BY <1>1, KnownInitially
  <2>2. Followed BY <1>1, JobsOf DEF Init, Followed, Progress, Mine, On, Unstored
  <2>3. Addresses BY <1>1 DEF Init, Addresses
  <2> QED BY <2>1, <2>2, <2>3 DEF Told
<1>2. ASSUME Told, [Next]_vars PROVE Told'
  <2>1. Known' BY <1>2, KnownStep DEF Told
  <2>2. Smooth' => Followed' /\ Addresses' BY <1>2, FollowedStep, AddressesStep
  <2> QED BY <2>1, <2>2 DEF Told
<1> QED BY <1>1, <1>2

\* On both kinds of node, with every call answered and nothing racing: whatever happens to other
\* containers, reconfigurations that lose their guests included, a user who only creates one
\* sees "running" with its address and its record when the job has succeeded, and "failed" with
\* no guest left when it has not.
THEOREM OutcomeShown == Spec => []OutcomeIsShown
<1>1. ASSUME Told, Smooth, NEW c \in Rows, Untouched(c)
      PROVE  /\ st[Creation(c)] = "success" => Status(c) = "running" /\ addr[c] = c /\ dns[c]
             /\ st[Creation(c)] = "failure" =>
                  Status(c) = "failed" /\ \A v \in Ids : On(v) => guest[v].of # c
  <2> DEFINE j == Creation(c)
  <2>1. /\ Progress(c) /\ Mine(c) /\ Recorded /\ j \in Jobs
        /\ pc \in [Jobs -> {"idle", "done"} \cup Steps]
    BY <1>1, JobsOf DEF Told, Followed, Known, IInv, Shaped, TypeOK
  <2>2. ASSUME st[j] \in {"success", "failure"} PROVE pc[j] = "done"
    <3>1. ~Active(j) BY <2>1, <2>2 DEF Recorded
    <3> QED BY <2>1, <2>2, <3>1 DEF Progress, Active
  <2>3. ASSUME st[j] = "success" PROVE Status(c) = "running" /\ addr[c] = c /\ dns[c]
    BY <2>1, <2>2, <2>3 DEF Progress, Status
  <2>4. ASSUME st[j] = "failure" PROVE Status(c) = "failed" /\ \A v \in Ids : On(v) => guest[v].of # c
    <3>1. cid[c] = None /\ pc[j] = "done" BY <2>1, <2>2, <2>4 DEF Progress
    <3>2. Status(c) = "failed" BY <2>4, <3>1 DEF Status, Running, On
    <3>3. ASSUME NEW v \in Ids, On(v), guest[v].of = c PROVE FALSE
      BY <2>1, <3>1, <3>3 DEF Mine, Unstored, On
    <3> QED BY <3>2, <3>3
  <2> QED BY <2>3, <2>4
<1>2. Told => OutcomeIsShown
  BY <1>1 DEF Smooth, OutcomeIsShown
<1> QED BY <1>2, ToldAlways, PTL DEF Spec

\* As long as every container keeps its guest, deletions that overlap harm nothing that is not
\* explained by it: the three promises to users hold whatever requests and scripts run next to
\* one another.
THEOREM DeletionsHold == Spec => [](AllKeep => OverlappingDeletesHold)
<1>1. LeaksAreExplained /\ RowsDescribeTheirGuest /\ OutcomeIsShown => OverlappingDeletesHold
  BY DEF OverlappingDeletesHold
<1> QED BY <1>1, LeaksExplained, RowsDescribe, OutcomeShown, PTL
-----------------------------------------------------------------------------
(* What a reconfiguration has applied stays                                *)

\* A Proxmox node on which nothing is deleted.
Spared == ~docker /\ removals = 0 /\ \A b \in Rows : ~Targeted(b)

\* Without a DELETE no row goes, and none overlap.
Undeleted == (\A b \in Rows : ~Targeted(b)) => "overlap" \notin causes /\ \A c \in Rows : row[c] # "gone"

\* A job that is not begun has no script, and a queued one has a row.
Unbegun ==
  \A j \in Jobs :
    /\ st[j] \in {"absent", "pending"} => pc[j] = "idle"
    /\ st[j] # "absent" => row[j[1]] # "no"

\* A creation makes one guest, which is the only one of its row.
OneGuest ==
  \A v \in Ids : On(v) =>
    LET j == Creation(guest[v].of) IN pc[j] \in Later \cup {"done"} /\ mem[j].vm = v

\* The environments of row and creation are not ahead of the newest; a reconfiguration is
\* queued only when the row has its id, and so when the creation writes to the row no more:
\* from then on the row's environment only grows.
Promised ==
  /\ \A c \in Rows : env[c] <= newest[c] /\ mem[Creation(c)].env <= newest[c]
  /\ \A u \in Updates : put[u].pc = "commit" /\ put[u].cid # None => cid[put[u].of] # None
  /\ \A i \in Reconfigurations : st[i] # "absent" => cid[i[1]] # None /\ env[i[1]] >= want[i]
  /\ \A i \in Reconfigurations : Active(i) => mem[i].env >= want[i]

\* A reconfiguration that has written the guest's environment.
Applied(i) == pc[i] \in {"check", "stop", "start", "record"} \/ st[i] = "success"

Alone(i) == \A k \in Reconfigurations : k[1] = i[1] /\ k # i => st[k] = "absent"

InForce ==
  \A i \in Reconfigurations : Applied(i) /\ Alone(i) =>
    \A v \in Ids : On(v) /\ guest[v].of = i[1] => guest[v].env # None /\ guest[v].env >= want[i]

\* A reconfiguration of a Docker container works on an id whose guest it has itself deleted.
Dropped ==
  docker => \A i \in Reconfigurations :
    /\ pc[i] \in {"check", "stop", "start", "record"} => mem[i].vm \in issued /\ ~On(mem[i].vm)
    /\ st[i] # "success"

Firm == IInv /\ Undeleted /\ Unbegun /\ Promised /\ Dropped /\ (Spared => OneGuest /\ InForce)

-----------------------------------------------------------------------------
LEMMA UndeletedStep ==
  ASSUME Shaped, Undeleted, [Next]_vars
  PROVE  Undeleted' /\ ((\A b \in Rows : ~Targeted(b))' => \A b \in Rows : ~Targeted(b))
<1> SUFFICES ASSUME (\A b \in Rows : ~Targeted(b))'
             PROVE  /\ \A b \in Rows : ~Targeted(b)
                    /\ "overlap" \notin causes' /\ \A c \in Rows : row'[c] # "gone"
  BY DEF Undeleted
<1> USE DEF rowVars, nodeVars, jobVars, reqVars, budget
<1>1. \A d \in Deletes : del'[d].of \notin Rows BY DEF Targeted
<1>2. \A d \in Deletes : del[d].pc = "idle"
  <2> SUFFICES ASSUME NEW d \in Deletes, del[d].pc # "idle" PROVE FALSE
    OBVIOUS
  <2>1. del[d].of \in Rows BY DEF Shaped, Placed
  <2>2. del'[d].of = del[d].of \/ del'[d].of \in Rows BY DeleteSteps
  <2> QED BY <1>1, <2>1, <2>2
<1>3. \A b \in Rows : ~Targeted(b) BY <1>2 DEF Shaped, Placed, Targeted
<1>4. "overlap" \notin causes /\ \A c \in Rows : row[c] # "gone" BY <1>3 DEF Undeleted
<1>5. \A c \in Rows : row'[c] # "gone"
  <2> SUFFICES ASSUME NEW c \in Rows, row'[c] = "gone" PROVE FALSE
    OBVIOUS
  <2> QED BY <1>2, <1>4, RowSteps
<1>6. ASSUME NEW d \in Deletes, Delete(d) \/ DeleteDies(d) PROVE FALSE
  <2>1. DeleteLoad(d) BY <1>2, <1>6 DEF Delete, DeleteDns, DeleteCheck, DeleteGuest, DeleteRow, DeleteDies
  <2>2. PICK c \in Rows : del' = [del EXCEPT ![d] = [pc |-> "dns", of |-> c, cid |-> cid[c]]]
    BY <2>1 DEF DeleteLoad
  <2>3. del'[d].of = c BY <2>2 DEF Shaped, TypeOK
  <2> QED BY <1>1, <2>3
<1>7. "overlap" \notin causes'
  <2>1. ASSUME NEW c \in Rows, Post(c) \/ Create(c) PROVE "overlap" \notin causes'
    BY <1>4, <2>1 DEF Post, Create, NextId, CreateGuest, Persist, Apply, Store, FindServices, Publish
  <2>2. ASSUME NEW u \in Updates, PutLoad(u) \/ PutCommit(u) PROVE "overlap" \notin causes'
    BY <1>4, <2>2 DEF PutLoad, PutCommit
  <2>3. ASSUME NEW j \in Jobs, JobStep(j) PROVE causes' = causes
    BY <2>3 DEF JobStep, Script, Restart, Begin, StartGuest, Record, Reapply, Check, StopGuest,
       ScriptFails, RecreateFails, ScriptKilled
  <2>4. ASSUME NEW v \in Ids, RemovedOnNode(v) PROVE "overlap" \notin causes'
    BY <1>4, <2>4 DEF RemovedOnNode, Remove
  <2>5. UNCHANGED vars => causes' = causes BY DEF vars
  <2> QED BY <1>4, <1>6, <2>1, <2>2, <2>3, <2>4, <2>5 DEF Next, JobStep
<1> QED BY <1>3, <1>5, <1>7

\* A row keeps its id.
LEMMA IdStays ==
  ASSUME Shaped, Distinct, [Next]_vars, NEW c \in Rows, cid[c] # None
  PROVE  cid'[c] = cid[c]
BY IdSteps DEF Distinct

LEMMA UnbegunStep ==
  ASSUME Shaped, Distinct, Unbegun, Promised, [Next]_vars
  PROVE  Unbegun'
<1> USE DEF rowVars, nodeVars, jobVars, reqVars, budget
<1>1. /\ TypeOK /\ pc \in [Jobs -> {"idle", "done"} \cup Steps]
      /\ st \in [Jobs -> {"absent", "pending", "running", "success", "failure", "cancelled"}]
      /\ \A j \in Jobs : j[1] \in Rows
      /\ "idle" \notin Steps
  BY DEF Shaped, TypeOK, Jobs, Steps, CreateSteps, RestartSteps
<1>2. \A c \in Rows : row[c] # "no" => row'[c] # "no" BY RowsStay
<1>3. ASSUME st' = st, pc' = pc PROVE Unbegun' BY <1>1, <1>2, <1>3 DEF Unbegun
<1>4. ASSUME NEW i \in Jobs, NEW step \in Steps, Go(i, step), Active(i) PROVE Unbegun'
  <2>1. st' = st /\ \A j \in Jobs : j # i => pc'[j] = pc[j] BY <1>1, <1>4, Moves DEF Go
  <2>2. st[i] = "running" BY <1>4 DEF Recorded, Shaped
  <2> QED BY <1>1, <1>2, <2>1, <2>2 DEF Unbegun
<1>5. ASSUME NEW i \in Jobs, NEW verdict \in {"success", "failure", "cancelled", "running"}, End(i, verdict),
             st[i] # "absent"
      PROVE  Unbegun'
  <2>1. \A j \in Jobs : j # i => pc'[j] = pc[j] /\ st'[j] = st[j] BY <1>1, <1>5, Moves DEF End
  <2>2. st'[i] = verdict BY <1>1, <1>5 DEF End
  <2> QED BY <1>1, <1>2, <1>5, <2>1, <2>2 DEF Unbegun
<1>6. ASSUME NEW i \in Jobs, st' = [st EXCEPT ![i] = "pending"], pc' = pc, st[i] = "absent", row'[i[1]] # "no"
      PROVE  Unbegun'
  BY <1>1, <1>2, <1>6 DEF Unbegun
<1>7. ASSUME NEW c \in Rows, Post(c) PROVE Unbegun'
  <2>1. /\ row[c] = "no" /\ row' = [row EXCEPT ![c] = "yes"] /\ pc' = pc
        /\ st' = [st EXCEPT ![Creation(c)] = "pending"]
    BY <1>7 DEF Post
  <2>2. st[Creation(c)] = "absent" BY <1>1, <2>1, JobsOf DEF Unbegun
  <2>3. row'[c] = "yes" BY <1>1, <2>1 DEF TypeOK
  <2> QED BY <1>6, <2>1, <2>2, <2>3, JobsOf
<1>8. ASSUME NEW u \in Updates, PutCommit(u) PROVE Unbegun'
  <2>1. put[u].pc = "commit" /\ put[u].of \in Rows /\ pc' = pc BY <1>8 DEF PutCommit, Shaped, Placed
  <2>2. ASSUME NEW k \in 1..MaxRestarts, st[<<put[u].of, k>>] = "absent", put[u].cid # None,
               st' = [st EXCEPT ![<<put[u].of, k>>] = "pending"]
        PROVE  Unbegun'
    <3>1. cid[put[u].of] # None BY <2>1, <2>2 DEF Promised
    <3>2. row[put[u].of] # "no" BY <2>1, <3>1 DEF Distinct
    <3>3. <<put[u].of, k>> \in Jobs /\ <<put[u].of, k>>[1] = put[u].of BY <2>1 DEF Jobs
    <3> QED BY <1>2, <1>6, <2>1, <2>2, <3>2, <3>3
  <2>3. st' = st => Unbegun' BY <1>3, <2>1
  <2> QED BY <1>8, <2>2, <2>3 DEF PutCommit
<1>9. ASSUME NEW d \in Deletes, Delete(d) \/ DeleteDies(d) PROVE st' = st /\ pc' = pc
  BY <1>9 DEF Delete, DeleteLoad, DeleteDns, DeleteCheck, DeleteGuest, DeleteRow, DeleteDies
<1>10. ASSUME NEW u \in Updates, PutLoad(u) PROVE st' = st /\ pc' = pc BY <1>10 DEF PutLoad
<1>11. ASSUME NEW v \in Ids, RemovedOnNode(v) PROVE st' = st /\ pc' = pc BY <1>11 DEF RemovedOnNode
<1>12. ASSUME NEW j \in Jobs, Begin(j) PROVE Unbegun'
  <2>1. st[j] = "pending" BY <1>12 DEF Begin
  <2>2. CASE Throw(j) BY <1>5, <2>1, <2>2 DEF Throw
  <2>3. CASE /\ There(j[1]) /\ st' = [st EXCEPT ![j] = "running"]
             /\ \E step : pc' = [pc EXCEPT ![j] = step]
    <3>1. st'[j] = "running" /\ \A i \in Jobs : i # j => st'[i] = st[i] /\ pc'[i] = pc[i]
      BY <1>1, <2>3
    <3> QED BY <1>1, <1>2, <2>1, <3>1 DEF Unbegun
  <2> QED BY <1>12, <2>2, <2>3 DEF Begin
<1>13. ASSUME NEW c \in Rows, Create(c) PROVE Unbegun'
  <2>1. /\ Active(Creation(c))
        /\ Throw(Creation(c)) \/ End(Creation(c), "success") \/ \E step \in Steps : Go(Creation(c), step)
    BY <1>13 DEF Create, NextId, CreateGuest, Persist, Apply, Store, FindServices, Publish, Active, Steps, CreateSteps
  <2>2. st[Creation(c)] = "running" BY <2>1, JobsOf DEF Recorded, Shaped
  <2> QED BY <1>4, <1>5, <2>1, <2>2, JobsOf DEF Throw
<1>14. ASSUME NEW j \in Jobs, JobStep(j), ~Begin(j) PROVE Unbegun'
  <2>1. /\ Active(j)
        /\ \/ Throw(j) \/ End(j, "success") \/ End(j, "cancelled") \/ End(j, "running")
           \/ \E step \in Steps : Go(j, step)
    BY <1>14 DEF JobStep, Script, Restart, StartGuest, Record, Reapply, Check, StopGuest,
       ScriptFails, RecreateFails, ScriptKilled, Active, Steps, CreateSteps, RestartSteps
  <2>2. st[j] = "running" BY <2>1 DEF Recorded, Shaped
  <2> QED BY <1>4, <1>5, <2>1, <2>2 DEF Throw
<1>15. UNCHANGED vars => st' = st /\ pc' = pc BY DEF vars
<1> QED BY <1>3, <1>7, <1>8, <1>9, <1>10, <1>11, <1>12, <1>13, <1>14, <1>15 DEF Next, JobStep

-----------------------------------------------------------------------------
(* What is promised *)

\* A PUT stores the next environment; the creation writes back the one it has.
LEMMA EnvSteps ==
  ASSUME Shaped, [Next]_vars, NEW c \in Rows
  PROVE  \/ env'[c] = env[c] /\ newest'[c] >= newest[c]
         \/ newest'[c] = newest[c] + 1 /\ env'[c] = newest'[c]
         \/ /\ pc[Creation(c)] = "persist" /\ env'[c] = mem[Creation(c)].env
            /\ newest'[c] = newest[c]
<1> USE DEF rowVars, nodeVars, jobVars, reqVars, budget
<1>1. /\ env \in [Rows -> Nat] /\ newest \in [Rows -> Nat] /\ newest[c] \in Nat
  BY DEF Shaped, TypeOK
<1>2. ASSUME UNCHANGED <<env, newest>> PROVE env'[c] = env[c] /\ newest'[c] >= newest[c]
  BY <1>1, <1>2
<1>3. ASSUME NEW u \in Updates, PutCommit(u)
      PROVE  \/ env'[c] = env[c] /\ newest'[c] >= newest[c]
             \/ newest'[c] = newest[c] + 1 /\ env'[c] = newest'[c]
  <2> DEFINE b == put[u].of
  <2>1. PICK changed \in BOOLEAN :
          LET version == IF changed THEN newest[b] + 1 ELSE newest[b] IN
          /\ newest' = [newest EXCEPT ![b] = version]
          /\ env' = [env EXCEPT ![b] = IF changed /\ There(b) THEN version ELSE @]
    BY <1>3 DEF PutCommit
  <2>2. CASE b # c BY <1>1, <2>1, <2>2
  <2>3. CASE b = c BY <1>1, <2>1, <2>3
  <2> QED BY <2>2, <2>3
<1>4. ASSUME NEW b \in Rows, Persist(b)
      PROVE  \/ env'[c] = env[c] /\ newest'[c] = newest[c]
             \/ /\ pc[Creation(c)] = "persist" /\ env'[c] = mem[Creation(c)].env
                /\ newest'[c] = newest[c]
  <2>1. newest' = newest /\ pc[Creation(b)] = "persist" BY <1>4 DEF Persist
  <2>2. \/ env' = env
        \/ \E adds \in BOOLEAN : env' = [env EXCEPT ![b] = IF adds /\ There(b) THEN mem[Creation(b)].env ELSE @]
    BY <1>4 DEF Persist
  <2> QED BY <1>1, <2>1, <2>2
<1>5. ASSUME NEW b \in Rows, Post(b) \/ (Create(b) /\ ~Persist(b)) PROVE UNCHANGED <<env, newest>>
  BY <1>5 DEF Post, Create, NextId, CreateGuest, Apply, Store, FindServices, Publish
<1>6. ASSUME NEW d \in Deletes, Delete(d) \/ DeleteDies(d) PROVE UNCHANGED <<env, newest>>
  BY <1>6 DEF Delete, DeleteLoad, DeleteDns, DeleteCheck, DeleteGuest, DeleteRow, DeleteDies
<1>7. ASSUME NEW u \in Updates, PutLoad(u) PROVE UNCHANGED <<env, newest>> BY <1>7 DEF PutLoad
<1>8. ASSUME NEW j \in Jobs, JobStep(j) PROVE UNCHANGED <<env, newest>>
  BY <1>8 DEF JobStep, Script, Restart, Begin, StartGuest, Record, Reapply, Check, StopGuest,
     ScriptFails, RecreateFails, ScriptKilled
<1>9. ASSUME NEW v \in Ids, RemovedOnNode(v) PROVE UNCHANGED <<env, newest>> BY <1>9 DEF RemovedOnNode
<1>10. UNCHANGED vars => UNCHANGED <<env, newest>> BY DEF vars
<1>11. newest'[c] = newest[c] => newest'[c] >= newest[c] BY <1>1
<1> QED BY <1>2, <1>3, <1>4, <1>5, <1>6, <1>7, <1>8, <1>9, <1>10, <1>11 DEF Next, JobStep

\* Only a PUT queues a reconfiguration.
LEMMA WantSteps ==
  ASSUME Shaped, [Next]_vars, NEW i \in Reconfigurations
  PROVE  \/ want'[i] = want[i] /\ (st'[i] # "absent" => st[i] # "absent")
         \/ /\ st[i] = "absent" /\ st'[i] = "pending" /\ want'[i] = env'[i[1]]
            /\ \E u \in Updates : put[u].pc = "commit" /\ put[u].of = i[1] /\ put[u].cid # None
            /\ UNCHANGED <<cid, pc, mem, guest>>
<1> USE DEF rowVars, nodeVars, jobVars, reqVars, budget
<1>1. /\ TypeOK /\ want \in [Jobs -> Nat] /\ i \in Jobs /\ \A c \in Rows : i # Creation(c)
      /\ st \in [Jobs -> {"absent", "pending", "running", "success", "failure", "cancelled"}]
  BY ReconfigurationsAre DEF Shaped, TypeOK
<1> DEFINE Goal == \/ want'[i] = want[i] /\ (st'[i] # "absent" => st[i] # "absent")
                   \/ /\ st[i] = "absent" /\ st'[i] = "pending" /\ want'[i] = env'[i[1]]
                      /\ \E u \in Updates : put[u].pc = "commit" /\ put[u].of = i[1] /\ put[u].cid # None
                      /\ UNCHANGED <<cid, pc, mem, guest>>
<1>2. ASSUME want' = want, st' = st PROVE Goal BY <1>2
<1>3. ASSUME NEW j \in Jobs, st[j] # "absent", \E verdict : st' = [st EXCEPT ![j] = verdict], want' = want
      PROVE  Goal
  BY <1>1, <1>3
<1>4. ASSUME NEW c \in Rows, Post(c) PROVE Goal
  <2>1. want' = want /\ st' = [st EXCEPT ![Creation(c)] = "pending"] BY <1>4 DEF Post
  <2>2. st'[i] = st[i] BY <1>1, <2>1, JobsOf
  <2> QED BY <2>1, <2>2
<1>5. ASSUME NEW u \in Updates, PutCommit(u) PROVE Goal
  <2>1. put[u].pc = "commit" /\ UNCHANGED <<cid, pc, mem, guest>> BY <1>5 DEF PutCommit
  <2>2. ASSUME NEW k \in 1..MaxRestarts, put[u].cid # None, st[<<put[u].of, k>>] = "absent",
               st' = [st EXCEPT ![<<put[u].of, k>>] = "pending"],
               want' = [want EXCEPT ![<<put[u].of, k>>] = env'[put[u].of]]
        PROVE  Goal
    <3>1. CASE i = <<put[u].of, k>>
      <4>1. i[1] = put[u].of BY <3>1
      <4>2. st'[i] = "pending" /\ want'[i] = env'[i[1]] /\ st[i] = "absent" BY <1>1, <2>2, <3>1, <4>1
      <4> QED BY <2>1, <2>2, <4>1, <4>2
    <3>2. CASE i # <<put[u].of, k>> BY <1>1, <2>2, <3>2
    <3> QED BY <3>1, <3>2
  <2>3. UNCHANGED <<st, want>> => Goal BY <1>2
  <2> HIDE DEF Goal
  <2> QED BY <1>5, <2>2, <2>3 DEF PutCommit
<1> HIDE DEF Goal
<1>6. ASSUME NEW d \in Deletes, Delete(d) \/ DeleteDies(d) PROVE st' = st /\ want' = want
  BY <1>6 DEF Delete, DeleteLoad, DeleteDns, DeleteCheck, DeleteGuest, DeleteRow, DeleteDies
<1>7. ASSUME NEW u \in Updates, PutLoad(u) PROVE st' = st /\ want' = want BY <1>7 DEF PutLoad
<1>8. ASSUME NEW v \in Ids, RemovedOnNode(v) PROVE st' = st /\ want' = want BY <1>8 DEF RemovedOnNode
<1>9. UNCHANGED vars => st' = st /\ want' = want BY DEF vars
<1>10. Goal
  <2>1. ASSUME NEW c \in Rows, Create(c) PROVE Goal
    <3>1. want' = want /\ (st' = st \/ \E verdict : st' = [st EXCEPT ![Creation(c)] = verdict])
      BY <2>1 DEF Create, NextId, CreateGuest, Persist, Apply, Store, FindServices, Publish, Go, End, Throw
    <3>2. \A verdict : st' = [st EXCEPT ![Creation(c)] = verdict] => st'[i] = st[i] BY <1>1, JobsOf
    <3>3. want'[i] = want[i] /\ (st'[i] # "absent" => st[i] # "absent") BY <3>1, <3>2
    <3> QED BY <3>3 DEF Goal
  <2>2. ASSUME NEW j \in Jobs, JobStep(j) PROVE Goal
    <3>1. want' = want /\ (st' = st \/ \E verdict : st' = [st EXCEPT ![j] = verdict])
      BY <2>2 DEF JobStep, Script, Restart, Begin, StartGuest, Record, Reapply, Check, StopGuest,
         ScriptFails, RecreateFails, ScriptKilled, Go, End, Throw
    <3>2. st' = st => Goal BY <1>2, <3>1
    <3>3. CASE st[j] # "absent" BY <1>2, <1>3, <3>1, <3>3
    <3>4. CASE Begin(j)
      <4>1. st[j] = "pending" BY <3>4 DEF Begin
      <4> QED BY <3>3, <4>1
    <3>5. CASE ~Begin(j)
      <4>1. Active(j)
        BY <2>2, <3>5 DEF JobStep, Script, Restart, StartGuest, Record, Reapply, Check, StopGuest,
           ScriptFails, RecreateFails, ScriptKilled, Active, Steps, CreateSteps, RestartSteps
      <4> QED BY <3>3, <4>1 DEF Recorded, Shaped
    <3> QED BY <3>4, <3>5
  <2> QED BY <1>2, <1>4, <1>5, <1>6, <1>7, <1>8, <1>9, <2>1, <2>2 DEF Next, JobStep
<1> QED BY <1>10 DEF Goal

\* A script loads the row's environment when it begins, and keeps it.
LEMMA MemSteps ==
  ASSUME Shaped, [Next]_vars, NEW j \in Jobs
  PROVE  \/ mem'[j].env = mem[j].env /\ (Active(j)' => Active(j))
         \/ st[j] = "pending" /\ mem'[j].env = env[j[1]] /\ UNCHANGED <<env, newest, want>>
<1> USE DEF rowVars, nodeVars, jobVars, reqVars, budget
<1>1. /\ TypeOK /\ mem \in [Jobs -> [env: Nat, vm: Ids \cup {None}]]
      /\ pc \in [Jobs -> {"idle", "done"} \cup Steps]
  BY DEF Shaped, TypeOK
<1> DEFINE Goal == \/ mem'[j].env = mem[j].env /\ (Active(j)' => Active(j))
                   \/ st[j] = "pending" /\ mem'[j].env = env[j[1]] /\ UNCHANGED <<env, newest, want>>
<1>2. ASSUME mem' = mem, pc' = pc PROVE Goal BY <1>2 DEF Active
<1>3. ASSUME NEW i \in Jobs, Active(i), \E step : pc' = [pc EXCEPT ![i] = step],
             mem' = mem \/ \E v : mem' = [mem EXCEPT ![i].vm = v]
      PROVE  Goal
  <2>1. mem'[j].env = mem[j].env
    <3>1. ASSUME NEW v, mem' = [mem EXCEPT ![i].vm = v] PROVE mem'[j].env = mem[j].env
      <4>1. CASE i = j
        <5>1. mem'[j] = [mem[j] EXCEPT !.vm = v] BY <1>1, <3>1, <4>1
        <5> QED BY <1>1, <5>1
      <4>2. CASE i # j BY <1>1, <3>1, <4>2
      <4> QED BY <4>1, <4>2
    <3> QED BY <1>3, <3>1
  <2>2. Active(j)' => Active(j) BY <1>1, <1>3 DEF Active
  <2> QED BY <2>1, <2>2
<1>4. ASSUME NEW c \in Rows, Create(c) PROVE Goal
  <2>1. Active(Creation(c))
    BY <1>4 DEF Create, NextId, CreateGuest, Persist, Apply, Store, FindServices, Publish, Active, Steps, CreateSteps
  <2>2. /\ \E step : pc' = [pc EXCEPT ![Creation(c)] = step]
        /\ mem' = mem \/ \E v : mem' = [mem EXCEPT ![Creation(c)].vm = v]
    BY <1>4 DEF Create, NextId, CreateGuest, Persist, Apply, Store, FindServices, Publish, Go, End, Throw
  <2> QED BY <1>3, <2>1, <2>2, JobsOf
<1>5. ASSUME NEW i \in Jobs, JobStep(i), ~Begin(i) PROVE Goal
  <2>1. Active(i)
    BY <1>5 DEF JobStep, Script, Restart, StartGuest, Record, Reapply, Check, StopGuest,
       ScriptFails, RecreateFails, ScriptKilled, Active, Steps, CreateSteps, RestartSteps
  <2>2. mem' = mem /\ \E step : pc' = [pc EXCEPT ![i] = step]
    BY <1>5 DEF JobStep, Script, Restart, StartGuest, Record, Reapply, Check, StopGuest,
       ScriptFails, RecreateFails, ScriptKilled, Go, End, Throw
  <2> QED BY <1>3, <2>1, <2>2
<1>6. ASSUME NEW i \in Jobs, Begin(i) PROVE Goal
  <2>1. st[i] = "pending" /\ UNCHANGED <<env, newest, want>> BY <1>6 DEF Begin
  <2>2. CASE Throw(i) /\ mem' = mem
    <3>1. "done" \notin Steps BY DEF Steps, CreateSteps, RestartSteps
    <3>2. Active(j)' => Active(j) BY <1>1, <2>2, <3>1 DEF Throw, End, Active
    <3> QED BY <2>2, <3>2
  <2>3. ASSUME mem' = [mem EXCEPT ![i] = [env |-> env[i[1]], vm |-> cid[i[1]]]],
               \E step : pc' = [pc EXCEPT ![i] = step]
        PROVE  Goal
    <3>1. CASE i = j BY <1>1, <2>1, <2>3, <3>1
    <3>2. CASE i # j BY <1>1, <2>3, <3>2 DEF Active
    <3> QED BY <3>1, <3>2
  <2> HIDE DEF Goal
  <2> QED BY <1>6, <2>2, <2>3 DEF Begin
<1> HIDE DEF Goal
<1>7. ASSUME NEW c \in Rows, Post(c) PROVE UNCHANGED <<mem, pc>> BY <1>7 DEF Post
<1>8. ASSUME NEW u \in Updates, PutLoad(u) \/ PutCommit(u) PROVE UNCHANGED <<mem, pc>>
  BY <1>8 DEF PutLoad, PutCommit
<1>9. ASSUME NEW d \in Deletes, Delete(d) \/ DeleteDies(d) PROVE UNCHANGED <<mem, pc>>
  BY <1>9 DEF Delete, DeleteLoad, DeleteDns, DeleteCheck, DeleteGuest, DeleteRow, DeleteDies
<1>10. ASSUME NEW v \in Ids, RemovedOnNode(v) PROVE UNCHANGED <<mem, pc>> BY <1>10 DEF RemovedOnNode
<1>11. UNCHANGED vars => UNCHANGED <<mem, pc>> BY DEF vars
<1>12. Goal BY <1>2, <1>4, <1>5, <1>6, <1>7, <1>8, <1>9, <1>10, <1>11 DEF Next, JobStep
<1> QED BY <1>12 DEF Goal

LEMMA PromisedStep ==
  ASSUME Shaped, Distinct, Unbegun, Promised, [Next]_vars
  PROVE  Promised'
<1>1. /\ TypeOK' /\ env \in [Rows -> Nat] /\ newest \in [Rows -> Nat] /\ want \in [Jobs -> Nat]
      /\ env' \in [Rows -> Nat] /\ newest' \in [Rows -> Nat] /\ want' \in [Jobs -> Nat]
      /\ mem \in [Jobs -> [env: Nat, vm: Ids \cup {None}]] /\ mem' \in [Jobs -> [env: Nat, vm: Ids \cup {None}]]
  BY TypeStep DEF Shaped, TypeOK
<1>2. \A c \in Rows : cid[c] # None => cid'[c] # None BY IdStays
<1>3. ASSUME NEW c \in Rows PROVE env'[c] <= newest'[c] /\ mem'[Creation(c)].env <= newest'[c]
  <2> DEFINE j == Creation(c)
  <2>1. j \in Jobs /\ j[1] = c BY JobsOf
  <2>2. env[c] <= newest[c] /\ mem[j].env <= newest[c] BY DEF Promised
  <2>3. /\ env[c] \in Nat /\ newest[c] \in Nat /\ env'[c] \in Nat /\ newest'[c] \in Nat
        /\ mem[j].env \in Nat /\ mem'[j].env \in Nat
    BY <1>1, <2>1
  <2>4. env'[c] <= newest'[c] BY <2>2, <2>3, EnvSteps
  <2>5. newest'[c] >= newest[c] BY <2>3, EnvSteps
  <2>6. mem'[j].env <= newest'[c]
    <3>1. mem'[j].env \in {mem[j].env, env[c]} BY <2>1, MemSteps
    <3> QED BY <2>2, <2>3, <2>5, <3>1
  <2> QED BY <2>4, <2>6
<1>4. ASSUME NEW u \in Updates, put'[u].pc = "commit", put'[u].cid # None PROVE cid'[put'[u].of] # None
  <2>1. CASE put'[u] = put[u]
    <3>1. put[u].of \in Rows /\ cid[put[u].of] # None BY <1>4, <2>1 DEF Shaped, Placed, Promised
    <3> QED BY <1>2, <2>1, <3>1
  <2>2. CASE put'[u].cid = cid[put'[u].of] /\ cid' = cid BY <1>4, <2>2
  <2>3. CASE put[u].pc = "commit" /\ put'[u].of = put[u].of /\ put'[u].cid = put[u].cid /\ cid' = cid
    BY <1>4, <2>3 DEF Promised
  <2> QED BY <2>1, <2>2, <2>3, PutSteps
<1>5. ASSUME NEW i \in Reconfigurations
      PROVE  /\ st'[i] # "absent" => cid'[i[1]] # None /\ env'[i[1]] >= want'[i]
             /\ Active(i)' => mem'[i].env >= want'[i]
  <2> DEFINE c == i[1]
  <2>1. i \in Jobs /\ c \in Rows BY ReconfigurationsAre
  <2>2. /\ env[c] \in Nat /\ newest[c] \in Nat /\ env'[c] \in Nat /\ want[i] \in Nat /\ want'[i] \in Nat
        /\ mem[i].env \in Nat /\ env[c] <= newest[c]
    BY <1>1, <2>1 DEF Promised
  <2>3. CASE want'[i] = want[i] /\ (st'[i] # "absent" => st[i] # "absent")
    <3>1. ASSUME st[i] # "absent" PROVE cid'[c] # None /\ env'[c] >= want'[i]
      <4>1. cid[c] # None /\ env[c] >= want[i] BY <3>1 DEF Promised
      <4>2. pc[Creation(c)] # "persist" BY <2>1, <4>1 DEF Distinct
      <4>3. env'[c] >= env[c] BY <2>1, <2>2, <4>2, EnvSteps
      <4> QED BY <1>2, <2>1, <2>2, <2>3, <4>1, <4>3
    <3>2. ASSUME Active(i)' PROVE mem'[i].env >= want'[i]
      <4>1. CASE mem'[i].env = mem[i].env /\ Active(i) BY <2>3, <4>1 DEF Promised
      <4>2. CASE st[i] = "pending" /\ mem'[i].env = env[c] BY <2>3, <4>2 DEF Promised
      <4> QED BY <2>1, <3>2, <4>1, <4>2, MemSteps
    <3> QED BY <2>3, <3>1, <3>2
  <2>4. CASE /\ st[i] = "absent" /\ st'[i] = "pending" /\ want'[i] = env'[c]
             /\ \E u \in Updates : put[u].pc = "commit" /\ put[u].of = c /\ put[u].cid # None
             /\ UNCHANGED <<cid, pc, mem, guest>>
    <3>1. cid'[c] # None BY <2>4 DEF Promised
    <3>2. pc'[i] = "idle" BY <2>1, <2>4 DEF Unbegun
    <3>3. ~Active(i)' BY <3>2 DEF Active, Steps, CreateSteps, RestartSteps
    <3> QED BY <2>2, <2>4, <3>1, <3>3
  <2> QED BY <2>3, <2>4, WantSteps
<1> QED BY <1>3, <1>4, <1>5 DEF Promised

-----------------------------------------------------------------------------
(* What is in force *)

\* A creation that has made its guest makes no other.
LEMMA CreationKeeps ==
  ASSUME Shaped, Unbegun, ~docker, [Next]_vars, NEW c \in Rows, pc[Creation(c)] \in Later \cup {"done"}
  PROVE  LET j == Creation(c) IN pc'[j] \in Later \cup {"done"} /\ mem'[j].vm = mem[j].vm
<1> USE DEF rowVars, nodeVars, jobVars, reqVars, budget
<1> DEFINE j == Creation(c)
           Goal == pc'[j] \in Later \cup {"done"} /\ mem'[j].vm = mem[j].vm
<1>1. /\ TypeOK /\ mem \in [Jobs -> [env: Nat, vm: Ids \cup {None}]]
      /\ pc \in [Jobs -> {"idle", "done"} \cup Steps] /\ j \in Jobs /\ j[1] = c
  BY JobsOf DEF Shaped, TypeOK
<1>2. pc[j] \notin {"idle", "id", "create"} BY DEF Later
<1>3. ASSUME UNCHANGED <<pc, mem>> PROVE Goal BY <1>3
<1>4. ASSUME NEW i \in Jobs, i # j, \E step : pc' = [pc EXCEPT ![i] = step],
             mem' = mem \/ \E m : mem' = [mem EXCEPT ![i] = m]
      PROVE  Goal
  BY <1>1, <1>4
<1>5. ASSUME NEW step \in Later \cup {"done"}, pc' = [pc EXCEPT ![j] = step], mem'[j].vm = mem[j].vm
      PROVE  Goal
  BY <1>1, <1>5
<1>6. ASSUME NEW b \in Rows, Create(b) PROVE Goal
  <2>1. CASE b # c
    <3>1. Creation(b) \in Jobs /\ Creation(b) # j BY <2>1, JobsOf DEF Creation
    <3>2. /\ \E step : pc' = [pc EXCEPT ![Creation(b)] = step]
          /\ mem' = mem \/ \E m : mem' = [mem EXCEPT ![Creation(b)] = m]
      BY <1>6 DEF Create, NextId, CreateGuest, Persist, Apply, Store, FindServices, Publish, Go, End, Throw
    <3> QED BY <1>4, <3>1, <3>2
  <2>2. CASE b = c
    <3>1. ~NextId(c) /\ ~CreateGuest(c) BY <1>2 DEF NextId, CreateGuest
    <3>2. CASE Apply(c)
      <4>1. mem'[j].vm = mem[j].vm
        <5>1. mem' = mem \/ \E w \in Ids : w = mem[j].vm /\ mem' = [mem EXCEPT ![j].vm = w]
          BY <3>2 DEF Apply, SetEnv
        <5> QED BY <1>1, <5>1
      <4>2. \E step \in {"store", "done"} : pc' = [pc EXCEPT ![j] = step]
        BY <3>2 DEF Apply, Go, End, Throw
      <4> QED BY <1>5, <4>1, <4>2 DEF Later
    <3>3. CASE Persist(c) \/ Store(c) \/ FindServices(c) \/ Publish(c)
      <4>1. mem' = mem /\ \E step \in {"apply", "start", "publish", "done"} : pc' = [pc EXCEPT ![j] = step]
        BY <3>3 DEF Persist, Store, FindServices, Publish, Go, End, Throw
      <4> QED BY <1>5, <4>1 DEF Later
    <3> QED BY <1>6, <2>2, <3>1, <3>2, <3>3 DEF Create
  <2> QED BY <2>1, <2>2
<1>7. ASSUME NEW i \in Jobs, JobStep(i) PROVE Goal
  <2>1. /\ \E step : pc' = [pc EXCEPT ![i] = step]
        /\ mem' = mem \/ \E m : mem' = [mem EXCEPT ![i] = m]
    BY <1>7 DEF JobStep, Script, Restart, Begin, StartGuest, Record, Reapply, Check, StopGuest,
       ScriptFails, RecreateFails, ScriptKilled, Go, End, Throw
  <2>2. CASE i = j
    <3>1. ~Begin(j) BY <1>1, <1>2 DEF Begin, Unbegun
    <3>2. ~Restart(j)
      <4>1. pc[j] \notin {"reapply", "check", "stop"} BY DEF Later
      <4> QED BY <4>1 DEF Restart, Reapply, Check, StopGuest
    <3>3. mem' = mem /\ \E step \in {"record", "dns", "done"} : pc' = [pc EXCEPT ![j] = step]
      BY <1>7, <2>2, <3>1, <3>2 DEF JobStep, Script, StartGuest, Record, ScriptFails, RecreateFails,
         ScriptKilled, Go, End, Throw
    <3> QED BY <1>5, <3>3 DEF Later
  <2>3. CASE i # j BY <1>4, <2>1, <2>3
  <2> QED BY <2>2, <2>3
<1> HIDE DEF Goal
<1>8. ASSUME NEW b \in Rows, Post(b) PROVE UNCHANGED <<mem, pc>> BY <1>8 DEF Post
<1>9. ASSUME NEW u \in Updates, PutLoad(u) \/ PutCommit(u) PROVE UNCHANGED <<mem, pc>>
  BY <1>9 DEF PutLoad, PutCommit
<1>10. ASSUME NEW d \in Deletes, Delete(d) \/ DeleteDies(d) PROVE UNCHANGED <<mem, pc>>
  BY <1>10 DEF Delete, DeleteLoad, DeleteDns, DeleteCheck, DeleteGuest, DeleteRow, DeleteDies
<1>11. ASSUME NEW v \in Ids, RemovedOnNode(v) PROVE UNCHANGED <<mem, pc>> BY <1>11 DEF RemovedOnNode
<1>12. UNCHANGED vars => UNCHANGED <<mem, pc>> BY DEF vars
<1>13. Goal BY <1>3, <1>6, <1>7, <1>8, <1>9, <1>10, <1>11, <1>12 DEF Next, JobStep
<1> QED BY <1>13 DEF Goal

LEMMA OneGuestStep ==
  ASSUME Shaped, Unbegun, ~docker, OneGuest, [Next]_vars
  PROVE  OneGuest'
<1> SUFFICES ASSUME NEW v \in Ids, On(v)'
             PROVE  LET j == Creation(guest'[v].of) IN pc'[j] \in Later \cup {"done"} /\ mem'[j].vm = v
  BY DEF OneGuest
<1>1. guest \in [Ids -> Guests \cup {None}] BY DEF Shaped, TypeOK
<1>2. CASE On(v) /\ guest'[v].of = guest[v].of
  <2>1. guest[v].of \in Rows BY <1>1, <1>2 DEF On, Guests
  <2>2. pc[Creation(guest[v].of)] \in Later \cup {"done"} /\ mem[Creation(guest[v].of)].vm = v
    BY <1>2 DEF OneGuest
  <2> QED BY <1>2, <2>1, <2>2, CreationKeeps
<1>3. CASE \E c \in Rows : pc'[Creation(c)] = "persist" /\ mem'[Creation(c)].vm = v /\ guest'[v].of = c
  BY <1>3 DEF Later
<1>4. GuestStep(v) /\ guest'[v] # None BY GuestSteps DEF On
<1>5. Appears(v) \/ (On(v) /\ guest'[v].of = guest[v].of) BY <1>4 DEF GuestStep, On
<1> QED BY <1>2, <1>3, <1>5 DEF Appears, Remakes

\* Only updateLxcConfig changes the environment of a guest that is there.
LEMMA GuestEnvSteps ==
  ASSUME Shaped, ~docker, [Next]_vars, NEW v \in Ids, On(v), On(v)'
  PROVE  \/ guest'[v].env = guest[v].env
         \/ \E j \in Jobs : /\ pc[j] = (IF j = Creation(j[1]) THEN "apply" ELSE "reapply")
                            /\ mem[j].vm = v /\ guest'[v].env = mem[j].env
<1> USE DEF rowVars, nodeVars, jobVars, reqVars, budget
<1>1. /\ TypeOK /\ guest \in [Ids -> Guests \cup {None}] /\ mem \in [Jobs -> [env: Nat, vm: Ids \cup {None}]]
      /\ guest[v] \in Guests /\ guest'[v] # None
  BY DEF Shaped, TypeOK, On
<1> DEFINE Goal == \/ guest'[v].env = guest[v].env
                   \/ \E j \in Jobs : /\ pc[j] = (IF j = Creation(j[1]) THEN "apply" ELSE "reapply")
                                      /\ mem[j].vm = v /\ guest'[v].env = mem[j].env
<1>2. guest' = guest => Goal OBVIOUS
<1>3. ASSUME NEW w, NEW b, guest' = [guest EXCEPT ![w].on = b] PROVE Goal
  <2>1. CASE v = w
    <3>1. guest'[v] = [guest[v] EXCEPT !.on = b] BY <1>1, <1>3, <2>1
    <3> QED BY <1>1, <3>1 DEF Guests
  <2>2. CASE v # w BY <1>1, <1>3, <2>2
  <2> QED BY <2>1, <2>2
<1>4. ASSUME NEW w, guest' = [guest EXCEPT ![w] = None] PROVE Goal BY <1>1, <1>4
<1>5. ASSUME NEW w, ~On(w), NEW g, guest' = [guest EXCEPT ![w] = g] PROVE Goal
  <2>1. v # w BY <1>5
  <2> QED BY <1>1, <1>5, <2>1
<1>6. ASSUME NEW j \in Jobs, pc[j] = (IF j = Creation(j[1]) THEN "apply" ELSE "reapply"),
             On(mem[j].vm), NEW w, SetEnv(mem[j].vm, w, mem[j].env)
      PROVE  Goal
  <2>1. guest' = [guest EXCEPT ![mem[j].vm] = [@ EXCEPT !.env = mem[j].env]]
    BY <1>1, <1>6, SetEnvInPlace
  <2>2. CASE mem[j].vm = v
    <3>1. guest'[v] = [guest[v] EXCEPT !.env = mem[j].env] BY <1>1, <2>1, <2>2
    <3>2. guest'[v].env = mem[j].env BY <1>1, <3>1 DEF Guests
    <3> QED BY <1>6, <2>2, <3>2
  <2>3. CASE mem[j].vm # v BY <1>1, <2>1, <2>3
  <2> QED BY <2>2, <2>3
<1> HIDE DEF Goal
<1>7. ASSUME NEW c \in Rows, CreateGuest(c) PROVE Goal
  <2>1. \/ guest' = guest
        \/ ~On(mem[Creation(c)].vm) /\ \E g : guest' = [guest EXCEPT ![mem[Creation(c)].vm] = g]
    BY <1>7 DEF CreateGuest
  <2> QED BY <1>2, <1>5, <2>1
<1>8. ASSUME NEW c \in Rows, Apply(c) PROVE Goal
  <2>1. CASE guest' = guest BY <1>2, <2>1
  <2>2. CASE On(mem[Creation(c)].vm) /\ \E w \in Ids : SetEnv(mem[Creation(c)].vm, w, mem[Creation(c)].env)
    <3>1. pc[Creation(c)] = "apply" BY <1>8 DEF Apply
    <3> QED BY <1>6, <2>2, <3>1, JobsOf
  <2> QED BY <1>8, <2>1, <2>2 DEF Apply
<1>9. ASSUME NEW j \in Jobs, Reapply(j) PROVE Goal
  <2>1. CASE guest' = guest BY <1>2, <2>1
  <2>2. CASE On(mem[j].vm) /\ \E w \in Ids : SetEnv(mem[j].vm, w, mem[j].env)
    <3>1. pc[j] = "reapply" /\ j # Creation(j[1])
      BY <1>9 DEF Reapply, Shaped, Placed, Active, Steps, CreateSteps, RestartSteps
    <3> QED BY <1>6, <2>2, <3>1
  <2> QED BY <1>9, <2>1, <2>2 DEF Reapply
<1>10. ASSUME NEW j \in Jobs, StartGuest(j) \/ StopGuest(j) PROVE Goal
  <2>1. guest' = guest \/ \E b : guest' = [guest EXCEPT ![mem[j].vm].on = b] BY <1>10 DEF StartGuest, StopGuest
  <2> QED BY <1>2, <1>3, <2>1
<1>11. ASSUME NEW c \in Rows, NextId(c) \/ Persist(c) \/ Store(c) \/ FindServices(c) \/ Publish(c) \/ Post(c)
       PROVE  guest' = guest
  BY <1>11 DEF NextId, Persist, Store, FindServices, Publish, Post
<1>12. ASSUME NEW j \in Jobs, Begin(j) \/ Record(j) \/ Check(j) \/ ScriptFails(j) \/ ScriptKilled(j)
       PROVE  guest' = guest
  BY <1>12 DEF Begin, Record, Check, ScriptFails, ScriptKilled
<1>13. ASSUME NEW j \in Jobs, RecreateFails(j) PROVE Goal BY <1>13 DEF RecreateFails
<1>14. ASSUME NEW d \in Deletes, Delete(d) \/ DeleteDies(d) PROVE Goal
  <2>1. guest' = guest \/ guest' = [guest EXCEPT ![del[d].cid] = None]
    BY <1>14 DEF Delete, DeleteLoad, DeleteDns, DeleteCheck, DeleteGuest, DeleteRow, DeleteDies, Remove
  <2> QED BY <1>2, <1>4, <2>1
<1>15. ASSUME NEW u \in Updates, PutLoad(u) \/ PutCommit(u) PROVE guest' = guest
  BY <1>15 DEF PutLoad, PutCommit
<1>16. ASSUME NEW w \in Ids, RemovedOnNode(w) PROVE Goal
  <2>1. guest' = [guest EXCEPT ![w] = None] BY <1>16 DEF RemovedOnNode, Remove
  <2> QED BY <1>4, <2>1
<1>17. UNCHANGED vars => guest' = guest BY DEF vars
<1>18. Goal
  <2>1. ASSUME NEW c \in Rows, Create(c) PROVE Goal BY <1>2, <1>7, <1>8, <1>11, <2>1 DEF Create
  <2>2. ASSUME NEW j \in Jobs, Script(j) PROVE Goal BY <1>2, <1>9, <1>10, <1>12, <2>2 DEF Script, Restart
  <2> QED BY <1>2, <1>11, <1>12, <1>13, <1>14, <1>15, <1>16, <1>17, <2>1, <2>2 DEF Next
<1> QED BY <1>18 DEF Goal

\* A reconfiguration has applied what it has loaded, or moves on from there.
LEMMA AppliedSteps ==
  ASSUME Shaped, [Next]_vars, NEW i \in Reconfigurations, Applied(i)'
  PROVE  \/ Applied(i)
         \/ /\ pc[i] = "reapply" /\ On(mem[i].vm)
            /\ \E w \in Ids : SetEnv(mem[i].vm, w, mem[i].env)
<1> USE DEF rowVars, nodeVars, jobVars, reqVars, budget
<1>1. /\ TypeOK /\ pc \in [Jobs -> {"idle", "done"} \cup Steps]
      /\ st \in [Jobs -> {"absent", "pending", "running", "success", "failure", "cancelled"}]
      /\ i \in Jobs /\ \A c \in Rows : i # Creation(c)
  BY ReconfigurationsAre DEF Shaped, TypeOK
<1> DEFINE Goal == \/ Applied(i)
                   \/ /\ pc[i] = "reapply" /\ On(mem[i].vm)
                      /\ \E w \in Ids : SetEnv(mem[i].vm, w, mem[i].env)
<1>2. ASSUME pc'[i] = pc[i], st'[i] = st[i] \/ st'[i] = "pending" PROVE Goal BY <1>2 DEF Applied
<1>3. ASSUME NEW j \in Jobs, \E step : pc' = [pc EXCEPT ![j] = step],
             st' = st \/ \E verdict : st' = [st EXCEPT ![j] = verdict], j # i
      PROVE  Goal
  <2>1. pc'[i] = pc[i] /\ st'[i] = st[i] BY <1>1, <1>3
  <2> QED BY <1>2, <2>1
<1>4. ASSUME NEW verdict \in {"failure", "cancelled", "running"}, End(i, verdict) PROVE FALSE
  <2>1. pc'[i] = "done" /\ st'[i] = verdict BY <1>1, <1>4 DEF End
  <2> QED BY <2>1 DEF Applied
<1> HIDE DEF Goal
<1>5. ASSUME NEW c \in Rows, Create(c) PROVE Goal
  <2>1. /\ \E step : pc' = [pc EXCEPT ![Creation(c)] = step]
        /\ st' = st \/ \E verdict : st' = [st EXCEPT ![Creation(c)] = verdict]
    BY <1>5 DEF Create, NextId, CreateGuest, Persist, Apply, Store, FindServices, Publish, Go, End, Throw
  <2> QED BY <1>1, <1>3, <2>1, JobsOf
<1>6. ASSUME NEW j \in Jobs, JobStep(j) PROVE Goal
  <2>1. CASE j # i
    <3>1. /\ \E step : pc' = [pc EXCEPT ![j] = step]
          /\ st' = st \/ \E verdict : st' = [st EXCEPT ![j] = verdict]
      BY <1>6 DEF JobStep, Script, Restart, Begin, StartGuest, Record, Reapply, Check, StopGuest,
         ScriptFails, RecreateFails, ScriptKilled, Go, End, Throw
    <3> QED BY <1>3, <2>1, <3>1
  <2>2. CASE j = i
    <3>1. CASE Begin(i)
      <4>1. CASE Throw(i) BY <1>4, <4>1 DEF Throw
      <4>2. ASSUME pc' = [pc EXCEPT ![i] = IF i # Creation(i[1]) THEN "reapply"
                                           ELSE IF docker THEN "create" ELSE "id"],
                   st' = [st EXCEPT ![i] = "running"]
            PROVE  FALSE
        <5>1. pc'[i] \in {"reapply", "create", "id"} /\ st'[i] = "running" BY <1>1, <4>2
        <5> QED BY <5>1 DEF Applied
      <4> QED BY <3>1, <4>1, <4>2 DEF Begin
    <3>2. CASE StartGuest(i) \/ Record(i) \/ Check(i) \/ StopGuest(i)
      <4>1. pc[i] \in {"start", "record", "check", "stop"} BY <3>2 DEF StartGuest, Record, Check, StopGuest
      <4> QED BY <4>1 DEF Goal, Applied
    <3>3. CASE Reapply(i)
      <4>1. CASE Throw(i) BY <1>4, <4>1 DEF Throw
      <4> QED BY <3>3, <4>1 DEF Reapply, Goal
    <3>4. CASE ScriptFails(i) \/ RecreateFails(i) \/ ScriptKilled(i)
      <4>1. \E verdict \in {"failure", "cancelled", "running"} : End(i, verdict)
        BY <3>4 DEF ScriptFails, RecreateFails, ScriptKilled, Throw
      <4> QED BY <1>4, <4>1
    <3> QED BY <1>6, <2>2, <3>1, <3>2, <3>3, <3>4 DEF JobStep, Script, Restart
  <2> QED BY <2>1, <2>2
<1>7. ASSUME NEW c \in Rows, Post(c) PROVE Goal
  <2>1. pc' = pc /\ st' = [st EXCEPT ![Creation(c)] = "pending"] BY <1>7 DEF Post
  <2>2. st'[i] = st[i] BY <1>1, <2>1, JobsOf
  <2> QED BY <1>2, <2>1, <2>2
<1>8. ASSUME NEW u \in Updates, PutCommit(u) PROVE Goal
  <2>1. pc' = pc /\ (st' = st \/ \E k : st' = [st EXCEPT ![<<put[u].of, k>>] = "pending"])
    BY <1>8 DEF PutCommit
  <2>2. st'[i] = st[i] \/ st'[i] = "pending" BY <1>1, <2>1
  <2> QED BY <1>2, <2>1, <2>2
<1>9. UNCHANGED <<pc, st>> => Goal BY <1>2
<1>10. ASSUME NEW u \in Updates, PutLoad(u) PROVE UNCHANGED <<pc, st>> BY <1>10 DEF PutLoad
<1>11. ASSUME NEW d \in Deletes, Delete(d) \/ DeleteDies(d) PROVE UNCHANGED <<pc, st>>
  BY <1>11 DEF Delete, DeleteLoad, DeleteDns, DeleteCheck, DeleteGuest, DeleteRow, DeleteDies
<1>12. ASSUME NEW v \in Ids, RemovedOnNode(v) PROVE UNCHANGED <<pc, st>> BY <1>12 DEF RemovedOnNode
<1>13. UNCHANGED vars => UNCHANGED <<pc, st>> BY DEF vars
<1>14. Goal BY <1>5, <1>6, <1>7, <1>8, <1>9, <1>10, <1>11, <1>12, <1>13 DEF Next, JobStep
<1> QED BY <1>14 DEF Goal

\* A reconfiguration succeeds after it has found its guest.
LEMMA SuccessSteps ==
  ASSUME Shaped, [Next]_vars, NEW i \in Reconfigurations, st'[i] = "success"
  PROVE  st[i] = "success" \/ (pc[i] \in {"check", "record"} /\ On(mem[i].vm))
<1> USE DEF rowVars, nodeVars, jobVars, reqVars, budget
<1>1. /\ st \in [Jobs -> {"absent", "pending", "running", "success", "failure", "cancelled"}]
      /\ i \in Jobs /\ \A c \in Rows : i # Creation(c)
  BY ReconfigurationsAre DEF Shaped, TypeOK
<1> DEFINE Goal == st[i] = "success" \/ (pc[i] \in {"check", "record"} /\ On(mem[i].vm))
<1>2. ASSUME NEW j, NEW verdict, st' = [st EXCEPT ![j] = verdict], j # i \/ verdict # "success" PROVE Goal
  BY <1>1, <1>2
<1>3. st' = st => Goal OBVIOUS
<1> HIDE DEF Goal
<1>4. ASSUME NEW c \in Rows, Post(c) \/ Create(c) PROVE Goal
  <2>1. st' = st \/ \E verdict : st' = [st EXCEPT ![Creation(c)] = verdict]
    BY <1>4 DEF Post, Create, NextId, CreateGuest, Persist, Apply, Store, FindServices, Publish, Go, End, Throw
  <2> QED BY <1>1, <1>2, <1>3, <2>1
<1>5. ASSUME NEW j \in Jobs, JobStep(j) PROVE Goal
  <2>1. CASE st' = st \/ \E verdict : st' = [st EXCEPT ![j] = verdict] /\ verdict # "success"
    BY <1>2, <1>3, <2>1
  <2>2. CASE Record(j) /\ Running(mem[j].vm) /\ End(j, "success")
    <3>1. CASE i = j BY <2>2, <3>1 DEF Record, Running, Goal
    <3> QED BY <1>2, <2>2, <3>1 DEF End
  <2>3. CASE Check(j) /\ On(mem[j].vm) /\ End(j, "success")
    <3>1. CASE i = j BY <2>3, <3>1 DEF Check, Goal
    <3> QED BY <1>2, <2>3, <3>1 DEF End
  <2>4. CASE Record(j) \/ Check(j)
    <3>1. \/ Record(j) /\ Running(mem[j].vm) /\ End(j, "success")
          \/ Check(j) /\ On(mem[j].vm) /\ End(j, "success")
          \/ \E step : Go(j, step)
          \/ Throw(j)
      BY <2>4 DEF Record, Check
    <3> QED BY <2>1, <2>2, <2>3, <3>1 DEF Go, Throw, End
  <2> QED BY <1>5, <2>1, <2>4 DEF JobStep, Script, Restart, Begin, StartGuest, Reapply, StopGuest,
                                  ScriptFails, RecreateFails, ScriptKilled, Go, End, Throw
<1>6. ASSUME NEW u \in Updates, PutCommit(u) PROVE Goal
  <2>1. st' = st \/ \E j : st' = [st EXCEPT ![j] = "pending"] BY <1>6 DEF PutCommit
  <2> QED BY <1>2, <1>3, <2>1
<1>7. ASSUME NEW u \in Updates, PutLoad(u) PROVE st' = st BY <1>7 DEF PutLoad
<1>8. ASSUME NEW d \in Deletes, Delete(d) \/ DeleteDies(d) PROVE st' = st
  BY <1>8 DEF Delete, DeleteLoad, DeleteDns, DeleteCheck, DeleteGuest, DeleteRow, DeleteDies
<1>9. ASSUME NEW v \in Ids, RemovedOnNode(v) PROVE st' = st BY <1>9 DEF RemovedOnNode
<1>10. UNCHANGED vars => st' = st BY DEF vars
<1>11. Goal BY <1>3, <1>4, <1>5, <1>6, <1>7, <1>8, <1>9, <1>10 DEF Next, JobStep
<1> QED BY <1>11 DEF Goal

LEMMA DroppedStep == ASSUME Shaped, Checked, Dropped, [Next]_vars PROVE Dropped'
<1>1. /\ TypeOK /\ docker' = docker /\ issued \subseteq issued'
      /\ mem \in [Jobs -> [env: Nat, vm: Ids \cup {None}]] /\ issued \in SUBSET Ids
  BY Frames, CausesGrow DEF Shaped, TypeOK
<1> SUFFICES ASSUME docker, NEW i \in Reconfigurations
             PROVE  /\ pc'[i] \in {"check", "stop", "start", "record"} =>
                          mem'[i].vm \in issued' /\ ~On(mem[i].vm)'
                    /\ st'[i] # "success"
  BY <1>1 DEF Dropped
<1>2. i \in Jobs /\ i # Creation(i[1]) BY ReconfigurationsAre
<1>3. st'[i] # "success" BY SuccessSteps DEF Dropped
<1>4. ASSUME pc'[i] \in {"check", "stop", "start", "record"}
      PROVE  mem'[i].vm \in issued' /\ guest'[mem'[i].vm] = None
  <2> DEFINE v == mem[i].vm
  <2>1. ScriptStep(i) BY <1>2, ScriptSteps
  <2>2. Active(i) => pc[i] \in RestartSteps BY <1>2 DEF Shaped, Placed
  <2>3. mem'[i] = mem[i] /\ pc[i] \in RestartSteps
    BY <1>2, <1>4, <2>1, <2>2 DEF ScriptStep, Follows, Active, Steps, CreateSteps, RestartSteps
  <2>4. CASE pc[i] # "reapply"
    <3>1. v \in issued /\ ~On(v) BY <2>3, <2>4 DEF Dropped, RestartSteps
    <3>2. v \in Ids /\ v # None /\ guest[v] = None BY <1>1, <3>1 DEF On
    <3>3. GuestStep(v) BY <3>2, GuestSteps
    <3>4. guest'[v] = None BY <3>1, <3>2, <3>3 DEF GuestStep
    <3> QED BY <1>1, <2>3, <3>1, <3>4
  <2>5. CASE pc[i] = "reapply"
    <3>1. ~Applied(i) BY <2>5 DEF Applied, Dropped
    <3>2. Applied(i)' BY <1>4 DEF Applied
    <3>3. PICK w \in Ids : On(v) /\ SetEnv(v, w, mem[i].env) BY <3>1, <3>2, AppliedSteps
    <3>4. v \in Ids /\ mem[i].env \in Nat BY <1>1, <1>2, <3>3 DEF On
    <3>5. w \notin issued /\ (w # v => guest'[v] = None)
      <4> DEFINE version == mem[i].env
      <4>1. version \in Nat /\ SetEnv(v, w, version) /\ On(v) /\ v \in Ids BY <3>3, <3>4
      <4> HIDE DEF v, version
      <4> QED BY <1>1, <4>1, SetEnvSteps
    <3>6. v \in issued BY <3>3, <3>4 DEF Checked
    <3> QED BY <1>1, <2>3, <3>5, <3>6
  <2> QED BY <2>4, <2>5
<1> QED BY <1>3, <1>4 DEF On

\* A job stays in the table.
LEMMA NeverAbsent ==
  ASSUME Shaped, [Next]_vars, NEW i \in Jobs, st'[i] = "absent"
  PROVE  st[i] = "absent"
<1> USE DEF rowVars, nodeVars, jobVars, reqVars, budget
<1> DEFINE Moved(j) == st' = st \/ \E s \in {"pending", "running", "success", "failure", "cancelled"} :
                                     st' = [st EXCEPT ![j] = s]
<1>1. ASSUME NEW j, Moved(j) PROVE st[i] = "absent"
  <2>1. st \in [Jobs -> {"absent", "pending", "running", "success", "failure", "cancelled"}]
    BY DEF Shaped, TypeOK
  <2> QED BY <1>1, <2>1
<1>2. ASSUME NEW c \in Rows, Post(c) \/ Create(c) PROVE Moved(Creation(c))
  BY <1>2 DEF Post, Create, NextId, CreateGuest, Persist, Apply, Store, FindServices, Publish, Go, End, Throw
<1>3. ASSUME NEW j \in Jobs, JobStep(j) PROVE Moved(j)
  BY <1>3 DEF JobStep, Script, Restart, Begin, StartGuest, Record, Reapply, Check, StopGuest,
     ScriptFails, RecreateFails, ScriptKilled, Go, End, Throw
<1>4. ASSUME NEW u \in Updates, PutCommit(u) PROVE \E j : Moved(j)
  BY <1>4 DEF PutCommit
<1>5. ASSUME NEW u \in Updates, PutLoad(u) PROVE st' = st BY <1>5 DEF PutLoad
<1>6. ASSUME NEW d \in Deletes, Delete(d) \/ DeleteDies(d) PROVE st' = st
  BY <1>6 DEF Delete, DeleteLoad, DeleteDns, DeleteCheck, DeleteGuest, DeleteRow, DeleteDies
<1>7. ASSUME NEW v \in Ids, RemovedOnNode(v) PROVE st' = st BY <1>7 DEF RemovedOnNode
<1>8. UNCHANGED vars => st' = st BY DEF vars
<1>9. st' = st \/ \E j : Moved(j)
  <2> HIDE DEF Moved
  <2> QED BY <1>2, <1>3, <1>4, <1>5, <1>6, <1>7, <1>8 DEF Next, JobStep
<1> QED BY <1>1, <1>9

LEMMA SparedBefore ==
  ASSUME Shaped, Undeleted, Spared', [Next]_vars
  PROVE  Spared /\ Quiet /\ \A c \in Rows : row[c] # "gone"
<1>1. docker' = docker BY Frames
<1>2. \A b \in Rows : ~Targeted(b) BY UndeletedStep DEF Spared
<1>3. "overlap" \notin causes' BY UndeletedStep DEF Spared, Undeleted
<1>4. Quiet' BY <1>3 DEF Quiet, Spared
<1>5. Quiet BY <1>4, QuietBefore
<1> QED BY <1>1, <1>2, <1>5 DEF Spared, Quiet, Undeleted

LEMMA InForceStep ==
  ASSUME Firm, Spared', [Next]_vars
  PROVE  InForce'
<1>1. /\ Shaped /\ Distinct /\ Owned /\ Recorded /\ Undeleted /\ Unbegun /\ Promised
      /\ Spared /\ Quiet /\ OneGuest /\ InForce /\ \A c \in Rows : row[c] # "gone"
  BY SparedBefore DEF Firm, IInv, Shaped
<1>2. /\ guest \in [Ids -> Guests \cup {None}] /\ mem \in [Jobs -> [env: Nat, vm: Ids \cup {None}]]
      /\ row \in [Rows -> {"no", "yes", "gone"}] /\ ~docker
      /\ \A j \in Jobs : j[1] \in Rows
  BY <1>1 DEF Shaped, TypeOK, Spared, Jobs
<1> SUFFICES ASSUME NEW i \in Reconfigurations, Applied(i)', Alone(i)',
                    NEW v \in Ids, On(v)', guest'[v].of = i[1]
             PROVE  guest'[v].env # None /\ guest'[v].env >= want'[i]
  BY DEF InForce
<1> DEFINE c == i[1]
<1>3. i \in Jobs /\ c \in Rows /\ i # Creation(c) /\ \A b \in Rows : i # Creation(b)
  BY ReconfigurationsAre
\* The job was queued before, and so the row has its id, and its creation made its guest.
<1>4. want'[i] = want[i] /\ st[i] # "absent"
  <2>1. CASE st[i] = "absent" /\ st'[i] = "pending" /\ pc' = pc
    <3>1. pc'[i] = "idle" BY <1>1, <1>3, <2>1 DEF Unbegun
    <3> QED BY <2>1, <3>1 DEF Applied
  <2>2. CASE want'[i] = want[i] /\ (st'[i] # "absent" => st[i] # "absent")
    <3>1. st'[i] # "absent"
      <4>1. Recorded' BY <1>1, StatusSteps
      <4> QED BY <1>3, <4>1 DEF Applied, Recorded, Active, Steps, CreateSteps, RestartSteps
    <3> QED BY <2>2, <3>1
  <2> QED BY <1>1, <2>1, <2>2, WantSteps
<1>5. cid[c] # None /\ pc[Creation(c)] \in {"start", "record", "dns", "publish", "done"}
  BY <1>1, <1>3, <1>4 DEF Promised, Distinct
<1>6. Alone(i)
  <2> SUFFICES ASSUME NEW k \in Reconfigurations, k[1] = c, k # i PROVE st[k] = "absent"
    BY DEF Alone
  <2>1. st'[k] = "absent" BY DEF Alone
  <2>2. k \in Jobs BY ReconfigurationsAre
  <2>3. StatusStep(k) BY <1>1, <2>2, StatusSteps
  <2> QED BY <1>1, <2>1, <2>2, <2>3, NeverAbsent
<1>7. On(v) /\ guest[v].of = c
  <2>1. GuestStep(v) /\ ~docker /\ guest'[v] # None BY <1>1, <1>2, GuestSteps DEF On
  <2>2. ASSUME Appears(v) PROVE FALSE
    BY <1>2, <1>5, <2>1, <2>2 DEF Appears, Remakes
  <2> QED BY <2>1, <2>2 DEF GuestStep, On
<1>8. mem[Creation(c)].vm = v BY <1>1, <1>7 DEF OneGuest
\* Who writes to the guest is a script of its row, and not the creation.
<1>9. ASSUME NEW j \in Jobs, Active(j), mem[j].vm = v, pc[j] = (IF j = Creation(j[1]) THEN "apply" ELSE "reapply")
      PROVE  j = i
  <2> DEFINE b == j[1]
  <2>1. b \in Rows /\ row[b] # "no" BY <1>1, <1>2, <1>9 DEF Shaped, Placed
  <2>2. There(b) /\ ~Targeted(b) BY <1>1, <1>2, <2>1 DEF There, Spared
  <2>3. OwnGuest(b) BY <1>1, <2>1, <2>2 DEF Owned, Keeps, Spared
  <2>4. b = c
    <3>1. CASE j = Creation(b)
      <4>1. Its(b, mem[Creation(b)].vm) BY <1>9, <2>3, <3>1 DEF OwnGuest, Later
      <4> QED BY <1>7, <1>9, <3>1, <4>1 DEF Its
    <3>2. CASE j # Creation(b)
      <4>1. Its(b, cid[b]) /\ mem[j].vm = cid[b] BY <1>9, <2>3, <3>2 DEF OwnGuest
      <4> QED BY <1>7, <1>9, <4>1 DEF Its
    <3> QED BY <3>1, <3>2
  <2>5. j # Creation(c) BY <1>5, <1>9, <2>4
  <2>6. j \in Reconfigurations BY <2>4, <2>5 DEF Jobs, Reconfigurations, Creation
  <2>7. st[j] = "running" BY <1>1, <1>9 DEF Recorded
  <2> QED BY <1>6, <2>4, <2>6, <2>7 DEF Alone
<1>10. CASE Applied(i)
  <2>1. guest[v].env # None /\ guest[v].env >= want[i] BY <1>1, <1>6, <1>7, <1>10 DEF InForce
  <2>2. ASSUME NEW j \in Jobs, pc[j] = (IF j = Creation(j[1]) THEN "apply" ELSE "reapply"), mem[j].vm = v
        PROVE  FALSE
    <3>1. Active(j) BY <2>2 DEF Active, Steps, CreateSteps, RestartSteps
    <3>2. j = i BY <1>9, <2>2, <3>1
    <3>3. pc[i] = "reapply" BY <1>3, <2>2, <3>2
    <3>4. st[i] = "running" BY <1>1, <1>3, <3>1, <3>2 DEF Recorded
    <3> QED BY <1>10, <3>3, <3>4 DEF Applied
  <2>3. guest'[v].env = guest[v].env BY <1>1, <1>2, <1>7, <2>2, GuestEnvSteps
  <2> QED BY <1>4, <2>1, <2>3
<1>11. CASE pc[i] = "reapply" /\ On(mem[i].vm) /\ \E w \in Ids : SetEnv(mem[i].vm, w, mem[i].env)
  <2>1. Active(i) BY <1>11 DEF Active, Steps, RestartSteps
  <2>2. There(c) /\ ~Targeted(c)
    <3>1. row[c] # "no" BY <1>1, <1>3, <2>1 DEF Shaped, Placed
    <3> QED BY <1>1, <1>2, <1>3, <3>1 DEF There, Spared
  <2>3. Its(c, mem[i].vm) BY <1>1, <1>3, <2>1, <2>2 DEF Owned, OwnGuest, Keeps, Spared
  <2>4. mem[i].vm \in Ids BY <1>2, <1>3, <2>3 DEF Its, On
  <2>5. mem[i].vm = v BY <1>1, <1>8, <2>3, <2>4 DEF OneGuest, Its
  <2>6. guest' = [guest EXCEPT ![v] = [@ EXCEPT !.env = mem[i].env]]
    BY <1>1, <1>2, <1>11, <2>4, <2>5, SetEnvInPlace DEF Shaped
  <2>7. guest'[v].env = mem[i].env
    <3>1. guest[v] \in Guests BY <1>2, <1>7 DEF On
    <3>2. guest'[v] = [guest[v] EXCEPT !.env = mem[i].env] BY <1>2, <2>6
    <3> QED BY <3>1, <3>2 DEF Guests
  <2>8. mem[i].env >= want[i] /\ mem[i].env \in Nat BY <1>1, <1>2, <1>3, <2>1 DEF Promised
  <2> QED BY <1>4, <2>7, <2>8
<1> QED BY <1>1, <1>10, <1>11, AppliedSteps

LEMMA FirmAlways == (Init => Firm) /\ (Firm /\ [Next]_vars => Firm')
<1>1. ASSUME Init PROVE Firm
  <2>1. IInv BY <1>1, IInvInitially
  <2>2. \A j \in Jobs : st[j] = "absent" /\ pc[j] = "idle" /\ mem[j].env = 0 /\ ~Active(j)
    BY <1>1 DEF Init, Active, Steps, CreateSteps, RestartSteps
  <2>3. Unbegun BY <2>2 DEF Unbegun
  <2>4. Undeleted BY <1>1 DEF Init, Undeleted
  <2>5. \A i \in Reconfigurations : st[i] = "absent" /\ ~Active(i) /\ ~Applied(i)
    BY <2>2, ReconfigurationsAre DEF Applied
  <2>6. Promised
    <3>1. \A c \in Rows : env[c] <= newest[c] /\ mem[Creation(c)].env <= newest[c]
      <4> SUFFICES ASSUME NEW c \in Rows PROVE env[c] <= newest[c] /\ mem[Creation(c)].env <= newest[c]
        OBVIOUS
      <4>1. env[c] = 0 /\ newest[c] = 0 BY <1>1 DEF Init
      <4>2. Creation(c) \in Jobs BY JobsOf
      <4>3. mem[Creation(c)].env = 0 BY <2>2, <4>2
      <4> QED BY <4>1, <4>3
    <3>2. \A u \in Updates : put[u].pc # "commit" BY <1>1 DEF Init
    <3> QED BY <2>5, <3>1, <3>2 DEF Promised
  <2>7. OneGuest BY <1>1 DEF Init, OneGuest, On
  <2>8. InForce BY <2>5 DEF InForce
  <2>9. Dropped
    <3>1. \A i \in Reconfigurations : pc[i] = "idle" BY <2>2, ReconfigurationsAre
    <3> QED BY <2>5, <3>1 DEF Dropped
  <2> QED BY <2>1, <2>3, <2>4, <2>6, <2>7, <2>8, <2>9 DEF Firm
<1>2. ASSUME Firm, [Next]_vars PROVE Firm'
  <2>1. Shaped /\ Checked /\ Distinct /\ Undeleted /\ Unbegun /\ Promised /\ Dropped
    BY <1>2 DEF Firm, IInv
  <2>2. IInv' BY <1>2, IInvStep DEF Firm
  <2>3. Undeleted' /\ Unbegun' /\ Promised' /\ Dropped'
    BY <1>2, <2>1, UndeletedStep, UnbegunStep, PromisedStep, DroppedStep
  <2>4. ASSUME Spared' PROVE OneGuest' /\ InForce'
    <3>1. OneGuest /\ ~docker BY <1>2, <2>1, <2>4, SparedBefore DEF Firm, Spared
    <3>2. OneGuest' BY <1>2, <2>1, <3>1, OneGuestStep
    <3>3. InForce' BY <1>2, <2>4, InForceStep
    <3> QED BY <3>2, <3>3
  <2> QED BY <2>2, <2>3, <2>4 DEF Firm
<1> QED BY <1>1, <1>2

\* On a Docker node reconfigure-container.js never succeeds, whatever runs next to it: it drops
\* the id of the container it has made anew, and goes on with the one it has deleted.
THEOREM NoneReconfigured == Spec => [](docker => \A i \in Reconfigurations : st[i] # "success")
<1>1. Firm => (docker => \A i \in Reconfigurations : st[i] # "success") BY DEF Firm, Dropped
<1> QED BY <1>1, FirmAlways, PTL DEF Spec

\* For any number of PUTs, reconfigurations, failed calls and killed scripts: once
\* reconfigure-container.js has succeeded, the guest has the environment the job was queued
\* for or a later one, whatever the creation and the PUTs do next to it.
THEOREM RestartsStand == Spec => []RestartIsNotUndone
<1>1. ASSUME Firm, Spared, NEW c \in Rows, NEW k \in 1..MaxRestarts, st[<<c, k>>] = "success",
             \A i \in (1..MaxRestarts) \ {k} : st[<<c, i>>] = "absent",
             NEW v \in Ids, On(v), guest[v].of = c
      PROVE  guest[v].env # None /\ guest[v].env >= want[<<c, k>>]
  <2> DEFINE j == <<c, k>>
  <2>1. j \in Reconfigurations /\ j[1] = c BY DEF Reconfigurations
  <2>2. Applied(j) BY <1>1 DEF Applied
  <2>3. Alone(j)
    <3> SUFFICES ASSUME NEW i \in Reconfigurations, i[1] = c, i # j PROVE st[i] = "absent"
      BY <2>1 DEF Alone
    <3>1. PICK n \in 1..MaxRestarts : i = <<c, n>> BY ReconfigurationsAre
    <3> QED BY <1>1, <3>1
  <2> HIDE DEF j
  <2>4. guest[v].env # None /\ guest[v].env >= want[j] BY <1>1, <2>1, <2>2, <2>3 DEF Firm, InForce
  <2> QED BY <2>4 DEF j
<1>2. ASSUME Firm, docker, NEW c \in Rows, NEW k \in 1..MaxRestarts PROVE st[<<c, k>>] # "success"
  <2>1. <<c, k>> \in Reconfigurations BY DEF Reconfigurations
  <2> QED BY <1>2, <2>1 DEF Firm, Dropped
<1>3. Firm => RestartIsNotUndone
  BY <1>1, <1>2 DEF Spared, RestartIsNotUndone
<1> QED BY <1>3, FirmAlways, PTL DEF Spec
=============================================================================
