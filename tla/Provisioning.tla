---------------------------- MODULE Provisioning ----------------------------
(***************************************************************************)
(* The life of a container: its row in the Containers table, its guest on  *)
(* the node, and its DNS record, under everything that works on them at    *)
(* the same time:                                                          *)
(*   - POST, PUT and DELETE /containers (routers/api/v1/containers.js),    *)
(*   - the creation job (bin/create-container.js) and the reconfiguration  *)
(*     jobs (bin/reconfigure-container.js), which the runner starts        *)
(*     without waiting for one another (see JobRunner: once, at most),     *)
(*   - the operator of the node, who may destroy a guest there.            *)
(*                                                                         *)
(* One action is one call to the database, to the node or to Cloudflare.   *)
(* A row's environment is a version number: POST stores 0, each PUT that   *)
(* changes it the next one; what a template adds to it is abstracted.      *)
(* One node of one site, of either kind.  A row has one cross-site HTTP    *)
(* service.  NetBox, which only mirrors, is left out.                      *)
(***************************************************************************)
EXTENDS Naturals

CONSTANTS
  Rows,          \* Containers rows
  Names,         \* hostnames
  Ids,           \* provider ids: VMIDs, or Docker container ids
  Deletes,       \* DELETE requests
  Updates,       \* PUT requests
  None,
  Kinds,         \* kinds of node: Docker hosts (TRUE), Proxmox nodes (FALSE)
  MaxRestarts,   \* bound: reconfiguration jobs of a row
  MaxFaults,     \* bound: failed calls and killed processes
  MaxRemovals    \* bound: guests destroyed behind the manager's back

ASSUME ConstantsAssumption ==
  /\ Ids \subseteq Nat
  /\ None \notin Rows \cup Names \cup Nat
  /\ Kinds \subseteq BOOLEAN /\ Kinds # {}
  /\ MaxRestarts \in Nat /\ MaxFaults \in Nat /\ MaxRemovals \in Nat

VARIABLES
  docker,        \* the kind of the node
  row,           \* "no", "yes" or "gone"
  name,          \* Container.hostname
  cid,           \* Container.containerId, the provider's id of the guest
  addr,          \* Container.macAddress / ipv4Address: the row whose guest has them
  env,           \* Container.environmentVars and entrypoint
  newest,        \* history: the newest version a user has stored
  guest,         \* the node: guest[v], or None
  issued,        \* history: ids that were ever in use (Docker never reuses one)
  dns,           \* the row's A record exists at Cloudflare
  st,            \* Job.status
  pc,            \* the next call of the job's script
  mem,           \* its container instance: env as loaded, vm the provider id
  want,          \* history: the row's environment when the job was queued
  del, put,      \* the DELETE and PUT handlers
  faults, removals,
  causes         \* history: races that have happened

rowVars  == <<row, name, cid, addr, env, newest>>
nodeVars == <<guest, issued>>
jobVars  == <<st, pc, mem, want>>
reqVars  == <<docker, del, put>>
budget   == <<faults, removals>>
vars == <<rowVars, nodeVars, dns, jobVars, reqVars, budget, causes>>

Jobs == Rows \X (0..MaxRestarts)       \* <<c, 0>> is c's creation job
Creation(c) == <<c, 0>>

Guests == [name: Names, of: Rows, env: Nat \cup {None}, on: BOOLEAN]
ASSUME NoneIsNoGuest == None \notin Guests
Races  == {"busy", "overlap", "reused", "raced"}

CreateSteps  == {"id", "create", "persist", "apply", "store", "start", "record", "dns", "publish"}
RestartSteps == {"reapply", "check", "stop", "start", "record"}
Steps        == CreateSteps \cup RestartSteps

TypeOK ==
  /\ docker \in Kinds
  /\ row \in [Rows -> {"no", "yes", "gone"}]
  /\ name \in [Rows -> Names \cup {None}]
  /\ cid \in [Rows -> Ids \cup {None}]
  /\ addr \in [Rows -> Rows \cup {None}]
  /\ env \in [Rows -> Nat] /\ newest \in [Rows -> Nat]
  /\ guest \in [Ids -> Guests \cup {None}]
  /\ issued \in SUBSET Ids
  /\ dns \in [Rows -> BOOLEAN]
  /\ st \in [Jobs -> {"absent", "pending", "running", "success", "failure", "cancelled"}]
  /\ pc \in [Jobs -> {"idle", "done"} \cup Steps]
  /\ mem \in [Jobs -> [env: Nat, vm: Ids \cup {None}]]
  /\ want \in [Jobs -> Nat]
  /\ del \in [Deletes -> [pc: {"idle", "dns", "check", "destroy", "row", "done"},
                          of: Rows \cup {None}, cid: Ids \cup {None}]]
  /\ put \in [Updates -> [pc: {"idle", "commit", "done"},
                          of: Rows \cup {None}, cid: Ids \cup {None}]]
  /\ faults \in 0..MaxFaults /\ removals \in 0..MaxRemovals
  /\ causes \in SUBSET Races

Init ==
  /\ docker \in Kinds
  /\ row = [c \in Rows |-> "no"]
  /\ name = [c \in Rows |-> None]
  /\ cid = [c \in Rows |-> None]
  /\ addr = [c \in Rows |-> None]
  /\ env = [c \in Rows |-> 0] /\ newest = [c \in Rows |-> 0]
  /\ guest = [v \in Ids |-> None] /\ issued = {}
  /\ dns = [c \in Rows |-> FALSE]
  /\ st = [j \in Jobs |-> "absent"]
  /\ pc = [j \in Jobs |-> "idle"]
  /\ mem = [j \in Jobs |-> [env |-> 0, vm |-> None]]
  /\ want = [j \in Jobs |-> 0]
  /\ del = [d \in Deletes |-> [pc |-> "idle", of |-> None, cid |-> None]]
  /\ put = [u \in Updates |-> [pc |-> "idle", of |-> None, cid |-> None]]
  /\ faults = 0 /\ removals = 0 /\ causes = {}

There(c) == row[c] = "yes"
On(v)      == v # None /\ guest[v] # None        \* a guest answers to the id
Running(v) == On(v) /\ guest[v].on
Stopped(v) == On(v) /\ ~guest[v].on
Active(j) == pc[j] \in Steps                     \* the script runs
-----------------------------------------------------------------------------
(* The web server: POST, PUT, DELETE                                        *)

\* One transaction: the row, and its creation job.  (siteId, hostname) is unique.
Post(c) ==
  /\ row[c] = "no"
  /\ \E n \in Names :
       /\ \A b \in Rows : There(b) => name[b] # n
       /\ name' = [name EXCEPT ![c] = n]
  /\ row' = [row EXCEPT ![c] = "yes"]
  /\ st' = [st EXCEPT ![Creation(c)] = "pending"]
  /\ UNCHANGED <<cid, addr, env, newest, nodeVars, dns, pc, mem, want, reqVars, budget, causes>>

PutLoad(u) ==
  /\ put[u].pc = "idle"
  /\ \E c \in Rows :
       /\ There(c)
       /\ put' = [put EXCEPT ![u] = [pc |-> "commit", of |-> c, cid |-> cid[c]]]
  /\ UNCHANGED <<rowVars, nodeVars, dns, jobVars, docker, del, budget, causes>>

\* The transaction: the new environment, if that changes, and then (or if a restart
\* is asked for) a reconfiguration job, provided that the container had a provider
\* id when it was loaded.  ("busy" when the container is being deleted.)
PutCommit(u) ==
  LET c == put[u].of IN
  /\ put[u].pc = "commit"
  /\ \E changed \in BOOLEAN :
       LET version == IF changed THEN newest[c] + 1 ELSE newest[c] IN
       /\ newest' = [newest EXCEPT ![c] = version]
       /\ env' = [env EXCEPT ![c] = IF changed /\ There(c) THEN version ELSE @]
       /\ \/ (put[u].cid = None \/ ~changed) /\ UNCHANGED <<st, want>>
          \/ put[u].cid # None /\ \E k \in 1..MaxRestarts :
               /\ st[<<c, k>>] = "absent" /\ \A i \in 1..(k-1) : st[<<c, i>>] # "absent"
               /\ st' = [st EXCEPT ![<<c, k>>] = "pending"]
               /\ want' = [want EXCEPT ![<<c, k>>] = env'[c]]
  /\ put' = [put EXCEPT ![u].pc = "done"]
  /\ causes' = causes \cup
       {race \in {"busy"} : \E d \in Deletes : del[d].of = c /\ del[d].pc # "done"}
  /\ UNCHANGED <<row, name, cid, addr, nodeVars, dns, pc, mem, docker, del, budget>>

DeleteTo(d, step) == del' = [del EXCEPT ![d].pc = step]

\* Nothing asks whether the row's jobs are over ("busy" when they are not), or
\* another DELETE of it is ("overlap").
DeleteLoad(d) ==
  /\ del[d].pc = "idle"
  /\ \E c \in Rows :
       /\ There(c)
       /\ del' = [del EXCEPT ![d] = [pc |-> "dns", of |-> c, cid |-> cid[c]]]
       /\ causes' = causes \cup
            {race \in {"busy"} : \E j \in Jobs : j[1] = c /\ st[j] \in {"pending", "running"}} \cup
            {race \in {"overlap"} : \E e \in Deletes : del[e].of = c /\ del[e].pc # "done"}
  /\ UNCHANGED <<rowVars, nodeVars, dns, jobVars, docker, put, budget>>

\* A call that fails: a fault of the node, of Cloudflare, or of the database.
Fault == faults < MaxFaults /\ faults' = faults + 1

\* manageDnsRecords(..., 'delete') never throws: a failure is a warning.
DeleteDns(d) ==
  /\ del[d].pc = "dns"
  /\ \/ dns' = [dns EXCEPT ![del[d].of] = FALSE] /\ UNCHANGED faults
     \/ Fault /\ UNCHANGED dns
  /\ DeleteTo(d, IF del[d].cid = None THEN "row" ELSE "check")
  /\ UNCHANGED <<rowVars, nodeVars, jobVars, docker, put, removals, causes>>

\* Mutant of DeleteCheck: the hostnames are not compared.
DeleteUnchecked(d) ==
  LET v == del[d].cid IN
  /\ del[d].pc = "check"
  /\ \/ UNCHANGED faults /\ DeleteTo(d, IF On(v) THEN "destroy" ELSE "row")
     \/ Fault /\ DeleteTo(d, "row")
  /\ UNCHANGED <<rowVars, nodeVars, dns, jobVars, docker, put, removals, causes>>

\* The node's hostname must be the row's (else 409, nothing more happens); an
\* error, a guest that is no longer there included, only skips the node's part.
DeleteCheck(d) ==
  LET v == del[d].cid IN
  /\ del[d].pc = "check"
  /\ \/ /\ UNCHANGED faults
        /\ DeleteTo(d, IF ~On(v) THEN "row"
                       ELSE IF guest[v].name # name[del[d].of] THEN "done" ELSE "destroy")
     \/ Fault /\ DeleteTo(d, "row")
  /\ UNCHANGED <<rowVars, nodeVars, dns, jobVars, docker, put, removals, causes>>

\* The guest v disappears; "raced" if another DELETE has checked it by now.
Remove(v, others) ==
  /\ guest' = [guest EXCEPT ![v] = None]
  /\ causes' = causes \cup
       {race \in {"raced"} : \E d \in others : del[d].pc = "destroy" /\ del[d].cid = v}

\* Mutant of DeleteGuest: without "force" the node refuses to delete a running
\* guest, and the error is swallowed like every other one.
DeleteWithoutForce(d) ==
  /\ del[d].pc = "destroy"
  /\ \/ Running(del[d].cid) /\ UNCHANGED <<guest, causes, faults>>
     \/ ~Running(del[d].cid) /\ Remove(del[d].cid, Deletes \ {d}) /\ UNCHANGED faults
     \/ Fault /\ UNCHANGED <<guest, causes>>
  /\ DeleteTo(d, "row")
  /\ UNCHANGED <<rowVars, issued, dns, jobVars, docker, put, removals>>

DeleteGuest(d) ==
  /\ del[d].pc = "destroy"
  /\ \/ Remove(del[d].cid, Deletes \ {d}) /\ UNCHANGED faults
     \/ Fault /\ UNCHANGED <<guest, causes>>
  /\ DeleteTo(d, "row")
  /\ UNCHANGED <<rowVars, issued, dns, jobVars, docker, put, removals>>

\* container.destroy()
DeleteRow(d) ==
  /\ del[d].pc = "row"
  /\ row' = [row EXCEPT ![del[d].of] = "gone"]
  /\ DeleteTo(d, "done")
  /\ UNCHANGED <<name, cid, addr, env, newest, nodeVars, dns, jobVars, docker, put, budget, causes>>

\* The server dies, or the database fails, in the middle of the request.
DeleteDies(d) ==
  /\ del[d].pc \notin {"idle", "done"}
  /\ Fault
  /\ DeleteTo(d, "done")
  /\ UNCHANGED <<rowVars, nodeVars, dns, jobVars, docker, put, removals, causes>>
-----------------------------------------------------------------------------
(* The scripts                                                              *)

Go(j, step) == pc' = [pc EXCEPT ![j] = step] /\ UNCHANGED st

End(j, verdict) == pc' = [pc EXCEPT ![j] = "done"] /\ st' = [st EXCEPT ![j] = verdict]

\* Mutant of Throw: the status the wait-for-job action asks for.
ThrowFailed(j) == End(j, "failed")

Throw(j) == End(j, "failure")

\* The command starts and loads its row: a creation refuses a container that
\* has a provider id, a reconfiguration one that has none.
Begin(j) ==
  LET c == j[1] IN
  /\ st[j] = "pending"
  /\ \/ /\ There(c) /\ (j = Creation(c) <=> cid[c] = None)
        /\ mem' = [mem EXCEPT ![j] = [env |-> env[c], vm |-> cid[c]]]
        /\ pc' = [pc EXCEPT ![j] = IF j # Creation(c) THEN "reapply"
                                   ELSE IF docker THEN "create" ELSE "id"]
        /\ st' = [st EXCEPT ![j] = "running"]
     \/ /\ ~(There(c) /\ (j = Creation(c) <=> cid[c] = None))
        /\ Throw(j)
        /\ UNCHANGED mem
  /\ UNCHANGED <<rowVars, nodeVars, dns, want, reqVars, budget, causes>>

Lowest(S, v) == v \in S /\ \A w \in S : v <= w

\* A Docker id that was never used.
Fresh(v) == Lowest(Ids \ issued, v)

\* Mutant of NextId: the VMID goes into the row as soon as it is allocated.
NextIdStored(c) ==
  LET j == Creation(c) IN
  /\ pc[j] = "id"
  /\ \E v \in Ids : /\ Lowest({w \in Ids : guest[w] = None}, v)
                    /\ mem' = [mem EXCEPT ![j].vm = v]
                    /\ cid' = [cid EXCEPT ![c] = IF There(c) THEN v ELSE @]
  /\ Go(j, "create")
  /\ UNCHANGED <<row, name, addr, env, newest, nodeVars, dns, want, reqVars, budget, causes>>

\* GET /cluster/nextid answers the lowest free VMID and reserves nothing.
NextId(c) ==
  LET j == Creation(c) IN
  /\ pc[j] = "id"
  /\ \E v \in Ids : /\ Lowest({w \in Ids : guest[w] = None}, v)
                    /\ mem' = [mem EXCEPT ![j].vm = v]
  /\ Go(j, "create")
  /\ UNCHANGED <<rowVars, nodeVars, dns, want, reqVars, budget, causes>>

\* The create (or clone) task.  The node refuses a VMID in use, Docker a name.
CreateGuest(c) ==
  LET j == Creation(c)
      refused == IF docker THEN \E v \in Ids : On(v) /\ guest[v].name = name[c]
                           ELSE On(mem[j].vm)
  IN
  /\ pc[j] = "create"
  /\ \/ /\ ~refused
        /\ \E v \in Ids :
             /\ IF docker THEN Fresh(v) ELSE v = mem[j].vm
             /\ guest' = [guest EXCEPT ![v] = [name |-> name[c], of |-> c, env |-> None, on |-> FALSE]]
             /\ issued' = issued \cup {v}
             /\ mem' = [mem EXCEPT ![j].vm = v]
        /\ Go(j, "persist")
     \/ refused /\ Throw(j) /\ UNCHANGED <<nodeVars, mem>>
  /\ UNCHANGED <<rowVars, dns, want, reqVars, budget, causes>>

\* Mutant of Persist: the provider id is stored along with the defaults.
PersistWithId(c) ==
  LET j == Creation(c) IN
  /\ pc[j] = "persist"
  /\ \/ /\ On(mem[j].vm)
        /\ env' = [env EXCEPT ![c] = IF There(c) THEN mem[j].env ELSE @]
        /\ cid' = [cid EXCEPT ![c] = IF There(c) THEN mem[j].vm ELSE @]
        /\ Go(j, "apply")
     \/ ~On(mem[j].vm) /\ Throw(j) /\ UNCHANGED <<env, cid>>
  /\ UNCHANGED <<row, name, addr, newest, nodeVars, dns, mem, want, reqVars, budget, causes>>

\* lxcConfig, then persistTemplateDefaults: the environment loaded at the start
\* is written back, if the template has anything to add to it.
Persist(c) ==
  LET j == Creation(c) IN
  /\ pc[j] = "persist"
  /\ \/ /\ On(mem[j].vm)
        /\ \E adds \in BOOLEAN :
             env' = [env EXCEPT ![c] = IF adds /\ There(c) THEN mem[j].env ELSE @]
        /\ Go(j, "apply")
     \/ ~On(mem[j].vm) /\ Throw(j) /\ UNCHANGED env
  /\ UNCHANGED <<row, name, cid, addr, newest, nodeVars, dns, mem, want, reqVars, budget, causes>>

\* updateLxcConfig of guest v: a Docker container is deleted and made anew under
\* another id w, stopped.
SetEnv(v, w, version) ==
  /\ IF docker THEN Fresh(w) ELSE w = v
  /\ guest' = [guest EXCEPT
       ![v] = IF docker THEN None ELSE @,
       ![w] = [guest[v] EXCEPT !.env = version, !.on = IF docker THEN FALSE ELSE @]]
  /\ issued' = issued \cup {w}

\* Mutant of Apply: the id in the task that updateLxcConfig returns is dropped.
ApplyKeepsId(c) ==
  LET j == Creation(c) IN
  /\ pc[j] = "apply"
  /\ \/ /\ On(mem[j].vm)
        /\ \E w \in Ids : SetEnv(mem[j].vm, w, mem[j].env)
        /\ Go(j, "store")
     \/ ~On(mem[j].vm) /\ Throw(j) /\ UNCHANGED nodeVars
  /\ UNCHANGED <<rowVars, dns, mem, want, reqVars, budget, causes>>

\* The environment as it was loaded, with what Persist added to it.
Apply(c) ==
  LET j == Creation(c) IN
  /\ pc[j] = "apply"
  /\ \/ /\ On(mem[j].vm)
        /\ \E w \in Ids : /\ SetEnv(mem[j].vm, w, mem[j].env)
                          /\ mem' = [mem EXCEPT ![j].vm = w]
        /\ Go(j, "store")
     \/ ~On(mem[j].vm) /\ Throw(j) /\ UNCHANGED <<nodeVars, mem>>
  /\ UNCHANGED <<rowVars, dns, want, reqVars, budget, causes>>

\* container.update({containerId}): no row, nothing updated, no error; the index
\* on (nodeId, containerId) refuses an id another row still has.
Store(c) ==
  LET j == Creation(c)
      taken == \E b \in Rows : There(b) /\ cid[b] = mem[j].vm
  IN
  /\ pc[j] = "store"
  /\ \/ ~There(c) /\ Go(j, "start") /\ UNCHANGED <<cid, causes>>
     \/ There(c) /\ ~taken /\ cid' = [cid EXCEPT ![c] = mem[j].vm] /\ Go(j, "start") /\ UNCHANGED causes
     \/ There(c) /\ taken /\ Throw(j) /\ causes' = causes \cup {"reused"} /\ UNCHANGED cid
  /\ UNCHANGED <<row, name, addr, env, newest, nodeVars, dns, mem, want, reqVars, budget>>

\* startLxc and its task, of either script: a running guest cannot be started.
StartGuest(j) ==
  LET v == mem[j].vm IN
  /\ pc[j] = "start"
  /\ \/ /\ Stopped(v)
        /\ guest' = [guest EXCEPT ![v].on = TRUE]
        /\ Go(j, "record")
     \/ ~Stopped(v) /\ Throw(j) /\ UNCHANGED guest
  /\ UNCHANGED <<rowVars, issued, dns, mem, want, reqVars, budget, causes>>

\* The guest's MAC and IP into the row; both are unique in the site.  It is the
\* reconfiguration's last step.
Record(j) ==
  LET v == mem[j].vm
      c == j[1]
      taken == There(c) /\ \E b \in Rows \ {c} : There(b) /\ addr[b] = guest[v].of
      able == Running(v) /\ ~taken
  IN
  /\ pc[j] = "record"
  /\ \/ /\ able
        /\ addr' = [addr EXCEPT ![c] = IF There(c) THEN guest[v].of ELSE @]
        /\ IF j = Creation(c) THEN Go(j, "dns") ELSE End(j, "success")
     \/ ~able /\ Throw(j) /\ UNCHANGED addr
  /\ UNCHANGED <<row, name, cid, env, newest, nodeVars, dns, mem, want, reqVars, budget, causes>>

\* Service.findAll: the services are gone with their row.
FindServices(c) ==
  /\ pc[Creation(c)] = "dns"
  /\ IF There(c) THEN Go(Creation(c), "publish") ELSE End(Creation(c), "success")
  /\ UNCHANGED <<rowVars, nodeVars, dns, mem, want, reqVars, budget, causes>>

\* Mutant of Publish: manageDnsRecords is called with 'delete'.
PublishDeletes(c) ==
  /\ pc[Creation(c)] = "publish"
  /\ \/ dns' = [dns EXCEPT ![c] = FALSE] /\ UNCHANGED faults
     \/ Fault /\ UNCHANGED dns
  /\ End(Creation(c), "success")
  /\ UNCHANGED <<rowVars, nodeVars, mem, want, reqVars, removals, causes>>

\* manageDnsRecords(..., 'create'), whose failure is a warning; exit 0.
Publish(c) ==
  /\ pc[Creation(c)] = "publish"
  /\ \/ dns' = [dns EXCEPT ![c] = TRUE] /\ UNCHANGED faults
     \/ Fault /\ UNCHANGED dns
  /\ End(Creation(c), "success")
  /\ UNCHANGED <<rowVars, nodeVars, mem, want, reqVars, removals, causes>>

\* The reconfiguration drops the task updateLxcConfig returns, and the id in it.
Reapply(j) ==
  /\ pc[j] = "reapply"
  /\ \/ /\ On(mem[j].vm)
        /\ \E w \in Ids : SetEnv(mem[j].vm, w, mem[j].env)
        /\ Go(j, "check")
     \/ ~On(mem[j].vm) /\ Throw(j) /\ UNCHANGED nodeVars
  /\ UNCHANGED <<rowVars, dns, mem, want, reqVars, budget, causes>>

\* getLxcStatus.  A change that only removes settings needs no restart.
Check(j) ==
  LET v == mem[j].vm IN
  /\ pc[j] = "check"
  /\ \/ On(v) /\ Go(j, IF guest[v].on THEN "stop" ELSE "start")
     \/ On(v) /\ End(j, "success")
     \/ ~On(v) /\ Throw(j)
  /\ UNCHANGED <<rowVars, nodeVars, dns, mem, want, reqVars, budget, causes>>

\* stopLxc and its task: Proxmox cannot stop a stopped guest, Docker answers 304.
StopGuest(j) ==
  LET v == mem[j].vm
      able == Running(v) \/ (docker /\ On(v))
  IN
  /\ pc[j] = "stop"
  /\ \/ able /\ guest' = [guest EXCEPT ![v].on = FALSE] /\ Go(j, "start")
     \/ ~able /\ Throw(j) /\ UNCHANGED guest
  /\ UNCHANGED <<rowVars, issued, dns, mem, want, reqVars, budget, causes>>

\* Any call may fail: the script logs it and exits with 1, and undoes nothing.
ScriptFails(j) ==
  /\ Active(j) /\ pc[j] # "publish"
  /\ Fault
  /\ Throw(j)
  /\ UNCHANGED <<rowVars, nodeVars, dns, mem, want, reqVars, removals, causes>>

\* recreateForConfig has deleted the Docker container, and cannot create the new
\* one: the guest is gone.
RecreateFails(j) ==
  /\ docker
  /\ pc[j] \in {"apply", "reapply"} /\ On(mem[j].vm)
  /\ Fault
  /\ guest' = [guest EXCEPT ![mem[j].vm] = None]
  /\ Throw(j)
  /\ UNCHANGED <<rowVars, issued, dns, mem, want, reqVars, removals, causes>>

\* The runner goes down and the script with it: cancelled, or left 'running'.
ScriptKilled(j) ==
  /\ Active(j)
  /\ Fault
  /\ \E s \in {"cancelled", "running"} : End(j, s)
  /\ UNCHANGED <<rowVars, nodeVars, dns, mem, want, reqVars, removals, causes>>
-----------------------------------------------------------------------------
\* Somebody destroys a guest on the node itself.
RemovedOnNode(v) ==
  /\ On(v)
  /\ removals < MaxRemovals
  /\ removals' = removals + 1
  /\ Remove(v, Deletes)
  /\ UNCHANGED <<rowVars, issued, dns, jobVars, reqVars, faults>>

Create(c) ==
  \/ NextId(c) \/ CreateGuest(c) \/ Persist(c) \/ Apply(c) \/ Store(c)
  \/ FindServices(c) \/ Publish(c)

Restart(j) == Reapply(j) \/ Check(j) \/ StopGuest(j)

Script(j) == Begin(j) \/ StartGuest(j) \/ Record(j) \/ Restart(j)

Delete(d) == DeleteLoad(d) \/ DeleteDns(d) \/ DeleteCheck(d) \/ DeleteGuest(d) \/ DeleteRow(d)

Next ==
  \/ \E c \in Rows : Post(c) \/ Create(c)
  \/ \E u \in Updates : PutLoad(u) \/ PutCommit(u)
  \/ \E d \in Deletes : Delete(d) \/ DeleteDies(d)
  \/ \E j \in Jobs : Script(j) \/ ScriptFails(j) \/ RecreateFails(j) \/ ScriptKilled(j)
  \/ \E v \in Ids : RemovedOnNode(v)

Spec == Init /\ [][Next]_vars
-----------------------------------------------------------------------------
(* The live status (utils/container-status.js)                              *)

\* computeContainerStatus and decideStatus, with the node reachable.
Status(c) ==
  LET job == st[Creation(c)] IN
  IF Running(cid[c]) THEN "running"
  ELSE IF On(cid[c]) THEN "offline"
  ELSE IF job \in {"pending", "running"} THEN "creating"
  ELSE IF job = "failure" THEN "failed" ELSE "missing"
-----------------------------------------------------------------------------
(* Properties                                                               *)

\* A guest that no row, no script and no request knows of any more.
Lost(v) ==
  /\ On(v)
  /\ \A c \in Rows : There(c) => cid[c] # v
  /\ \A j \in Jobs : Active(j) => mem[j].vm # v

\* Guests and A records leak only by a fault, by a DELETE of a container that
\* still had a job, or by an id that the node gave out again while a row still
\* had it.  No other interleaving leaves anything behind.  (On a Docker node a
\* reconfiguration does as well: see ReconfiguredIsReachable.)
LeaksAreExplained ==
  faults = 0 /\ removals = 0 /\ causes = {} =>
    /\ \A v \in Ids : ~Lost(v)
    /\ \A c \in Rows : row[c] = "gone" => ~dns[c]

\* DELETE destroys no guest of another name, also when the row's id is stale and
\* the node has given it to another container: unless that happens between the
\* check and the deletion.
DeleteSparesOthers ==
  [][\A d \in Deletes : LET v == del[d].cid IN
       /\ del[d].pc = "destroy" /\ v # None
       /\ On(v) /\ guest'[v] = None
       /\ "raced" \notin causes
       => guest[v].name = name[del[d].of]]_vars

Targeted(c) == \E d \in Deletes : del[d].of = c

\* Two creations may be given the same VMID, and any call may fail; still a row
\* never has the id of another container's guest, nor another one's address,
\* as long as nobody deletes the container, no guest is destroyed on the node, and
\* no two DELETEs of one container overlap: the slower one may destroy a later
\* container that got the same id and the same hostname.
RowsDescribeTheirGuest ==
  removals = 0 /\ "overlap" \notin causes => \A c \in Rows : There(c) /\ ~Targeted(c) =>
    /\ cid[c] # None => On(cid[c]) /\ guest[cid[c]].of = c /\ guest[cid[c]].name = name[c]
    /\ addr[c] \in {c, None}

Untouched(c) == ~Targeted(c) /\ \A u \in Updates : put[u].of # c

\* What a user who only created the container sees in the end: a job that
\* succeeded shows a running guest, addressed and published; one that failed
\* shows "failed" and has left no guest.
OutcomeIsShown ==
  faults = 0 /\ removals = 0 /\ causes = {} => \A c \in Rows : Untouched(c) =>
    /\ st[Creation(c)] = "success" => Status(c) = "running" /\ addr[c] = c /\ dns[c]
    /\ st[Creation(c)] = "failure" =>
         Status(c) = "failed" /\ \A v \in Ids : On(v) => guest[v].of # c

\* The same three of deletions that overlap: what leaks is explained, no row describes
\* another's guest, and the user is shown the outcome.
OverlappingDeletesHold == LeaksAreExplained /\ RowsDescribeTheirGuest /\ OutcomeIsShown

\* A reconfiguration job that succeeded is not undone: the guest does not go
\* back to an environment older than the one the job was queued for, not even
\* when the creation is still at work.  (With no other job of the row next to it,
\* and no guest destroyed: a script does not notice that its id is another's.)
RestartIsNotUndone ==
  removals = 0 /\ (\A b \in Rows : ~Targeted(b)) =>
  \A c \in Rows : \A k \in 1..MaxRestarts :
    /\ st[<<c, k>>] = "success"
    /\ \A i \in (1..MaxRestarts) \ {k} : st[<<c, i>>] = "absent"
    => \A v \in Ids : On(v) /\ guest[v].of = c =>
         guest[v].env # None /\ guest[v].env >= want[<<c, k>>]

\* "user-supplied values still win" (create-container.js:408): the template's
\* defaults never replace what a user has stored.  The creation breaks it: it
\* writes back the environment it had loaded when it started.
UserValuesWin == \A c \in Rows : There(c) => env[c] = newest[c]

\* "applies configuration changes and restarts a container" (the header of
\* reconfigure-container.js): with no fault, a reconfiguration that is over has
\* left the container its guest.  On a Docker node it never does.
ReconfiguredIsReachable ==
  faults = 0 /\ removals = 0 => \A c \in Rows : \A k \in 1..MaxRestarts :
    There(c) /\ ~Targeted(c) /\ st[<<c, k>>] \in {"success", "failure"} => On(cid[c])
=============================================================================
