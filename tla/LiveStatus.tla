------------------------------ MODULE LiveStatus ------------------------------
(***************************************************************************)
(* The status of the containers of a list, or of one, computed while what  *)
(* it describes changes: the rows are read with their creation jobs, then  *)
(* one snapshot per node, each at its own time, and both are combined.     *)
(*                                                                         *)
(* Ids are given out per cluster: two nodes of their own use the same      *)
(* numbers, and a snapshot of one node of a cluster has the guests of all. *)
(***************************************************************************)
EXTENDS Naturals, FiniteSets

CONSTANTS
  Owners,     \* containers, each with a place in
  NodeOf,     \* container -> its node
  NodeKinds,      \* what the nodes may be: functions node -> "proxmox", "docker", "dummy"
  MaxEvents   \* bound: changes made on the nodes, and nodes that go down

HostNodes == {NodeOf[c] : c \in Owners}

ASSUME KindsAreOfNodes ==
  /\ IsFiniteSet(Owners)
  /\ NodeKinds \subseteq [HostNodes -> {"proxmox", "docker", "dummy"}]

VARIABLES
  kind,      \* node -> kind
  joined,    \* the nodes are one Proxmox cluster
  down,      \* nodes that do not answer, or whose credentials are refused
  row,       \* container -> the row: id (0: none), the creation job's status
  guest,     \* container -> its guest: id (0: none), whether it runs
  taken,     \* container -> the row as the request read it
  badge,     \* container -> the status in the answer
  truth,     \* history: container -> what was true of it since the rows were read
  events

statusVars == <<kind, joined, down, row, guest, taken, badge, truth, events>>

NoRow == [id |-> 0, job |-> "norow"]

Event == events < MaxEvents /\ events' = events + 1

\* The containers of the answer under way.
Asked == {c \in Owners : taken[c] # NoRow}
Reading == \E c \in Asked : badge[c] = "-"
AnswerSent == Asked # {} /\ ~Reading

-----------------------------------------------------------------------------
(* What a container is *)

\* Of the guest of its name: "unnamed" until the row has its id, "astray" if the row has
\* another, which recreateForConfig leaves so.  A dummy node has no guests but the rows.  A container
\* whose row goes, or whose id becomes another's guest's, is "reused".
Neighbours(c) == {d \in Owners : NodeOf[d] = NodeOf[c] \/ joined}
Fact(c) ==
  IF row[c] = NoRow \/ \E d \in Neighbours(c) \ {c} : row[c].id # 0 /\ guest[d].id = row[c].id THEN "reused"
  ELSE IF NodeOf[c] \in down THEN "unreachable"
  ELSE IF kind[NodeOf[c]] = "dummy" THEN IF row[c].id # 0 THEN "running" ELSE "absent"
  ELSE IF guest[c].id = 0 THEN "absent"
  ELSE IF row[c].id = 0 THEN "unnamed"
  ELSE IF guest[c].id # row[c].id THEN "astray"
  ELSE IF guest[c].runs THEN "running" ELSE "offline"

\* While an answer is computed, every step adds what holds after it.
Watch == truth' = IF ~Reading THEN truth ELSE [c \in Owners |-> truth[c] \cup {Fact(c)'}]

\* nextid: the lowest that no guest of the cluster has.  Docker's ids are never given
\* again: higher than any that anyone has.
IdsInUse(c) == {guest[d].id : d \in Neighbours(c)}
IdsKnown == {guest[d].id : d \in Owners} \cup {row[d].id : d \in Owners} \cup {taken[d].id : d \in Owners}
FreeId(c) ==
  IF kind[NodeOf[c]] = "docker"
    THEN 1 + CHOOSE i \in IdsKnown : \A j \in IdsKnown : j <= i
    ELSE CHOOSE i \in 1..(Cardinality(Owners) + 1) \ IdsInUse(c) :
           \A j \in 1..(i - 1) : j \in IdsInUse(c)

-----------------------------------------------------------------------------
(* The life of a container *)

\* POST /containers, with its job in the same transaction.
Posted(c) ==
  /\ row[c] = NoRow /\ guest[c].id = 0
  /\ row' = [row EXCEPT ![c] = [id |-> 0, job |-> "active"]]
  /\ UNCHANGED <<kind, joined, down, guest, taken, badge, events>> /\ Watch

\* The creation's script may be at work.  A shutdown of the runner marks the job
\* cancelled as soon as it has sent the signal, and what the script has asked for comes after.
InCreation(c) == row[c].job \in {"active", "cancelled"}

MakesGuest(c) ==
  /\ InCreation(c) /\ row[c].id = 0 /\ guest[c].id = 0 /\ NodeOf[c] \notin down
  /\ guest' = [guest EXCEPT ![c] = [id |-> FreeId(c), runs |-> FALSE]]
  /\ UNCHANGED <<kind, joined, down, row, taken, badge, events>> /\ Watch

\* The unique index refuses an id that a row still has: the job can only fail.
StoresId(c) ==
  /\ InCreation(c) /\ row[c].id = 0 /\ guest[c].id # 0
  /\ \A d \in Neighbours(c) : row[d].id # guest[c].id
  /\ row' = [row EXCEPT ![c].id = guest[c].id]
  /\ UNCHANGED <<kind, joined, down, guest, taken, badge, events>> /\ Watch

\* The start, and the end of the job; it may fail or be cancelled at any point, and the
\* handler that has read "running" writes over a cancellation.
JobEnds(c) ==
  /\ InCreation(c)
  /\ \/ /\ row[c].id # 0
        /\ row' = [row EXCEPT ![c].job = "success"]
        /\ guest' = [guest EXCEPT ![c].runs = @ \/ guest[c].id # 0]
        /\ UNCHANGED events
     \/ /\ Event /\ UNCHANGED guest
        /\ \E s \in {"failure", "cancelled"} \ {row[c].job} : row' = [row EXCEPT ![c].job = s]
  /\ UNCHANGED <<kind, joined, down, taken, badge>> /\ Watch

\* The row of a guest that was there before: no job.
Imported(c) ==
  /\ Event
  /\ row[c] = NoRow /\ guest[c].id = 0 /\ kind[NodeOf[c]] # "dummy"
  /\ \A d \in Neighbours(c) : row[d].id # FreeId(c)
  /\ guest' = [guest EXCEPT ![c] = [id |-> FreeId(c), runs |-> TRUE]]
  /\ row' = [row EXCEPT ![c] = [id |-> FreeId(c), job |-> "nojob"]]
  /\ UNCHANGED <<kind, joined, down, taken, badge>> /\ Watch

\* On the node: a stop, a start, a removal; recreateForConfig gives a new id, which
\* nothing stores.
OnTheNode(c) ==
  /\ Event
  /\ guest[c].id # 0 /\ kind[NodeOf[c]] # "dummy"
  /\ \/ guest' = [guest EXCEPT ![c].runs = ~@]
     \/ guest' = [guest EXCEPT ![c] = [id |-> 0, runs |-> FALSE]]
     \/ /\ kind[NodeOf[c]] = "docker" /\ row[c].job = "success"
        /\ guest' = [guest EXCEPT ![c] = [id |-> FreeId(c), runs |-> FALSE]]
  /\ UNCHANGED <<kind, joined, down, row, taken, badge>> /\ Watch

\* DELETE /containers/:id: the guest, then the row.
RowDeleted(c) ==
  /\ row[c] # NoRow /\ row[c].job # "active" /\ guest[c].id = 0
  /\ row' = [row EXCEPT ![c] = NoRow]
  /\ UNCHANGED <<kind, joined, down, guest, taken, badge, events>> /\ Watch

NodeGoes(n) ==
  /\ Event
  /\ kind[n] # "dummy"
  /\ down' = IF n \in down THEN down \ {n} ELSE down \cup {n}
  /\ UNCHANGED <<kind, joined, row, guest, taken, badge>> /\ Watch

-----------------------------------------------------------------------------
(* The answer: one, since nothing is kept from one to the next *)

\* One statement reads the rows with node and creation job: of a list, or of one.
ReadRows(Q) ==
  /\ Asked = {}
  /\ Q \subseteq {c \in Owners : row[c] # NoRow} /\ Q # {}
  /\ taken' = [c \in Owners |-> IF c \in Q THEN row[c] ELSE NoRow]
  /\ truth' = [c \in Owners |-> {Fact(c)}]
  /\ UNCHANGED <<kind, joined, down, row, guest, badge, events>>

\* clusterResources('lxc') of one node: on Proxmox all guests of the cluster, on Docker
\* those of the node, on a dummy node the rows that have an id.
GuestsOf(C) == {[vmid |-> guest[c].id, on |-> guest[c].runs] : c \in {d \in C : guest[d].id # 0}}
ProxmoxResources(n) == GuestsOf({c \in Owners : NodeOf[c] = n \/ joined})
DockerResources(n) == GuestsOf({c \in Owners : NodeOf[c] = n})
DummyResources(n) ==
  {[vmid |-> row[c].id, on |-> TRUE] : c \in {d \in Owners : NodeOf[d] = n /\ row[d].id # 0}}

Resources(n) ==
  CASE kind[n] = "proxmox" -> ProxmoxResources(n)
    [] kind[n] = "docker" -> DockerResources(n)
    [] OTHER -> DummyResources(n)

\* Mutant of JobOf: findCreateJob, when the job has not been loaded with the row.
JobOfNow(c) == row[c].job

\* findCreateJob: what was loaded with the row.
JobOf(c) == taken[c].job

\* findInSnapshot, computeContainerStatus, decideStatus.
Decided(c, ok, snapshot) ==
  LET found == {r \in snapshot : taken[c].id # 0 /\ r.vmid = taken[c].id} IN
  IF found # {} THEN IF \E r \in found : r.on THEN "running" ELSE "offline"
  ELSE IF JobOf(c) = "active" THEN "creating"
  ELSE IF taken[c].id # 0 /\ ~ok THEN "unknown"
  ELSE IF JobOf(c) = "failure" THEN "failed" ELSE "missing"

\* The containers of one node, from its snapshot.
Resolve(n) ==
  LET ok == n \notin down
      snapshot == IF ok THEN Resources(n) ELSE {}
  IN
  /\ \E c \in Asked : NodeOf[c] = n /\ badge[c] = "-"
  /\ badge' = [c \in Owners |->
       IF c \in Asked /\ NodeOf[c] = n THEN Decided(c, ok, snapshot) ELSE badge[c]]
  /\ UNCHANGED <<kind, joined, down, row, guest, taken, truth, events>>

-----------------------------------------------------------------------------

StatusInit ==
  /\ kind \in NodeKinds
  /\ joined \in {j \in BOOLEAN : j => \A n \in HostNodes : kind[n] = "proxmox"}
  /\ down = {}
  /\ row = [c \in Owners |-> NoRow] /\ guest = [c \in Owners |-> [id |-> 0, runs |-> FALSE]]
  /\ taken = [c \in Owners |-> NoRow]
  /\ badge = [c \in Owners |-> "-"] /\ truth = [c \in Owners |-> {}] /\ events = 0

\* What happens after the answer matters to none.
StatusNext ==
  \/ \E c \in Owners : ~AnswerSent /\
       (\/ Posted(c) \/ MakesGuest(c) \/ StoresId(c) \/ JobEnds(c)
        \/ Imported(c) \/ OnTheNode(c) \/ RowDeleted(c))
  \/ \E n \in HostNodes : ~AnswerSent /\ (NodeGoes(n) \/ Resolve(n))
  \/ \E Q \in SUBSET Owners : ReadRows(Q)

StatusSpec == StatusInit /\ [][StatusNext]_statusVars

-----------------------------------------------------------------------------
(* Properties *)

RowValues == [id : Nat, job : {"norow", "nojob", "active", "success", "failure", "cancelled"}]

StatusTypeOK ==
  /\ kind \in NodeKinds /\ joined \in BOOLEAN /\ down \in SUBSET HostNodes
  /\ row \in [Owners -> RowValues] /\ taken \in [Owners -> RowValues]
  /\ guest \in [Owners -> [id : Nat, runs : BOOLEAN]]
  /\ badge \in [Owners -> {"-", "running", "offline", "creating", "failed", "missing", "unknown"}]
  /\ truth \in [Owners -> SUBSET {"reused", "unreachable", "running", "offline", "absent",
                                 "unnamed", "astray"}]

\* What the answer says of a container was true of it at some moment between the reading
\* of the rows and the answer: another container's guest with the same number is not
\* taken for its own, a node that does not answer makes nothing missing, and a job that
\* succeeds while the answer is computed does not either.  Excused: a guest whose id
\* nothing stores (astray), which is called missing or failed; a creation that the
\* runner's shutdown has cancelled, which is neither active nor failed: it is called
\* missing although its guest may have been made (unnamed) or its node not asked;
\* and a container that is deleted, or whose id is given out again, meanwhile.
StatusIsHonest ==
  \A c \in Owners : badge[c] # "-" /\ "reused" \notin truth[c] =>
    CASE badge[c] \in {"running", "offline"} -> badge[c] \in truth[c]
      [] badge[c] = "creating" -> taken[c].job = "active"
      [] badge[c] = "unknown" -> "unreachable" \in truth[c]
      [] badge[c] = "failed" -> taken[c].job = "failure" /\ truth[c] \cap {"absent", "unnamed", "astray", "unreachable"} # {}
      [] badge[c] = "missing" ->
           /\ taken[c].job # "active"
           /\ \/ truth[c] \cap {"absent", "astray"} # {}
              \/ taken[c].job = "cancelled" /\ truth[c] \cap {"unnamed", "unreachable"} # {}

=============================================================================
