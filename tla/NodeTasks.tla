------------------------------ MODULE NodeTasks ------------------------------
(***************************************************************************)
(* What the scripts of Provisioning ask of a node, one level down: finding *)
(* or pulling the image, tasks that run on the node after their request    *)
(* has been answered, the polling that waits for them, and its timeouts.   *)
(* The three clients (proxmox-api.js, docker-api.js, dummy-api.js) differ  *)
(* in these alone.                                                         *)
(*                                                                         *)
(* Creations of two containers from one image share the node's storage;    *)
(* restarts (reconfiguration jobs) of the first container run beside its   *)
(* creation and each other.  What an id is, and what a configuration says, *)
(* is Provisioning's.                                                      *)
(***************************************************************************)
EXTENDS Naturals

CONSTANTS
  Creations,    \* creation scripts, each of a guest of its own
  Restarts,     \* reconfiguration scripts, of First
  First,        \* the creation whose guest they restart
  Clients,      \* the node's client: "proxmox", "docker", "dummy"
  Versions,     \* image versions; 0 is none
  Casts         \* bound: the scripts of a behaviour, and how many calls and tasks fail
                \* or are slow, or versions pushed, in it

ASSUME TaskConstants ==
  /\ First \in Creations /\ Creations \cap Restarts = {}
  /\ Clients \subseteq {"proxmox", "docker", "dummy"} /\ Versions \subseteq Nat \ {0}
  /\ Casts \subseteq [who : SUBSET (Creations \cup Restarts), slips : Nat]

VARIABLES
  cast,       \* the one of Casts that this behaviour has
  client,
  tag,        \* the version behind the image's tag
  files,      \* the node's storage: digest -> version inside, 0 if there is no such file
  pulled,     \* Docker's local tag
  vm,         \* the guests, by their creation: image, running, stored in the row, and lost:
              \* the row's id is not the guest's any more
  script,     \* the scripts
  task,       \* the last task of each
  seen,       \* history: versions the tag has had while a creation was under way
  had,        \* history: and since it began
  astray,     \* history: a tag has moved between a script's digest and its pull
  slips

taskVars == <<cast, client, tag, files, pulled, vm, script, task, seen, had, astray, slips>>

Scripts == Creations \cup Restarts
GuestOf(s) == IF s \in Creations THEN s ELSE First
NoTask == [op |-> "none", st |-> "none"]
NoGuest == [image |-> 0, on |-> FALSE, stored |-> FALSE, lost |-> FALSE]

TaskAt(s, pc) == script[s].pc = pc
TaskGoto(s, pc) == script' = [script EXCEPT ![s].pc = pc]
Over(s) == script[s].pc \in {"ready", "ok", "failed"}
Slip == slips < cast.slips /\ slips' = slips + 1

\* An error ends the script, whatever it was doing.
TaskFails(s) == TaskGoto(s, "failed") /\ UNCHANGED slips
CallFails(s) == TaskGoto(s, "failed") /\ Slip

-----------------------------------------------------------------------------
(* Tasks *)

\* Proxmox locks a guest for the task that works on it, and refuses; Docker, for the call,
\* and makes others wait.
Locked(s) ==
  \E o \in Scripts \ {s} : /\ GuestOf(o) = GuestOf(s)
                           /\ task[o].st = "running" /\ task[o].op # "pull"

\* What the nodes refuse at once: a start of what runs, or a stop of what does not, which
\* Docker answers "not modified"; its client takes that for an error of a start alone.
\* A Docker id that is no container's any more is refused whatever is asked of it.
ProxmoxRefuses(op, g) == \/ op = "start" /\ (g.on \/ g.image = 0)
                         \/ op = "stop" /\ ~g.on
DockerRefuses(op, g) == g.lost \/ (op = "start" /\ (g.on \/ g.image = 0))
DummyRefuses(op, g) == FALSE

TaskRefused(s, op) ==
  LET g == vm[GuestOf(s)] IN
  CASE client = "proxmox" -> (op # "pull" /\ Locked(s)) \/ ProxmoxRefuses(op, g)
    [] client = "docker" -> DockerRefuses(op, g)
    [] OTHER -> DummyRefuses(op, g)

Launch(s, op, waiting) ==
  /\ client = "docker" /\ op # "pull" => ~Locked(s)
  /\ \/ /\ ~TaskRefused(s, op)
        /\ task' = [task EXCEPT ![s] = [op |-> op, st |-> "running"]]
        /\ TaskGoto(s, waiting)
     \/ TaskRefused(s, op) /\ TaskGoto(s, "failed") /\ UNCHANGED task
  /\ UNCHANGED <<cast, client, tag, files, pulled, vm, seen, had, astray, slips>>

\* Mutant of FileOf: the file is named after the tag alone.
FileOfTag(s) == CHOOSE v \in Versions : \A w \in Versions : v <= w

\* generateImageFilename: the name has the digest in it.
FileOf(s) == script[s].digest

\* Docker's client makes a guest from the tag it has pulled last.
ImageFor(s) == IF client = "docker" THEN pulled ELSE files[FileOf(s)]

\* A pull writes what the tag refers to when it ends.
PullOntoStorage(s) == files' = [files EXCEPT ![FileOf(s)] = tag] /\ UNCHANGED pulled
PullIntoDocker == pulled' = tag /\ UNCHANGED files

\* What a task does when it ends well.
Effect(s) ==
  CASE task[s].op = "pull" ->
         /\ IF client = "docker" THEN PullIntoDocker ELSE PullOntoStorage(s)
         /\ astray' = (astray \/ tag # script[s].digest)
         /\ UNCHANGED vm
    [] task[s].op = "create" ->
         /\ vm' = [vm EXCEPT ![s].image = ImageFor(s)]
         /\ UNCHANGED <<files, pulled, astray>>
    [] OTHER ->
         /\ vm' = [vm EXCEPT ![GuestOf(s)].on = (task[s].op = "start")]
         /\ UNCHANGED <<files, pulled, astray>>

\* A dummy node's tasks are over when their status is asked for, and never fail.
AlwaysEndsWell == client = "dummy"

TaskEnds(s) ==
  /\ task[s].st = "running"
  /\ \/ task' = [task EXCEPT ![s].st = "OK"] /\ Effect(s) /\ UNCHANGED slips
     \/ /\ ~AlwaysEndsWell /\ Slip
        /\ task' = [task EXCEPT ![s].st = "error"]
        /\ UNCHANGED <<files, pulled, vm, astray>>
  /\ UNCHANGED <<cast, client, tag, script, seen, had>>

\* Mutant of Finished: the wait is not awaited.
FinishedOrNot(s) == task[s].st \in {"OK", "running"}

Finished(s) == task[s].st = "OK"

\* waitForTask, from pc to next: done, failed, or given up while it goes on (300 s for a
\* creation, 60 s for a restart, 120 s for a call to Docker).
WaitForTask(s, pc, next) ==
  /\ TaskAt(s, pc)
  /\ \/ Finished(s) /\ TaskGoto(s, next) /\ UNCHANGED slips
     \/ task[s].st = "error" /\ TaskFails(s)
     \/ task[s].st = "running" /\ ~AlwaysEndsWell /\ CallFails(s)
  /\ UNCHANGED <<cast, client, tag, files, pulled, vm, task, seen, had, astray>>

-----------------------------------------------------------------------------
(* The image *)

Push(v) ==
  /\ v # tag
  /\ tag' = v
  /\ seen' = [s \in Scripts |-> IF Over(s) /\ task[s].st # "running" THEN seen[s]
                                ELSE seen[s] \cup {v}]
  /\ had' = [s \in Scripts |-> IF had[s] = {} THEN {} ELSE had[s] \cup {v}]
  /\ Slip
  /\ UNCHANGED <<cast, client, files, pulled, vm, script, task, astray>>

Begin(s) ==
  /\ s \in Creations /\ TaskAt(s, "ready")
  /\ TaskGoto(s, "digest")
  /\ seen' = [seen EXCEPT ![s] = {tag}] /\ had' = [had EXCEPT ![s] = {tag}]
  /\ UNCHANGED <<cast, client, tag, files, pulled, vm, task, astray, slips>>

\* resolveStorage twice, and the digest from the registry.
GetImageDigest(s) ==
  /\ TaskAt(s, "digest")
  /\ \/ script' = [script EXCEPT ![s] = [pc |-> "list", digest |-> tag]] /\ UNCHANGED slips
     \/ CallFails(s)
  /\ UNCHANGED <<cast, client, tag, files, pulled, vm, task, seen, had, astray>>

\* storageContents: the files.  Docker, which looks for itself, and the dummy list none.
StorageContents == IF client = "proxmox" THEN {v \in Versions : files[v] # 0} ELSE {}

\* A file of that name is not pulled again.
ListImages(s) ==
  /\ TaskAt(s, "list")
  /\ \/ /\ TaskGoto(s, IF FileOf(s) \in StorageContents THEN "create" ELSE "pull")
        /\ UNCHANGED slips
     \/ CallFails(s)
  /\ UNCHANGED <<cast, client, tag, files, pulled, vm, task, seen, had, astray>>

PullOciImage(s) == TaskAt(s, "pull") /\ Launch(s, "pull", "pulling")

-----------------------------------------------------------------------------
(* The guest *)

CreateLxc(s) == TaskAt(s, "create") /\ Launch(s, "create", "creating")

\* recreateForConfig: a guest like this one, stopped, from the local tag of now; no guest,
\* if the old one has been removed when the call fails.
MadeAnew(g) == [g EXCEPT !.image = pulled, !.on = FALSE]
Removed(g) == [g EXCEPT !.image = 0, !.on = FALSE]

\* Configuration, for which Docker makes the guest anew if there is any, access control,
\* and the id, which is then the new one, in the row: from here on the container can
\* be restarted.
StoreId(s) ==
  LET configured == IF client = "docker" THEN {vm[s], MadeAnew(vm[s])} ELSE {vm[s]}
      broken == IF client = "docker" THEN {Removed(vm[s])} ELSE {}
  IN
  /\ TaskAt(s, "store")
  /\ \/ /\ \E g \in configured : vm' = [vm EXCEPT ![s] = [g EXCEPT !.stored = TRUE]]
        /\ TaskGoto(s, "start") /\ UNCHANGED slips
     \/ CallFails(s) /\ \E g \in configured \cup broken : vm' = [vm EXCEPT ![s] = g]
  /\ UNCHANGED <<cast, client, tag, files, pulled, task, seen, had, astray>>

StartLxc(s) == TaskAt(s, "start") /\ Launch(s, "start", "starting")

\* A guest that runs, if its id is known, has an address, on a dummy node any guest.
HasAddress(c) == (vm[c].on /\ ~vm[c].lost) \/ client = "dummy"

\* The address, asked for until the guest has one, ten times at most.
GetLxcIpAddress(s) ==
  /\ TaskAt(s, "address")
  /\ \/ HasAddress(GuestOf(s)) /\ TaskGoto(s, "ok") /\ UNCHANGED slips
     \/ ~HasAddress(GuestOf(s)) /\ TaskFails(s)
     \/ CallFails(s)
  /\ UNCHANGED <<cast, client, tag, files, pulled, vm, task, seen, had, astray>>

-----------------------------------------------------------------------------
(* Restarts *)

\* Proxmox refuses to configure a guest that a task has, Docker one it does not know.
MayConfigure(s) ==
  CASE client = "proxmox" -> ~Locked(s)
    [] client = "docker" -> ~vm[First].lost
    [] OTHER -> TRUE

\* What the calls of a configuration may have done to Docker's guest when one of them
\* fails: nothing, a stop, or a removal.
Interrupted(g) ==
  IF client = "docker" /\ ~g.lost
    THEN {g, [g EXCEPT !.on = FALSE], [Removed(g) EXCEPT !.lost = TRUE]} ELSE {g}

\* A container that has an id; its configuration.  The script drops the id of the guest
\* that Docker has made for it.
Configure(s) ==
  /\ s \in Restarts /\ TaskAt(s, "ready")
  /\ vm[First].stored
  /\ client = "docker" => ~Locked(s)
  /\ \/ /\ MayConfigure(s) /\ TaskGoto(s, "status") /\ UNCHANGED slips
        /\ vm' = IF client = "docker" THEN [vm EXCEPT ![First] = [MadeAnew(@) EXCEPT !.lost = TRUE]]
                 ELSE vm
     \/ ~MayConfigure(s) /\ TaskFails(s) /\ UNCHANGED vm
     \/ CallFails(s) /\ \E g \in Interrupted(vm[First]) : vm' = [vm EXCEPT ![First] = g]
  /\ UNCHANGED <<cast, client, tag, files, pulled, task, seen, had, astray>>

\* On a dummy node nothing runs for a process that has not started it.
ShownRunning(c) == vm[c].on /\ client # "dummy"

\* The status of the guest of the row's id, if there is one.  A change that only removes
\* settings, or is of memory or processors, is done.
GetLxcStatus(s) ==
  /\ TaskAt(s, "status")
  /\ \/ /\ ~vm[First].lost /\ UNCHANGED slips
        /\ TaskGoto(s, IF ShownRunning(First) THEN "stop" ELSE "start") \/ TaskGoto(s, "ok")
     \/ vm[First].lost /\ TaskFails(s)
     \/ CallFails(s)
  /\ UNCHANGED <<cast, client, tag, files, pulled, vm, task, seen, had, astray>>

StopLxc(s) == TaskAt(s, "stop") /\ Launch(s, "stop", "stopping")

-----------------------------------------------------------------------------

TaskInit ==
  /\ cast \in Casts /\ client \in Clients
  /\ tag \in Versions
  /\ files = [v \in Versions |-> 0] /\ pulled = 0
  /\ vm = [c \in Creations |-> NoGuest]
  /\ script = [s \in Scripts |-> [pc |-> IF s \in cast.who THEN "ready" ELSE "ok", digest |-> 0]]
  /\ task = [s \in Scripts |-> NoTask]
  /\ seen = [s \in Scripts |-> {}] /\ had = [s \in Scripts |-> {}] /\ astray = FALSE /\ slips = 0

TaskNext ==
  \/ \E v \in Versions : Push(v)
  \/ \E s \in Scripts :
       \/ Begin(s) \/ GetImageDigest(s) \/ ListImages(s) \/ PullOciImage(s) \/ CreateLxc(s)
       \/ StoreId(s) \/ StartLxc(s) \/ GetLxcIpAddress(s)
       \/ Configure(s) \/ GetLxcStatus(s) \/ StopLxc(s)
       \/ TaskEnds(s)
       \/ WaitForTask(s, "pulling", "create") \/ WaitForTask(s, "creating", "store")
       \/ WaitForTask(s, "stopping", "start") \/ WaitForTask(s, "starting", "address")

TaskSpec == TaskInit /\ [][TaskNext]_taskVars

-----------------------------------------------------------------------------
(* Properties *)

ScriptPlaces ==
  {"ready", "digest", "list", "pull", "pulling", "create", "creating", "store", "status", "stop",
   "stopping", "start", "starting", "address", "ok", "failed"}

TaskTypeOK ==
  /\ cast \in Casts /\ client \in Clients /\ tag \in Versions
  /\ files \in [Versions -> Versions \cup {0}] /\ pulled \in Versions \cup {0}
  /\ vm \in [Creations -> [image : Versions \cup {0}, on : BOOLEAN, stored : BOOLEAN, lost : BOOLEAN]]
  /\ script \in [Scripts -> [pc : ScriptPlaces, digest : Versions \cup {0}]]
  /\ task \in [Scripts -> [op : {"none", "pull", "create", "start", "stop"},
                           st : {"none", "running", "OK", "error"}]]
  /\ seen \in [Scripts -> SUBSET Versions] /\ had \in [Scripts -> SUBSET Versions] /\ astray \in BOOLEAN /\ slips \in Nat

\* A guest is made from a version that its image's tag had while its creation was under
\* way, whichever creation pulled it, unless a tag has moved between a digest and the
\* pull, so that a Proxmox node's file has another version than its name says.  A guest
\* that a reconfiguration on Docker has made anew has one of after its creation began.
ImageIsTheTags ==
  \A c \in Creations :
    vm[c].image # 0 => \/ vm[c].image \in (IF vm[c].lost THEN had[c] ELSE seen[c])
                       \/ astray /\ client # "docker"

\* A row gets an id of a guest that has been made, although scripts give up waiting for
\* tasks that go on; only Docker can lose it.
StoredIsMade ==
  \A c \in Creations : vm[c].stored => vm[c].image # 0 \/ (client = "docker" /\ vm[c].lost)

\* However a creation and restarts of a container interleave and refuse one another, if
\* no call failed and no task took too long it runs when they are over.  On Docker this
\* is so until a reconfiguration has made the guest anew: its id is lost, nothing starts
\* it, and the reconfiguration fails.
RestartsEndRunning ==
  (slips = 0 /\ vm[First].stored /\ \A s \in Scripts : Over(s)) =>
    \/ vm[First].on
    \/ client = "docker" /\ vm[First].lost /\ \E s \in Restarts : TaskAt(s, "failed")

\* A container has its image, and runs.
GuestsHold == ImageIsTheTags /\ StoredIsMade /\ RestartsEndRunning

=============================================================================
