----------------------------- MODULE AgentApply -----------------------------
(***************************************************************************)
(* The check-in agent (agent/src): a systemd timer starts it every 30      *)
(* seconds; it posts what it last applied to the manager, with the ETag of *)
(* the configuration it last saw, gets the site's configuration when that  *)
(* has changed, and applies it to nginx and to dnsmasq: stage the files,   *)
(* test, roll back or reload.  The process may die between any two steps,  *)
(* and knows afterwards only what state.json and the files say.            *)
(*                                                                         *)
(* A configuration is what the templates render from it: the contents of   *)
(* the managed files.  The four auxiliary dnsmasq files, which are written *)
(* and re-read together, are one, "hosts".  Its ETag (a SHA-256) is the    *)
(* configuration itself.  One agent process at a time: a run by hand next  *)
(* to the timer's is left out.                                             *)
(***************************************************************************)
EXTENDS Naturals, Sequences

CONSTANTS
  Contents,      \* what a rendered file may contain
  Rejected,      \* the contents that the service's own test refuses
  Configs,       \* the configurations the manager may serve
  Shipped,       \* a file before the agent's first write: the package's, or none
  Torn,          \* a state.json that was being written
  None,          \* no file (dnsmasq is not managed yet), no ETag
  MAX_PASSES,
  MaxChanges,    \* bound: changes of the site's configuration
  MaxFaults,     \* bound: lost check-ins, tests and reloads that fail by accident
  MaxCrashes     \* bound: deaths of the agent process

VARIABLES
  config,            \* manager: what buildAgentConfig returns
  reported,          \* manager: Agent.services, the lastApply of each service
  disk,              \* the files
  loaded,            \* the contents the running service has read
  alive,             \* the service runs
  file,              \* state.json, or Torn
  state,             \* the State object
  pc, pass,          \* main(): the next step, and the passes it has begun
  got,               \* result.config, and its ETag
  svc,               \* applyService: the service
  prev, changed,     \*   its maps "current" and "changed"
  todo,              \*   the files it has still to write
  changes, faults, crashes

manager == <<config, reported>>
host    == <<disk, loaded, alive>>
apply   == <<svc, prev, changed, todo>>
budget  == <<changes, faults, crashes>>
vars == <<manager, host, file, state, pc, pass, got, apply, budget>>

Services == {"nginx", "dnsmasq"}
Order(s) == IF s = "nginx" THEN <<"nginx.conf">> ELSE <<"dnsmasq.conf", "hosts">>
Files(s) == {Order(s)[i] : i \in DOMAIN Order(s)}
AllFiles == UNION {Files(s) : s \in Services}
Tested(s) == Order(s)[1]             \* what nginx -t, dnsmasq --test read

ASSUME ConstantsAssumption ==
  /\ Rejected \subseteq Contents /\ None \notin Contents /\ Shipped \notin Contents
  /\ Configs \subseteq [AllFiles -> Contents \cup {None}] /\ Configs # {}
  /\ None \notin Configs /\ \A s \in Services : None \notin [Files(s) -> Contents \cup {Shipped}]
  /\ \A c \in Configs, s \in Services :          \* a service's files are rendered together
       c[Tested(s)] # None => \A f \in Files(s) : c[f] # None
  /\ MAX_PASSES \in Nat \ {0}
  /\ MaxChanges \in Nat /\ MaxFaults \in Nat /\ MaxCrashes \in Nat

Results == {"success", "failure", "unknown"}
States  == [etag: Configs \cup {None}, lastApply: [Services -> Results]]
Blank   == [etag |-> None, lastApply |-> [s \in Services |-> "unknown"]]
OnDisk  == Contents \cup {Shipped}

ASSUME TornAssumption == Torn \notin States

TypeOK ==
  /\ config \in Configs /\ reported \in [Services -> Results]
  /\ disk \in [AllFiles -> OnDisk] /\ loaded \in [AllFiles -> OnDisk]
  /\ alive \in [Services -> BOOLEAN]
  /\ file \in States \cup {Torn} /\ state \in States
  /\ pc \in {"off", "checkin", "compare", "stage", "test", "undo", "rollback",
             "reload", "again", "save", "write"}
  /\ pass \in 0..MAX_PASSES
  /\ got \in Configs \cup {None}
  /\ svc \in Services
  /\ prev \in [AllFiles -> OnDisk] /\ changed \in SUBSET AllFiles
  /\ todo \in Seq(AllFiles)
  /\ changes \in 0..MaxChanges /\ faults \in 0..MaxFaults /\ crashes \in 0..MaxCrashes

Init ==
  /\ config \in Configs /\ reported = Blank.lastApply
  /\ disk = [f \in AllFiles |-> Shipped] /\ loaded = disk
  /\ alive = [s \in Services |-> TRUE]
  /\ file = Blank /\ state = Blank
  /\ pc = "off" /\ pass = 0 /\ got = None
  /\ svc = "nginx" /\ prev = disk /\ changed = {} /\ todo = <<>>
  /\ changes = 0 /\ faults = 0 /\ crashes = 0

Fault == faults < MaxFaults /\ faults' = faults + 1 /\ UNCHANGED <<changes, crashes>>
NoFault == UNCHANGED budget
-----------------------------------------------------------------------------
(* main()                                                                   *)

\* Mutant of Start: an unparsable state.json is an error.
StartParses ==
  /\ pc = "off" /\ file # Torn
  /\ state' = file /\ pc' = "checkin" /\ pass' = 0
  /\ UNCHANGED <<manager, host, file, got, apply, budget>>

\* The timer; State.load, which takes an unparsable file for a first run.
Start ==
  /\ pc = "off"
  /\ state' = IF file = Torn THEN Blank ELSE file
  /\ pc' = "checkin" /\ pass' = 0
  /\ UNCHANGED <<manager, host, file, got, apply, budget>>

\* Mutant of CheckIn: one pass too many before the results are only reported.
CheckInOnceMore ==
  /\ pc = "checkin"
  /\ reported' = state.lastApply
  /\ IF state.etag = config \/ pass > MAX_PASSES
     THEN pc' = "off" /\ UNCHANGED <<pass, got, svc>>
     ELSE pc' = "compare" /\ pass' = pass + 1 /\ got' = config /\ svc' = "nginx"
  /\ UNCHANGED <<config, host, file, state, prev, changed, todo, budget>>

\* The manager records the report, and answers 304 or the configuration; after
\* MAX_PASSES the answer is not looked at.
CheckIn ==
  /\ pc = "checkin"
  /\ reported' = state.lastApply
  /\ IF state.etag = config \/ pass = MAX_PASSES
     THEN pc' = "off" /\ UNCHANGED <<pass, got, svc>>
     ELSE pc' = "compare" /\ pass' = pass + 1 /\ got' = config /\ svc' = "nginx"
  /\ UNCHANGED <<config, host, file, state, prev, changed, todo, budget>>

\* The request or its answer is lost, or times out: the run ends.
CheckInFails ==
  /\ pc = "checkin"
  /\ Fault
  /\ reported' \in {reported, state.lastApply}
  /\ pc' = "off"
  /\ UNCHANGED <<config, host, file, state, pass, got, apply>>

\* The result of applyService, and on to the next service.
Conclude(result) ==
  /\ state' = [state EXCEPT !.lastApply[svc] = result]
  /\ IF svc = "nginx" THEN svc' = "dnsmasq" /\ pc' = "compare"
                      ELSE pc' = "save" /\ UNCHANGED svc

\* state.etag is set, also after a failure; state.save() truncates the file ...
Save ==
  /\ pc = "save"
  /\ state' = [state EXCEPT !.etag = got]
  /\ file' = Torn /\ pc' = "write"
  /\ UNCHANGED <<manager, host, pass, got, apply, budget>>

\* ... and writes it.
Write ==
  /\ pc = "write"
  /\ file' = state /\ pc' = "checkin"
  /\ UNCHANGED <<manager, host, state, pass, got, apply, budget>>
-----------------------------------------------------------------------------
(* applyService()                                                           *)

Managed(s, c) == c[Tested(s)] # None

\* Mutant of Compare: a file that does not exist yet is not a change.
CompareExisting ==
  LET new == {f \in Files(svc) : disk[f] # got[f] /\ disk[f] # Shipped} IN
  /\ pc = "compare"
  /\ IF ~Managed(svc, got) \/ new = {}
     THEN Conclude("success") /\ UNCHANGED <<prev, changed, todo>>
     ELSE /\ prev' = disk /\ changed' = new /\ todo' = Order(svc)
          /\ pc' = "stage" /\ UNCHANGED <<state, svc>>
  /\ UNCHANGED <<manager, host, file, pass, got, budget>>

\* render, and the comparison with the files: nothing to manage or to change
\* is a success.
Compare ==
  LET new == {f \in Files(svc) : disk[f] # got[f]} IN
  /\ pc = "compare"
  /\ IF ~Managed(svc, got) \/ new = {}
     THEN Conclude("success") /\ UNCHANGED <<prev, changed, todo>>
     ELSE /\ prev' = disk /\ changed' = new /\ todo' = Order(svc)
          /\ pc' = "stage" /\ UNCHANGED <<state, svc>>
  /\ UNCHANGED <<manager, host, file, pass, got, budget>>

\* The next file in order, by rename; after the last one, on to the next step.
WriteFile(contents, next) ==
  /\ disk' = [disk EXCEPT ![Head(todo)] = contents[Head(todo)]]
  /\ todo' = Tail(todo)
  /\ pc' = IF Tail(todo) = <<>> THEN next ELSE pc
  /\ UNCHANGED <<loaded, alive, prev, changed>>

Stage ==
  /\ pc = "stage"
  /\ WriteFile(got, "test")
  /\ UNCHANGED <<manager, file, state, pass, got, svc, budget>>

\* Mutant of Test: a configuration that is refused is not rolled back.
TestOnly ==
  /\ pc = "test"
  /\ IF disk[Tested(svc)] \in Rejected
     THEN Conclude("failure") /\ UNCHANGED todo
     ELSE pc' = "reload" /\ UNCHANGED <<state, svc, todo>>
  /\ UNCHANGED <<manager, host, file, pass, got, prev, changed, budget>>

\* The service's test reads the staged files; it may also fail by accident.
Test ==
  /\ pc = "test"
  /\ \/ disk[Tested(svc)] \notin Rejected /\ pc' = "reload" /\ NoFault /\ UNCHANGED todo
     \/ disk[Tested(svc)] \in Rejected /\ pc' = "undo" /\ NoFault /\ todo' = Order(svc)
     \/ disk[Tested(svc)] \notin Rejected /\ pc' = "undo" /\ Fault /\ todo' = Order(svc)
  /\ UNCHANGED <<manager, host, file, state, pass, got, svc, prev, changed>>

\* rollback() after a failed test: nothing was reloaded, nothing is.
Undo ==
  /\ pc = "undo"
  /\ IF todo # <<>>
     THEN WriteFile(prev, "undo") /\ UNCHANGED <<state, svc>>
     ELSE Conclude("failure") /\ UNCHANGED <<host, prev, changed, todo>>
  /\ UNCHANGED <<manager, file, pass, got, budget>>

\* Mutant of Restarts: the hosts are read again, so dnsmasq need not be restarted.
RestartsUnlessHosts == svc = "nginx" \/ "hosts" \notin changed

\* reload(changed): dnsmasq is restarted for its main file, and otherwise only
\* told to read the others again (SIGHUP); nginx is reloaded, or started.
Restarts == svc = "nginx" \/ "dnsmasq.conf" \in changed
Read     == IF Restarts THEN Files(svc) ELSE {"hosts"}
CanReload == IF Restarts THEN disk[Tested(svc)] \notin Rejected ELSE alive[svc]

ReadAgain == loaded' = [f \in AllFiles |-> IF f \in Read THEN disk[f] ELSE loaded[f]]

Reloaded == ReadAgain /\ alive' = [alive EXCEPT ![svc] = TRUE]

\* A reload that fails changes nothing, or was too slow to be awaited; a
\* restart that fails leaves dnsmasq stopped.
NotReloaded ==
  /\ \/ UNCHANGED <<loaded, alive>>
     \/ CanReload /\ Reloaded
     \/ /\ svc = "dnsmasq" /\ Restarts
        /\ alive' = [alive EXCEPT ![svc] = FALSE] /\ UNCHANGED loaded

\* Mutant of Reload: after a reload that failed the files are only rolled back.
ReloadOnce ==
  /\ pc = "reload"
  /\ \/ CanReload /\ Reloaded /\ NoFault /\ Conclude("success") /\ UNCHANGED todo
     \/ /\ NotReloaded
        /\ IF CanReload THEN Fault ELSE NoFault
        /\ pc' = "undo" /\ todo' = Order(svc) /\ UNCHANGED <<state, svc>>
  /\ UNCHANGED <<manager, disk, file, pass, got, prev, changed>>

Reload ==
  /\ pc = "reload"
  /\ \/ CanReload /\ Reloaded /\ NoFault /\ Conclude("success") /\ UNCHANGED todo
     \/ /\ NotReloaded
        /\ IF CanReload THEN Fault ELSE NoFault
        /\ pc' = "rollback" /\ todo' = Order(svc) /\ UNCHANGED <<state, svc>>
  /\ UNCHANGED <<manager, disk, file, pass, got, prev, changed>>

\* rollback() after a failed reload, ...
Rollback ==
  /\ pc = "rollback"
  /\ WriteFile(prev, "again")
  /\ UNCHANGED <<manager, file, state, pass, got, svc, budget>>

\* ... and the second reload, of the former files; an error is only logged.
ReloadAgain ==
  /\ pc = "again"
  /\ \/ CanReload /\ Reloaded /\ NoFault
     \/ NotReloaded /\ IF CanReload THEN Fault ELSE NoFault
  /\ Conclude("failure")
  /\ UNCHANGED <<manager, disk, file, pass, got, prev, changed, todo>>
-----------------------------------------------------------------------------
(* Around the agent                                                         *)

\* Somebody changes the site's containers, services or domains.
ConfigChanges ==
  /\ changes < MaxChanges /\ changes' = changes + 1
  /\ config' \in Configs \ {config}
  /\ UNCHANGED <<reported, host, file, state, pc, pass, got, apply, faults, crashes>>

\* The process is killed, or a file operation throws: nothing catches it.
Dies ==
  /\ pc # "off"
  /\ crashes < MaxCrashes /\ crashes' = crashes + 1
  /\ pc' = "off"
  /\ UNCHANGED <<manager, host, file, state, pass, got, apply, changes, faults>>

Apply == Compare \/ Stage \/ Test \/ Undo \/ Reload \/ Rollback \/ ReloadAgain

Agent == Start \/ CheckIn \/ Apply \/ Save \/ Write

Next == Agent \/ CheckInFails \/ ConfigChanges \/ Dies

\* The timer fires for ever, check-ins are bounded (CHECKIN_TIMEOUT_MS), and
\* systemd ends its jobs; nobody has to change the site, and nothing has to fail.
Spec == Init /\ [][Next]_vars /\ WF_vars(Agent)
-----------------------------------------------------------------------------
(* Properties                                                               *)

AtRest == pc = "off" /\ file # Torn

\* "the service keeps running the last known-good config" (apply.ts:168): after
\* one failure of whatever kind every service runs, with the files that are on
\* disk, and these pass its test: a reboot would give the same.  And what a settled
\* agent says is true: when it will be answered 304 for a configuration and reports
\* "success" for a service, these files are that configuration's, however it went back
\* and forth before.  (Unless the agent has died, or both a reload and the one after
\* the rollback have failed.)
LastKnownGood ==
  AtRest /\ crashes = 0 /\ faults < 2 => \A s \in Services :
    /\ alive[s]
    /\ \A f \in Files(s) : disk[f] = loaded[f]
    /\ disk[Tested(s)] \notin Rejected
    /\ file.etag # None =>
         (Managed(s, file.etag) /\ file.lastApply[s] = "success" =>
            \A f \in Files(s) : disk[f] = file.etag[f])

\* The agent leaves no service stopped unless a reload fails by accident and another
\* accident or a death of the agent adds to it: files that a dead agent has left
\* untested are tested before anything reads them.
DownNeedsTwoMishaps ==
  pc \notin {"rollback", "again"} /\ (\E s \in Services : ~alive[s]) =>
    faults > 0 /\ faults + crashes > 1

\* A service's files in a configuration, as it has read them, and as the agent can
\* restore them.
Part(s, contents) == [f \in Files(s) |-> contents[f]]
Offered(c) == [s \in Services |-> IF c = None \/ ~Managed(s, c) THEN None ELSE Part(s, c)]
InHand(s)  == svc = s /\ pc \in {"stage", "test", "undo", "reload", "rollback", "again"}
Serving    == [s \in Services |-> Part(s, loaded)]
LastGood   == [s \in Services |-> Part(s, IF InHand(s) THEN prev ELSE loaded)]
GoingBack  == IF pc \in {"rollback", "again"} THEN svc ELSE None
Steady     == crashes = 0 /\ faults < 2

Passing == UNION {{v \in [Files(s) -> OnDisk] : v[Tested(s)] \notin Rejected} : s \in Services}

Good == INSTANCE KnownGood WITH
  Acceptable <- Passing, Nothing <- None, Nobody <- None,
  offered <- Offered(config), fetched <- Offered(got),
  running <- Serving, good <- LastGood, up <- alive,
  trying <- GoingBack, said <- state.lastApply, calm <- Steady

\* Step by step, and up to the second mishap, the agent and its files keep what
\* KnownGood promises: no service ever reads files of two configurations, or files that
\* were not tested; after a reload that failed the next thing it does is to come back
\* with the files it last came up with; and the results are those of these steps.
KeepsKnownGood == Good!Spec

\* The agent catches up: once the site is left alone, its state.json has the
\* current configuration's ETag, and the manager knows the results in it, whatever
\* was lost, torn or killed on the way.
CatchesUp ==
  <>[](file # Torn /\ file.etag = config /\ reported = file.lastApply)

\* "skip if nothing changed, stage new files, run the test command, roll back on
\* failure" (mie-opensource-landing/docs/developers/agent.md:73): what a service's test refuses is never
\* reported as applied.  Broken by an agent that dies after it has staged it: the
\* next run finds nothing changed, and reports success.
SuccessMeansTested ==
  AtRest /\ file.etag # None => \A s \in Services :
    file.lastApply[s] = "success" => file.etag[Tested(s)] \notin Rejected
=============================================================================
