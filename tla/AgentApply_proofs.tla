-------------------------- MODULE AgentApply_proofs --------------------------
(***************************************************************************)
(* For every set of configurations, and every bound: what the agent and    *)
(* the files of the two services look like at each of its steps, and from  *)
(* that the safety properties of AgentApply.                               *)
(***************************************************************************)
EXTENDS AgentApply, TLAPS

USE ConstantsAssumption, TornAssumption DEF OnDisk

(* The inductive invariant *)

\* A file of the service at hand is being staged, tested, reloaded or rolled back.
Midway == pc \in {"stage", "test", "undo", "reload", "rollback", "again"}
Handled(s) == Midway /\ svc = s

\* What may be left to write of a service's files.
Suffixes(s) ==
  IF s = "nginx" THEN {<<"nginx.conf">>, <<>>}
  ELSE {<<"dnsmasq.conf", "hosts">>, <<"hosts">>, <<>>}
Left(seq) == {f \in AllFiles : \E i \in DOMAIN seq : seq[i] = f}

\* The rendered files are there while they are needed, and what is left to write.
Rendered ==
  /\ pc \in {"compare", "save"} => got # None
  /\ Midway => /\ got # None /\ Managed(svc, got)
               /\ changed = {f \in Files(svc) : prev[f] # got[f]}
  /\ pc \in {"stage", "undo", "rollback"} => todo \in Suffixes(svc)
  /\ pc \in {"stage", "rollback"} => todo # <<>>

\* The files of the service at hand, in between the former ones and the new.
Between ==
  /\ pc = "stage" => \A f \in Files(svc) : disk[f] = IF f \in Left(todo) THEN prev[f] ELSE got[f]
  /\ pc \in {"test", "reload"} => \A f \in Files(svc) : disk[f] = got[f]
  /\ pc \in {"undo", "rollback"} =>
       \A f \in Files(svc) : disk[f] = IF f \in Left(todo) THEN got[f] ELSE prev[f]
  /\ pc = "again" => \A f \in Files(svc) : disk[f] = prev[f]

\* What is reloaded has been tested, and, until the agent dies, so has what it can go
\* back to.
Accepted ==
  /\ pc = "reload" => disk[Tested(svc)] \notin Rejected
  /\ crashes = 0 => \A s \in Services :
       IF Handled(s) THEN prev[Tested(s)] \notin Rejected ELSE disk[Tested(s)] \notin Rejected

\* Only a restart of dnsmasq stops a service: one accident while it is handled, two
\* mishaps afterwards.
Stopped ==
  /\ pc \in {"rollback", "again"} => faults > 0
  /\ \A s \in Services : ~alive[s] =>
       /\ s = "dnsmasq" /\ faults > 0
       /\ \/ faults + crashes > 1
          \/ pc \in {"rollback", "again"} /\ svc = s /\ "dnsmasq.conf" \in changed

\* What runs has read what is on disk, or what was there before.
Served ==
  \A s \in Services :
    IF ~Handled(s) THEN alive[s] /\ \A f \in Files(s) : loaded[f] = disk[f]
    ELSE IF pc \in {"rollback", "again"}
      THEN /\ Restarts \/ alive[s]
           /\ \A f \in Files(s) : f \in Read \/ loaded[f] = prev[f]
      ELSE alive[s] /\ \A f \in Files(s) : loaded[f] = prev[f]

Told(s, c) ==
  Managed(s, c) /\ state.lastApply[s] = "success" => \A f \in Files(s) : disk[f] = c[f]

\* What has been found a success is on disk.
Recorded ==
  /\ pc \in {"off", "checkin"} => /\ file = state
                                  /\ state.etag # None => \A s \in Services : Told(s, state.etag)
  /\ (pc = "compare" \/ Midway) /\ svc = "dnsmasq" => Told("nginx", got)
  /\ pc = "save" => \A s \in Services : Told(s, got)
  /\ pc = "write" => state.etag # None /\ \A s \in Services : Told(s, state.etag)

Calm == crashes = 0 /\ faults < 2

IInv == TypeOK /\ Rendered /\ Between /\ Accepted /\ Stopped /\ (Calm => Served /\ Recorded)

-----------------------------------------------------------------------------
(* The files, and what is left of them *)

LEMMA FilesOf ==
  /\ Files("nginx") = {"nginx.conf"} /\ Files("dnsmasq") = {"dnsmasq.conf", "hosts"}
  /\ AllFiles = {"nginx.conf", "dnsmasq.conf", "hosts"}
  /\ Tested("nginx") = "nginx.conf" /\ Tested("dnsmasq") = "dnsmasq.conf"
<1>1. Order("nginx") = <<"nginx.conf">> /\ Order("dnsmasq") = <<"dnsmasq.conf", "hosts">>
  BY DEF Order
<1>2. Files("nginx") = {"nginx.conf"}
  BY <1>1 DEF Files
<1>3. Files("dnsmasq") = {"dnsmasq.conf", "hosts"}
  BY <1>1 DEF Files
<1>4. AllFiles = Files("nginx") \cup Files("dnsmasq")
  BY DEF AllFiles, Services
<1> QED BY <1>1, <1>2, <1>3, <1>4 DEF Tested

LEMMA OrderIsWhole ==
  ASSUME NEW s \in Services
  PROVE  /\ Order(s) \in Suffixes(s) /\ Order(s) # <<>> /\ Order(s) \in Seq(AllFiles)
         /\ \A f \in Files(s) : f \in Left(Order(s))
<1>1. CASE s = "nginx"
  BY <1>1, FilesOf DEF Order, Suffixes, Left
<1>2. CASE s = "dnsmasq"
  BY <1>2, FilesOf DEF Order, Suffixes, Left
<1> QED BY <1>1, <1>2 DEF Services

LEMMA LeftOfSuffix ==
  ASSUME NEW s \in Services, NEW seq \in Suffixes(s)
  PROVE  /\ seq \in Seq(AllFiles)
         /\ seq = <<>> => Left(seq) = {}
         /\ seq # <<>> => /\ Head(seq) \in Files(s) /\ Tail(seq) \in Suffixes(s)
                          /\ Left(Tail(seq)) = Left(seq) \ {Head(seq)}
<1>1. Left(<<>>) = {} /\ Left(<<"nginx.conf">>) = {"nginx.conf"} /\ Left(<<"hosts">>) = {"hosts"}
  BY FilesOf DEF Left
<1>2. Left(<<"dnsmasq.conf", "hosts">>) = {"dnsmasq.conf", "hosts"}
  BY FilesOf DEF Left
<1>3. CASE s = "nginx"
  <2>1. CASE seq = <<"nginx.conf">>
    <3>1. Head(seq) = "nginx.conf" /\ Tail(seq) = <<>>
      BY <2>1
    <3> QED BY <1>1, <1>3, <2>1, <3>1, FilesOf DEF Suffixes
  <2>2. CASE seq = <<>>
    BY <1>1, <2>2
  <2> QED BY <1>3, <2>1, <2>2 DEF Suffixes
<1>4. CASE s = "dnsmasq"
  <2>1. CASE seq = <<"dnsmasq.conf", "hosts">>
    <3>1. Head(seq) = "dnsmasq.conf" /\ Tail(seq) = <<"hosts">>
      BY <2>1
    <3> QED BY <1>1, <1>2, <1>4, <2>1, <3>1, FilesOf DEF Suffixes
  <2>2. CASE seq = <<"hosts">>
    <3>1. Head(seq) = "hosts" /\ Tail(seq) = <<>>
      BY <2>2
    <3> QED BY <1>1, <1>4, <2>2, <3>1, FilesOf DEF Suffixes
  <2>3. CASE seq = <<>>
    BY <1>1, <2>3
  <2> QED BY <1>4, <2>1, <2>2, <2>3 DEF Suffixes
<1> QED BY <1>3, <1>4 DEF Services

-----------------------------------------------------------------------------
(* Typing *)

LEMMA TypeInit == Init => TypeOK
BY FilesOf DEF Init, TypeOK, Blank, States, Results, Services

\* A rendered file is one that the disk can hold.
LEMMA RenderedIsContent ==
  ASSUME TypeOK, got # None, Managed(svc, got), NEW f \in Files(svc)
  PROVE  got[f] \in Contents
<1>1. f \in AllFiles
  BY FilesOf DEF TypeOK, Services
<1> QED BY <1>1 DEF TypeOK, Managed

LEMMA WriteFileTypes ==
  ASSUME TypeOK, todo \in Suffixes(svc), todo # <<>>, NEW contents, NEW next,
         contents[Head(todo)] \in OnDisk, WriteFile(contents, next)
  PROVE  /\ disk' \in [AllFiles -> OnDisk] /\ todo' \in Seq(AllFiles)
         /\ pc' \in {pc, next} /\ UNCHANGED <<loaded, alive, prev, changed>>
<1>1. Tail(todo) \in Suffixes(svc) /\ svc \in Services
  BY LeftOfSuffix DEF TypeOK
<1>2. todo' \in Seq(AllFiles)
  BY <1>1, LeftOfSuffix DEF WriteFile
<1> QED BY <1>2 DEF WriteFile, TypeOK

LEMMA ConcludeTypes ==
  ASSUME TypeOK, NEW result \in Results, Conclude(result)
  PROVE  state' \in States /\ svc' \in Services /\ pc' \in {"compare", "save"}
BY DEF TypeOK, Conclude, States, Services

LEMMA TypeStep ==
  ASSUME TypeOK, Rendered, [Next]_vars
  PROVE  TypeOK'
<1> USE DEF manager, host, apply, budget
<1>1. CASE Start
  BY <1>1 DEF Start, TypeOK, Blank, States, Results
<1>2. CASE CheckIn
  BY <1>2 DEF CheckIn, TypeOK, States, Services
<1>3. CASE CheckInFails
  BY <1>3 DEF CheckInFails, Fault, TypeOK, States
<1>4. CASE Compare
  <2>1. CASE Conclude("success") /\ UNCHANGED <<prev, changed, todo>>
    BY <1>4, <2>1, ConcludeTypes DEF Compare, TypeOK, Results
  <2>2. CASE prev' = disk /\ changed' = {f \in Files(svc) : disk[f] # got[f]} /\ todo' = Order(svc)
             /\ pc' = "stage" /\ UNCHANGED <<state, svc>>
    <3>1. changed' \in SUBSET AllFiles /\ todo' \in Seq(AllFiles)
      BY <2>2, FilesOf, OrderIsWhole DEF TypeOK, Services
    <3> QED BY <1>4, <2>2, <3>1 DEF Compare, TypeOK
  <2> QED BY <1>4, <2>1, <2>2 DEF Compare
<1>5. CASE Stage
  <2>1. todo \in Suffixes(svc) /\ todo # <<>> /\ got # None /\ Managed(svc, got)
    BY <1>5 DEF Stage, Rendered, Midway
  <2>2. got[Head(todo)] \in OnDisk
    BY <2>1, LeftOfSuffix, RenderedIsContent DEF TypeOK
  <2>3. WriteFile(got, "test")
    BY <1>5 DEF Stage
  <2>4. disk' \in [AllFiles -> OnDisk] /\ todo' \in Seq(AllFiles)
        /\ pc' \in {pc, "test"} /\ UNCHANGED <<loaded, alive, prev, changed>>
    BY <2>1, <2>2, <2>3, WriteFileTypes
  <2> QED BY <1>5, <2>4 DEF Stage, TypeOK
<1>6. CASE Test
  <2>1. todo' \in Seq(AllFiles)
    BY <1>6, OrderIsWhole DEF Test, TypeOK
  <2> QED BY <1>6, <2>1 DEF Test, TypeOK, Fault, NoFault
<1>7. CASE Undo
  <2>1. CASE todo # <<>>
    <3>1. todo \in Suffixes(svc) /\ prev[Head(todo)] \in OnDisk
      <4>1. todo \in Suffixes(svc) /\ svc \in Services
        BY <1>7 DEF Undo, Rendered, TypeOK
      <4>2. Head(todo) \in AllFiles
        BY <2>1, <4>1, LeftOfSuffix, FilesOf DEF Services
      <4> QED BY <4>1, <4>2 DEF TypeOK
    <3>2. WriteFile(prev, "undo")
      BY <1>7, <2>1 DEF Undo
    <3>3. disk' \in [AllFiles -> OnDisk] /\ todo' \in Seq(AllFiles)
          /\ pc' \in {pc, "undo"} /\ UNCHANGED <<loaded, alive, prev, changed>>
      BY <2>1, <3>1, <3>2, WriteFileTypes
    <3> QED BY <1>7, <2>1, <3>3 DEF Undo, TypeOK
  <2>2. CASE todo = <<>>
    BY <1>7, <2>2, ConcludeTypes DEF Undo, TypeOK, Results
  <2> QED BY <2>1, <2>2
<1>8. CASE Reload
  <2>1. loaded' \in [AllFiles -> OnDisk] /\ alive' \in [Services -> BOOLEAN]
    BY <1>8 DEF Reload, Reloaded, ReadAgain, NotReloaded, TypeOK
  <2>2. faults' \in 0..MaxFaults /\ UNCHANGED <<changes, crashes>>
    BY <1>8 DEF Reload, Fault, NoFault, TypeOK
  <2>3. CASE Conclude("success") /\ UNCHANGED todo
    BY <1>8, <2>1, <2>2, <2>3, ConcludeTypes DEF Reload, TypeOK, Results
  <2>4. CASE pc' = "rollback" /\ todo' = Order(svc) /\ UNCHANGED <<state, svc>>
    <3>1. todo' \in Seq(AllFiles)
      BY <2>4, OrderIsWhole DEF TypeOK
    <3> QED BY <1>8, <2>1, <2>2, <2>4, <3>1 DEF Reload, TypeOK
  <2> QED BY <1>8, <2>3, <2>4 DEF Reload
<1>9. CASE Rollback
  <2>1. todo \in Suffixes(svc) /\ todo # <<>> /\ svc \in Services
    BY <1>9 DEF Rollback, Rendered, TypeOK
  <2>2. prev[Head(todo)] \in OnDisk
    <3>1. Head(todo) \in AllFiles
      BY <2>1, LeftOfSuffix, FilesOf DEF Services
    <3> QED BY <3>1 DEF TypeOK
  <2>3. WriteFile(prev, "again")
    BY <1>9 DEF Rollback
  <2>4. disk' \in [AllFiles -> OnDisk] /\ todo' \in Seq(AllFiles)
        /\ pc' \in {pc, "again"} /\ UNCHANGED <<loaded, alive, prev, changed>>
    BY <2>1, <2>2, <2>3, WriteFileTypes
  <2> QED BY <1>9, <2>4 DEF Rollback, TypeOK
<1>10. CASE ReloadAgain
  <2>1. loaded' \in [AllFiles -> OnDisk] /\ alive' \in [Services -> BOOLEAN]
    BY <1>10 DEF ReloadAgain, Reloaded, ReadAgain, NotReloaded, TypeOK
  <2>2. faults' \in 0..MaxFaults /\ UNCHANGED <<changes, crashes>>
    BY <1>10 DEF ReloadAgain, Fault, NoFault, TypeOK
  <2>3. Conclude("failure")
    BY <1>10 DEF ReloadAgain
  <2> QED BY <1>10, <2>1, <2>2, <2>3, ConcludeTypes DEF ReloadAgain, TypeOK, Results
<1>11. CASE Save \/ Write
  BY <1>11 DEF Save, Write, TypeOK, States
<1>12. CASE ConfigChanges \/ Dies
  BY <1>12 DEF ConfigChanges, Dies, TypeOK
<1>13. CASE UNCHANGED vars
  BY <1>13 DEF vars, TypeOK
<1> QED
  BY <1>1, <1>2, <1>3, <1>4, <1>5, <1>6, <1>7, <1>8, <1>9, <1>10, <1>11, <1>12, <1>13
  DEF Next, Agent, Apply

-----------------------------------------------------------------------------
(* The files of the service at hand *)

LEMMA RenderedStep ==
  ASSUME TypeOK, Rendered, [Next]_vars
  PROVE  Rendered'
<1> USE DEF Rendered, Midway, Managed, manager, host, apply, budget
<1>0. svc \in Services /\ config \in Configs
  BY DEF TypeOK
<1>1. CASE Start \/ CheckIn \/ CheckInFails
  BY <1>0, <1>1 DEF Start, CheckIn, CheckInFails
<1>2. CASE Compare
  BY <1>0, <1>2, OrderIsWhole DEF Compare, Conclude
<1>3. CASE Stage
  <2>1. todo' \in Suffixes(svc) /\ (pc' = "stage" => todo' # <<>>) /\ pc' \in {"stage", "test"}
    BY <1>0, <1>3, LeftOfSuffix DEF Stage, WriteFile
  <2> QED BY <1>3, <2>1 DEF Stage, WriteFile
<1>4. CASE Test
  BY <1>0, <1>4, OrderIsWhole DEF Test
<1>5. CASE Undo
  <2>1. CASE todo # <<>>
    <3>1. todo \in Suffixes(svc) /\ WriteFile(prev, "undo") /\ UNCHANGED <<state, svc, got>>
      BY <1>5, <2>1 DEF Undo
    <3>2. Tail(todo) \in Suffixes(svc)
      BY <1>0, <2>1, <3>1, LeftOfSuffix
    <3>3. todo' \in Suffixes(svc) /\ pc' = "undo" /\ UNCHANGED <<prev, changed>>
      BY <1>5, <3>1, <3>2 DEF Undo, WriteFile
    <3> QED BY <1>5, <3>1, <3>3 DEF Undo
  <2>2. CASE todo = <<>>
    BY <1>5, <2>2 DEF Undo, Conclude
  <2> QED BY <2>1, <2>2
<1>6. CASE Reload
  BY <1>0, <1>6, OrderIsWhole DEF Reload, Conclude
<1>7. CASE Rollback
  <2>1. todo' \in Suffixes(svc) /\ (pc' = "rollback" => todo' # <<>>) /\ pc' \in {"rollback", "again"}
    BY <1>0, <1>7, LeftOfSuffix DEF Rollback, WriteFile
  <2> QED BY <1>7, <2>1 DEF Rollback, WriteFile
<1>8. CASE ReloadAgain
  BY <1>8 DEF ReloadAgain, Conclude
<1>9. CASE Save \/ Write \/ ConfigChanges \/ Dies
  BY <1>9 DEF Save, Write, ConfigChanges, Dies
<1>10. CASE UNCHANGED vars
  BY <1>10 DEF vars
<1> QED
  BY <1>1, <1>2, <1>3, <1>4, <1>5, <1>6, <1>7, <1>8, <1>9, <1>10 DEF Next, Agent, Apply

\* One file more is what `contents` says, and no other file of any service has changed.
LEMMA WriteFileWrites ==
  ASSUME TypeOK, todo \in Suffixes(svc), todo # <<>>, NEW contents, NEW next, WriteFile(contents, next)
  PROVE  /\ Head(todo) \in Files(svc) /\ Left(todo') = Left(todo) \ {Head(todo)}
         /\ \A f \in AllFiles : disk'[f] = IF f = Head(todo) THEN contents[f] ELSE disk[f]
         /\ pc' = IF todo' = <<>> THEN next ELSE pc
         /\ todo' = <<>> => Left(todo') = {}
<1>1. svc \in Services /\ disk \in [AllFiles -> OnDisk]
  BY DEF TypeOK
<1>2. Head(todo) \in Files(svc) /\ Left(Tail(todo)) = Left(todo) \ {Head(todo)}
      /\ Tail(todo) \in Suffixes(svc)
  BY <1>1, LeftOfSuffix
<1>3. Tail(todo) = <<>> => Left(Tail(todo)) = {}
  BY <1>1, <1>2, LeftOfSuffix
<1> QED BY <1>1, <1>2, <1>3 DEF WriteFile

LEMMA BetweenStep ==
  ASSUME TypeOK, Rendered, Between, [Next]_vars
  PROVE  Between'
<1> USE DEF Between, manager, host, apply, budget
<1>0. svc \in Services /\ \A f \in Files(svc) : f \in AllFiles
  BY FilesOf DEF TypeOK, Services
<1>1. CASE Start \/ CheckIn \/ CheckInFails
  BY <1>1 DEF Start, CheckIn, CheckInFails
<1>2. CASE Compare
  BY <1>0, <1>2, OrderIsWhole DEF Compare, Conclude
<1>3. CASE Stage
  <2>1. todo \in Suffixes(svc) /\ todo # <<>> /\ WriteFile(got, "test") /\ UNCHANGED <<svc, got>>
        /\ \A f \in Files(svc) : disk[f] = IF f \in Left(todo) THEN prev[f] ELSE got[f]
    BY <1>3 DEF Stage, Rendered
  <2>2. /\ Left(todo') = Left(todo) \ {Head(todo)}
        /\ \A f \in AllFiles : disk'[f] = IF f = Head(todo) THEN got[f] ELSE disk[f]
        /\ pc' = IF todo' = <<>> THEN "test" ELSE pc
        /\ todo' = <<>> => Left(todo') = {}
    BY <2>1, WriteFileWrites
  <2>3. prev' = prev /\ (pc' = "stage" \/ (pc' = "test" /\ Left(todo') = {}))
    BY <1>3, <2>1, <2>2 DEF Stage, WriteFile
  <2>4. \A f \in Files(svc) : disk'[f] = IF f \in Left(todo') THEN prev[f] ELSE got[f]
    BY <1>0, <2>1, <2>2
  <2> QED BY <2>1, <2>3, <2>4
<1>4. CASE Test
  BY <1>0, <1>4, OrderIsWhole DEF Test
<1>5. CASE Undo
  <2>1. CASE todo # <<>>
    <3>1. todo \in Suffixes(svc) /\ WriteFile(prev, "undo") /\ UNCHANGED <<svc, got>>
          /\ \A f \in Files(svc) : disk[f] = IF f \in Left(todo) THEN got[f] ELSE prev[f]
      BY <1>5, <2>1 DEF Undo, Rendered
    <3>2. /\ Left(todo') = Left(todo) \ {Head(todo)}
          /\ \A f \in AllFiles : disk'[f] = IF f = Head(todo) THEN prev[f] ELSE disk[f]
          /\ pc' = IF todo' = <<>> THEN "undo" ELSE pc
      BY <2>1, <3>1, WriteFileWrites
    <3>3. prev' = prev /\ pc' = "undo"
      BY <1>5, <3>1, <3>2 DEF Undo, WriteFile
    <3>4. \A f \in Files(svc) : disk'[f] = IF f \in Left(todo') THEN got[f] ELSE prev[f]
      BY <1>0, <3>1, <3>2
    <3> QED BY <3>1, <3>3, <3>4
  <2>2. CASE todo = <<>>
    BY <1>5, <2>2 DEF Undo, Conclude
  <2> QED BY <2>1, <2>2
<1>6. CASE Reload
  BY <1>0, <1>6, OrderIsWhole DEF Reload, Conclude
<1>7. CASE Rollback
  <2>1. todo \in Suffixes(svc) /\ todo # <<>> /\ WriteFile(prev, "again") /\ UNCHANGED <<svc, got>>
        /\ \A f \in Files(svc) : disk[f] = IF f \in Left(todo) THEN got[f] ELSE prev[f]
    BY <1>7 DEF Rollback, Rendered
  <2>2. /\ Left(todo') = Left(todo) \ {Head(todo)}
        /\ \A f \in AllFiles : disk'[f] = IF f = Head(todo) THEN prev[f] ELSE disk[f]
        /\ pc' = IF todo' = <<>> THEN "again" ELSE pc
        /\ todo' = <<>> => Left(todo') = {}
    BY <2>1, WriteFileWrites
  <2>3. prev' = prev /\ (pc' = "rollback" \/ (pc' = "again" /\ Left(todo') = {}))
    BY <1>7, <2>1, <2>2 DEF Rollback, WriteFile
  <2>4. \A f \in Files(svc) : disk'[f] = IF f \in Left(todo') THEN got[f] ELSE prev[f]
    BY <1>0, <2>1, <2>2
  <2> QED BY <2>1, <2>3, <2>4
<1>8. CASE ReloadAgain
  BY <1>8 DEF ReloadAgain, Conclude
<1>9. CASE Save \/ Write \/ ConfigChanges \/ Dies
  BY <1>9 DEF Save, Write, ConfigChanges, Dies
<1>10. CASE UNCHANGED vars
  BY <1>10 DEF vars
<1> QED
  BY <1>1, <1>2, <1>3, <1>4, <1>5, <1>6, <1>7, <1>8, <1>9, <1>10 DEF Next, Agent, Apply

-----------------------------------------------------------------------------
(* What is tested, and what stops *)

\* The two services share no file.
LEMMA FilesApart ==
  ASSUME NEW s \in Services
  PROVE  /\ Tested(s) \in Files(s)
         /\ \A t \in Services \ {s} : \A f \in Files(t) : f \notin Files(s) /\ f \in AllFiles
BY FilesOf DEF Services

\* A step of applyService that writes one file of the service at hand.
Writes == WriteFile(got, "test") \/ WriteFile(prev, "undo") \/ WriteFile(prev, "again")

LEMMA OthersKept ==
  ASSUME TypeOK, todo \in Suffixes(svc), todo # <<>>, Writes
  PROVE  \A s \in Services \ {svc} : \A f \in Files(s) : disk'[f] = disk[f]
<1>1. Head(todo) \in Files(svc) /\ svc \in Services
  BY LeftOfSuffix DEF TypeOK
<1>2. \A f \in AllFiles \ {Head(todo)} : disk'[f] = disk[f]
  BY DEF Writes, WriteFile, TypeOK
<1> QED BY <1>1, <1>2, FilesApart

\* Each step that writes: the service stays the one at hand.
LEMMA WritingSteps ==
  ASSUME TypeOK, Rendered, Stage \/ (Undo /\ todo # <<>>) \/ Rollback
  PROVE  /\ Midway /\ Midway' /\ UNCHANGED <<svc, prev, changed, got, state, file, loaded, alive, budget>>
         /\ pc' # "reload"
         /\ pc' \in {"rollback", "again"} <=> pc \in {"rollback", "again"}
         /\ \A s \in Services \ {svc} : \A f \in Files(s) : disk'[f] = disk[f]
<1>1. todo \in Suffixes(svc) /\ todo # <<>> /\ Writes
  BY DEF Stage, Undo, Rollback, Rendered, Writes
<1>2. \A s \in Services \ {svc} : \A f \in Files(s) : disk'[f] = disk[f]
  BY <1>1, OthersKept
<1>3. CASE Stage
  <2>1. pc = "stage" /\ pc' \in {"stage", "test"}
        /\ UNCHANGED <<svc, prev, changed, got, state, file, loaded, alive, budget>>
    BY <1>3 DEF Stage, WriteFile
  <2> QED BY <1>2, <2>1 DEF Midway
<1>4. CASE Undo /\ todo # <<>>
  <2>1. pc = "undo" /\ pc' = "undo"
        /\ UNCHANGED <<svc, prev, changed, got, state, file, loaded, alive, budget>>
    BY <1>4 DEF Undo, WriteFile
  <2> QED BY <1>2, <2>1 DEF Midway
<1>5. CASE Rollback
  <2>1. pc = "rollback" /\ pc' \in {"rollback", "again"}
        /\ UNCHANGED <<svc, prev, changed, got, state, file, loaded, alive, budget>>
    BY <1>5 DEF Rollback, WriteFile
  <2> QED BY <1>2, <2>1 DEF Midway
<1> QED BY <1>3, <1>4, <1>5

\* When the files are rolled back they are the former ones.
LEMMA RolledBack ==
  ASSUME TypeOK, Between, (pc = "undo" /\ todo = <<>>) \/ pc = "again", NEW f \in Files(svc)
  PROVE  disk[f] = prev[f]
BY DEF Between, Left

LEMMA AcceptedStep ==
  ASSUME TypeOK, Rendered, Between, Accepted, [Next]_vars
  PROVE  Accepted'
<1> USE DEF Accepted, Handled, manager, host, apply, budget
<1>0. svc \in Services /\ \A s \in Services : Tested(s) \in Files(s) /\ Tested(s)' = Tested(s)
  BY FilesApart DEF TypeOK, Tested
<1>1. CASE Start \/ CheckIn \/ CheckInFails
  BY <1>1 DEF Start, CheckIn, CheckInFails, Midway, Fault, NoFault
<1>2. CASE Compare
  BY <1>2 DEF Compare, Conclude, Midway, NoFault
<1>3. CASE Stage \/ (Undo /\ todo # <<>>) \/ Rollback
  BY <1>0, <1>3, WritingSteps
<1>4. CASE Test
  BY <1>0, <1>4 DEF Test, Midway, Fault, NoFault
<1>5. CASE Undo /\ todo = <<>>
  <2>1. disk[Tested(svc)] = prev[Tested(svc)]
    BY <1>0, <1>5, RolledBack DEF Undo
  <2> QED BY <1>0, <1>5, <2>1 DEF Undo, Conclude, Midway
<1>6. CASE Reload
  BY <1>0, <1>6 DEF Reload, Conclude, Midway, Fault, NoFault
<1>7. CASE ReloadAgain
  <2>1. disk[Tested(svc)] = prev[Tested(svc)]
    BY <1>0, <1>7, RolledBack DEF ReloadAgain
  <2> QED BY <1>0, <1>7, <2>1 DEF ReloadAgain, Conclude, Midway, Fault, NoFault
<1>8. CASE Save \/ Write \/ ConfigChanges
  BY <1>8 DEF Save, Write, ConfigChanges, Midway
<1>9. CASE Dies
  BY <1>9 DEF Dies, TypeOK
<1>10. CASE UNCHANGED vars
  BY <1>10 DEF vars, Midway
<1> QED
  BY <1>1, <1>2, <1>3, <1>4, <1>5, <1>6, <1>7, <1>8, <1>9, <1>10 DEF Next, Agent, Apply

LEMMA TwoMishaps ==
  /\ \A m, n \in Nat : m > 0 /\ n > 0 => m + n > 1
  /\ \A m, n, k \in Nat : k >= m /\ m + n > 1 => k + n > 1
OBVIOUS

LEMMA StoppedStep ==
  ASSUME TypeOK, Rendered, Between, Accepted, Stopped, [Next]_vars
  PROVE  Stopped'
<1> USE DEF Stopped, manager, host, apply, budget
<1>0. /\ svc \in Services /\ faults \in Nat /\ crashes \in Nat
      /\ alive \in [Services -> BOOLEAN]
      /\ Tested(svc) \in Files(svc)
  BY FilesApart DEF TypeOK
<1>1. CASE Start \/ CheckIn \/ CheckInFails \/ Compare \/ Save \/ Write \/ ConfigChanges
  BY <1>0, <1>1 DEF Start, CheckIn, CheckInFails, Compare, Conclude, Save, Write, ConfigChanges, Fault
<1>2. CASE Stage \/ (Undo /\ todo # <<>>) \/ Rollback
  BY <1>0, <1>2, WritingSteps
<1>3. CASE Test
  BY <1>0, <1>3 DEF Test, Fault, NoFault
<1>4. CASE Undo /\ todo = <<>>
  BY <1>0, <1>4 DEF Undo, Conclude
<1>5. CASE Reload
  <2>1. pc = "reload" /\ (Restarts => CanReload)
    BY <1>5 DEF Reload, Accepted, CanReload
  <2>2. CASE CanReload /\ Reloaded /\ NoFault /\ Conclude("success")
    BY <1>0, <2>1, <2>2 DEF Reloaded, NoFault, Conclude
  <2>3. CASE /\ NotReloaded /\ pc' = "rollback" /\ UNCHANGED <<svc, changed>>
             /\ IF CanReload THEN Fault ELSE NoFault
    <3>1. faults' > 0
      <4>1. CASE CanReload
        BY <1>0, <2>3, <4>1 DEF Fault
      <4>2. CASE ~CanReload
        BY <1>0, <2>1, <2>3, <4>2 DEF NoFault, CanReload
      <4> QED BY <4>1, <4>2
    <3>2. faults' \in Nat /\ faults' >= faults /\ crashes' = crashes
      BY <1>0, <2>3 DEF Fault, NoFault
    <3>3. ASSUME NEW s \in Services, ~alive'[s]
          PROVE  s = "dnsmasq" /\ (faults' + crashes' > 1 \/ (svc = s /\ "dnsmasq.conf" \in changed))
      <4>1. CASE ~alive[s]
        BY <1>0, <2>1, <3>2, <4>1
      <4>2. CASE alive[s]
        BY <1>0, <2>3, <3>3, <4>2 DEF NotReloaded, Reloaded, Restarts
      <4> QED BY <4>1, <4>2
    <3> QED BY <2>3, <3>1, <3>3
  <2> QED BY <1>5, <2>2, <2>3 DEF Reload
<1>6. CASE ReloadAgain
  <2>1. pc = "again" /\ faults > 0 /\ pc' \in {"compare", "save"}
    BY <1>6 DEF ReloadAgain, Conclude
  <2>2. CASE CanReload /\ Reloaded /\ NoFault
    BY <1>0, <2>1, <2>2 DEF Reloaded, NoFault
  <2>3. CASE NotReloaded /\ IF CanReload THEN Fault ELSE NoFault
    <3>1. ASSUME NEW s \in Services, ~alive'[s], alive[s]
          PROVE  s = "dnsmasq" /\ svc = s /\ Restarts
      BY <1>0, <2>3, <3>1 DEF NotReloaded, Reloaded
    <3>2. faults' \in Nat /\ faults' > 0 /\ faults' >= faults /\ crashes' = crashes
      BY <1>0, <2>1, <2>3 DEF Fault, NoFault
    <3>3. faults' + crashes' > 1 \/ \A s \in Services : alive'[s]
      <4>1. CASE CanReload
        BY <1>0, <2>1, <2>3, <4>1 DEF Fault
      <4>2. CASE ~CanReload /\ Restarts
        <5>1. prev[Tested(svc)] \in Rejected
          BY <1>0, <2>1, <4>2, RolledBack DEF CanReload
        <5>2. crashes # 0
          BY <1>0, <2>1, <5>1 DEF Accepted, Handled, Midway
        <5>3. crashes' > 0 /\ crashes' \in Nat
          BY <1>0, <3>2, <5>2
        <5> QED BY <3>2, <5>3, TwoMishaps
      <4>3. CASE ~CanReload /\ ~Restarts
        <5>1. ~alive[svc] /\ "dnsmasq.conf" \notin changed
          BY <4>3 DEF CanReload, Restarts
        <5>2. faults + crashes > 1
          BY <1>0, <5>1
        <5> QED BY <1>0, <3>2, <5>2, TwoMishaps
      <4> QED BY <4>1, <4>2, <4>3
    <3>4. \A s \in Services : ~alive'[s] => s = "dnsmasq"
      BY <1>0, <3>1
    <3> QED BY <1>0, <2>1, <3>2, <3>3, <3>4
  <2> QED BY <1>6, <2>2, <2>3 DEF ReloadAgain
<1>7. CASE Dies
  BY <1>0, <1>7 DEF Dies
<1>8. CASE UNCHANGED vars
  BY <1>8 DEF vars
<1> QED
  BY <1>1, <1>2, <1>3, <1>4, <1>5, <1>6, <1>7, <1>8 DEF Next, Agent, Apply

-----------------------------------------------------------------------------
(* What is served and recorded, while no more than one thing goes wrong *)

\* A change that is not a restart leaves dnsmasq's main file alone.
LEMMA NotRestarted ==
  ASSUME TypeOK, Rendered, Midway, NEW f \in Files(svc), f \notin Read
  PROVE  ~Restarts /\ prev[f] = got[f]
<1>1. svc \in Services
  BY DEF TypeOK
<1>2. ~Restarts
  BY DEF Read
<1>3. svc = "dnsmasq" /\ f = "dnsmasq.conf" /\ "dnsmasq.conf" \notin changed
  BY <1>1, <1>2, FilesOf DEF Read, Restarts, Services
<1> QED BY <1>2, <1>3 DEF Rendered

LEMMA ServedStep ==
  ASSUME TypeOK, Rendered, Between, Accepted, Stopped, Served, Calm', [Next]_vars
  PROVE  Served'
<1> USE DEF Served, Handled, Restarts, Read, manager, host, apply, budget
<1>0. /\ svc \in Services /\ faults \in Nat /\ crashes \in Nat
      /\ alive \in [Services -> BOOLEAN] /\ loaded \in [AllFiles -> OnDisk]
      /\ Tested(svc) \in Files(svc)
      /\ \A s \in Services : Files(s)' = Files(s) /\ \A f \in Files(s) : f \in AllFiles
      /\ \A s \in Services \ {svc} : \A f \in Files(s) : f \notin Files(svc)
  BY FilesOf, FilesApart DEF TypeOK, Services, Files, Order
<1>1. CASE Start \/ CheckIn \/ CheckInFails \/ Save \/ Write \/ ConfigChanges
  BY <1>0, <1>1 DEF Start, CheckIn, CheckInFails, Save, Write, ConfigChanges, Midway
<1>2. CASE Compare
  BY <1>0, <1>2 DEF Compare, Conclude, Midway
<1>3. CASE Stage \/ (Undo /\ todo # <<>>) \/ Rollback
  BY <1>0, <1>3, WritingSteps
<1>4. CASE Test
  BY <1>0, <1>4 DEF Test, Midway
<1>5. CASE Undo /\ todo = <<>>
  <2>1. \A f \in Files(svc) : disk[f] = prev[f]
    BY <1>5, RolledBack DEF Undo
  <2> QED BY <1>0, <1>5, <2>1 DEF Undo, Conclude, Midway
<1>6. CASE Reload
  <2>1. CASE CanReload /\ Reloaded /\ Conclude("success")
    <3>1. \A f \in Files(svc) : disk[f] = got[f]
      BY <1>6 DEF Between, Reload
    <3>2. \A f \in Files(svc) : loaded'[f] = disk[f]
      BY <1>0, <1>6, <2>1, <3>1, NotRestarted DEF Reload, Reloaded, ReadAgain, Midway
    <3> QED BY SMTT(20), <1>0, <1>6, <2>1, <3>2 DEF Reload, Reloaded, ReadAgain, Conclude, Midway
  <2>2. CASE NotReloaded /\ pc' = "rollback" /\ UNCHANGED <<state, svc>>
    BY <1>0, <1>6, <2>2 DEF Reload, NotReloaded, Reloaded, ReadAgain, Midway
  <2> QED BY <1>6, <2>1, <2>2 DEF Reload
<1>7. CASE ReloadAgain
  <2>1. pc = "again" /\ faults > 0 /\ \A f \in Files(svc) : disk[f] = prev[f]
    BY <1>7, RolledBack DEF ReloadAgain, Stopped
  <2>2. ~(NotReloaded /\ IF CanReload THEN Fault ELSE NoFault)
    <3>1. CASE CanReload
      BY <1>0, <2>1, <3>1 DEF Fault, Calm
    <3>2. CASE ~CanReload
      <4>1. CASE Restarts
        BY <1>0, <2>1, <3>2, <4>1 DEF CanReload, Accepted, Midway, Calm, NoFault
      <4>2. CASE ~Restarts
        BY <1>0, <2>1, <3>2, <4>2 DEF CanReload, Midway
      <4> QED BY <4>1, <4>2
    <3> QED BY <3>1, <3>2
  <2>3. CanReload /\ Reloaded /\ Conclude("failure") /\ UNCHANGED <<disk, prev, changed>>
    BY <1>7, <2>2 DEF ReloadAgain
  <2>4. \A f \in Files(svc) : loaded'[f] = disk[f]
    BY <1>0, <2>1, <2>3 DEF Reloaded, ReadAgain, Midway
  <2> QED BY <1>0, <2>1, <2>3, <2>4 DEF Reloaded, ReadAgain, Conclude, Midway
<1>8. CASE Dies
  BY <1>0, <1>8 DEF Dies, Calm
<1>9. CASE UNCHANGED vars
  BY <1>0, <1>9 DEF vars, Midway
<1> QED
  BY <1>1, <1>2, <1>3, <1>4, <1>5, <1>6, <1>7, <1>8, <1>9 DEF Next, Agent, Apply

LEMMA ConcludeRecords ==
  ASSUME TypeOK, NEW result \in Results, Conclude(result)
  PROVE  /\ state'.etag = state.etag /\ state'.lastApply[svc] = result
         /\ \A s \in Services \ {svc} : state'.lastApply[s] = state.lastApply[s]
         /\ svc = "nginx" => svc' = "dnsmasq" /\ pc' = "compare"
         /\ svc # "nginx" => svc' = svc /\ pc' = "save"
BY DEF TypeOK, Conclude, States

\* The result of a service is recorded with what is then on disk.
LEMMA ConcludeTold ==
  ASSUME TypeOK, Recorded, NEW result \in Results, Conclude(result),
         pc = "compare" \/ Midway, UNCHANGED <<disk, got>>,
         Managed(svc, got) /\ result = "success" => \A f \in Files(svc) : disk[f] = got[f]
  PROVE  Recorded'
<1>1. /\ state'.lastApply[svc] = result
      /\ \A s \in Services \ {svc} : state'.lastApply[s] = state.lastApply[s]
      /\ svc = "nginx" => svc' = "dnsmasq" /\ pc' = "compare"
      /\ svc # "nginx" => svc' = svc /\ pc' = "save"
      /\ svc \in Services
  BY ConcludeRecords DEF TypeOK
<1>2. \A s \in Services : \A f \in Files(s)' : f \in Files(s)
  BY DEF Files, Order
<1>3. CASE svc = "nginx"
  <2>1. Told("nginx", got)'
    BY <1>1, <1>2, <1>3 DEF Told, Managed, Tested, Order, Services
  <2> QED BY <1>1, <1>3, <2>1 DEF Recorded, Midway
<1>4. CASE svc = "dnsmasq"
  <2>1. Told("nginx", got)'
    BY <1>1, <1>2, <1>4 DEF Recorded, Told, Managed, Tested, Order, Services
  <2>2. Told("dnsmasq", got)'
    BY <1>1, <1>2, <1>4 DEF Told, Managed, Tested, Order, Services
  <2> QED BY <1>1, <1>4, <2>1, <2>2 DEF Recorded, Midway, Services
<1> QED BY <1>1, <1>3, <1>4 DEF Services

LEMMA RecordedStep ==
  ASSUME TypeOK, Rendered, Between, Recorded, [Next]_vars, ~Dies
  PROVE  Recorded'
<1> USE DEF Recorded, manager, host, apply, budget
<1>0. svc \in Services /\ \A s \in Services : Files(s)' = Files(s)
  BY DEF TypeOK, Files, Order
<1>1. CASE Start
  BY <1>0, <1>1 DEF Start, TypeOK, Midway, Told, Managed, Tested, Order
<1>2. CASE CheckIn \/ CheckInFails \/ ConfigChanges
  BY <1>0, <1>2 DEF CheckIn, CheckInFails, ConfigChanges, Midway, Told, Managed, Tested, Order
<1>3. CASE Compare
  <2>1. CASE Conclude("success")
    <3>1. Managed(svc, got) => \A f \in Files(svc) : disk[f] = got[f]
      BY <1>3, <2>1 DEF Compare, Conclude
    <3>2. pc = "compare" /\ UNCHANGED <<disk, got>>
      BY <1>3 DEF Compare
    <3> QED BY <2>1, <3>1, <3>2, ConcludeTold DEF Results
  <2>2. CASE pc' = "stage" /\ UNCHANGED <<state, svc>>
    BY <1>0, <1>3, <2>2 DEF Compare, Midway, Told, Managed, Tested, Order
  <2> QED BY <1>3, <2>1, <2>2 DEF Compare
<1>4. CASE Stage \/ (Undo /\ todo # <<>>) \/ Rollback
  <2>1. /\ Midway /\ Midway' /\ UNCHANGED <<svc, got, state>>
        /\ \A s \in Services \ {svc} : \A f \in Files(s) : disk'[f] = disk[f]
    BY <1>4, WritingSteps
  <2>2. svc = "dnsmasq" => Told("nginx", got)'
    BY <1>0, <2>1 DEF Told, Managed, Tested, Order, Services
  <2> QED BY <2>1, <2>2 DEF Midway
<1>5. CASE Test
  BY <1>0, <1>5 DEF Test, Midway, Told, Managed, Tested, Order
<1>6. CASE Undo /\ todo = <<>>
  <2>1. Conclude("failure") /\ pc = "undo" /\ UNCHANGED <<disk, got>>
    BY <1>6 DEF Undo
  <2> QED BY <2>1, ConcludeTold DEF Results, Midway
<1>7. CASE Reload
  <2>1. CASE Conclude("success")
    <3>1. \A f \in Files(svc) : disk[f] = got[f]
      BY <1>7 DEF Reload, Between
    <3>2. pc = "reload" /\ UNCHANGED <<disk, got>>
      BY <1>7 DEF Reload
    <3> QED BY <2>1, <3>1, <3>2, ConcludeTold DEF Results, Midway
  <2>2. CASE pc' = "rollback" /\ UNCHANGED <<state, svc>>
    BY <1>0, <1>7, <2>2 DEF Reload, Midway, Told, Managed, Tested, Order
  <2> QED BY <1>7, <2>1, <2>2 DEF Reload
<1>8. CASE ReloadAgain
  <2>1. Conclude("failure") /\ pc = "again" /\ UNCHANGED <<disk, got>>
    BY <1>8 DEF ReloadAgain
  <2> QED BY <2>1, ConcludeTold DEF Results, Midway
<1>9. CASE Save
  <2>1. /\ pc = "save" /\ pc' = "write" /\ got # None
        /\ state'.etag = got /\ state'.lastApply = state.lastApply
        /\ UNCHANGED <<disk, got>>
    BY <1>9 DEF Save, Rendered, TypeOK, States
  <2> QED BY <1>0, <2>1 DEF Midway, Told, Managed, Tested, Order
<1>10. CASE Write
  BY <1>0, <1>10 DEF Write, Midway, Told, Managed, Tested, Order
<1>11. CASE UNCHANGED vars
  BY <1>0, <1>11 DEF vars, Midway, Told, Managed, Tested, Order
<1> QED
  BY <1>1, <1>2, <1>3, <1>4, <1>5, <1>6, <1>7, <1>8, <1>9, <1>10, <1>11 DEF Next, Agent, Apply

-----------------------------------------------------------------------------
(* The theorems *)

LEMMA InvariantInit == Init => IInv
<1> SUFFICES ASSUME Init
             PROVE  IInv
  OBVIOUS
<1>1. TypeOK
  BY TypeInit
<1>2. ~Midway /\ pc = "off" /\ disk = [f \in AllFiles |-> Shipped] /\ loaded = disk /\ prev = disk
      /\ alive = [s \in Services |-> TRUE] /\ file = state /\ state.etag = None
  BY DEF Init, Midway, Blank
<1>3. Rendered /\ Between
  BY <1>2 DEF Rendered, Between
<1>4. Shipped \notin Rejected /\ \A s \in Services : Files(s) \subseteq AllFiles /\ Tested(s) \in AllFiles
  BY FilesOf DEF Services
<1>5. Accepted /\ Stopped /\ Served /\ Recorded
  BY <1>2, <1>4 DEF Accepted, Stopped, Served, Recorded, Handled, Midway
<1> QED BY <1>1, <1>3, <1>5 DEF IInv

LEMMA InvariantStep == IInv /\ [Next]_vars => IInv'
<1> SUFFICES ASSUME IInv, [Next]_vars
             PROVE  IInv'
  OBVIOUS
<1>1. TypeOK' /\ Rendered' /\ Between' /\ Accepted' /\ Stopped'
  BY TypeStep, RenderedStep, BetweenStep, AcceptedStep, StoppedStep DEF IInv
<1>2. ASSUME Calm'
      PROVE  Calm /\ ~Dies
  BY <1>2 DEF IInv, TypeOK, Calm, Next, Agent, Apply, Start, CheckIn, CheckInFails, Compare, Stage,
              Test, Undo, Reload, Rollback, ReloadAgain, Save, Write, ConfigChanges, Dies,
              Fault, NoFault, budget, vars
<1>3. Calm' => Served' /\ Recorded'
  BY <1>2, ServedStep, RecordedStep DEF IInv
<1> QED BY <1>1, <1>3 DEF IInv

\* What the agent, its files and the services look like at each of its steps: what is
\* staged is between the former and the new files, what is reloaded was tested, and,
\* while at most one thing has gone wrong and the agent has not died, what runs and
\* what is recorded agree with what is on disk.
THEOREM InvariantHolds == Spec => []IInv
<1>1. Init => IInv
  BY InvariantInit
<1>2. IInv /\ [Next]_vars => IInv'
  BY InvariantStep
<1> QED BY <1>1, <1>2, PTL DEF Spec

\* Every variable of the agent and of the host keeps its type: state.json is a whole
\* State or torn, and no file ever holds the "none" of an unmanaged dnsmasq.
THEOREM TypeCorrect == Spec => []TypeOK
<1>1. IInv => TypeOK
  BY DEF IInv
<1> QED BY <1>1, InvariantHolds, PTL

\* "the service keeps running the last known-good config": after at most one failure,
\* both services run with the files on disk, and these pass their test; and for every set
\* of configurations, whatever came between, a "success" for the configuration whose ETag
\* the agent sends is true: these files are that configuration's.
THEOREM LastKnownGoodKept == Spec => []LastKnownGood
<1>1. ASSUME IInv, AtRest, crashes = 0, faults < 2, NEW s \in Services
      PROVE  alive[s] /\ (\A f \in Files(s) : disk[f] = loaded[f]) /\ disk[Tested(s)] \notin Rejected
  <2>1. pc = "off" /\ Served /\ Accepted
    BY <1>1 DEF IInv, Calm, AtRest
  <2> QED BY <1>1, <2>1 DEF Served, Accepted, Handled, Midway
<1>2. ASSUME IInv, AtRest, crashes = 0, faults < 2, file.etag # None, NEW s \in Services,
             Managed(s, file.etag), file.lastApply[s] = "success"
      PROVE  \A f \in Files(s) : disk[f] = file.etag[f]
  <2>1. pc = "off" /\ Recorded /\ file = state
    BY <1>2 DEF IInv, Calm, AtRest, Recorded
  <2>2. Told(s, file.etag)
    BY <1>2, <2>1 DEF Recorded
  <2> QED BY <1>2, <2>1, <2>2 DEF Told
<1>3. IInv => LastKnownGood
  BY <1>1, <1>2 DEF LastKnownGood
<1> QED BY <1>3, InvariantHolds, PTL

\* However long the agent runs and whatever it is served, it takes two mishaps, of which
\* one a reload that fails by accident, to leave a service stopped.
THEOREM DownTakesTwo == Spec => []DownNeedsTwoMishaps
<1>1. IInv => DownNeedsTwoMishaps
  BY DEF IInv, Stopped, DownNeedsTwoMishaps
<1> QED BY <1>1, InvariantHolds, PTL

-----------------------------------------------------------------------------
(* The agent implements KnownGood                                           *)

\* What the mapping keeps when a step leaves its ingredients alone.
LEMMA MappingKept ==
  ASSUME TypeOK, TypeOK'
  PROVE  /\ UNCHANGED got => Offered(got)' = Offered(got)
         /\ UNCHANGED config => Offered(config)' = Offered(config)
         /\ UNCHANGED loaded => Serving' = Serving
         /\ pc \notin {"rollback", "again"} /\ pc' \notin {"rollback", "again"} => UNCHANGED GoingBack
<1> USE DEF Part, Files, Order, Services
<1>1. /\ UNCHANGED got => Offered(got)' = Offered(got)
      /\ UNCHANGED config => Offered(config)' = Offered(config)
  BY DEF Offered, Managed, Tested
<1>2. UNCHANGED loaded => Serving' = Serving
  BY DEF Serving
<1> QED BY <1>1, <1>2 DEF GoingBack

\* A step under which the agent handles the same files, or none before and after it,
\* leaves the mapped state as it is.
LEMMA NothingShown ==
  ASSUME TypeOK, TypeOK', Steady, Steady', UNCHANGED <<config, got, loaded, alive, state, prev, svc>>,
         Midway' <=> Midway, pc' \in {"rollback", "again"} <=> pc \in {"rollback", "again"}
  PROVE  UNCHANGED Good!vars
<1>1. Offered(got)' = Offered(got) /\ Offered(config)' = Offered(config) /\ Serving' = Serving
  BY MappingKept
<1>2. UNCHANGED GoingBack
  BY DEF GoingBack
<1>3. UNCHANGED LastGood
  BY DEF LastGood, InHand, Midway, Part, Files, Order, Services
<1>4. UNCHANGED Steady
  OBVIOUS
<1>5. state'.lastApply = state.lastApply
  OBVIOUS
<1> HIDE DEF Steady, Serving, LastGood, GoingBack, Offered
<1> QED BY <1>1, <1>2, <1>3, <1>4, <1>5 DEF Good!vars, Good!offer, Good!service

\* What is known of a step, and of the mapped state before it, while at most one thing
\* has gone wrong after it.
LEMMA SteadyStep ==
  ASSUME IInv, [Next]_vars, Steady'
  PROVE  /\ TypeOK /\ TypeOK' /\ Steady /\ ~Dies /\ Rendered /\ Between /\ Accepted /\ Served /\ Recorded
         /\ Served' /\ svc \in Services
<1>1. Steady /\ ~Dies
  BY DEF IInv, TypeOK, Steady, Next, Agent, Apply, Start, CheckIn, CheckInFails, Compare, Stage,
         Test, Undo, Reload, Rollback, ReloadAgain, Save, Write, ConfigChanges, Dies,
         Fault, NoFault, budget, vars
<1>2. IInv' /\ Calm /\ Calm'
  BY <1>1, InvariantStep DEF Steady, Calm
<1> QED BY <1>1, <1>2 DEF IInv, TypeOK

\* The version at hand is the one fetched for the service.
LEMMA AtHand ==
  ASSUME TypeOK, Rendered, Midway
  PROVE  /\ Offered(got)[svc] = Part(svc, got) /\ Part(svc, got) \in [Files(svc) -> Contents]
         /\ Part(svc, got) # None
<1>1. got # None /\ Managed(svc, got) /\ svc \in Services
  BY DEF Rendered, TypeOK
<1>2. \A f \in Files(svc) : got[f] \in Contents
  BY <1>1, RenderedIsContent
<1> QED BY <1>1, <1>2 DEF Offered, Part

\* What has been tested is acceptable.
LEMMA TestedPasses ==
  ASSUME TypeOK, Rendered, Between, Accepted, pc = "reload"
  PROVE  Offered(got)[svc] \in Passing
<1>1. svc \in Services /\ Tested(svc) \in Files(svc)
  BY FilesApart DEF TypeOK
<1>2. Part(svc, got) \in [Files(svc) -> OnDisk] /\ Offered(got)[svc] = Part(svc, got)
  BY AtHand DEF Midway
<1>3. got[Tested(svc)] \notin Rejected
  BY <1>1 DEF Between, Accepted
<1>4. Part(svc, got)[Tested(svc)] \notin Rejected
  BY <1>1, <1>3 DEF Part
<1> QED BY <1>1, <1>2, <1>4 DEF Passing

\* The results change for the service at hand only.
LEMMA ConcludeSays ==
  ASSUME TypeOK, TypeOK', NEW result \in Results, Conclude(result), UNCHANGED <<config, got>>,
         Steady, Steady'
  PROVE  /\ Good!Say(svc, result)
         /\ pc' \in {"compare", "save"} /\ GoingBack' = None /\ ~Midway'
<1>1. state'.lastApply = [state.lastApply EXCEPT ![svc] = result]
  BY DEF Conclude, TypeOK, States
<1>2. Offered(got)' = Offered(got) /\ Offered(config)' = Offered(config)
  BY MappingKept
<1>3. UNCHANGED Steady
  OBVIOUS
<1>4. pc' \in {"compare", "save"}
  BY DEF Conclude
<1>5. GoingBack' = None /\ ~Midway'
  BY <1>4 DEF GoingBack, Midway
<1>6. Good!Say(svc, result)
  <2> HIDE DEF Steady, Offered
  <2> QED BY <1>1, <1>2, <1>3 DEF Good!Say, Good!offer
<1> QED BY <1>4, <1>5, <1>6

\* The known-good version of a service: what it runs, unless it is at hand.
LEMMA GoodOfService ==
  ASSUME NEW s \in Services
  PROVE  /\ ~Handled(s) => LastGood[s] = Part(s, loaded)
         /\ Handled(s) => LastGood[s] = Part(s, prev)
         /\ Serving[s] = Part(s, loaded)
BY DEF LastGood, Serving, InHand, Handled, Midway

LEMMA SamePart ==
  ASSUME NEW s \in Services, NEW c, NEW d, \A f \in Files(s) : c[f] = d[f]
  PROVE  Part(s, c) = Part(s, d)
BY DEF Part

LEMMA GoodAfterStep ==
  ASSUME NEW s \in Services
  PROVE  /\ ~Handled(s)' => LastGood'[s] = Part(s, loaded')
         /\ Handled(s)' => LastGood'[s] = Part(s, prev')
         /\ Serving'[s] = Part(s, loaded')
BY DEF LastGood, Serving, InHand, Handled, Midway, Part, Files, Order

\* A function on the services that changes for one of them.
LEMMA OneChanges ==
  ASSUME svc \in Services, NEW v
  PROVE  /\ (\A s \in Services : Serving'[s] = IF s = svc THEN v ELSE Serving[s]) =>
              Serving' = [Serving EXCEPT ![svc] = v]
         /\ (\A s \in Services : LastGood'[s] = IF s = svc THEN v ELSE LastGood[s]) =>
              LastGood' = [LastGood EXCEPT ![svc] = v]
         /\ (\A s \in Services : LastGood'[s] = LastGood[s]) => LastGood' = LastGood
<1>1. Serving = [s \in Services |-> Serving[s]] /\ LastGood = [s \in Services |-> LastGood[s]]
  BY DEF Serving, LastGood
<1>2. Serving' = [s \in Services |-> Serving'[s]] /\ LastGood' = [s \in Services |-> LastGood'[s]]
  BY DEF Serving, LastGood, Services
<1> HIDE DEF Serving, LastGood
<1> QED BY <1>1, <1>2

\* Nothing to do for the service at hand.
LEMMA ConfirmShown ==
  ASSUME IInv, [Next]_vars, Steady', Compare, Conclude("success")
  PROVE  Good!Confirm(svc)
<1>1. /\ TypeOK /\ TypeOK' /\ Steady /\ Rendered /\ Served /\ svc \in Services
      /\ UNCHANGED <<config, got, loaded, alive>>
  BY SteadyStep DEF Compare, manager, host
<1>2. pc = "compare" /\ ~Midway /\ GoingBack = None
  BY DEF Compare, Midway, GoingBack
<1>3. Good!Say(svc, "success") /\ GoingBack' = None /\ ~Midway'
  BY <1>1, ConcludeSays DEF Results
<1>4. Offered(got)[svc] \in {None, Serving[svc]}
  <2>1. CASE ~Managed(svc, got)
    BY <1>1, <2>1 DEF Offered
  <2>2. CASE Managed(svc, got)
    <3>1. \A f \in Files(svc) : disk[f] = got[f]
      BY <2>2 DEF Compare, Conclude
    <3>2. \A f \in Files(svc) : loaded[f] = got[f]
      BY <1>1, <1>2, <3>1 DEF Served, Handled
    <3>3. Part(svc, loaded) = Part(svc, got)
      BY <1>1, <3>2, SamePart
    <3>4. Offered(got)[svc] = Part(svc, got)
      BY <1>1, <1>2, <2>2 DEF Offered, Rendered
    <3> QED BY <1>1, <3>3, <3>4, GoodOfService
  <2> QED BY <2>1, <2>2
<1>5. Serving' = Serving
  BY <1>1, MappingKept
<1>6. LastGood' = LastGood
  <2>1. \A s \in Services : LastGood'[s] = LastGood[s]
    BY <1>1, <1>2, <1>3, GoodOfService, GoodAfterStep DEF Handled
  <2> QED BY <1>1, <2>1, OneChanges
<1> HIDE DEF Offered, Serving, LastGood, GoingBack
<1> QED BY <1>1, <1>2, <1>3, <1>4, <1>5, <1>6 DEF Good!Confirm, Good!service

\* The test has failed, and the files are the former ones again: nothing has read others.
LEMMA RefuseShown ==
  ASSUME IInv, [Next]_vars, Steady', Undo, todo = <<>>
  PROVE  Good!Refuse(svc)
<1>1. /\ TypeOK /\ TypeOK' /\ Steady /\ Rendered /\ Served /\ svc \in Services
      /\ UNCHANGED <<config, got, loaded, alive>> /\ Conclude("failure")
  BY SteadyStep DEF Undo, manager, host
<1>2. pc = "undo" /\ Midway /\ GoingBack = None
  BY DEF Undo, Midway, GoingBack
<1>3. Good!Say(svc, "failure") /\ GoingBack' = None /\ ~Midway'
  BY <1>1, ConcludeSays DEF Results
<1>4. Offered(got)[svc] # None
  BY <1>1, <1>2, AtHand
<1>5. Serving' = Serving
  BY <1>1, MappingKept
<1>6. LastGood' = LastGood
  <2>1. \A f \in Files(svc) : loaded[f] = prev[f]
    BY <1>1, <1>2 DEF Served, Handled
  <2>2. Part(svc, loaded) = Part(svc, prev)
    BY <1>1, <2>1, SamePart
  <2>3. \A s \in Services : LastGood'[s] = LastGood[s]
    BY <1>1, <1>2, <1>3, <2>2, GoodOfService, GoodAfterStep DEF Handled
  <2> QED BY <1>1, <2>3, OneChanges
<1> HIDE DEF Offered, Serving, LastGood, GoingBack
<1> QED BY <1>1, <1>2, <1>3, <1>4, <1>5, <1>6 DEF Good!Refuse, Good!service

\* What a successful read of the service at hand leaves it with.
LEMMA ReadsWhole ==
  ASSUME TypeOK, Rendered, Reloaded, NEW c, svc \in Services,
         \A f \in Files(svc) : disk[f] = c[f],
         \A f \in Files(svc) : f \in Read \/ loaded[f] = c[f]
  PROVE  /\ Serving' = [Serving EXCEPT ![svc] = Part(svc, c)]
         /\ alive' = [alive EXCEPT ![svc] = TRUE]
         /\ \A s \in Services \ {svc} : Part(s, loaded') = Part(s, loaded)
         /\ Part(svc, loaded') = Part(svc, c)
<1>0. Read \subseteq Files(svc)
  BY FilesOf DEF Read, Restarts, Services
<1>1. \A f \in Files(svc) : loaded'[f] = c[f]
  <2>1. \A f \in Files(svc) : f \in AllFiles
    BY FilesOf DEF Services
  <2> QED BY <2>1 DEF Reloaded, ReadAgain
<1>2. Part(svc, loaded') = Part(svc, c)
  BY <1>1, SamePart
<1>3. \A s \in Services \ {svc} : \A f \in Files(s) : f \in AllFiles /\ f \notin Files(svc)
  BY FilesApart
<1>4. \A s \in Services \ {svc} : \A f \in Files(s) : loaded'[f] = loaded[f]
  BY <1>0, <1>3 DEF Reloaded, ReadAgain
<1>5. \A s \in Services \ {svc} : Part(s, loaded') = Part(s, loaded)
  BY <1>4, SamePart
<1>6. \A s \in Services : Serving'[s] = IF s = svc THEN Part(svc, c) ELSE Serving[s]
  BY <1>2, <1>5, GoodOfService, GoodAfterStep
<1> QED BY <1>2, <1>5, <1>6, OneChanges DEF Reloaded

\* The service comes up with the files that were tested.
LEMMA AcceptShown ==
  ASSUME IInv, [Next]_vars, Steady', Reload, CanReload, Reloaded, Conclude("success")
  PROVE  Good!Accept(svc)
<1>1. /\ TypeOK /\ TypeOK' /\ Steady /\ Rendered /\ Between /\ Accepted /\ Served /\ svc \in Services
      /\ UNCHANGED <<config, got>>
  BY SteadyStep DEF Reload, manager
<1>2. pc = "reload" /\ Midway /\ GoingBack = None
  BY DEF Reload, Midway, GoingBack
<1>3. Good!Say(svc, "success") /\ GoingBack' = None /\ ~Midway'
  BY <1>1, ConcludeSays DEF Results
<1>4. Offered(got)[svc] \in Passing /\ Offered(got)[svc] = Part(svc, got)
  BY <1>1, <1>2, AtHand, TestedPasses
<1>5. /\ Serving' = [Serving EXCEPT ![svc] = Part(svc, got)]
      /\ alive' = [alive EXCEPT ![svc] = TRUE]
      /\ \A s \in Services \ {svc} : Part(s, loaded') = Part(s, loaded)
      /\ Part(svc, loaded') = Part(svc, got)
  <2>1. \A f \in Files(svc) : disk[f] = got[f]
    BY <1>1, <1>2 DEF Between
  <2>2. \A f \in Files(svc) : f \in Read \/ loaded[f] = got[f]
    BY <1>1, <1>2, NotRestarted DEF Served, Handled
  <2> QED BY <1>1, <2>1, <2>2, ReadsWhole
<1>6. LastGood' = [LastGood EXCEPT ![svc] = Part(svc, got)]
  <2>1. \A s \in Services : LastGood'[s] = IF s = svc THEN Part(svc, got) ELSE LastGood[s]
    BY <1>3, <1>5, GoodOfService, GoodAfterStep DEF Handled
  <2> QED BY <1>1, <2>1, OneChanges
<1> HIDE DEF Offered, Serving, LastGood, GoingBack, Passing
<1> QED BY <1>1, <1>2, <1>3, <1>4, <1>5, <1>6 DEF Good!Accept

\* It does not, or not in time.
LEMMA FailShown ==
  ASSUME IInv, [Next]_vars, Steady', Reload, NotReloaded, pc' = "rollback", UNCHANGED <<state, svc>>
  PROVE  Good!Fail(svc)
<1>1. /\ TypeOK /\ TypeOK' /\ Steady /\ Rendered /\ Between /\ Accepted /\ Served /\ svc \in Services
      /\ UNCHANGED <<config, got, prev>>
  BY SteadyStep DEF Reload, manager
<1>2. pc = "reload" /\ Midway /\ Midway' /\ GoingBack = None /\ GoingBack' = svc
  BY DEF Reload, Midway, GoingBack
<1>3. Offered(got)[svc] \in Passing /\ Offered(got)[svc] = Part(svc, got)
  BY <1>1, <1>2, AtHand, TestedPasses
<1>4. \/ UNCHANGED <<Serving, alive>>
      \/ /\ Serving' = [Serving EXCEPT ![svc] = Part(svc, got)]
         /\ alive' = [alive EXCEPT ![svc] = TRUE]
      \/ alive' = [alive EXCEPT ![svc] = FALSE] /\ UNCHANGED Serving
  <2>1. CASE UNCHANGED <<loaded, alive>>
    BY <1>1, <2>1, MappingKept
  <2>2. CASE CanReload /\ Reloaded
    <3>1. \A f \in Files(svc) : disk[f] = got[f]
      BY <1>1, <1>2 DEF Between
    <3>2. \A f \in Files(svc) : f \in Read \/ loaded[f] = got[f]
      BY <1>1, <1>2, NotRestarted DEF Served, Handled
    <3> QED BY <1>1, <2>2, <3>1, <3>2, ReadsWhole
  <2>3. CASE alive' = [alive EXCEPT ![svc] = FALSE] /\ UNCHANGED loaded
    BY <1>1, <2>3, MappingKept
  <2> QED BY <2>1, <2>2, <2>3 DEF NotReloaded
<1>5. LastGood' = LastGood
  <2>1. Handled(svc) /\ Handled(svc)' /\ \A s \in Services \ {svc} : ~Handled(s) /\ ~Handled(s)'
    BY <1>2 DEF Handled
  <2>2. \A s \in Services \ {svc} : Part(s, loaded') = Part(s, loaded)
    <3>1. Read \subseteq Files(svc)
      BY <1>1, FilesOf DEF Read, Restarts, Services
    <3>2. \A s \in Services \ {svc} : \A f \in Files(s) : f \in AllFiles /\ f \notin Files(svc)
      BY <1>1, FilesApart
    <3>3. \A s \in Services \ {svc} : \A f \in Files(s) : loaded'[f] = loaded[f]
      BY <3>1, <3>2 DEF NotReloaded, Reloaded, ReadAgain
    <3> QED BY <3>3, SamePart
  <2>3. \A s \in Services : LastGood'[s] = LastGood[s]
    BY <1>1, <2>1, <2>2, GoodOfService, GoodAfterStep
  <2> QED BY <1>1, <2>3, OneChanges
<1>6. UNCHANGED <<Offered(config), Offered(got), Steady, state.lastApply>>
  BY <1>1, MappingKept
<1> HIDE DEF Offered, Serving, LastGood, GoingBack, Passing, Steady
<1> QED BY <1>1, <1>2, <1>3, <1>4, <1>5, <1>6 DEF Good!Fail, Good!offer

\* The second reload, of the former files, is what comes next.
LEMMA GoBackShown ==
  ASSUME IInv, [Next]_vars, Steady', ReloadAgain
  PROVE  Good!GoBack(svc)
<1>1. /\ TypeOK /\ TypeOK' /\ Steady /\ Rendered /\ Between /\ Accepted /\ Stopped /\ Served
      /\ svc \in Services /\ UNCHANGED <<config, got>> /\ Conclude("failure")
  BY SteadyStep DEF ReloadAgain, manager, IInv
<1>2. pc = "again" /\ Midway /\ GoingBack = svc
  BY DEF ReloadAgain, Midway, GoingBack
<1>3. Good!Say(svc, "failure") /\ GoingBack' = None /\ ~Midway'
  BY <1>1, ConcludeSays DEF Results
<1>4. \A f \in Files(svc) : disk[f] = prev[f]
  BY <1>1, <1>2, RolledBack
<1>5. Reloaded
  <2>1. CanReload
    <3>1. CASE Restarts
      <4>1. prev[Tested(svc)] \notin Rejected
        BY <1>1, <1>2 DEF Accepted, Handled, Steady
      <4>2. Tested(svc) \in Files(svc)
        BY <1>1, FilesApart
      <4> QED BY <1>4, <3>1, <4>1, <4>2 DEF CanReload
    <3>2. CASE ~Restarts
      BY <1>1, <1>2, <3>2 DEF CanReload, Served, Handled
    <3> QED BY <3>1, <3>2
  <2>2. ~Fault
    BY <1>1, <1>2 DEF Stopped, Fault, Steady, TypeOK
  <2> QED BY <2>1, <2>2 DEF ReloadAgain
<1>6. /\ Serving' = [Serving EXCEPT ![svc] = Part(svc, prev)]
      /\ alive' = [alive EXCEPT ![svc] = TRUE]
      /\ \A s \in Services \ {svc} : Part(s, loaded') = Part(s, loaded)
      /\ Part(svc, loaded') = Part(svc, prev)
  <2>1. \A f \in Files(svc) : f \in Read \/ loaded[f] = prev[f]
    BY <1>1, <1>2 DEF Served, Handled
  <2> QED BY <1>1, <1>4, <1>5, <2>1, ReadsWhole
<1>7. LastGood[svc] = Part(svc, prev)
  BY <1>1, <1>2, GoodOfService DEF Handled
<1>8. LastGood' = LastGood
  <2>1. \A s \in Services : LastGood'[s] = LastGood[s]
    BY <1>1, <1>2, <1>3, <1>6, <1>7, GoodOfService, GoodAfterStep DEF Handled
  <2> QED BY <1>1, <2>1, OneChanges
<1> HIDE DEF Offered, Serving, LastGood, GoingBack
<1> QED BY <1>1, <1>2, <1>3, <1>6, <1>7, <1>8 DEF Good!GoBack

LEMMA GoodInit == Init => Good!Init
<1> SUFFICES ASSUME Init
             PROVE  Good!Init
  OBVIOUS
<1>1. got = None /\ pc = "off" /\ loaded = [f \in AllFiles |-> Shipped] /\ crashes = 0 /\ faults = 0
      /\ alive = [s \in Services |-> TRUE] /\ state.lastApply = [s \in Services |-> "unknown"]
  BY DEF Init, Blank
<1>2. Offered(got) = [s \in Services |-> None]
  BY <1>1 DEF Offered
<1>3. \A s \in Services : Serving[s] \in Passing
  <2>1. ASSUME NEW s \in Services
        PROVE  Serving[s] \in Passing
    <3>1. Serving[s] = [f \in Files(s) |-> Shipped] /\ Tested(s) \in Files(s)
      <4>1. \A f \in Files(s) : loaded[f] = Shipped
        BY <1>1, FilesOf DEF Services
      <4>2. Serving[s] = Part(s, loaded)
        BY GoodOfService
      <4> QED BY <4>1, <4>2, FilesApart DEF Part
    <3>2. Shipped \notin Rejected
      OBVIOUS
    <3>3. Serving[s] \in [Files(s) -> OnDisk] /\ Serving[s][Tested(s)] \notin Rejected
      BY <3>1, <3>2
    <3> QED BY <3>3 DEF Passing
  <2> QED BY <2>1
<1>4. LastGood = Serving
  BY <1>1 DEF LastGood, Serving, InHand
<1>5. GoingBack = None /\ Steady = TRUE
  BY <1>1 DEF GoingBack, Steady
<1> HIDE DEF Serving, LastGood, GoingBack, Steady, Offered, Passing
<1> QED BY <1>1, <1>2, <1>3, <1>4, <1>5 DEF Good!Init

LEMMA GoodStep ==
  ASSUME IInv, [Next]_vars
  PROVE  [Good!Next]_(Good!vars)
<1>1. CASE ~Steady'
  BY <1>1 DEF Good!Next, Good!Mishap
<1>2. CASE Steady'
  <2> USE DEF manager, host, apply, budget
  <2>0. /\ TypeOK /\ TypeOK' /\ Steady /\ Steady' /\ ~Dies /\ Rendered /\ Recorded /\ svc \in Services
    BY <1>2, SteadyStep
  <2> HIDE DEF Steady
  <2>1. CASE Start
    <3>1. state' = state
      BY <2>0, <2>1 DEF Start, Recorded, TypeOK
    <3> QED BY <2>0, <2>1, <3>1, NothingShown DEF Start, Midway
  <2>2. CASE CheckIn
    <3>1. CASE pc' = "off" /\ UNCHANGED <<pass, got, svc>>
      BY <2>0, <2>2, <3>1, NothingShown DEF CheckIn, Midway
    <3>2. CASE pc' = "compare" /\ got' = config
      <4>1. pc = "checkin" /\ UNCHANGED <<config, loaded, alive, state>>
        BY <2>2 DEF CheckIn
      <4>2. GoingBack = None /\ GoingBack' = None /\ ~Midway /\ ~Midway'
        BY <3>2, <4>1 DEF GoingBack, Midway
      <4>3. Offered(config)' = Offered(config) /\ Serving' = Serving
        BY <2>0, <4>1, MappingKept
      <4>4. Offered(got)' = Offered(config)
        BY <3>2 DEF Offered, Managed, Tested, Part, Files, Order, Services
      <4>5. LastGood' = LastGood
        <5>1. \A s \in Services : LastGood'[s] = LastGood[s]
          BY <4>1, <4>2, GoodOfService, GoodAfterStep DEF Handled
        <5> QED BY <2>0, <5>1, OneChanges
      <4> HIDE DEF Offered, Serving, LastGood, GoingBack
      <4>6. Good!Fetch
        BY <2>0, <4>1, <4>2, <4>3, <4>4, <4>5 DEF Good!Fetch, Good!service
      <4> QED BY <4>6 DEF Good!Next
    <3> QED BY <2>2, <3>1, <3>2 DEF CheckIn
  <2>3. CASE CheckInFails
    BY <2>0, <2>3, NothingShown DEF CheckInFails, Midway
  <2>4. CASE Compare
    <3>1. CASE Conclude("success")
      <4>1. Good!Confirm(svc)
        BY <1>2, <2>4, <3>1, ConfirmShown
      <4> QED BY <2>0, <4>1 DEF Good!Next, Good!Attempt
    <3>2. CASE prev' = disk /\ pc' = "stage" /\ UNCHANGED <<state, svc>>
      <4>1. pc = "compare" /\ UNCHANGED <<config, got, loaded, alive, state, svc>>
        BY <2>4, <3>2 DEF Compare
      <4>2. GoingBack = None /\ GoingBack' = None /\ ~Midway
        BY <3>2, <4>1 DEF GoingBack, Midway
      <4>3. Offered(config)' = Offered(config) /\ Offered(got)' = Offered(got) /\ Serving' = Serving
        BY <2>0, <4>1, MappingKept
      <4>4. LastGood' = LastGood
        <5>1. \A s \in Services : Part(s, disk) = Part(s, loaded)
          <6>1. Served
            BY <1>2, SteadyStep
          <6>2. \A s \in Services : \A f \in Files(s) : disk[f] = loaded[f]
            BY <4>2, <6>1 DEF Served, Handled
          <6> QED BY <6>2, SamePart
        <5>2. \A s \in Services : LastGood'[s] = LastGood[s]
          BY <3>2, <4>1, <4>2, <5>1, GoodOfService, GoodAfterStep DEF Handled
        <5> QED BY <2>0, <5>2, OneChanges
      <4> HIDE DEF Offered, Serving, LastGood, GoingBack
      <4>5. UNCHANGED Good!vars
        BY <2>0, <4>1, <4>2, <4>3, <4>4 DEF Good!vars, Good!offer, Good!service
      <4> QED BY <4>5
    <3> QED BY <2>4, <3>1, <3>2 DEF Compare
  <2>5. CASE Stage \/ (Undo /\ todo # <<>>) \/ Rollback
    <3>1. /\ Midway /\ Midway' /\ UNCHANGED <<svc, prev, got, state, loaded, alive>>
          /\ pc' \in {"rollback", "again"} <=> pc \in {"rollback", "again"}
      BY <2>0, <2>5, WritingSteps
    <3>2. UNCHANGED config
      BY <2>5 DEF Stage, Undo, Rollback
    <3> QED BY <2>0, <3>1, <3>2, NothingShown
  <2>6. CASE Test
    BY <2>0, <2>6, NothingShown DEF Test, Midway
  <2>7. CASE Undo /\ todo = <<>>
    <3>1. Good!Refuse(svc)
      BY <1>2, <2>7, RefuseShown
    <3> QED BY <2>0, <3>1 DEF Good!Next, Good!Attempt
  <2>8. CASE Reload
    <3>1. CASE CanReload /\ Reloaded /\ Conclude("success")
      <4>1. Good!Accept(svc)
        BY <1>2, <2>8, <3>1, AcceptShown
      <4> QED BY <2>0, <4>1 DEF Good!Next, Good!Attempt
    <3>2. CASE NotReloaded /\ pc' = "rollback" /\ UNCHANGED <<state, svc>>
      <4>1. Good!Fail(svc)
        BY <1>2, <2>8, <3>2, FailShown
      <4> QED BY <2>0, <4>1 DEF Good!Next, Good!Attempt
    <3> QED BY <2>8, <3>1, <3>2 DEF Reload
  <2>9. CASE ReloadAgain
    <3>1. Good!GoBack(svc)
      BY <1>2, <2>9, GoBackShown
    <3> QED BY <2>0, <3>1 DEF Good!Next, Good!Attempt
  <2>10. CASE Save
    <3>1. pc = "save" /\ pc' = "write" /\ state'.lastApply = state.lastApply
          /\ UNCHANGED <<config, got, loaded, alive, prev, svc>>
      BY <2>0, <2>10 DEF Save, TypeOK, States
    <3>2. GoingBack = None /\ GoingBack' = None /\ ~Midway /\ ~Midway'
      BY <3>1 DEF GoingBack, Midway
    <3>3. Offered(config)' = Offered(config) /\ Offered(got)' = Offered(got) /\ Serving' = Serving
      BY <2>0, <3>1, MappingKept
    <3>4. LastGood' = LastGood
      <4>1. \A s \in Services : LastGood'[s] = LastGood[s]
        BY <3>1, <3>2, GoodOfService, GoodAfterStep DEF Handled
      <4> QED BY <2>0, <4>1, OneChanges
    <3> HIDE DEF Offered, Serving, LastGood, GoingBack
    <3>5. UNCHANGED Good!vars
      BY <2>0, <3>1, <3>2, <3>3, <3>4 DEF Good!vars, Good!offer, Good!service
    <3> QED BY <3>5
  <2>11. CASE Write
    BY <2>0, <2>11, NothingShown DEF Write, Midway
  <2>12. CASE ConfigChanges
    <3>1. UNCHANGED <<got, loaded, alive, state, prev, svc, pc>>
      BY <2>12 DEF ConfigChanges
    <3>2. Offered(got)' = Offered(got) /\ Serving' = Serving
      BY <2>0, <3>1, MappingKept
    <3>3. LastGood' = LastGood /\ GoingBack' = GoingBack
      BY <3>1 DEF LastGood, InHand, GoingBack, Part, Files, Order, Services
    <3> HIDE DEF Offered, Serving, LastGood, GoingBack
    <3>4. Good!Offer
      BY <2>0, <3>1, <3>2, <3>3 DEF Good!Offer, Good!service
    <3> QED BY <3>4 DEF Good!Next
  <2>13. CASE UNCHANGED vars
    <3>1. UNCHANGED <<config, got, loaded, alive, state, prev, svc, pc>>
      BY <2>13 DEF vars
    <3> QED BY <2>0, <3>1, NothingShown DEF Midway
  <2> QED
    BY <2>0, <2>1, <2>2, <2>3, <2>4, <2>5, <2>6, <2>7, <2>8, <2>9, <2>10, <2>11, <2>12, <2>13
    DEF Next, Agent, Apply
<1> QED BY <1>1, <1>2

\* The agent, whatever it is served and wherever it fails, implements KnownGood: each of
\* its steps is one of that specification's or leaves what that specification sees alone.
\* So no service ever reads files of two configurations or untested ones, and a service
\* that does not come up is brought back with exactly the files it last came up with.
THEOREM AgentKeepsKnownGood == Spec => KeepsKnownGood
<1>1. Init => Good!Init
  BY GoodInit
<1>2. IInv /\ [Next]_vars => [Good!Next]_(Good!vars)
  BY GoodStep
<1> QED BY <1>1, <1>2, InvariantHolds, PTL DEF Spec, KeepsKnownGood, Good!Spec

=============================================================================
