----------------------- MODULE ResourceRequests_proofs -----------------------
(***************************************************************************)
(* For every set of requests, reviews and values, and every bound: the     *)
(* inductive invariant of ResourceRequests, in two halves.  Typing (types, *)
(* stamps, and what handlers refer to) is preserved by every step; the     *)
(* rest only until two reviews of one request overlap.                     *)
(***************************************************************************)
EXTENDS ResourceRequests, FiniteSetTheorems, WellFoundedInduction, TLAPS

USE ConstantsAssumption DEF Handlers, NoReview, NoJob, Races

Typing == TypeOK /\ Stamps /\ Posted /\ Loaded

\* A non-empty set of natural numbers has a least element.
LEMMA LeastNatural ==
  ASSUME NEW S \in SUBSET Nat, S # {}
  PROVE  \E n \in S : \A m \in S : n <= m
<1> DEFINE UpTo == {0..n : n \in S}
<1>1. UpTo # {} /\ UpTo \subseteq FiniteSubsetsOf(Nat)
  <2>1. \A n \in S : IsFiniteSet(0..n) /\ 0..n \subseteq Nat
    BY FS_Interval
  <2> QED BY <2>1 DEF FiniteSubsetsOf
<1>2. PICK U \in UpTo : \A V \in UpTo : <<V, U>> \notin StrictSubsetOrdering(Nat)
  BY <1>1, FS_StrictSubsetOrderingWellFounded, WFMin
<1>3. PICK n \in S : U = 0..n
  BY <1>2
<1>4. ASSUME NEW m \in S, m < n PROVE FALSE
  <2>1. 0..m \in UpTo /\ 0..m \subseteq 0..n /\ n \in 0..n /\ n \notin 0..m
    BY <1>4
  <2>2. <<0..m, U>> \in StrictSubsetOrdering(Nat)
    BY <2>1, <1>3 DEF StrictSubsetOrdering
  <2> QED BY <1>2, <2>1, <2>2
<1> QED BY <1>4

\* The first row of a non-empty answer, by reviewedAt DESC, is one of its rows, and none
\* of them is later.
LEMMA FirstIsLast ==
  ASSUME TypeOK, Stamps, NEW S \in SUBSET Requests, S # {}
  PROVE  First(S) \in S /\ \A p \in S : reviewedAt[p] <= reviewedAt[First(S)]
<1> DEFINE Age(q) == clock - reviewedAt[q]
           Ages == {Age(q) : q \in S}
<1>1. Ages \in SUBSET Nat /\ Ages # {}
  BY DEF TypeOK, Stamps
<1>2. PICK n \in Ages : \A m \in Ages : n <= m
  BY <1>1, LeastNatural
<1>3. PICK q \in S : n = Age(q)
  BY <1>2
<1>4. ASSUME NEW p \in S PROVE reviewedAt[p] <= reviewedAt[q]
  <2>1. Age(q) <= Age(p)
    BY <1>2, <1>3
  <2>2. clock \in Nat /\ reviewedAt[p] \in Nat /\ reviewedAt[q] \in Nat
    BY DEF TypeOK
  <2> QED BY <2>1, <2>2
<1> QED BY <1>4 DEF First

\* getApprovedResources returns the value of an approved row, or nothing.
LEMMA EffectiveIsApproved ==
  ASSUME TypeOK, Stamps, Effective \notin {None, 0}
  PROVE  \E q \in Approved : value[q] = Effective
<1> DEFINE Some == {q \in Candidates : value[q] # 0}
<1>1. Some # {} /\ Effective = value[First(Some)]
  BY DEF Effective
<1>2. First(Some) \in Some
  BY <1>1, FirstIsLast DEF Candidates
<1> QED BY <1>1, <1>2 DEF Candidates, Approved

\* Every step keeps the types, and what the handlers refer to.
LEMMA TypingStep ==
  ASSUME Typing, [Next]_vars
  PROVE  Typing'
<1> USE DEF Typing, TypeOK, Stamps, Posted, Loaded, requestVars, containerVars
<1>1. ASSUME NEW q \in Requests, Post(q) PROVE Typing'
  <2>1. TypeOK'
    <3>1. PICK v \in Values : value' = [value EXCEPT ![q] = v]
      BY <1>1 DEF Post
    <3>2. value' \in [Requests -> Values \cup {None}]
      BY <3>1
    <3>3. status' \in [Requests -> {"no", "pending", "approved", "denied"}]
          /\ reviewedAt' \in [Requests -> Nat] /\ clock' \in Nat
      BY <1>1 DEF Post, Stamp
    <3>4. Parallel \subseteq Races
      BY DEF Parallel
    <3>5. applying' \in {applying, applying \cup {q}} /\ causes' \in {causes, causes \cup Parallel}
      BY <1>1 DEF Post
    <3>6. applying' \in SUBSET Handlers /\ causes' \in SUBSET Races
      BY <3>4, <3>5
    <3> QED BY <1>1, <3>2, <3>3, <3>6 DEF Post
  <2>2. Stamps' /\ Posted'
    BY <1>1 DEF Post, Parallel, Stamp
  <2>3. Loaded'
    BY <1>1 DEF Post, Parallel, Stamp
  <2> QED BY <2>1, <2>2, <2>3
<1>2. ASSUME NEW r \in Reviews, ReviewLoad(r) PROVE Typing'
  <2>1. TypeOK'
    <3>1. PICK q \in Requests, step \in {"check", "deny"} :
            review' = [review EXCEPT ![r] = [pc |-> step, of |-> q]]
      BY <1>2 DEF ReviewLoad
    <3>2. review' \in [Reviews -> [pc: {"idle", "check", "update", "deny", "apply", "done"},
                                   of: Requests \cup {None}]]
      BY <3>1
    <3>3. causes' \in SUBSET Races
      BY <1>2 DEF ReviewLoad
    <3> QED BY <1>2, <3>2, <3>3 DEF ReviewLoad
  <2>2. Stamps' /\ Posted'
    BY <1>2 DEF ReviewLoad
  <2>3. Loaded'
    BY <1>2 DEF ReviewLoad
  <2> QED BY <2>1, <2>2, <2>3
<1>3. ASSUME NEW r \in Reviews, ReviewCheck(r) PROVE Typing'
  <2>1. TypeOK'
    BY <1>3 DEF ReviewCheck
  <2>2. Stamps' /\ Posted'
    BY <1>3 DEF ReviewCheck
  <2>3. Loaded'
    BY <1>3 DEF ReviewCheck
  <2> QED BY <2>1, <2>2, <2>3
<1>4. ASSUME NEW r \in Reviews, Approve(r) PROVE Typing'
  BY <1>4 DEF Approve, Parallel, Stamp
<1>5. ASSUME NEW r \in Reviews, Deny(r) PROVE Typing'
  BY <1>5 DEF Deny, Stamp
<1>6. ASSUME NEW x \in Handlers, ApplyToExisting(x) PROVE Typing'
  <2>1. TypeOK'
    <3>1. RequestOf(x) \in Requests /\ value[RequestOf(x)] \in Values
      BY <1>6 DEF ApplyToExisting, RequestOf
    <3>2. job' \in [Handlers -> [pc: {"no", "done"}, row: {0}, value: {0}]
                                \cup [pc: {"pending"}, row: 0..MaxRows, value: Values]]
      BY SMTT(20), <1>6, <3>1 DEF ApplyToExisting
    <3>3. review' \in [Reviews -> [pc: {"idle", "check", "update", "deny", "apply", "done"},
                                   of: Requests \cup {None}]]
      BY <1>6 DEF ApplyToExisting, Applied
    <3>4. applying' \in SUBSET Handlers /\ causes' \in SUBSET Races
      BY <1>6 DEF ApplyToExisting, Applied
    <3> QED BY <1>6, <3>2, <3>3, <3>4 DEF ApplyToExisting
  <2>2. Stamps' /\ Posted'
    BY <1>6 DEF ApplyToExisting, Applied, RequestOf
  <2>3. Loaded'
    BY <1>6 DEF ApplyToExisting, Applied, RequestOf
  <2> QED BY <2>1, <2>2, <2>3
<1>7. ASSUME NEW x \in Handlers, ApplyFails(x) PROVE Typing'
  BY <1>7 DEF ApplyFails, Applied, Fault
<1>8. ASSUME NEW x \in Handlers, Reconfigure(x) PROVE Typing'
  <2>1. TypeOK'
    <3>1. job' \in [Handlers -> [pc: {"no", "done"}, row: {0}, value: {0}]
                                \cup [pc: {"pending"}, row: 0..MaxRows, value: Values]]
      BY <1>8 DEF Reconfigure
    <3>2. container = "there" /\ job[x].row = rows => job[x].value \in Values
      BY <1>8 DEF Reconfigure, Unfinished
    <3> QED BY <1>8, <3>1, <3>2 DEF Reconfigure
  <2>2. Stamps' /\ Posted'
    BY <1>8 DEF Reconfigure, Unfinished
  <2>3. Loaded'
    BY <1>8 DEF Reconfigure, Unfinished
  <2> QED BY <2>1, <2>2, <2>3
<1>9. ASSUME NEW x \in Handlers, ReconfigureFails(x) PROVE Typing'
  BY <1>9 DEF ReconfigureFails, Unfinished, Fault
<1>10. ASSUME CreateRow PROVE Typing'
  BY <1>10 DEF CreateRow
<1>11. ASSUME ReadApproved PROVE Typing'
  <2>1. plan' \in Values \cup {Default}
    BY <1>11, EffectiveIsApproved DEF ReadApproved, Approved
  <2> QED BY <1>11, <2>1 DEF ReadApproved
<1>12. ASSUME Provision PROVE Typing'
  BY <1>12 DEF Provision
<1>13. ASSUME ProvisionFails PROVE Typing'
  BY <1>13 DEF ProvisionFails, Fault
<1>14. ASSUME DeleteContainer PROVE Typing'
  BY <1>14 DEF DeleteContainer
<1>15. CASE UNCHANGED vars
  BY <1>15 DEF vars
<1> QED BY <1>1, <1>2, <1>3, <1>4, <1>5, <1>6, <1>7, <1>8, <1>9, <1>10, <1>11, <1>12, <1>13, <1>14, <1>15 DEF Next

\* Initially nothing is asked for.
LEMMA IInvInit == Init => IInv
BY DEF Init, IInv, TypeOK, Stamps, Posted, Loaded, Uncontested, Undecided, Decided, OnTheWay,
   Open, Unfinished, Granted

\* The races that have happened are remembered.
LEMMA CausesGrow ==
  ASSUME [Next]_vars
  PROVE  causes \subseteq causes'
BY DEF Next, vars, containerVars, requestVars, Post, ReviewLoad, ReviewCheck, Approve, Deny,
   ApplyToExisting, ApplyFails, Reconfigure, ReconfigureFails, CreateRow, ReadApproved,
   Provision, ProvisionFails, DeleteContainer

\* An approved request stays approved, with its value, until two reviews overlap:
\* a review that is still to be written is of a pending request.
LEMMA ApprovalsLast ==
  ASSUME IInv, [Next]_vars, "contested" \notin causes
  PROVE  \A q \in Requests : status[q] \in {"approved", "denied"} =>
           status'[q] = status[q] /\ value'[q] = value[q] /\ reviewedAt'[q] = reviewedAt[q]
<1> SUFFICES ASSUME NEW q \in Requests, status[q] \in {"approved", "denied"}
             PROVE  status'[q] = status[q] /\ value'[q] = value[q] /\ reviewedAt'[q] = reviewedAt[q]
  OBVIOUS
<1> USE DEF IInv, TypeOK
<1>1. ASSUME NEW p \in Requests, Post(p) PROVE p # q
  BY <1>1 DEF Post
<1>2. ASSUME NEW r \in Reviews, Approve(r) \/ Deny(r) PROVE review[r].of # q
  BY <1>2 DEF Approve, Deny, Uncontested, Undecided, Open
<1>3. CASE \E p \in Requests : Post(p)
  <2>1. PICK p \in Requests : Post(p)
    BY <1>3
  <2>2. p # q
    BY <1>1, <2>1
  <2> QED BY <2>1, <2>2 DEF Post, Stamp
<1>4. CASE \E r \in Reviews : Approve(r) \/ Deny(r)
  <2>1. PICK r \in Reviews : Approve(r) \/ Deny(r)
    BY <1>4
  <2>2. review[r].of # q
    BY <1>2, <2>1
  <2> QED BY <2>1, <2>2 DEF Approve, Deny, Stamp
<1>5. CASE UNCHANGED requestVars
  BY <1>5 DEF requestVars
<1> QED
  BY <1>3, <1>4, <1>5 DEF Next, vars, requestVars, ReviewLoad, ReviewCheck, ApplyToExisting,
     ApplyFails, Reconfigure, ReconfigureFails, CreateRow, ReadApproved, Provision,
     ProvisionFails, DeleteContainer

\* So what was granted once is granted for good.
LEMMA GrantsLast ==
  ASSUME IInv, [Next]_vars, "contested" \notin causes, NEW v, Granted(v)
  PROVE  v \in {Default, None} \/ \E q \in Approved' : value'[q] = v
BY ApprovalsLast DEF Granted, Approved

\* Until two reviews overlap, what is under review is undecided: a review is loaded
\* while the request is pending, and only its own update decides it.
LEMMA UndecidedStep ==
  ASSUME IInv, [Next]_vars, "contested" \notin causes'
  PROVE  Undecided'
<1> USE DEF IInv, TypeOK, Loaded
<1>1. "contested" \notin causes /\ Undecided
  BY CausesGrow DEF Uncontested
<1> USE <1>1 DEF Undecided, Open
<1>2. ASSUME NEW q \in Requests, Post(q) PROVE Undecided'
  BY <1>2 DEF Post, Stamp
<1>3. ASSUME NEW r \in Reviews, ReviewLoad(r) PROVE Undecided'
  <2>1. PICK q \in Requests, step \in {"check", "deny"} :
          /\ status[q] = "pending"
          /\ review' = [review EXCEPT ![r] = [pc |-> step, of |-> q]]
          /\ causes' = causes \cup {race \in {"contested"} : \E s \in Reviews \ {r} :
               review[s].of = q /\ review[s].pc # "done"}
    BY <1>3 DEF ReviewLoad
  <2>2. \A s \in Reviews \ {r} : Open(s) => review[s].of # q
    BY <2>1
  <2> QED BY <1>3, <2>1, <2>2 DEF ReviewLoad, requestVars
<1>4. ASSUME NEW r \in Reviews, ReviewCheck(r) PROVE Undecided'
  BY <1>4 DEF ReviewCheck, requestVars
<1>5. ASSUME NEW r \in Reviews, Approve(r) \/ Deny(r) PROVE Undecided'
  <2>1. \A s \in Reviews \ {r} : Open(s) => review[s].of # review[r].of
    BY <1>5 DEF Approve, Deny
  <2> QED BY <1>5, <2>1 DEF Approve, Deny, Stamp
<1>6. ASSUME NEW x \in Handlers, ApplyToExisting(x) \/ ApplyFails(x) PROVE Undecided'
  BY <1>6 DEF ApplyToExisting, ApplyFails, Applied, requestVars
<1>7. CASE UNCHANGED <<requestVars, review>>
  BY <1>7 DEF requestVars
<1> QED
  BY <1>2, <1>3, <1>4, <1>5, <1>6, <1>7 DEF Next, vars, Reconfigure, ReconfigureFails,
     CreateRow, ReadApproved, Provision, ProvisionFails, DeleteContainer

\* Until two reviews overlap, what a handler is about to apply is approved.
LEMMA DecidedStep ==
  ASSUME IInv, [Next]_vars, "contested" \notin causes'
  PROVE  Decided'
<1> USE DEF IInv, TypeOK, Loaded
<1>1. "contested" \notin causes /\ Undecided /\ Decided
  BY CausesGrow DEF Uncontested
<1>2. \A x \in applying : RequestOf(x) \in Requests
  BY DEF RequestOf
<1>3. \A x \in applying : status'[RequestOf(x)] = "approved"
  BY <1>1, <1>2, ApprovalsLast DEF Decided
<1>4. ASSUME NEW q \in Requests, Post(q) PROVE Decided'
  BY <1>3, <1>4 DEF Post, Stamp, Decided, RequestOf
<1>5. ASSUME NEW r \in Reviews, ReviewLoad(r) PROVE Decided'
  BY <1>3, <1>5 DEF ReviewLoad, Decided, RequestOf
<1>6. ASSUME NEW r \in Reviews, ReviewCheck(r) PROVE Decided'
  BY <1>3, <1>6 DEF ReviewCheck, Decided, RequestOf
<1>7. ASSUME NEW r \in Reviews, Approve(r) PROVE Decided'
  BY <1>3, <1>7 DEF Approve, Stamp, Decided, RequestOf
<1>8. ASSUME NEW r \in Reviews, Deny(r) PROVE Decided'
  BY <1>3, <1>8 DEF Deny, Decided, RequestOf
<1>9. ASSUME NEW x \in Handlers, ApplyToExisting(x) \/ ApplyFails(x) PROVE Decided'
  BY <1>3, <1>9 DEF ApplyToExisting, ApplyFails, Applied, Decided, RequestOf
<1>10. CASE UNCHANGED <<applying, review>>
  BY <1>3, <1>10 DEF Decided, RequestOf
<1> QED
  BY <1>4, <1>5, <1>6, <1>7, <1>8, <1>9, <1>10 DEF Next, vars, Reconfigure, ReconfigureFails,
     CreateRow, ReadApproved, Provision, ProvisionFails, DeleteContainer

\* Until two reviews overlap, only what was approved is on its way to the guest: in a
\* job, in what the creation has read, or in the guest.
LEMMA OnTheWayStep ==
  ASSUME IInv, [Next]_vars, "contested" \notin causes'
  PROVE  OnTheWay'
<1> DEFINE Lasts(v) == v \in {Default, None} \/ \E q \in Approved' : value'[q] = v
<1> USE DEF IInv, TypeOK
<1>1. "contested" \notin causes /\ Decided /\ OnTheWay
  BY CausesGrow DEF Uncontested
<1>2. \A v : Granted(v) => Lasts(v)
  BY <1>1, GrantsLast
<1>3. /\ \A x \in Handlers : Unfinished(x) => Lasts(job[x].value)
      /\ Lasts(plan) /\ Lasts(has)
  BY <1>1, <1>2 DEF OnTheWay
<1>4. SUFFICES /\ \A x \in Handlers : job'[x].pc = "pending" => Lasts(job'[x].value)
               /\ Lasts(plan') /\ Lasts(has')
  BY DEF OnTheWay, Granted, Unfinished
<1> HIDE DEF Lasts
<1>5. Lasts(Default) /\ Lasts(None)
  BY DEF Lasts
<1>6. ASSUME NEW x \in Handlers, ApplyToExisting(x)
      PROVE  \A y \in Handlers : job'[y].pc = "pending" => Lasts(job'[y].value)
  <2>1. RequestOf(x) \in Approved
    BY <1>1, <1>6 DEF ApplyToExisting, Decided, Loaded, RequestOf, Approved
  <2>2. Lasts(value[RequestOf(x)])
    BY <1>2, <2>1 DEF Granted
  <2> QED BY <1>3, <1>6, <2>2 DEF ApplyToExisting, Unfinished
<1>7. CASE \E x \in Handlers : ApplyToExisting(x)
  BY <1>3, <1>6, <1>7 DEF ApplyToExisting, containerVars
<1>8. ASSUME NEW x \in Handlers, Reconfigure(x) \/ ReconfigureFails(x)
      PROVE  /\ \A y \in Handlers : job'[y].pc = "pending" => Lasts(job'[y].value)
             /\ Lasts(plan') /\ Lasts(has')
  <2>1. \A y \in Handlers : job'[y].pc = "pending" => job'[y] = job[y]
    BY <1>8 DEF Reconfigure, ReconfigureFails
  <2>2. has' \in {has, job[x].value} /\ plan' = plan /\ Unfinished(x)
    BY <1>8 DEF Reconfigure, ReconfigureFails, containerVars
  <2> QED BY <1>3, <2>1, <2>2 DEF Unfinished
<1>9. CASE ReadApproved
  <2>1. Lasts(plan')
    <3>1. CASE Effective \in {None, 0}
      BY <1>5, <1>9, <3>1 DEF ReadApproved
    <3>2. CASE Effective \notin {None, 0}
      BY <1>2, <1>9, <3>2, EffectiveIsApproved DEF ReadApproved, Granted
    <3> QED BY <3>1, <3>2
  <2> QED BY <1>3, <1>9, <2>1 DEF ReadApproved, Unfinished
<1>10. CASE Provision \/ ProvisionFails \/ DeleteContainer
  BY <1>3, <1>5, <1>10 DEF Provision, ProvisionFails, DeleteContainer, Unfinished
<1>11. CASE UNCHANGED <<plan, has, job>>
  BY <1>3, <1>11 DEF Unfinished
<1> QED
  BY <1>7, <1>8, <1>9, <1>10, <1>11 DEF Next, vars, containerVars, Post, ReviewLoad, ReviewCheck,
     Approve, Deny, ApplyFails, CreateRow

\* Every step keeps the inductive invariant.
LEMMA IInvStep == ASSUME IInv, [Next]_vars PROVE IInv'
<1>1. Typing'
  BY TypingStep DEF IInv, Typing
<1>2. Uncontested'
  BY UndecidedStep, DecidedStep, OnTheWayStep DEF Uncontested
<1> QED BY <1>1, <1>2 DEF IInv, Typing

\* The inductive invariant.
THEOREM InvariantHolds == Spec => []IInv
BY IInvInit, IInvStep, PTL DEF Spec

\* The types, for any number of requests, reviews and containers.
THEOREM TypeCorrect == Spec => []TypeOK
<1>1. IInv => TypeOK
  BY DEF IInv
<1> QED BY <1>1, InvariantHolds, PTL

\* A value that was not approved never reaches the guest (resource-requests.js,
\* getApprovedResources, reconfigure-container.js), whatever fails, and however often the
\* container is deleted and made again, until two reviews of one request overlap.
THEOREM NothingUnapproved == Spec => []OnlyTheApproved
<1>1. IInv => OnlyTheApproved
  BY DEF IInv, Uncontested, OnTheWay, Granted, OnlyTheApproved
<1> QED BY <1>1, InvariantHolds, PTL

\* approve and deny decide a request once, as long as no two reviews of it overlap.
THEOREM DecisionsStand == Spec => ReviewsAreFinal
<1>1. IInv /\ [Next]_vars =>
        [\A q \in Requests :
           status[q] \in {"approved", "denied"} /\ "contested" \notin causes =>
             status'[q] = status[q] /\ reviewedAt'[q] = reviewedAt[q]]_vars
  BY ApprovalsLast
<1> QED BY <1>1, InvariantHolds, PTL DEF Spec, ReviewsAreFinal
-----------------------------------------------------------------------------
(* The last approval is in force                                            *)

\* The request that was approved last.
Newest(q) == q \in Approved /\ \A p \in Approved : reviewedAt[p] <= reviewedAt[q]

\* What a container should have.
Right(v) == IF Approved = {} THEN v = Default ELSE \A q \in Requests : Newest(q) => value[q] \in {v, 0}

\* No two approvals have one stamp.
Apart == \A p, q \in Approved : reviewedAt[p] = reviewedAt[q] => p = q

\* The last approval is applied, or its job is there, before the next one.
OneAtATime ==
  /\ \A x, y \in applying : x = y
  /\ \A x, y \in Handlers : Unfinished(x) /\ Unfinished(y) => x = y
  /\ applying # {} => \A x \in Handlers : ~Unfinished(x)

\* What is applied, or to be set by a job, was approved last.
Foremost ==
  /\ \A x \in applying : Newest(RequestOf(x))
  /\ \A x \in Handlers : Unfinished(x) => Newest(RequestOf(x)) /\ job[x].value = value[RequestOf(x)]

\* A review whose job is there is over.
Spent == \A r \in Reviews : Unfinished(r) => review[r].pc = "done"

\* What a creation has read is right, or will be set right; and so is what the guest has.
SetRight ==
  /\ container = "creating" => Right(plan) \/ applying # {}
  /\ container = "there" =>
       Right(has) \/ applying # {} \/ \E x \in Handlers : Unfinished(x) /\ job[x].row = rows

Smooth == faults = 0 /\ causes = {}
LInv == IInv /\ (Smooth => Spent /\ Apart /\ OneAtATime /\ Foremost /\ SetRight)


\* Without failed calls and races now, there were none before.
LEMMA SmoothBefore == ASSUME IInv, [Next]_vars, Smooth' PROVE Smooth
<1>1. causes = {}
  BY CausesGrow DEF Smooth
<1>2. faults' \in {faults, faults + 1}
  BY DEF Next, vars, Fault, Post, ReviewLoad, ReviewCheck, Approve, Deny,
     ApplyToExisting, ApplyFails, Reconfigure, ReconfigureFails, CreateRow, ReadApproved,
     Provision, ProvisionFails, DeleteContainer
<1>3. faults \in Nat
  BY DEF IInv, TypeOK
<1> QED BY <1>1, <1>2, <1>3 DEF Smooth

\* Handler x approves a request, with nothing else being applied.
Approves(x) ==
  /\ applying = {} /\ \A y \in Handlers : ~Unfinished(y)
  /\ applying' = {x}
  /\ RequestOf(x)' \in Requests \ Approved
  /\ Approved' = Approved \cup {RequestOf(x)'}
  /\ reviewedAt'[RequestOf(x)'] = clock + 1
  /\ UNCHANGED <<containerVars, job>>

\* What has been approved keeps its value and its stamp.
Lasting ==
  \A q \in Approved : q \in Approved' /\ value'[q] = value[q] /\ reviewedAt'[q] = reviewedAt[q]

\* Who applies refers to one request.
Referring == \A x \in Handlers : x \in applying \/ Unfinished(x) => RequestOf(x)' = RequestOf(x)

\* A step approves one request, or none.
LEMMA ApprovalSteps ==
  ASSUME IInv, Spent, [Next]_vars, Smooth, Smooth'
  PROVE  /\ Lasting /\ Referring
         /\ \/ \E x \in Handlers : Approves(x)
            \/ Approved' = Approved /\ applying' \in SUBSET applying
<1> USE DEF IInv, TypeOK, Loaded
<1>1. Lasting
  BY ApprovalsLast DEF Lasting, Approved, Smooth
<1>2. ASSUME NEW q \in Requests, Post(q)
      PROVE  Referring /\ (Approves(q) \/ (Approved' = Approved /\ applying' \in SUBSET applying))
  <2>1. Referring
    BY <1>2 DEF Post, Referring, RequestOf
  <2>2. CASE status' = [status EXCEPT ![q] = "pending"] /\ applying' = applying
    BY <1>2, <2>1, <2>2 DEF Post, Approved
  <2>3. CASE Stamp(q, "approved") /\ applying' = applying \cup {q} /\ causes' = causes \cup Parallel
    <3>1. applying = {} /\ \A y \in Handlers : ~Unfinished(y)
      BY <2>3 DEF Smooth, Parallel
    <3>2. RequestOf(q)' = q
      BY DEF RequestOf
    <3>3. q \notin Approved /\ Approved' = Approved \cup {q} /\ reviewedAt'[q] = clock + 1
      BY <1>2, <2>3 DEF Post, Stamp, Approved
    <3> QED BY <1>2, <2>1, <2>3, <3>1, <3>2, <3>3 DEF Post, Approves
  <2> QED BY <1>2, <2>2, <2>3 DEF Post
<1>3. ASSUME NEW r \in Reviews, Approve(r) PROVE Referring /\ Approves(r)
  <2> DEFINE q == review[r].of
  <2>1. q \in Requests /\ status[q] = "pending"
    BY <1>3 DEF Approve, Open, Uncontested, Undecided, Smooth
  <2>2. Referring
    BY <1>3 DEF Approve, Referring, RequestOf
  <2>3. applying = {} /\ \A y \in Handlers : ~Unfinished(y)
    BY <1>3 DEF Approve, Smooth, Parallel
  <2>4. RequestOf(r)' = q
    BY <1>3 DEF Approve, RequestOf
  <2>5. q \notin Approved /\ Approved' = Approved \cup {q} /\ reviewedAt'[q] = clock + 1
    BY <1>3, <2>1 DEF Approve, Stamp, Approved
  <2> QED BY <1>3, <2>1, <2>2, <2>3, <2>4, <2>5 DEF Approve, Approves
<1>4. ASSUME NEW r \in Reviews, Deny(r)
      PROVE  Referring /\ Approved' = Approved /\ applying' \in SUBSET applying
  <2>1. review[r].of \in Requests /\ status[review[r].of] = "pending"
    BY <1>4 DEF Deny, Open, Uncontested, Undecided, Smooth
  <2> QED BY <1>4, <2>1 DEF Deny, Stamp, Approved, Referring, RequestOf
<1>5. ASSUME NEW r \in Reviews, ReviewLoad(r) \/ ReviewCheck(r)
      PROVE  Referring /\ Approved' = Approved /\ applying' \in SUBSET applying
  <2>1. CASE ReviewCheck(r)
    BY <2>1 DEF ReviewCheck, Approved, Referring, RequestOf, requestVars
  <2>2. CASE ReviewLoad(r)
    <3>1. r \notin applying
      BY <2>2 DEF ReviewLoad
    <3>2. ~Unfinished(r)
      BY <2>2 DEF ReviewLoad, Spent
    <3> QED BY <2>2, <3>1, <3>2 DEF ReviewLoad, Approved, Referring, RequestOf, requestVars
  <2> QED BY <1>5, <2>1, <2>2
<1>6. ASSUME NEW x \in Handlers, ApplyToExisting(x) \/ ApplyFails(x)
      PROVE  Referring /\ Approved' = Approved /\ applying' \in SUBSET applying
  BY <1>6 DEF ApplyToExisting, ApplyFails, Applied, Approved, Referring, RequestOf, requestVars
<1>7. CASE UNCHANGED <<requestVars, applying, review>>
  BY <1>1, <1>7 DEF Approved, Referring, RequestOf, requestVars
<1> QED
  BY <1>1, <1>2, <1>3, <1>4, <1>5, <1>6, <1>7 DEF Next, vars, Handlers, Reconfigure,
     ReconfigureFails, CreateRow, ReadApproved, Provision, ProvisionFails, DeleteContainer


\* A job is queued by the last step of its review.
LEMMA SpentStep ==
  ASSUME IInv, Spent, [Next]_vars, Smooth'
  PROVE  Spent'
<1> USE DEF IInv, TypeOK, Loaded, Spent, Unfinished
<1>1. ASSUME NEW x \in Handlers, ApplyToExisting(x) PROVE Spent'
  BY <1>1 DEF ApplyToExisting, Applied
<1>2. ASSUME NEW x \in Handlers, ApplyFails(x) PROVE Spent'
  BY <1>2 DEF ApplyFails, Applied
<1>3. ASSUME NEW x \in Handlers, Reconfigure(x) \/ ReconfigureFails(x) PROVE Spent'
  BY <1>3 DEF Reconfigure, ReconfigureFails
<1>4. ASSUME NEW r \in Reviews, ReviewLoad(r) PROVE Spent'
  BY <1>4 DEF ReviewLoad
<1>5. ASSUME NEW r \in Reviews, ReviewCheck(r) \/ Approve(r) \/ Deny(r) PROVE Spent'
  BY <1>5 DEF ReviewCheck, Approve, Deny
<1>6. CASE UNCHANGED <<review, job>>
  BY <1>6
<1> QED
  BY <1>1, <1>2, <1>3, <1>4, <1>5, <1>6 DEF Next, vars, Post, CreateRow, ReadApproved,
     Provision, ProvisionFails, DeleteContainer

\* A stamp is later than all the others.
LEMMA ApartStep ==
  ASSUME IInv, Spent, Apart, [Next]_vars, Smooth, Smooth'
  PROVE  Apart'
<1> USE DEF Apart, Lasting
<1>1. Lasting
  BY ApprovalSteps
<1>2. CASE \E x \in Handlers : Approves(x)
  <2>1. PICK x \in Handlers : Approves(x)
    BY <1>2
  <2> DEFINE q == RequestOf(x)'
  <2>2. \A p \in Approved : reviewedAt'[p] < reviewedAt'[q]
    BY <1>1, <2>1 DEF Approves, IInv, Stamps, TypeOK, Approved
  <2>3. \A p \in Approved : reviewedAt'[p] = reviewedAt[p] /\ reviewedAt[p] \in Nat
    BY <1>1 DEF IInv, TypeOK, Approved
  <2>4. reviewedAt'[q] \in Nat
    BY <2>1 DEF Approves, IInv, TypeOK
  <2>5. ASSUME NEW p \in Approved', NEW s \in Approved', reviewedAt'[p] = reviewedAt'[s] PROVE p = s
    <3>1. p \in Approved \cup {q} /\ s \in Approved \cup {q}
      BY <2>1 DEF Approves
    <3> QED BY <2>2, <2>3, <2>4, <2>5, <3>1
  <2> QED BY <2>5
<1>3. CASE Approved' = Approved
  BY <1>1, <1>3
<1> QED BY <1>2, <1>3, ApprovalSteps

\* Who approves is later than everybody; who has been the last, and is still applied, stays it.
LEMMA NewestSteps ==
  ASSUME IInv, Spent, [Next]_vars, Smooth, Smooth'
  PROVE  /\ \A x \in Handlers : Approves(x) => Newest(RequestOf(x))'
         /\ Approved' = Approved => \A q \in Requests : Newest(q)' <=> Newest(q)
<1>1. Lasting
  BY ApprovalSteps
<1>2. ASSUME NEW x \in Handlers, Approves(x) PROVE Newest(RequestOf(x))'
  <2> DEFINE q == RequestOf(x)'
  <2>1. \A p \in Approved : reviewedAt'[p] <= reviewedAt'[q]
    BY <1>1, <1>2 DEF Lasting, Approves, IInv, Stamps, TypeOK, Approved
  <2>2. reviewedAt'[q] <= reviewedAt'[q]
    BY <1>2 DEF Approves, IInv, TypeOK
  <2> QED BY <1>2, <2>1, <2>2 DEF Newest, Approves
<1>3. ASSUME Approved' = Approved PROVE \A q \in Requests : Newest(q)' <=> Newest(q)
  BY <1>1, <1>3 DEF Newest, Lasting
<1> QED BY <1>2, <1>3

\* At most one approval is on its way, and it is the last one.
LEMMA OnWaySteps ==
  ASSUME IInv, Spent, OneAtATime, Foremost, [Next]_vars, Smooth, Smooth'
  PROVE  OneAtATime' /\ Foremost'
<1> USE DEF OneAtATime, Foremost, IInv, TypeOK
<1> DEFINE Lasts(x) == Newest(RequestOf(x))' /\ job[x].value = value'[RequestOf(x)']
<1>0. Referring /\ Lasting
  BY ApprovalSteps
<1>1. CASE \E x \in Handlers : Approves(x)
  <2>1. PICK x \in Handlers : Approves(x)
    BY <1>1
  <2>2. \A y \in Handlers : ~Unfinished(y)'
    BY <2>1 DEF Approves, Unfinished
  <2> QED BY <2>1, <2>2, NewestSteps DEF Approves
<1>2. CASE Approved' = Approved /\ applying' \in SUBSET applying
  <2>1. \A x \in applying : Newest(RequestOf(x))'
    <3> SUFFICES ASSUME NEW x \in applying PROVE Newest(RequestOf(x))'
      OBVIOUS
    <3>1. RequestOf(x) \in Requests /\ RequestOf(x)' = RequestOf(x)
      BY <1>0 DEF Referring, Newest, Approved
    <3> QED BY <1>2, <3>1, NewestSteps
  <2>2. ASSUME NEW x \in Handlers, Unfinished(x) PROVE Lasts(x)
    <3>1. RequestOf(x) \in Approved /\ RequestOf(x)' = RequestOf(x)
      BY <1>0, <2>2 DEF Referring, Newest, Approved
    <3> QED BY <1>0, <1>2, <2>2, <3>1, NewestSteps DEF Lasting, Approved
  <2> HIDE DEF Lasts
  <2>3. CASE \E x \in Handlers : ApplyToExisting(x)
    <3>1. PICK x \in Handlers : ApplyToExisting(x)
      BY <2>3
    <3>2. x \in applying /\ applying' = {} /\ \A y \in Handlers : ~Unfinished(y)
      BY <3>1 DEF ApplyToExisting, Applied
    <3>3. \A y \in Handlers : Unfinished(y)' => y = x /\ job'[y].value = value[RequestOf(x)]
      BY <3>1, <3>2 DEF ApplyToExisting, Unfinished
    <3>4. Newest(RequestOf(x))' /\ value'[RequestOf(x)'] = value[RequestOf(x)]
      BY <1>0, <2>1, <3>1, <3>2 DEF ApplyToExisting, requestVars, Referring
    <3> QED BY <3>2, <3>3, <3>4
  <2>4. CASE \A y \in Handlers : Unfinished(y)' => Unfinished(y) /\ job'[y] = job[y]
    BY <1>2, <2>1, <2>2, <2>4 DEF Lasts
  <2>5. CASE \E x \in Handlers : Reconfigure(x) \/ ReconfigureFails(x) \/ ApplyFails(x)
    <3>1. \A y \in Handlers : Unfinished(y)' => Unfinished(y) /\ job'[y] = job[y]
      BY <2>5 DEF Reconfigure, ReconfigureFails, ApplyFails, Unfinished
    <3> QED BY <2>4, <3>1
  <2>6. CASE job' = job
    BY <2>4, <2>6 DEF Unfinished
  <2> QED
    BY <2>3, <2>5, <2>6 DEF Next, vars, containerVars, Post, ReviewLoad, ReviewCheck, Approve,
       Deny, CreateRow, ReadApproved, Provision, ProvisionFails, DeleteContainer
<1> QED BY <1>1, <1>2, ApprovalSteps

\* The last approval is only one.
LEMMA NewestIsOne ==
  ASSUME IInv, Apart, NEW p \in Requests, NEW q \in Requests, Newest(p), Newest(q)
  PROVE  p = q
<1>1. reviewedAt[p] <= reviewedAt[q] /\ reviewedAt[q] <= reviewedAt[p]
  BY DEF Newest
<1>2. reviewedAt[p] \in Nat /\ reviewedAt[q] \in Nat
  BY DEF IInv, TypeOK
<1> QED BY <1>1, <1>2 DEF Apart, Newest

\* What the creation reads is right when it reads it: a value of 0 is passed over.
LEMMA EffectiveIsRight ==
  ASSUME IInv, Apart
  PROVE  Right(IF Effective \in {None, 0} THEN Default ELSE Effective)
<1> DEFINE Some == {q \in Candidates : value[q] # 0}
<1> USE DEF IInv
<1>1. Candidates = Approved
  BY DEF Candidates, Approved
<1>2. CASE Approved = {}
  BY <1>1, <1>2 DEF Effective, Right
<1>3. CASE Approved # {} /\ Some = {}
  BY <1>1, <1>3 DEF Right, Newest
<1>4. CASE Approved # {} /\ Some # {}
  <2>1. First(Some) \in Some /\ \A p \in Some : reviewedAt[p] <= reviewedAt[First(Some)]
    BY <1>4, FirstIsLast DEF Candidates
  <2>2. Effective = value[First(Some)] /\ Effective # 0
    BY <1>4, <2>1 DEF Effective
  <2>3. Effective # None
    BY <2>1, <2>2 DEF Posted, TypeOK, Candidates
  <2>4. ASSUME NEW q \in Requests, Newest(q) PROVE value[q] \in {Effective, 0}
    <3>1. CASE value[q] = 0
      BY <3>1
    <3>2. CASE value[q] # 0
      <4>1. q \in Some
        BY <1>1, <2>4, <3>2 DEF Newest
      <4>2. First(Some) \in Approved
        BY <1>1, <2>1
      <4>3. reviewedAt[q] <= reviewedAt[First(Some)] /\ reviewedAt[First(Some)] <= reviewedAt[q]
        BY <2>1, <2>4, <4>1, <4>2 DEF Newest
      <4>4. reviewedAt[q] \in Nat /\ reviewedAt[First(Some)] \in Nat
        BY <4>2 DEF TypeOK, Approved
      <4>5. q = First(Some)
        BY <2>4, <4>2, <4>3, <4>4 DEF Apart, Newest
      <4> QED BY <2>2, <4>5
    <3> QED BY <3>1, <3>2
  <2> QED BY <1>4, <2>2, <2>3, <2>4 DEF Right
<1> QED BY <1>2, <1>3, <1>4

\* Without failed calls and races, what is not right yet will be set right.
LEMMA SetRightStep ==
  ASSUME IInv, Spent, Apart, OneAtATime, Foremost, SetRight, [Next]_vars, Smooth, Smooth'
  PROVE  SetRight'
<1> USE DEF SetRight, IInv, TypeOK
<1>1. CASE \E x \in Handlers : Approves(x)
  BY <1>1 DEF Approves
<1>2. CASE Approved' = Approved /\ applying' \in SUBSET applying
  <2> DEFINE RightThen(v) ==
        IF Approved' = {} THEN v = Default
        ELSE \A q \in Requests : Newest(q)' => value'[q] \in {v, 0}
  <2>1. \A v : RightThen(v) <=> Right(v)
    <3>1. \A q \in Requests : Newest(q) => value'[q] = value[q]
      BY ApprovalSteps DEF Lasting, Newest
    <3> QED BY <1>2, <3>1, NewestSteps DEF Right
  <2>2. (Right(plan)' <=> RightThen(plan')) /\ (Right(has)' <=> RightThen(has'))
    BY DEF Right
  <2> HIDE DEF RightThen
  <2>3. SUFFICES
          /\ container' = "creating" => RightThen(plan') \/ applying' # {}
          /\ container' = "there" =>
               RightThen(has') \/ applying' # {} \/ \E x \in Handlers : Unfinished(x)' /\ job'[x].row = rows'
    BY <2>2
  <2>4. CASE UNCHANGED <<containerVars, applying, job>>
    BY <2>1, <2>4 DEF containerVars, Unfinished
  <2>5. ASSUME NEW x \in Handlers, ApplyToExisting(x)
        PROVE  /\ container' # "creating"
               /\ container' = "there" => \E y \in Handlers : Unfinished(y)' /\ job'[y].row = rows'
    <3>1. container # "creating"
      BY <2>5 DEF ApplyToExisting, Smooth
    <3> QED BY <2>5, <3>1 DEF ApplyToExisting, containerVars, Unfinished
  <2>6. ~((\E x \in Handlers : ApplyFails(x) \/ ReconfigureFails(x)) \/ ProvisionFails)
    BY DEF ApplyFails, ReconfigureFails, ProvisionFails, Fault, Smooth
  <2>7. CASE CreateRow \/ DeleteContainer
    BY <2>7 DEF CreateRow, DeleteContainer
  <2>8. CASE ReadApproved
    BY <2>1, <2>8, EffectiveIsRight DEF ReadApproved
  <2>9. CASE Provision
    BY <2>1, <2>9 DEF Provision
  <2>10. ASSUME NEW x \in Handlers, Reconfigure(x)
         PROVE  /\ container' = "creating" => RightThen(plan') \/ applying' # {}
                /\ container' = "there" => RightThen(has')
    <3>1. Newest(RequestOf(x)) /\ job[x].value = value[RequestOf(x)] /\ RequestOf(x) \in Requests
      BY <2>10 DEF Reconfigure, Foremost, Newest, Approved
    <3>2. Right(job[x].value)
      BY <3>1, NewestIsOne DEF Right, Newest
    <3>3. applying = {} /\ \A y \in Handlers : Unfinished(y) => y = x
      BY <2>10 DEF Reconfigure, OneAtATime
    <3>4. container' = container /\ plan' = plan /\ rows' = rows /\ applying' = applying
      BY <2>10 DEF Reconfigure
    <3>5. CASE container = "there" /\ job[x].row = rows
      BY <2>1, <2>10, <3>2, <3>4, <3>5 DEF Reconfigure
    <3>6. CASE ~(container = "there" /\ job[x].row = rows)
      <4>1. has' = has
        BY <2>10, <3>6 DEF Reconfigure
      <4> QED BY <2>1, <3>3, <3>4, <3>6, <4>1
    <3> QED BY <3>5, <3>6
  <2>11. ASSUME NEW q \in Requests, Post(q) PROVE UNCHANGED <<containerVars, applying, job>>
    BY <1>2, <2>11 DEF Post
  <2>12. ASSUME NEW r \in Reviews, Approve(r) PROVE UNCHANGED <<containerVars, applying, job>>
    BY <1>2, <2>12 DEF Approve
  <2>13. ASSUME NEW r \in Reviews, ReviewLoad(r) \/ ReviewCheck(r) \/ Deny(r)
         PROVE  UNCHANGED <<containerVars, applying, job>>
    BY <2>13 DEF ReviewLoad, ReviewCheck, Deny
  <2>14. CASE Next
    <3>1. CASE \E q \in Requests : Post(q)
      BY <2>4, <2>11, <3>1
    <3>2. CASE \E r \in Reviews : ReviewLoad(r) \/ ReviewCheck(r) \/ Approve(r) \/ Deny(r)
      BY <2>4, <2>12, <2>13, <3>2
    <3>3. CASE \E x \in Handlers : ApplyToExisting(x)
      BY <2>5, <3>3
    <3>4. CASE \E x \in Handlers : Reconfigure(x)
      BY <2>10, <3>4
    <3> QED BY <2>6, <2>7, <2>8, <2>9, <2>14, <3>1, <3>2, <3>3, <3>4 DEF Next
  <2> QED BY <2>4, <2>14 DEF vars
<1> QED BY <1>1, <1>2, ApprovalSteps

\* What each calm step keeps.
LEMMA LInvAlways == (Init => LInv) /\ (LInv /\ [Next]_vars => LInv')
<1>1. Init => LInv
  <2> SUFFICES ASSUME Init PROVE LInv
    OBVIOUS
  <2>1. Spent /\ Apart /\ OneAtATime /\ Foremost /\ SetRight
    BY DEF Init, Spent, Apart, OneAtATime, Foremost, SetRight, Unfinished, Approved
  <2> QED BY <2>1, IInvInit DEF LInv
<1>2. ASSUME LInv, [Next]_vars PROVE LInv'
  <2>1. IInv /\ IInv'
    BY <1>2, IInvStep DEF LInv
  <2>2. ASSUME Smooth' PROVE Smooth
    BY <1>2, <2>1, <2>2, SmoothBefore
  <2>3. ASSUME Smooth' PROVE Spent' /\ Apart' /\ OneAtATime' /\ Foremost' /\ SetRight'
    <3>1. Smooth /\ Spent /\ Apart /\ OneAtATime /\ Foremost /\ SetRight
      BY <1>2, <2>2, <2>3 DEF LInv
    <3> QED BY <1>2, <2>1, <2>3, <3>1, SpentStep, ApartStep, OnWaySteps, SetRightStep
  <2> QED BY <2>1, <2>3 DEF LInv
<1> QED BY <1>1, <1>2

\* When nothing is under way, a container that is there has the value approved last
\* (resource-requests.js, getApprovedResources), for any number of requests, reviews and
\* creations: as long as no call fails, no approval falls between a creation's reading and its
\* end, and no two of a container's jobs run together.
THEOREM LastApprovalHolds == Spec => []LatestIsInForce
<1>1. ASSUME LInv PROVE LatestIsInForce
  <2> SUFFICES ASSUME AtRest, faults = 0, causes = {}, container = "there"
               PROVE  IF Approved = {} THEN has = Default ELSE value[Latest] \in {has, 0}
    BY DEF LatestIsInForce
  <2>1. Right(has)
    BY <1>1 DEF LInv, Smooth, SetRight, AtRest
  <2>2. ASSUME Approved # {} PROVE Newest(Latest) /\ Latest \in Requests
    <3>1. First(Approved) \in Approved /\ \A p \in Approved : reviewedAt[p] <= reviewedAt[First(Approved)]
      BY <1>1, <2>2, FirstIsLast DEF LInv, IInv, Approved
    <3>2. Latest = First(Approved)
      BY DEF Latest, First
    <3> QED BY <3>1, <3>2 DEF Newest, Approved
  <2> QED BY <2>1, <2>2 DEF Right
<1> QED BY <1>1, LInvAlways, PTL DEF Spec
=============================================================================
