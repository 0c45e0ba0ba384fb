-------------------------- MODULE ResourceRequests --------------------------
(***************************************************************************)
(* Requests for a resource of a container, from the user's POST over the   *)
(* administrator's review (routers/api/v1/resource-requests.js) to the     *)
(* guest: the creation job reads what is approved for the (site, hostname, *)
(* owner) of the container it makes (models/resourcerequest.js), and each  *)
(* approval queues a job that sets the value on the container there is.    *)
(*                                                                         *)
(* One identity, and one type of resource (memory, swap or cpus: the types *)
(* are independent; rootfs, which a clone leaves as it is, is left out).   *)
(* The container may be deleted and made again.  Nothing is locked: a      *)
(* handler awaits between its steps, and the runner starts a job without   *)
(* waiting for the one before (see JobRunner).  What a DELETE in the       *)
(* middle of a creation does is the subject of Provisioning.               *)
(***************************************************************************)
EXTENDS Naturals

CONSTANTS
  Requests,      \* ResourceRequest rows
  Reviews,       \* approve and deny requests
  Values,        \* values that are asked for
  Default,       \* RESOURCE_DEFAULTS of the type
  None,
  MaxRows,       \* bound: Containers rows of the identity, one after another
  MaxFaults      \* bound: failed calls

ASSUME ConstantsAssumption ==
  /\ Values \subseteq Nat /\ Default \in Nat
  /\ None \notin Requests \cup Nat
  /\ Requests \cap Reviews = {}
  /\ MaxRows \in Nat /\ MaxFaults \in Nat

VARIABLES
  status, value, \* ResourceRequest.status, or "no" row, and value
  reviewedAt,    \* ResourceRequest.reviewedAt, or 0
  clock,
  applying,      \* handlers that have approved, and have still to apply
  review,        \* the review handlers
  rows,          \* Containers rows so far
  container,     \* the last one: "no" row, "queued", "creating", "there", "failed"
  plan,          \* the value its creation job has read
  has,           \* the guest's value, or None
  job,           \* the reconfiguration job that a handler queued
  faults,
  causes         \* history: races that have happened

requestVars == <<status, value, reviewedAt, clock>>
containerVars == <<rows, container, plan, has>>
vars == <<requestVars, applying, review, containerVars, job, faults, causes>>

Handlers == Requests \cup Reviews      \* a POST that is approved at once, a review
NoReview == [pc |-> "idle", of |-> None]
NoJob    == [pc |-> "no", row |-> 0, value |-> 0]
Races    == {"contested", "window", "parallel"}

TypeOK ==
  /\ status \in [Requests -> {"no", "pending", "approved", "denied"}]
  /\ value \in [Requests -> Values \cup {None}]
  /\ reviewedAt \in [Requests -> Nat] /\ clock \in Nat
  /\ applying \in SUBSET Handlers
  /\ review \in [Reviews -> [pc: {"idle", "check", "update", "deny", "apply", "done"},
                             of: Requests \cup {None}]]
  /\ rows \in 0..MaxRows
  /\ container \in {"no", "queued", "creating", "there", "failed"}
  /\ plan \in Values \cup {Default, None} /\ has \in Values \cup {Default, None}
  /\ job \in [Handlers -> [pc: {"no", "done"}, row: {0}, value: {0}]
                          \cup [pc: {"pending"}, row: 0..MaxRows, value: Values]]
  /\ faults \in 0..MaxFaults /\ causes \in SUBSET Races

Init ==
  /\ status = [q \in Requests |-> "no"] /\ value = [q \in Requests |-> None]
  /\ reviewedAt = [q \in Requests |-> 0] /\ clock = 0
  /\ applying = {} /\ review = [r \in Reviews |-> NoReview]
  /\ rows = 0 /\ container = "no" /\ plan = None /\ has = None
  /\ job = [x \in Handlers |-> NoJob]
  /\ faults = 0 /\ causes = {}

Fault == faults < MaxFaults /\ faults' = faults + 1

Unfinished(x) == job[x].pc = "pending"

\* An approval while another one is still being applied.
Parallel == {race \in {"parallel"} : applying # {} \/ \E x \in Handlers : Unfinished(x)}

Stamp(q, s) ==
  /\ status' = [status EXCEPT ![q] = s]
  /\ reviewedAt' = [reviewedAt EXCEPT ![q] = clock + 1]
  /\ clock' = clock + 1
-----------------------------------------------------------------------------
(* The web server                                                           *)

\* POST: administrators, and values up to the default, need no review.
Post(q) ==
  /\ status[q] = "no"
  /\ \E v \in Values, admin \in BOOLEAN :
       /\ value' = [value EXCEPT ![q] = v]
       /\ IF admin \/ v <= Default
          THEN /\ Stamp(q, "approved")
               /\ applying' = applying \cup {q} /\ causes' = causes \cup Parallel
          ELSE /\ status' = [status EXCEPT ![q] = "pending"]
               /\ UNCHANGED <<reviewedAt, clock, applying, causes>>
  /\ UNCHANGED <<review, containerVars, job, faults>>

\* Mutant of ReviewLoad: the status is not asked for.
ReviewLoadAny(r) ==
  /\ review[r].pc = "idle"
  /\ \E q \in Requests, step \in {"check", "deny"} :
       /\ status[q] # "no"
       /\ review' = [review EXCEPT ![r] = [pc |-> step, of |-> q]]
       /\ causes' = causes \cup {race \in {"contested"} : \E s \in Reviews \ {r} :
            review[s].of = q /\ review[s].pc # "done"}
  /\ UNCHANGED <<requestVars, applying, containerVars, job, faults>>

\* Approve, or deny: the request must be pending when it is loaded ("contested" if
\* another review of it is not over).
ReviewLoad(r) ==
  /\ review[r].pc = "idle"
  /\ \E q \in Requests, step \in {"check", "deny"} :
       /\ status[q] = "pending"
       /\ review' = [review EXCEPT ![r] = [pc |-> step, of |-> q]]
       /\ causes' = causes \cup {race \in {"contested"} : \E s \in Reviews \ {r} :
            review[s].of = q /\ review[s].pc # "done"}
  /\ UNCHANGED <<requestVars, applying, containerVars, job, faults>>

\* A container of the identity must be provisioned, or the answer is 422.
ReviewCheck(r) ==
  /\ review[r].pc = "check"
  /\ review' = [review EXCEPT ![r].pc = IF container = "there" THEN "update" ELSE "done"]
  /\ UNCHANGED <<requestVars, applying, containerVars, job, faults, causes>>

\* request.update(): whatever the status is by now.
Approve(r) ==
  /\ review[r].pc = "update"
  /\ Stamp(review[r].of, "approved")
  /\ applying' = applying \cup {r} /\ causes' = causes \cup Parallel
  /\ review' = [review EXCEPT ![r].pc = "apply"]
  /\ UNCHANGED <<value, containerVars, job, faults>>

\* Mutant of Deny: a status that is not one of the model's.
DenyMisspelt(r) ==
  /\ review[r].pc = "deny"
  /\ Stamp(review[r].of, "rejected")
  /\ review' = [review EXCEPT ![r].pc = "done"]
  /\ UNCHANGED <<value, applying, containerVars, job, faults, causes>>

Deny(r) ==
  /\ review[r].pc = "deny"
  /\ Stamp(review[r].of, "denied")
  /\ review' = [review EXCEPT ![r].pc = "done"]
  /\ UNCHANGED <<value, applying, containerVars, job, faults, causes>>

RequestOf(x) == IF x \in Reviews THEN review[x].of ELSE x

Applied(x) ==
  /\ applying' = applying \ {x}
  /\ review' = [r \in Reviews |-> IF r = x THEN [review[r] EXCEPT !.pc = "done"] ELSE review[r]]

\* applyResourceToExistingContainers: a job for a container that is provisioned.
\* Nothing for one whose creation is under way, although that may have read the
\* approved values before ("window").
ApplyToExisting(x) ==
  /\ x \in applying
  /\ IF container = "there"
     THEN /\ job' = [job EXCEPT ![x] =
               [pc |-> "pending", row |-> rows, value |-> value[RequestOf(x)]]]
          /\ UNCHANGED causes
     ELSE /\ causes' = causes \cup {race \in {"window"} : container = "creating"}
          /\ UNCHANGED job
  /\ Applied(x)
  /\ UNCHANGED <<requestVars, containerVars, faults>>

\* The database fails between the approval and its jobs: it stays approved.
ApplyFails(x) ==
  /\ x \in applying
  /\ Fault
  /\ Applied(x)
  /\ UNCHANGED <<requestVars, containerVars, job, causes>>
-----------------------------------------------------------------------------
(* getApprovedResources                                                     *)

\* Mutant of Candidates: the status is not asked for.
AllRows == {q \in Requests : status[q] # "no"}

Candidates == {q \in Requests : status[q] = "approved"}

\* Mutant of First: ORDER BY "reviewedAt" ASC.
FirstAscending(S) == CHOOSE q \in S : \A p \in S : reviewedAt[q] <= reviewedAt[p]

\* ORDER BY "reviewedAt" DESC.
First(S) == CHOOSE q \in S : \A p \in S : reviewedAt[p] <= reviewedAt[q]

\* A value of 0 counts as none, and the next row is looked at.
Effective ==
  LET some == {q \in Candidates : value[q] # 0} IN
  IF some # {} THEN value[First(some)] ELSE IF Candidates # {} THEN 0 ELSE None
-----------------------------------------------------------------------------
(* The container                                                            *)

\* POST /containers.
CreateRow ==
  /\ container = "no" /\ rows < MaxRows
  /\ container' = "queued" /\ rows' = rows + 1
  /\ UNCHANGED <<requestVars, applying, review, plan, has, job, faults, causes>>

\* create-container.js begins: approvedResources.x || default.
ReadApproved ==
  /\ container = "queued"
  /\ plan' = IF Effective \in {None, 0} THEN Default ELSE Effective
  /\ container' = "creating"
  /\ UNCHANGED <<requestVars, applying, review, rows, has, job, faults, causes>>

\* The guest is made with these, and the provider id stored.
Provision ==
  /\ container = "creating"
  /\ has' = plan /\ plan' = None
  /\ container' = "there"
  /\ UNCHANGED <<requestVars, applying, review, rows, job, faults, causes>>

ProvisionFails ==
  /\ container \in {"queued", "creating"}
  /\ Fault
  /\ plan' = None /\ container' = "failed"
  /\ UNCHANGED <<requestVars, applying, review, rows, has, job, causes>>

\* DELETE /containers/:id.
DeleteContainer ==
  /\ container \in {"there", "failed"}
  /\ container' = "no" /\ has' = None
  /\ UNCHANGED <<requestVars, applying, review, rows, plan, job, faults, causes>>

\* reconfigure-container.js --container-id=<row> --<type>=<value>; it fails when the
\* row is gone or has no provider id.
Reconfigure(x) ==
  /\ Unfinished(x)
  /\ has' = IF container = "there" /\ job[x].row = rows THEN job[x].value ELSE has
  /\ job' = [job EXCEPT ![x] = [NoJob EXCEPT !.pc = "done"]]
  /\ UNCHANGED <<requestVars, applying, review, rows, container, plan, faults, causes>>

ReconfigureFails(x) ==
  /\ Unfinished(x)
  /\ Fault
  /\ job' = [job EXCEPT ![x] = [NoJob EXCEPT !.pc = "done"]]
  /\ UNCHANGED <<requestVars, applying, review, containerVars, causes>>
-----------------------------------------------------------------------------
Next ==
  \/ \E q \in Requests : Post(q)
  \/ \E r \in Reviews : ReviewLoad(r) \/ ReviewCheck(r) \/ Approve(r) \/ Deny(r)
  \/ \E x \in Handlers : ApplyToExisting(x) \/ ApplyFails(x) \/ Reconfigure(x) \/ ReconfigureFails(x)
  \/ CreateRow \/ ReadApproved \/ Provision \/ ProvisionFails \/ DeleteContainer

Spec == Init /\ [][Next]_vars
-----------------------------------------------------------------------------
(* Properties                                                               *)

Approved == {q \in Requests : status[q] = "approved"}

\* The guest never has more or less than the default and what has been approved: a
\* value that is pending or was denied does not reach it, whether it is made before or
\* after the review, and made again; unless two reviews of one request overlap.
OnlyTheApproved ==
  "contested" \notin causes /\ has # None =>
    has = Default \/ \E q \in Approved : value[q] = has

AtRest ==
  /\ applying = {} /\ \A x \in Handlers : ~Unfinished(x)
  /\ \A r \in Reviews : review[r].pc \in {"idle", "done"}

Latest == CHOOSE q \in Approved : \A p \in Approved : reviewedAt[p] <= reviewedAt[q]

\* When everything is over, a container that is there has the value approved last,
\* unless that is 0: as long as no call has failed, no approval fell between the
\* creation's reading and its end, and no two jobs of the container ran together.
LatestIsInForce ==
  AtRest /\ faults = 0 /\ causes = {} /\ container = "there" =>
    IF Approved = {} THEN has = Default ELSE value[Latest] \in {has, 0}

\* Who is told "approved" stays approved, and an approval is never taken back by a
\* denial, unless the two reviews overlap.
ReviewsAreFinal ==
  [][\A q \in Requests :
       status[q] \in {"approved", "denied"} /\ "contested" \notin causes =>
         status'[q] = status[q] /\ reviewedAt'[q] = reviewedAt[q]]_vars
-----------------------------------------------------------------------------
(* The inductive invariant, part by part (see ResourceRequests_proofs)      *)

\* Stamps are not in the future: there is a latest approval.
Stamps == \A q \in Requests : reviewedAt[q] <= clock

Posted == \A q \in Requests : status[q] # "no" => value[q] \in Values

Open(r) == review[r].pc \in {"check", "update", "deny"}

\* A review is of a request that exists; what is to be applied was approved once.
Loaded ==
  /\ \A r \in Reviews : review[r].pc \notin {"idle", "done"} =>
       review[r].of \in Requests /\ status[review[r].of] # "no"
  /\ \A x \in applying : IF x \in Reviews THEN review[x].pc = "apply" ELSE status[x] # "no"

\* What is under review is undecided, and by no other review.
Undecided == \A r \in Reviews : Open(r) =>
  /\ status[review[r].of] = "pending"
  /\ \A s \in Reviews \ {r} : Open(s) => review[s].of # review[r].of

Decided == \A x \in applying : status[RequestOf(x)] = "approved"

Granted(v) == v \in {Default, None} \/ \E q \in Approved : value[q] = v

\* Whatever may still reach the guest has been approved.
OnTheWay ==
  /\ \A x \in Handlers : Unfinished(x) => Granted(job[x].value)
  /\ Granted(plan) /\ Granted(has)

Uncontested == "contested" \notin causes => Undecided /\ Decided /\ OnTheWay

IInv == TypeOK /\ Stamps /\ Posted /\ Loaded /\ Uncontested
=============================================================================
