----------------------------- MODULE KnownGood ------------------------------
(***************************************************************************)
(* What the site agent promises the services it configures, whatever files *)
(* they read and however it writes them: a service is given the version of *)
(* one offer, whole, and only when it passes the service's test; when the  *)
(* service does not come up with it, it goes back to exactly the version   *)
(* that it last came up with ("so the service keeps running the last       *)
(* known-good config", agent/src/apply.ts:168); and what the agent says of *)
(* a service is how its latest attempt ended.  The promise holds up to the *)
(* second mishap.                                                          *)
(***************************************************************************)
CONSTANTS
  Services,
  Acceptable,   \* the versions that pass the test of the service they are for
  Nothing,      \* an offer's version for a service that it does not manage
  Nobody

VARIABLES
  offered,      \* offered[s]: what the manager serves for service s
  fetched,      \* fetched[s]: what the agent was last given for it
  running,      \* running[s]: the version that s has read
  good,         \* good[s]: the version that s last came up with
  up,           \* up[s]: s runs
  trying,       \* the service that has just failed to come up, or Nobody
  said,         \* said[s]: how the latest attempt with s ended
  calm          \* at most one thing has gone wrong

offer == <<offered, fetched>>
service == <<running, good, up>>

Init ==
  /\ fetched = [s \in Services |-> Nothing]
  /\ \A s \in Services : running[s] \in Acceptable
  /\ good = running
  /\ up = [s \in Services |-> TRUE]
  /\ said = [s \in Services |-> "unknown"]
  /\ trying = Nobody /\ calm = TRUE

\* The manager serves something else.
Offer == UNCHANGED <<fetched, service, trying, said, calm>>

\* The agent takes over the offer: for all the services, and not during an attempt.
Fetch ==
  /\ trying = Nobody
  /\ fetched' = offered
  /\ UNCHANGED <<offered, service, trying, said, calm>>

Say(s, result) == said' = [said EXCEPT ![s] = result] /\ UNCHANGED <<offer, calm>>

\* The service runs with this version already, or is not managed.
Confirm(s) ==
  /\ trying = Nobody
  /\ fetched[s] \in {Nothing, running[s]}
  /\ Say(s, "success")
  /\ UNCHANGED <<service, trying>>

\* The version did not pass the test: the service has seen nothing of it.
Refuse(s) ==
  /\ trying = Nobody
  /\ fetched[s] # Nothing
  /\ Say(s, "failure")
  /\ UNCHANGED <<service, trying>>

\* The service comes up with the version, which is its known-good one from now on.
Accept(s) ==
  /\ trying = Nobody
  /\ fetched[s] \in Acceptable
  /\ running' = [running EXCEPT ![s] = fetched[s]]
  /\ good' = [good EXCEPT ![s] = fetched[s]]
  /\ up' = [up EXCEPT ![s] = TRUE]
  /\ Say(s, "success")
  /\ UNCHANGED trying

\* It does not come up, or too late: it has read the version, or not, or is stopped.
Fail(s) ==
  /\ trying = Nobody /\ trying' = s
  /\ fetched[s] \in Acceptable
  /\ \/ UNCHANGED <<running, up>>
     \/ running' = [running EXCEPT ![s] = fetched[s]] /\ up' = [up EXCEPT ![s] = TRUE]
     \/ up' = [up EXCEPT ![s] = FALSE] /\ UNCHANGED running
  /\ UNCHANGED <<offer, good, said, calm>>

\* The next thing that happens to such a service.
GoBack(s) ==
  /\ trying = s /\ trying' = Nobody
  /\ running' = [running EXCEPT ![s] = good[s]]
  /\ up' = [up EXCEPT ![s] = TRUE]
  /\ Say(s, "failure")
  /\ UNCHANGED good

Attempt(s) == Confirm(s) \/ Refuse(s) \/ Accept(s) \/ Fail(s) \/ GoBack(s)

\* The second accident, or the death of the agent: nothing is promised any more.
Mishap == calm' = FALSE

Next == Offer \/ Fetch \/ (\E s \in Services : Attempt(s)) \/ Mishap

vars == <<offer, service, trying, said, calm>>
Spec == Init /\ [][Next]_vars
=============================================================================
