-------------------------- MODULE ContainerServices --------------------------
(***************************************************************************)
(* Ports, external hostnames and A records while several requests add and  *)
(* remove services: POST and PUT in one transaction each, DELETE in none.  *)
(* An insertion of a value another transaction has inserted or removed,    *)
(* uncommitted, waits for its end; requests that wait for each other are   *)
(* found by the database, which aborts one.  Cloudflare knows nothing of   *)
(* transactions.                                                           *)
(***************************************************************************)
EXTENDS Naturals, Sequences, FiniteSets

CONSTANTS
  Ports,      \* external ports of a protocol, a range 1..n
  Hosts,      \* external hostnames
  Held,       \* the one that container "c" has at first
  Tcp,        \* in a request: the next free port
  MaxAsks,    \* bound: requests
  Asks,       \* what they may be: sequences of services to add, sets of services to remove,
              \* each named by its container and its value (in the code by its id)
  MaxTroubles \* bound: refused deletions, failed calls of Cloudflare

Apps == {"c", "d", "e"}   \* containers: "c" and "d" from the start, "e" may be made

ASSUME PortsAreNumbers ==
  Ports \subseteq Nat \ {0} /\ Held \in Hosts /\ Hosts \cap Ports = {} /\ Tcp \notin Hosts \cup Ports

\* The hostnames of a POST have their records from its job, and are left out here.
ASSUME AsksAreRequests ==
  /\ MaxAsks \in Nat /\ MaxTroubles \in Nat
  /\ Asks \subseteq [kind : {"post", "put", "delete"}, of : Apps, adds : Seq(Hosts \cup {Tcp}),
                    dels : SUBSET (Apps \X (Hosts \cup Ports))]
  /\ \A a \in Asks : /\ a.kind = "post" => a.adds \in Seq({Tcp})
                     /\ a.kind # "put" => a.dels = {}
                     /\ IsFiniteSet(a.dels)

VARIABLES
  has,      \* committed services: value (port or hostname) -> container or "-"
  apps,     \* containers that exist
  record,   \* hostnames with an A record
  req,      \* request -> kind, container, where it is, what it adds and removes
  tangled,  \* history: requests on one container have overlapped
  stray,    \* history: hostnames of other containers' services that a PUT has marked as deleted
  refused,  \* history: what requests asked that were refused with no cause and without having overlapped another
  troubles

serviceVars == <<has, apps, record, req, tangled, stray, refused, troubles>>

Requests == 1..MaxAsks     \* in the order they begin
Values == Ports \cup Hosts
NoReq == [kind |-> "-", of |-> "c", pc |-> "new", asks |-> <<>>, adds |-> <<>>, dels |-> {},
          ins |-> {}, rem |-> {}, drops |-> {}, dns |-> <<>>, met |-> FALSE]

Busy(r) == req[r].pc \notin {"new", "over"}
Done(r) == req' = [req EXCEPT ![r] = [NoReq EXCEPT !.pc = "over"]]
Trouble == troubles < MaxTroubles /\ troubles' = troubles + 1

\* Values a request has inserted or removed and not committed.
Pending(r) == IF Busy(r) THEN req[r].ins \cup req[r].rem ELSE {}
Holders(r, v) == {q \in Requests \ {r} : v \in Pending(q)}

-----------------------------------------------------------------------------

\* The handler begins: the container is loaded, for a DELETE with its services.
Begins(r) ==
  /\ req[r].pc = "new" /\ \A q \in 1..(r - 1) : req[q].pc # "new"
  /\ \E a \in Asks :
       /\ IF a.kind = "post" THEN a.of \notin apps ELSE a.of \in apps
       /\ req' = [q \in Requests |->
            IF q = r THEN [NoReq EXCEPT !.kind = a.kind, !.of = a.of, !.asks = a.adds, !.adds = a.adds,
                             !.dels = a.dels, !.drops = IF a.kind = "delete" THEN {v \in Hosts : has[v] = a.of} ELSE {},
                             !.pc = IF a.kind = "delete" THEN "unname" ELSE "remove",
                             !.met = \E p \in Requests : Busy(p)]
            ELSE IF Busy(q) THEN [req[q] EXCEPT !.met = TRUE] ELSE req[q]]
       /\ tangled' = (tangled \/ \E q \in Requests : Busy(q) /\ req[q].of = a.of)
  /\ UNCHANGED <<has, apps, record, stray, refused, troubles>>

\* The values of the services marked as deleted that are still there, whoever has them:
\* they are looked up by their id alone.
Found(r) == {v \in Values : <<has[v], v>> \in req[r].dels}

\* First loop.  Each service that is found will have its record deleted; its row goes only
\* if it is the container's.
Remove(r) ==
  LET gone == {v \in Found(r) : has[v] = req[r].of} IN
  /\ req[r].pc = "remove"
  /\ \A v \in gone : Holders(r, v) = {}
  /\ req' = [req EXCEPT ![r].pc = "add", ![r].rem = gone, ![r].drops = Found(r) \cap Hosts]
  /\ stray' = stray \cup ((Found(r) \cap Hosts) \ gone)
  /\ UNCHANGED <<has, apps, record, tangled, refused, troubles>>

\* What a request sees: the rows that are committed, and in its own transaction also its
\* own insertions and removals.
Taken(r, own) ==
  IF own THEN ({v \in Values : has[v] # "-"} \ req[r].rem) \cup req[r].ins
  ELSE {v \in Values : has[v] # "-"}

\* Mutant of NextPort: the first of the range, whatever is there.
NextPortFirst(r) == IF Ports = {} THEN {} ELSE {CHOOSE p \in Ports : \A q \in Ports : p <= q}

\* nextAvailablePortInRange: POST reads in its transaction, PUT outside.
NextPort(r) ==
  {p \in Ports \ Taken(r, req[r].kind = "post") :
     \A q \in Ports \ Taken(r, req[r].kind = "post") : p <= q}

AskOf(r) == [kind |-> req[r].kind, of |-> req[r].of, adds |-> req[r].asks, dels |-> req[r].dels]

Rollback(r, just) ==
  /\ Done(r)
  /\ refused' = IF req[r].met \/ just THEN refused ELSE refused \cup {AskOf(r)}
  /\ UNCHANGED <<has, apps, record, tangled, stray, troubles>>

\* Next service to add: a port that is chosen now, or a hostname.
Choose(r) ==
  /\ req[r].pc = "add" /\ req[r].adds # <<>>
  /\ IF Head(req[r].adds) # Tcp
       THEN /\ req' = [req EXCEPT ![r].pc = "insert"]
            /\ UNCHANGED <<has, apps, record, tangled, stray, refused, troubles>>
     ELSE IF NextPort(r) = {} THEN Rollback(r, Ports \subseteq Taken(r, TRUE))
     ELSE /\ \E p \in NextPort(r) :
               req' = [req EXCEPT ![r].pc = "insert", ![r].adds = <<p>> \o Tail(@)]
          /\ UNCHANGED <<has, apps, record, tangled, stray, refused, troubles>>

\* The unique index: refused if the value is taken, once whoever holds it has ended.
InsertService(r) ==
  LET v == Head(req[r].adds) IN
  /\ req[r].pc = "insert" /\ Holders(r, v) = {}
  /\ IF v \in Taken(r, TRUE) THEN Rollback(r, v \in Hosts)
     ELSE /\ req' = [req EXCEPT ![r].pc = "add", ![r].adds = Tail(@), ![r].ins = @ \cup {v}]
          /\ UNCHANGED <<has, apps, record, tangled, stray, refused, troubles>>

\* Two requests that wait for each other: the database aborts one.
Deadlocked(r) ==
  /\ req[r].pc = "insert"
  /\ \E q \in Holders(r, Head(req[r].adds)) :
       req[q].pc = "insert" /\ r \in Holders(q, Head(req[q].adds))
  /\ Rollback(r, FALSE)

\* Mutant of NamesOf: created before they are deleted.
NamesOfReversed(r) ==
  LET del == {<<"delete", h>> : h \in req[r].drops}
      new == {<<"create", h>> : h \in req[r].ins \cap Hosts}
  IN {a \o b : a \in {s \in [1..Cardinality(new) -> new] : {s[i] : i \in DOMAIN s} = new},
               b \in {s \in [1..Cardinality(del) -> del] : {s[i] : i \in DOMAIN s} = del}}

\* manageDnsRecords of a PUT: those deleted, then those created.
NamesOf(r) ==
  LET del == {<<"delete", h>> : h \in req[r].drops}
      new == {<<"create", h>> : h \in req[r].ins \cap Hosts}
  IN {a \o b : a \in {s \in [1..Cardinality(del) -> del] : {s[i] : i \in DOMAIN s} = del},
               b \in {s \in [1..Cardinality(new) -> new] : {s[i] : i \in DOMAIN s} = new}}

\* All rows are written.  A POST leaves the records to its job.
Written(r) ==
  /\ req[r].pc = "add" /\ req[r].adds = <<>>
  /\ \E names \in IF req[r].kind = "put" THEN NamesOf(r) ELSE {<<>>} :
       req' = [req EXCEPT ![r].pc = "name", ![r].dns = names]
  /\ UNCHANGED <<has, apps, record, tangled, stray, refused, troubles>>

\* One call of Cloudflare; one that fails is a warning.
Named(op, h) == IF op = "create" THEN record \cup {h} ELSE record \ {h}
Name(r) ==
  /\ req[r].pc = "name" /\ req[r].dns # <<>>
  /\ \/ record' = Named(Head(req[r].dns)[1], Head(req[r].dns)[2]) /\ UNCHANGED troubles
     \/ Trouble /\ UNCHANGED record
  /\ req' = [req EXCEPT ![r].dns = Tail(@)]
  /\ UNCHANGED <<has, apps, tangled, stray, refused>>

\* A container that has been destroyed meanwhile: its foreign key refuses the commit.
Commit(r) ==
  LET q == req[r] IN
  /\ q.pc = "name" /\ q.dns = <<>>
  /\ IF q.kind = "put" /\ q.of \notin apps THEN Rollback(r, FALSE)
     ELSE /\ has' = [v \in Values |->
                IF v \in q.ins THEN q.of ELSE IF v \in q.rem THEN "-" ELSE has[v]]
          /\ apps' = apps \cup {q.of}
          /\ Done(r)
          /\ UNCHANGED <<record, tangled, stray, refused, troubles>>

-----------------------------------------------------------------------------
(* DELETE /containers/:id *)

\* The records of the services that were loaded.
Unname(r) ==
  /\ req[r].pc = "unname"
  /\ IF req[r].drops = {}
       THEN req' = [req EXCEPT ![r].pc = "destroy"] /\ UNCHANGED <<record, troubles>>
       ELSE \E h \in req[r].drops :
              /\ req' = [req EXCEPT ![r].drops = @ \ {h}]
              /\ \/ record' = Named("delete", h) /\ UNCHANGED troubles
                 \/ Trouble /\ UNCHANGED record
  /\ UNCHANGED <<has, apps, tangled, stray, refused>>

\* A guest of another hostname: refused, with the records gone already.
Mismatch(r) ==
  /\ req[r].pc = "destroy" /\ Trouble
  /\ Done(r)
  /\ UNCHANGED <<has, apps, record, tangled, stray, refused>>

\* The row and, by cascade, its services, when no transaction holds them.
DestroyContainer(r) ==
  LET c == req[r].of IN
  /\ req[r].pc = "destroy"
  /\ \A q \in Requests \ {r} : Busy(q) /\ req[q].of = c => Pending(q) = {}
  /\ has' = [v \in Values |-> IF has[v] = c THEN "-" ELSE has[v]]
  /\ apps' = apps \ {c}
  /\ Done(r)
  /\ UNCHANGED <<record, tangled, stray, refused, troubles>>

-----------------------------------------------------------------------------

ServicesInit ==
  /\ has = [v \in Values |-> IF v = Held THEN "c" ELSE "-"] /\ record = {Held}
  /\ apps = {"c", "d"} /\ req = [r \in Requests |-> NoReq]
  /\ tangled = FALSE /\ stray = {} /\ refused = {} /\ troubles = 0

ServicesNext ==
  \E r \in Requests :
    \/ Begins(r) \/ Remove(r) \/ Choose(r) \/ InsertService(r) \/ Deadlocked(r) \/ Written(r)
    \/ Name(r) \/ Commit(r) \/ Unname(r) \/ Mismatch(r) \/ DestroyContainer(r)

ServicesSpec == ServicesInit /\ [][ServicesNext]_serviceVars

-----------------------------------------------------------------------------
(* Properties *)

ServiceRequest ==
  [kind : {"-", "post", "put", "delete"}, of : Apps,
   pc : {"new", "remove", "add", "insert", "name", "unname", "destroy", "over"},
   asks : Seq(Hosts \cup {Tcp}), adds : Seq(Values \cup {Tcp}), dels : SUBSET (Apps \X Values),
   ins : SUBSET Values, rem : SUBSET Values, drops : SUBSET Hosts,
   dns : Seq({"create", "delete"} \X Hosts), met : BOOLEAN]

ServicesTypeOK ==
  /\ has \in [Values -> Apps \cup {"-"}] /\ \A v \in Values : has[v] \in apps \cup {"-"}
  /\ apps \subseteq Apps /\ record \subseteq Hosts /\ stray \subseteq Hosts
  /\ req \in [Requests -> ServiceRequest]
  /\ tangled \in BOOLEAN /\ troubles \in Nat

\* When no request is under way, a hostname has an A record if and only if a service has the
\* hostname, whoever else has taken it over since it was given up.  Excused: calls of
\* Cloudflare that fail and deletions that are refused after them, requests on one container
\* that overlap, and a hostname that a PUT has marked as deleted while it was another
\* container's: the code deletes its record and keeps its service.
RecordsFollowServices ==
  (\A r \in Requests : ~Busy(r)) /\ troubles = 0 /\ ~tangled
    => \A h \in Hosts \ stray : h \in record <=> has[h] # "-"

\* A request that met no other is refused only if it asked for a hostname that is taken,
\* for more ports than there are, or in a PUT for two ports or for one while it gave one up:
\* the code chooses each without seeing the one before, and without what is given up.
RefusedForCause ==
  \A q \in refused :
    LET automatic == {i \in DOMAIN q.adds : q.adds[i] = Tcp} IN
    /\ q.kind = "put" /\ automatic # {}
    /\ Cardinality(automatic) > 1 \/ \E p \in Ports : <<q.of, p>> \in q.dels

\* Services and records agree, and a request is refused for what it asked.
ServicesHold == RecordsFollowServices /\ RefusedForCause

=============================================================================
