------------------------------- MODULE Startup -------------------------------
(***************************************************************************)
(* Web servers and job runners that start, and are started again when they *)
(* fail: under the advisory lock, the pending migrations are applied, no   *)
(* transaction around their statements, and each file is recorded when its *)
(* last statement is done; then a web server fetches or makes the session  *)
(* secret and serves.                                                      *)
(* The lock belongs to a database session, which ends with the process or  *)
(* with its connection.                                                    *)
(*                                                                         *)
(* Of the migrations there are the one that moves data from one table to   *)
(* two others, holding it in memory meanwhile, and a later one.  Several   *)
(* statements of one purpose are a step of the model.  Nothing is lost:    *)
(* whoever finds the first index there fails, so one process at most is    *)
(* ever beyond it, and wherever that one stops no other gets any further.  *)
(***************************************************************************)
EXTENDS Naturals, Sequences, FiniteSets

CONSTANTS
  Webs, Runners,   \* processes
  Layer4, Https,   \* rows of Services: tcp or udp, and http
  MaxCrashes       \* bound: processes that die, lock connections that break

ASSUME RowsDiffer == Layer4 \cap Https = {}
ASSUME NobodyStarts == "nobody" \notin Webs \cup Runners

VARIABLES
  db,        \* tables, indexes, columns, types, rows of the child tables, SequelizeMeta
  lock,      \* who holds the advisory lock, or "nobody"
  strayed,   \* history: processes that have lost the lock while they had it
  stage,     \* process -> where its start is
  todo,      \* process -> statements left
  mem,       \* process -> rows read by the migration
  secrets,   \* SessionSecrets
  accepts,   \* web -> the secrets it verifies sessions with
  signs,     \* web -> the one it signs with (0: none)
  before,    \* history: web -> the secrets others signed with when it read them
  crashes

startVars == <<db, lock, strayed, stage, todo, mem, secrets, accepts, signs, before, crashes>>

Procs == Webs \cup Runners
Services == Layer4 \cup Https
Unread == [s \in Services |-> "-"]

-----------------------------------------------------------------------------
(* Migrations *)

\* Mutant of StatementsOf: a file is recorded before its statements.
StatementsOfLogged(f) ==
  IF f = "sti" THEN <<"sti", "tables", "indexes", "read", "drop", "retype", "insert http", "insert transport">>
  ELSE <<"later", "column">>

\* The awaits of up(), and the row in SequelizeMeta.  Two statements make the tables, two
\* the indexes, six drop indexes and columns, and up to nine change the type.
StatementsOf(f) ==
  IF f = "sti" THEN <<"tables", "indexes", "read", "drop", "retype", "insert http", "insert transport", "sti">>
  ELSE <<"column", "later">>

\* umzug.pending(), in the order of the files' names.
PendingFiles ==
  (IF "sti" \in db.meta THEN <<>> ELSE StatementsOf("sti"))
    \o (IF "later" \in db.meta THEN <<>> ELSE StatementsOf("later"))

\* A table is made if it is not there; an index, a column and a row of SequelizeMeta that
\* are there, and a column that is not, are errors.  A row without its values is refused.
Fails(p, s) ==
  \/ s = "indexes" /\ db.indexes
  \/ s = "drop" /\ ~db.columns
  \/ s = "column" /\ db.later
  \/ s = "insert http" /\ \E x \in Services : mem[p][x] = "blank http"
  \/ s = "insert transport" /\ \E x \in Services : mem[p][x] = "blank tcp"
  \/ s \in db.meta

After(p, s) ==
  CASE s = "tables" -> [db EXCEPT !.tables = TRUE]
    [] s = "indexes" -> [db EXCEPT !.indexes = TRUE]
    [] s = "read" -> db
    [] s = "drop" -> [db EXCEPT !.columns = FALSE]
    [] s = "retype" -> [db EXCEPT !.type = [x \in Services |-> IF @[x] = "tcp" THEN "transport" ELSE @[x]]]
    [] s = "insert http" -> [db EXCEPT !.http = @ \cup {x \in Services : mem[p][x] = "http"}]
    [] s = "insert transport" -> [db EXCEPT !.transport = @ \cup {x \in Services : mem[p][x] = "tcp"}]
    [] s = "column" -> [db EXCEPT !.later = TRUE]
    [] OTHER -> [db EXCEPT !.meta = @ \cup {s}]

-----------------------------------------------------------------------------
(* A start *)

Enter(p, from, to) == stage[p] = from /\ stage' = [stage EXCEPT ![p] = to]

\* systemd starts it, at first and again (Restart=on-failure).
Boot(p) ==
  /\ Enter(p, "off", "locking")
  /\ UNCHANGED <<db, lock, strayed, todo, mem, secrets, accepts, signs, before, crashes>>

\* acquireAdvisoryLock: waits until it is free.
AcquireLock(p) ==
  /\ lock = "nobody"
  /\ Enter(p, "locking", "migrating")
  /\ lock' = p
  /\ todo' = [todo EXCEPT ![p] = PendingFiles]
  /\ UNCHANGED <<db, strayed, mem, secrets, accepts, signs, before, crashes>>

\* One statement; an error ends the batch.
Statement(p) ==
  /\ stage[p] = "migrating" /\ todo[p] # <<>>
  /\ LET s == Head(todo[p]) IN
     IF Fails(p, s)
       THEN /\ Enter(p, "migrating", "failing")
            /\ todo' = [todo EXCEPT ![p] = <<>>]
            /\ UNCHANGED <<db, mem>>
       ELSE /\ db' = After(p, s)
            /\ mem' = [mem EXCEPT ![p] = IF s # "read" THEN @
                 ELSE [x \in Services |->
                        IF db.columns THEN db.type[x]
                        ELSE IF db.type[x] = "http" THEN "blank http"
                        ELSE IF db.type[x] = "tcp" THEN "blank tcp" ELSE "-"]]
            /\ todo' = [todo EXCEPT ![p] = Tail(@)]
            /\ UNCHANGED stage
  /\ UNCHANGED <<lock, strayed, secrets, accepts, signs, before, crashes>>

\* release, in the finally; a process that has failed exits.
ReleaseLock(p) ==
  /\ \/ todo[p] = <<>> /\ Enter(p, "migrating", IF p \in Webs THEN "secret" ELSE "up")
     \/ Enter(p, "failing", "off")
  /\ lock' = IF lock = p THEN "nobody" ELSE lock
  /\ strayed' = strayed \ {p}
  /\ mem' = [mem EXCEPT ![p] = Unread]
  /\ UNCHANGED <<db, todo, secrets, accepts, signs, before, crashes>>

\* getSessionSecrets: the latest signs, all are accepted.
ReadSecrets(p) ==
  /\ Enter(p, "secret", IF secrets = {} THEN "making" ELSE "up")
  /\ accepts' = [accepts EXCEPT ![p] = secrets]
  /\ signs' = [signs EXCEPT ![p] = Cardinality(secrets)]
  /\ before' = [before EXCEPT ![p] = {signs[q] : q \in {r \in Webs \ {p} : stage[r] = "up"}}]
  /\ UNCHANGED <<db, lock, strayed, todo, mem, secrets, crashes>>

MakeSecret(p) ==
  LET new == Cardinality(secrets) + 1 IN
  /\ Enter(p, "making", "up")
  /\ secrets' = secrets \cup {new}
  /\ accepts' = [accepts EXCEPT ![p] = {new}]
  /\ signs' = [signs EXCEPT ![p] = new]
  /\ UNCHANGED <<db, lock, strayed, todo, mem, before, crashes>>

-----------------------------------------------------------------------------
(* Crashes *)

Crash == crashes < MaxCrashes /\ crashes' = crashes + 1

\* The process dies, or is restarted: its sessions with the database end.
Dies(p) ==
  /\ Crash
  /\ stage[p] # "off" /\ stage' = [stage EXCEPT ![p] = "off"]
  /\ lock' = IF lock = p THEN "nobody" ELSE lock
  /\ strayed' = strayed \ {p}
  /\ todo' = [todo EXCEPT ![p] = <<>>] /\ mem' = [mem EXCEPT ![p] = Unread]
  /\ accepts' = IF p \in Webs THEN [accepts EXCEPT ![p] = {}] ELSE accepts
  /\ signs' = IF p \in Webs THEN [signs EXCEPT ![p] = 0] ELSE signs
  /\ before' = IF p \in Webs THEN [before EXCEPT ![p] = {}] ELSE before
  /\ UNCHANGED <<db, secrets>>

\* The idle connection that holds the lock breaks; the migrations use others.
LosesLock(p) ==
  /\ Crash
  /\ lock = p
  /\ lock' = "nobody" /\ strayed' = strayed \cup {p}
  /\ UNCHANGED <<db, stage, todo, mem, secrets, accepts, signs, before>>

-----------------------------------------------------------------------------

StartInit ==
  /\ db = [tables |-> FALSE, indexes |-> FALSE, columns |-> TRUE, later |-> FALSE,
           type |-> [s \in Services |-> IF s \in Https THEN "http" ELSE "tcp"],
           http |-> {}, transport |-> {}, meta |-> {}]
  /\ lock = "nobody" /\ strayed = {}
  /\ stage = [p \in Procs |-> "off"] /\ todo = [p \in Procs |-> <<>>] /\ mem = [p \in Procs |-> Unread]
  /\ secrets = {} /\ crashes = 0
  /\ accepts = [w \in Webs |-> {}] /\ signs = [w \in Webs |-> 0] /\ before = [w \in Webs |-> {}]

StartNext ==
  \/ \E p \in Procs : Boot(p) \/ AcquireLock(p) \/ Statement(p) \/ ReleaseLock(p) \/ Dies(p) \/ LosesLock(p)
  \/ \E p \in Webs : ReadSecrets(p) \/ MakeSecret(p)

StartSpec == StartInit /\ [][StartNext]_startVars

-----------------------------------------------------------------------------
(* Properties *)

StartTypeOK ==
  /\ lock \in Procs \cup {"nobody"}
  /\ strayed \subseteq Procs
  /\ \A p \in Procs : stage[p] \in {"off", "locking", "migrating", "failing", "secret", "making", "up"}
  /\ \A w \in Webs : accepts[w] \subseteq secrets

\* At most one process is between taking and releasing the lock, unless one of them has
\* lost it with its connection.
MigratesAlone ==
  \A p, q \in Procs :
    stage[p] \in {"migrating", "failing"} /\ stage[q] \in {"migrating", "failing"} /\ p # q
      => p \in strayed \/ q \in strayed

\* Whoever is up found the whole schema: every file recorded, and every row moved, once
\* and whole, whatever died on the way and whoever started at the same time.
UpIsMigrated ==
  (\E p \in Procs : stage[p] \in {"secret", "making", "up"}) =>
    /\ db.meta = {"sti", "later"}
    /\ db.tables /\ db.indexes /\ ~db.columns /\ db.later
    /\ db.http = Https /\ db.transport = Layer4
    /\ \A s \in Layer4 : db.type[s] = "transport"

\* A web server accepts the sessions that those which were up when it read the secrets
\* sign: a restart signs nobody out.
SessionsSurvive == \A w \in Webs : stage[w] = "up" => before[w] \subseteq accepts[w]

\* What a start leaves behind.
StartsRight == MigratesAlone /\ UpIsMigrated /\ SessionsSurvive

=============================================================================
