---------------------------- MODULE ContainerPages ----------------------------
(***************************************************************************)
(* The container pages of one browser: the list with its User filter, the  *)
(* edit form, sharing and deleting, over the query cache the pages share   *)
(* and the API, while others change containers too.                        *)
(*                                                                         *)
(* The cache keeps what a page has left behind: a query is fetched again   *)
(* when a page that uses it opens and it is stale or invalidated, and at   *)
(* once if it is invalidated while it is shown.  What a container says     *)
(* (services, environment) is a number, what the form says another.        *)
(***************************************************************************)
EXTENDS Naturals

CONSTANTS
  Mine, Theirs,  \* containers of the user of the browser, and of others
  Old,           \* the one of the user's that exists at first
  MaxActs,       \* bound: what the user does
  MaxOthers      \* bound: what others do, requests that fail, data that grow old

ASSUME PagesDisjoint ==
  /\ Mine \cap Theirs = {} /\ Old \in Mine
  /\ (Mine \cup Theirs) \cap {"all", "mine", "new", "job"} = {}

VARIABLES
  admin,     \* the user is an administrator
  there,     \* containers that exist
  says,      \* container -> what its row says
  shared,    \* containers with the other party as a collaborator
  cache,     \* query -> data, whether they are stale, the fetch under way
  at,        \* the page: "all" or "mine" (the list), a container (its form), "new", "job"
  edit,      \* the form
  call,      \* the mutation under way
  behind,    \* history: queries that lack something nobody has told the page, or show an error
  fresh,     \* the last number
  acts, others

pageVars == <<admin, there, says, shared, cache, at, edit, call, behind, fresh, acts, others>>

Containers == Mine \cup Theirs
Lists == {"all", "mine"}
Queries == Lists \cup Containers

Nothing == [got |-> FALSE, rows |-> {}]
Empty == [data |-> Nothing, stale |-> TRUE, fetch |-> "no", answer |-> Nothing]
NoForm == [init |-> FALSE, says |-> 0, typed |-> 0]
NoCall == [op |-> "none", of |-> "all", says |-> 0, done |-> FALSE]

Act == acts < MaxActs /\ acts' = acts + 1
Other == others < MaxOthers /\ others' = others + 1

-----------------------------------------------------------------------------
(* The API *)

\* visibleToClauses: one's own, and those shared with one.
Visible == {c \in there : admin \/ c \in Mine \/ c \in shared}
MayManage(c) == c \in there /\ (admin \/ c \in Mine)

Row(c) == [id |-> c, says |-> says[c], shared |-> c \in shared]

\* GET /containers with its User filter, GET /containers/:id.
Listed(q) == IF q = "all" THEN Visible ELSE IF q = "mine" THEN Visible \cap Mine ELSE Visible \cap {q}
Answer(q) == [got |-> TRUE, rows |-> {Row(c) : c \in Listed(q)}]

-----------------------------------------------------------------------------
(* The cache *)

\* The list page also reads the unfiltered list, for the options of the filter.
Used(page) ==
  CASE page = "mine" -> IF admin THEN {"mine"} ELSE Lists
    [] page \in Queries -> {page}
    [] OTHER -> {}

\* A fetch that begins, or begins again; the first one of a query is left to finish.
Begun(e) == IF e.fetch # "no" /\ ~e.data.got THEN e ELSE [e EXCEPT !.fetch = "asked"]

\* A page opens.
Opened(from, page) ==
  [q \in Queries |->
     IF q \in Used(page) /\ from[q].stale /\ from[q].fetch = "no" THEN Begun(from[q]) ELSE from[q]]

\* invalidateQueries for the queries Q while the page is open.
Invalidated(Q) ==
  [q \in Queries |->
     LET e == [cache[q] EXCEPT !.stale = TRUE] IN
     IF q \notin Q THEN cache[q] ELSE IF q \in Used(at) THEN Begun(e) ELSE e]

\* An answer that was read before a change passes for fresh when it arrives, unless the
\* invalidation starts the fetch again: the query is shown and has data already.
Overtaken(Q) == {q \in Q : cache[q].fetch = "read" /\ (q \notin Used(at) \/ ~cache[q].data.got)}

\* 30 seconds pass.
Age(q) ==
  /\ Other
  /\ ~cache[q].stale
  /\ cache' = [cache EXCEPT ![q].stale = TRUE]
  /\ UNCHANGED <<admin, there, says, shared, at, edit, call, behind, fresh, acts>>

\* A stale query is fetched again when the browser is back on line.
Reconnect(q) ==
  /\ q \in Used(at) /\ cache[q].stale /\ cache[q].fetch = "no"
  /\ cache' = [cache EXCEPT ![q].fetch = "asked"]
  /\ UNCHANGED <<admin, there, says, shared, at, edit, call, behind, fresh, acts, others>>

Read(q) ==
  /\ cache[q].fetch = "asked"
  /\ cache' = [cache EXCEPT ![q].fetch = "read", ![q].answer = Answer(q)]
  /\ behind' = behind \ {q}
  /\ UNCHANGED <<admin, there, says, shared, at, edit, call, fresh, acts, others>>

\* A container that is gone is an error, which leaves the data alone.
Arrive(q) ==
  LET e == cache[q]
      error == q \in Containers /\ e.answer.rows = {}
  IN
  /\ e.fetch = "read"
  /\ cache' = [cache EXCEPT ![q] =
       [data |-> IF error THEN e.data ELSE e.answer, stale |-> error,
        fetch |-> "no", answer |-> Nothing]]
  /\ UNCHANGED <<admin, there, says, shared, at, edit, call, behind, fresh, acts, others>>

\* A fetch fails, before or after the manager has read: the client tries again (its
\* attempts are not counted) or gives up, with an error above the data it has.
QueryFails(q) ==
  /\ cache[q].fetch # "no"
  /\ Other
  /\ \E next \in {"asked", "no"} :
       /\ cache' = [cache EXCEPT ![q].fetch = next, ![q].answer = Nothing]
       /\ behind' = IF next = "no" THEN behind \cup {q} ELSE behind
  /\ UNCHANGED <<admin, there, says, shared, at, edit, call, fresh, acts>>

-----------------------------------------------------------------------------
(* The pages *)

Open(page) ==
  /\ Act
  /\ page \in Containers => at \in Lists /\ \E row \in cache[at].data.rows : row.id = page
  /\ at' = page
  /\ edit' = NoForm
  /\ cache' = Opened(cache, page)
  /\ UNCHANGED <<admin, there, says, shared, call, behind, fresh, others>>

\* Mutant of InitForm: every time the container is loaded.
InitFormAgain ==
  /\ at \in Containers
  /\ \E row \in cache[at].data.rows :
       /\ row.says # edit.says
       /\ edit' = [edit EXCEPT !.init = TRUE, !.says = row.says]
  /\ UNCHANGED <<admin, there, says, shared, cache, at, call, behind, fresh, acts, others>>

\* Once, from what the cache has.
InitForm ==
  /\ at \in Containers /\ ~edit.init
  /\ \E row \in cache[at].data.rows : edit' = [edit EXCEPT !.init = TRUE, !.says = row.says]
  /\ UNCHANGED <<admin, there, says, shared, cache, at, call, behind, fresh, acts, others>>

\* The fields are disabled for a collaborator.
Type ==
  /\ at \in Containers /\ edit.init
  /\ admin \/ at \in Mine
  /\ Act
  /\ fresh' = fresh + 1
  /\ edit' = [edit EXCEPT !.says = fresh + 1, !.typed = fresh + 1]
  /\ UNCHANGED <<admin, there, says, shared, cache, at, call, behind, others>>

\* Saving (a form), sharing (from a form or the list), deleting (from the list), creating.
Ask(op, c) ==
  /\ call.op = "none"
  /\ Act
  /\ CASE op = "save" -> at = c /\ edit.init /\ (admin \/ c \in Mine)
       [] op = "create" -> at = "new" /\ c \in Mine \ there /\ says[c] = 0
       [] op = "share" -> \/ at = c /\ edit.init /\ (admin \/ c \in Mine)
                          \/ at \in Lists /\ \E row \in cache[at].data.rows : row.id = c
       [] op = "delete" -> at \in Lists /\ \E row \in cache[at].data.rows : row.id = c
  /\ call' = [op |-> op, of |-> c, says |-> edit.says, done |-> FALSE]
  /\ UNCHANGED <<admin, there, says, shared, cache, at, edit, behind, fresh, others>>

\* PUT, the collaborators' POST and DELETE, DELETE and POST of a container.
Apply ==
  LET c == call.of IN
  /\ call.op # "none" /\ ~call.done
  /\ CASE call.op = "save" ->
            MayManage(c) /\ says' = [says EXCEPT ![c] = call.says] /\ UNCHANGED <<there, shared, fresh>>
       [] call.op = "share" ->
            /\ MayManage(c)
            /\ shared' = IF c \in shared THEN shared \ {c} ELSE shared \cup {c}
            /\ UNCHANGED <<there, says, fresh>>
       [] call.op = "delete" ->
            /\ MayManage(c)
            /\ there' = there \ {c} /\ shared' = shared \ {c}
            /\ UNCHANGED <<says, fresh>>
       [] call.op = "create" ->
            /\ there' = there \cup {c}
            /\ says' = [says EXCEPT ![c] = fresh + 1] /\ fresh' = fresh + 1
            /\ UNCHANGED shared
  /\ call' = [call EXCEPT !.done = TRUE]
  /\ UNCHANGED <<admin, cache, at, edit, behind, acts, others>>

\* Mutant of Told: sharing invalidates the container alone.
ToldContainer(op, c) ==
  CASE op \in {"save", "create"} -> {"all"}
    [] op = "delete" -> Lists
    [] op = "share" -> {c}

\* What is invalidated: by a form the list without filter and nothing else, by the list
\* all lists, by sharing the container too.
Told(op, c) ==
  CASE op \in {"save", "create"} -> {"all"}
    [] op = "delete" -> Lists
    [] op = "share" -> Lists \cup {c}

\* onSuccess; a form goes on to the list, or to the job.
Answered ==
  LET Q == Told(call.op, call.of)
      filtered == IF call.op \in {"save", "create"} THEN {"mine", call.of} ELSE {}
      next == CASE call.op = "save" /\ at = call.of -> {"all", "job"}
                [] call.op = "create" /\ at = "new" -> {"job"}
                [] OTHER -> {at}
  IN
  /\ call.op # "none" /\ call.done
  /\ call' = NoCall
  /\ at' \in next
  /\ cache' = IF at' = at THEN Invalidated(Q) ELSE Opened(Invalidated(Q), at')
  /\ edit' = IF at' = at THEN edit ELSE NoForm
  /\ behind' = behind \cup Overtaken(Queries) \cup filtered
  /\ UNCHANGED <<admin, there, says, shared, fresh, acts, others>>

\* onError: refused, or the answer is lost.
Refused ==
  /\ call.op # "none"
  /\ \/ ~call.done /\ call.op # "create" /\ ~MayManage(call.of) /\ UNCHANGED others
     \/ Other
  /\ call' = NoCall
  /\ behind' = IF call.done THEN Queries ELSE behind
  /\ UNCHANGED <<admin, there, says, shared, cache, at, edit, fresh, acts>>

-----------------------------------------------------------------------------
(* The others: another browser of the same user, another user, an administrator *)

Elsewhere(c) ==
  /\ Other
  /\ c \in there
  /\ \/ says' = [says EXCEPT ![c] = fresh + 1] /\ fresh' = fresh + 1 /\ UNCHANGED <<there, shared>>
     \/ /\ shared' = IF c \in shared THEN shared \ {c} ELSE shared \cup {c}
        /\ UNCHANGED <<there, says, fresh>>
     \/ there' = there \ {c} /\ shared' = shared \ {c} /\ UNCHANGED <<says, fresh>>
  /\ behind' = Queries
  /\ UNCHANGED <<admin, cache, at, edit, call, acts>>

-----------------------------------------------------------------------------

PagesInit ==
  /\ admin \in BOOLEAN
  /\ there = {Old} \cup Theirs
  /\ says = [c \in Containers |-> 0] /\ fresh = 0
  /\ shared = IF admin THEN {} ELSE Theirs
  /\ cache = Opened([q \in Queries |-> Empty], "all") /\ at = "all"
  /\ edit = NoForm /\ call = NoCall /\ behind = {} /\ acts = 0 /\ others = 0

PagesNext ==
  \/ \E q \in Queries : Age(q) \/ Reconnect(q) \/ Read(q) \/ Arrive(q) \/ QueryFails(q)
  \/ \E page \in Queries \cup {"new"} : Open(page)
  \/ InitForm \/ Type
  \/ \E op \in {"save", "create", "share", "delete"}, c \in Containers : Ask(op, c)
  \/ Apply \/ Answered \/ Refused
  \/ \E c \in Containers : Elsewhere(c)

PagesSpec == PagesInit /\ [][PagesNext]_pageVars

-----------------------------------------------------------------------------
(* Properties *)

PageData == [got : BOOLEAN, rows : SUBSET [id : Containers, says : Nat, shared : BOOLEAN]]
PageQuery == [data : PageData, stale : BOOLEAN, fetch : {"no", "asked", "read"}, answer : PageData]

PagesTypeOK ==
  /\ admin \in BOOLEAN /\ there \subseteq Containers /\ shared \subseteq there
  /\ says \in [Containers -> Nat] /\ fresh \in Nat
  /\ cache \in [Queries -> PageQuery]
  /\ at \in Queries \cup {"new", "job"}
  /\ edit \in [init : BOOLEAN, says : Nat, typed : Nat]
  /\ call \in [op : {"none", "save", "create", "share", "delete"}, of : Queries, says : Nat, done : BOOLEAN]
  /\ call.op # "none" => call.of \in Containers
  /\ behind \subseteq Queries /\ acts \in Nat /\ others \in Nat

\* What the user has typed stays in the form until it is saved or left: no refetch, no
\* change of the sharing, nobody else's change takes it away.
UnsavedEditsSurvive == edit.typed # 0 => edit.says = edit.typed

\* A list that is shown, with nothing under way, has everything the user has done, and
\* what others had done when it was read.  Excused: the filtered list after a form (which
\* invalidates the other one only), an answer that was read before the change and arrives
\* after it (Overtaken), and a list whose last fetch has failed, which shows an error.
ListIsCurrent ==
  (at \in Lists /\ call.op = "none" /\ cache[at].fetch = "no" /\ cache[at].data.got /\ at \notin behind)
     => cache[at].data = Answer(at)

\* The pages lose nothing the user has typed and hide nothing he has done.
PagesHold == UnsavedEditsSurvive /\ ListIsCurrent

=============================================================================
