------------------------------- MODULE AdminForms -------------------------------
(***************************************************************************)
(* The forms of the administrators' pages: nodes, sites, external domains, *)
(* users, groups and settings.  Each shows one row through the query cache *)
(* of its browser and saves all of its fields, while another administrator *)
(* saves the same row elsewhere.  The pages differ in what Form says of    *)
(* them, and the handlers of their PUT in what Handler says.               *)
(*                                                                         *)
(* A row is reduced to three fields: "a" is written first, "b" last, and   *)
(* "secret" is one that the API never shows, 0 when the form leaves it     *)
(* blank.                                                                  *)
(***************************************************************************)
EXTENDS Naturals, Sequences

CONSTANTS
  Forms,       \* the forms considered
  MaxEdits,    \* bound: fields typed
  MaxVisits,   \* bound: times the page is opened
  MaxUpsets    \* bound: calls that fail, data that grow old, saves elsewhere

ASSUME FormsAndBounds ==
  /\ Forms \subseteq {"node", "domain", "user", "site", "group", "settings"}
  /\ MaxEdits \in Nat /\ MaxVisits \in Nat /\ MaxUpsets \in Nat

Fields == {"a", "b", "secret"}
NoValues == [f \in Fields |-> 0]

VARIABLES
  which,      \* which of the forms
  stored,    \* the row
  memo,      \* the query of the row: data, whether they are stale, the fetch under way
  page,      \* the form: whether it is open, its fields, those typed
  mine,      \* the PUT of this browser
  theirs,    \* the PUT of the other administrator
  moved,     \* history: the row has been written since the form's data were read
  kept,      \* history: what this administrator has saved, and nobody has written since
  number, visits, upsets

adminVars == <<which, stored, memo, page, mine, theirs, moved, kept, number, visits, upsets>>

Upset == upsets < MaxUpsets /\ upsets' = upsets + 1

NoData == [got |-> FALSE, row |-> NoValues]
NoPut == [on |-> FALSE, row |-> NoValues, left |-> <<>>, typed |-> {}, met |-> FALSE]
Closed == [open |-> FALSE, row |-> NoValues, typed |-> NoValues]

-----------------------------------------------------------------------------
(* The pages *)

\* Saving leads to another page; what is invalidated covers the query of the row.
NodeForm == [stays |-> FALSE, blanks |-> {"secret"}]
DomainForm == [stays |-> FALSE, blanks |-> {"secret"}]
UserForm == [stays |-> FALSE, blanks |-> {"secret"}]
SiteForm == [stays |-> FALSE, blanks |-> {}]
GroupForm == [stays |-> FALSE, blanks |-> {}]
\* The page of the settings stays open.
SettingsForm == [stays |-> TRUE, blanks |-> {}]

Form ==
  CASE which = "node" -> NodeForm [] which = "domain" -> DomainForm [] which = "user" -> UserForm
    [] which = "site" -> SiteForm [] which = "group" -> GroupForm [] which = "settings" -> SettingsForm

\* What each PUT writes, statement by statement.
NodePut == <<Fields>>
DomainPut == <<Fields>>
SitePut == <<{"a", "b"}>>
GroupPut == <<{"a", "b"}>>
\* The user's row, then the groups.
UserPut == <<{"a", "secret"}, {"b"}>>
\* One upsert for each key.
SettingsPut == <<{"a"}, {"b"}>>

Handler ==
  CASE which = "node" -> NodePut [] which = "domain" -> DomainPut [] which = "user" -> UserPut
    [] which = "site" -> SitePut [] which = "group" -> GroupPut [] which = "settings" -> SettingsPut

\* The inputs of each form.
NodeInputs == {"a", "b", "secret"}
DomainInputs == {"a", "b", "secret"}
UserInputs == {"a", "b", "secret"}
SiteInputs == {"a", "b"}
GroupInputs == {"a", "b"}
SettingsInputs == {"a", "b"}

Inputs ==
  CASE which = "node" -> NodeInputs [] which = "domain" -> DomainInputs [] which = "user" -> UserInputs
    [] which = "site" -> SiteInputs [] which = "group" -> GroupInputs
    [] which = "settings" -> SettingsInputs

\* A statement writes its fields; a secret that is blank is left as it is.
Stored(fields, row) ==
  [f \in Fields |-> IF f \in fields /\ ~(f = "secret" /\ row[f] = 0) THEN row[f] ELSE stored[f]]

\* What a GET shows.
Shown == [stored EXCEPT !["secret"] = 0]

-----------------------------------------------------------------------------
(* The query *)

\* The query's data are due, and nobody fetches them yet.
Fetched(q) == IF q.stale /\ q.fetch = "no" THEN [q EXCEPT !.fetch = "asked"] ELSE q

ReadRow ==
  /\ memo.fetch = "asked"
  /\ memo' = [memo EXCEPT !.fetch = "read", !.answer = Shown]
  /\ UNCHANGED <<which, stored, page, mine, theirs, moved, kept, number, visits, upsets>>

\* Mutant of Reset: the form takes whatever arrives.
ResetAlways(old, new) == page.open

\* The effect on [data, reset] of an open form: data that equal the old are the old.
Reset(old, new) == page.open /\ (~old.got \/ old.row # new)

RowArrives ==
  LET again == Reset(memo.data, memo.answer) IN
  /\ memo.fetch = "read"
  /\ memo' = [data |-> [got |-> TRUE, row |-> memo.answer], stale |-> FALSE, fetch |-> "no",
              answer |-> NoValues]
  /\ page' = IF again
       THEN [page EXCEPT !.row = memo.answer, !.typed = IF moved THEN NoValues ELSE @]
       ELSE page
  /\ moved' = (moved /\ memo.answer # Shown)
  /\ UNCHANGED <<which, stored, mine, theirs, kept, number, visits, upsets>>

\* A fetch that fails three times leaves the data alone.
RowFails ==
  /\ Upset
  /\ memo.fetch # "no"
  /\ memo' = [memo EXCEPT !.fetch = "no", !.stale = TRUE, !.answer = NoValues]
  /\ UNCHANGED <<which, stored, page, mine, theirs, moved, kept, number, visits>>

\* 30 seconds pass.
RowAges ==
  /\ Upset
  /\ memo.data.got /\ ~memo.stale
  /\ memo' = [memo EXCEPT !.stale = TRUE]
  /\ UNCHANGED <<which, stored, page, mine, theirs, moved, kept, number, visits>>

-----------------------------------------------------------------------------
(* The form *)

Visit ==
  /\ ~page.open /\ visits < MaxVisits
  /\ visits' = visits + 1
  /\ page' = [Closed EXCEPT !.open = TRUE, !.row = memo.data.row]
  /\ memo' = Fetched(memo)
  /\ UNCHANGED <<which, stored, mine, theirs, moved, kept, number, upsets>>

\* Until the first answer or error there is a spinner; after an error the page of the
\* settings shows the error, the others the form, empty.
Usable == page.open /\ (memo.data.got \/ (memo.fetch = "no" /\ ~Form.stays))

TypeField(f) ==
  /\ Usable /\ number < MaxEdits
  /\ f \in Inputs
  /\ number' = number + 1
  /\ page' = [page EXCEPT !.row[f] = number + 1, !.typed[f] = number + 1]
  /\ UNCHANGED <<which, stored, memo, mine, theirs, moved, kept, visits, upsets>>

LeavePage ==
  /\ page.open /\ ~mine.on
  /\ page' = Closed
  /\ UNCHANGED <<which, stored, memo, mine, theirs, moved, kept, number, visits, upsets>>

\* Of the fields a form saves, those its administrator has typed are theirs from now on.
\* A form that is empty, or older than the fetch under way, may take other edits back.
SaveRow ==
  /\ Usable /\ ~mine.on
  /\ \E f \in Fields : page.typed[f] # 0
  /\ mine' = [on |-> TRUE, row |-> page.row, left |-> Handler, met |-> theirs.on,
              typed |-> {f \in Fields : page.typed[f] # 0}]
  /\ kept' = IF memo.data.got /\ ~memo.stale
               THEN [f \in Fields |-> IF page.typed[f] # 0 THEN 0 ELSE kept[f]]
               ELSE NoValues
  /\ UNCHANGED <<which, stored, memo, page, theirs, moved, number, visits, upsets>>

Write ==
  /\ mine.on /\ mine.left # <<>>
  /\ stored' = Stored(Head(mine.left), mine.row)
  /\ mine' = [mine EXCEPT !.left = Tail(@)]
  /\ moved' = TRUE
  /\ UNCHANGED <<which, memo, page, theirs, kept, number, visits, upsets>>

\* Mutant of Stale: a save tells the cache nothing.
StaleNever(q) == q

\* invalidateQueries while the form is open: its fetch begins, or begins again.
Stale(q) ==
  IF q.fetch # "no" /\ ~q.data.got THEN [q EXCEPT !.stale = TRUE]
  ELSE [q EXCEPT !.stale = TRUE, !.fetch = "asked", !.answer = NoValues]

Saved ==
  /\ mine.on /\ mine.left = <<>>
  /\ mine' = NoPut
  /\ memo' = Stale(memo)
  /\ page' = IF Form.stays THEN page ELSE Closed
  /\ kept' = [f \in Fields |-> IF f \in mine.typed /\ ~mine.met THEN mine.row[f] ELSE kept[f]]
  /\ UNCHANGED <<which, stored, theirs, moved, number, visits, upsets>>

\* The request dies between two statements, or its answer is lost: the form stays.
SaveFails ==
  /\ Upset
  /\ mine.on
  /\ mine' = NoPut
  /\ kept' = NoValues
  /\ UNCHANGED <<which, stored, memo, page, theirs, moved, number, visits>>

-----------------------------------------------------------------------------
(* The other administrator *)

\* From a form that may show an older row: "b" as it was at first and no secret, or both new.
TheySave(new) ==
  /\ Upset
  /\ ~theirs.on
  /\ theirs' = [NoPut EXCEPT !.on = TRUE, !.left = Handler,
                             !.row = [f \in Fields |-> IF f = "a" \/ new THEN MaxEdits + upsets' ELSE 0]]
  /\ mine' = [mine EXCEPT !.met = TRUE]
  /\ UNCHANGED <<which, stored, memo, page, moved, kept, number, visits>>

TheyWrite ==
  /\ theirs.on
  /\ stored' = Stored(Head(theirs.left), theirs.row)
  /\ theirs' = IF Len(theirs.left) = 1 THEN NoPut ELSE [theirs EXCEPT !.left = Tail(@)]
  /\ mine' = [mine EXCEPT !.met = TRUE]
  /\ moved' = TRUE /\ kept' = NoValues
  /\ UNCHANGED <<which, memo, page, number, visits, upsets>>

-----------------------------------------------------------------------------

AdminInit ==
  /\ which \in Forms
  /\ stored = NoValues
  /\ memo = [data |-> NoData, stale |-> TRUE, fetch |-> "no", answer |-> NoValues]
  /\ page = Closed /\ mine = NoPut /\ theirs = NoPut
  /\ moved = FALSE /\ kept = NoValues /\ number = 0 /\ visits = 0 /\ upsets = 0

AdminNext ==
  \/ ReadRow \/ RowArrives \/ RowFails \/ RowAges
  \/ Visit \/ LeavePage \/ SaveRow \/ Write \/ Saved \/ SaveFails
  \/ \E f \in Fields : TypeField(f)
  \/ \E new \in BOOLEAN : TheySave(new)
  \/ TheyWrite

AdminSpec == AdminInit /\ [][AdminNext]_adminVars

-----------------------------------------------------------------------------
(* Properties *)

FieldValues == [Fields -> Nat]
RowQuery == [data : [got : BOOLEAN, row : FieldValues], stale : BOOLEAN,
             fetch : {"no", "asked", "read"}, answer : FieldValues]
PutRequest == [on : BOOLEAN, row : FieldValues, left : Seq(SUBSET Fields), typed : SUBSET Fields, met : BOOLEAN]

AdminTypeOK ==
  /\ which \in Forms /\ stored \in FieldValues /\ kept \in FieldValues /\ memo \in RowQuery
  /\ page \in [open : BOOLEAN, row : FieldValues, typed : FieldValues]
  /\ mine \in PutRequest /\ theirs \in PutRequest /\ (theirs.on => theirs.left # <<>>)
  /\ moved \in BOOLEAN /\ number \in Nat /\ visits \in Nat /\ upsets \in Nat

\* What is typed stays in an open form, however often its row is fetched, unless the row
\* has been written meanwhile, by another administrator or by the form's own save.
TypedSurvives ==
  page.open => \A f \in Fields : page.typed[f] # 0 => page.row[f] = page.typed[f]

\* An administrator's edit stays in the row while nobody else writes it: neither a form
\* opened again from what the cache had, nor a secret left blank, nor a save in several
\* statements takes it back.  Excused: saves whose answer never came, and forms saved before the
\* fetch of their row had answered, or although it failed.
OwnEditsStay ==
  ~mine.on => \A f \in Fields : kept[f] # 0 => stored[f] = kept[f]

AdminEditsStay == TypedSurvives /\ OwnEditsStay

=============================================================================
