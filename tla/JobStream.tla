------------------------------ MODULE JobStream ------------------------------
(***************************************************************************)
(* The output of one job, from the runner that writes it (job-runner.js)   *)
(* over the JobStatuses table and the live stream of the web server        *)
(* (routers/api/v1/jobs.js) to the page that shows it (JobDetailPage.tsx). *)
(*                                                                         *)
(* Rows are numbered in the order in which appendJobOutput is called, and  *)
(* so are createdAt and id.  The appends run next to each other, on the    *)
(* connections of a pool, and become visible in any order (an INSERT that  *)
(* overtakes another one takes the lower id instead; no property speaks    *)
(* about what follows either).  A poll reads the rows as they are when it  *)
(* starts; its answer comes later.  One page, opened at any time.  How the *)
(* runner comes to a status is JobRunner's subject.  Nothing here obliges  *)
(* the runner to go on: one that dies, or that a failed append kills, is   *)
(* one that takes no further step.                                         *)
(***************************************************************************)
EXTENDS Integers, SequencesExt

CONSTANTS
  MaxRows,       \* bound: appends, the exit note included
  Limit,         \* rows of one poll (100)
  BackfillLimit, \* rows of the backfill (1000)
  MaxPolls,      \* bound: polls that overlap
  MaxFaults,     \* bound: failed polls and lost connections
  MaxRefetches   \* bound: times the page asks for the job again

ASSUME ConstantsAssumption ==
  /\ MaxRows \in Nat /\ MaxPolls \in Nat /\ Limit \in Nat \ {0} /\ BackfillLimit \in Nat \ {0}
  /\ MaxFaults \in Nat /\ MaxRefetches \in Nat

Rows  == 1..MaxRows
Polls == 1..MaxPolls       \* those under way take the lowest free place

VARIABLES
  calls,         \* calls of appendJobOutput so far
  row,           \* a row: "no", "called", "visible"
  exit, exitNote, \* the close handler, and the row it appends
  status,        \* Job.status
  conn,          \* the stream: "none", "open", "ended" by it, "closed"
  lastId,        \* the handler's lastId
  poll,          \* its polls under way
  seen,          \* the page: job.status, or "none"
  backfill,      \* the page: its request for the rows, and the answer
  logs,          \* the page: what it shows
  overtaken,     \* history: rows became visible out of order
  overwritten,   \* history: the backfill has replaced streamed rows it did not have
  cut,           \* history: the stream ended by a poll that could not have read it all
  faults, refetches

runner == <<calls, row, exit, exitNote, status, overtaken>>
stream == <<conn, lastId, poll, cut>>
page   == <<seen, backfill, logs, overwritten, refetches>>
vars == <<runner, stream, page, faults>>

Active   == {"pending", "running"}
Final    == {"verdict", "cancelled"}      \* a verdict: "success" or "failure"
Settled  == status \in Final

NoPoll == [pc |-> "idle", rows |-> <<>>, whole |-> FALSE]

TypeOK ==
  /\ calls \in 0..MaxRows
  /\ row \in [Rows -> {"no", "called", "visible"}]
  /\ exit \in {"no", "note", "done"} /\ exitNote \in 0..MaxRows
  /\ status \in Active \cup Final
  /\ conn \in {"none", "open", "ended", "closed"}
  /\ lastId \in 0..MaxRows
  /\ poll \in [Polls -> [pc: {"idle", "send", "status"}, rows: Seq(Rows), whole: BOOLEAN]]
  /\ seen \in {"none"} \cup Active \cup Final
  /\ backfill \in [pc: {"asked", "read", "shown"}, rows: Seq(Rows)]
  /\ logs \in Seq(Rows)
  /\ overtaken \in BOOLEAN /\ overwritten \in BOOLEAN /\ cut \in BOOLEAN
  /\ faults \in 0..MaxFaults /\ refetches \in 0..MaxRefetches

Init ==
  /\ calls = 0
  /\ row = [k \in Rows |-> "no"]
  /\ exit = "no" /\ exitNote = 0
  /\ status = "pending"
  /\ conn = "none" /\ lastId = 0 /\ poll = [p \in Polls |-> NoPoll]
  /\ seen = "none" /\ backfill = [pc |-> "asked", rows |-> <<>>] /\ logs = <<>>
  /\ overtaken = FALSE /\ overwritten = FALSE /\ cut = FALSE
  /\ faults = 0 /\ refetches = 0

Fault == faults < MaxFaults /\ faults' = faults + 1
-----------------------------------------------------------------------------
(* The runner                                                               *)

Claim ==
  /\ status = "pending"
  /\ status' = "running"
  /\ UNCHANGED <<calls, row, exit, exitNote, overtaken, stream, page, faults>>

\* appendJobOutput is called; the INSERT is on its way.
AppendCall ==
  /\ calls < MaxRows
  /\ calls' = calls + 1
  /\ row' = [row EXCEPT ![calls + 1] = "called"]

\* A 'data' event.  Nobody waits for its row.  (One call is kept for the exit note.)
Data ==
  /\ status # "pending" /\ exit = "no" /\ calls < MaxRows - 1
  /\ AppendCall
  /\ UNCHANGED <<exit, exitNote, status, overtaken, stream, page, faults>>

Commit(k) ==
  /\ row[k] = "called"
  /\ row' = [row EXCEPT ![k] = "visible"]
  /\ overtaken' = (overtaken \/ \E i \in 1..(k-1) : row[i] = "called")
  /\ UNCHANGED <<calls, exit, exitNote, status, stream, page, faults>>

\* 'close' comes after the last 'data'; its handler appends a note ...
Close ==
  /\ status # "pending" /\ exit = "no"
  /\ AppendCall
  /\ exit' = "note" /\ exitNote' = calls + 1
  /\ UNCHANGED <<status, overtaken, stream, page, faults>>

\* Mutant of Settle: the note is not awaited.
SettleEarly ==
  /\ exit = "note"
  /\ status' = IF status = "running" THEN "verdict" ELSE status
  /\ exit' = "done"
  /\ UNCHANGED <<calls, row, exitNote, overtaken, stream, page, faults>>

\* ... and, once that is written, settles the job unless it is no longer running.
Settle ==
  /\ exit = "note" /\ row[exitNote] = "visible"
  /\ status' = IF status = "running" THEN "verdict" ELSE status
  /\ exit' = "done"
  /\ UNCHANGED <<calls, row, exitNote, overtaken, stream, page, faults>>

\* A shutdown of the runner; the note it appends first is a row like any other.
Cancel ==
  /\ status = "running"
  /\ status' = "cancelled"
  /\ UNCHANGED <<calls, row, exit, exitNote, overtaken, stream, page, faults>>
-----------------------------------------------------------------------------
(* GET /jobs/:id/stream                                                     *)

Visible == {k \in Rows : row[k] = "visible"}

\* The rows of S, ascending: the i-th is the one with i rows up to it.
InOrder(S) ==
  [i \in 1..Cardinality(S) |-> CHOOSE k \in S : Cardinality({j \in S : j <= k}) = i]

FirstN(s, n) == SubSeq(s, 1, IF Len(s) < n THEN Len(s) ELSE n)

\* setInterval: another poll, also if the last one still waits for its answer.  It
\* asks for the rows past lastId, at most Limit of them.
Tick(p) ==
  LET rows == FirstN(InOrder({k \in Visible : k > lastId}), Limit) IN
  /\ conn = "open" /\ poll[p].pc = "idle" /\ \A q \in 1..(p-1) : poll[q].pc # "idle"
  /\ poll' = [poll EXCEPT ![p] = [pc |-> "send", rows |-> rows,
                                 whole |-> Settled /\ Len(rows) < Limit]]
  /\ UNCHANGED <<runner, conn, lastId, cut, page, faults>>

\* The page drops a row whose id it has (the rows of a poll are in order).
Show(rows) == logs \o InOrder(ToSet(rows) \ ToSet(logs))

\* Mutant of Send: lastId counts the rows that were sent.
SendCounts(p) ==
  LET rows == poll[p].rows IN
  /\ poll[p].pc = "send"
  /\ lastId' = lastId + Len(rows)
  /\ logs' = Show(rows)
  /\ poll' = [poll EXCEPT ![p].pc = "status", ![p].rows = <<>>]
  /\ UNCHANGED <<runner, conn, cut, seen, backfill, overwritten, refetches, faults>>

\* One 'log' event for each row; lastId is the last one's, even if that is lower.
Send(p) ==
  LET rows == poll[p].rows IN
  /\ poll[p].pc = "send"
  /\ lastId' = IF rows = <<>> THEN lastId ELSE Last(rows)
  /\ logs' = Show(rows)
  /\ poll' = [poll EXCEPT ![p].pc = "status", ![p].rows = <<>>]
  /\ UNCHANGED <<runner, conn, cut, seen, backfill, overwritten, refetches, faults>>

\* cleanup(), or the page has closed it: what other polls still write is dropped.
Disconnect(how) ==
  /\ conn' = how
  /\ lastId' = 0
  /\ poll' = [p \in Polls |-> NoPoll]

\* Mutant of ReadStatus: a cancelled job is not over.
ReadStatusVerdict(p) ==
  /\ poll[p].pc = "status"
  /\ IF status = "verdict"
     THEN Disconnect("ended") /\ cut' = ~poll[p].whole
     ELSE poll' = [poll EXCEPT ![p] = NoPoll] /\ UNCHANGED <<conn, lastId, cut>>
  /\ UNCHANGED <<runner, page, faults>>

\* Then the status: if it is final, a 'status' event ends the stream, and the page
\* closes its EventSource.
ReadStatus(p) ==
  /\ poll[p].pc = "status"
  /\ IF Settled
     THEN Disconnect("ended") /\ cut' = ~poll[p].whole
     ELSE poll' = [poll EXCEPT ![p] = NoPoll] /\ UNCHANGED <<conn, lastId, cut>>
  /\ UNCHANGED <<runner, page, faults>>

\* A database error is logged, and the next poll tries again.
PollFails(p) ==
  /\ poll[p].pc # "idle" /\ Fault
  /\ poll' = [poll EXCEPT ![p] = NoPoll]
  /\ UNCHANGED <<runner, conn, lastId, cut, page>>

\* The connection breaks: onerror closes the EventSource for good.
ConnectionLost ==
  /\ conn = "open" /\ Fault
  /\ Disconnect("closed")
  /\ UNCHANGED <<runner, cut, page>>
-----------------------------------------------------------------------------
(* JobDetailPage                                                            *)

\* A stream that continues after the last row shown.
Open ==
  /\ conn' = "open"
  /\ lastId' = IF logs = <<>> THEN 0 ELSE Last(logs)
  /\ poll' = [p \in Polls |-> NoPoll]

\* The effect on job.status: the old stream is closed, and one is opened if the
\* job is still active.
Effect ==
  IF status \in Active THEN Open ELSE Disconnect(IF conn = "open" THEN "closed" ELSE conn)

\* The first answer to getJob.
GetJob ==
  /\ seen = "none"
  /\ seen' = status
  /\ Effect
  /\ UNCHANGED <<runner, cut, backfill, logs, overwritten, refetches, faults>>

\* Another answer: after the 'status' event, or when the network is back.
Refetch ==
  /\ seen # "none" /\ refetches < MaxRefetches
  /\ refetches' = refetches + 1
  /\ seen' = status
  /\ IF status # seen THEN Effect ELSE UNCHANGED <<conn, lastId, poll>>
  /\ UNCHANGED <<runner, cut, backfill, logs, overwritten, faults>>

\* getJobStatuses: the first rows by createdAt, as they are when the server answers; the
\* page asks for no more ...
ReadBackfill ==
  /\ backfill.pc = "asked"
  /\ backfill' = [pc |-> "read", rows |-> FirstN(InOrder(Visible), BackfillLimit)]
  /\ UNCHANGED <<runner, stream, seen, logs, overwritten, refetches, faults>>

\* ... and they replace what is shown when they arrive.
ShowBackfill ==
  /\ backfill.pc = "read"
  /\ logs' = backfill.rows
  /\ overwritten' = (overwritten \/ ~(ToSet(logs) \subseteq ToSet(backfill.rows)))
  /\ backfill' = [pc |-> "shown", rows |-> <<>>]
  /\ UNCHANGED <<runner, stream, seen, refetches, faults>>
-----------------------------------------------------------------------------
Runner ==
  \/ Claim \/ Settle
  \/ \E k \in Rows : Commit(k)

Poll(p) == Tick(p) \/ Send(p) \/ ReadStatus(p)

Next ==
  \/ Runner \/ Data \/ Close \/ Cancel
  \/ \E p \in Polls : Poll(p) \/ PollFails(p)
  \/ ConnectionLost \/ GetJob \/ Refetch \/ ReadBackfill \/ ShowBackfill

\* The timer ticks as long as the stream is open, and queries are answered.
Spec == Init /\ [][Next]_vars /\ WF_vars(\E p \in Polls : Poll(p))
-----------------------------------------------------------------------------
(* Properties                                                               *)

\* The page shows the output from its beginning, in order, without a hole or a
\* repetition, however its polls overlap, limits cut them and the backfill, the stream
\* is opened again, and the backfill arrives: unless rows became visible out of order
\* (the stream has moved past them) or the backfill has replaced streamed rows.
NoHole == overtaken \/ overwritten \/ logs = [i \in 1..Len(logs) |-> i]

\* A stream that has ended with the verdict has shown everything, the exit note
\* too, unless the job was settled only after its last query, or that query was
\* full (jobs.js reads the rows first, and the status then).
NothingAfterTheVerdict ==
  conn = "ended" /\ status = "verdict" /\ exit = "done" /\ ~cut /\ ~overtaken /\ ~overwritten =>
    Len(logs) = calls /\ Contains(logs, exitNote)

\* When the job is settled, as a verdict or by a shutdown, an open stream ends.
StreamEnds == Settled ~> conn # "open"
=============================================================================
