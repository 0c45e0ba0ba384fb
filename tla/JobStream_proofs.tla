--------------------------- MODULE JobStream_proofs ---------------------------
(***************************************************************************)
(* Theorems of JobStream: its types, and what the page shows of a job's    *)
(* output, for every number of rows, of overlapping polls, of failures and *)
(* of rows to a poll.                                                      *)
(***************************************************************************)
EXTENDS JobStream, FiniteSetTheorems, SequenceTheorems, WellFoundedInduction, TLAPS

(***************************************************************************)
(* What the model's operators on rows return                               *)
(***************************************************************************)
\* A set of naturals that is not empty has a least element.
LEMMA LeastNatural ==
  ASSUME NEW S \in SUBSET Nat, S # {}
  PROVE  \E n \in S : \A m \in S : n <= m
<1> DEFINE UpTo == {0..n : n \in S}
<1>1. UpTo # {} /\ UpTo \subseteq FiniteSubsetsOf(Nat)
  <2>1. \A n \in S : IsFiniteSet(0..n) /\ 0..n \subseteq Nat
    BY FS_Interval
  <2> QED BY <2>1 DEF FiniteSubsetsOf
<1>2. PICK U \in UpTo : \A V \in UpTo : <<V, U>> \notin StrictSubsetOrdering(Nat)
  BY <1>1, FS_StrictSubsetOrderingWellFounded, WFMin
<1>3. PICK n \in S : U = 0..n
  BY <1>2
<1>4. ASSUME NEW m \in S, m < n PROVE FALSE
  <2>1. 0..m \in UpTo /\ 0..m \subseteq 0..n /\ n \in 0..n /\ n \notin 0..m
    BY <1>4
  <2>2. <<0..m, U>> \in StrictSubsetOrdering(Nat)
    BY <2>1, <1>3 DEF StrictSubsetOrdering
  <2> QED BY <1>2, <2>1, <2>2
<1> QED BY <1>4

\* A finite set of rows has a last one.
LEMMA LastRow ==
  ASSUME NEW S \in SUBSET Rows, S # {}
  PROVE  \E m \in S : \A k \in S : k <= m
<1> USE ConstantsAssumption DEF Rows
<1> DEFINE Back == {MaxRows - k : k \in S}
<1>1. Back \in SUBSET Nat /\ Back # {}
  <2>1. \A k \in S : MaxRows - k \in Nat
    OBVIOUS
  <2> QED BY <2>1
<1>2. PICK n \in Back : \A m \in Back : n <= m
  BY <1>1, LeastNatural
<1>3. PICK m \in S : n = MaxRows - m
  BY <1>2
<1>4. \A k \in S : n <= MaxRows - k
  BY <1>2
<1> QED BY <1>3, <1>4

\* The rows of S up to k.
UpTo(S, k) == {j \in S : j <= k}

LEMMA RowsFinite ==
  ASSUME NEW S \in SUBSET Rows
  PROVE  /\ IsFiniteSet(S) /\ Cardinality(S) \in 0..MaxRows
         /\ \A k : IsFiniteSet(UpTo(S, k)) /\ Cardinality(UpTo(S, k)) \in Nat
<1>1. IsFiniteSet(Rows) /\ Cardinality(Rows) = MaxRows
  BY FS_Interval, ConstantsAssumption DEF Rows
<1>2. IsFiniteSet(S) /\ Cardinality(S) <= MaxRows /\ Cardinality(S) \in Nat
  BY <1>1, FS_Subset, FS_CardinalityType
<1>3. \A k : IsFiniteSet(UpTo(S, k)) /\ Cardinality(UpTo(S, k)) \in Nat
  <2> TAKE k
  <2>1. UpTo(S, k) \in SUBSET S
    BY DEF UpTo
  <2> QED BY <1>2, <2>1, FS_Subset, FS_CardinalityType
<1> QED BY <1>2, <1>3, ConstantsAssumption

\* Every rank is one row's.
Ranked(S) ==
  \A i \in 1..Cardinality(S) : \E k \in S : Cardinality(UpTo(S, k)) = i

LEMMA AllRanked == \A S \in SUBSET Rows : Ranked(S)
<1> USE ConstantsAssumption
<1> DEFINE Bad == {Cardinality(S) : S \in {T \in SUBSET Rows : ~Ranked(T)}}
<1> SUFFICES ASSUME NEW R \in SUBSET Rows, ~Ranked(R) PROVE FALSE
  OBVIOUS
<1>1. Bad \in SUBSET Nat /\ Bad # {}
  BY RowsFinite
<1>2. PICK n \in Bad : \A m \in Bad : n <= m
  BY <1>1, LeastNatural
<1>3. PICK S \in SUBSET Rows : ~Ranked(S) /\ Cardinality(S) = n
  BY <1>2
<1>4. S # {}
  <2>1. Cardinality({}) = 0 /\ 1..0 = {}
    BY FS_EmptySet
  <2>2. Ranked({})
    BY <2>1 DEF Ranked
  <2> QED BY <1>3, <2>2
<1>5. PICK m \in S : \A k \in S : k <= m
  BY <1>4, LastRow
<1> DEFINE T == S \ {m}
<1>6. T \in SUBSET Rows /\ Cardinality(T) = n - 1 /\ n \in Nat \ {0} /\ n - 1 \in Nat
  <2>1. IsFiniteSet(S) /\ n \in Nat
    BY <1>3, RowsFinite
  <2>2. IsFiniteSet(T) /\ Cardinality(T) = n - 1
    BY <1>3, <2>1, FS_RemoveElement
  <2> QED BY <2>1, <2>2, FS_CardinalityType
<1>7. Ranked(T)
  BY <1>2, <1>6
<1>8. UpTo(S, m) = S
  BY <1>5 DEF UpTo
<1>9. \A k \in T : UpTo(S, k) = UpTo(T, k)
  BY <1>5 DEF UpTo, Rows
<1>10. \A i \in 1..n : \E k \in S : Cardinality(UpTo(S, k)) = i
  <2> TAKE i \in 1..n
  <2>1. CASE i = n
    BY <1>3, <1>8, <2>1
  <2>2. CASE i # n
    <3>1. i \in 1..(n-1)
      BY <1>6, <2>2
    <3> QED BY <1>6, <1>7, <1>9, <3>1 DEF Ranked
  <2> QED BY <2>1, <2>2
<1> QED BY <1>3, <1>10 DEF Ranked

\* InOrder returns a sequence of the rows of S ...
LEMMA InOrderType ==
  ASSUME NEW S \in SUBSET Rows
  PROVE  /\ InOrder(S) \in Seq(S) /\ InOrder(S) \in Seq(Rows)
         /\ Len(InOrder(S)) = Cardinality(S)
         /\ Cardinality(S) \in 0..MaxRows
<1>1. Cardinality(S) \in 0..MaxRows /\ Cardinality(S) \in Nat
  BY RowsFinite, ConstantsAssumption
<1>2. ASSUME NEW i \in 1..Cardinality(S)
      PROVE  (CHOOSE k \in S : Cardinality({j \in S : j <= k}) = i) \in S
  BY AllRanked DEF Ranked, UpTo
<1>3. InOrder(S) \in [1..Cardinality(S) -> S]
  BY <1>2 DEF InOrder
<1> QED BY <1>1, <1>3

\* The rows a+1, ..., a+n.
Run(a, n) == [i \in 1..n |-> a + i]

LEMMA RunType ==
  ASSUME NEW a \in Nat, NEW n \in Nat
  PROVE  /\ Run(a, n) \in Seq(Nat) /\ Len(Run(a, n)) = n
         /\ \A i \in 1..n : Run(a, n)[i] = a + i
         /\ a + n <= MaxRows => Run(a, n) \in Seq(Rows)
         /\ ToSet(Run(a, n)) = (a+1)..(a+n)
         /\ n # 0 => Run(a, n) # <<>> /\ Last(Run(a, n)) = a + n
         /\ Run(a, 0) = <<>>
<1>1. Run(a, n) \in [1..n -> Nat]
  BY DEF Run
<1>2. Run(a, n) \in Seq(Nat) /\ Len(Run(a, n)) = n /\ \A i \in 1..n : Run(a, n)[i] = a + i
  BY <1>1 DEF Run
<1>3. a + n <= MaxRows => Run(a, n) \in [1..n -> Rows]
  BY ConstantsAssumption DEF Run, Rows
<1>4. ToSet(Run(a, n)) = (a+1)..(a+n)
  <2>1. DOMAIN Run(a, n) = 1..n
    BY DEF Run
  <2>2. ASSUME NEW k \in (a+1)..(a+n) PROVE k \in ToSet(Run(a, n))
    <3>1. k - a \in 1..n /\ Run(a, n)[k - a] = k
      BY <1>2
    <3> QED BY <2>1, <3>1 DEF ToSet
  <2>3. ASSUME NEW k \in ToSet(Run(a, n)) PROVE k \in (a+1)..(a+n)
    BY <1>2, <2>1, <2>3 DEF ToSet
  <2> QED BY <2>2, <2>3
<1>5. n # 0 => Run(a, n) # <<>> /\ Last(Run(a, n)) = a + n
  BY <1>2 DEF Last
<1>6. Run(a, 0) = <<>>
  BY DEF Run
<1> QED BY <1>2, <1>3, <1>4, <1>5, <1>6

\* ... and of an interval of rows it returns just that.
LEMMA InOrderOfInterval ==
  ASSUME NEW a \in Nat, NEW b \in Rows \cup {0}, a <= b
  PROVE  InOrder((a+1)..b) = Run(a, b - a) /\ (a+1)..b \subseteq Rows
<1> USE ConstantsAssumption DEF Rows
<1> DEFINE S == (a+1)..b
<1>1. Cardinality(S) = b - a
  <2>1. a + 1 \in Int /\ b \in Int
    OBVIOUS
  <2>2. Cardinality((a+1)..b) = IF a + 1 > b THEN 0 ELSE b - (a + 1) + 1
    BY <2>1, FS_Interval
  <2> QED BY <2>1, <2>2
<1>2. \A k \in S : {j \in S : j <= k} = (a+1)..k
  OBVIOUS
<1>3. ASSUME NEW k \in S PROVE Cardinality((a+1)..k) = k - a
  <2>1. k \in Int /\ a + 1 \in Int /\ k > a
    OBVIOUS
  <2>2. Cardinality((a+1)..k) = IF a + 1 > k THEN 0 ELSE k - (a + 1) + 1
    BY <2>1, FS_Interval
  <2> QED BY <2>1, <2>2
<1>4. \A k \in S : Cardinality({j \in S : j <= k}) = k - a
  BY <1>2, <1>3
<1>5. ASSUME NEW i \in 1..(b-a)
      PROVE  (CHOOSE k \in S : Cardinality({j \in S : j <= k}) = i) = a + i
  <2>1. a + i \in S /\ \A k \in S : Cardinality({j \in S : j <= k}) = i <=> k = a + i
    BY <1>4
  <2> HIDE DEF S
  <2> QED BY <2>1
<1>6. InOrder(S) = [i \in 1..(b-a) |-> CHOOSE k \in S : Cardinality({j \in S : j <= k}) = i]
  BY <1>1 DEF InOrder
<1>7. InOrder(S) = Run(a, b - a)
  <2> HIDE DEF S
  <2> QED BY <1>5, <1>6 DEF Run
<1> QED BY <1>7

\* At most as many of them as the limit allows.
LEMMA FirstNType ==
  ASSUME NEW s \in Seq(Rows), NEW limit \in Nat \ {0}
  PROVE  /\ FirstN(s, limit) \in Seq(Rows)
         /\ Len(FirstN(s, limit)) < limit => FirstN(s, limit) = s
<1> DEFINE n == IF Len(s) < limit THEN Len(s) ELSE limit
<1>1. n \in 0..Len(s) /\ n \in Nat
  OBVIOUS
<1>2. FirstN(s, limit) = SubSeq(s, 1, n)
  BY DEF FirstN
<1>3. FirstN(s, limit) \in Seq(Rows) /\ Len(FirstN(s, limit)) = n
  BY <1>1, <1>2, SubSeqProperties
<1>4. n < limit => n = Len(s)
  OBVIOUS
<1> QED BY <1>2, <1>3, <1>4, SubSeqFull

LEMMA FirstNOfRun ==
  ASSUME NEW a \in Nat, NEW n \in Nat, a + n <= MaxRows, NEW limit \in Nat \ {0}
  PROVE  \E m \in 0..n : FirstN(Run(a, n), limit) = Run(a, m)
<1> USE ConstantsAssumption
<1> DEFINE m == IF n < limit THEN n ELSE limit
<1>1. m \in 0..n /\ m \in Nat
  OBVIOUS
<1>2. FirstN(Run(a, n), limit) = SubSeq(Run(a, n), 1, m)
  BY RunType DEF FirstN
<1>3. SubSeq(Run(a, n), 1, m) = Run(a, m)
  <2>1. Run(a, n) \in Seq(Nat) /\ Len(Run(a, n)) = n /\ Run(a, m) \in Seq(Nat) /\ Len(Run(a, m)) = m
    BY <1>1, RunType
  <2>2. /\ SubSeq(Run(a, n), 1, m) \in Seq(Nat)
        /\ Len(SubSeq(Run(a, n), 1, m)) = m
        /\ \A i \in 1..m : SubSeq(Run(a, n), 1, m)[i] = Run(a, n)[i]
    BY <1>1, <2>1
  <2>3. \A i \in 1..m : Run(a, n)[i] = Run(a, m)[i]
    BY <1>1 DEF Run
  <2> HIDE DEF m
  <2> QED BY <2>1, <2>2, <2>3, SeqEqual
<1> QED BY <1>1, <1>2, <1>3

LEMMA RunThenRun ==
  ASSUME NEW a \in Nat, NEW n \in Nat
  PROVE  Run(0, a) \o Run(a, n) = Run(0, a + n)
<1>1. Run(0, a) \in Seq(Nat) /\ Run(a, n) \in Seq(Nat) /\ Run(0, a + n) \in Seq(Nat)
  BY RunType
<1>2. Len(Run(0, a)) = a /\ Len(Run(a, n)) = n /\ Len(Run(0, a + n)) = a + n
  <2>1. a + n \in Nat
    OBVIOUS
  <2> QED BY <2>1, RunType
<1>3. \A i \in 1..(a+n) : (Run(0, a) \o Run(a, n))[i] = IF i <= a THEN Run(0, a)[i] ELSE Run(a, n)[i - a]
  <2> HIDE DEF Run
  <2> DEFINE s == Run(0, a)
             t == Run(a, n)
  <2>1. \A i \in 1..(Len(s) + Len(t)) : (s \o t)[i] = IF i <= Len(s) THEN s[i] ELSE t[i - Len(s)]
    <3> HIDE DEF s, t
    <3>1. s \in Seq(Nat) /\ t \in Seq(Nat)
      BY <1>1 DEF s, t
    <3> QED BY <3>1, ConcatProperties
  <2> QED BY <1>2, <2>1
<1>4. \A i \in 1..(a+n) : (Run(0, a) \o Run(a, n))[i] = Run(0, a + n)[i]
  BY <1>3 DEF Run
<1>5. Run(0, a) \o Run(a, n) \in Seq(Nat) /\ Len(Run(0, a) \o Run(a, n)) = a + n
  BY <1>1, <1>2, ConcatProperties
<1> QED BY <1>1, <1>2, <1>4, <1>5, SeqEqual

LEMMA ShowType ==
  ASSUME logs \in Seq(Rows), NEW s \in Seq(Rows)
  PROVE  Show(s) \in Seq(Rows)
<1>1. ToSet(s) \ ToSet(logs) \in SUBSET Rows
  BY DEF ToSet
<1> QED BY <1>1, InOrderType DEF Show

\* Rows that follow what is shown, some of which it may have already, continue it.
LEMMA ShowRun ==
  ASSUME NEW a \in Nat, logs = Run(0, a), a <= MaxRows,
         NEW b \in Nat, NEW n \in Nat, b <= a, b + n <= MaxRows
  PROVE  Show(Run(b, n)) = Run(0, IF b + n <= a THEN a ELSE b + n)
<1> USE ConstantsAssumption
<1>1. ToSet(Run(b, n)) = (b+1)..(b+n) /\ ToSet(logs) = 1..a
  BY RunType
<1>2. CASE b + n <= a
  <2>1. ToSet(Run(b, n)) \ ToSet(logs) = {}
    BY <1>1, <1>2
  <2>2. InOrder({}) = <<>>
    BY FS_EmptySet DEF InOrder
  <2>3. logs \in Seq(Nat)
    BY RunType
  <2>4. logs \o <<>> = logs
    BY <2>3, ConcatEmptySeq
  <2> QED BY <1>2, <2>1, <2>2, <2>4 DEF Show
<1>3. CASE b + n > a
  <2>1. ToSet(Run(b, n)) \ ToSet(logs) = (a+1)..(b+n)
    BY <1>1, <1>3
  <2>2. InOrder((a+1)..(b+n)) = Run(a, (b + n) - a)
    BY <1>3, InOrderOfInterval DEF Rows
  <2>3. (b + n) - a \in Nat /\ a + ((b + n) - a) = b + n /\ ~(b + n <= a)
    BY <1>3
  <2>4. Run(0, a) \o Run(a, (b + n) - a) = Run(0, a + ((b + n) - a))
    BY <2>3, RunThenRun
  <2>5. Show(Run(b, n)) = Run(0, a) \o Run(a, (b + n) - a)
    BY <2>1, <2>2 DEF Show
  <2> QED BY <2>3, <2>4, <2>5
<1> QED BY <1>2, <1>3

(***************************************************************************)
(* Types                                                                   *)
(***************************************************************************)
LEMMA VisibleRows == Visible \in SUBSET Rows /\ FirstN(InOrder(Visible), BackfillLimit) \in Seq(Rows)
<1>1. Visible \in SUBSET Rows /\ BackfillLimit \in Nat \ {0}
  BY ConstantsAssumption DEF Visible
<1>2. InOrder(Visible) \in Seq(Rows)
  BY <1>1, InOrderType
<1> QED BY <1>1, <1>2, FirstNType

LEMMA LastType == \A s \in Seq(Rows) : s # <<>> => Last(s) \in Rows
BY DEF Last

LEMMA RowNumbers == Rows \in SUBSET (0..MaxRows) /\ 0 \in 0..MaxRows /\ MaxRows \in Nat
BY ConstantsAssumption DEF Rows

LEMMA NoPollType == NoPoll \in [pc: {"idle", "send", "status"}, rows: Seq(Rows), whole: BOOLEAN]
BY DEF NoPoll

LEMMA TypeInit == Init => TypeOK
<1> SUFFICES ASSUME Init PROVE TypeOK
  OBVIOUS
<1> USE ConstantsAssumption
<1>1. row \in [Rows -> {"no", "called", "visible"}] /\ calls \in 0..MaxRows /\ exitNote \in 0..MaxRows
  BY DEF Init
<1>2. poll \in [Polls -> [pc: {"idle", "send", "status"}, rows: Seq(Rows), whole: BOOLEAN]]
  BY NoPollType DEF Init
<1>3. backfill \in [pc: {"asked", "read", "shown"}, rows: Seq(Rows)] /\ logs \in Seq(Rows)
  BY DEF Init
<1>4. lastId \in 0..MaxRows /\ faults \in 0..MaxFaults /\ refetches \in 0..MaxRefetches
  BY DEF Init
<1>5. /\ exit \in {"no", "note", "done"} /\ status \in Active \cup Final
      /\ conn \in {"none", "open", "ended", "closed"} /\ seen \in {"none"} \cup Active \cup Final
      /\ overtaken \in BOOLEAN /\ overwritten \in BOOLEAN /\ cut \in BOOLEAN
  BY DEF Init, Active
<1> QED BY <1>1, <1>2, <1>3, <1>4, <1>5 DEF TypeOK

LEMMA EffectType ==
  ASSUME TypeOK, Effect
  PROVE  /\ conn' \in {"none", "open", "ended", "closed"}
         /\ lastId' \in 0..MaxRows
         /\ poll' = [p \in Polls |-> NoPoll]
<1>1. logs # <<>> => Last(logs) \in 0..MaxRows
  BY LastType, RowNumbers DEF TypeOK
<1> QED BY <1>1, RowNumbers DEF TypeOK, Effect, Open, Disconnect

LEMMA TypeStep == TypeOK /\ [Next]_vars => TypeOK'
<1> SUFFICES ASSUME TypeOK, [Next]_vars PROVE TypeOK'
  OBVIOUS
<1> USE ConstantsAssumption, NoPollType, RowNumbers
<1> USE DEF TypeOK, Active, Final
<1>1. CASE UNCHANGED vars
  BY <1>1 DEF vars, runner, stream, page
<1>2. CASE Claim \/ Settle \/ Cancel
  BY <1>2 DEF Claim, Settle, Cancel, stream, page
<1>3. ASSUME AppendCall PROVE calls' \in 0..MaxRows /\ row' \in [Rows -> {"no", "called", "visible"}]
  <2>1. calls + 1 \in 0..MaxRows
    BY <1>3 DEF AppendCall
  <2>2. row' = [row EXCEPT ![calls + 1] = "called"]
    BY <1>3 DEF AppendCall
  <2> QED BY <1>3, <2>1, <2>2 DEF AppendCall
<1>4. CASE Data
  BY <1>3, <1>4 DEF Data, stream, page
<1>5. CASE Close
  <2>1. calls + 1 \in 0..MaxRows
    BY <1>5 DEF Close, AppendCall
  <2> QED BY <1>3, <1>5, <2>1 DEF Close, stream, page
<1>6. ASSUME NEW k \in Rows, Commit(k) PROVE TypeOK'
  BY <1>6 DEF Commit, stream, page
<1>7. ASSUME NEW p \in Polls, Tick(p) PROVE TypeOK'
  <2>1. {k \in Visible : k > lastId} \in SUBSET Rows
    BY VisibleRows
  <2>2. FirstN(InOrder({k \in Visible : k > lastId}), Limit) \in Seq(Rows)
    BY <2>1, InOrderType, FirstNType, ConstantsAssumption
  <2> DEFINE rows == FirstN(InOrder({k \in Visible : k > lastId}), Limit)
             new == [pc |-> "send", rows |-> rows, whole |-> Settled /\ Len(rows) < Limit]
  <2>3. (Settled /\ Len(rows) < Limit) \in BOOLEAN
    BY DEF Settled
  <2>4. new \in [pc: {"idle", "send", "status"}, rows: Seq(Rows), whole: BOOLEAN]
    <3> HIDE DEF rows
    <3> DEFINE w == Settled /\ Len(rows) < Limit
    <3>1. rows \in Seq(Rows) /\ w \in BOOLEAN
      BY <2>2, <2>3 DEF rows
    <3> HIDE DEF w
    <3>2. [pc |-> "send", rows |-> rows, whole |-> w] \in [pc: {"idle", "send", "status"}, rows: Seq(Rows), whole: BOOLEAN]
      BY <3>1
    <3> QED BY <3>2 DEF w
  <2>5. poll' = [poll EXCEPT ![p] = new]
    BY <1>7 DEF Tick
  <2> HIDE DEF new
  <2> QED BY <1>7, <2>4, <2>5 DEF Tick, runner, page
<1>8. ASSUME NEW p \in Polls, Send(p) PROVE TypeOK'
  <2>1. poll[p].rows \in Seq(Rows)
    OBVIOUS
  <2>2. logs' \in Seq(Rows) /\ lastId' \in 0..MaxRows
    BY <1>8, <2>1, LastType, ShowType DEF Send
  <2>3. poll' \in [Polls -> [pc: {"idle", "send", "status"}, rows: Seq(Rows), whole: BOOLEAN]]
    <3>1. <<>> \in Seq(Rows)
      OBVIOUS
    <3>2. [poll[p] EXCEPT !.pc = "status", !.rows = <<>>]
            \in [pc: {"idle", "send", "status"}, rows: Seq(Rows), whole: BOOLEAN]
      BY <3>1
    <3>3. poll' = [poll EXCEPT ![p] = [poll[p] EXCEPT !.pc = "status", !.rows = <<>>]]
      BY <1>8 DEF Send
    <3> QED BY <3>2, <3>3
  <2> QED BY <1>8, <2>2, <2>3 DEF Send, runner
<1>9. ASSUME NEW p \in Polls, ReadStatus(p) \/ PollFails(p) PROVE TypeOK'
  <2>1. poll' \in [Polls -> [pc: {"idle", "send", "status"}, rows: Seq(Rows), whole: BOOLEAN]]
    BY <1>9 DEF ReadStatus, PollFails, Disconnect
  <2>2. cut' \in BOOLEAN
    BY <1>9 DEF ReadStatus, PollFails, stream
  <2>3. conn' \in {conn, "ended"} /\ lastId' \in {lastId, 0}
    BY <1>9 DEF ReadStatus, PollFails, Disconnect
  <2>4. faults' \in 0..MaxFaults /\ UNCHANGED <<runner, page>>
    BY <1>9 DEF ReadStatus, PollFails, Fault
  <2> QED BY <2>1, <2>2, <2>3, <2>4 DEF runner, page
<1>10. CASE ConnectionLost
  BY <1>10 DEF ConnectionLost, Disconnect, Fault, runner, page
<1>11. CASE GetJob
  BY <1>11, EffectType DEF GetJob, runner
<1>12. CASE Refetch
  BY <1>12, EffectType DEF Refetch, runner
<1>13. CASE ReadBackfill
  BY <1>13, VisibleRows DEF ReadBackfill, runner, stream
<1>14. CASE ShowBackfill
  BY <1>14 DEF ShowBackfill, runner, stream
<1> QED BY <1>1, <1>2, <1>4, <1>5, <1>6, <1>7, <1>8, <1>9, <1>10, <1>11, <1>12, <1>13, <1>14
    DEF Next, Runner, Poll

\* Every variable keeps to its values: the page's rows are rows of the job.
THEOREM TypeCorrect == Spec => []TypeOK
BY TypeInit, TypeStep, PTL DEF Spec

(***************************************************************************)
(* The invariant                                                           *)
(***************************************************************************)
\* The rows called are the first calls, and the exit note is the last of them.
Numbered == \A k \in Rows : row[k] = "no" <=> k > calls

NoteIsLast ==
  /\ exit # "no" => exitNote = calls /\ exitNote \in Rows
  /\ exit = "done" => row[exitNote] = "visible"
  /\ status = "verdict" => exit = "done"

\* Only an open stream is polled; it ends when the job is settled, and a poll that
\* has read everything has read it after that.
Listening ==
  /\ \A p \in Polls : poll[p].pc # "idle" => conn = "open"
  /\ \A p \in Polls : poll[p].whole => Settled
  /\ conn = "ended" => Settled

\* Rows became visible in their order so far.
NoGap == ~overtaken => \A k \in Visible : 1..k \subseteq Visible

\* The backfill is a prefix of the rows.
Loaded ==
  ~overtaken /\ backfill.pc = "read" =>
    \E c \in 0..MaxRows : backfill.rows = Run(0, c) /\ 1..c \subseteq Visible

\* So is what the page shows, and the stream has not moved past it.
Calm == ~overtaken /\ ~overwritten

Shown ==
  Calm => logs = Run(0, Len(logs)) /\ 1..Len(logs) \subseteq Visible /\ lastId <= Len(logs)

\* The rows that a poll still has to send connect to what the page shows; if they are
\* all there are, they reach the last.
Connected ==
  Calm => \A p \in Polls : poll[p].pc = "send" =>
    \E b \in 0..Len(logs), n \in Nat :
      /\ poll[p].rows = Run(b, n) /\ 1..(b+n) \subseteq Visible
      /\ poll[p].whole /\ status = "verdict" => b + n = calls

\* After a poll that has read everything, nothing is missing.
Complete ==
  Calm /\ status = "verdict" =>
    /\ \A p \in Polls : poll[p].pc = "status" /\ poll[p].whole => Len(logs) = calls
    /\ conn = "ended" /\ ~cut => Len(logs) = calls

IInv ==
  /\ TypeOK /\ Numbered /\ NoteIsLast /\ Listening
  /\ NoGap /\ Loaded /\ Shown /\ Connected /\ Complete

LEMMA IInvInit == Init => IInv
<1> SUFFICES ASSUME Init PROVE IInv
  OBVIOUS
<1>1. Run(0, 0) = <<>> /\ Len(<<>>) = 0
  BY RunType
<1>2. Shown
  BY <1>1 DEF Init, Shown
<1>3. Numbered /\ NoteIsLast /\ Listening /\ NoGap /\ Loaded /\ Connected /\ Complete
  BY RowNumbers DEF Init, Numbered, NoteIsLast, Listening, NoGap, Loaded, Connected, Complete, Visible, NoPoll, Rows
<1> QED BY <1>2, <1>3, TypeInit DEF IInv

\* The rows that can be read are the first ones.
LEMMA VisibleIsPrefix ==
  ASSUME TypeOK, Numbered, NoGap, ~overtaken
  PROVE  \E m \in 0..calls : Visible = 1..m
<1> USE RowNumbers
<1>1. CASE Visible = {}
  BY <1>1 DEF TypeOK
<1>2. CASE Visible # {}
  <2>1. PICK m \in Visible : \A k \in Visible : k <= m
    BY <1>2, VisibleRows, LastRow
  <2>2. m \in Rows /\ row[m] = "visible" /\ 1..m \subseteq Visible
    BY <2>1 DEF Visible, NoGap
  <2>3. m <= calls
    BY <2>2 DEF Numbered, TypeOK
  <2>4. Visible = 1..m
    BY <2>1, <2>2 DEF Visible, Rows
  <2> QED BY <2>2, <2>3, <2>4 DEF Rows, TypeOK
<1> QED BY <1>1, <1>2

\* What no step takes back.
LEMMA Lasting ==
  ASSUME IInv, [Next]_vars
  PROVE  /\ Visible \subseteq Visible'
         /\ ~overtaken' => ~overtaken
         /\ ~overwritten' => ~overwritten
         /\ status = "verdict" => UNCHANGED <<status, calls>>
         /\ Settled => status' = status
<1> USE DEF IInv, TypeOK
<1> DEFINE Goal == /\ Visible \subseteq Visible'
                   /\ ~overtaken' => ~overtaken
                   /\ ~overwritten' => ~overwritten
                   /\ status = "verdict" => UNCHANGED <<status, calls>>
                   /\ Settled => status' = status
<1> SUFFICES Goal
  OBVIOUS
<1>1. CASE UNCHANGED vars
  BY <1>1 DEF vars, runner, page, Visible
<1>2. CASE Claim \/ Settle \/ Cancel
  BY <1>2 DEF Claim, Settle, Cancel, page, Visible, Settled, Final
<1>3. CASE Data \/ Close
  <2>1. row' = [row EXCEPT ![calls + 1] = "called"] /\ calls < MaxRows /\ exit = "no" /\ UNCHANGED <<status, overtaken, page>>
    BY <1>3 DEF Data, Close, AppendCall
  <2>2. calls + 1 \in Rows => row[calls + 1] = "no"
    BY DEF Numbered, Rows
  <2>3. Visible \subseteq Visible'
    BY <2>1, <2>2 DEF Visible
  <2>4. status # "verdict"
    BY <2>1 DEF NoteIsLast
  <2> QED BY <2>1, <2>3, <2>4 DEF page
<1>4. ASSUME NEW k \in Rows, Commit(k) PROVE Goal
  BY <1>4 DEF Commit, Visible, page
<1>5. ASSUME NEW p \in Polls, Poll(p) \/ PollFails(p) PROVE Goal
  BY <1>5 DEF Poll, Tick, Send, ReadStatus, PollFails, Visible, runner, page
<1>6. CASE ConnectionLost \/ GetJob \/ Refetch \/ ReadBackfill \/ ShowBackfill
  BY <1>6 DEF ConnectionLost, GetJob, Refetch, ReadBackfill, ShowBackfill, Visible, runner, page
<1> HIDE DEF Goal, IInv, TypeOK
<1> QED BY <1>1, <1>2, <1>3, <1>4, <1>5, <1>6 DEF Next, Runner

\* The runner's rows.
LEMMA RowsStep ==
  ASSUME IInv, [Next]_vars
  PROVE  Numbered' /\ NoteIsLast' /\ NoGap'
<1> USE DEF IInv, TypeOK
<1>1. CASE UNCHANGED runner
  BY <1>1 DEF runner, Numbered, NoteIsLast, NoGap, Visible
<1>2. CASE Claim \/ Settle \/ Cancel
  BY <1>2 DEF Claim, Settle, Cancel, Numbered, NoteIsLast, NoGap, Visible
<1>3. CASE Data \/ Close
  <2>1. /\ row' = [row EXCEPT ![calls + 1] = "called"] /\ calls' = calls + 1 /\ calls + 1 \in Rows
        /\ exit = "no" /\ UNCHANGED <<status, overtaken>>
        /\ exit' # "no" => exitNote' = calls + 1
        /\ exit' # "done"
    BY <1>3, RowNumbers DEF Data, Close, AppendCall, Rows
  <2>2. Visible' = Visible
    BY <2>1 DEF Numbered, Visible, Rows
  <2>3. Numbered'
    BY <2>1, RowNumbers DEF Numbered
  <2> QED BY <2>1, <2>2, <2>3 DEF NoteIsLast, NoGap
<1>4. ASSUME NEW k \in Rows, Commit(k) PROVE Numbered' /\ NoteIsLast' /\ NoGap'
  <2>1. row[k] = "called" /\ row' = [row EXCEPT ![k] = "visible"] /\ UNCHANGED <<calls, exit, exitNote, status>>
    BY <1>4 DEF Commit
  <2>2. Numbered' /\ NoteIsLast'
    BY <2>1 DEF Numbered, NoteIsLast
  <2>3. ASSUME ~overtaken', NEW j \in Visible' PROVE 1..j \subseteq Visible'
    <3>1. ~overtaken /\ \A i \in 1..(k-1) : row[i] # "called"
      BY <1>4, <2>3 DEF Commit
    <3>2. Visible' = Visible \cup {k}
      BY <2>1 DEF Visible
    <3>3. 1..(k-1) \subseteq Visible
      BY <2>1, <3>1, RowNumbers DEF Numbered, Visible, Rows
    <3> QED BY <2>3, <3>1, <3>2, <3>3 DEF NoGap, Rows
  <2> QED BY <2>2, <2>3 DEF NoGap
<1>5. ASSUME NEW p \in Polls, Poll(p) \/ PollFails(p) PROVE UNCHANGED runner
  BY <1>5 DEF Poll, Tick, Send, ReadStatus, PollFails
<1>6. CASE ConnectionLost \/ GetJob \/ Refetch \/ ReadBackfill \/ ShowBackfill
  BY <1>1, <1>6 DEF ConnectionLost, GetJob, Refetch, ReadBackfill, ShowBackfill
<1> QED BY <1>1, <1>2, <1>3, <1>4, <1>5, <1>6 DEF Next, Runner, vars

\* The stream's place.
LEMMA ListeningStep ==
  ASSUME IInv, [Next]_vars
  PROVE  Listening'
<1> USE DEF IInv, TypeOK
<1>1. Settled => Settled'
  BY Lasting DEF Settled
<1>2. CASE UNCHANGED stream
  BY <1>1, <1>2 DEF stream, Listening
<1>3. ASSUME poll' = [p \in Polls |-> NoPoll], conn' = "ended" => Settled'
      PROVE  Listening'
  BY <1>3 DEF Listening, NoPoll
<1>4. ASSUME Effect PROVE poll' = [p \in Polls |-> NoPoll] /\ (conn' = "ended" => Settled)
  BY <1>4 DEF Effect, Open, Disconnect, Listening
<1>5. ASSUME NEW p \in Polls, Tick(p) PROVE Listening'
  BY <1>1, <1>5 DEF Tick, Listening
<1>6. ASSUME NEW p \in Polls, Send(p) PROVE Listening'
  BY <1>1, <1>6 DEF Send, Listening
<1>7. ASSUME NEW p \in Polls, ReadStatus(p) \/ PollFails(p) PROVE Listening'
  <2>1. CASE poll' = [poll EXCEPT ![p] = NoPoll] /\ conn' = conn
    BY <1>1, <2>1 DEF Listening, NoPoll
  <2>2. CASE Disconnect("ended") /\ Settled
    BY <1>1, <1>3, <2>2 DEF Disconnect
  <2> QED BY <1>7, <2>1, <2>2 DEF ReadStatus, PollFails
<1>8. CASE ConnectionLost
  BY <1>3, <1>8 DEF ConnectionLost, Disconnect
<1>9. CASE GetJob \/ Refetch
  <2>1. CASE Effect
    <3>1. poll' = [p \in Polls |-> NoPoll] /\ (conn' = "ended" => Settled')
      BY <1>1, <1>4, <2>1
    <3> HIDE DEF IInv, TypeOK
    <3> QED BY <1>3, <3>1
  <2>2. CASE UNCHANGED <<conn, poll>>
    BY <1>1, <2>2 DEF Listening
  <2> QED BY <1>9, <2>1, <2>2 DEF GetJob, Refetch
<1>10. CASE Runner \/ Data \/ Close \/ Cancel \/ ReadBackfill \/ ShowBackfill
  <2>1. UNCHANGED stream
    BY <1>10 DEF Runner, Data, Close, Cancel, ReadBackfill, ShowBackfill, Claim, Settle, Commit
  <2> QED BY <1>2, <2>1
<1> QED BY <1>2, <1>5, <1>6, <1>7, <1>8, <1>9, <1>10 DEF Next, Poll, vars

\* The backfill's answer.
LEMMA LoadedStep ==
  ASSUME IInv, [Next]_vars
  PROVE  Loaded'
<1> SUFFICES ASSUME ~overtaken', backfill'.pc = "read"
             PROVE  \E c \in 0..MaxRows : backfill'.rows = Run(0, c) /\ 1..c \subseteq Visible'
  BY DEF Loaded
<1>1. ~overtaken /\ Visible \subseteq Visible'
  BY Lasting
<1>2. CASE ReadBackfill
  <2>1. PICK m \in 0..calls : Visible = 1..m
    BY <1>1, VisibleIsPrefix DEF IInv
  <2>2. m \in Rows \cup {0} /\ m \in 0..MaxRows /\ m \in Nat
    BY RowNumbers DEF IInv, TypeOK, Rows
  <2>3. InOrder((0+1)..m) = Run(0, m - 0)
    BY <2>2, InOrderOfInterval
  <2>4. PICK c \in 0..m : FirstN(Run(0, m), BackfillLimit) = Run(0, c)
    BY <2>2, FirstNOfRun, ConstantsAssumption
  <2>5. backfill'.rows = Run(0, c)
    BY <1>2, <2>1, <2>2, <2>3, <2>4 DEF ReadBackfill
  <2>6. c \in 0..MaxRows /\ 1..c \subseteq Visible
    BY <2>1, <2>2, <2>4, ConstantsAssumption
  <2> QED BY <1>1, <2>5, <2>6
<1>3. CASE ShowBackfill
  BY <1>3 DEF ShowBackfill
<1>4. CASE backfill' = backfill
  BY <1>1, <1>4 DEF IInv, Loaded
<1>5. CASE Runner \/ Data \/ Close \/ Cancel
  BY <1>4, <1>5 DEF Runner, Data, Close, Cancel, Claim, Settle, Commit, page
<1>6. ASSUME NEW p \in Polls, Poll(p) \/ PollFails(p) PROVE backfill' = backfill
  BY <1>6 DEF Poll, Tick, Send, ReadStatus, PollFails, page
<1>7. CASE ConnectionLost \/ GetJob \/ Refetch
  BY <1>4, <1>7 DEF ConnectionLost, GetJob, Refetch, page
<1> QED BY <1>2, <1>3, <1>4, <1>5, <1>6, <1>7 DEF Next, vars, page

\* What a poll reads continues what the page shows.
LEMMA TickReads ==
  ASSUME IInv, Calm, NEW p \in Polls, Tick(p)
  PROVE  \E b \in 0..Len(logs), n \in Nat :
            /\ poll'[p].rows = Run(b, n) /\ 1..(b+n) \subseteq Visible
            /\ poll'[p].whole /\ status = "verdict" => b + n = calls
<1> USE RowNumbers
<1>1. PICK m \in 0..calls : Visible = 1..m
  BY VisibleIsPrefix DEF IInv, Calm
<1>2. /\ lastId \in Nat /\ lastId <= Len(logs) /\ 1..Len(logs) \subseteq 1..m
      /\ Len(logs) \in Nat /\ m \in Rows \cup {0} /\ m \in 0..MaxRows /\ m \in Nat
  BY <1>1 DEF IInv, TypeOK, Shown, Rows
<1>3. lastId <= m /\ m - lastId \in Nat /\ lastId \in 0..Len(logs) /\ lastId + (m - lastId) = m
  BY <1>2
<1>4. {k \in Visible : k > lastId} = (lastId+1)..m
  BY <1>1, <1>2
<1>5. InOrder((lastId+1)..m) = Run(lastId, m - lastId)
  BY <1>2, <1>3, InOrderOfInterval
<1>6. PICK n \in 0..(m - lastId) : FirstN(Run(lastId, m - lastId), Limit) = Run(lastId, n)
  BY <1>2, <1>3, FirstNOfRun, ConstantsAssumption
<1> DEFINE rows == FirstN(InOrder({k \in Visible : k > lastId}), Limit)
<1>7. rows = Run(lastId, n) /\ n \in Nat /\ Len(rows) = n
  <2>1. n \in Nat
    BY <1>3, <1>6
  <2>2. rows = Run(lastId, n)
    BY <1>4, <1>5, <1>6
  <2> QED BY <1>2, <2>1, <2>2, RunType
<1>8. poll'[p] = [pc |-> "send", rows |-> rows, whole |-> Settled /\ Len(rows) < Limit]
  BY DEF Tick, IInv, TypeOK
<1> HIDE DEF rows
<1>9. 1..(lastId + n) \subseteq Visible
  BY <1>1, <1>2, <1>3, <1>6
<1>10. ASSUME poll'[p].whole, status = "verdict" PROVE lastId + n = calls
  <2>1. n < Limit
    <3>1. poll'[p].whole = (Settled /\ Len(rows) < Limit)
      BY <1>8
    <3> QED BY <1>7, <1>10, <3>1
  <2>2. FirstN(Run(lastId, m - lastId), Limit) = Run(lastId, m - lastId)
    <3>1. Run(lastId, m - lastId) \in Seq(Rows) /\ Len(Run(lastId, n)) = n
      BY <1>2, <1>3, <1>7, RunType
    <3> QED BY <1>6, <2>1, <3>1, FirstNType, ConstantsAssumption
  <2>3. Len(Run(lastId, m - lastId)) = m - lastId /\ Len(Run(lastId, n)) = n
    BY <1>2, <1>3, <1>7, RunType
  <2>4. n = m - lastId
    BY <1>6, <2>2, <2>3
  <2>5. m = calls
    BY <1>1, <1>2, <1>10 DEF IInv, NoteIsLast, Visible, TypeOK
  <2> QED BY <1>3, <2>4, <2>5
<1>11. poll'[p].rows = Run(lastId, n)
  BY <1>7, <1>8
<1>12. lastId \in 0..Len(logs) /\ n \in Nat
  BY <1>3, <1>7
<1> USE <1>12
<1> WITNESS lastId \in 0..Len(logs), n \in Nat
<1> QED BY <1>9, <1>10, <1>11

\* What a poll sends continues it, too.
LEMMA SendShows ==
  ASSUME IInv, Calm, NEW p \in Polls, Send(p)
  PROVE  /\ logs' = Run(0, Len(logs')) /\ Len(logs') \in Nat /\ Len(logs) <= Len(logs')
         /\ 1..Len(logs') \subseteq Visible /\ lastId' <= Len(logs')
         /\ poll[p].whole /\ status = "verdict" => Len(logs') = calls
<1> USE RowNumbers
<1>1. PICK m \in 0..calls : Visible = 1..m
  BY VisibleIsPrefix DEF IInv, Calm
<1>2. PICK b \in 0..Len(logs), n \in Nat :
        /\ poll[p].rows = Run(b, n) /\ 1..(b+n) \subseteq Visible
        /\ poll[p].whole /\ status = "verdict" => b + n = calls
  BY DEF IInv, Connected, Send
<1> DEFINE a == Len(logs)
           e == IF b + n <= a THEN a ELSE b + n
<1>3. /\ a \in Nat /\ logs = Run(0, a) /\ 1..a \subseteq 1..m /\ lastId <= a
      /\ b \in Nat /\ b <= a /\ m \in Nat /\ m <= calls /\ m <= MaxRows
  BY <1>1, <1>2 DEF IInv, Shown, TypeOK
<1>4. a <= m /\ b + n <= m
  <2>1. 1..(b+n) \subseteq 1..m
    BY <1>1, <1>2
  <2> QED BY <1>3, <2>1
<1>5. Show(Run(b, n)) = Run(0, e)
  <2>1. a <= MaxRows /\ b + n <= MaxRows
    BY <1>3, <1>4
  <2> HIDE DEF a
  <2> QED BY <1>3, <2>1, ShowRun
<1>6. e \in Nat /\ a <= e /\ e <= m /\ b + n <= e
  BY <1>3, <1>4
<1>7. logs' = Run(0, e)
  BY <1>2, <1>5 DEF Send
<1> HIDE DEF e
<1>8. Len(logs') = e
  BY <1>6, <1>7, RunType
<1>9. lastId' <= e
  <2>1. CASE n = 0
    <3>1. Run(b, n) = <<>>
      BY <1>3, <2>1, RunType
    <3> QED BY <1>2, <1>3, <1>6, <3>1 DEF Send, IInv, TypeOK
  <2>2. CASE n # 0
    <3>1. Run(b, n) # <<>> /\ Last(Run(b, n)) = b + n
      BY <1>3, <2>2, RunType
    <3> QED BY <1>2, <1>6, <3>1 DEF Send
  <2> QED BY <2>1, <2>2
<1>10. 1..e \subseteq Visible
  BY <1>1, <1>3, <1>6
<1>11. poll[p].whole /\ status = "verdict" => e = calls
  BY <1>2, <1>3, <1>6 DEF IInv, TypeOK
<1> QED BY <1>6, <1>7, <1>8, <1>9, <1>10, <1>11

\* The backfill that replaces what is shown, and has it all, is a longer prefix.
LEMMA BackfillShows ==
  ASSUME IInv, Calm', Calm, ShowBackfill
  PROVE  /\ logs' = Run(0, Len(logs')) /\ Len(logs') \in Nat /\ Len(logs) <= Len(logs')
         /\ 1..Len(logs') \subseteq Visible
<1>1. PICK c \in 0..MaxRows : backfill.rows = Run(0, c) /\ 1..c \subseteq Visible
  BY DEF IInv, Loaded, Calm, ShowBackfill
<1>2. c \in Nat /\ Len(logs) \in Nat /\ logs = Run(0, Len(logs))
  BY RowNumbers DEF IInv, TypeOK, Shown
<1>3. ToSet(logs) \subseteq ToSet(backfill.rows) /\ logs' = Run(0, c)
  BY <1>1 DEF ShowBackfill, Calm
<1>4. ToSet(Run(0, c)) = 1..c /\ ToSet(Run(0, Len(logs))) = 1..Len(logs)
  BY <1>2, RunType
<1>5. Len(logs) <= c
  <2>1. 1..Len(logs) \subseteq 1..c
    BY <1>1, <1>2, <1>3, <1>4
  <2> QED BY <1>2, <2>1
<1>6. Len(logs') = c
  BY <1>2, <1>3, RunType
<1> QED BY <1>1, <1>2, <1>3, <1>5, <1>6

\* The page's side: what it shows, what is on its way, and what is complete.
LEMMA ShownStep ==
  ASSUME IInv, [Next]_vars
  PROVE  Shown' /\ Connected' /\ Complete'
<1> SUFFICES ASSUME Calm' PROVE Shown' /\ Connected' /\ Complete'
  BY DEF Shown, Connected, Complete
<1> USE RowNumbers
<1>1. /\ Calm /\ Visible \subseteq Visible'
      /\ status = "verdict" => status' = "verdict" /\ calls' = calls
      /\ Settled => status' = status
  BY Lasting DEF Calm
<1>2. /\ logs = Run(0, Len(logs)) /\ 1..Len(logs) \subseteq Visible /\ lastId <= Len(logs)
      /\ Len(logs) \in Nat /\ lastId \in Nat /\ calls \in Nat
  BY <1>1 DEF IInv, TypeOK, Shown
<1>3. \A p \in Polls : poll[p].pc = "send" =>
        \E b \in 0..Len(logs), n \in Nat :
          /\ poll[p].rows = Run(b, n) /\ 1..(b+n) \subseteq Visible'
          /\ poll[p].whole /\ status' = "verdict" => b + n = calls'
  BY <1>1 DEF IInv, Connected, Listening, Settled, Final
<1>4. status' = "verdict" =>
        /\ \A p \in Polls : poll[p].pc = "status" /\ poll[p].whole => Len(logs) = calls'
        /\ conn = "ended" /\ ~cut => Len(logs) = calls'
  BY <1>1 DEF IInv, Complete, Listening, Settled, Final
\* What is shown at least does not get less.
<1>5. ASSUME logs' = Run(0, Len(logs')), Len(logs') \in Nat, Len(logs) <= Len(logs'),
             1..Len(logs') \subseteq Visible'
      PROVE  /\ \A p \in Polls : poll[p].pc = "send" =>
                   \E b \in 0..Len(logs'), n \in Nat :
                     /\ poll[p].rows = Run(b, n) /\ 1..(b+n) \subseteq Visible'
                     /\ poll[p].whole /\ status' = "verdict" => b + n = calls'
             /\ Len(logs) = calls' => Len(logs') = calls'
  <2>1. 0..Len(logs) \subseteq 0..Len(logs')
    BY <1>2, <1>5
  <2>2. Len(logs') <= calls'
    <3>1. Visible' \subseteq 1..calls'
      BY RowsStep, TypeStep DEF Numbered, Visible, IInv, TypeOK, Rows
    <3>2. calls' \in Nat
      BY TypeStep DEF IInv, TypeOK
    <3> QED BY <1>5, <3>1, <3>2
  <2>3. calls' \in Nat
    BY TypeStep DEF IInv, TypeOK
  <2>4. Len(logs) = calls' => Len(logs') = calls'
    BY <1>2, <1>5, <2>2, <2>3
  <2> QED BY <1>3, <2>1, <2>4
<1>6. CASE UNCHANGED <<stream, logs>>
  <2>1. Shown'
    BY <1>1, <1>2, <1>6 DEF Shown, stream
  <2>2. Connected'
    BY <1>3, <1>6 DEF Connected, stream
  <2>3. Complete'
    BY <1>4, <1>6 DEF Complete, stream
  <2> QED BY <2>1, <2>2, <2>3
\* The stream begins anew.
<1>7. ASSUME logs' = logs, poll' = [p \in Polls |-> NoPoll], lastId' \in {0, Len(logs)},
             conn' = "ended" => conn = "ended" /\ cut' = cut
      PROVE  Shown' /\ Connected' /\ Complete'
  <2>1. Shown'
    BY <1>1, <1>2, <1>7 DEF Shown
  <2>2. Connected' /\ \A p \in Polls : poll'[p].pc = "idle"
    BY <1>7 DEF Connected, NoPoll
  <2>3. Complete'
    BY <1>4, <1>7, <2>2 DEF Complete
  <2> QED BY <2>1, <2>2, <2>3
<1>8. ASSUME Effect, UNCHANGED <<logs, cut>> PROVE Shown' /\ Connected' /\ Complete'
  <2>1. IF logs = <<>> THEN Len(logs) = 0 ELSE Last(logs) = Len(logs)
    <3>1. CASE Len(logs) = 0
      BY <1>2, <3>1, RunType
    <3>2. CASE Len(logs) # 0
      <4>1. Run(0, Len(logs)) # <<>> /\ Last(Run(0, Len(logs))) = 0 + Len(logs)
        BY <1>2, <3>2, RunType
      <4> QED BY <1>2, <4>1
    <3> QED BY <3>1, <3>2
  <2> QED BY <1>7, <1>8, <2>1 DEF Effect, Open, Disconnect
<1>9. ASSUME NEW p \in Polls, Tick(p) PROVE Shown' /\ Connected' /\ Complete'
  <2>1. /\ UNCHANGED <<logs, lastId, conn, cut, status, calls>>
        /\ \A q \in Polls : q # p => poll'[q] = poll[q]
        /\ poll'[p].pc = "send"
    BY <1>9 DEF Tick, IInv, TypeOK, runner, page
  <2>2. Shown'
    BY <1>1, <1>2, <2>1 DEF Shown
  <2>3. Connected'
    <3> SUFFICES ASSUME NEW q \in Polls, poll'[q].pc = "send"
                 PROVE  \E b \in 0..Len(logs), n \in Nat :
                          /\ poll'[q].rows = Run(b, n) /\ 1..(b+n) \subseteq Visible'
                          /\ poll'[q].whole /\ status' = "verdict" => b + n = calls'
      BY <2>1 DEF Connected
    <3>1. CASE q = p
      BY <1>1, <1>9, <2>1, <3>1, TickReads
    <3>2. CASE q # p
      BY <1>3, <2>1, <3>2
    <3> QED BY <3>1, <3>2
  <2>4. Complete'
    BY <1>4, <2>1 DEF Complete
  <2> QED BY <2>2, <2>3, <2>4
<1>10. ASSUME NEW p \in Polls, Send(p) PROVE Shown' /\ Connected' /\ Complete'
  <2>1. /\ UNCHANGED <<conn, cut, status, calls>>
        /\ \A q \in Polls : q # p => poll'[q] = poll[q]
        /\ poll'[p].pc = "status" /\ poll'[p].whole = poll[p].whole
    BY <1>10 DEF Send, IInv, TypeOK, runner
  <2>2. /\ logs' = Run(0, Len(logs')) /\ Len(logs') \in Nat /\ Len(logs) <= Len(logs')
        /\ 1..Len(logs') \subseteq Visible /\ lastId' <= Len(logs')
        /\ poll[p].whole /\ status = "verdict" => Len(logs') = calls
    BY <1>1, <1>10, SendShows
  <2>3. Shown'
    BY <1>1, <2>2 DEF Shown
  <2>4. /\ \A q \in Polls : poll[q].pc = "send" =>
              \E b \in 0..Len(logs'), n \in Nat :
                /\ poll[q].rows = Run(b, n) /\ 1..(b+n) \subseteq Visible'
                /\ poll[q].whole /\ status' = "verdict" => b + n = calls'
        /\ Len(logs) = calls' => Len(logs') = calls'
    BY <1>1, <1>5, <2>2
  <2>5. Connected'
    <3> SUFFICES ASSUME NEW q \in Polls, poll'[q].pc = "send"
                 PROVE  \E b \in 0..Len(logs'), n \in Nat :
                          /\ poll'[q].rows = Run(b, n) /\ 1..(b+n) \subseteq Visible'
                          /\ poll'[q].whole /\ status' = "verdict" => b + n = calls'
      BY DEF Connected
    <3>1. q # p /\ poll'[q] = poll[q]
      BY <2>1
    <3> QED BY <2>4, <3>1
  <2>6. Complete'
    <3> SUFFICES ASSUME status' = "verdict"
                 PROVE  /\ \A q \in Polls : poll'[q].pc = "status" /\ poll'[q].whole => Len(logs') = calls'
                        /\ conn' = "ended" /\ ~cut' => Len(logs') = calls'
      BY DEF Complete
    <3>1. \A q \in Polls : q # p /\ poll'[q].pc = "status" /\ poll'[q].whole => Len(logs') = calls'
      BY <1>4, <2>1, <2>4
    <3>2. poll'[p].whole => Len(logs') = calls'
      BY <2>1, <2>2
    <3> QED BY <1>4, <2>1, <2>4, <3>1, <3>2
  <2> QED BY <2>3, <2>5, <2>6
<1>11. ASSUME NEW p \in Polls, ReadStatus(p) \/ PollFails(p) PROVE Shown' /\ Connected' /\ Complete'
  <2>1. UNCHANGED <<logs, status, calls>> /\ poll[p].pc # "idle"
    BY <1>11 DEF ReadStatus, PollFails, runner, page
  <2>2. CASE poll' = [poll EXCEPT ![p] = NoPoll] /\ UNCHANGED <<conn, lastId, cut>>
    <3>1. \A q \in Polls : poll'[q].pc # "idle" => poll'[q] = poll[q]
      BY <2>2 DEF NoPoll, IInv, TypeOK
    <3>2. Shown'
      BY <1>1, <1>2, <2>1, <2>2 DEF Shown
    <3>3. Connected'
      BY <1>3, <2>1, <3>1 DEF Connected
    <3>4. Complete'
      BY <1>4, <2>1, <2>2, <3>1 DEF Complete
    <3> QED BY <3>2, <3>3, <3>4
  <2>3. CASE Disconnect("ended") /\ cut' = ~poll[p].whole /\ poll[p].pc = "status"
    <3>1. poll' = [q \in Polls |-> NoPoll] /\ lastId' = 0
      BY <2>3 DEF Disconnect
    <3>2. Shown'
      BY <1>1, <1>2, <2>1, <3>1 DEF Shown
    <3>3. Connected' /\ \A q \in Polls : poll'[q].pc = "idle"
      BY <3>1 DEF Connected, NoPoll
    <3>4. ~cut' => poll[p].whole
      BY <2>3
    <3>5. Complete'
      BY <1>4, <2>1, <2>3, <3>3, <3>4 DEF Complete
    <3> QED BY <3>2, <3>3, <3>5
  <2> QED BY <1>11, <2>2, <2>3 DEF ReadStatus, PollFails
<1>12. CASE ConnectionLost
  BY <1>7, <1>12 DEF ConnectionLost, Disconnect, page
<1>13. CASE GetJob \/ Refetch
  <2>1. UNCHANGED <<logs, cut>> /\ (Effect \/ UNCHANGED stream)
    BY <1>13 DEF GetJob, Refetch, stream
  <2> QED BY <1>6, <1>8, <2>1
<1>14. CASE ShowBackfill
  <2>1. /\ logs' = Run(0, Len(logs')) /\ Len(logs') \in Nat /\ Len(logs) <= Len(logs')
        /\ 1..Len(logs') \subseteq Visible
    BY <1>1, <1>14, BackfillShows
  <2>2. UNCHANGED <<conn, lastId, poll, cut>>
    BY <1>14 DEF ShowBackfill, stream
  <2>3. Shown'
    BY <1>1, <1>2, <2>1, <2>2 DEF Shown
  <2>4. /\ \A q \in Polls : poll[q].pc = "send" =>
              \E b \in 0..Len(logs'), n \in Nat :
                /\ poll[q].rows = Run(b, n) /\ 1..(b+n) \subseteq Visible'
                /\ poll[q].whole /\ status' = "verdict" => b + n = calls'
        /\ Len(logs) = calls' => Len(logs') = calls'
    BY <1>1, <1>5, <2>1
  <2>5. Connected'
    BY <2>2, <2>4 DEF Connected
  <2>6. Complete'
    BY <1>4, <2>2, <2>4 DEF Complete
  <2> QED BY <2>3, <2>5, <2>6
<1>15. CASE Runner \/ Data \/ Close \/ Cancel \/ ReadBackfill
  <2>1. UNCHANGED <<stream, logs>>
    BY <1>15 DEF Runner, Data, Close, Cancel, Claim, Settle, Commit, ReadBackfill, page
  <2> QED BY <1>6, <2>1
<1>16. CASE UNCHANGED vars
  BY <1>6, <1>16 DEF vars, page
<1> QED BY <1>9, <1>10, <1>11, <1>12, <1>13, <1>14, <1>15, <1>16 DEF Next, Poll

LEMMA IInvStep == IInv /\ [Next]_vars => IInv'
<1> SUFFICES ASSUME IInv, [Next]_vars PROVE IInv'
  OBVIOUS
<1>1. TypeOK'
  BY TypeStep DEF IInv
<1>2. Numbered' /\ NoteIsLast' /\ NoGap' /\ Listening' /\ Loaded' /\ Shown' /\ Connected' /\ Complete'
  BY RowsStep, ListeningStep, LoadedStep, ShownStep
<1> QED BY <1>1, <1>2 DEF IInv

\* The page shows the output from its beginning, without a hole or a repetition
\* (JobDetailPage.tsx, the 'log' listener; jobs.js, lastId), for any number of rows and
\* polls, any limit and any failures: unless rows became visible out of order or the
\* backfill has replaced streamed rows.
THEOREM PageShowsAPrefix == Spec => []NoHole
<1>1. IInv => NoHole
  <2>1. \A n \in Nat : Run(0, n) = [i \in 1..n |-> i]
    BY DEF Run
  <2>2. TypeOK => Len(logs) \in Nat
    BY DEF TypeOK
  <2> QED BY <2>1, <2>2 DEF IInv, NoHole, Shown, Calm
<1> QED BY <1>1, IInvInit, IInvStep, PTL DEF Spec

\* A stream that ended with the verdict has shown all of the output (jobs.js, poll: the
\* rows are read first, the status then), for any number of rows and polls, any limit
\* and any failures: unless the last query could not have read it all.
THEOREM VerdictComesLast == Spec => []NothingAfterTheVerdict
<1>1. IInv => NothingAfterTheVerdict
  <2> SUFFICES ASSUME IInv, conn = "ended", status = "verdict", exit = "done", ~cut, ~overtaken, ~overwritten
               PROVE  Len(logs) = calls /\ Contains(logs, exitNote)
    BY DEF NothingAfterTheVerdict
  <2>1. Len(logs) = calls /\ exitNote = calls /\ exitNote \in Rows
    BY DEF IInv, Complete, Calm, NoteIsLast
  <2>2. logs = Run(0, calls) /\ calls \in Nat /\ calls \in 1..calls
    BY <2>1, RowNumbers DEF IInv, TypeOK, Shown, Calm, Rows
  <2>3. logs[calls] = calls
    BY <2>2 DEF Run
  <2> QED BY <2>1, <2>2, <2>3 DEF Contains
<1> QED BY <1>1, IInvInit, IInvStep, PTL DEF Spec
=============================================================================
