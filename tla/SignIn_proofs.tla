---------------------------- MODULE SignIn_proofs -----------------------------
(***************************************************************************)
(* Who is let in, for any number of requests, tabs and sessions:           *)
(*   Accounts    the first user who registers is in charge and the only    *)
(*               one whom nobody had to let in, an identity has one        *)
(*               account, and a link in a mail works once;                 *)
(*   WebSession  who signs out stays signed out, and no page sends a token *)
(*               that it could know to be stale.                           *)
(***************************************************************************)
EXTENDS Accounts, WebSession, FiniteSetTheorems, SequenceTheorems, WellFoundedInduction, TLAPS

-----------------------------------------------------------------------------
(* Accounts *)

\* A set of naturals that is not empty has a least element.
LEMMA LeastNatural ==
  ASSUME NEW S \in SUBSET Nat, S # {}
  PROVE  \E n \in S : \A m \in S : n <= m
<1> DEFINE UpTo == {0..n : n \in S}
<1>1. UpTo # {} /\ UpTo \subseteq FiniteSubsetsOf(Nat)
  <2>1. \A n \in S : IsFiniteSet(0..n) /\ 0..n \subseteq Nat
    BY FS_Interval
  <2> QED BY <2>1 DEF FiniteSubsetsOf
<1>2. PICK U \in UpTo : \A V \in UpTo : <<V, U>> \notin StrictSubsetOrdering(Nat)
  BY <1>1, FS_StrictSubsetOrderingWellFounded, WFMin
<1>3. PICK n \in S : U = 0..n
  BY <1>2
<1>4. ASSUME NEW m \in S, m < n PROVE FALSE
  <2>1. 0..m \in UpTo /\ 0..m \subseteq 0..n /\ n \in 0..n /\ n \notin 0..m
    BY <1>4
  <2>2. <<0..m, U>> \in StrictSubsetOrdering(Nat)
    BY <2>1, <1>3 DEF StrictSubsetOrdering
  <2> QED BY <1>2, <2>1, <2>2
<1> QED BY <1>4

\* A finite set of naturals that is not empty has a greatest element.
LEMMA GreatestNatural ==
  ASSUME NEW S \in SUBSET Nat, IsFiniteSet(S), S # {}
  PROVE  \E n \in S : \A m \in S : m <= n
<1> DEFINE Above == {{m \in S : m >= n} : n \in S}
<1>1. Above # {} /\ Above \subseteq FiniteSubsetsOf(S)
  <2>1. \A n \in S : IsFiniteSet({m \in S : m >= n}) /\ {m \in S : m >= n} \subseteq S
    BY FS_Subset
  <2> QED BY <2>1 DEF FiniteSubsetsOf
<1>2. PICK U \in Above : \A V \in Above : <<V, U>> \notin StrictSubsetOrdering(S)
  BY <1>1, FS_StrictSubsetOrderingWellFounded, WFMin
<1>3. PICK n \in S : U = {m \in S : m >= n}
  BY <1>2
<1>4. ASSUME NEW m \in S, ~(m <= n) PROVE FALSE
  <2> DEFINE V == {k \in S : k >= m}
  <2>1. V \in Above /\ V \subseteq U /\ n \in U /\ n \notin V
    <3>1. m \in Nat /\ n \in Nat /\ m > n /\ n >= n
      BY <1>4
    <3>2. \A k \in S : k \in Nat
      OBVIOUS
    <3>3. \A k \in S : k >= m => k >= n
      BY <3>1, <3>2
    <3>4. V \subseteq U /\ n \in U /\ n \notin V
      <4>1. n \in U
        BY <1>3, <3>1
      <4>2. n \notin V
        BY <3>1
      <4>3. \A k \in V : k \in U
        BY <1>3, <3>3
      <4> QED BY <4>1, <4>2, <4>3
    <3>5. V \in Above
      OBVIOUS
    <3> QED BY <3>4, <3>5
  <2>2. V \in FiniteSubsetsOf(S) /\ U \in FiniteSubsetsOf(S)
    BY <1>1, <2>1
  <2>3. <<V, U>> \in StrictSubsetOrdering(S)
    <3> HIDE DEF V
    <3> QED BY <2>1, <2>2 DEF StrictSubsetOrdering, FiniteSubsetsOf
  <2> QED BY <1>2, <2>1, <2>3
<1> QED BY <1>4

Pcs == {"done", "validate", "count", "number", "insert", "hook", "mark", "groups", "setPassword",
        "findLink", "findMail", "link", "uid", "raced", "look", "gaveUp"}
Statuses == {"pending", "active", "disabled"}
Rows == [uid : Nat, mail : Mails \cup {None}, status : Statuses, link : Subjects \cup {None}, by : Nat,
         self : BOOLEAN]
Requests == [op : {"none", "register", "oidc", "create", "edit", "reset"}, pc : Pcs, uid : Nat,
             mail : Mails \cup {None}, sub : Subjects \cup {None}, num : Nat, by : Nat, status : Statuses,
             token : Nat, grp : {"keep", "sys", "plain"}, self : BOOLEAN, tries : Nat, beaten : Nat,
             mailTaken : BOOLEAN]
Tokens == [kind : {"invite", "reset"}, for : Mails \cup Nat, used : BOOLEAN, uses : Nat, excused : BOOLEAN]

TableTyped ==
  /\ DOMAIN users \subseteq Nat /\ IsFiniteSet(DOMAIN users) /\ users \in [DOMAIN users -> Rows]
  /\ sysadmins \in {"admin", "plain", "gone"} /\ admins \subseteq DOMAIN users
RestTyped ==
  /\ scenario \in Scenarios /\ tokens \in Seq(Tokens) /\ reqs \in Seq(Requests)
  /\ signedIn \subseteq Subjects \X Nat
  /\ excused \in BOOLEAN /\ linkRace \in BOOLEAN /\ led \in BOOLEAN

\* Where the handlers of each kind may be, with n tokens.
PcsOf(op) ==
  CASE op = "none" -> {"done"}
    [] op = "register" -> {"validate", "count", "number", "insert", "hook", "mark"}
    [] op = "create" -> {"number", "insert", "hook", "groups"}
    [] op = "edit" -> {"groups"}
    [] op = "reset" -> {"validate", "setPassword", "mark"}
    [] op = "oidc" -> {"findLink", "findMail", "link", "uid", "number", "insert", "hook", "raced", "look", "gaveUp"}
Shaped(q, n) ==
  /\ q.pc \in PcsOf(q.op)
  /\ q.op = "oidc" => q.sub \in Subjects /\ (q.pc \in CreatingPcs \cup {"findLink", "findMail"} => q.status = "active")
  /\ q.op # "oidc" => q.sub = None
  /\ q.token \in 0 .. n /\ (q.token # 0 => q.op \in {"register", "reset"})
  /\ q.pc \in {"validate", "setPassword", "mark"} => q.token # 0
  /\ q.self => q.op = "register" /\ q.token = 0
  /\ q.op = "register" /\ q.pc \in {"number", "insert"} => (q.token = 0 => q.self) /\ (q.token # 0 => q.status = "active")
AllShaped == \A r \in DOMAIN reqs : Shaped(reqs[r], Len(tokens))

\* An identity's account.
MayMake(r) ==
  r # 0 /\ (r \in DOMAIN reqs =>
             reqs[r].pc \in {"validate", "count", "number", "insert", "uid", "raced", "findLink", "findMail"})
LinksHold ==
  /\ \A n \in DOMAIN users : ~MayMake(users[n].by)
  /\ \A s \in signedIn : ~MayMake(s[2])
  /\ \A r \in DOMAIN reqs : At(r, "link") => ~MayMake(reqs[r].by)
  /\ \A n, m \in DOMAIN users : n # m => /\ users[n].by # users[m].by
                                         /\ users[n].link = users[m].link => users[n].link = None
  /\ linkRace \/ \A s \in signedIn, n \in DOMAIN users : users[n].by = s[2] => users[n].link = s[1]

\* What has become of what a provisioning request has read.
LinkFree(r) == \A n \in DOMAIN users : users[n].link # reqs[r].sub
MailFree(r) == \A n \in DOMAIN users : users[n].mail # reqs[r].mail
UidFree(r) == \A n \in DOMAIN users : users[n].uid # reqs[r].uid
NumFree(r) == reqs[r].num \notin DOMAIN users
ProvisioningHolds(r) ==
  LET q == reqs[r] IN
  /\ q.beaten <= ATTEMPTS /\ q.tries < ATTEMPTS
  /\ q.op = "oidc" /\ q.pc = "findLink" => q.tries = 0
  /\ q.op = "oidc" /\ q.pc = "findMail" => q.tries = 0 /\ (q.beaten >= 1 \/ LinkFree(r))
  /\ q.op = "oidc" /\ q.pc \in {"uid", "number", "insert"} =>
       /\ q.beaten >= q.tries \/ q.mailTaken
       /\ q.beaten >= q.tries + 1 \/ q.mailTaken \/
            (/\ LinkFree(r)
             /\ q.pc \in {"number", "insert"} => UidFree(r)
             /\ q.pc = "insert" => NumFree(r))
  /\ q.op = "oidc" /\ q.pc \in {"uid", "number", "insert", "raced"} => q.mailTaken \/ MailFree(r)
  /\ q.pc = "raced" => q.beaten >= q.tries + 1 \/ q.mailTaken
  /\ q.pc = "gaveUp" => q.beaten >= ATTEMPTS \/ q.mailTaken
AllProvision == \A r \in DOMAIN reqs : ProvisioningHolds(r)

\* A token whose purpose has been served is used, or is about to be marked.
TokenHolds(t) ==
  tokens[t].excused \/ tokens[t].uses = 0 \/
    /\ tokens[t].uses = 1
    /\ \/ tokens[t].used /\ TokenHolders(t) = {}
       \/ \E q \in TokenHolders(t) : reqs[q].pc \in {"hook", "mark"}
TokensKept == \A t \in DOMAIN tokens : TokenHolds(t)

\* Who is in charge, as long as nothing is excused.
Somebody ==
  \/ NoAccount
  \/ InCharge
  \/ \E r \in DOMAIN reqs : At(r, "hook") /\ DOMAIN users = {reqs[r].num} /\ users[reqs[r].num].status = "active"
Waiting(r) ==
  reqs[r].pc \in {"number", "insert"} /\ reqs[r].op = "register" =>
    (NoAccount => reqs[r].status = "active") /\ (reqs[r].self /\ reqs[r].status = "active" => NoAccount)
ChargeHolds ==
  ~excused =>
    /\ Somebody /\ sysadmins = "admin"
    /\ \A r \in DOMAIN reqs : Waiting(r)
    /\ \A n, m \in DOMAIN users :
         users[n].self /\ users[n].status = "active" /\ users[m].self /\ users[m].status = "active" => n = m

AccInv == TableTyped /\ RestTyped /\ AllShaped /\ LinksHold /\ AllProvision /\ TokensKept /\ ChargeHolds

(* Numbers and names *)

LEMMA FreeNumber ==
  ASSUME TableTyped
  PROVE  NextUidNumber \in Nat /\ NextUidNumber \notin DOMAIN users
<1>1. CASE NoAccount
  BY <1>1 DEF NextUidNumber, NoAccount, FirstNumber
<1>2. CASE ~NoAccount
  <2> DEFINE S == DOMAIN users
  <2>1. S \in SUBSET Nat /\ IsFiniteSet(S) /\ S # {}
    BY <1>2 DEF TableTyped, NoAccount
  <2>2. NextUidNumber = Max(S) + 1
    BY <1>2 DEF NextUidNumber
  <2> HIDE DEF S
  <2>3. PICK n \in S : \A m \in S : m <= n
    BY <2>1, GreatestNatural
  <2>4. \A m \in S : n >= m
    BY <2>1, <2>3
  <2>6. Max(S) \in S /\ \A m \in S : Max(S) >= m
    BY <2>3, <2>4 DEF Max
  <2>5. Max(S) + 1 \in Nat /\ Max(S) + 1 \notin S
    <3>1. \A m \in S : m \in Nat
      BY <2>1
    <3> DEFINE x == Max(S)
    <3>2. x \in Nat /\ \A m \in S : m \in Nat /\ x >= m
      BY <2>6, <3>1
    <3> HIDE DEF x
    <3> QED BY <3>2 DEF x
  <2> QED BY <2>2, <2>5 DEF S
<1> QED BY <1>1, <1>2

\* Of one name more than there are accounts, one is free.
LEMMA FreeUid ==
  ASSUME TableTyped
  PROVE  UniqueUid \in Nat /\ \A n \in DOMAIN users : users[n].uid # UniqueUid
<1> DEFINE C == Cardinality(DOMAIN users)
           S == {u \in 0 .. C : \A n \in DOMAIN users : users[n].uid # u}
           holder == [u \in 0 .. C |-> CHOOSE n \in DOMAIN users : users[n].uid = u]
<1>1. C \in Nat /\ IsFiniteSet(0 .. C) /\ Cardinality(0 .. C) = C + 1 /\ IsFiniteSet(DOMAIN users)
  <2>1. IsFiniteSet(DOMAIN users)
    BY DEF TableTyped
  <2>2. C \in Nat
    BY <2>1, FS_CardinalityType
  <2> QED BY <2>1, <2>2, FS_Interval
<1>2. S # {}
  <2> SUFFICES ASSUME S = {} PROVE FALSE
    OBVIOUS
  <2>1. \A u \in 0 .. C : holder[u] \in DOMAIN users /\ users[holder[u]].uid = u
    <3> SUFFICES ASSUME NEW u \in 0 .. C PROVE holder[u] \in DOMAIN users /\ users[holder[u]].uid = u
      OBVIOUS
    <3>1. \E n \in DOMAIN users : users[n].uid = u
      OBVIOUS
    <3>2. holder[u] = CHOOSE n \in DOMAIN users : users[n].uid = u
      OBVIOUS
    <3> QED BY <3>1, <3>2
  <2>2. holder \in [0 .. C -> DOMAIN users]
    BY <2>1
  <2>3. Cardinality(DOMAIN users) < Cardinality(0 .. C)
    BY <1>1
  <2> HIDE DEF holder
  <2>4. PICK x \in 0 .. C, y \in 0 .. C : x # y /\ holder[x] = holder[y]
    BY <1>1, <2>2, <2>3, FS_PigeonHole
  <2>5. users[holder[x]].uid = x /\ users[holder[y]].uid = y
    BY ONLY <2>1
  <2> QED BY <2>4, <2>5
<1>3. S \subseteq Nat
  BY <1>1
<1>4. UniqueUid = Min(S)
  BY DEF UniqueUid
<1>5. Min(S) \in S
  <2> HIDE DEF S
  <2>1. \E x \in S : \A y \in S : x <= y
    BY <1>2, <1>3, LeastNatural
  <2> QED BY <2>1 DEF Min
<1> QED BY <1>3, <1>4, <1>5

(* Requests *)

\* A request that does not act: others' writes may count against it.
Same(p) ==
  /\ reqs'[p] \in Requests
  /\ reqs'[p].op = reqs[p].op /\ reqs'[p].pc = reqs[p].pc /\ reqs'[p].uid = reqs[p].uid
  /\ reqs'[p].mail = reqs[p].mail /\ reqs'[p].sub = reqs[p].sub /\ reqs'[p].num = reqs[p].num
  /\ reqs'[p].by = reqs[p].by /\ reqs'[p].status = reqs[p].status /\ reqs'[p].token = reqs[p].token
  /\ reqs'[p].grp = reqs[p].grp /\ reqs'[p].self = reqs[p].self /\ reqs'[p].tries = reqs[p].tries
Acts(r, q) ==
  /\ reqs' \in Seq(Requests) /\ q \in Requests /\ r \in Nat /\ r # 0 /\ r \in DOMAIN reqs'
  /\ DOMAIN reqs' = DOMAIN reqs \cup {r} /\ reqs'[r] = q
  /\ \A p \in DOMAIN reqs \ {r} : Same(p)

LEMMA RequestFields ==
  ASSUME NEW q \in Requests
  PROVE  /\ q.op \in {"none", "register", "oidc", "create", "edit", "reset"} /\ q.pc \in Pcs /\ q.uid \in Nat
         /\ q.mail \in Mails \cup {None} /\ q.sub \in Subjects \cup {None} /\ q.num \in Nat /\ q.by \in Nat
         /\ q.status \in Statuses /\ q.token \in Nat /\ q.grp \in {"keep", "sys", "plain"} /\ q.self \in BOOLEAN
         /\ q.tries \in Nat /\ q.beaten \in Nat /\ q.mailTaken \in BOOLEAN
BY DEF Requests

LEMMA ReqsTyped ==
  ASSUME RestTyped
  PROVE  /\ DOMAIN reqs = 1 .. Len(reqs) /\ Len(reqs) \in Nat
         /\ \A r \in DOMAIN reqs : reqs[r] \in Requests /\ r \in Nat /\ r # 0
         /\ DOMAIN tokens = 1 .. Len(tokens) /\ Len(tokens) \in Nat
         /\ \A t \in DOMAIN tokens : tokens[t] \in Tokens /\ t \in Nat /\ t # 0
BY LenProperties, ElementOfSeq DEF RestTyped

LEMMA OneActs ==
  ASSUME RestTyped, NEW r \in DOMAIN reqs, NEW q \in Requests, reqs' = [reqs EXCEPT ![r] = q]
  PROVE  Acts(r, q) /\ DOMAIN reqs' = DOMAIN reqs /\ \A p \in DOMAIN reqs \ {r} : reqs'[p] = reqs[p]
<1>1. reqs \in Seq(Requests) /\ r \in 1 .. Len(reqs) /\ DOMAIN reqs = 1 .. Len(reqs) /\ r \in Nat /\ r # 0
  BY ReqsTyped DEF RestTyped
<1>2. /\ reqs' \in Seq(Requests) /\ Len(reqs') = Len(reqs)
      /\ \A j \in 1 .. Len(reqs) : reqs'[j] = IF j = r THEN q ELSE reqs[j]
  BY ONLY <1>1, q \in Requests, reqs' = [reqs EXCEPT ![r] = q], ExceptSeq
<1>3. DOMAIN reqs' = DOMAIN reqs
  BY <1>1, <1>2, LenProperties
<1>4. \A p \in DOMAIN reqs \ {r} : reqs'[p] = reqs[p] /\ Same(p)
  BY <1>1, <1>2, ReqsTyped DEF Same
<1> QED BY <1>1, <1>2, <1>3, <1>4 DEF Acts

LEMMA NewActs ==
  ASSUME RestTyped, NEW q \in Requests, reqs' = Append(reqs, q)
  PROVE  /\ Acts(Len(reqs) + 1, q) /\ Len(reqs) + 1 \notin DOMAIN reqs
         /\ \A p \in DOMAIN reqs : reqs'[p] = reqs[p] /\ p # Len(reqs) + 1
<1>1. reqs \in Seq(Requests) /\ DOMAIN reqs = 1 .. Len(reqs) /\ Len(reqs) \in Nat
  BY ReqsTyped DEF RestTyped
<1>2. /\ reqs' \in Seq(Requests) /\ Len(reqs') = Len(reqs) + 1
      /\ \A i \in 1 .. Len(reqs) : reqs'[i] = reqs[i]
      /\ reqs'[Len(reqs) + 1] = q
  BY ONLY <1>1, q \in Requests, reqs' = Append(reqs, q), AppendProperties
<1>3. DOMAIN reqs' = 1 .. Len(reqs) + 1
  BY <1>2, LenProperties
<1>4. DOMAIN reqs' = DOMAIN reqs \cup {Len(reqs) + 1} /\ Len(reqs) + 1 \notin DOMAIN reqs
  BY <1>1, <1>3
<1>5. \A p \in DOMAIN reqs : reqs'[p] = reqs[p] /\ Same(p) /\ p # Len(reqs) + 1
  BY <1>1, <1>2, ReqsTyped DEF Same
<1> QED BY <1>1, <1>2, <1>4, <1>5 DEF Acts

\* What a write does to a request that is provisioning.
Beaten(p, mails) ==
  IF Provisioning(p)
  THEN /\ reqs'[p].beaten = IF reqs[p].beaten < ATTEMPTS THEN reqs[p].beaten + 1 ELSE reqs[p].beaten
       /\ reqs'[p].mailTaken <=> reqs[p].mailTaken \/ (Creating(p) /\ reqs[p].mail \in mails)
  ELSE reqs'[p] = reqs[p]

LEMMA BeatOne ==
  ASSUME NEW p \in DOMAIN reqs, reqs[p] \in Requests, NEW mails,
         reqs'[p] = IF Provisioning(p)
                    THEN [reqs[p] EXCEPT
                            !.beaten = IF reqs[p].beaten < ATTEMPTS THEN reqs[p].beaten + 1 ELSE reqs[p].beaten,
                            !.mailTaken = reqs[p].mailTaken \/ (Creating(p) /\ reqs[p].mail \in mails)]
                    ELSE reqs[p]
  PROVE  Same(p) /\ Beaten(p, mails)
<1> DEFINE z == reqs[p]
           k == IF z.beaten < ATTEMPTS THEN z.beaten + 1 ELSE z.beaten
           c == z.mailTaken \/ (Creating(p) /\ z.mail \in mails)
           y == [z EXCEPT !.beaten = k, !.mailTaken = c]
<1>1. z \in Requests /\ k \in Nat /\ c \in BOOLEAN
  BY RequestFields
<1>2. CASE Provisioning(p)
  <2>1. reqs'[p] = y
    BY <1>2
  <2>2. y = [z EXCEPT !.beaten = k, !.mailTaken = c]
    OBVIOUS
  <2> HIDE DEF z, k, c, y
  <2>3. /\ y \in Requests
        /\ y.op = z.op /\ y.pc = z.pc /\ y.uid = z.uid /\ y.mail = z.mail /\ y.sub = z.sub /\ y.num = z.num
        /\ y.by = z.by /\ y.status = z.status /\ y.token = z.token /\ y.grp = z.grp /\ y.self = z.self
        /\ y.tries = z.tries /\ y.beaten = k /\ y.mailTaken = c
    BY ONLY <1>1, <2>2 DEF Requests
  <2>4. Same(p)
    BY <2>1, <2>3 DEF Same, z
  <2>5. Beaten(p, mails)
    BY <1>2, <2>1, <2>3 DEF Beaten, k, c, z
  <2> QED BY <2>4, <2>5
<1>3. CASE ~Provisioning(p)
  BY <1>3 DEF Same, Beaten
<1> QED BY <1>2, <1>3

LEMMA BeatActs ==
  ASSUME RestTyped, NEW r \in DOMAIN reqs, NEW q \in Requests, NEW mails,
         reqs' = Beat([reqs EXCEPT ![r] = q], r, mails)
  PROVE  Acts(r, q) /\ DOMAIN reqs' = DOMAIN reqs /\ \A p \in DOMAIN reqs \ {r} : Beaten(p, mails)
<1> DEFINE from == [reqs EXCEPT ![r] = q]
<1>1. reqs \in Seq(Requests) /\ DOMAIN reqs = 1 .. Len(reqs) /\ Len(reqs) \in Nat /\ r \in Nat /\ r # 0
      /\ \A p \in DOMAIN reqs : reqs[p] \in Requests
  BY ReqsTyped DEF RestTyped
<1>2. DOMAIN from = DOMAIN reqs /\ from[r] = q /\ \A p \in DOMAIN reqs \ {r} : from[p] = reqs[p]
  BY <1>1
<1>3. reqs' = Beat(from, r, mails)
  OBVIOUS
<1> HIDE DEF from
<1>4. \A p \in DOMAIN reqs \ {r} : Same(p) /\ Beaten(p, mails)
  <2> SUFFICES ASSUME NEW p \in DOMAIN reqs \ {r} PROVE Same(p) /\ Beaten(p, mails)
    OBVIOUS
  <2>1. reqs'[p] = IF Provisioning(p)
                   THEN [reqs[p] EXCEPT
                           !.beaten = IF reqs[p].beaten < ATTEMPTS THEN reqs[p].beaten + 1 ELSE reqs[p].beaten,
                           !.mailTaken = reqs[p].mailTaken \/ (Creating(p) /\ reqs[p].mail \in mails)]
                   ELSE reqs[p]
    BY <1>2, <1>3 DEF Beat
  <2> QED BY <1>1, <2>1, BeatOne
<1>5. DOMAIN reqs' = DOMAIN reqs /\ reqs'[r] = q
  BY <1>2, <1>3 DEF Beat
<1>6. \A p \in DOMAIN reqs : reqs'[p] \in Requests
  BY <1>4, <1>5 DEF Same
<1>7. reqs' \in [1 .. Len(reqs) -> Requests]
  <2>1. reqs' = [p \in DOMAIN from |-> reqs'[p]]
    BY <1>3 DEF Beat
  <2> QED BY <1>1, <1>2, <1>6, <2>1
<1>8. reqs' \in Seq(Requests)
  BY <1>1, <1>7, SeqDef
<1> QED BY <1>1, <1>4, <1>5, <1>8 DEF Acts

\* An administrator's edit: a request of its own, and a write to the table.
LEMMA EditActs ==
  ASSUME RestTyped, NEW q \in Requests, NEW mails,
         reqs' = [p \in DOMAIN Append(reqs, q) |-> IF p \in DOMAIN reqs THEN Beat(reqs, 0, mails)[p] ELSE Append(reqs, q)[p]]
  PROVE  /\ Acts(Len(reqs) + 1, q) /\ Len(reqs) + 1 \notin DOMAIN reqs
         /\ \A p \in DOMAIN reqs : Beaten(p, mails) /\ p # Len(reqs) + 1
<1> DEFINE from == Append(reqs, q)
           n == Len(reqs) + 1
<1>1. reqs \in Seq(Requests) /\ DOMAIN reqs = 1 .. Len(reqs) /\ Len(reqs) \in Nat
      /\ \A p \in DOMAIN reqs : reqs[p] \in Requests /\ p # 0
  BY ReqsTyped DEF RestTyped
<1>2. from \in Seq(Requests) /\ Len(from) = n /\ from[n] = q
  BY ONLY <1>1, q \in Requests, AppendProperties
<1>3. DOMAIN from = 1 .. n
  BY <1>2, LenProperties
<1>4. DOMAIN from = DOMAIN reqs \cup {n} /\ n \notin DOMAIN reqs /\ n \in Nat /\ n # 0
  BY <1>1, <1>3
<1>5. reqs' = [p \in DOMAIN from |-> IF p \in DOMAIN reqs THEN Beat(reqs, 0, mails)[p] ELSE from[p]]
  OBVIOUS
<1> HIDE DEF from, n
<1>6. \A p \in DOMAIN reqs : Same(p) /\ Beaten(p, mails) /\ p # n
  <2> SUFFICES ASSUME NEW p \in DOMAIN reqs PROVE Same(p) /\ Beaten(p, mails) /\ p # n
    OBVIOUS
  <2>1. reqs'[p] = IF Provisioning(p)
                   THEN [reqs[p] EXCEPT
                           !.beaten = IF reqs[p].beaten < ATTEMPTS THEN reqs[p].beaten + 1 ELSE reqs[p].beaten,
                           !.mailTaken = reqs[p].mailTaken \/ (Creating(p) /\ reqs[p].mail \in mails)]
                   ELSE reqs[p]
    BY <1>1, <1>4, <1>5 DEF Beat
  <2> QED BY <1>1, <1>4, <2>1, BeatOne
<1>7. DOMAIN reqs' = DOMAIN reqs \cup {n} /\ reqs'[n] = q
  BY <1>2, <1>4, <1>5
<1>8. reqs' \in Seq(Requests)
  <2>1. \A p \in DOMAIN from : reqs'[p] \in Requests
    BY <1>4, <1>6, <1>7 DEF Same
  <2>2. reqs' = [p \in DOMAIN from |-> reqs'[p]]
    BY <1>5
  <2>3. reqs' \in [1 .. n -> Requests]
    BY <1>3, <2>1, <2>2
  <2> QED BY <1>4, <2>3, SeqDef
<1>9. Acts(n, q)
  BY <1>4, <1>6, <1>7, <1>8 DEF Acts
<1> QED BY <1>4, <1>6, <1>9 DEF n

(* What a step leaves as it was *)

LEMMA OthersAct ==
  ASSUME NEW r, NEW q, Acts(r, q), NEW p \in DOMAIN reqs', p # r
  PROVE  p \in DOMAIN reqs /\ Same(p)
BY DEF Acts

LEMMA ActedFields ==
  ASSUME NEW r, NEW q, Acts(r, q)
  PROVE  r \in DOMAIN reqs' /\ r \in Nat /\ r # 0 /\ reqs'[r] = q /\ q \in Requests /\ DOMAIN reqs' = DOMAIN reqs \cup {r}
BY DEF Acts

LEMMA StillShaped ==
  ASSUME RestTyped, AllShaped, NEW r, NEW q, Acts(r, q), Len(tokens') \in Nat, Len(tokens') >= Len(tokens),
         Shaped(q, Len(tokens'))
  PROVE  AllShaped'
<1> SUFFICES ASSUME NEW p \in DOMAIN reqs' PROVE Shaped(reqs'[p], Len(tokens'))
  BY DEF AllShaped
<1>1. CASE p = r
  BY <1>1, ActedFields
<1>2. CASE p # r
  <2>1. p \in DOMAIN reqs /\ Same(p)
    BY <1>2, OthersAct
  <2>2. Shaped(reqs[p], Len(tokens)) /\ reqs[p] \in Requests /\ Len(tokens) \in Nat
    BY <2>1, ReqsTyped DEF AllShaped
  <2>3. reqs[p].token \in 0 .. Len(tokens')
    BY <2>2 DEF Shaped
  <2> QED BY <2>1, <2>2, <2>3 DEF Shaped, Same
<1> QED BY <1>1, <1>2

\* Where a request may still make an account.
Makers == {"validate", "count", "number", "insert", "uid", "raced", "findLink", "findMail"}

LEMMA MakersShrink ==
  ASSUME NEW r, NEW q, Acts(r, q), r \in DOMAIN reqs /\ q.pc \in Makers => reqs[r].pc \in Makers,
         NEW p, MayMake(p)'
  PROVE  MayMake(p)
<1>1. CASE p = r
  BY <1>1, ActedFields DEF MayMake, Makers
<1>2. CASE p # r /\ p \in DOMAIN reqs
  <2>1. p \in DOMAIN reqs' /\ p # r
    BY <1>2, ActedFields
  <2>2. Same(p)
    BY <2>1, OthersAct
  <2> QED BY <1>2, <2>1, <2>2 DEF MayMake, Same
<1>3. CASE p # r /\ p \notin DOMAIN reqs
  BY <1>3, ActedFields DEF MayMake
<1> QED BY <1>1, <1>2, <1>3

\* What was signed in as it should have been.
InAs(s) == ~MayMake(s[2]) /\ (linkRace' \/ \A n \in DOMAIN users : users[n].by = s[2] => users[n].link = s[1])

LEMMA LinksIf ==
  ASSUME LinksHold, NEW r, NEW q, Acts(r, q), r \in DOMAIN reqs /\ q.pc \in Makers => reqs[r].pc \in Makers,
         \A n \in DOMAIN users' : n \in DOMAIN users /\ users'[n].by = users[n].by /\ users'[n].link = users[n].link,
         linkRace => linkRace',
         \A s \in signedIn' : s \in signedIn \/ InAs(s),
         q.pc = "link" => ~MayMake(q.by)
  PROVE  LinksHold'
<1>1. \A p : MayMake(p)' => MayMake(p)
  <2> SUFFICES ASSUME NEW p, MayMake(p)' PROVE MayMake(p)
    OBVIOUS
  <2> QED BY MakersShrink
<1>7. /\ \A n : MayMake(users[n].by)' => MayMake(users'[n].by)
      /\ \A p : MayMake(reqs[p].by)' => MayMake(reqs'[p].by)
  <2>1. \A x : (x # 0 /\ (x \in DOMAIN reqs' => reqs'[x].pc \in Makers)) => MayMake(x)
    BY <1>1 DEF MayMake, Makers
  <2> QED BY <2>1 DEF MayMake, Makers
<1>2. (\A n \in DOMAIN users : ~MayMake(users[n].by))'
  <2> SUFFICES ASSUME NEW n \in DOMAIN users' PROVE ~MayMake(users[n].by)'
    OBVIOUS
  <2>1. users'[n].by = users[n].by /\ ~MayMake(users[n].by)
    BY DEF LinksHold
  <2>2. ~MayMake(users'[n].by)
    BY <2>1
  <2> QED BY <1>7, <2>2
<1>3. \A s \in signedIn' : ~MayMake(s[2])'
  <2> SUFFICES ASSUME NEW s \in signedIn' PROVE ~MayMake(s[2])'
    OBVIOUS
  <2>1. ~MayMake(s[2])
    BY DEF LinksHold, InAs
  <2> QED BY <1>1, <2>1 DEF MayMake
<1>4. (\A p \in DOMAIN reqs : At(p, "link") => ~MayMake(reqs[p].by))'
  <2> SUFFICES ASSUME NEW p \in DOMAIN reqs', At(p, "link")' PROVE ~MayMake(reqs[p].by)'
    OBVIOUS
  <2>1. ~MayMake(reqs'[p].by)
    <3>1. CASE p = r
      BY <3>1, ActedFields DEF At
    <3>2. CASE p # r
      BY <3>2, OthersAct DEF At, Same, LinksHold
    <3> QED BY <3>1, <3>2
  <2> QED BY <1>7, <2>1
<1>5. \A n, m \in DOMAIN users' : n # m => /\ users'[n].by # users'[m].by
                                           /\ users'[n].link = users'[m].link => users'[n].link = None
  BY DEF LinksHold
<1>6. linkRace' \/ \A s \in signedIn', n \in DOMAIN users' : users'[n].by = s[2] => users'[n].link = s[1]
  BY DEF LinksHold, InAs
<1> QED BY <1>2, <1>3, <1>4, <1>5, <1>6 DEF LinksHold

\* Nothing that was free is taken.
LEMMA ProvisionQuiet ==
  ASSUME AllProvision, NEW r, NEW q, Acts(r, q), \A p \in DOMAIN reqs \ {r} : reqs'[p] = reqs[p],
         \A n \in DOMAIN users' : /\ n \in DOMAIN users /\ users'[n].link = users[n].link
                                  /\ users'[n].mail = users[n].mail /\ users'[n].uid = users[n].uid,
         ProvisioningHolds(r)'
  PROVE  AllProvision'
<1> SUFFICES ASSUME NEW p \in DOMAIN reqs', p # r PROVE ProvisioningHolds(p)'
  BY DEF AllProvision
<1>1. p \in DOMAIN reqs /\ reqs'[p] = reqs[p] /\ ProvisioningHolds(p)
  BY OthersAct DEF AllProvision
<1>2. /\ LinkFree(p) => LinkFree(p)'
      /\ MailFree(p) => MailFree(p)'
      /\ UidFree(p) => UidFree(p)'
      /\ NumFree(p) => NumFree(p)'
  BY <1>1 DEF LinkFree, MailFree, UidFree, NumFree
<1> QED BY <1>1, <1>2 DEF ProvisioningHolds

\* A write to the table is counted.
LEMMA ProvisionBeaten ==
  ASSUME RestTyped, AllProvision, AllShaped, NEW r, NEW q, Acts(r, q), NEW mails,
         \A p \in DOMAIN reqs \ {r} : Beaten(p, mails),
         \A n \in DOMAIN users' : users'[n].mail \in mails \/ (n \in DOMAIN users /\ users'[n].mail = users[n].mail),
         ProvisioningHolds(r)'
  PROVE  AllProvision'
<1> SUFFICES ASSUME NEW p \in DOMAIN reqs', p # r PROVE ProvisioningHolds(p)'
  BY DEF AllProvision
<1> DEFINE z == reqs[p]
           y == reqs'[p]
<1>1. /\ p \in DOMAIN reqs /\ Same(p) /\ Beaten(p, mails) /\ z \in Requests /\ y \in Requests
      /\ ProvisioningHolds(p) /\ Shaped(z, Len(tokens))
  BY OthersAct, ReqsTyped DEF AllProvision, AllShaped, Same
<1>2. ATTEMPTS \in Nat /\ ATTEMPTS >= 1
  BY AttemptsPositive
<1>3. z.beaten \in Nat /\ z.tries \in Nat /\ y.beaten \in Nat /\ z.mailTaken \in BOOLEAN /\ y.mailTaken \in BOOLEAN /\ y.tries = z.tries
      /\ y.pc = z.pc /\ y.op = z.op
  BY <1>1, RequestFields DEF Same
<1>4. CASE ~Provisioning(p)
  <2>1. reqs'[p] = reqs[p]
    BY <1>1, <1>4 DEF Beaten
  <2>2. z.op = "oidc" => z.pc \notin {"findMail", "uid", "number", "insert", "raced"}
    BY <1>4 DEF Provisioning, Creating, CreatingPcs
  <2>3. z.pc # "raced"
    <3>1. z.pc \in PcsOf(z.op)
      BY <1>1 DEF Shaped
    <3>2. \A op : "raced" \in PcsOf(op) => op = "oidc" \/ op \notin {"none", "register", "oidc", "create", "edit", "reset"}
      BY DEF PcsOf
    <3>3. z.op \in {"none", "register", "oidc", "create", "edit", "reset"}
      BY <1>1, RequestFields
    <3> QED BY <2>2, <3>1, <3>2, <3>3
  <2> QED BY <1>1, <2>1, <2>2, <2>3 DEF ProvisioningHolds
<1>5. CASE Provisioning(p)
  <2>1. /\ y.beaten = IF z.beaten < ATTEMPTS THEN z.beaten + 1 ELSE z.beaten
        /\ y.mailTaken <=> z.mailTaken \/ (Creating(p) /\ z.mail \in mails)
        /\ z.op = "oidc" /\ (Creating(p) \/ z.pc = "findMail")
    BY <1>1, <1>5 DEF Beaten, Provisioning
  <2>2. z.beaten <= ATTEMPTS /\ z.tries < ATTEMPTS
    BY <1>1 DEF ProvisioningHolds
  <2>3. y.beaten <= ATTEMPTS /\ y.beaten >= 1 /\ (z.beaten >= z.tries => y.beaten >= z.tries + 1)
        /\ (z.beaten >= z.tries + 1 => y.beaten >= z.tries + 1 /\ y.beaten >= z.tries)
        /\ (y.beaten >= z.tries + 1 => y.beaten >= z.tries)
    BY <1>2, <1>3, <2>1, <2>2
  <2>4. z.pc \in {"uid", "number", "insert", "raced"} /\ (z.mailTaken \/ MailFree(p)) => y.mailTaken \/ MailFree(p)'
    <3> SUFFICES ASSUME z.pc \in {"uid", "number", "insert", "raced"}, MailFree(p), ~y.mailTaken PROVE MailFree(p)'
      BY <2>1
    <3>1. Creating(p) /\ z.mail \notin mails
      BY <2>1 DEF Creating, CreatingPcs
    <3>2. y.mail = z.mail
      BY <1>1 DEF Same
    <3> QED BY <3>1, <3>2 DEF MailFree
  <2>5. z.pc # "gaveUp" /\ z.pc # "findLink"
    BY <2>1 DEF Creating, CreatingPcs
  <2>6. z.pc \in {"uid", "number", "insert"} => z.beaten >= z.tries \/ z.mailTaken
    BY <1>1, <2>1 DEF ProvisioningHolds
  <2>7. z.pc = "findMail" => z.tries = 0
    BY <1>1, <2>1 DEF ProvisioningHolds
  <2>8. z.pc \in {"uid", "number", "insert", "raced"} => z.mailTaken \/ MailFree(p)
    BY <1>1, <2>1 DEF ProvisioningHolds
  <2>9. z.pc = "raced" => z.beaten >= z.tries + 1 \/ z.mailTaken
    BY <1>1, <2>1 DEF ProvisioningHolds
  <2>10. z.mailTaken => y.mailTaken
    BY <2>1
  <2> HIDE DEF z, y
  <2>11. /\ y.beaten <= ATTEMPTS /\ y.tries < ATTEMPTS
         /\ y.pc = "findMail" => y.tries = 0 /\ y.beaten >= 1
         /\ y.pc \in {"uid", "number", "insert"} => (y.beaten >= y.tries \/ y.mailTaken) /\ (y.beaten >= y.tries + 1 \/ y.mailTaken)
         /\ y.pc \in {"uid", "number", "insert", "raced"} => y.mailTaken \/ MailFree(p)'
         /\ y.pc = "raced" => y.beaten >= y.tries + 1 \/ y.mailTaken
         /\ y.pc # "gaveUp" /\ y.pc # "findLink"
    BY <1>3, <2>2, <2>3, <2>4, <2>5, <2>6, <2>7, <2>8, <2>9, <2>10
  <2> QED BY <2>11 DEF ProvisioningHolds, y
<1> QED BY <1>4, <1>5

(* Tokens *)

\* Request r is done with no purpose it has served, and takes up no used token.
FairTo(r, q, t) ==
  /\ r \in DOMAIN reqs /\ reqs[r].token = t /\ reqs[r].pc \in {"hook", "mark"} => q.token = t /\ q.pc \in {"hook", "mark"}
  /\ q.token = t /\ q.pc # "validate" /\ tokens[t].used => r \in TokenHolders(t)

LEMMA HoldersOf ==
  ASSUME NEW r, NEW q, Acts(r, q), NEW t
  PROVE  /\ \A p : p # r => (p \in TokenHolders(t)' <=> p \in TokenHolders(t))
         /\ r \in TokenHolders(t)' <=> q.token = t /\ q.pc # "validate"
<1>1. \A p \in DOMAIN reqs' : p # r => p \in DOMAIN reqs /\ Same(p)
  BY OthersAct
<1>2. \A p \in DOMAIN reqs : p \in DOMAIN reqs'
  BY ActedFields
<1>3. r \in DOMAIN reqs' /\ reqs'[r] = q
  BY ActedFields
<1> QED BY <1>1, <1>2, <1>3 DEF TokenHolders, At, Same

LEMMA TokenStays ==
  ASSUME RestTyped, NEW r, NEW q, Acts(r, q), NEW t \in DOMAIN tokens, TokenHolds(t), FairTo(r, q, t),
         tokens'[t].uses = tokens[t].uses, tokens[t].used => tokens'[t].used,
         tokens[t].excused => tokens'[t].excused
  PROVE  TokenHolds(t)'
<1> SUFFICES ASSUME ~tokens'[t].excused, tokens'[t].uses # 0 PROVE TokenHolds(t)'
  BY DEF TokenHolds
<1>1. tokens'[t].uses = 1
  BY DEF TokenHolds
<1>2. CASE tokens[t].used /\ TokenHolders(t) = {}
  <2>1. \A p : p \notin TokenHolders(t)'
    BY <1>2, HoldersOf DEF FairTo
  <2>2. TokenHolders(t)' = {}
    BY <2>1
  <2> QED BY <1>1, <1>2, <2>2 DEF TokenHolds
<1>3. CASE \E p \in TokenHolders(t) : reqs[p].pc \in {"hook", "mark"}
  <2>1. PICK p \in TokenHolders(t) : reqs[p].pc \in {"hook", "mark"}
    BY <1>3
  <2>2. p \in DOMAIN reqs /\ reqs[p].token = t
    BY DEF TokenHolders
  <2>3. p \in TokenHolders(t)' /\ reqs'[p].pc \in {"hook", "mark"}
    <3>1. CASE p = r
      <4>1. q.token = t /\ q.pc \in {"hook", "mark"}
        BY <2>1, <2>2, <3>1 DEF FairTo
      <4> QED BY <3>1, <4>1, HoldersOf, ActedFields
    <3>2. CASE p # r
      <4>1. p \in TokenHolders(t)'
        BY <3>2, HoldersOf
      <4>2. p \in DOMAIN reqs'
        BY <2>2, ActedFields
      <4>3. Same(p)
        BY <3>2, <4>2, OthersAct
      <4> QED BY <2>1, <4>1, <4>3 DEF Same
    <3> QED BY <3>1, <3>2
  <2> QED BY <1>1, <2>3 DEF TokenHolds
<1> QED BY <1>2, <1>3 DEF TokenHolds

\* Nothing happens to the tokens.
LEMMA TokensStay ==
  ASSUME RestTyped, TokensKept, NEW r, NEW q, Acts(r, q), tokens' = tokens,
         \A t \in DOMAIN tokens : FairTo(r, q, t)
  PROVE  TokensKept'
<1> SUFFICES ASSUME NEW t \in DOMAIN tokens PROVE TokenHolds(t)'
  BY DEF TokensKept
<1> QED BY TokenStays DEF TokensKept

\* Something happens to the token of r only.
LEMMA TokensBut ==
  ASSUME RestTyped, TokensKept, NEW r, NEW q, Acts(r, q), NEW u \in DOMAIN tokens, DOMAIN tokens' = DOMAIN tokens,
         \A t \in DOMAIN tokens \ {u} : tokens'[t] = tokens[t] /\ FairTo(r, q, t),
         TokenHolds(u)'
  PROVE  TokensKept'
<1> SUFFICES ASSUME NEW t \in DOMAIN tokens, t # u PROVE TokenHolds(t)'
  BY DEF TokensKept
<1> QED BY TokenStays DEF TokensKept

LEMMA TokenFields ==
  ASSUME NEW t \in Tokens
  PROVE  /\ t.kind \in {"invite", "reset"} /\ t.for \in Mails \cup Nat /\ t.used \in BOOLEAN /\ t.uses \in Nat
         /\ t.excused \in BOOLEAN
BY DEF Tokens

\* One token is changed.
LEMMA OneToken ==
  ASSUME RestTyped, NEW u \in DOMAIN tokens, NEW k \in Tokens, tokens' = [tokens EXCEPT ![u] = k]
  PROVE  /\ tokens' \in Seq(Tokens) /\ Len(tokens') = Len(tokens) /\ DOMAIN tokens' = DOMAIN tokens /\ tokens'[u] = k
         /\ \A t \in DOMAIN tokens \ {u} : tokens'[t] = tokens[t]
<1>1. tokens \in Seq(Tokens) /\ DOMAIN tokens = 1 .. Len(tokens) /\ u \in 1 .. Len(tokens)
  BY ReqsTyped DEF RestTyped
<1>2. /\ tokens' \in Seq(Tokens) /\ Len(tokens') = Len(tokens)
      /\ \A j \in 1 .. Len(tokens) : tokens'[j] = IF j = u THEN k ELSE tokens[j]
  BY ONLY <1>1, k \in Tokens, tokens' = [tokens EXCEPT ![u] = k], ExceptSeq
<1>3. DOMAIN tokens' = 1 .. Len(tokens)
  BY <1>2, LenProperties
<1> QED BY <1>1, <1>2, <1>3

\* The token of r has served its purpose.
LEMMA HonouredKept ==
  ASSUME RestTyped, TokensKept, NEW r, NEW q, Acts(r, q), r \in DOMAIN reqs, q.token = reqs[r].token,
         reqs[r].token # 0 => reqs[r].token \in DOMAIN tokens,
         reqs[r].pc \notin {"validate", "hook", "mark"}, q.pc \in {"hook", "mark"}, tokens' = Honoured(r)
  PROVE  TokensKept' /\ tokens' \in Seq(Tokens) /\ Len(tokens') = Len(tokens)
<1>0. PICK u : u = reqs[r].token
  OBVIOUS
<1>1. \A t : t # u => FairTo(r, q, t)
  BY <1>0 DEF FairTo
<1>2. CASE u = 0
  <2>1. tokens' = tokens
    BY <1>0, <1>2 DEF Honoured
  <2>2. \A t \in DOMAIN tokens : t # 0
    BY ReqsTyped
  <2>3. TokensKept'
    BY <1>1, <1>2, <2>1, <2>2, TokensStay
  <2> QED BY <2>1, <2>3 DEF RestTyped
<1>3. CASE u # 0
  <2> DEFINE old == tokens[u]
             n == old.uses + 1
             e == old.excused \/ TokenHolders(u) # {r}
             new == [old EXCEPT !.uses = n, !.excused = e]
  <2>1. u \in DOMAIN tokens /\ old \in Tokens /\ old.uses \in Nat /\ old.excused \in BOOLEAN /\ n \in Nat /\ e \in BOOLEAN
    BY <1>0, <1>3, ReqsTyped, TokenFields
  <2>2. new \in Tokens /\ new.uses = n /\ new.excused = e /\ new.used = old.used
    <3> HIDE DEF n, e, old
    <3> QED BY <2>1 DEF Tokens
  <2>3. tokens' = [tokens EXCEPT ![u] = new]
    BY <1>0, <1>3, <2>1 DEF Honoured
  <2> HIDE DEF new
  <2>4. /\ tokens' \in Seq(Tokens) /\ Len(tokens') = Len(tokens) /\ DOMAIN tokens' = DOMAIN tokens /\ tokens'[u] = new
        /\ \A t \in DOMAIN tokens \ {u} : tokens'[t] = tokens[t]
    BY <2>1, <2>2, <2>3, OneToken
  <2>5. TokenHolds(u)'
    <3> SUFFICES ASSUME ~e PROVE TokenHolds(u)'
      BY <2>2, <2>4 DEF TokenHolds
    <3>1. TokenHolders(u) = {r} /\ ~old.excused
      OBVIOUS
    <3>2. old.uses = 0
      <4>1. ~(old.uses # 0 /\ TokenHolders(u) = {})
        BY <3>1
      <4>2. \A p \in TokenHolders(u) : reqs[p].pc \notin {"hook", "mark"}
        BY <3>1
      <4>3. TokenHolds(u)
        BY <2>1 DEF TokensKept
      <4> QED BY <3>1, <4>2, <4>3 DEF TokenHolds
    <3>3. tokens'[u].uses = 1
      BY <2>2, <2>4, <3>2
    <3>4. r \in TokenHolders(u)' /\ reqs'[r].pc \in {"hook", "mark"}
      BY <1>0, HoldersOf, ActedFields
    <3> QED BY <3>3, <3>4 DEF TokenHolds
  <2>6. TokensKept'
    BY <1>1, <2>1, <2>4, <2>5, TokensBut
  <2> QED BY <2>4, <2>6
<1> QED BY <1>2, <1>3

\* The token of r, which ends, is excused.
LEMMA UnmarkedKept ==
  ASSUME RestTyped, TokensKept, NEW r, NEW q, Acts(r, q), r \in DOMAIN reqs, q.token = 0,
         reqs[r].token # 0 => reqs[r].token \in DOMAIN tokens, tokens' = Unmarked(r)
  PROVE  TokensKept' /\ tokens' \in Seq(Tokens) /\ Len(tokens') = Len(tokens)
<1>0. PICK u : u = reqs[r].token
  OBVIOUS
<1>1. \A t \in DOMAIN tokens : t # u => FairTo(r, q, t)
  BY <1>0, ReqsTyped DEF FairTo
<1>2. CASE u = 0
  <2>1. tokens' = tokens
    BY <1>0, <1>2 DEF Unmarked
  <2>2. \A t \in DOMAIN tokens : t # 0
    BY ReqsTyped
  <2>3. TokensKept'
    BY <1>1, <1>2, <2>1, <2>2, TokensStay
  <2> QED BY <2>1, <2>3 DEF RestTyped
<1>3. CASE u # 0
  <2> DEFINE new == [tokens[u] EXCEPT !.excused = TRUE]
  <2>1. u \in DOMAIN tokens /\ new \in Tokens /\ new.excused = TRUE
    <3>1. u \in DOMAIN tokens /\ tokens[u] \in Tokens
      BY <1>0, <1>3, ReqsTyped
    <3> QED BY <3>1 DEF Tokens
  <2>2. tokens' = [tokens EXCEPT ![u] = new]
    BY <1>0, <1>3, <2>1 DEF Unmarked
  <2> HIDE DEF new
  <2>3. /\ tokens' \in Seq(Tokens) /\ Len(tokens') = Len(tokens) /\ DOMAIN tokens' = DOMAIN tokens /\ tokens'[u] = new
        /\ \A t \in DOMAIN tokens \ {u} : tokens'[t] = tokens[t]
    BY <2>1, <2>2, OneToken
  <2>4. TokenHolds(u)'
    BY <2>1, <2>3 DEF TokenHolds
  <2>5. TokensKept'
    BY <1>1, <2>1, <2>3, <2>4, TokensBut
  <2> QED BY <2>3, <2>5
<1> QED BY <1>2, <1>3

(* Who is in charge *)

LEMMA ChargeQuiet ==
  ASSUME TableTyped, ChargeHolds, NEW r, NEW q, Acts(r, q), excused => excused',
         DOMAIN users' = DOMAIN users, sysadmins' = sysadmins, admins' = admins,
         \A n \in DOMAIN users : users'[n].status = users[n].status /\ users'[n].self = users[n].self,
         r \in DOMAIN reqs /\ reqs[r].pc = "hook" => excused',
         excused' \/ Waiting(r)'
  PROVE  ChargeHolds'
<1> SUFFICES ASSUME ~excused' PROVE ChargeHolds'
  BY DEF ChargeHolds
<1>1. Somebody /\ sysadmins = "admin"
  BY DEF ChargeHolds
<1>2. Somebody'
  <2>1. CASE NoAccount
    BY <2>1 DEF NoAccount, Somebody
  <2>2. CASE InCharge
    <3>1. PICK n \in DOMAIN users : users[n].status = "active" /\ n \in admins /\ sysadmins = "admin"
      BY <2>2 DEF InCharge, IsAdmin
    <3>2. InCharge'
      BY <3>1 DEF InCharge, IsAdmin
    <3> QED BY <3>2 DEF Somebody
  <2>3. ASSUME NEW p \in DOMAIN reqs, At(p, "hook"), DOMAIN users = {reqs[p].num}, users[reqs[p].num].status = "active"
        PROVE Somebody'
    <3>1. p # r
      BY <2>3 DEF At
    <3>2. p \in DOMAIN reqs'
      BY ActedFields
    <3>3. Same(p)
      BY <3>1, <3>2, OthersAct
    <3> QED BY <2>3, <3>2, <3>3 DEF Somebody, At, Same
  <2> QED BY <1>1, <2>1, <2>2, <2>3 DEF Somebody
<1>3. \A p \in DOMAIN reqs' : Waiting(p)'
  <2> SUFFICES ASSUME NEW p \in DOMAIN reqs', p # r PROVE Waiting(p)'
    OBVIOUS
  <2>1. p \in DOMAIN reqs /\ Same(p)
    BY OthersAct
  <2> QED BY <2>1 DEF Waiting, Same, NoAccount, ChargeHolds
<1> QED BY <1>1, <1>2, <1>3 DEF ChargeHolds

\* An administrator's write.
LEMMA ChargeMeddled ==
  ASSUME ChargeHolds, NEW r, NEW q, Acts(r, q), Meddles,
         \A n \in DOMAIN users' : users'[n].self => n \in DOMAIN users /\ users'[n] = users[n],
         q.pc \notin {"number", "insert"}
  PROVE  ChargeHolds'
<1> SUFFICES ASSUME ~excused' PROVE ChargeHolds'
  BY DEF ChargeHolds
<1>1. ~excused /\ (\A p \in DOMAIN reqs : ~Creating(p)) /\ (NoAccount' \/ InCharge') /\ sysadmins' = "admin"
  BY DEF Meddles
<1>2. Somebody'
  BY <1>1 DEF Somebody
<1>3. \A p \in DOMAIN reqs' : Waiting(p)'
  <2> SUFFICES ASSUME NEW p \in DOMAIN reqs', reqs'[p].pc \in {"number", "insert"} PROVE FALSE
    BY DEF Waiting
  <2>1. p # r
    BY ActedFields
  <2>2. p \in DOMAIN reqs /\ Same(p)
    BY <2>1, OthersAct
  <2> QED BY <1>1, <2>2 DEF Same, Creating, CreatingPcs
<1>4. \A n, m \in DOMAIN users' :
        users'[n].self /\ users'[n].status = "active" /\ users'[m].self /\ users'[m].status = "active" => n = m
  BY <1>1 DEF ChargeHolds
<1> QED BY <1>1, <1>2, <1>3, <1>4 DEF ChargeHolds

(* Steps without a write to the table *)

LEMMA NoRequestIsOne ==
  /\ NoRequest \in Requests
  /\ \A n \in Nat : Shaped(NoRequest, n)
  /\ NoRequest.pc = "done" /\ NoRequest.token = 0 /\ NoRequest.op = "none" /\ NoRequest.tries = 0 /\ NoRequest.beaten = 0
BY DEF NoRequest, Requests, Shaped, PcsOf, Pcs, Statuses, CreatingPcs

LEMMA NobodyIsFine ==
  ASSUME NEW r, reqs'[r] = NoRequest
  PROVE  ProvisioningHolds(r)' /\ Waiting(r)'
<1>1. ATTEMPTS \in Nat /\ ATTEMPTS > 0
  BY AttemptsPositive
<1>2. NoRequest.pc = "done" /\ NoRequest.tries = 0 /\ NoRequest.beaten = 0
  BY NoRequestIsOne
<1>3. ProvisioningHolds(r)'
  BY <1>1, <1>2 DEF ProvisioningHolds
<1> QED BY <1>2, <1>3 DEF Waiting

LEMMA QuietKept ==
  ASSUME AccInv, NEW r, NEW q, Acts(r, q), \A p \in DOMAIN reqs \ {r} : reqs'[p] = reqs[p],
         UNCHANGED <<scenario, users, sysadmins, admins>>, led' \in BOOLEAN,
         excused' \in BOOLEAN, excused => excused', linkRace' \in BOOLEAN, linkRace => linkRace',
         signedIn' \subseteq Subjects \X Nat, \A s \in signedIn' : s \in signedIn \/ InAs(s),
         tokens' \in Seq(Tokens), Len(tokens') >= Len(tokens), TokensKept', Shaped(q, Len(tokens')),
         r \in DOMAIN reqs /\ q.pc \in Makers => reqs[r].pc \in Makers,
         q.pc = "link" => ~MayMake(q.by), ProvisioningHolds(r)',
         r \in DOMAIN reqs /\ reqs[r].pc = "hook" => excused', excused' \/ Waiting(r)'
  PROVE  AccInv'
<1>1. TableTyped /\ RestTyped /\ AllShaped /\ LinksHold /\ AllProvision /\ ChargeHolds
  BY DEF AccInv
<1>2. TableTyped'
  BY <1>1 DEF TableTyped
<1>3. RestTyped'
  BY <1>1 DEF RestTyped, Acts
<1>4. Len(tokens') \in Nat
  BY LenProperties
<1>5. AllShaped'
  BY <1>1, <1>4, StillShaped
<1>6. LinksHold'
  BY <1>1, LinksIf
<1>7. AllProvision'
  BY <1>1, ProvisionQuiet
<1>8. ChargeHolds'
  BY <1>1, ChargeQuiet
<1> QED BY <1>2, <1>3, <1>5, <1>6, <1>7, <1>8 DEF AccInv

\* A request ends.
LEMMA EndKept ==
  ASSUME AccInv, NEW r \in DOMAIN reqs, End(r),
         UNCHANGED <<scenario, users, sysadmins, admins>>, led' \in BOOLEAN,
         excused' \in BOOLEAN, excused => excused', linkRace' \in BOOLEAN, linkRace => linkRace',
         signedIn' \subseteq Subjects \X Nat, \A s \in signedIn' : s \in signedIn \/ InAs(s),
         tokens' \in Seq(Tokens), Len(tokens') >= Len(tokens), TokensKept',
         reqs[r].pc = "hook" => excused'
  PROVE  AccInv'
<1>1. RestTyped /\ NoRequest \in Requests /\ reqs' = [reqs EXCEPT ![r] = NoRequest]
  BY NoRequestIsOne DEF AccInv, End
<1>2. Acts(r, NoRequest) /\ \A p \in DOMAIN reqs \ {r} : reqs'[p] = reqs[p]
  BY <1>1, OneActs
<1>3. reqs'[r] = NoRequest
  BY <1>2, ActedFields
<1>4. ProvisioningHolds(r)' /\ Waiting(r)'
  BY <1>3, NobodyIsFine
<1>5. Len(tokens') \in Nat
  BY LenProperties
<1>6. Shaped(NoRequest, Len(tokens')) /\ NoRequest.pc \notin Makers /\ NoRequest.pc # "link"
  BY <1>5, NoRequestIsOne DEF Makers
<1> QED BY <1>2, <1>4, <1>6, QuietKept

\* Nothing but the request moves, and no token of its is at stake.
LEMMA EndsIdle ==
  ASSUME RestTyped, TokensKept, NEW r, Acts(r, NoRequest), tokens' = tokens,
         r \in DOMAIN reqs => reqs[r].token = 0 \/ reqs[r].pc \notin {"hook", "mark"}
  PROVE  TokensKept' /\ tokens' \in Seq(Tokens) /\ Len(tokens') >= Len(tokens)
<1>1. \A t \in DOMAIN tokens : FairTo(r, NoRequest, t)
  BY ReqsTyped, NoRequestIsOne DEF FairTo
<1>2. TokensKept'
  BY <1>1, TokensStay
<1> QED BY <1>2, ReqsTyped DEF RestTyped

LEMMA SignInKept ==
  ASSUME AccInv, NEW r \in DOMAIN reqs, NEW n \in DOMAIN users, SignIn(r, n), reqs[r].op = "oidc",
         reqs[r].pc # "hook",
         UNCHANGED <<scenario, users, sysadmins, admins, tokens, excused>>, led' \in BOOLEAN,
         linkRace' \in BOOLEAN, linkRace => linkRace', linkRace' \/ users[n].link = reqs[r].sub
  PROVE  AccInv'
<1>1. RestTyped /\ TableTyped /\ LinksHold /\ TokensKept /\ reqs' = [reqs EXCEPT ![r] = NoRequest]
  BY DEF AccInv, SignIn, End
<1>2. reqs[r] \in Requests /\ Shaped(reqs[r], Len(tokens)) /\ reqs[r].sub \in Subjects /\ reqs[r].token = 0
  BY <1>1, ReqsTyped DEF AccInv, AllShaped, Shaped
<1>3. users[n].by \in Nat
  BY <1>1 DEF TableTyped, Rows
<1>4. signedIn' \subseteq signedIn \cup {<<reqs[r].sub, users[n].by>>}
  BY DEF SignIn
<1>5. signedIn' \subseteq Subjects \X Nat
  BY <1>1, <1>2, <1>3, <1>4 DEF RestTyped
<1>6. InAs(<<reqs[r].sub, users[n].by>>)
  <2>1. ~MayMake(users[n].by)
    BY <1>1 DEF LinksHold
  <2>2. \A m \in DOMAIN users : users[m].by = users[n].by => m = n
    BY <1>1 DEF LinksHold
  <2> QED BY <2>1, <2>2 DEF InAs
<1>7. \A s \in signedIn' : s \in signedIn \/ InAs(s)
  BY <1>4, <1>6
<1>8. TokensKept' /\ tokens' \in Seq(Tokens) /\ Len(tokens') >= Len(tokens)
  <2>1. Acts(r, NoRequest)
    BY <1>1, NoRequestIsOne, OneActs
  <2> QED BY <1>1, <1>2, <2>1, EndsIdle
<1>9. excused' \in BOOLEAN /\ End(r)
  BY <1>1 DEF RestTyped, SignIn
<1> QED BY <1>5, <1>7, <1>8, <1>9, EndKept

\* A request goes on, and nothing else happens.
LEMMA GoesOn ==
  ASSUME AccInv, NEW r \in DOMAIN reqs, NEW q \in Requests, reqs' = [reqs EXCEPT ![r] = q],
         UNCHANGED <<scenario, users, sysadmins, admins, tokens, signedIn, excused, linkRace>>, led' \in BOOLEAN,
         reqs[r].pc \notin {"hook", "mark"}, q.token = reqs[r].token,
         reqs[r].pc = "validate" => q.token # 0 /\ ~tokens[q.token].used,
         Shaped(q, Len(tokens)), q.pc \in Makers => reqs[r].pc \in Makers,
         q.pc = "link" => ~MayMake(q.by), ProvisioningHolds(r)', excused \/ Waiting(r)'
  PROVE  AccInv'
<1>1. RestTyped /\ TokensKept
  BY DEF AccInv
<1>2. Acts(r, q) /\ \A p \in DOMAIN reqs \ {r} : reqs'[p] = reqs[p]
  BY <1>1, OneActs
<1>3. \A t \in DOMAIN tokens : FairTo(r, q, t)
  BY DEF FairTo, TokenHolders, At
<1>4. TokensKept'
  BY <1>1, <1>2, <1>3, TokensStay
<1>5. excused' \in BOOLEAN /\ linkRace' \in BOOLEAN /\ signedIn' \subseteq Subjects \X Nat /\ tokens' \in Seq(Tokens)
      /\ Len(tokens') >= Len(tokens)
  BY <1>1, ReqsTyped DEF RestTyped
<1> QED BY <1>2, <1>4, <1>5, QuietKept

\* A request arrives, and nothing else happens.
LEMMA ArrivesKept ==
  ASSUME AccInv, NEW q \in Requests, reqs' = Append(reqs, q),
         UNCHANGED <<scenario, users, sysadmins, admins, tokens, signedIn, excused, linkRace>>, led' \in BOOLEAN,
         q.token = 0 \/ q.pc = "validate", Shaped(q, Len(tokens)), q.pc # "link",
         q.tries = 0, q.beaten = 0, q.pc \notin {"gaveUp", "raced", "insert", "uid", "findMail"},
         q.pc = "number" => q.op = "create"
  PROVE  AccInv'
<1>1. RestTyped /\ TokensKept
  BY DEF AccInv
<1> DEFINE r == Len(reqs) + 1
<1>2. Acts(r, q) /\ r \notin DOMAIN reqs /\ \A p \in DOMAIN reqs : reqs'[p] = reqs[p]
  BY <1>1, NewActs
<1>6. PICK x : x = r
  OBVIOUS
<1> HIDE DEF r
<1>3. \A t \in DOMAIN tokens : FairTo(x, q, t)
  BY <1>1, <1>2, <1>6, ReqsTyped DEF FairTo
<1>4. TokensKept'
  BY <1>1, <1>2, <1>3, <1>6, TokensStay
<1>5. excused' \in BOOLEAN /\ linkRace' \in BOOLEAN /\ signedIn' \subseteq Subjects \X Nat /\ tokens' \in Seq(Tokens)
      /\ Len(tokens') >= Len(tokens)
  BY <1>1, ReqsTyped DEF RestTyped
<1>7. reqs'[x] = q
  BY <1>2, <1>6, ActedFields
<1>8. ProvisioningHolds(x)'
  <2>1. ATTEMPTS \in Nat /\ ATTEMPTS > 0
    BY AttemptsPositive
  <2>2. q.op = "oidc" => q.pc # "number"
    OBVIOUS
  <2> QED BY <1>7, <2>1, <2>2 DEF ProvisioningHolds
<1>9. Waiting(x)'
  BY <1>7 DEF Waiting
<1> QED BY <1>2, <1>4, <1>5, <1>6, <1>8, <1>9, QuietKept

(* One lemma for each step of a request *)

LEMMA WhoIsAt ==
  ASSUME NEW q \in Requests, NEW n, Shaped(q, n)
  PROVE  /\ q.pc = "validate" => q.op \in {"register", "reset"}
         /\ q.pc = "count" => q.op = "register"
         /\ q.pc \in {"number", "insert", "hook"} => q.op \in {"register", "create", "oidc"}
         /\ q.pc = "mark" => q.op \in {"register", "reset"}
         /\ q.pc = "setPassword" => q.op = "reset"
         /\ q.pc = "groups" => q.op \in {"create", "edit"}
         /\ q.pc \in {"findLink", "findMail", "link", "uid", "raced", "look", "gaveUp"} => q.op = "oidc"
         /\ q.op \in {"create", "oidc", "edit"} => q.token = 0
BY RequestFields DEF Shaped, PcsOf

LEMMA AtIts ==
  ASSUME AccInv, NEW r \in DOMAIN reqs
  PROVE  /\ reqs[r] \in Requests /\ Shaped(reqs[r], Len(tokens)) /\ ProvisioningHolds(r) /\ r \in Nat /\ r # 0
         /\ excused \/ Waiting(r)
         /\ RestTyped /\ TableTyped /\ TokensKept
         /\ reqs[r].token # 0 => reqs[r].token \in DOMAIN tokens
<1>1. RestTyped /\ AllShaped /\ AllProvision /\ ChargeHolds /\ TableTyped /\ TokensKept
  BY DEF AccInv
<1>2. Shaped(reqs[r], Len(tokens)) /\ ProvisioningHolds(r) /\ (excused \/ Waiting(r))
  BY <1>1 DEF AllShaped, AllProvision, ChargeHolds
<1>3. reqs[r].token # 0 => reqs[r].token \in DOMAIN tokens
  BY <1>1, <1>2, ReqsTyped, RequestFields DEF Shaped
<1> QED BY <1>1, <1>2, <1>3, ReqsTyped

LEMMA ValidateKept ==
  ASSUME AccInv, NEW r \in DOMAIN reqs, ValidateToken(r), UNCHANGED scenario, led' \in BOOLEAN
  PROVE  AccInv'
<1>1. /\ reqs[r] \in Requests /\ Shaped(reqs[r], Len(tokens)) /\ RestTyped /\ TokensKept
      /\ reqs[r].pc = "validate" /\ reqs[r].op \in {"register", "reset"} /\ reqs[r].token # 0
  BY AtIts, WhoIsAt DEF ValidateToken, At, Shaped
<1>2. CASE ~tokens[reqs[r].token].used /\ Goto(r, IF reqs[r].op = "reset" THEN "setPassword" ELSE "count")
  <2> DEFINE to == IF reqs[r].op = "reset" THEN "setPassword" ELSE "count"
             q == [reqs[r] EXCEPT !.pc = to]
  <2>1. reqs' = [reqs EXCEPT ![r] = q]
    BY <1>2 DEF Goto
  <2>2. to \in Pcs /\ (reqs[r].op = "reset" => to = "setPassword") /\ (reqs[r].op = "register" => to = "count")
    BY <1>1 DEF Pcs
  <2> HIDE DEF to
  <2>3. q \in Requests /\ q.pc = to /\ q.token = reqs[r].token /\ q.op = reqs[r].op /\ q.sub = reqs[r].sub /\ q.self = reqs[r].self
        /\ q.tries = reqs[r].tries /\ q.beaten = reqs[r].beaten
    BY <1>1, <2>2 DEF Requests
  <2> HIDE DEF q
  <2>4. Shaped(q, Len(tokens))
    BY <1>1, <2>2, <2>3 DEF Shaped, PcsOf
  <2>5. reqs'[r] = q
    BY <2>1
  <2>6. ProvisioningHolds(r)'
    BY <1>1, <2>2, <2>3, <2>5, AtIts DEF ProvisioningHolds
  <2>7. Waiting(r)'
    BY <1>1, <2>2, <2>3, <2>5 DEF Waiting
  <2>8. q.pc \in Makers => reqs[r].pc \in Makers
    BY <1>1 DEF Makers
  <2>9. UNCHANGED <<users, sysadmins, admins, tokens, signedIn, excused, linkRace>>
    BY DEF ValidateToken
  <2> QED BY <1>1, <1>2, <2>1, <2>2, <2>3, <2>4, <2>6, <2>7, <2>8, <2>9, GoesOn
<1>3. CASE End(r)
  <2>1. UNCHANGED <<users, sysadmins, admins, tokens, signedIn, excused, linkRace>>
    BY DEF ValidateToken
  <2>2. Acts(r, NoRequest)
    BY <1>1, <1>3, OneActs, NoRequestIsOne DEF End
  <2>3. TokensKept' /\ tokens' \in Seq(Tokens) /\ Len(tokens') >= Len(tokens)
    BY <1>1, <2>1, <2>2, EndsIdle
  <2>4. excused' \in BOOLEAN /\ linkRace' \in BOOLEAN /\ signedIn' \subseteq Subjects \X Nat
    BY <1>1, <2>1 DEF RestTyped
  <2> QED BY <1>1, <1>3, <2>1, <2>3, <2>4, EndKept
<1> QED BY <1>2, <1>3 DEF ValidateToken

LEMMA MarkKept ==
  ASSUME AccInv, NEW r \in DOMAIN reqs, MarkAsUsed(r), UNCHANGED scenario, led' \in BOOLEAN
  PROVE  AccInv'
<1>1. /\ reqs[r] \in Requests /\ Shaped(reqs[r], Len(tokens)) /\ RestTyped /\ TokensKept
      /\ reqs[r].pc = "mark" /\ reqs[r].token # 0 /\ reqs[r].token \in DOMAIN tokens
  BY AtIts DEF MarkAsUsed, At, Shaped
<1>2. PICK u : u = reqs[r].token
  OBVIOUS
<1> DEFINE old == tokens[u]
           e == old.excused \/ TokenHolders(u) # {r}
           new == [old EXCEPT !.used = TRUE, !.excused = e]
<1>3. u \in DOMAIN tokens /\ u # 0 /\ old \in Tokens /\ old.excused \in BOOLEAN /\ e \in BOOLEAN
  BY <1>1, <1>2, ReqsTyped, TokenFields
<1>4. new \in Tokens /\ new.used = TRUE /\ new.excused = e /\ new.uses = old.uses
  <2> HIDE DEF old, e
  <2> QED BY <1>3 DEF Tokens
<1>5. tokens' = [tokens EXCEPT ![u] = new]
  BY <1>2, <1>3 DEF MarkAsUsed
<1> HIDE DEF new
<1>6. /\ tokens' \in Seq(Tokens) /\ Len(tokens') = Len(tokens) /\ DOMAIN tokens' = DOMAIN tokens /\ tokens'[u] = new
      /\ \A t \in DOMAIN tokens \ {u} : tokens'[t] = tokens[t]
  BY <1>1, <1>3, <1>4, <1>5, OneToken
<1>7. Acts(r, NoRequest) /\ End(r)
  BY <1>1, OneActs, NoRequestIsOne DEF End, MarkAsUsed
<1>8. \A t \in DOMAIN tokens \ {u} : FairTo(r, NoRequest, t)
  BY <1>1, <1>2, ReqsTyped, NoRequestIsOne DEF FairTo
<1>9. TokenHolds(u)'
  <2> SUFFICES ASSUME ~e, old.uses # 0 PROVE TokenHolds(u)'
    BY <1>4, <1>6 DEF TokenHolds
  <2>1. TokenHolders(u) = {r} /\ ~old.excused
    OBVIOUS
  <2>2. old.uses = 1
    BY <1>1, <1>3, <2>1 DEF TokensKept, TokenHolds
  <2>3. \A p : p \notin TokenHolders(u)'
    BY <1>3, <1>7, <2>1, HoldersOf, NoRequestIsOne
  <2>4. TokenHolders(u)' = {}
    BY <2>3
  <2> QED BY <1>4, <1>6, <2>2, <2>4 DEF TokenHolds
<1>10. TokensKept'
  BY <1>1, <1>3, <1>6, <1>7, <1>8, <1>9, TokensBut
<1>11. UNCHANGED <<users, sysadmins, admins, signedIn, excused, linkRace>>
  BY DEF MarkAsUsed
<1>12. excused' \in BOOLEAN /\ linkRace' \in BOOLEAN /\ signedIn' \subseteq Subjects \X Nat /\ Len(tokens') >= Len(tokens)
  BY <1>1, <1>6, <1>11, ReqsTyped DEF RestTyped
<1> QED BY <1>1, <1>6, <1>7, <1>10, <1>11, <1>12, EndKept

LEMMA CountKept ==
  ASSUME AccInv, NEW r \in DOMAIN reqs, CountUsers(r), UNCHANGED scenario, led' \in BOOLEAN
  PROVE  AccInv'
<1>1. /\ reqs[r] \in Requests /\ Shaped(reqs[r], Len(tokens)) /\ ProvisioningHolds(r)
      /\ reqs[r].pc = "count" /\ reqs[r].op = "register"
  BY AtIts, WhoIsAt DEF CountUsers, At
<1> DEFINE st == IF NoAccount \/ reqs[r].token # 0 THEN "active" ELSE "pending"
           se == reqs[r].token = 0
           q == [reqs[r] EXCEPT !.pc = "number", !.self = se, !.status = st]
<1>2. reqs' = [reqs EXCEPT ![r] = q]
  BY DEF CountUsers
<1>3. st \in Statuses /\ se \in BOOLEAN
  BY DEF Statuses
<1>4. q \in Requests /\ q.pc = "number" /\ q.self = se /\ q.status = st /\ q.token = reqs[r].token
      /\ q.op = reqs[r].op /\ q.sub = reqs[r].sub /\ q.tries = reqs[r].tries /\ q.beaten = reqs[r].beaten
  <2> HIDE DEF st, se
  <2> QED BY <1>1, <1>3 DEF Requests, Pcs
<1> HIDE DEF q
<1>5. Shaped(q, Len(tokens))
  BY <1>1, <1>4 DEF Shaped, PcsOf
<1>6. reqs'[r] = q
  BY <1>2
<1>7. ProvisioningHolds(r)'
  BY <1>1, <1>4, <1>6 DEF ProvisioningHolds
<1>8. UNCHANGED <<users, sysadmins, admins, tokens, signedIn, excused, linkRace>>
  BY DEF CountUsers
<1>9. Waiting(r)'
  BY <1>1, <1>4, <1>6, <1>8 DEF Waiting, NoAccount
<1>10. reqs[r].pc \in Makers
  BY <1>1 DEF Makers
<1> QED BY <1>1, <1>2, <1>4, <1>5, <1>7, <1>8, <1>9, <1>10, GoesOn

LEMMA NumberKept ==
  ASSUME AccInv, NEW r \in DOMAIN reqs, ReadNumber(r), UNCHANGED scenario, led' \in BOOLEAN
  PROVE  AccInv'
<1>1. /\ reqs[r] \in Requests /\ Shaped(reqs[r], Len(tokens)) /\ ProvisioningHolds(r) /\ (excused \/ Waiting(r)) /\ TableTyped
      /\ reqs[r].pc = "number" /\ reqs[r].op \in {"register", "create", "oidc"}
  BY AtIts, WhoIsAt DEF ReadNumber, At
<1> DEFINE k == NextUidNumber
           q == [reqs[r] EXCEPT !.pc = "insert", !.num = k]
<1>2. reqs' = [reqs EXCEPT ![r] = q]
  BY DEF ReadNumber
<1>3. k \in Nat /\ k \notin DOMAIN users
  BY <1>1, FreeNumber
<1> HIDE DEF k
<1>4. q \in Requests /\ q.pc = "insert" /\ q.num = k /\ q.self = reqs[r].self /\ q.status = reqs[r].status /\ q.token = reqs[r].token
      /\ q.op = reqs[r].op /\ q.sub = reqs[r].sub /\ q.tries = reqs[r].tries /\ q.beaten = reqs[r].beaten
      /\ q.mail = reqs[r].mail /\ q.uid = reqs[r].uid /\ q.mailTaken = reqs[r].mailTaken
  BY <1>1, <1>3 DEF Requests, Pcs
<1> HIDE DEF q
<1>5. Shaped(q, Len(tokens))
  BY <1>1, <1>4 DEF Shaped, PcsOf, CreatingPcs
<1>6. reqs'[r] = q
  BY <1>2
<1>8. UNCHANGED <<users, sysadmins, admins, tokens, signedIn, excused, linkRace>>
  BY DEF ReadNumber
<1>7. ProvisioningHolds(r)'
  <2>1. (LinkFree(r) => LinkFree(r)') /\ (UidFree(r) => UidFree(r)') /\ (MailFree(r) => MailFree(r)') /\ NumFree(r)'
    BY <1>3, <1>4, <1>6, <1>8 DEF LinkFree, UidFree, MailFree, NumFree
  <2> QED BY <1>1, <1>4, <1>6, <2>1 DEF ProvisioningHolds
<1>9. excused \/ Waiting(r)'
  BY <1>1, <1>4, <1>6, <1>8 DEF Waiting, NoAccount
<1>10. reqs[r].pc \in Makers
  BY <1>1 DEF Makers
<1> QED BY <1>1, <1>2, <1>4, <1>5, <1>7, <1>8, <1>9, <1>10, GoesOn

LEMMA PasswordKept ==
  ASSUME AccInv, NEW r \in DOMAIN reqs, SetPassword(r), UNCHANGED scenario, led' \in BOOLEAN
  PROVE  AccInv'
<1>1. /\ reqs[r] \in Requests /\ Shaped(reqs[r], Len(tokens)) /\ ProvisioningHolds(r) /\ RestTyped /\ TokensKept
      /\ reqs[r].pc = "setPassword" /\ reqs[r].op = "reset" /\ reqs[r].token # 0 /\ reqs[r].token \in DOMAIN tokens
  BY AtIts, WhoIsAt DEF SetPassword, At, Shaped
<1> DEFINE q == [reqs[r] EXCEPT !.pc = "mark"]
<1>2. reqs' = [reqs EXCEPT ![r] = q]
  BY DEF SetPassword, Goto
<1>3. q \in Requests /\ q.pc = "mark" /\ q.token = reqs[r].token /\ q.op = reqs[r].op /\ q.sub = reqs[r].sub
      /\ q.self = reqs[r].self /\ q.tries = reqs[r].tries /\ q.beaten = reqs[r].beaten
  BY <1>1 DEF Requests, Pcs
<1> HIDE DEF q
<1>4. Acts(r, q) /\ \A p \in DOMAIN reqs \ {r} : reqs'[p] = reqs[p]
  BY <1>1, <1>2, <1>3, OneActs
<1>5. TokensKept' /\ tokens' \in Seq(Tokens) /\ Len(tokens') = Len(tokens)
  BY <1>1, <1>3, <1>4, HonouredKept DEF SetPassword
<1>6. reqs'[r] = q
  BY <1>2
<1>7. ProvisioningHolds(r)' /\ Waiting(r)'
  BY <1>1, <1>3, <1>6 DEF ProvisioningHolds, Waiting
<1>8. UNCHANGED <<users, sysadmins, admins, signedIn, excused, linkRace>>
  BY DEF SetPassword
<1>9. excused' \in BOOLEAN /\ linkRace' \in BOOLEAN /\ signedIn' \subseteq Subjects \X Nat /\ Len(tokens') >= Len(tokens)
  BY <1>1, <1>5, <1>8, ReqsTyped DEF RestTyped
<1>10. Shaped(q, Len(tokens')) /\ q.pc \notin Makers
  BY <1>1, <1>3, <1>5 DEF Shaped, PcsOf, Makers
<1> QED BY <1>1, <1>3, <1>4, <1>5, <1>7, <1>8, <1>9, <1>10, QuietKept

LEMMA LinkedFree ==
  ASSUME NEW r, LinkedTo(reqs[r].sub) = {}
  PROVE  LinkFree(r)
BY DEF LinkedTo, LinkFree

LEMMA FindLinkKept ==
  ASSUME AccInv, NEW r \in DOMAIN reqs, FindLink(r), UNCHANGED scenario, led' \in BOOLEAN
  PROVE  AccInv'
<1>1. /\ reqs[r] \in Requests /\ Shaped(reqs[r], Len(tokens)) /\ ProvisioningHolds(r) /\ RestTyped
      /\ reqs[r].pc = "findLink" /\ reqs[r].op = "oidc"
  BY AtIts, WhoIsAt DEF FindLink, At
<1>2. UNCHANGED <<users, sysadmins, admins, tokens, excused, linkRace>> /\ linkRace' \in BOOLEAN
  BY <1>1 DEF FindLink, RestTyped
<1>3. ASSUME NEW n \in LinkedTo(reqs[r].sub), SignIn(r, n) PROVE AccInv'
  <2>1. n \in DOMAIN users /\ users[n].link = reqs[r].sub
    BY DEF LinkedTo
  <2> QED BY <1>1, <1>2, <1>3, <2>1, SignInKept
<1>4. CASE LinkedTo(reqs[r].sub) = {} /\ Goto(r, "findMail") /\ UNCHANGED signedIn
  <2> DEFINE q == [reqs[r] EXCEPT !.pc = "findMail"]
  <2>1. reqs' = [reqs EXCEPT ![r] = q]
    BY <1>4 DEF Goto
  <2>2. q \in Requests /\ q.pc = "findMail" /\ q.token = reqs[r].token /\ q.op = reqs[r].op /\ q.sub = reqs[r].sub
        /\ q.self = reqs[r].self /\ q.tries = reqs[r].tries /\ q.beaten = reqs[r].beaten /\ q.status = reqs[r].status
    BY <1>1 DEF Requests, Pcs
  <2> HIDE DEF q
  <2>3. reqs'[r] = q
    BY <2>1
  <2>4. Shaped(q, Len(tokens)) /\ q.pc # "link" /\ reqs[r].pc \in Makers
    BY <1>1, <2>2 DEF Shaped, PcsOf, Makers
  <2>5. LinkFree(r)'
    <3>1. LinkFree(r)
      BY <1>4, LinkedFree
    <3> QED BY <1>2, <2>2, <2>3, <3>1 DEF LinkFree
  <2>6. ProvisioningHolds(r)' /\ Waiting(r)'
    BY <1>1, <2>2, <2>3, <2>5 DEF ProvisioningHolds, Waiting
  <2> QED BY <1>1, <1>2, <1>4, <2>1, <2>2, <2>4, <2>6, GoesOn
<1> QED BY <1>3, <1>4 DEF FindLink

\* The end of a sign-in that signs nobody in.
LEMMA RefusedKept ==
  ASSUME AccInv, NEW r \in DOMAIN reqs, End(r), reqs[r].op = "oidc", reqs[r].pc # "hook",
         UNCHANGED <<scenario, users, sysadmins, admins, tokens, signedIn, excused, linkRace>>, led' \in BOOLEAN
  PROVE  AccInv'
<1>1. reqs[r] \in Requests /\ Shaped(reqs[r], Len(tokens)) /\ RestTyped /\ TokensKept /\ reqs[r].token = 0
  BY AtIts, WhoIsAt
<1>2. Acts(r, NoRequest)
  BY <1>1, NoRequestIsOne, OneActs DEF End
<1>3. TokensKept' /\ tokens' \in Seq(Tokens) /\ Len(tokens') >= Len(tokens)
  BY <1>1, <1>2, EndsIdle
<1>4. excused' \in BOOLEAN /\ linkRace' \in BOOLEAN /\ signedIn' \subseteq Subjects \X Nat
  BY <1>1 DEF RestTyped
<1> QED BY <1>1, <1>3, <1>4, EndKept

LEMMA FindMailKept ==
  ASSUME AccInv, NEW r \in DOMAIN reqs, FindMail(r), UNCHANGED scenario, led' \in BOOLEAN
  PROVE  AccInv'
<1> DEFINE found == {n \in DOMAIN users : users[n].mail = reqs[r].mail}
<1>1. /\ reqs[r] \in Requests /\ Shaped(reqs[r], Len(tokens)) /\ ProvisioningHolds(r) /\ RestTyped /\ TableTyped
      /\ reqs[r].pc = "findMail" /\ reqs[r].op = "oidc"
  BY AtIts, WhoIsAt DEF FindMail, At
<1>2. UNCHANGED <<users, sysadmins, admins, tokens, excused, linkRace>> /\ linkRace' \in BOOLEAN
  BY <1>1 DEF FindMail, RestTyped
<1>3. ASSUME NEW n \in found, users[n].link = reqs[r].sub, SignIn(r, n) PROVE AccInv'
  BY <1>1, <1>2, <1>3, SignInKept
<1>4. ASSUME End(r), UNCHANGED signedIn PROVE AccInv'
  BY <1>1, <1>2, <1>4, RefusedKept
<1>5. ASSUME NEW n \in found,
             reqs' = [reqs EXCEPT ![r].pc = "link", ![r].num = n, ![r].by = users[n].by, ![r].status = users[n].status],
             UNCHANGED signedIn
      PROVE  AccInv'
  <2> DEFINE b == users[n].by
             s == users[n].status
             q == [reqs[r] EXCEPT !.pc = "link", !.num = n, !.by = b, !.status = s]
  <2>1. reqs' = [reqs EXCEPT ![r] = q]
    BY <1>5
  <2>2. n \in Nat /\ b \in Nat /\ s \in Statuses /\ n \in DOMAIN users
    BY <1>1 DEF TableTyped, Rows
  <2> HIDE DEF b, s
  <2>3. q \in Requests /\ q.pc = "link" /\ q.by = b /\ q.token = reqs[r].token /\ q.op = reqs[r].op /\ q.sub = reqs[r].sub
        /\ q.self = reqs[r].self /\ q.tries = reqs[r].tries /\ q.beaten = reqs[r].beaten
    BY <1>1, <2>2 DEF Requests, Pcs
  <2> HIDE DEF q
  <2>4. reqs'[r] = q
    BY <2>1
  <2>5. Shaped(q, Len(tokens)) /\ q.pc \notin Makers
    BY <1>1, <2>3 DEF Shaped, PcsOf, Makers, CreatingPcs
  <2>6. ~MayMake(q.by)
    BY <2>2, <2>3 DEF AccInv, LinksHold, b
  <2>7. ProvisioningHolds(r)' /\ Waiting(r)'
    BY <1>1, <2>3, <2>4 DEF ProvisioningHolds, Waiting
  <2> QED BY <1>1, <1>2, <1>5, <2>1, <2>3, <2>5, <2>6, <2>7, GoesOn
<1>6. ASSUME found = {}, Goto(r, "uid"), UNCHANGED signedIn PROVE AccInv'
  <2> DEFINE q == [reqs[r] EXCEPT !.pc = "uid"]
  <2>1. reqs' = [reqs EXCEPT ![r] = q]
    BY <1>6 DEF Goto
  <2>2. q \in Requests /\ q.pc = "uid" /\ q.token = reqs[r].token /\ q.op = reqs[r].op /\ q.sub = reqs[r].sub /\ q.mail = reqs[r].mail
        /\ q.self = reqs[r].self /\ q.tries = reqs[r].tries /\ q.beaten = reqs[r].beaten /\ q.status = reqs[r].status
        /\ q.mailTaken = reqs[r].mailTaken
    BY <1>1 DEF Requests, Pcs
  <2> HIDE DEF q
  <2>3. reqs'[r] = q
    BY <2>1
  <2>4. Shaped(q, Len(tokens)) /\ q.pc # "link" /\ reqs[r].pc \in Makers
    BY <1>1, <2>2 DEF Shaped, PcsOf, Makers, CreatingPcs
  <2>5. (LinkFree(r) => LinkFree(r)') /\ MailFree(r)'
    BY <1>2, <1>6, <2>2, <2>3 DEF LinkFree, MailFree
  <2>6. reqs[r].beaten \in Nat /\ reqs[r].tries = 0 /\ (reqs[r].beaten >= 1 \/ LinkFree(r)) /\ reqs[r].beaten <= ATTEMPTS
        /\ reqs[r].tries < ATTEMPTS
    BY <1>1, RequestFields DEF ProvisioningHolds
  <2>7. ProvisioningHolds(r)' /\ Waiting(r)'
    BY <1>1, <2>2, <2>3, <2>5, <2>6 DEF ProvisioningHolds, Waiting
  <2> QED BY <1>1, <1>2, <1>6, <2>1, <2>2, <2>4, <2>7, GoesOn
<1> QED BY <1>3, <1>4, <1>5, <1>6 DEF FindMail

LEMMA ReadUidKept ==
  ASSUME AccInv, NEW r \in DOMAIN reqs, ReadUid(r), UNCHANGED scenario, led' \in BOOLEAN
  PROVE  AccInv'
<1>1. /\ reqs[r] \in Requests /\ Shaped(reqs[r], Len(tokens)) /\ ProvisioningHolds(r) /\ TableTyped
      /\ reqs[r].pc = "uid" /\ reqs[r].op = "oidc"
  BY AtIts, WhoIsAt DEF ReadUid, At
<1> DEFINE u == UniqueUid
           q == [reqs[r] EXCEPT !.pc = "number", !.uid = u]
<1>2. reqs' = [reqs EXCEPT ![r] = q]
  BY DEF ReadUid
<1>3. u \in Nat /\ \A n \in DOMAIN users : users[n].uid # u
  BY <1>1, FreeUid
<1> HIDE DEF u
<1>4. q \in Requests /\ q.pc = "number" /\ q.uid = u /\ q.self = reqs[r].self /\ q.status = reqs[r].status /\ q.token = reqs[r].token
      /\ q.op = reqs[r].op /\ q.sub = reqs[r].sub /\ q.tries = reqs[r].tries /\ q.beaten = reqs[r].beaten
      /\ q.mail = reqs[r].mail /\ q.mailTaken = reqs[r].mailTaken
  BY <1>1, <1>3 DEF Requests, Pcs
<1> HIDE DEF q
<1>5. Shaped(q, Len(tokens)) /\ q.pc # "link" /\ reqs[r].pc \in Makers
  BY <1>1, <1>4 DEF Shaped, PcsOf, CreatingPcs, Makers
<1>6. reqs'[r] = q
  BY <1>2
<1>7. UNCHANGED <<users, sysadmins, admins, tokens, signedIn, excused, linkRace>>
  BY DEF ReadUid
<1>8. ProvisioningHolds(r)' /\ Waiting(r)'
  <2>1. (LinkFree(r) => LinkFree(r)') /\ UidFree(r)' /\ (MailFree(r) => MailFree(r)')
    BY <1>3, <1>4, <1>6, <1>7 DEF LinkFree, UidFree, MailFree
  <2> QED BY <1>1, <1>4, <1>6, <2>1 DEF ProvisioningHolds, Waiting
<1> QED BY <1>1, <1>2, <1>4, <1>5, <1>7, <1>8, GoesOn

LEMMA RacedKept ==
  ASSUME AccInv, NEW r \in DOMAIN reqs, Raced(r), UNCHANGED scenario, led' \in BOOLEAN
  PROVE  AccInv'
<1>1. /\ reqs[r] \in Requests /\ Shaped(reqs[r], Len(tokens)) /\ ProvisioningHolds(r) /\ RestTyped
      /\ reqs[r].pc = "raced" /\ reqs[r].op = "oidc"
  BY AtIts, WhoIsAt DEF Raced, At
<1>2. UNCHANGED <<users, sysadmins, admins, tokens, excused, linkRace>> /\ linkRace' \in BOOLEAN
  BY <1>1 DEF Raced, RestTyped
<1>3. ASSUME NEW n \in LinkedTo(reqs[r].sub), SignIn(r, n) PROVE AccInv'
  <2>1. n \in DOMAIN users /\ users[n].link = reqs[r].sub
    BY DEF LinkedTo
  <2> QED BY <1>1, <1>2, <1>3, <2>1, SignInKept
<1>4. /\ reqs[r].tries \in Nat /\ reqs[r].beaten \in Nat /\ reqs[r].mailTaken \in BOOLEAN /\ ATTEMPTS \in Nat
      /\ reqs[r].tries < ATTEMPTS /\ reqs[r].beaten <= ATTEMPTS
      /\ reqs[r].beaten >= reqs[r].tries + 1 \/ reqs[r].mailTaken
      /\ reqs[r].mailTaken \/ MailFree(r)
  BY <1>1, RequestFields, AttemptsPositive DEF ProvisioningHolds
<1>5. ASSUME LinkedTo(reqs[r].sub) = {}, UNCHANGED signedIn, reqs[r].tries + 1 < ATTEMPTS,
             reqs' = [reqs EXCEPT ![r].tries = reqs[r].tries + 1, ![r].pc = "uid"]
      PROVE  AccInv'
  <2> DEFINE k == reqs[r].tries + 1
             q == [reqs[r] EXCEPT !.tries = k, !.pc = "uid"]
  <2>1. reqs' = [reqs EXCEPT ![r] = q]
    BY <1>5
  <2>2. k \in Nat
    BY <1>4
  <2> HIDE DEF k
  <2>3. q \in Requests /\ q.pc = "uid" /\ q.tries = k /\ q.token = reqs[r].token /\ q.op = reqs[r].op /\ q.sub = reqs[r].sub
        /\ q.mail = reqs[r].mail /\ q.self = reqs[r].self /\ q.beaten = reqs[r].beaten /\ q.status = reqs[r].status
        /\ q.mailTaken = reqs[r].mailTaken
    BY <1>1, <2>2 DEF Requests, Pcs
  <2> HIDE DEF q
  <2>4. reqs'[r] = q
    BY <2>1
  <2>5. Shaped(q, Len(tokens)) /\ q.pc # "link" /\ reqs[r].pc \in Makers
    BY <1>1, <2>3 DEF Shaped, PcsOf, Makers, CreatingPcs
  <2>6. LinkFree(r)' /\ (MailFree(r) => MailFree(r)')
    <3>1. LinkFree(r)
      BY <1>5, LinkedFree
    <3> QED BY <1>2, <2>3, <2>4, <3>1 DEF LinkFree, MailFree
  <2>7. ProvisioningHolds(r)' /\ Waiting(r)'
    BY <1>1, <1>4, <1>5, <2>2, <2>3, <2>4, <2>6 DEF ProvisioningHolds, Waiting, k
  <2> QED BY <1>1, <1>2, <1>5, <2>1, <2>3, <2>5, <2>7, GoesOn
<1>6. ASSUME UNCHANGED signedIn, ~(reqs[r].tries + 1 < ATTEMPTS), reqs' = [reqs EXCEPT ![r].pc = "gaveUp"]
      PROVE  AccInv'
  <2> DEFINE q == [reqs[r] EXCEPT !.pc = "gaveUp"]
  <2>1. reqs' = [reqs EXCEPT ![r] = q]
    BY <1>6
  <2>3. q \in Requests /\ q.pc = "gaveUp" /\ q.token = reqs[r].token /\ q.op = reqs[r].op /\ q.sub = reqs[r].sub
        /\ q.tries = reqs[r].tries /\ q.self = reqs[r].self /\ q.beaten = reqs[r].beaten /\ q.mailTaken = reqs[r].mailTaken
    BY <1>1 DEF Requests, Pcs
  <2> HIDE DEF q
  <2>4. reqs'[r] = q
    BY <2>1
  <2>5. Shaped(q, Len(tokens)) /\ q.pc # "link" /\ q.pc \notin Makers
    BY <1>1, <2>3 DEF Shaped, PcsOf, Makers, CreatingPcs
  <2>6. reqs[r].beaten >= ATTEMPTS \/ reqs[r].mailTaken
    BY <1>4, <1>6
  <2>7. ProvisioningHolds(r)' /\ Waiting(r)'
    BY <1>1, <1>4, <2>3, <2>4, <2>6 DEF ProvisioningHolds, Waiting
  <2> QED BY <1>1, <1>2, <1>6, <2>1, <2>3, <2>5, <2>7, GoesOn
<1> QED BY <1>3, <1>5, <1>6 DEF Raced

LEMMA LookKept ==
  ASSUME AccInv, NEW r \in DOMAIN reqs, Look(r), UNCHANGED scenario, led' \in BOOLEAN
  PROVE  AccInv'
<1>1. reqs[r] \in Requests /\ Shaped(reqs[r], Len(tokens)) /\ RestTyped /\ reqs[r].pc = "look" /\ reqs[r].op = "oidc"
  BY AtIts, WhoIsAt DEF Look, At
<1>2. UNCHANGED <<users, sysadmins, admins, tokens, excused>>
  BY DEF Look
<1>3. ASSUME NEW n \in DOMAIN users, SignIn(r, n), linkRace' = (linkRace \/ users[n].link # reqs[r].sub) PROVE AccInv'
  <2>1. linkRace' \in BOOLEAN /\ (linkRace => linkRace') /\ (linkRace' \/ users[n].link = reqs[r].sub)
    BY <1>1, <1>3 DEF RestTyped
  <2> QED BY <1>1, <1>2, <1>3, <2>1, SignInKept
<1>4. ASSUME End(r), UNCHANGED <<signedIn, linkRace>> PROVE AccInv'
  BY <1>1, <1>2, <1>4, RefusedKept
<1> QED BY <1>3, <1>4 DEF Look

LEMMA DiesKept ==
  ASSUME AccInv, NEW r \in DOMAIN reqs, RequestDies(r), UNCHANGED scenario, led' \in BOOLEAN
  PROVE  AccInv'
<1>1. /\ reqs[r] \in Requests /\ Shaped(reqs[r], Len(tokens)) /\ RestTyped /\ TokensKept
      /\ reqs[r].token # 0 => reqs[r].token \in DOMAIN tokens
  BY AtIts
<1>2. UNCHANGED <<users, sysadmins, admins, signedIn, linkRace>> /\ End(r) /\ excused' = (excused \/ Creating(r))
  BY DEF RequestDies
<1>3. Acts(r, NoRequest)
  BY <1>1, <1>2, NoRequestIsOne, OneActs DEF End
<1>4. TokensKept' /\ tokens' \in Seq(Tokens) /\ Len(tokens') >= Len(tokens)
  <2>1. CASE At(r, "mark") \/ At(r, "hook")
    <3>1. tokens' = Unmarked(r)
      BY <2>1 DEF RequestDies
    <3>2. TokensKept' /\ tokens' \in Seq(Tokens) /\ Len(tokens') = Len(tokens)
      BY <1>1, <1>3, <3>1, UnmarkedKept, NoRequestIsOne
    <3> QED BY <1>1, <3>2, ReqsTyped
  <2>2. CASE ~(At(r, "mark") \/ At(r, "hook"))
    <3>1. tokens' = tokens
      BY <2>2 DEF RequestDies
    <3> QED BY <1>1, <1>3, <2>2, <3>1, EndsIdle DEF At
  <2> QED BY <2>1, <2>2
<1>5. excused' \in BOOLEAN /\ linkRace' \in BOOLEAN /\ signedIn' \subseteq Subjects \X Nat
  BY <1>1, <1>2 DEF RestTyped, Creating
<1>6. reqs[r].pc = "hook" => excused'
  BY <1>2 DEF Creating, CreatingPcs
<1> QED BY <1>1, <1>2, <1>4, <1>5, <1>6, EndKept

(* Steps that leave what an account is *)

LEMMA StillKept ==
  ASSUME AccInv, NEW r, NEW q, Acts(r, q), \A p \in DOMAIN reqs \ {r} : reqs'[p] = reqs[p],
         scenario' = scenario, led' \in BOOLEAN, excused' \in BOOLEAN, linkRace' = linkRace, signedIn' = signedIn,
         TableTyped', ChargeHolds',
         \A n \in DOMAIN users' : n \in DOMAIN users /\ users'[n] = users[n],
         tokens' \in Seq(Tokens), Len(tokens') >= Len(tokens), TokensKept', Shaped(q, Len(tokens')),
         q.pc \notin Makers, q.pc # "link", ProvisioningHolds(r)'
  PROVE  AccInv'
<1>1. RestTyped /\ AllShaped /\ LinksHold /\ AllProvision
  BY DEF AccInv
<1>2. RestTyped'
  BY <1>1 DEF RestTyped, Acts
<1>3. Len(tokens') \in Nat
  BY LenProperties
<1>4. AllShaped'
  BY <1>1, <1>3, StillShaped
<1>5. LinksHold'
  BY <1>1, LinksIf
<1>6. AllProvision'
  BY <1>1, ProvisionQuiet
<1> QED BY <1>2, <1>4, <1>5, <1>6 DEF AccInv

LEMMA Alone ==
  ASSUME TableTyped, NEW n, DOMAIN users = {n}
  PROVE  CountOne
BY FS_Singleton DEF CountOne

LEMMA HookKept ==
  ASSUME AccInv, NEW r \in DOMAIN reqs, AfterCreate(r), UNCHANGED scenario, led' \in BOOLEAN
  PROVE  AccInv'
<1>1. /\ reqs[r] \in Requests /\ Shaped(reqs[r], Len(tokens)) /\ RestTyped /\ TableTyped /\ TokensKept
      /\ reqs[r].token # 0 => reqs[r].token \in DOMAIN tokens
      /\ reqs[r].pc = "hook" /\ reqs[r].op \in {"register", "create", "oidc"}
      /\ reqs[r].op # "register" => reqs[r].token = 0
      /\ ProvisioningHolds(r) /\ ChargeHolds
  BY AtIts, WhoIsAt DEF AfterCreate, At, AccInv
<1>2. UNCHANGED <<users, sysadmins, signedIn, excused, linkRace>> /\ excused' \in BOOLEAN
  BY <1>1 DEF AfterCreate, RestTyped
<1> DEFINE num == reqs[r].num
           to == NextAfterHook(r)
           moved == [reqs[r] EXCEPT !.pc = to]
           q == IF num \notin DOMAIN users \/ to = "done" THEN NoRequest ELSE moved
<1>3. to = "done" \/ (to = "mark" /\ reqs[r].token # 0 /\ reqs[r].op = "register")
      \/ (to = "groups" /\ reqs[r].op = "create") \/ (to = "look" /\ reqs[r].op = "oidc")
  BY <1>1 DEF NextAfterHook
<1>4. reqs' = [reqs EXCEPT ![r] = q]
  BY DEF AfterCreate, End, Goto
<1>5. /\ q \in Requests /\ Shaped(q, Len(tokens)) /\ q.pc \notin Makers /\ q.pc # "link" /\ q.pc # "hook"
      /\ q = NoRequest \/ (q.token = reqs[r].token /\ (q.token # 0 => q.pc = "mark"))
      /\ q.beaten <= ATTEMPTS /\ q.tries < ATTEMPTS /\ q.pc \in {"done", "mark", "groups", "look"}
  <2>1. CASE q = NoRequest
    <3>1. ATTEMPTS \in Nat /\ ATTEMPTS > 0 /\ Len(tokens) \in Nat
      BY <1>1, AttemptsPositive, ReqsTyped
    <3> HIDE DEF num, to, moved, q
    <3> QED BY <2>1, <3>1, NoRequestIsOne DEF Makers
  <2>2. CASE q = moved /\ to # "done"
    <3>1. to \in Pcs
      BY <1>3 DEF Pcs
    <3> HIDE DEF to, num, q
    <3>2. moved \in Requests /\ moved.pc = to /\ moved.token = reqs[r].token /\ moved.op = reqs[r].op /\ moved.sub = reqs[r].sub
          /\ moved.self = reqs[r].self /\ moved.beaten = reqs[r].beaten /\ moved.tries = reqs[r].tries
      BY <1>1, <3>1 DEF Requests
    <3> HIDE DEF moved
    <3>3. Shaped(q, Len(tokens))
      BY <1>1, <1>3, <2>2, <3>2 DEF Shaped, PcsOf, CreatingPcs
    <3>4. q.beaten <= ATTEMPTS /\ q.tries < ATTEMPTS
      BY <1>1, <2>2, <3>2 DEF ProvisioningHolds
    <3> QED BY <1>1, <1>3, <2>2, <3>2, <3>3, <3>4 DEF Makers
  <2> QED BY <2>1, <2>2
<1>6. Acts(r, q) /\ \A p \in DOMAIN reqs \ {r} : reqs'[p] = reqs[p]
  <2> HIDE DEF q
  <2> QED BY <1>1, <1>4, <1>5, OneActs
<1>7. reqs'[r] = q
  BY <1>6, ActedFields
<1>8. ProvisioningHolds(r)'
  <2> HIDE DEF q
  <2> QED BY <1>5, <1>7 DEF ProvisioningHolds
<1>9. TokensKept' /\ tokens' \in Seq(Tokens) /\ Len(tokens') = Len(tokens)
  <2>1. CASE num \notin DOMAIN users
    <3>1. tokens' = Unmarked(r) /\ q = NoRequest
      BY <2>1 DEF AfterCreate
    <3> HIDE DEF q
    <3> QED BY <1>1, <1>6, <3>1, UnmarkedKept, NoRequestIsOne
  <2>2. CASE num \in DOMAIN users
    <3>1. tokens' = tokens
      BY <2>2 DEF AfterCreate
    <3>2. q = NoRequest => reqs[r].token = 0
      <4>1. q = NoRequest => to = "done"
        <5>1. moved.pc = to
          BY <1>1 DEF Requests
        <5> QED BY <2>2, <5>1, NoRequestIsOne
      <4>2. to = "done" => reqs[r].token = 0
        BY <1>1 DEF NextAfterHook
      <4> QED BY <4>1, <4>2
    <3>3. \A t \in DOMAIN tokens : FairTo(r, q, t)
      <4> HIDE DEF q
      <4> SUFFICES ASSUME NEW t \in DOMAIN tokens PROVE FairTo(r, q, t)
        OBVIOUS
      <4>1. t # 0
        BY <1>1, ReqsTyped
      <4>2. reqs[r].token = t => q.token = t /\ q.pc = "mark"
        BY <1>5, <3>2, <4>1
      <4>3. q.token = t => reqs[r].token = t
        BY <1>5, <4>1, NoRequestIsOne
      <4>4. reqs[r].token = t => r \in TokenHolders(t)
        BY <1>1 DEF TokenHolders, At
      <4> QED BY <4>2, <4>3, <4>4 DEF FairTo
    <3>4. TokensKept'
      <4> HIDE DEF q
      <4> QED BY <1>1, <1>6, <3>1, <3>3, TokensStay
    <3> QED BY <1>1, <3>1, <3>4 DEF RestTyped
  <2> QED BY <2>1, <2>2
<1>10. TableTyped' /\ admins \subseteq admins' /\ (num \in DOMAIN users /\ CountOne /\ sysadmins # "gone" => num \in admins')
  BY <1>1, <1>2 DEF AfterCreate, TableTyped
<1>11. ChargeHolds'
  <2> HIDE DEF q, to
  <2> SUFFICES ASSUME ~excused PROVE ChargeHolds'
    BY <1>2 DEF ChargeHolds
  <2>1. Somebody /\ sysadmins = "admin"
    BY <1>1 DEF ChargeHolds
  <2>2. Somebody'
    <3>1. CASE NoAccount
      BY <1>2, <3>1 DEF NoAccount, Somebody
    <3>2. CASE InCharge
      <4>1. InCharge'
        BY <1>2, <1>10, <3>2 DEF InCharge, IsAdmin
      <4> QED BY <4>1 DEF Somebody
    <3>3. ASSUME NEW p \in DOMAIN reqs, At(p, "hook"), DOMAIN users = {reqs[p].num}, users[reqs[p].num].status = "active"
          PROVE Somebody'
      <4>1. CASE p = r
        <5>1. CountOne
          BY <1>1, <3>3, Alone
        <5>2. num \in admins' /\ num \in DOMAIN users /\ users[num].status = "active"
          BY <1>10, <2>1, <3>3, <4>1, <5>1
        <5>3. InCharge'
          BY <1>2, <2>1, <5>2 DEF InCharge, IsAdmin
        <5> QED BY <5>3 DEF Somebody
      <4>2. CASE p # r
        <5>1. reqs'[p] = reqs[p] /\ p \in DOMAIN reqs'
          BY <1>6, <4>2, ActedFields
        <5> QED BY <1>2, <3>3, <5>1 DEF Somebody, At
      <4> QED BY <4>1, <4>2
    <3> QED BY <2>1, <3>1, <3>2, <3>3 DEF Somebody
  <2>3. \A p \in DOMAIN reqs' : Waiting(p)'
    <3> SUFFICES ASSUME NEW p \in DOMAIN reqs' PROVE Waiting(p)'
      OBVIOUS
    <3>1. CASE p = r
      BY <1>5, <1>7, <3>1 DEF Waiting
    <3>2. CASE p # r
      <4>1. p \in DOMAIN reqs /\ reqs'[p] = reqs[p]
        BY <1>6, <3>2, OthersAct
      <4>2. Waiting(p)
        BY <1>1, <4>1 DEF ChargeHolds
      <4> QED BY <1>2, <4>1, <4>2 DEF Waiting, NoAccount
    <3> QED BY <3>1, <3>2
  <2> QED BY <1>1, <1>2, <2>1, <2>2, <2>3 DEF ChargeHolds
<1>12. \A n \in DOMAIN users' : n \in DOMAIN users /\ users'[n] = users[n]
  BY <1>2
<1>13. Len(tokens') >= Len(tokens) /\ Shaped(q, Len(tokens'))
  BY <1>1, <1>5, <1>9, ReqsTyped
<1> HIDE DEF q
<1> QED BY <1>2, <1>5, <1>6, <1>8, <1>9, <1>10, <1>11, <1>12, <1>13, StillKept

LEMMA GroupsKept ==
  ASSUME AccInv, NEW r \in DOMAIN reqs, SetGroups(r), UNCHANGED scenario, led' \in BOOLEAN
  PROVE  AccInv'
<1>1. /\ reqs[r] \in Requests /\ Shaped(reqs[r], Len(tokens)) /\ RestTyped /\ TableTyped /\ TokensKept /\ ChargeHolds
      /\ reqs[r].pc = "groups" /\ reqs[r].token = 0
  BY AtIts, WhoIsAt DEF SetGroups, At, AccInv
<1>2. UNCHANGED <<users, sysadmins, tokens, signedIn, linkRace>> /\ Meddles /\ reqs' = [reqs EXCEPT ![r] = NoRequest]
  BY DEF SetGroups, End
<1>3. Acts(r, NoRequest) /\ \A p \in DOMAIN reqs \ {r} : reqs'[p] = reqs[p]
  BY <1>1, <1>2, OneActs, NoRequestIsOne
<1>4. reqs'[r] = NoRequest
  BY <1>3, ActedFields
<1>5. ProvisioningHolds(r)'
  BY <1>4, NobodyIsFine
<1>6. TokensKept' /\ tokens' \in Seq(Tokens) /\ Len(tokens') >= Len(tokens)
  BY <1>1, <1>2, <1>3, EndsIdle
<1>7. TableTyped'
  BY <1>1, <1>2 DEF SetGroups, TableTyped
<1>8. excused' \in BOOLEAN
  BY <1>1, <1>2 DEF Meddles, RestTyped, Creating, NoAccount, InCharge, IsAdmin
<1>9. \A n \in DOMAIN users' : n \in DOMAIN users /\ users'[n] = users[n]
  BY <1>2
<1>10. NoRequest.pc \notin Makers /\ NoRequest.pc # "link" /\ Shaped(NoRequest, Len(tokens')) /\ NoRequest.pc \notin {"number", "insert"}
  BY <1>1, <1>2, ReqsTyped, NoRequestIsOne DEF Makers
<1>11. ChargeHolds'
  BY <1>1, <1>2, <1>3, <1>9, <1>10, ChargeMeddled
<1> QED BY <1>2, <1>3, <1>5, <1>6, <1>7, <1>8, <1>9, <1>10, <1>11, StillKept

(* The requests that are over when they arrive *)

LEMMA NewNobody ==
  ASSUME AccInv, reqs' = Append(reqs, NoRequest)
  PROVE  \E r : /\ Acts(r, NoRequest) /\ r \notin DOMAIN reqs /\ \A p \in DOMAIN reqs : reqs'[p] = reqs[p]
                /\ ProvisioningHolds(r)' /\ Waiting(r)' /\ \A t \in DOMAIN tokens : FairTo(r, NoRequest, t)
<1>1. RestTyped
  BY DEF AccInv
<1>2. PICK r : r = Len(reqs) + 1
  OBVIOUS
<1>3. Acts(r, NoRequest) /\ r \notin DOMAIN reqs /\ \A p \in DOMAIN reqs : reqs'[p] = reqs[p]
  BY <1>1, <1>2, NewActs, NoRequestIsOne
<1>4. ProvisioningHolds(r)' /\ Waiting(r)'
  BY <1>3, ActedFields, NobodyIsFine
<1>5. \A t \in DOMAIN tokens : FairTo(r, NoRequest, t)
  BY <1>1, <1>3, ReqsTyped, NoRequestIsOne DEF FairTo
<1> QED BY <1>3, <1>4, <1>5

LEMMA NobodyShaped ==
  ASSUME tokens' \in Seq(Tokens)
  PROVE  /\ NoRequest.pc \notin Makers /\ NoRequest.pc # "link" /\ Shaped(NoRequest, Len(tokens'))
         /\ NoRequest.pc \notin {"number", "insert"}
BY LenProperties, NoRequestIsOne DEF Makers

LEMMA GroupEditKept ==
  ASSUME AccInv, NEW to \in {"admin", "plain", "gone"}, GroupEdit(to), led' \in BOOLEAN
  PROVE  AccInv'
<1>1. RestTyped /\ TableTyped /\ TokensKept /\ ChargeHolds
  BY DEF AccInv
<1>2. UNCHANGED <<scenario, users, tokens, signedIn, linkRace>> /\ Meddles /\ reqs' = Append(reqs, NoRequest)
  BY DEF GroupEdit, Start
<1>3. PICK r : /\ Acts(r, NoRequest) /\ r \notin DOMAIN reqs /\ \A p \in DOMAIN reqs : reqs'[p] = reqs[p]
               /\ ProvisioningHolds(r)' /\ Waiting(r)' /\ \A t \in DOMAIN tokens : FairTo(r, NoRequest, t)
  BY <1>2, NewNobody
<1>4. TokensKept' /\ tokens' \in Seq(Tokens) /\ Len(tokens') >= Len(tokens)
  BY <1>1, <1>2, <1>3, EndsIdle
<1>5. TableTyped'
  BY <1>1, <1>2 DEF GroupEdit, TableTyped
<1>6. excused' \in BOOLEAN
  BY <1>1, <1>2 DEF Meddles, RestTyped, Creating, NoAccount, InCharge, IsAdmin
<1>7. \A n \in DOMAIN users' : n \in DOMAIN users /\ users'[n] = users[n]
  BY <1>2
<1>8. ChargeHolds'
  BY <1>1, <1>2, <1>3, <1>4, <1>7, NobodyShaped, ChargeMeddled
<1>9. \A p \in DOMAIN reqs \ {r} : reqs'[p] = reqs[p]
  BY <1>3
<1> QED BY <1>2, <1>3, <1>9, <1>4, <1>5, <1>6, <1>7, <1>8, NobodyShaped, StillKept

LEMMA DeleteKept ==
  ASSUME AccInv, NEW n \in DOMAIN users, AdminDelete(n), led' \in BOOLEAN
  PROVE  AccInv'
<1>1. RestTyped /\ TableTyped /\ TokensKept /\ ChargeHolds
  BY DEF AccInv
<1>2. /\ UNCHANGED <<scenario, sysadmins, signedIn, linkRace>> /\ Meddles /\ reqs' = Append(reqs, NoRequest)
      /\ users' = [o \in DOMAIN users \ {n} |-> users[o]] /\ admins' = admins \ {n} /\ tokens' = WithoutResets(n)
  BY DEF AdminDelete, Start
<1>3. PICK r : /\ Acts(r, NoRequest) /\ r \notin DOMAIN reqs /\ \A p \in DOMAIN reqs : reqs'[p] = reqs[p]
               /\ ProvisioningHolds(r)' /\ Waiting(r)' /\ \A t \in DOMAIN tokens : FairTo(r, NoRequest, t)
  BY <1>2, NewNobody
<1>4. /\ DOMAIN tokens' = DOMAIN tokens
      /\ \A t \in DOMAIN tokens : /\ tokens'[t] \in Tokens /\ tokens'[t].uses = tokens[t].uses
                                  /\ tokens'[t].excused = tokens[t].excused /\ (tokens[t].used => tokens'[t].used)
  <2> SUFFICES ASSUME NEW t \in DOMAIN tokens
               PROVE  /\ tokens'[t] \in Tokens /\ tokens'[t].uses = tokens[t].uses
                      /\ tokens'[t].excused = tokens[t].excused /\ (tokens[t].used => tokens'[t].used)
    BY <1>2 DEF WithoutResets
  <2>1. tokens[t] \in Tokens
    BY <1>1, ReqsTyped
  <2>2. tokens'[t] = tokens[t] \/ tokens'[t] = [tokens[t] EXCEPT !.used = TRUE]
    BY <1>2 DEF WithoutResets
  <2> QED BY <2>1, <2>2 DEF Tokens
<1>5. tokens' \in Seq(Tokens) /\ Len(tokens') = Len(tokens)
  <2>1. DOMAIN tokens = 1 .. Len(tokens) /\ Len(tokens) \in Nat
    BY <1>1, ReqsTyped
  <2>2. tokens' = [t \in DOMAIN tokens |-> tokens'[t]]
    BY <1>2 DEF WithoutResets
  <2>3. tokens' \in [1 .. Len(tokens) -> Tokens]
    BY <1>4, <2>1, <2>2
  <2>4. tokens' \in Seq(Tokens)
    BY <2>1, <2>3, SeqDef
  <2> QED BY <1>4, <2>1, <2>4, LenProperties
<1>6. TokensKept'
  <2> SUFFICES ASSUME NEW t \in DOMAIN tokens PROVE TokenHolds(t)'
    BY <1>4 DEF TokensKept
  <2> QED BY <1>1, <1>3, <1>4, TokenStays DEF TokensKept
<1>7. TableTyped'
  <2>1. IsFiniteSet(DOMAIN users \ {n})
    BY <1>1, FS_Subset DEF TableTyped
  <2>2. users' \in [DOMAIN users \ {n} -> Rows] /\ DOMAIN users' = DOMAIN users \ {n}
    BY <1>1, <1>2 DEF TableTyped
  <2> QED BY <1>1, <1>2, <2>1, <2>2 DEF TableTyped
<1>8. excused' \in BOOLEAN
  BY <1>1, <1>2 DEF Meddles, RestTyped, Creating, NoAccount, InCharge, IsAdmin
<1>9. \A o \in DOMAIN users' : o \in DOMAIN users /\ users'[o] = users[o]
  BY <1>2
<1>10. ChargeHolds'
  BY <1>1, <1>2, <1>3, <1>5, <1>9, NobodyShaped, ChargeMeddled
<1>11. Len(tokens') >= Len(tokens)
  BY <1>1, <1>5, ReqsTyped
<1>12. \A p \in DOMAIN reqs \ {r} : reqs'[p] = reqs[p]
  BY <1>3
<1> QED BY <1>12, <1>2, <1>3, <1>5, <1>6, <1>7, <1>8, <1>9, <1>10, <1>11, NobodyShaped, StillKept

\* An invitation, or a reset.
LEMMA IssueKept ==
  ASSUME AccInv, NEW sort \in {"invite", "reset"}, NEW for \in Mails \cup Nat, Issue(sort, for), Start(NoRequest),
         UNCHANGED <<users, sysadmins, admins, signedIn, excused, linkRace>>, led' \in BOOLEAN
  PROVE  AccInv'
<1>1. RestTyped /\ TokensKept /\ reqs' = Append(reqs, NoRequest) /\ scenario' = scenario
  BY DEF AccInv, Start
<1>2. PICK r : /\ Acts(r, NoRequest) /\ r \notin DOMAIN reqs /\ \A p \in DOMAIN reqs : reqs'[p] = reqs[p]
               /\ ProvisioningHolds(r)' /\ Waiting(r)' /\ \A t \in DOMAIN tokens : FairTo(r, NoRequest, t)
  BY <1>1, NewNobody
<1> DEFINE new == [kind |-> sort, for |-> for, used |-> FALSE, uses |-> 0, excused |-> FALSE]
<1>3. new \in Tokens /\ new.uses = 0
  BY DEF Tokens
<1>4. tokens' = Append(tokens, new) /\ tokens \in Seq(Tokens)
  BY <1>1 DEF Issue, RestTyped
<1> HIDE DEF new
<1>5. /\ tokens' \in Seq(Tokens) /\ Len(tokens') = Len(tokens) + 1
      /\ \A t \in 1 .. Len(tokens) : tokens'[t] = tokens[t]
      /\ tokens'[Len(tokens) + 1] = new
  BY ONLY <1>3, <1>4, AppendProperties
<1>6. Len(tokens) \in Nat /\ DOMAIN tokens = 1 .. Len(tokens) /\ DOMAIN tokens' = 1 .. Len(tokens) + 1
  BY <1>1, <1>5, ReqsTyped, LenProperties
<1>7. TokensKept'
  <2> SUFFICES ASSUME NEW t \in DOMAIN tokens' PROVE TokenHolds(t)'
    BY DEF TokensKept
  <2>1. CASE t = Len(tokens) + 1
    <3>1. tokens'[t].uses = 0
      BY <1>3, <1>5, <2>1
    <3> QED BY <3>1 DEF TokenHolds
  <2>2. CASE t # Len(tokens) + 1
    <3>1. t \in DOMAIN tokens
      BY <1>6, <2>2
    <3>2. tokens'[t] = tokens[t]
      BY <1>5, <1>6, <3>1
    <3> QED BY <1>1, <1>2, <3>1, <3>2, TokenStays DEF TokensKept
  <2> QED BY <2>1, <2>2
<1>8. excused' \in BOOLEAN /\ linkRace' \in BOOLEAN /\ signedIn' \subseteq Subjects \X Nat /\ Len(tokens') >= Len(tokens)
  BY <1>1, <1>5, <1>6 DEF RestTyped
<1>9. \A p \in DOMAIN reqs \ {r} : reqs'[p] = reqs[p]
  BY <1>2
<1> QED BY <1>1, <1>2, <1>5, <1>7, <1>8, <1>9, NobodyShaped, QuietKept

(* The requests that begin *)

LEMMA ScenarioBrings ==
  ASSUME RestTyped
  PROVE  scenario.mails \subseteq Mails /\ scenario.names \subseteq {0, 1}
BY ScenariosAssumption DEF RestTyped, Scenario

LEMMA RegisterKept ==
  ASSUME AccInv, NEW uid \in {0, 1}, NEW mail \in Mails, NEW t \in 0 .. Len(tokens), Register(uid, mail, t), led' \in BOOLEAN
  PROVE  AccInv'
<1> DEFINE to == IF t = 0 THEN "count" ELSE "validate"
           q == [NoRequest EXCEPT !.op = "register", !.uid = uid, !.mail = mail, !.token = t, !.pc = to]
<1>1. RestTyped /\ Len(tokens) \in Nat /\ t \in Nat /\ uid \in Nat
  BY ReqsTyped DEF AccInv
<1>2. reqs' = Append(reqs, q) /\ UNCHANGED <<scenario, users, sysadmins, admins, tokens, signedIn, excused, linkRace>>
  BY DEF Register, Start
<1>3. to \in {"count", "validate"} /\ (t # 0 => to = "validate") /\ (to = "validate" => t # 0)
  OBVIOUS
<1> HIDE DEF to
<1>4. q \in Requests /\ q.op = "register" /\ q.token = t /\ q.pc = to /\ q.tries = 0 /\ q.beaten = 0 /\ q.sub = None /\ q.self = FALSE
  BY <1>1, <1>3 DEF Requests, NoRequest, Pcs, Statuses
<1> HIDE DEF q
<1>5. Shaped(q, Len(tokens))
  BY <1>1, <1>3, <1>4 DEF Shaped, PcsOf
<1> QED BY <1>2, <1>3, <1>4, <1>5, ArrivesKept

LEMMA CreateKept ==
  ASSUME AccInv, NEW uid \in {0, 1}, NEW mail \in Mails, NEW status \in Statuses, NEW grp \in {"sys", "keep"},
         AdminCreate(uid, mail, status, grp), led' \in BOOLEAN
  PROVE  AccInv'
<1> DEFINE q == [NoRequest EXCEPT !.op = "create", !.pc = "number", !.uid = uid, !.mail = mail,
                              !.status = status, !.grp = grp]
<1>1. RestTyped /\ Len(tokens) \in Nat /\ uid \in Nat /\ grp \in {"keep", "sys", "plain"}
  BY ReqsTyped DEF AccInv
<1>2. reqs' = Append(reqs, q) /\ UNCHANGED <<scenario, users, sysadmins, admins, tokens, signedIn, excused, linkRace>>
  BY DEF AdminCreate, Start
<1>4. q \in Requests /\ q.op = "create" /\ q.token = 0 /\ q.pc = "number" /\ q.tries = 0 /\ q.beaten = 0 /\ q.sub = None /\ q.self = FALSE
  BY <1>1 DEF Requests, NoRequest, Pcs
<1> HIDE DEF q
<1>5. Shaped(q, Len(tokens))
  BY <1>1, <1>4 DEF Shaped, PcsOf
<1> QED BY <1>2, <1>4, <1>5, ArrivesKept

LEMMA CallbackKept ==
  ASSUME AccInv, NEW sub \in Subjects, NEW mail \in Mails, Callback(sub, mail), led' \in BOOLEAN
  PROVE  AccInv'
<1> DEFINE q == [NoRequest EXCEPT !.op = "oidc", !.pc = "findLink", !.sub = sub, !.mail = mail, !.status = "active"]
<1>1. RestTyped /\ Len(tokens) \in Nat
  BY ReqsTyped DEF AccInv
<1>2. reqs' = Append(reqs, q) /\ UNCHANGED <<scenario, users, sysadmins, admins, tokens, signedIn, excused, linkRace>>
  BY DEF Callback, Start
<1>4. q \in Requests /\ q.op = "oidc" /\ q.token = 0 /\ q.pc = "findLink" /\ q.tries = 0 /\ q.beaten = 0 /\ q.sub = sub
      /\ q.self = FALSE /\ q.status = "active"
  BY <1>1 DEF Requests, NoRequest, Pcs, Statuses
<1> HIDE DEF q
<1>5. Shaped(q, Len(tokens))
  BY <1>1, <1>4 DEF Shaped, PcsOf
<1> QED BY <1>2, <1>4, <1>5, ArrivesKept

LEMMA ResetKept ==
  ASSUME AccInv, NEW t \in DOMAIN tokens, ResetPassword(t), led' \in BOOLEAN
  PROVE  AccInv'
<1> DEFINE q == [NoRequest EXCEPT !.op = "reset", !.pc = "validate", !.token = t]
<1>1. RestTyped /\ Len(tokens) \in Nat /\ t \in Nat /\ t # 0 /\ t \in 0 .. Len(tokens)
  BY ReqsTyped DEF AccInv
<1>2. reqs' = Append(reqs, q) /\ UNCHANGED <<scenario, users, sysadmins, admins, tokens, signedIn, excused, linkRace>>
  BY DEF ResetPassword, Start
<1>4. q \in Requests /\ q.op = "reset" /\ q.token = t /\ q.pc = "validate" /\ q.tries = 0 /\ q.beaten = 0 /\ q.sub = None /\ q.self = FALSE
  BY <1>1 DEF Requests, NoRequest, Pcs, Statuses
<1> HIDE DEF q
<1>5. Shaped(q, Len(tokens))
  BY <1>1, <1>4 DEF Shaped, PcsOf
<1> QED BY <1>2, <1>4, <1>5, ArrivesKept

(* Writes to the table *)

\* A new account, or a collision.
LEMMA InsertKept ==
  ASSUME AccInv, NEW r \in DOMAIN reqs, InsertUser(r), UNCHANGED scenario, led' \in BOOLEAN
  PROVE  AccInv'
<1> DEFINE q == reqs[r]
           row == [uid |-> q.uid, mail |-> q.mail, status |-> q.status, link |-> q.sub, by |-> r, self |-> q.self]
<1>1. /\ q \in Requests /\ Shaped(q, Len(tokens)) /\ ProvisioningHolds(r) /\ RestTyped /\ TableTyped /\ TokensKept
      /\ excused \/ Waiting(r)
      /\ q.token # 0 => q.token \in DOMAIN tokens
      /\ q.pc = "insert" /\ q.op \in {"register", "create", "oidc"} /\ r \in Nat /\ r # 0
      /\ q.op # "register" => q.token = 0
  BY AtIts, WhoIsAt DEF InsertUser, At
<1>2. AllShaped /\ LinksHold /\ AllProvision /\ ChargeHolds
  BY DEF AccInv
<1>3. UNCHANGED <<sysadmins, admins, signedIn, linkRace>>
  BY DEF InsertUser
<1>4. CASE Collides(q.num, row)
  <2>1. UNCHANGED <<users, tokens, excused>> /\ (IF q.op = "oidc" THEN Goto(r, "raced") ELSE End(r))
    BY <1>4 DEF InsertUser
  <2>2. CASE q.op = "oidc"
    <3> DEFINE y == [q EXCEPT !.pc = "raced"]
    <3>1. reqs' = [reqs EXCEPT ![r] = y]
      BY <2>1, <2>2 DEF Goto
    <3>2. y \in Requests /\ y.pc = "raced" /\ y.token = q.token /\ y.op = q.op /\ y.sub = q.sub /\ y.self = q.self
          /\ y.tries = q.tries /\ y.beaten = q.beaten /\ y.status = q.status /\ y.mail = q.mail /\ y.mailTaken = q.mailTaken
      BY <1>1 DEF Requests, Pcs
    <3>3. q.beaten >= q.tries + 1 \/ q.mailTaken
      <4> SUFFICES ASSUME ~(q.beaten >= q.tries + 1), ~q.mailTaken PROVE FALSE
        OBVIOUS
      <4>1. LinkFree(r) /\ UidFree(r) /\ NumFree(r) /\ MailFree(r)
        BY <1>1, <2>2 DEF ProvisioningHolds
      <4> QED BY <1>4, <4>1 DEF Collides, LinkFree, UidFree, NumFree, MailFree
    <3> HIDE DEF y
    <3>4. reqs'[r] = y
      BY <3>1
    <3> HIDE DEF q
    <3>5. Shaped(y, Len(tokens)) /\ y.pc # "link"
      BY <1>1, <2>2, <3>2 DEF Shaped, PcsOf, CreatingPcs
    <3>8. q.pc \in Makers
      BY <1>1 DEF Makers
    <3>6. MailFree(r) => MailFree(r)'
      BY <2>1, <3>2, <3>4 DEF MailFree, q
    <3>7. ProvisioningHolds(r)' /\ Waiting(r)'
      BY <1>1, <2>2, <3>2, <3>3, <3>4, <3>6 DEF ProvisioningHolds, Waiting, q
    <3> QED BY <1>1, <1>3, <2>1, <3>1, <3>2, <3>5, <3>7, <3>8, GoesOn DEF q
  <2>3. CASE q.op # "oidc"
    <3>1. End(r)
      BY <2>1, <2>3
    <3>2. Acts(r, NoRequest)
      BY <1>1, <3>1, NoRequestIsOne, OneActs DEF End
    <3>3. TokensKept' /\ tokens' \in Seq(Tokens) /\ Len(tokens') >= Len(tokens)
      BY <1>1, <2>1, <3>2, EndsIdle
    <3>4. excused' \in BOOLEAN /\ linkRace' \in BOOLEAN /\ signedIn' \subseteq Subjects \X Nat
      BY <1>1, <1>3, <2>1 DEF RestTyped
    <3> QED BY <1>1, <1>3, <2>1, <3>1, <3>3, <3>4, EndKept
  <2> QED BY <2>2, <2>3
<1>5. CASE ~Collides(q.num, row)
  <2> DEFINE y == [q EXCEPT !.pc = "hook"]
             num == q.num
  <2>1. /\ users' = [n \in DOMAIN users \cup {num} |-> IF n = num THEN row ELSE users[n]]
        /\ reqs' = Beat([reqs EXCEPT ![r] = y], r, {q.mail})
        /\ tokens' = Honoured(r)
        /\ excused' = (excused \/ (q.op = "create" /\ NoAccount) \/ (\E p \in DOMAIN reqs \ {r} : Creating(p)))
    BY <1>5 DEF InsertUser
  <2>2. num \notin DOMAIN users /\ \A n \in DOMAIN users : row.link # None => users[n].link # row.link
    BY <1>5 DEF Collides
  <2>3. row \in Rows /\ num \in Nat /\ row.by = r /\ row.link = q.sub /\ row.mail = q.mail /\ row.status = q.status /\ row.self = q.self
    BY <1>1, RequestFields DEF Rows
  <2>4. y \in Requests /\ y.pc = "hook" /\ y.token = q.token /\ y.op = q.op /\ y.sub = q.sub /\ y.self = q.self /\ y.num = num
        /\ y.tries = q.tries /\ y.beaten = q.beaten /\ y.status = q.status
    BY <1>1 DEF Requests, Pcs
  <2> HIDE DEF y, row, q
  <2>5. Acts(r, y) /\ DOMAIN reqs' = DOMAIN reqs /\ \A p \in DOMAIN reqs \ {r} : Beaten(p, {q.mail})
    BY <1>1, <2>1, <2>4, BeatActs
  <2>6. /\ DOMAIN users' = DOMAIN users \cup {num} /\ users'[num] = row
        /\ \A n \in DOMAIN users : users'[n] = users[n] /\ n # num
    BY <2>1, <2>2
  <2>7. TableTyped'
    <3>1. IsFiniteSet(DOMAIN users \cup {num})
      BY <1>1, FS_AddElement DEF TableTyped
    <3>2. \A n \in DOMAIN users \cup {num} : (IF n = num THEN row ELSE users[n]) \in Rows
      BY <1>1, <2>3 DEF TableTyped
    <3>3. users' \in [DOMAIN users \cup {num} -> Rows]
      BY <2>1, <3>2
    <3> QED BY <1>1, <1>3, <2>3, <2>6, <3>1, <3>3 DEF TableTyped
  <2>8. TokensKept' /\ tokens' \in Seq(Tokens) /\ Len(tokens') = Len(tokens)
    BY <1>1, <2>1, <2>4, <2>5, HonouredKept DEF q
  <2>9. RestTyped'
    <3>1. excused' \in BOOLEAN
      BY <1>1, <2>1 DEF RestTyped, NoAccount, Creating
    <3> QED BY <1>1, <1>3, <2>5, <2>8, <3>1 DEF RestTyped, Acts
  <2>10. AllShaped'
    <3>1. Shaped(y, Len(tokens'))
      BY <1>1, <2>4, <2>8 DEF Shaped, PcsOf, CreatingPcs
    <3>2. Len(tokens') \in Nat /\ Len(tokens') >= Len(tokens)
      BY <1>1, <2>8, ReqsTyped
    <3> QED BY <1>1, <1>2, <2>5, <3>1, <3>2, StillShaped
  <2>11. LinksHold'
    <3>1. MayMake(r) /\ ~MayMake(r)'
      <4>1. reqs'[r] = y /\ r \in DOMAIN reqs'
        BY <2>5, ActedFields
      <4> QED BY <1>1, <2>4, <4>1 DEF MayMake, q
    <3>2. \A p : MayMake(p)' => MayMake(p) /\ p # r
      <4> SUFFICES ASSUME NEW p, MayMake(p)' PROVE MayMake(p) /\ p # r
        OBVIOUS
      <4>1. y.pc \notin Makers
        BY <2>4 DEF Makers
      <4>2. MayMake(p)
        BY <2>5, <4>1, MakersShrink
      <4>3. p # r
        BY <3>1
      <4> QED BY <4>2, <4>3
    <3>3. \A x : (x # 0 /\ (x \in DOMAIN reqs' => reqs'[x].pc \in Makers)) => MayMake(x) /\ x # r
      BY <3>2 DEF MayMake, Makers
    <3>4. (\A n \in DOMAIN users : ~MayMake(users[n].by))'
      <4> SUFFICES ASSUME NEW n \in DOMAIN users', MayMake(users[n].by)' PROVE FALSE
        OBVIOUS
      <4>1. MayMake(users'[n].by) /\ users'[n].by # r
        BY <3>3 DEF MayMake, Makers
      <4>2. n # num
        BY <2>3, <2>6, <4>1
      <4>3. n \in DOMAIN users /\ users'[n] = users[n]
        BY <2>6, <4>2
      <4> QED BY <1>2, <4>1, <4>3 DEF LinksHold
    <3>5. (\A s \in signedIn : ~MayMake(s[2]))'
      BY <1>2, <1>3, <3>2 DEF LinksHold
    <3>6. (\A p \in DOMAIN reqs : At(p, "link") => ~MayMake(reqs[p].by))'
      <4> SUFFICES ASSUME NEW p \in DOMAIN reqs', At(p, "link")', MayMake(reqs[p].by)' PROVE FALSE
        OBVIOUS
      <4>1. MayMake(reqs'[p].by)
        BY <3>3 DEF MayMake, Makers
      <4>2. p # r
        <5>1. reqs'[r] = y
          BY <2>5, ActedFields
        <5>2. reqs'[p].pc = "link"
          BY DEF At
        <5> QED BY <2>4, <5>1, <5>2
      <4>3. p \in DOMAIN reqs /\ Same(p)
        BY <2>5, <4>2, OthersAct
      <4> QED BY <1>2, <4>1, <4>3 DEF LinksHold, At, Same
    <3>7. \A n \in DOMAIN users : users[n].by # r
      BY <1>2, <3>1 DEF LinksHold
    <3>8. (\A n, m \in DOMAIN users : n # m => /\ users[n].by # users[m].by
                                               /\ users[n].link = users[m].link => users[n].link = None)'
      <4> SUFFICES ASSUME NEW n \in DOMAIN users', NEW m \in DOMAIN users', n # m
                   PROVE  /\ users'[n].by # users'[m].by
                          /\ users'[n].link = users'[m].link => users'[n].link = None
        OBVIOUS
      <4>1. CASE n = num
        <5>1. m \in DOMAIN users /\ users'[m] = users[m]
          BY <2>6, <4>1
        <5> QED BY <2>2, <2>3, <2>6, <3>7, <4>1, <5>1
      <4>2. CASE m = num
        <5>1. n \in DOMAIN users /\ users'[n] = users[n]
          BY <2>6, <4>2
        <5> QED BY <2>2, <2>3, <2>6, <3>7, <4>2, <5>1
      <4>3. CASE n # num /\ m # num
        <5>1. m \in DOMAIN users /\ users'[m] = users[m] /\ n \in DOMAIN users /\ users'[n] = users[n]
          BY <2>6, <4>3
        <5> QED BY <1>2, <5>1 DEF LinksHold
      <4> QED BY <4>1, <4>2, <4>3
    <3>9. \A s \in signedIn : s[2] # r
      BY <1>2, <3>1 DEF LinksHold
    <3>10. (linkRace \/ \A s \in signedIn, n \in DOMAIN users : users[n].by = s[2] => users[n].link = s[1])'
      <4> SUFFICES ASSUME ~linkRace, NEW s \in signedIn, NEW n \in DOMAIN users', users'[n].by = s[2]
                   PROVE  users'[n].link = s[1]
        BY <1>3
      <4>1. n # num
        BY <2>3, <2>6, <3>9
      <4>2. n \in DOMAIN users /\ users'[n] = users[n]
        BY <2>6, <4>1
      <4> QED BY <1>2, <4>2 DEF LinksHold
    <3> QED BY <3>4, <3>5, <3>6, <3>8, <3>10 DEF LinksHold
  <2>12. AllProvision'
    <3>1. \A n \in DOMAIN users' : users'[n].mail \in {q.mail} \/ (n \in DOMAIN users /\ users'[n].mail = users[n].mail)
      BY <2>3, <2>6
    <3>2. reqs'[r] = y
      BY <2>5, ActedFields
    <3>3. ProvisioningHolds(r)'
      BY <1>1, <2>4, <3>2 DEF ProvisioningHolds, q
    <3> QED BY <1>1, <1>2, <2>5, <3>1, <3>3, ProvisionBeaten
  <2>13. ChargeHolds'
    <3> SUFFICES ASSUME ~excused' PROVE ChargeHolds'
      BY DEF ChargeHolds
    <3>1. ~excused /\ ~(q.op = "create" /\ NoAccount) /\ (\A p \in DOMAIN reqs \ {r} : ~Creating(p)) /\ Somebody
          /\ sysadmins = "admin" /\ Waiting(r)
      BY <1>1, <1>2, <2>1 DEF ChargeHolds
    <3>2. reqs'[r] = y /\ r \in DOMAIN reqs'
      BY <2>5, ActedFields
    <3>3. q.op = "register" => (NoAccount => q.status = "active") /\ (q.self /\ q.status = "active" => NoAccount)
      BY <1>1, <3>1 DEF Waiting, q
    <3>4. Somebody'
      <4>1. CASE NoAccount
        <5>1. q.status = "active"
          BY <1>1, <3>1, <3>3, <4>1 DEF Shaped, CreatingPcs
        <5>2. DOMAIN users' = {y.num} /\ users'[y.num].status = "active"
          BY <2>3, <2>4, <2>6, <4>1, <5>1 DEF NoAccount
        <5> QED BY <2>4, <3>2, <5>2 DEF Somebody, At
      <4>2. CASE InCharge
        <5>1. InCharge'
          BY <1>3, <2>6, <4>2 DEF InCharge, IsAdmin
        <5> QED BY <5>1 DEF Somebody
      <4>3. \A p \in DOMAIN reqs : ~At(p, "hook")
        BY <1>1, <3>1 DEF At, Creating, CreatingPcs, q
      <4> QED BY <3>1, <4>1, <4>2, <4>3 DEF Somebody
    <3>5. \A p \in DOMAIN reqs' : Waiting(p)'
      <4> SUFFICES ASSUME NEW p \in DOMAIN reqs', reqs'[p].pc \in {"number", "insert"} PROVE FALSE
        BY DEF Waiting
      <4>1. p # r
        BY <2>4, <3>2
      <4>2. p \in DOMAIN reqs /\ Same(p)
        BY <2>5, <4>1, OthersAct
      <4> QED BY <3>1, <4>1, <4>2 DEF Same, Creating, CreatingPcs
    <3>6. ASSUME NEW n \in DOMAIN users', NEW m \in DOMAIN users', users'[n].self, users'[n].status = "active",
                 users'[m].self, users'[m].status = "active"
          PROVE  n = m
      <4>1. q.self => q.op = "register"
        BY <1>1 DEF Shaped
      <4>2. CASE n = num \/ m = num
        <5>1. NoAccount
          BY <2>3, <2>6, <3>3, <3>6, <4>1, <4>2
        <5> QED BY <2>6, <5>1 DEF NoAccount
      <4>3. CASE n # num /\ m # num
        <5>1. m \in DOMAIN users /\ users'[m] = users[m] /\ n \in DOMAIN users /\ users'[n] = users[n]
          BY <2>6, <4>3
        <5> QED BY <1>2, <3>1, <3>6, <5>1 DEF ChargeHolds
      <4> QED BY <4>2, <4>3
    <3> QED BY <1>3, <3>1, <3>4, <3>5, <3>6 DEF ChargeHolds
  <2> QED BY <2>7, <2>8, <2>9, <2>10, <2>11, <2>12, <2>13 DEF AccInv
<1> QED BY <1>4, <1>5

\* An identity is saved in a row, whoever has written it meanwhile.
LEMMA SaveKept ==
  ASSUME AccInv, NEW r \in DOMAIN reqs, SaveLink(r), UNCHANGED scenario, led' \in BOOLEAN
  PROVE  AccInv'
<1> DEFINE q == reqs[r]
           num == q.num
           there == num \in DOMAIN users
           taken == there /\ LinkedTo(q.sub) \ {num} # {}
           saved == there /\ ~taken
           added == IF ~taken /\ q.status = "active" THEN {<<q.sub, q.by>>} ELSE {}
<1>1. /\ q \in Requests /\ Shaped(q, Len(tokens)) /\ RestTyped /\ TableTyped /\ TokensKept
      /\ q.pc = "link" /\ q.op = "oidc" /\ q.token = 0 /\ q.sub \in Subjects /\ q.by \in Nat
  BY AtIts, WhoIsAt, RequestFields DEF SaveLink, At, Shaped
<1>2. AllShaped /\ LinksHold /\ AllProvision /\ ChargeHolds
  BY DEF AccInv
<1>3. /\ users' = IF saved THEN [users EXCEPT ![num].link = q.sub] ELSE users
      /\ signedIn' = signedIn \cup added
      /\ linkRace' = (linkRace \/ ~there \/ users[num].by # q.by \/ users[num].link \notin {None, q.sub})
      /\ reqs' = Beat([reqs EXCEPT ![r] = NoRequest], r, {})
      /\ UNCHANGED <<sysadmins, admins, tokens, excused>>
  BY DEF SaveLink
<1>4. Acts(r, NoRequest) /\ DOMAIN reqs' = DOMAIN reqs /\ \A p \in DOMAIN reqs \ {r} : Beaten(p, {})
  BY <1>1, <1>3, NoRequestIsOne, BeatActs
<1>5. /\ DOMAIN users' = DOMAIN users
      /\ \A n \in DOMAIN users : /\ users'[n] \in Rows /\ users'[n].by = users[n].by /\ users'[n].mail = users[n].mail
                                 /\ users'[n].status = users[n].status /\ users'[n].self = users[n].self
                                 /\ users'[n].link = IF saved /\ n = num THEN q.sub ELSE users[n].link
  <2> HIDE DEF q, num
  <2>1. CASE saved
    <3> DEFINE row == [users[num] EXCEPT !.link = q.sub]
    <3>1. users' = [users EXCEPT ![num] = row] /\ num \in DOMAIN users
      BY <1>3, <2>1
    <3>2. users[num] \in Rows
      BY <1>1, <3>1 DEF TableTyped
    <3>3. row \in Rows /\ row.by = users[num].by /\ row.mail = users[num].mail /\ row.status = users[num].status
          /\ row.self = users[num].self /\ row.link = q.sub
      BY <1>1, <3>2 DEF Rows
    <3> HIDE DEF row
    <3>4. DOMAIN users' = DOMAIN users /\ users'[num] = row /\ \A n \in DOMAIN users \ {num} : users'[n] = users[n]
      BY <3>1
    <3>5. \A n \in DOMAIN users : users[n] \in Rows
      BY <1>1 DEF TableTyped
    <3> HIDE DEF saved
    <3> QED BY <2>1, <3>3, <3>4, <3>5
  <2>2. CASE ~saved
    <3>1. users' = users
      BY <1>3, <2>2
    <3> HIDE DEF saved
    <3> QED BY <1>1, <2>2, <3>1 DEF TableTyped
  <2> QED BY <2>1, <2>2
<1>6. saved => \A m \in DOMAIN users \ {num} : users[m].link # q.sub
  BY DEF LinkedTo
<1>7. added \subseteq {<<q.sub, q.by>>} /\ (added # {} => ~taken)
  OBVIOUS
<1>8. linkRace' \in BOOLEAN /\ (linkRace => linkRace')
      /\ (~linkRace' => there /\ users[num].by = q.by /\ (users[num].link = None \/ users[num].link = q.sub))
  BY <1>1, <1>3 DEF RestTyped
<1>9. ~MayMake(q.by)
  BY <1>1, <1>2 DEF LinksHold, At
<1> HIDE DEF added
<1>10. TableTyped'
  <2>1. users' \in [DOMAIN users -> Rows]
    <3>1. users' = [n \in DOMAIN users |-> users'[n]]
      BY <1>1, <1>3 DEF TableTyped
    <3> HIDE DEF saved
    <3> QED BY <1>5, <3>1
  <2> HIDE DEF saved
  <2> QED BY <1>1, <1>3, <1>5, <2>1 DEF TableTyped
<1>11. RestTyped'
  <2>1. signedIn' \subseteq Subjects \X Nat
    BY <1>1, <1>3, <1>7 DEF RestTyped
  <2> QED BY <1>1, <1>3, <1>4, <1>8, <2>1 DEF RestTyped, Acts
<1>12. AllShaped'
  <2>1. Len(tokens') \in Nat /\ Len(tokens') >= Len(tokens)
    BY <1>1, <1>3, ReqsTyped
  <2> QED BY <1>1, <1>2, <1>4, <2>1, NoRequestIsOne, StillShaped
<1>13. TokensKept'
  BY <1>1, <1>3, <1>4, EndsIdle
<1>14. reqs'[r] = NoRequest
  BY <1>4, ActedFields
<1>15. AllProvision'
  <2>1. \A n \in DOMAIN users' : users'[n].mail \in {} \/ (n \in DOMAIN users /\ users'[n].mail = users[n].mail)
    BY <1>5
  <2>2. ProvisioningHolds(r)'
    BY <1>14, NobodyIsFine
  <2> QED BY <1>1, <1>2, <1>4, <2>1, <2>2, ProvisionBeaten
<1>16. ChargeHolds'
  <2>1. Waiting(r)'
    BY <1>14, NobodyIsFine
  <2>2. \A n \in DOMAIN users : users'[n].status = users[n].status /\ users'[n].self = users[n].self
    BY <1>5
  <2>3. excused => excused'
    BY <1>3
  <2>4. reqs[r].pc # "hook" /\ DOMAIN users' = DOMAIN users /\ sysadmins' = sysadmins /\ admins' = admins
    BY <1>1, <1>3, <1>5
  <2> QED BY <1>1, <1>2, <1>4, <2>1, <2>2, <2>3, <2>4, ChargeQuiet
<1>17. LinksHold'
  <2>1. \A p : MayMake(p)' => MayMake(p)
    <3> SUFFICES ASSUME NEW p, MayMake(p)' PROVE MayMake(p)
      OBVIOUS
    <3>1. NoRequest.pc \notin Makers
      BY NoRequestIsOne DEF Makers
    <3> QED BY <1>4, <3>1, MakersShrink
  <2>2. \A x : (x # 0 /\ (x \in DOMAIN reqs' => reqs'[x].pc \in Makers)) => MayMake(x)
    BY <2>1 DEF MayMake, Makers
  <2>3. (\A n \in DOMAIN users : ~MayMake(users[n].by))'
    <3> SUFFICES ASSUME NEW n \in DOMAIN users', MayMake(users[n].by)' PROVE FALSE
      OBVIOUS
    <3>1. MayMake(users'[n].by)
      BY <2>2 DEF MayMake, Makers
    <3>2. n \in DOMAIN users /\ users'[n].by = users[n].by
      BY <1>5
    <3> QED BY <1>2, <3>1, <3>2 DEF LinksHold
  <2>4. (\A s \in signedIn : ~MayMake(s[2]))'
    <3>1. \A s \in signedIn' : ~MayMake(s[2])
      BY <1>2, <1>3, <1>7, <1>9 DEF LinksHold
    <3> QED BY <2>1, <3>1
  <2>5. (\A p \in DOMAIN reqs : At(p, "link") => ~MayMake(reqs[p].by))'
    <3> SUFFICES ASSUME NEW p \in DOMAIN reqs', At(p, "link")', MayMake(reqs[p].by)' PROVE FALSE
      OBVIOUS
    <3>1. MayMake(reqs'[p].by)
      BY <2>2 DEF MayMake, Makers
    <3>2. p # r
      <4>1. reqs'[p].pc = "link"
        BY DEF At
      <4> QED BY <1>14, <4>1, NoRequestIsOne
    <3>3. p \in DOMAIN reqs /\ Same(p)
      BY <1>4, <3>2, OthersAct
    <3> QED BY <1>2, <3>1, <3>3 DEF LinksHold, At, Same
  <2>6. (\A n, m \in DOMAIN users : n # m => /\ users[n].by # users[m].by
                                             /\ users[n].link = users[m].link => users[n].link = None)'
    <3> HIDE DEF q, num, saved
    <3> SUFFICES ASSUME NEW n \in DOMAIN users, NEW m \in DOMAIN users, n # m
                 PROVE  /\ users'[n].by # users'[m].by
                        /\ users'[n].link = users'[m].link => users'[n].link = None
      BY <1>5
    <3>1. /\ users[n].by # users[m].by
          /\ users[n].link = users[m].link => users[n].link = None
      BY <1>2 DEF LinksHold
    <3>2. users'[n].link = IF saved /\ n = num THEN q.sub ELSE users[n].link
      BY <1>5
    <3>3. users'[m].link = IF saved /\ m = num THEN q.sub ELSE users[m].link
      BY <1>5
    <3> QED BY <1>5, <1>6, <3>1, <3>2, <3>3
  <2>7. (linkRace \/ \A s \in signedIn, n \in DOMAIN users : users[n].by = s[2] => users[n].link = s[1])'
    <3> SUFFICES ASSUME ~linkRace', NEW s \in signedIn', NEW n \in DOMAIN users', users'[n].by = s[2]
                 PROVE  users'[n].link = s[1]
      OBVIOUS
    <3>1. there /\ users[num].by = q.by /\ (users[num].link = None \/ users[num].link = q.sub) /\ ~linkRace
      BY <1>8
    <3>2. n \in DOMAIN users /\ users[n].by = s[2] /\ users'[n].link = IF saved /\ n = num THEN q.sub ELSE users[n].link
      BY <1>5
    <3>3. CASE s \in signedIn
      <4>1. users[n].link = s[1] /\ s[1] \in Subjects
        BY <1>1, <1>2, <3>1, <3>2, <3>3 DEF LinksHold, RestTyped
      <4>2. s[1] # None
        BY <4>1, NoneIsNobody
      <4> HIDE DEF q, num, saved
      <4> QED BY <3>1, <3>2, <4>1, <4>2
    <3>4. CASE s \in added
      <4>1. s[1] = q.sub /\ s[2] = q.by /\ ~taken
        BY <1>7, <3>4
      <4>2. n = num
        BY <1>2, <3>1, <3>2, <4>1 DEF LinksHold
      <4> QED BY <3>1, <3>2, <4>1, <4>2
    <3> QED BY <1>3, <3>3, <3>4
  <2> QED BY <2>3, <2>4, <2>5, <2>6, <2>7 DEF LinksHold
<1> QED BY <1>10, <1>11, <1>12, <1>13, <1>15, <1>16, <1>17 DEF AccInv

\* What an administrator may write, and with which groups.
Edit(field, value, grp) ==
  \/ field = "mail" /\ value \in Mails /\ grp = "keep"
  \/ field = "uid" /\ value \in Nat /\ grp = "keep"
  \/ field = "status" /\ value \in Statuses /\ grp \in {"keep", "sys", "plain"}

LEMMA EditKept ==
  ASSUME AccInv, NEW n \in DOMAIN users, NEW field, NEW value, NEW grp, Edit(field, value, grp),
         AdminEdit(n, field, value, grp), led' \in BOOLEAN
  PROVE  AccInv'
<1> DEFINE row == [users[n] EXCEPT ![field] = value]
           new == [row EXCEPT !.self = FALSE]
           q == IF grp = "keep" THEN NoRequest
                ELSE [NoRequest EXCEPT !.op = "edit", !.pc = "groups", !.num = n, !.grp = grp]
           mails == {row.mail}
<1>1. RestTyped /\ TableTyped /\ TokensKept /\ AllShaped /\ LinksHold /\ AllProvision /\ ChargeHolds
  BY DEF AccInv
<1>2. /\ users' = [users EXCEPT ![n] = new]
      /\ reqs' = [p \in DOMAIN Append(reqs, q) |-> IF p \in DOMAIN reqs THEN Beat(reqs, 0, mails)[p] ELSE Append(reqs, q)[p]]
      /\ UNCHANGED <<scenario, sysadmins, admins, tokens, signedIn, linkRace>> /\ Meddles
  BY DEF AdminEdit
<1>3. users[n] \in Rows /\ n \in Nat
  BY <1>1 DEF TableTyped
<1>4. new \in Rows /\ new.self = FALSE /\ new.by = users[n].by /\ new.link = users[n].link /\ new.mail = row.mail
  <2>1. CASE field = "mail" /\ value \in Mails
    BY <1>3, <2>1 DEF Rows
  <2>2. CASE field = "uid" /\ value \in Nat
    BY <1>3, <2>2 DEF Rows
  <2>3. CASE field = "status" /\ value \in Statuses
    BY <1>3, <2>3 DEF Rows
  <2> QED BY <2>1, <2>2, <2>3 DEF Edit
<1> HIDE DEF new, row
<1>5. /\ q \in Requests /\ q.token = 0 /\ q.pc \in {"done", "groups"} /\ q.tries = 0 /\ q.beaten = 0
      /\ \A k \in Nat : Shaped(q, k)
  <2>1. CASE grp = "keep"
    BY <2>1, NoRequestIsOne
  <2>2. CASE grp # "keep"
    <3> DEFINE y == [NoRequest EXCEPT !.op = "edit", !.pc = "groups", !.num = n, !.grp = grp]
    <3>1. grp \in {"keep", "sys", "plain"}
      BY DEF Edit
    <3>2. y \in Requests /\ y.op = "edit" /\ y.pc = "groups" /\ y.token = 0 /\ y.sub = None /\ y.self = FALSE /\ y.tries = 0 /\ y.beaten = 0
      BY <1>3, <3>1 DEF Requests, NoRequest, Pcs, Statuses
    <3> HIDE DEF y
    <3>3. \A k \in Nat : Shaped(y, k)
      BY <3>2 DEF Shaped, PcsOf
    <3> QED BY <2>2, <3>2, <3>3 DEF y
  <2> QED BY <2>1, <2>2
<1> HIDE DEF q
<1>6. PICK r : r = Len(reqs) + 1
  OBVIOUS
<1>7. Acts(r, q) /\ r \notin DOMAIN reqs /\ \A p \in DOMAIN reqs \ {r} : Beaten(p, mails)
  BY <1>1, <1>2, <1>5, <1>6, EditActs
<1>8. /\ DOMAIN users' = DOMAIN users /\ users'[n] = new
      /\ \A o \in DOMAIN users \ {n} : users'[o] = users[o]
  BY <1>2
<1>9. TableTyped'
  <2>1. users' \in [DOMAIN users -> Rows]
    BY <1>1, <1>2, <1>4 DEF TableTyped
  <2> QED BY <1>1, <1>2, <1>8, <2>1 DEF TableTyped
<1>10. RestTyped'
  <2>1. excused' \in BOOLEAN
    BY <1>1, <1>2 DEF Meddles, RestTyped, Creating, NoAccount, InCharge, IsAdmin
  <2> QED BY <1>1, <1>2, <1>7, <2>1 DEF RestTyped, Acts
<1>11. AllShaped'
  <2>1. Len(tokens') \in Nat /\ Len(tokens') >= Len(tokens)
    BY <1>1, <1>2, ReqsTyped
  <2> QED BY <1>1, <1>5, <1>7, <2>1, StillShaped
<1>12. TokensKept'
  <2>1. \A t \in DOMAIN tokens : FairTo(r, q, t)
    BY <1>1, <1>5, <1>7, ReqsTyped DEF FairTo
  <2> QED BY <1>1, <1>2, <1>7, <2>1, TokensStay
<1>13. reqs'[r] = q
  BY <1>7, ActedFields
<1>14. AllProvision'
  <2>1. \A o \in DOMAIN users' : users'[o].mail \in mails \/ (o \in DOMAIN users /\ users'[o].mail = users[o].mail)
    BY <1>4, <1>8
  <2>2. ProvisioningHolds(r)'
    <3>1. ATTEMPTS \in Nat /\ ATTEMPTS > 0
      BY AttemptsPositive
    <3> QED BY <1>5, <1>13, <3>1 DEF ProvisioningHolds
  <2> HIDE DEF mails
  <2> QED BY <1>1, <1>7, <2>1, <2>2, ProvisionBeaten
<1>15. ChargeHolds'
  <2>1. \A o \in DOMAIN users' : users'[o].self => o \in DOMAIN users /\ users'[o] = users[o]
    BY <1>4, <1>8
  <2>2. q.pc \notin {"number", "insert"}
    BY <1>5
  <2> QED BY <1>1, <1>2, <1>7, <2>1, <2>2, ChargeMeddled
<1>16. LinksHold'
  <2>1. \A o \in DOMAIN users' : o \in DOMAIN users /\ users'[o].by = users[o].by /\ users'[o].link = users[o].link
    BY <1>4, <1>8
  <2>2. q.pc # "link" /\ (linkRace => linkRace') /\ \A s \in signedIn' : s \in signedIn \/ InAs(s)
    BY <1>2, <1>5
  <2> QED BY <1>1, <1>7, <2>1, <2>2, LinksIf
<1> QED BY <1>9, <1>10, <1>11, <1>12, <1>14, <1>15, <1>16 DEF AccInv

(* The invariant, and what follows from it *)

LEMMA AccInvInit ==
  ASSUME AccInit
  PROVE  AccInv
<1> DEFINE S == IF scenario.founded THEN {FirstNumber} ELSE {}
<1>1. scenario \in Scenarios /\ users = [n \in S |-> Founder]
      /\ admins = DOMAIN users /\ sysadmins = "admin" /\ tokens = << >> /\ reqs = << >> /\ signedIn = {}
      /\ excused = FALSE /\ linkRace = FALSE /\ led = InCharge
  BY DEF AccInit
<1>2. FirstNumber \in Nat /\ S \subseteq {FirstNumber}
  BY DEF FirstNumber
<1>3. Founder \in Rows /\ Founder.by = 0 /\ Founder.status = "active" /\ Founder.self = FALSE
  BY BoundsAreNumbers DEF Founder, Rows, Statuses
<1> HIDE DEF S
<1>4. DOMAIN users = S /\ \A n \in S : users[n] = Founder
  BY <1>1
<1>5. DOMAIN reqs = {} /\ DOMAIN tokens = {} /\ tokens \in Seq(Tokens) /\ reqs \in Seq(Requests)
  BY <1>1
<1>6. TableTyped
  <2>1. IsFiniteSet(S)
    BY <1>2, FS_Singleton, FS_Subset
  <2> QED BY <1>1, <1>2, <1>3, <1>4, <2>1 DEF TableTyped
<1>7. RestTyped
  BY <1>1, <1>5 DEF RestTyped, InCharge
<1>8. AllShaped /\ AllProvision /\ TokensKept
  BY <1>5 DEF AllShaped, AllProvision, TokensKept
<1>9. LinksHold
  <2>1. \A n, m \in S : n = m
    BY <1>2
  <2> QED BY <1>1, <1>3, <1>4, <1>5, <2>1 DEF LinksHold, MayMake
<1>10. ChargeHolds
  <2>1. Somebody
    <3>1. CASE S = {}
      BY <1>4, <3>1 DEF Somebody, NoAccount
    <3>2. CASE S # {}
      <4>1. InCharge
        BY <1>1, <1>3, <1>4, <3>2 DEF InCharge, IsAdmin
      <4> QED BY <4>1 DEF Somebody
    <3> QED BY <3>1, <3>2
  <2> QED BY <1>1, <1>3, <1>4, <1>5, <2>1 DEF ChargeHolds
<1> QED BY <1>6, <1>7, <1>8, <1>9, <1>10 DEF AccInv

LEMMA AccInvStep ==
  ASSUME AccInv, [AccNext]_accVars
  PROVE  AccInv'
<1>1. CASE UNCHANGED accVars
  <2>1. UNCHANGED <<scenario, users, sysadmins, admins, tokens, reqs, signedIn, excused, linkRace, led>>
    BY <1>1 DEF accVars
  <2> USE <2>1 DEF AccInv
  <2>2. TableTyped' /\ RestTyped' /\ AllShaped'
    BY DEF TableTyped, RestTyped, AllShaped
  <2>3. LinksHold'
    BY DEF LinksHold, MayMake, At
  <2>4. AllProvision'
    BY DEF AllProvision, ProvisioningHolds, LinkFree, MailFree, UidFree, NumFree
  <2>5. TokensKept'
    BY DEF TokensKept, TokenHolds, TokenHolders, At
  <2>6. ChargeHolds'
    BY DEF ChargeHolds, Somebody, Waiting, NoAccount, InCharge, IsAdmin, At
  <2> QED BY <2>2, <2>3, <2>4, <2>5, <2>6
<1>2. CASE AccNext
  <2>1. led' \in BOOLEAN
    <3>1. led' = (led \/ InCharge') /\ led \in BOOLEAN
      BY <1>2 DEF AccNext, AccInv, RestTyped
    <3> QED BY <3>1 DEF InCharge
  <2>2. RestTyped /\ TableTyped
    BY DEF AccInv
  <2>3. ASSUME Visitors PROVE AccInv'
    <3>1. PICK mail \in scenario.mails :
            \/ \E uid \in scenario.names, t \in 0 .. Len(tokens) : Register(uid, mail, t)
            \/ \E sub \in Subjects : Callback(sub, mail)
      BY <2>3 DEF Visitors
    <3>2. mail \in Mails /\ scenario.names \subseteq {0, 1}
      BY <2>2, ScenarioBrings
    <3> QED BY <2>1, <3>1, <3>2, RegisterKept, CallbackKept
  <2>4. ASSUME Administrators PROVE AccInv'
    <3>1. ASSUME NEW uid \in scenario.names, NEW mail \in Mails,
                 NEW p \in {<<"active", "sys">>, <<"pending", "keep">>}, AdminCreate(uid, mail, p[1], p[2])
          PROVE  AccInv'
      <4>1. uid \in {0, 1} /\ p[1] \in Statuses /\ p[2] \in {"sys", "keep"}
        BY <2>2, ScenarioBrings DEF Statuses
      <4> QED BY <2>1, <3>1, <4>1, CreateKept
    <3>2. ASSUME NEW n \in DOMAIN users, Edits(n) PROVE AccInv'
      <4>1. ASSUME NEW mail \in Mails, AdminEdit(n, "mail", mail, "keep") PROVE AccInv'
        <5>1. Edit("mail", mail, "keep")
          BY DEF Edit
        <5> QED BY <2>1, <4>1, <5>1, EditKept
      <4>2. ASSUME NEW uid \in scenario.names, AdminEdit(n, "uid", uid, "keep") PROVE AccInv'
        <5>1. Edit("uid", uid, "keep")
          BY <2>2, ScenarioBrings DEF Edit
        <5> QED BY <2>1, <4>2, <5>1, EditKept
      <4>3. ASSUME NEW p \in {<<"active", "keep">>, <<"active", "sys">>, <<"disabled", "plain">>},
                   AdminEdit(n, "status", p[1], p[2])
            PROVE  AccInv'
        <5>1. Edit("status", p[1], p[2])
          BY DEF Edit, Statuses
        <5> QED BY <2>1, <4>3, <5>1, EditKept
      <4> QED BY <3>2, <4>1, <4>2, <4>3 DEF Edits
    <3>3. ASSUME NEW n \in DOMAIN users, AdminDelete(n) PROVE AccInv'
      BY <2>1, <3>3, DeleteKept
    <3>4. ASSUME NEW to \in {"admin", "plain", "gone"}, GroupEdit(to) PROVE AccInv'
      BY <2>1, <3>4, GroupEditKept
    <3>5. ASSUME NEW mail \in Mails, Invite(mail) PROVE AccInv'
      <4>1. /\ Issue("invite", mail) /\ Start(NoRequest)
            /\ UNCHANGED <<users, sysadmins, admins, signedIn, excused, linkRace>>
        BY <3>5 DEF Invite
      <4>2. mail \in Mails \cup Nat /\ "invite" \in {"invite", "reset"}
        OBVIOUS
      <4> QED BY <2>1, <4>1, <4>2, IssueKept
    <3> QED BY <2>4, <3>1, <3>2, <3>3, <3>4, <3>5 DEF Administrators
  <2>5. ASSUME Resets PROVE AccInv'
    <3>1. ASSUME NEW n \in DOMAIN users, RequestReset(n) PROVE AccInv'
      <4>1. /\ Issue("reset", n) /\ Start(NoRequest)
            /\ UNCHANGED <<users, sysadmins, admins, signedIn, excused, linkRace>>
        BY <3>1 DEF RequestReset
      <4>2. n \in Mails \cup Nat /\ "reset" \in {"invite", "reset"}
        BY <2>2 DEF TableTyped
      <4> QED BY <2>1, <4>1, <4>2, IssueKept
    <3>2. ASSUME NEW t \in DOMAIN tokens, ResetPassword(t) PROVE AccInv'
      BY <2>1, <3>2, ResetKept
    <3> QED BY <2>5, <3>1, <3>2 DEF Resets
  <2>6. ASSUME NEW r \in DOMAIN reqs, Steps(r) PROVE AccInv'
    <3>1. UNCHANGED scenario
      BY <2>6 DEF Steps
    <3> QED BY <2>1, <2>6, <3>1, ValidateKept, MarkKept, CountKept, NumberKept, InsertKept, HookKept, GroupsKept,
               PasswordKept, FindLinkKept, FindMailKept, SaveKept, ReadUidKept, RacedKept, LookKept, DiesKept
            DEF Steps
  <2> QED BY <1>2, <2>3, <2>4, <2>5, <2>6 DEF AccNext
<1> QED BY <1>1, <1>2

LEMMA AccInvHolds == AccSpec => []AccInv
<1>1. AccInit => AccInv
  BY AccInvInit
<1>2. AccInv /\ [AccNext]_accVars => AccInv'
  BY AccInvStep
<1> QED BY <1>1, <1>2, PTL DEF AccSpec

\* Whatever requests come in whatever order, who registers first is in charge: while no
\* account is being created and nothing that the property names has happened, there is an
\* active administrator if there is any account, and at most one active account
\* registered by itself.
THEOREM FirstUserRules == AccSpec => []Bootstrapped
<1>1. AccInv => Bootstrapped
  <2> SUFFICES ASSUME AccInv, ~excused, \A r \in DOMAIN reqs : ~Creating(r)
               PROVE  /\ ~NoAccount => InCharge
                      /\ Cardinality({n \in DOMAIN users : users[n].self /\ users[n].status = "active"}) <= 1
    BY DEF Bootstrapped
  <2>1. ChargeHolds
    BY DEF AccInv
  <2>2. \A r \in DOMAIN reqs : ~At(r, "hook")
    BY DEF At, Creating, CreatingPcs
  <2>3. ~NoAccount => InCharge
    BY <2>1, <2>2 DEF ChargeHolds, Somebody
  <2> DEFINE own == {n \in DOMAIN users : users[n].self /\ users[n].status = "active"}
  <2>4. \A n, m \in own : n = m
    BY <2>1 DEF ChargeHolds
  <2>5. own = {} \/ \E n : own = {n}
    <3> HIDE DEF own
    <3>1. CASE own # {}
      <4>1. PICK n : n \in own
        BY <3>1
      <4>2. own = {n}
        BY <2>4, <4>1
      <4> QED BY <4>2
    <3> QED BY <3>1
  <2>6. Cardinality(own) <= 1
    <3> HIDE DEF own
    <3>1. CASE own = {}
      BY <3>1, FS_EmptySet
    <3>2. ASSUME NEW n, own = {n} PROVE Cardinality(own) <= 1
      BY <3>2, FS_Singleton
    <3> QED BY <2>5, <3>1, <3>2
  <2> QED BY <2>3, <2>6
<1> QED BY <1>1, AccInvHolds, PTL

\* Whatever administrators, visitors and other sign-ins do meanwhile, an identity of the
\* provider is one account, provisioning gives up only when it was beaten, and an
\* invitation or a reset works once, but for the races the three properties name.
THEOREM AccountsAreKept == AccSpec => []AccountsHold
<1>1. AccInv => OneAccountPerIdentity
  <2> SUFFICES ASSUME AccInv, ~linkRace, NEW s \in signedIn, NEW t \in signedIn, s[1] = t[1],
                      \A p \in {s, t} : \E n \in DOMAIN users : users[n].by = p[2]
               PROVE  s = t
    BY DEF OneAccountPerIdentity
  <2>1. LinksHold /\ RestTyped
    BY DEF AccInv
  <2>2. PICK n \in DOMAIN users : users[n].by = s[2]
    OBVIOUS
  <2>3. PICK m \in DOMAIN users : users[m].by = t[2]
    OBVIOUS
  <2>4. users[n].link = s[1] /\ users[m].link = t[1]
    BY <2>1, <2>2, <2>3 DEF LinksHold
  <2>5. s[1] \in Subjects /\ s = <<s[1], s[2]>> /\ t = <<t[1], t[2]>>
    BY <2>1 DEF RestTyped
  <2>6. users[n].link # None
    BY <2>4, <2>5, NoneIsNobody
  <2>7. n = m
    BY <2>1, <2>4, <2>6 DEF LinksHold
  <2> QED BY <2>2, <2>3, <2>5, <2>7
<1>2. AccInv => GivesUpOnlyWhenBeaten
  BY DEF AccInv, AllProvision, ProvisioningHolds, GivesUpOnlyWhenBeaten, At
<1>3. AccInv => TokensWorkOnce
  <2> SUFFICES ASSUME AccInv, NEW t \in DOMAIN tokens, tokens[t].uses > 1 PROVE tokens[t].excused
    BY DEF TokensWorkOnce
  <2>1. TokenHolds(t)
    BY DEF AccInv, TokensKept
  <2> QED BY <2>1 DEF TokenHolds
<1>4. AccInv => AccountsHold
  BY <1>1, <1>2, <1>3 DEF AccountsHold
<1> QED BY <1>4, AccInvHolds, PTL

-----------------------------------------------------------------------------
(* Signing in and out *)

(* The invariant *)

\* Sids are given in order; a sign-in that is checked, or over, is of one that was given.
SidsGiven(t) ==
  /\ tab[t].token <= born /\ tab[t].got <= born
  /\ \A s \in Slots : /\ tab[t].mut[s].sid <= born
                      /\ tab[t].mut[s].pc \in {"checked", "ok"} => tab[t].mut[s].sid # 0

\* Where a mutation may be: it waits for a token, or the page has one.
Awaited(t) ==
  /\ tab[t].token # 0 => tab[t].fetch = "none"
  /\ tab[t].fetch \in {"answered", "answeredNew"} => tab[t].got # 0
  /\ \A s \in Slots : tab[t].mut[s].pc = "token" => tab[t].fetch # "none" /\ tab[t].mut[s].fresh
  /\ tab[t].mut["auth"].pc \notin {"idle", "token"} => tab[t].token # 0
  /\ tab[t].page = "toEnd" => \A s \in Slots : tab[t].mut[s] = NoMutation

\* What a page has of the session is the session's, unless it has signed out, or does not
\* know that the session has changed.
LeftIt(t) == tab[t].mut["auth"].kind = "logout" /\ tab[t].mut["auth"].pc = "ok"
TokenIsFresh(t) ==
  ~tab[t].behind /\ ~LeftIt(t) =>
    /\ tab[t].token # 0 => tab[t].token = cookie /\ Live(cookie)
    /\ tab[t].fetch = "answered" => tab[t].got = cookie
    /\ tab[t].fetch \in {"answered", "answeredNew"} => Live(tab[t].got)
GoesFresh(t) ==
  \A s \in Slots : tab[t].mut[s].pc # "idle" => tab[t].mut[s].fresh \/ tab[t].mut[s].excused

TabHolds(t) == SidsGiven(t) /\ Awaited(t) /\ TokenIsFresh(t) /\ GoesFresh(t)
TabsHold == \A t \in Tabs : TabHolds(t)

\* After a sign-out nothing signs in by itself: no session has a user, no sign-in is under
\* way, and at the provider the user is signed out as well, or is being.
Abroad(t) == tab[t].page \in {"toIdp", "atIdp"}
NobodyIsIn ==
  /\ \A k \in DOMAIN sess : ~sess[k].user
  /\ \A t \in Tabs : tab[t].mut["auth"].kind # "login"
  /\ config = "ends" => Leaving \/ ~idp
  /\ \A t \in Tabs : Abroad(t) => ~idp
StaysOut == signedOut /\ config # "plain" /\ ~slipped => NobodyIsIn
NoProvider == config = "none" => ~idp /\ \A t \in Tabs : ~Abroad(t)

WebInv == WebTypeOK /\ TabsHold /\ StaysOut /\ NoProvider

(* Records *)

LEMMA NoMutationType ==
  /\ NoMutation \in WebMutation /\ NoMutation.pc = "idle" /\ NoMutation.kind = "none"
  /\ NoMutation.sid = 0 /\ NoMutation.token = 0 /\ NoMutation.fresh
<1>1. 0 \in 0 .. MaxSids
  BY WebBounds
<1> QED BY <1>1 DEF NoMutation, WebMutation

\* A mutation at another place.
LEMMA MutationAt ==
  ASSUME NEW m \in WebMutation
  PROVE  /\ \A pc \in {"idle", "token", "out", "checked", "ok", "failed"} :
              LET z == [m EXCEPT !.pc = pc] IN
              /\ z \in WebMutation /\ z.pc = pc /\ z.kind = m.kind /\ z.sid = m.sid
              /\ z.token = m.token /\ z.fresh = m.fresh /\ z.excused = m.excused
         /\ m.pc \in {"idle", "token", "out", "checked", "ok", "failed"}
         /\ m.kind \in {"none", "login", "logout", "save"}
         /\ m.sid \in 0 .. MaxSids /\ m.token \in 0 .. MaxSids /\ m.fresh \in BOOLEAN /\ m.excused \in BOOLEAN
<1> DEFINE N == 0 .. MaxSids
<1>1. m \in [pc : {"idle", "token", "out", "checked", "ok", "failed"}, kind : {"none", "login", "logout", "save"},
             sid : N, token : N, fresh : BOOLEAN, excused : BOOLEAN]
  BY DEF WebMutation
<1>2. WebMutation =
        [pc : {"idle", "token", "out", "checked", "ok", "failed"}, kind : {"none", "login", "logout", "save"},
         sid : N, token : N, fresh : BOOLEAN, excused : BOOLEAN]
  BY DEF WebMutation
<1> HIDE DEF N
<1>3. /\ \A pc \in {"idle", "token", "out", "checked", "ok", "failed"} :
              LET z == [m EXCEPT !.pc = pc] IN
              /\ z \in WebMutation /\ z.pc = pc /\ z.kind = m.kind /\ z.sid = m.sid
              /\ z.token = m.token /\ z.fresh = m.fresh /\ z.excused = m.excused
      /\ m.pc \in {"idle", "token", "out", "checked", "ok", "failed"}
      /\ m.kind \in {"none", "login", "logout", "save"}
      /\ m.sid \in N /\ m.token \in N /\ m.fresh \in BOOLEAN /\ m.excused \in BOOLEAN
  BY <1>1, <1>2
<1> QED BY <1>3 DEF N

LEMMA PutAt ==
  \A y \in WebMutation, p \in {"idle", "token", "out", "checked", "ok", "failed"} :
    /\ [y EXCEPT !.pc = p] \in WebMutation /\ [y EXCEPT !.pc = p].pc = p
    /\ [y EXCEPT !.pc = p].kind = y.kind /\ [y EXCEPT !.pc = p].sid = y.sid
<1> DEFINE N == 0 .. MaxSids
<1>1. WebMutation =
        [pc : {"idle", "token", "out", "checked", "ok", "failed"}, kind : {"none", "login", "logout", "save"},
         sid : N, token : N, fresh : BOOLEAN, excused : BOOLEAN]
  BY DEF WebMutation
<1> HIDE DEF N
<1> QED BY <1>1

\* The fields of a tab.
TabIs(z, page, known, token, fetch, got, mut, behind) ==
  /\ z.page = page /\ z.known = known /\ z.token = token /\ z.fetch = fetch
  /\ z.got = got /\ z.mut = mut /\ z.behind = behind

PageNames == {"guarded", "login", "loggedOut", "failed", "toIdp", "atIdp", "toEnd"}
Knows == {"?", "yes", "no"}
TokenFetches == {"none", "asked", "answered", "answeredNew"}
Muts == [Slots -> WebMutation]

LEMMA TabFields ==
  ASSUME NEW z \in WebTab
  PROVE  /\ z.page \in PageNames /\ z.known \in Knows /\ z.token \in 0 .. MaxSids /\ z.fetch \in TokenFetches
         /\ z.got \in 0 .. MaxSids /\ z.mut \in Muts /\ z.behind \in BOOLEAN
BY DEF WebTab, PageNames, Knows, TokenFetches, Muts

LEMMA TabMade ==
  ASSUME NEW page \in PageNames, NEW known \in Knows, NEW token \in 0 .. MaxSids, NEW fetch \in TokenFetches,
         NEW got \in 0 .. MaxSids, NEW mut \in Muts, NEW behind \in BOOLEAN
  PROVE  LET z == [page |-> page, known |-> known, token |-> token, fetch |-> fetch, got |-> got,
                   mut |-> mut, behind |-> behind]
         IN  z \in WebTab /\ TabIs(z, page, known, token, fetch, got, mut, behind)
<1> DEFINE N == 0 .. MaxSids
<1>1. WebTab = [page : PageNames, known : Knows, token : N, fetch : TokenFetches, got : N, mut : Muts, behind : BOOLEAN]
  BY DEF WebTab, PageNames, Knows, TokenFetches, Muts
<1>2. token \in N /\ got \in N
  OBVIOUS
<1> HIDE DEF N
<1> QED BY <1>1, <1>2 DEF TabIs

LEMMA LoadedTab ==
  ASSUME NEW page \in PageNames
  PROVE  PageLoaded(page) \in WebTab
         /\ TabIs(PageLoaded(page), page, "?", 0, "none", 0, [s \in Slots |-> NoMutation], FALSE)
<1>1. 0 \in 0 .. MaxSids
  BY WebBounds
<1>2. [s \in Slots |-> NoMutation] \in Muts
  BY NoMutationType DEF Muts
<1>3. "?" \in Knows /\ "none" \in TokenFetches
  BY DEF Knows, TokenFetches
<1> QED BY <1>1, <1>2, <1>3, TabMade DEF PageLoaded

\* A tab some of whose fields have changed.
LEMMA TabChanged ==
  ASSUME NEW z \in WebTab
  PROVE  /\ \A page \in PageNames : LET y == [z EXCEPT !.page = page] IN
              y \in WebTab /\ TabIs(y, page, z.known, z.token, z.fetch, z.got, z.mut, z.behind)
         /\ \A page \in PageNames, known \in Knows : LET y == [z EXCEPT !.known = known, !.page = page] IN
              y \in WebTab /\ TabIs(y, page, known, z.token, z.fetch, z.got, z.mut, z.behind)
         /\ \A mut \in Muts : LET y == [z EXCEPT !.mut = mut] IN
              y \in WebTab /\ TabIs(y, z.page, z.known, z.token, z.fetch, z.got, mut, z.behind)
         /\ \A mut \in Muts, fetch \in TokenFetches : LET y == [z EXCEPT !.mut = mut, !.fetch = fetch] IN
              y \in WebTab /\ TabIs(y, z.page, z.known, z.token, fetch, z.got, mut, z.behind)
         /\ \A fetch \in TokenFetches, got \in 0 .. MaxSids : LET y == [z EXCEPT !.fetch = fetch, !.got = got] IN
              y \in WebTab /\ TabIs(y, z.page, z.known, z.token, fetch, got, z.mut, z.behind)
         /\ LET y == [z EXCEPT !.behind = TRUE] IN
              y \in WebTab /\ TabIs(y, z.page, z.known, z.token, z.fetch, z.got, z.mut, TRUE)
<1> DEFINE N == 0 .. MaxSids
<1>1. WebTab = [page : PageNames, known : Knows, token : N, fetch : TokenFetches, got : N, mut : Muts, behind : BOOLEAN]
  BY DEF WebTab, PageNames, Knows, TokenFetches, Muts
<1> HIDE DEF N
<1> SUFFICES
         /\ \A page \in PageNames : LET y == [z EXCEPT !.page = page] IN
              y \in WebTab /\ TabIs(y, page, z.known, z.token, z.fetch, z.got, z.mut, z.behind)
         /\ \A page \in PageNames, known \in Knows : LET y == [z EXCEPT !.known = known, !.page = page] IN
              y \in WebTab /\ TabIs(y, page, known, z.token, z.fetch, z.got, z.mut, z.behind)
         /\ \A mut \in Muts : LET y == [z EXCEPT !.mut = mut] IN
              y \in WebTab /\ TabIs(y, z.page, z.known, z.token, z.fetch, z.got, mut, z.behind)
         /\ \A mut \in Muts, fetch \in TokenFetches : LET y == [z EXCEPT !.mut = mut, !.fetch = fetch] IN
              y \in WebTab /\ TabIs(y, z.page, z.known, z.token, fetch, z.got, mut, z.behind)
         /\ \A fetch \in TokenFetches, got \in N : LET y == [z EXCEPT !.fetch = fetch, !.got = got] IN
              y \in WebTab /\ TabIs(y, z.page, z.known, z.token, fetch, got, z.mut, z.behind)
         /\ LET y == [z EXCEPT !.behind = TRUE] IN
              y \in WebTab /\ TabIs(y, z.page, z.known, z.token, z.fetch, z.got, z.mut, TRUE)
  BY DEF N
<1> QED BY <1>1 DEF TabIs

(* The store *)

LEMMA CookieSession ==
  ASSUME WebTypeOK
  PROVE  /\ SessionFor(cookie) \in WebSessions
         /\ [SessionFor(cookie) EXCEPT !.csrf = TRUE] \in WebSessions
         /\ [SessionFor(cookie) EXCEPT !.csrf = TRUE].user = SessionFor(cookie).user
         /\ \A t \in Tabs : /\ [SessionFor(cookie) EXCEPT !.pending = t] \in WebSessions
                            /\ [SessionFor(cookie) EXCEPT !.pending = t].user = SessionFor(cookie).user
         /\ SessionFor(cookie).user => Live(cookie) /\ sess[cookie].user
         /\ SessionFor(cookie).csrf => Live(cookie)
<1>1. NewSession \in WebSessions /\ ~NewSession.user /\ ~NewSession.csrf
  BY DEF NewSession, WebSessions
<1>2. Live(cookie) => sess[cookie] \in WebSessions
  BY DEF WebTypeOK, Live
<1>3. SessionFor(cookie) \in WebSessions
  BY <1>1, <1>2 DEF SessionFor
<1>4. \A z \in WebSessions :
        /\ [z EXCEPT !.csrf = TRUE] \in WebSessions /\ [z EXCEPT !.csrf = TRUE].user = z.user
        /\ \A t \in Tabs : [z EXCEPT !.pending = t] \in WebSessions /\ [z EXCEPT !.pending = t].user = z.user
  BY DEF WebSessions
<1> QED BY <1>1, <1>3, <1>4 DEF SessionFor

LEMMA Stored ==
  ASSUME WebTypeOK, NEW s \in WebSessions, Store(cookie, s)
  PROVE  /\ sess' \in [DOMAIN sess' -> WebSessions] /\ DOMAIN sess' = DOMAIN sess \cup {SidFor(cookie)}
         /\ DOMAIN sess' \subseteq 1 .. born' /\ born' \in 0 .. MaxSids /\ born <= born'
         /\ SidFor(cookie) \in 1 .. born' /\ SidFor(cookie) \in 1 .. MaxSids
         /\ Live(cookie) => SidFor(cookie) = cookie
         /\ sess'[SidFor(cookie)] = s
         /\ \A k \in DOMAIN sess \ {SidFor(cookie)} : sess'[k] = sess[k]
<1> DEFINE k == SidFor(cookie)
<1>0. born \in Nat /\ MaxSids \in Nat /\ born <= MaxSids /\ DOMAIN sess \subseteq 1 .. born /\ cookie \in 0 .. born
      /\ sess \in [DOMAIN sess -> WebSessions]
  BY WebBounds DEF WebTypeOK
<1>1. /\ (Live(cookie) => k = cookie /\ born' = born) /\ (~Live(cookie) => k = born + 1 /\ born' = born + 1 /\ born < MaxSids)
      /\ sess' = [j \in DOMAIN sess \cup {k} |-> IF j = k THEN s ELSE sess[j]]
  BY DEF Store, SidFor, Put
<1>2. k \in 1 .. born' /\ born' \in 0 .. MaxSids /\ born <= born' /\ k \in 1 .. MaxSids
  BY <1>0, <1>1 DEF Live
<1>3. 1 .. born \subseteq 1 .. born'
  BY <1>0, <1>2
<1> HIDE DEF k
<1>4. /\ sess' \in [DOMAIN sess' -> WebSessions] /\ DOMAIN sess' = DOMAIN sess \cup {k}
      /\ sess'[k] = s /\ \A j \in DOMAIN sess \ {k} : sess'[j] = sess[j]
  BY <1>0, <1>1
<1>5. DOMAIN sess' \subseteq 1 .. born'
  BY <1>0, <1>2, <1>3, <1>4
<1> QED BY <1>1, <1>2, <1>4, <1>5 DEF k

LEMMA SessionPut ==
  ASSUME WebTypeOK, NEW s \in WebSessions, NEW k \in 1 .. born, sess' = Put(k, s), born' = born
  PROVE  /\ sess' \in [DOMAIN sess' -> WebSessions] /\ DOMAIN sess' = DOMAIN sess \cup {k}
         /\ DOMAIN sess' \subseteq 1 .. born' /\ sess'[k] = s
         /\ \A j \in DOMAIN sess \ {k} : sess'[j] = sess[j]
BY DEF Put, WebTypeOK

LEMMA SessionGone ==
  ASSUME WebTypeOK, NEW k, sess' = DestroySession(k), born' = born
  PROVE  /\ sess' \in [DOMAIN sess' -> WebSessions] /\ DOMAIN sess' = DOMAIN sess \ {k}
         /\ DOMAIN sess' \subseteq 1 .. born' /\ \A j \in DOMAIN sess' : sess'[j] = sess[j]
BY DEF DestroySession, WebTypeOK

(* Steps *)

\* A tab that does not act: it may only fall behind.
SameTab(u) ==
  /\ TabIs(tab'[u], tab[u].page, tab[u].known, tab[u].token, tab[u].fetch, tab[u].got, tab[u].mut, tab'[u].behind)
  /\ tab'[u].behind = tab[u].behind \/ tab'[u].behind
Actor(t, z) ==
  /\ tab' \in [Tabs -> WebTab] /\ tab'[t] = z
  /\ \A u \in Tabs \ {t} : SameTab(u)

LEMMA OnlyThisTab ==
  ASSUME tab \in [Tabs -> WebTab], NEW t \in Tabs, NEW z \in WebTab, tab' = [tab EXCEPT ![t] = z]
  PROVE  Actor(t, z) /\ \A u \in Tabs \ {t} : tab'[u] = tab[u]
<1>1. tab' \in [Tabs -> WebTab] /\ tab'[t] = z /\ \A u \in Tabs \ {t} : tab'[u] = tab[u]
  OBVIOUS
<1> QED BY <1>1 DEF Actor, SameTab, TabIs

LEMMA OthersSurprised ==
  ASSUME tab \in [Tabs -> WebTab], NEW t \in Tabs, NEW z \in WebTab, tab' = Surprised([tab EXCEPT ![t] = z], t)
  PROVE  Actor(t, z) /\ \A u \in Tabs \ {t} : tab'[u].behind
<1> DEFINE a == [tab EXCEPT ![t] = z]
<1>1. a \in [Tabs -> WebTab] /\ a[t] = z /\ \A u \in Tabs \ {t} : a[u] = tab[u]
  OBVIOUS
<1>2. tab' = [u \in Tabs |-> IF u = t THEN a[u] ELSE [a[u] EXCEPT !.behind = TRUE]]
  BY DEF Surprised
<1> HIDE DEF a
<1>3. tab'[t] = z /\ \A u \in Tabs \ {t} : tab'[u] = [tab[u] EXCEPT !.behind = TRUE]
  BY <1>1, <1>2
<1>4. \A u \in Tabs \ {t} : /\ tab'[u] \in WebTab
                            /\ TabIs(tab'[u], tab[u].page, tab[u].known, tab[u].token, tab[u].fetch, tab[u].got, tab[u].mut, TRUE)
  BY <1>3, TabChanged
<1>5. tab' \in [Tabs -> WebTab]
  BY <1>2, <1>3, <1>4
<1> QED BY <1>3, <1>4, <1>5 DEF Actor, SameTab, TabIs

\* It keeps what holds of it, unless what it has of the session changes without its falling behind.
LEMMA OthersHold ==
  ASSUME WebTypeOK, TabsHold, NEW O \in SUBSET Tabs, \A u \in O : SameTab(u),
         born <= born', born' \in Nat,
         \/ \A u \in O : tab'[u].behind
         \/ cookie' = cookie /\ DOMAIN sess \subseteq DOMAIN sess'
  PROVE  \A u \in O : TabHolds(u)'
<1> SUFFICES ASSUME NEW u \in O PROVE TabHolds(u)'
  OBVIOUS
<1>0. /\ TabHolds(u) /\ SameTab(u) /\ born \in Nat /\ tab[u] \in WebTab
      /\ tab'[u].behind \/ (tab'[u].behind = tab[u].behind /\ cookie' = cookie /\ DOMAIN sess \subseteq DOMAIN sess')
  BY WebBounds DEF TabsHold, SameTab, WebTypeOK
<1>a. /\ tab'[u].page = tab[u].page /\ tab'[u].token = tab[u].token /\ tab'[u].fetch = tab[u].fetch
      /\ tab'[u].got = tab[u].got /\ tab'[u].mut = tab[u].mut
  BY <1>0 DEF SameTab, TabIs
<1>b. /\ tab[u].token \in Nat /\ tab[u].got \in Nat /\ \A s \in Slots : tab[u].mut[s].sid \in Nat
  <2>1. tab[u].token \in 0 .. MaxSids /\ tab[u].got \in 0 .. MaxSids /\ tab[u].mut \in Muts
    BY <1>0, TabFields
  <2>2. \A s \in Slots : tab[u].mut[s] \in WebMutation
    BY <2>1 DEF Muts
  <2>3. \A s \in Slots : tab[u].mut[s].sid \in 0 .. MaxSids
    BY <2>2, MutationAt
  <2> QED BY <2>1, <2>3, WebBounds
<1>1. SidsGiven(u)'
  <2>1. SidsGiven(u)
    BY <1>0 DEF TabHolds
  <2> QED BY <2>1, <1>a, <1>b, <1>0 DEF SidsGiven
<1>2. Awaited(u)'
  <2>1. Awaited(u)
    BY <1>0 DEF TabHolds
  <2> QED BY ONLY <2>1, <1>a DEF Awaited
<1>3. TokenIsFresh(u)'
  <2>1. TokenIsFresh(u)
    BY <1>0 DEF TabHolds
  <2> QED BY <2>1, <1>a, <1>0 DEF TokenIsFresh, LeftIt, Live
<1>4. GoesFresh(u)'
  <2>1. GoesFresh(u)
    BY <1>0 DEF TabHolds
  <2> QED BY <2>1, <1>a DEF GoesFresh
<1> QED BY <1>1, <1>2, <1>3, <1>4 DEF TabHolds

\* Nobody comes in by a step that neither signs in nor goes to the provider while the user
\* is still signed in there.
Leaves(t) == tab[t].page = "toEnd" \/ LeftIt(t)
LEMMA NobodyComesIn ==
  ASSUME StaysOut, NoProvider, config \in {"none", "plain", "ends"},
         NEW A \in SUBSET Tabs, \A u \in Tabs \ A : SameTab(u),
         config' = config, signedOut' => signedOut, slipped => slipped', idp' => idp,
         \A k \in DOMAIN sess' : sess'[k].user => k \in DOMAIN sess /\ sess[k].user,
         \A t \in A : /\ tab'[t].mut["auth"].kind = "login" => tab[t].mut["auth"].kind = "login"
                      /\ Abroad(t)' => Abroad(t) \/ (config # "none" /\ (Leaving => slipped'))
                      /\ Leaves(t) => Leaves(t)' \/ Abroad(t) \/ ~idp' \/ slipped' \/ config # "ends"
  PROVE  StaysOut' /\ NoProvider'
<1>a. \A u \in Tabs \ A : tab'[u].page = tab[u].page /\ tab'[u].mut = tab[u].mut
  BY DEF SameTab, TabIs
<1>b. Leaving <=> \E u \in Tabs : Leaves(u)
  BY DEF Leaving, Leaves, LeftIt
<1>c. Leaving' <=> \E u \in Tabs : Leaves(u)'
  BY DEF Leaving, Leaves, LeftIt
<1>d. \A u \in Tabs \ A : (Leaves(u) <=> Leaves(u)') /\ (Abroad(u) <=> Abroad(u)')
  BY <1>a DEF Leaves, LeftIt, Abroad
<1>1. StaysOut'
  <2> SUFFICES ASSUME signedOut', config' # "plain", ~slipped' PROVE NobodyIsIn'
    BY DEF StaysOut
  <2>1. NobodyIsIn
    BY DEF StaysOut
  <2>2. \A k \in DOMAIN sess' : ~sess'[k].user
    BY <2>1 DEF NobodyIsIn
  <2>3. \A u \in Tabs : tab'[u].mut["auth"].kind # "login"
    BY <2>1, <1>a DEF NobodyIsIn
  <2>4. config' = "ends" => Leaving' \/ ~idp'
    BY <2>1, <1>b, <1>c, <1>d DEF NobodyIsIn
  <2>5. ASSUME NEW u \in Tabs, Abroad(u)', idp' PROVE FALSE
    <3>1. idp /\ ~Abroad(u)
      BY <2>1, <2>5 DEF NobodyIsIn
    <3>2. u \in A
      BY <3>1, <2>5, <1>d
    <3>3. config = "ends" /\ ~Leaving
      BY <3>1, <3>2, <2>5
    <3> QED BY <3>1, <3>3, <2>1 DEF NobodyIsIn
  <2> QED BY <2>2, <2>3, <2>4, <2>5 DEF NobodyIsIn
<1>2. NoProvider'
  BY <1>d DEF NoProvider
<1> QED BY <1>1, <1>2

(* What a step makes of the tab that acts *)

LEMMA Here ==
  ASSUME WebInv, NEW t \in Tabs
  PROVE  /\ tab \in [Tabs -> WebTab] /\ tab[t] \in WebTab /\ SidsGiven(t) /\ Awaited(t) /\ TokenIsFresh(t) /\ GoesFresh(t)
         /\ tab[t].page \in PageNames /\ tab[t].known \in Knows /\ tab[t].fetch \in TokenFetches /\ tab[t].behind \in BOOLEAN
         /\ tab[t].token \in 0 .. MaxSids /\ tab[t].got \in 0 .. MaxSids /\ tab[t].mut \in Muts
         /\ \A s \in Slots : tab[t].mut[s] \in WebMutation
         /\ born \in 0 .. MaxSids /\ cookie \in 0 .. MaxSids /\ cookie \in 0 .. born
         /\ DOMAIN sess \subseteq 1 .. born
         /\ config \in {"none", "plain", "ends"}
<1>1. tab \in [Tabs -> WebTab] /\ tab[t] \in WebTab /\ born \in 0 .. MaxSids /\ cookie \in 0 .. born
      /\ DOMAIN sess \subseteq 1 .. born /\ config \in {"none", "plain", "ends"}
  BY DEF WebInv, WebTypeOK
<1>2. SidsGiven(t) /\ Awaited(t) /\ TokenIsFresh(t) /\ GoesFresh(t)
  BY DEF WebInv, TabsHold, TabHolds
<1>3. cookie \in 0 .. MaxSids
  BY <1>1, WebBounds
<1>4. tab[t].mut \in Muts
  BY <1>1, TabFields
<1>5. \A s \in Slots : tab[t].mut[s] \in WebMutation
  BY <1>4 DEF Muts
<1> QED BY <1>1, <1>2, <1>3, <1>4, <1>5, TabFields

\* A page just loaded.
LEMMA LoadedHolds ==
  ASSUME NEW t \in Tabs, NEW page \in PageNames, Actor(t, PageLoaded(page)), born' \in Nat
  PROVE  TabHolds(t)' /\ tab'[t].page = page /\ tab'[t].mut["auth"].kind = "none" /\ tab'[t].mut["auth"].pc = "idle"
<1>1. TabIs(tab'[t], page, "?", 0, "none", 0, [s \in Slots |-> NoMutation], FALSE)
  BY LoadedTab DEF Actor
<1>2. /\ tab'[t].page = page /\ tab'[t].token = 0 /\ tab'[t].fetch = "none" /\ tab'[t].got = 0
      /\ \A s \in Slots : tab'[t].mut[s] = NoMutation
  BY <1>1 DEF TabIs
<1>3. NoMutation' = NoMutation /\ "auth" \in Slots
  BY DEF NoMutation, Slots
<1>4. SidsGiven(t)'
  BY <1>2, NoMutationType DEF SidsGiven
<1>5. Awaited(t)'
  BY <1>2, <1>3, NoMutationType DEF Awaited
<1>6. TokenIsFresh(t)'
  BY <1>2 DEF TokenIsFresh
<1>7. GoesFresh(t)'
  BY <1>2, NoMutationType DEF GoesFresh
<1> QED BY <1>2, <1>3, <1>4, <1>5, <1>6, <1>7, NoMutationType DEF TabHolds

\* Another page, or what it knows.
LEMMA MovedHolds ==
  ASSUME WebInv, NEW t \in Tabs, NEW page \in PageNames \ {"toEnd"}, NEW known, NEW z,
         TabIs(z, page, known, tab[t].token, tab[t].fetch, tab[t].got, tab[t].mut, tab[t].behind),
         Actor(t, z), born' = born, sess' = sess, cookie' = cookie
  PROVE  TabHolds(t)'
<1>1. /\ tab'[t].page = page /\ tab'[t].token = tab[t].token /\ tab'[t].fetch = tab[t].fetch
      /\ tab'[t].got = tab[t].got /\ tab'[t].mut = tab[t].mut /\ tab'[t].behind = tab[t].behind
  BY DEF TabIs, Actor
<1>2. SidsGiven(t)' /\ Awaited(t)' /\ GoesFresh(t)'
  BY <1>1, Here DEF SidsGiven, Awaited, GoesFresh
<1>3. TokenIsFresh(t)'
  BY <1>1, Here DEF TokenIsFresh, LeftIt, Live
<1> QED BY <1>2, <1>3 DEF TabHolds

\* A mutation at another place: answered by the server, or over.
LEMMA PlacedHolds ==
  ASSUME WebInv, NEW t \in Tabs, NEW s \in Slots, NEW m \in WebMutation, NEW z,
         TabIs(z, tab[t].page, tab[t].known, tab[t].token, tab[t].fetch, tab[t].got,
               [tab[t].mut EXCEPT ![s] = m], tab[t].behind),
         Actor(t, z), born' = born, cookie' = cookie,
         tab[t].mut[s].pc # "idle",
         \/ m = NoMutation
         \/ /\ tab[t].mut[s].pc \notin {"idle", "token"}
            /\ m = [tab[t].mut[s] EXCEPT !.pc = m.pc] /\ m.pc \in {"checked", "ok", "failed"}
            /\ m.pc \in {"checked", "ok"} => m.sid # 0,
         \/ DOMAIN sess \subseteq DOMAIN sess' /\ ~LeftIt(t)
         \/ LeftIt(t)'
         \/ DOMAIN sess \subseteq DOMAIN sess' /\ s = "save"
  PROVE  TabHolds(t)'
<1>0. SidsGiven(t) /\ Awaited(t) /\ TokenIsFresh(t) /\ GoesFresh(t) /\ tab[t].mut[s] \in WebMutation
      /\ tab[t].mut \in [Slots -> WebMutation] /\ born \in Nat
  BY Here, WebBounds DEF Muts
<1>1. /\ tab'[t].page = tab[t].page /\ tab'[t].token = tab[t].token /\ tab'[t].fetch = tab[t].fetch
      /\ tab'[t].got = tab[t].got /\ tab'[t].behind = tab[t].behind
      /\ tab'[t].mut[s] = m /\ \A r \in Slots \ {s} : tab'[t].mut[r] = tab[t].mut[r]
  BY <1>0 DEF TabIs, Actor
<1>2. \/ m = NoMutation
      \/ /\ m.sid = tab[t].mut[s].sid /\ m.fresh = tab[t].mut[s].fresh /\ m.excused = tab[t].mut[s].excused
         /\ m.pc \in {"checked", "ok", "failed"} /\ (m.pc \in {"checked", "ok"} => m.sid # 0)
         /\ tab[t].mut[s].pc \notin {"idle", "token"}
  <2> DEFINE was == tab[t].mut[s]
             pc == m.pc
  <2>1. CASE m = NoMutation
    BY <2>1
  <2>2. CASE m # NoMutation
    <3>1. was \in WebMutation /\ pc \in {"checked", "ok", "failed"} /\ m = [was EXCEPT !.pc = pc]
      BY <1>0, <2>2
    <3> HIDE DEF was, pc
    <3>2. m.sid = was.sid /\ m.fresh = was.fresh /\ m.excused = was.excused
      BY <3>1, MutationAt
    <3> QED BY <2>2, <3>1, <3>2 DEF was, pc
  <2> QED BY <2>1, <2>2
<1>3. SidsGiven(t)'
  BY <1>0, <1>1, <1>2, NoMutationType DEF SidsGiven
<1>4. GoesFresh(t)'
  BY <1>0, <1>1, <1>2, NoMutationType DEF GoesFresh
<1>5. tab[t].page # "toEnd"
  BY <1>0, NoMutationType DEF Awaited
<1>6. Awaited(t)'
  <2>1. "auth" \in Slots
    BY DEF Slots
  <2>2. tab'[t].mut["auth"].pc \notin {"idle", "token"} => tab'[t].token # 0
    BY <1>0, <1>1, <1>2, <2>1, NoMutationType DEF Awaited
  <2>3. \A r \in Slots : tab'[t].mut[r].pc = "token" => tab'[t].fetch # "none" /\ tab'[t].mut[r].fresh
    BY <1>0, <1>1, <1>2, NoMutationType DEF Awaited
  <2> QED BY <1>0, <1>1, <1>5, <2>2, <2>3 DEF Awaited
<1>7. TokenIsFresh(t)'
  <2>1. "auth" \in Slots
    BY DEF Slots
  <2>2. s = "save" => (LeftIt(t)' <=> LeftIt(t))
    BY <1>1, <2>1 DEF LeftIt
  <2> QED BY <1>0, <1>1, <2>2 DEF TokenIsFresh, Live
<1> QED BY <1>3, <1>4, <1>6, <1>7 DEF TabHolds

LEMMA Clicked ==
  ASSUME WebTypeOK
  PROVE  /\ \A t \in Tabs : Click(t) => clicks' \in 0 .. MaxClicks
         /\ Mishap => mishaps' \in 0 .. MaxMishaps
BY WebBounds DEF WebTypeOK, Click, Mishap, May

\* A step that leaves the session alone, of which the tab that acts is known to come out well.
LEMMA SameSession ==
  ASSUME WebInv, NEW t \in Tabs, NEW z, Actor(t, z), TabHolds(t)',
         UNCHANGED <<config, born, sess, cookie>>,
         idp' \in BOOLEAN, signedOut' \in BOOLEAN, slipped' \in BOOLEAN,
         clicks' \in 0 .. MaxClicks, mishaps' \in 0 .. MaxMishaps
  PROVE  WebTypeOK' /\ TabsHold'
<1>1. WebTypeOK'
  BY DEF WebInv, WebTypeOK, Actor
<1>2. born <= born' /\ born' \in Nat
  BY DEF WebInv, WebTypeOK
<1>3. \A u \in Tabs \ {t} : TabHolds(u)'
  BY <1>2, OthersHold DEF WebInv, Actor
<1> QED BY <1>1, <1>3 DEF TabsHold

LEMMA OpenPageHolds == ASSUME WebInv, NEW t \in Tabs, OpenPage(t) PROVE WebInv'
<1> DEFINE z == PageLoaded("guarded")
<1>1. "guarded" \in PageNames \ {"toEnd"}
  BY DEF PageNames
<1>2. Actor(t, z)
  BY <1>1, LoadedTab, OnlyThisTab, Here DEF OpenPage
<1>3. TabHolds(t)' /\ tab'[t].page = "guarded" /\ tab'[t].mut["auth"].kind = "none"
  BY <1>1, <1>2, LoadedHolds, Here DEF OpenPage
<1>4. WebTypeOK' /\ TabsHold'
  <2>1. slipped' \in BOOLEAN /\ signedOut' \in BOOLEAN /\ idp' \in BOOLEAN /\ clicks' \in 0 .. MaxClicks
        /\ mishaps' \in 0 .. MaxMishaps
    BY Clicked DEF OpenPage, WebInv, WebTypeOK
  <2> HIDE DEF z
  <2> QED BY <1>2, <1>3, <2>1, SameSession DEF OpenPage
<1>5. StaysOut' /\ NoProvider'
  <2>1. ~Abroad(t)' /\ (slipped => slipped') /\ (Leaves(t) => slipped')
    BY <1>3 DEF Abroad, Leaves, LeftIt, OpenPage
  <2>2. \A u \in Tabs \ {t} : SameTab(u)
    BY <1>2 DEF Actor
  <2> QED BY <1>3, <2>1, <2>2, Here, NobodyComesIn, {t} \in SUBSET Tabs DEF WebInv, OpenPage
<1> QED BY <1>4, <1>5 DEF WebInv

LEMMA ReadSessionHolds == ASSUME WebInv, NEW t \in Tabs, ReadSession(t) PROVE WebInv'
<1> DEFINE known == IF SignedIn(cookie) THEN "yes" ELSE "no"
           page == Shows(tab[t].page, known)
           z == [tab[t] EXCEPT !.known = known, !.page = page]
<1>0. known \in Knows /\ known \in {"yes", "no"}
  BY DEF Knows
<1>1. /\ page \in PageNames \ {"toEnd", "atIdp"}
      /\ page = "toIdp" => config # "none"
      /\ tab[t].page \notin {"toEnd", "toIdp", "atIdp"}
  BY <1>0 DEF PageNames, ReadSession, Shows, LoginShows
<1>2. tab' = [tab EXCEPT ![t] = z] /\ Slips(tab[t].page, page)
  BY DEF ReadSession
<1> HIDE DEF known, page
<1>3. z \in WebTab /\ TabIs(z, page, known, tab[t].token, tab[t].fetch, tab[t].got, tab[t].mut, tab[t].behind)
  BY <1>0, <1>1, TabChanged, Here
<1> HIDE DEF z
<1>4. Actor(t, z)
  BY <1>2, <1>3, OnlyThisTab, Here
<1>5. TabHolds(t)' /\ tab'[t].page = page /\ tab'[t].mut = tab[t].mut
  <2>1. TabHolds(t)'
    <3>1. sess' = sess /\ born' = born /\ cookie' = cookie
      BY DEF ReadSession
    <3> QED BY <1>1, <1>3, <1>4, <3>1, MovedHolds
  <2>2. tab'[t].page = page /\ tab'[t].mut = tab[t].mut
    BY <1>3, <1>4 DEF Actor, TabIs
  <2> QED BY <2>1, <2>2
<1>6. slipped' \in BOOLEAN /\ (slipped => slipped') /\ (page = "toIdp" /\ Leaving => slipped')
  BY <1>1, <1>2 DEF Slips, WebInv, WebTypeOK
<1>7. WebTypeOK' /\ TabsHold'
  BY <1>4, <1>5, <1>6, SameSession DEF ReadSession, WebInv, WebTypeOK
<1>8. StaysOut' /\ NoProvider'
  <2>1. Abroad(t)' => config # "none" /\ (Leaving => slipped')
    BY <1>1, <1>5, <1>6 DEF Abroad
  <2>2. Leaves(t) => Leaves(t)'
    BY <1>1, <1>5 DEF Leaves, LeftIt
  <2>3. \A u \in Tabs \ {t} : SameTab(u)
    BY <1>4 DEF Actor
  <2> QED BY <1>5, <1>6, <2>1, <2>2, <2>3, Here, NobodyComesIn, {t} \in SUBSET Tabs DEF WebInv, ReadSession
<1> QED BY <1>7, <1>8 DEF WebInv

LEMMA ServeTokenHolds == ASSUME WebInv, NEW t \in Tabs, ServeToken(t) PROVE WebInv'
<1> DEFINE s == [SessionFor(cookie) EXCEPT !.csrf = TRUE]
           fetch == IF SessionFor(cookie).csrf THEN "answered" ELSE "answeredNew"
           got == SidFor(cookie)
           z == [tab[t] EXCEPT !.fetch = fetch, !.got = got]
<1>1. /\ s \in WebSessions /\ s.user = SessionFor(cookie).user /\ (s.user => Live(cookie) /\ sess[cookie].user)
      /\ fetch \in TokenFetches /\ fetch \in {"answered", "answeredNew"} /\ (fetch = "answered" => Live(cookie))
  BY CookieSession DEF WebInv, TokenFetches
<1>2. Store(cookie, s) /\ tab' = [tab EXCEPT ![t] = z]
  BY DEF ServeToken
<1> HIDE DEF s
<1>3. /\ sess' \in [DOMAIN sess' -> WebSessions] /\ DOMAIN sess' = DOMAIN sess \cup {got}
      /\ DOMAIN sess' \subseteq 1 .. born' /\ born' \in 0 .. MaxSids /\ born <= born'
      /\ got \in 1 .. born' /\ got \in 1 .. MaxSids /\ (Live(cookie) => got = cookie)
      /\ sess'[got] = s /\ \A k \in DOMAIN sess \ {got} : sess'[k] = sess[k]
  BY <1>1, <1>2, Stored DEF WebInv
<1> HIDE DEF fetch, got
<1>4. z \in WebTab /\ TabIs(z, tab[t].page, tab[t].known, tab[t].token, fetch, got, tab[t].mut, tab[t].behind)
  <2>1. got \in 0 .. MaxSids
    BY <1>3
  <2> QED BY <2>1, <1>1, TabChanged, Here
<1> HIDE DEF z
<1>5. Actor(t, z)
  BY <1>2, <1>4, OnlyThisTab, Here
<1>6. /\ tab'[t].page = tab[t].page /\ tab'[t].token = tab[t].token /\ tab'[t].fetch = fetch
      /\ tab'[t].got = got /\ tab'[t].mut = tab[t].mut /\ tab'[t].behind = tab[t].behind
  BY <1>4, <1>5 DEF Actor, TabIs
<1>7. TabHolds(t)'
  <2>0. SidsGiven(t) /\ Awaited(t) /\ TokenIsFresh(t) /\ GoesFresh(t) /\ tab[t].fetch = "asked" /\ cookie' = cookie
    BY Here DEF ServeToken
  <2>1. SidsGiven(t)'
    <3>1. tab[t].token \in Nat /\ \A r \in Slots : tab[t].mut[r].sid \in Nat
      <4>1. \A r \in Slots : tab[t].mut[r] \in WebMutation
        BY Here
      <4>2. \A r \in Slots : tab[t].mut[r].sid \in 0 .. MaxSids
        BY <4>1, MutationAt
      <4>3. tab[t].token \in 0 .. MaxSids
        BY Here
      <4> QED BY <4>2, <4>3
    <3>2. born \in Nat /\ born' \in Nat /\ got <= born'
      BY <1>3, Here, WebBounds
    <3> QED BY <1>3, <1>6, <2>0, <3>1, <3>2 DEF SidsGiven
  <2>2. Awaited(t)'
    <3>1. got # 0
      BY <1>3
    <3> QED BY <1>1, <1>6, <2>0, <3>1 DEF Awaited
  <2>3. TokenIsFresh(t)'
    <3>1. tab'[t].token = 0
      BY <1>6, <2>0 DEF Awaited
    <3> QED BY <1>1, <1>3, <1>6, <2>0, <3>1 DEF TokenIsFresh, Live
  <2>4. GoesFresh(t)'
    BY <1>6, <2>0 DEF GoesFresh
  <2> QED BY <2>1, <2>2, <2>3, <2>4 DEF TabHolds
<1>8. TabsHold'
  <2>1. born' \in Nat
    BY <1>3
  <2>2. \A u \in Tabs \ {t} : TabHolds(u)'
    BY <1>3, <1>5, <2>1, OthersHold DEF WebInv, Actor, ServeToken
  <2> QED BY <1>7, <2>2 DEF TabsHold
<1>9. WebTypeOK'
  <2>1. cookie' \in 0 .. born'
    BY <1>3, Here DEF ServeToken
  <2> QED BY <1>3, <1>5, <2>1 DEF WebInv, WebTypeOK, ServeToken, Actor
<1>10. StaysOut' /\ NoProvider'
  <2>1. \A k \in DOMAIN sess' : sess'[k].user => k \in DOMAIN sess /\ sess[k].user
    BY <1>1, <1>3 DEF Live
  <2>2. Abroad(t)' = Abroad(t) /\ (Leaves(t) => Leaves(t)')
    BY <1>6 DEF Abroad, Leaves, LeftIt
  <2>3. \A u \in Tabs \ {t} : SameTab(u)
    BY <1>5 DEF Actor
  <2> QED BY <1>6, <2>1, <2>2, <2>3, Here, NobodyComesIn, {t} \in SUBSET Tabs DEF WebInv, ServeToken
<1> QED BY <1>8, <1>9, <1>10 DEF WebInv

LEMMA TokenArrivesHolds == ASSUME WebInv, NEW t \in Tabs, TokenArrives(t) PROVE WebInv'
<1> DEFINE got == tab[t].got
           new == IF tab[t].fetch = "answeredNew" THEN got ELSE cookie
           busy == SessionChanges(t)
           Sent(s) == GoesOut(tab[t], tab[t].mut[s].kind, got, new, busy)
           mut == [s \in Slots |-> IF tab[t].mut[s].pc = "token" THEN Sent(s) ELSE tab[t].mut[s]]
           z == [tab[t] EXCEPT !.fetch = "none", !.got = 0, !.token = got, !.mut = mut]
<1>0. /\ SidsGiven(t) /\ Awaited(t) /\ TokenIsFresh(t) /\ GoesFresh(t) /\ tab[t] \in WebTab /\ tab[t].mut \in Muts
      /\ \A s \in Slots : tab[t].mut[s] \in WebMutation
      /\ got \in 0 .. MaxSids /\ got <= born /\ got # 0 /\ born \in 0 .. MaxSids /\ cookie \in 0 .. born
      /\ tab[t].fetch \in {"answered", "answeredNew"} /\ tab[t].behind \in BOOLEAN /\ busy \in BOOLEAN
  BY Here DEF TokenArrives, SidsGiven, Awaited, SessionChanges
<1>1. new \in 0 .. MaxSids /\ new \in 0 .. born /\ new <= born
  BY <1>0, WebBounds
<1>2. /\ cookie' = new
      /\ \/ tab' = [tab EXCEPT ![t] = z] /\ cookie' = cookie
         \/ tab' = Surprised([tab EXCEPT ![t] = z], t)
  BY DEF TokenArrives
<1> HIDE DEF busy
<1>3. \A s \in Slots : Sent(s) \in WebMutation /\ Sent(s).pc = "out" /\ Sent(s).kind = tab[t].mut[s].kind
                       /\ Sent(s).sid = new /\ (Sent(s).fresh <=> got = new /\ Live(new))
                       /\ (Sent(s).excused <=> tab[t].behind \/ busy)
  <2> SUFFICES ASSUME NEW s \in Slots
               PROVE  Sent(s) \in WebMutation /\ Sent(s).pc = "out" /\ Sent(s).kind = tab[t].mut[s].kind
                      /\ Sent(s).sid = new /\ (Sent(s).fresh <=> got = new /\ Live(new))
                      /\ (Sent(s).excused <=> tab[t].behind \/ busy)
    OBVIOUS
  <2>1. tab[t].mut[s].kind \in {"none", "login", "logout", "save"}
    BY <1>0, MutationAt
  <2> DEFINE sort == tab[t].mut[s].kind
             late == tab[t].behind \/ busy
             m == [pc |-> "out", kind |-> sort, sid |-> new, token |-> got,
                   fresh |-> got = new /\ Live(new), excused |-> late]
  <2>2. Sent(s) = m
    BY DEF GoesOut
  <2>3. late \in BOOLEAN /\ (got = new /\ Live(new)) \in BOOLEAN
    OBVIOUS
  <2> HIDE DEF sort, late
  <2>4. m \in WebMutation
    BY <1>0, <1>1, <2>1, <2>3 DEF WebMutation, sort
  <2>5. m.pc = "out" /\ m.kind = sort /\ m.sid = new /\ (m.fresh <=> got = new /\ Live(new)) /\ (m.excused <=> late)
    OBVIOUS
  <2> HIDE DEF m
  <2> QED BY <2>2, <2>4, <2>5 DEF sort, late
<1> HIDE DEF Sent
<1>4. mut \in Muts
  BY <1>0, <1>3 DEF Muts
<1> HIDE DEF mut
<1>5. z \in WebTab /\ TabIs(z, tab[t].page, tab[t].known, got, "none", 0, mut, tab[t].behind)
  <2>1. \A y \in WebTab, g \in 0 .. MaxSids, m \in Muts :
          LET w == [y EXCEPT !.fetch = "none", !.got = 0, !.token = g, !.mut = m] IN
          w \in WebTab /\ TabIs(w, y.page, y.known, g, "none", 0, m, y.behind)
    <3> DEFINE N == 0 .. MaxSids
    <3>1. WebTab = [page : PageNames, known : Knows, token : N, fetch : TokenFetches, got : N, mut : Muts, behind : BOOLEAN]
      BY DEF WebTab, PageNames, Knows, TokenFetches, Muts
    <3>2. 0 \in N /\ "none" \in TokenFetches
      BY WebBounds DEF TokenFetches
    <3> HIDE DEF N
    <3>3. \A y \in WebTab, g \in N, m \in Muts :
          LET w == [y EXCEPT !.fetch = "none", !.got = 0, !.token = g, !.mut = m] IN
          w \in WebTab /\ TabIs(w, y.page, y.known, g, "none", 0, m, y.behind)
      BY <3>1, <3>2 DEF TabIs
    <3> QED BY <3>3 DEF N
  <2> HIDE DEF got
  <2> QED BY <2>1, <1>0, <1>4
<1> HIDE DEF z, new
<1>6. Actor(t, z) /\ \/ cookie' = cookie
                     \/ \A u \in Tabs \ {t} : tab'[u].behind
  BY <1>2, <1>5, OnlyThisTab, OthersSurprised, Here
<1>7. /\ tab'[t].page = tab[t].page /\ tab'[t].token = got /\ tab'[t].fetch = "none" /\ tab'[t].got = 0
      /\ tab'[t].behind = tab[t].behind
      /\ \A s \in Slots : tab'[t].mut[s] = IF tab[t].mut[s].pc = "token" THEN Sent(s) ELSE tab[t].mut[s]
  BY <1>5, <1>6 DEF Actor, TabIs, mut
<1>8. tab'[t].mut["auth"].kind = tab[t].mut["auth"].kind /\ (LeftIt(t)' <=> LeftIt(t)) /\ "auth" \in Slots
  <2>1. "auth" \in Slots
    BY DEF Slots
  <2> QED BY <2>1, <1>3, <1>7 DEF LeftIt
<1>9. TabHolds(t)'
  <2>1. SidsGiven(t)'
    <3>1. born' = born /\ 0 <= born /\ got <= born /\ new <= born
      BY <1>0, <1>1, WebBounds DEF TokenArrives
    <3>2. \A s \in Slots : /\ Sent(s).sid = new /\ Sent(s).pc = "out"
                           /\ tab[t].mut[s].sid <= born
                           /\ tab[t].mut[s].pc \in {"checked", "ok"} => tab[t].mut[s].sid # 0
      BY <1>0, <1>3 DEF SidsGiven
    <3> HIDE DEF got
    <3> QED BY <1>7, <3>1, <3>2 DEF SidsGiven
  <2>2. Awaited(t)'
    <3>1. tab[t].page = "toEnd" => \A s \in Slots : tab'[t].mut[s] = NoMutation
      BY <1>0, <1>7, NoMutationType DEF Awaited
    <3>2. NoMutation' = NoMutation
      BY DEF NoMutation
    <3> HIDE DEF got
    <3>3. \A s \in Slots : tab'[t].mut[s].pc # "token"
      BY <1>3, <1>7
    <3> QED BY <1>0, <1>7, <3>1, <3>2, <3>3 DEF Awaited
  <2>3. TokenIsFresh(t)'
    <3> SUFFICES ASSUME ~tab[t].behind, ~LeftIt(t) PROVE got = cookie' /\ Live(cookie)'
      BY <1>7, <1>8 DEF TokenIsFresh
    <3> QED BY <1>0, <1>2 DEF TokenIsFresh, new, TokenArrives, Live
  <2>4. GoesFresh(t)'
    <3> SUFFICES ASSUME NEW s \in Slots, tab[t].mut[s].pc = "token" PROVE Sent(s).fresh \/ Sent(s).excused
      BY <1>0, <1>7 DEF GoesFresh
    <3>1. CASE tab[t].behind \/ busy
      BY <1>3, <3>1
    <3>2. CASE ~tab[t].behind /\ ~busy
      <4>1. ~LeftIt(t)
        BY <3>2 DEF LeftIt, busy, SessionChanges
      <4>2. got = new /\ Live(new)
        BY <1>0, <3>2, <4>1 DEF TokenIsFresh, new
      <4> QED BY <1>3, <4>2
    <3> QED BY <3>1, <3>2
  <2> QED BY <2>1, <2>2, <2>3, <2>4 DEF TabHolds
<1>10. TabsHold'
  <2>1. \A u \in Tabs \ {t} : TabHolds(u)'
    <3>1. born <= born' /\ born' \in Nat /\ sess' = sess
      BY <1>0 DEF TokenArrives
    <3> QED BY <1>6, <3>1, OthersHold DEF WebInv, Actor
  <2> QED BY <1>9, <2>1 DEF TabsHold
<1>11. WebTypeOK'
  BY <1>1, <1>2, <1>6 DEF WebInv, WebTypeOK, TokenArrives, Actor
<1>12. StaysOut' /\ NoProvider'
  <2>1. Abroad(t)' = Abroad(t) /\ (Leaves(t) => Leaves(t)')
    BY <1>7, <1>8 DEF Abroad, Leaves
  <2>2. \A u \in Tabs \ {t} : SameTab(u)
    BY <1>6 DEF Actor
  <2> QED BY <1>8, <2>1, <2>2, Here, NobodyComesIn, {t} \in SUBSET Tabs DEF WebInv, TokenArrives
<1> QED BY <1>10, <1>11, <1>12 DEF WebInv

LEMMA MutateHolds ==
  ASSUME WebInv, NEW t \in Tabs, NEW sort \in {"login", "logout", "save"}, Mutate(t, sort)
  PROVE  WebInv'
<1> DEFINE s == SlotOf(sort)
           busy == SessionChanges(t)
           Sent == GoesOut(tab[t], sort, tab[t].token, cookie, busy)
           Waits == [NoMutation EXCEPT !.pc = "token", !.kind = sort]
           m == IF tab[t].token # 0 THEN Sent ELSE Waits
           fetch == IF tab[t].token = 0 /\ tab[t].fetch = "none" THEN "asked" ELSE tab[t].fetch
           mut == [tab[t].mut EXCEPT ![s] = m]
           z == [tab[t] EXCEPT !.mut = mut, !.fetch = fetch]
<1>0. /\ SidsGiven(t) /\ Awaited(t) /\ TokenIsFresh(t) /\ GoesFresh(t) /\ tab[t] \in WebTab /\ tab[t].mut \in Muts
      /\ \A r \in Slots : tab[t].mut[r] \in WebMutation
      /\ born \in 0 .. MaxSids /\ cookie \in 0 .. MaxSids /\ cookie \in 0 .. born
      /\ tab[t].token \in 0 .. MaxSids /\ tab[t].fetch \in TokenFetches
      /\ tab[t].behind \in BOOLEAN /\ busy \in BOOLEAN
      /\ s \in Slots /\ "auth" \in Slots /\ (s = "auth" <=> sort # "save")
      /\ tab[t].mut[s].pc = "idle" /\ tab[t].page \in {"login", "guarded"}
  BY Here DEF Mutate, SessionChanges, SlotOf, Slots, Offered
<1>1. /\ Sent \in WebMutation /\ Sent.pc = "out" /\ Sent.kind = sort /\ Sent.sid = cookie
      /\ (Sent.fresh <=> tab[t].token = cookie /\ Live(cookie)) /\ (Sent.excused <=> tab[t].behind \/ busy)
  <2> DEFINE late == tab[t].behind \/ busy
             fresh == tab[t].token = cookie /\ Live(cookie)
             y == [pc |-> "out", kind |-> sort, sid |-> cookie, token |-> tab[t].token, fresh |-> fresh, excused |-> late]
  <2>1. Sent = y
    BY DEF GoesOut
  <2>2. late \in BOOLEAN /\ fresh \in BOOLEAN
    OBVIOUS
  <2> HIDE DEF late, fresh
  <2>3. y \in WebMutation
    BY <1>0, <2>2 DEF WebMutation
  <2>4. y.pc = "out" /\ y.kind = sort /\ y.sid = cookie /\ (y.fresh <=> fresh) /\ (y.excused <=> late)
    OBVIOUS
  <2> HIDE DEF y
  <2> QED BY <2>1, <2>3, <2>4 DEF late, fresh
<1>2. Waits \in WebMutation /\ Waits.pc = "token" /\ Waits.kind = sort /\ Waits.sid = 0 /\ Waits.fresh
  <2> DEFINE N == 0 .. MaxSids
  <2>1. WebMutation =
        [pc : {"idle", "token", "out", "checked", "ok", "failed"}, kind : {"none", "login", "logout", "save"},
         sid : N, token : N, fresh : BOOLEAN, excused : BOOLEAN]
    BY DEF WebMutation
  <2> HIDE DEF N
  <2>2. \A y \in WebMutation, k \in {"login", "logout", "save"} :
          LET w == [y EXCEPT !.pc = "token", !.kind = k] IN
          w \in WebMutation /\ w.pc = "token" /\ w.kind = k /\ w.sid = y.sid /\ w.fresh = y.fresh
    BY <2>1
  <2>3. NoMutation \in WebMutation /\ NoMutation.sid = 0 /\ NoMutation.fresh
    BY NoMutationType
  <2> HIDE DEF Waits
  <2>4. LET w == Waits IN w \in WebMutation /\ w.pc = "token" /\ w.kind = sort /\ w.sid = NoMutation.sid /\ w.fresh = NoMutation.fresh
    BY ONLY <2>2, <2>3, sort \in {"login", "logout", "save"} DEF Waits
  <2> QED BY <2>3, <2>4
<1> HIDE DEF Sent, Waits, s
<1>3. mut \in Muts /\ fetch \in TokenFetches
  BY <1>0, <1>1, <1>2 DEF Muts, TokenFetches
<1>4. tab' = [tab EXCEPT ![t] = z]
  <2>1. tab' = [tab EXCEPT ![t] =
       IF tab[t].token # 0 THEN [tab[t] EXCEPT !.mut[s] = Sent]
       ELSE [tab[t] EXCEPT !.mut[s] = Waits,
                           !.fetch = IF tab[t].fetch = "none" THEN "asked" ELSE tab[t].fetch]]
    BY DEF Mutate, Sent, Waits, s
  <2>2. CASE tab[t].token # 0
    <3>1. [tab[t] EXCEPT !.mut = mut] = z
      <4>1. fetch = tab[t].fetch
        BY <2>2
      <4> HIDE DEF mut
      <4>2. \A y \in WebTab : \A x \in Muts : [y EXCEPT !.mut = x] = [y EXCEPT !.mut = x, !.fetch = y.fetch]
        BY DEF WebTab, Muts
      <4> QED BY <4>1, <4>2, <1>0, <1>3
    <3>2. [tab[t] EXCEPT !.mut[s] = Sent] = [tab[t] EXCEPT !.mut = mut]
      BY <2>2, <1>0
    <3> HIDE DEF z, mut
    <3> QED BY <2>1, <2>2, <3>1, <3>2
  <2>3. CASE tab[t].token = 0
    <3>1. mut = [tab[t].mut EXCEPT ![s] = Waits] /\ fetch = IF tab[t].fetch = "none" THEN "asked" ELSE tab[t].fetch
      BY <2>3
    <3> HIDE DEF mut, fetch
    <3> QED BY <2>1, <2>3, <3>1
  <2> QED BY <2>2, <2>3, <1>0
<1>5. z \in WebTab /\ TabIs(z, tab[t].page, tab[t].known, tab[t].token, fetch, tab[t].got, mut, tab[t].behind)
  <2> HIDE DEF mut, fetch
  <2> QED BY <1>0, <1>3, TabChanged
<1> HIDE DEF z
<1>6. Actor(t, z)
  BY <1>4, <1>5, OnlyThisTab, Here
<1>7. /\ tab'[t].page = tab[t].page /\ tab'[t].token = tab[t].token /\ tab'[t].fetch = fetch
      /\ tab'[t].got = tab[t].got /\ tab'[t].behind = tab[t].behind
      /\ tab'[t].mut[s] = m /\ \A r \in Slots \ {s} : tab'[t].mut[r] = tab[t].mut[r]
  BY <1>0, <1>5, <1>6 DEF Actor, TabIs, Muts
<1>8. m.kind = sort /\ m.pc \in {"out", "token"} /\ m.sid \in {0, cookie}
      /\ (m.pc = "token" => tab[t].token = 0 /\ m.fresh)
      /\ (m.pc = "out" => tab[t].token # 0)
  BY <1>1, <1>2
<1>9. /\ s = "auth" => ~LeftIt(t)' /\ ~LeftIt(t)
      /\ s # "auth" => (LeftIt(t)' <=> LeftIt(t))
      /\ tab'[t].mut["auth"].kind = "login" => sort = "login" \/ tab[t].mut["auth"].kind = "login"
  BY <1>0, <1>7, <1>8 DEF LeftIt
<1>10. TabHolds(t)'
  <2>1. SidsGiven(t)'
    <3>1. born' = born /\ 0 <= born /\ cookie <= born
      BY <1>0, WebBounds DEF Mutate
    <3> HIDE DEF m
    <3> QED BY <1>0, <1>7, <1>8, <3>1 DEF SidsGiven
  <2>2. Awaited(t)'
    <3>1. fetch \in {"answered", "answeredNew"} => fetch = tab[t].fetch
      OBVIOUS
    <3>2. tab[t].token # 0 => fetch = tab[t].fetch
      OBVIOUS
    <3>3. tab[t].token = 0 \/ tab[t].fetch # "none" => fetch # "none"
      OBVIOUS
    <3> HIDE DEF m, fetch
    <3> QED BY <1>0, <1>7, <1>8, <3>1, <3>2, <3>3 DEF Awaited
  <2>3. TokenIsFresh(t)'
    <3>1. fetch \in {"answered", "answeredNew"} => fetch = tab[t].fetch
      OBVIOUS
    <3> HIDE DEF m, fetch
    <3> QED BY <1>0, <1>7, <1>9, <3>1 DEF TokenIsFresh, Mutate, Live
  <2>4. GoesFresh(t)'
    <3>1. m.fresh \/ m.excused
      <4>1. CASE tab[t].token = 0
        BY <4>1, <1>2
      <4>2. CASE tab[t].token # 0 /\ ~tab[t].behind /\ ~busy
        <5>1. ~LeftIt(t)
          BY <4>2 DEF LeftIt, SessionChanges
        <5> QED BY <4>2, <5>1, <1>0, <1>1 DEF TokenIsFresh
      <4>3. CASE tab[t].token # 0 /\ (tab[t].behind \/ busy)
        BY <4>3, <1>1
      <4> QED BY <4>1, <4>2, <4>3
    <3> HIDE DEF m
    <3> QED BY <1>0, <1>7, <3>1 DEF GoesFresh
  <2> QED BY <2>1, <2>2, <2>3, <2>4 DEF TabHolds
<1>11. WebTypeOK' /\ TabsHold'
  <2>1. signedOut' \in BOOLEAN /\ clicks' \in 0 .. MaxClicks
    BY Clicked DEF Mutate, WebInv, WebTypeOK
  <2> QED BY <1>6, <1>10, <2>1, SameSession DEF Mutate, WebInv, WebTypeOK
<1>12. StaysOut' /\ NoProvider'
  <2>1. Abroad(t)' = Abroad(t) /\ (Leaves(t) => Leaves(t)')
    BY <1>0, <1>7, <1>9 DEF Abroad, Leaves
  <2>2. \A u \in Tabs \ {t} : SameTab(u)
    BY <1>6 DEF Actor
  <2>3. CASE sort # "login"
    BY <1>9, <2>1, <2>2, <2>3, Here, NobodyComesIn, {t} \in SUBSET Tabs DEF WebInv, Mutate
  <2>4. CASE sort = "login"
    <3>1. StaysOut'
      BY <2>4 DEF StaysOut, Mutate
    <3>2. NoProvider'
      BY <2>1, <2>2 DEF NoProvider, WebInv, Mutate, SameTab, TabIs, Abroad
    <3> QED BY <3>1, <3>2
  <2> QED BY <2>3, <2>4
<1> QED BY <1>11, <1>12 DEF WebInv

\* The answer of the server to a request.
LEMMA Answers ==
  ASSUME WebInv, NEW t \in Tabs, NEW s \in Slots, NEW pc \in {"checked", "ok", "failed"},
         tab[t].mut[s].pc \in {"out", "checked"},
         pc \in {"checked", "ok"} => tab[t].mut[s].sid # 0,
         born' = born, cookie' = cookie,
         \/ WebAnswer(t, s, pc) /\ DOMAIN sess \subseteq DOMAIN sess'
         \/ /\ tab' = Surprised([tab EXCEPT ![t].mut[s].pc = pc], t)
            /\ s = "auth" /\ pc = "ok" /\ tab[t].mut["auth"].kind = "logout"
  PROVE  /\ tab' \in [Tabs -> WebTab] /\ TabsHold' /\ \A u \in Tabs \ {t} : SameTab(u)
         /\ tab'[t].page = tab[t].page /\ tab'[t].mut[s].pc = pc /\ tab'[t].mut["auth"].kind = tab[t].mut["auth"].kind
         /\ Leaves(t) => Leaves(t)'
<1> DEFINE was == tab[t].mut[s]
           m == [was EXCEPT !.pc = pc]
           mut == [tab[t].mut EXCEPT ![s] = m]
           z == [tab[t] EXCEPT !.mut = mut]
<1>0. tab[t] \in WebTab /\ tab[t].mut \in [Slots -> WebMutation] /\ was \in WebMutation /\ "auth" \in Slots
  BY Here DEF Muts, Slots
<1>1. [tab EXCEPT ![t].mut[s].pc = pc] = [tab EXCEPT ![t] = z]
  OBVIOUS
<1> HIDE DEF was
<1>2. m \in WebMutation /\ m.pc = pc /\ m.kind = was.kind /\ m.sid = was.sid
  <2>1. pc \in {"idle", "token", "out", "checked", "ok", "failed"}
    OBVIOUS
  <2>2. was \in WebMutation
    BY <1>0
  <2> QED BY ONLY <2>1, <2>2, PutAt
<1>3. m = [was EXCEPT !.pc = m.pc]
  BY <1>2
<1> HIDE DEF m
<1>4. mut \in Muts
  BY <1>0, <1>2 DEF Muts
<1>5. z \in WebTab /\ TabIs(z, tab[t].page, tab[t].known, tab[t].token, tab[t].fetch, tab[t].got, mut, tab[t].behind)
  <2> HIDE DEF mut
  <2> QED BY <1>0, <1>4, TabChanged
<1> HIDE DEF z
<1>6. Actor(t, z) /\ (tab' = [tab EXCEPT ![t] = z] \/ \A u \in Tabs \ {t} : tab'[u].behind)
  BY <1>1, <1>5, OnlyThisTab, OthersSurprised, Here DEF WebAnswer
<1>7. /\ tab'[t].page = tab[t].page /\ tab'[t].mut[s] = m /\ \A r \in Slots \ {s} : tab'[t].mut[r] = tab[t].mut[r]
  BY <1>0, <1>5, <1>6 DEF Actor, TabIs
<1>8. /\ s = "auth" => ~LeftIt(t)
      /\ s = "auth" /\ pc = "ok" /\ tab[t].mut["auth"].kind = "logout" => LeftIt(t)'
      /\ s # "auth" => (LeftIt(t)' <=> LeftIt(t))
      /\ tab'[t].mut["auth"].kind = tab[t].mut["auth"].kind
  BY <1>0, <1>2, <1>7 DEF LeftIt, was
<1>9. TabHolds(t)'
  <2>1. \/ DOMAIN sess \subseteq DOMAIN sess' /\ ~LeftIt(t)
        \/ LeftIt(t)'
        \/ DOMAIN sess \subseteq DOMAIN sess' /\ s = "save"
    BY <1>8 DEF Slots
  <2>2. was.pc \notin {"idle", "token"} /\ (m.pc \in {"checked", "ok"} => m.sid # 0) /\ m.pc \in {"checked", "ok", "failed"}
    BY <1>2 DEF was
  <2> HIDE DEF mut
  <2>3. TabIs(z, tab[t].page, tab[t].known, tab[t].token, tab[t].fetch, tab[t].got,
               [tab[t].mut EXCEPT ![s] = m], tab[t].behind)
    BY <1>5 DEF mut
  <2>4. tab[t].mut[s].pc \notin {"idle", "token"} /\ m = [tab[t].mut[s] EXCEPT !.pc = m.pc]
    BY <2>2, <1>3 DEF was
  <2>5. tab[t].mut[s].pc # "idle"
    BY <2>4
  <2> QED BY ONLY <1>2, <1>6, <2>1, <2>2, <2>3, <2>4, <2>5, PlacedHolds, WebInv, t \in Tabs, s \in Slots, born' = born, cookie' = cookie
<1>10. TabsHold'
  <2>1. born <= born' /\ born' \in Nat
    BY Here, WebBounds
  <2>2. \A u \in Tabs \ {t} : TabHolds(u)'
    <3>1. \A u \in Tabs \ {t} : SameTab(u)
      BY <1>6 DEF Actor
    <3>2. \/ \A u \in Tabs \ {t} : tab'[u].behind
          \/ cookie' = cookie /\ DOMAIN sess \subseteq DOMAIN sess'
      <4>1. CASE WebAnswer(t, s, pc) /\ DOMAIN sess \subseteq DOMAIN sess'
        BY <4>1
      <4>2. CASE tab' = Surprised([tab EXCEPT ![t].mut[s].pc = pc], t)
        BY <4>2, <1>0, <1>1, <1>5, OthersSurprised, Here
      <4> QED BY <4>1, <4>2
    <3> QED BY <2>1, <3>1, <3>2, OthersHold DEF WebInv
  <2> QED BY <1>9, <2>2 DEF TabsHold
<1>11. Leaves(t) => Leaves(t)'
  BY <1>7, <1>8 DEF Leaves
<1> QED BY <1>2, <1>6, <1>7, <1>8, <1>10, <1>11 DEF Actor

LEMMA RefuseHolds == ASSUME WebInv, NEW t \in Tabs, NEW s \in Slots, Refuse(t, s) PROVE WebInv'
<1>1. /\ WebAnswer(t, s, "failed") /\ tab[t].mut[s].pc = "out" /\ UNCHANGED <<config, sess, born, cookie, idp, signedOut, slipped, clicks>>
  BY DEF Refuse
<1>2. /\ tab' \in [Tabs -> WebTab] /\ TabsHold' /\ \A u \in Tabs \ {t} : SameTab(u)
      /\ tab'[t].page = tab[t].page /\ tab'[t].mut["auth"].kind = tab[t].mut["auth"].kind /\ (Leaves(t) => Leaves(t)')
  BY <1>1, Answers
<1>3. WebTypeOK'
  <2>1. mishaps' \in 0 .. MaxMishaps
    BY Clicked DEF Refuse, WebInv, WebTypeOK
  <2> QED BY <1>1, <1>2, <2>1 DEF WebInv, WebTypeOK
<1>4. StaysOut' /\ NoProvider'
  BY <1>1, <1>2, Here, NobodyComesIn, {t} \in SUBSET Tabs DEF WebInv, Abroad
<1> QED BY <1>2, <1>3, <1>4 DEF WebInv

LEMMA SaveSomethingHolds == ASSUME WebInv, NEW t \in Tabs, SaveSomething(t) PROVE WebInv'
<1> DEFINE m == tab[t].mut["save"]
           pc == IF SignedIn(m.sid) THEN "ok" ELSE "failed"
<1>1. /\ WebAnswer(t, "save", pc) /\ m.pc = "out" /\ Guarded(m) /\ pc \in {"ok", "failed"} /\ "save" \in Slots
      /\ UNCHANGED <<config, sess, born, cookie, idp, signedOut, slipped, clicks, mishaps>>
  BY DEF SaveSomething, Slots
<1>2. m.sid # 0
  BY <1>1, Here DEF Guarded, Live
<1> HIDE DEF pc
<1>3. /\ tab' \in [Tabs -> WebTab] /\ TabsHold' /\ \A u \in Tabs \ {t} : SameTab(u)
      /\ tab'[t].page = tab[t].page /\ tab'[t].mut["auth"].kind = tab[t].mut["auth"].kind /\ (Leaves(t) => Leaves(t)')
  BY <1>1, <1>2, Answers
<1>4. WebTypeOK'
  BY <1>1, <1>3 DEF WebInv, WebTypeOK
<1>5. StaysOut' /\ NoProvider'
  BY <1>1, <1>3, Here, NobodyComesIn, {t} \in SUBSET Tabs DEF WebInv, Abroad
<1> QED BY <1>3, <1>4, <1>5 DEF WebInv

LEMMA CheckLoginHolds == ASSUME WebInv, NEW t \in Tabs, CheckLogin(t) PROVE WebInv'
<1> DEFINE m == tab[t].mut["auth"]
<1>1. /\ WebAnswer(t, "auth", "checked") /\ m.pc = "out" /\ Guarded(m) /\ "auth" \in Slots
      /\ UNCHANGED <<config, sess, born, cookie, idp, signedOut, slipped, clicks, mishaps>>
  BY DEF CheckLogin, Slots
<1>2. m.sid # 0
  BY <1>1, Here DEF Guarded, Live
<1>3. /\ tab' \in [Tabs -> WebTab] /\ TabsHold' /\ \A u \in Tabs \ {t} : SameTab(u)
      /\ tab'[t].page = tab[t].page /\ tab'[t].mut["auth"].kind = tab[t].mut["auth"].kind /\ (Leaves(t) => Leaves(t)')
  BY <1>1, <1>2, Answers
<1>4. WebTypeOK'
  BY <1>1, <1>3 DEF WebInv, WebTypeOK
<1>5. StaysOut' /\ NoProvider'
  BY <1>1, <1>3, Here, NobodyComesIn, {t} \in SUBSET Tabs DEF WebInv, Abroad
<1> QED BY <1>3, <1>4, <1>5 DEF WebInv

\* A sign-in by password ends with its session's user set, whatever has become of it; so
\* none may be under way after a sign-out that promises anything.
LEMMA ActivateSessionHolds == ASSUME WebInv, NEW t \in Tabs, ActivateSession(t) PROVE WebInv'
<1> DEFINE m == tab[t].mut["auth"]
           s == [NewSession EXCEPT !.user = TRUE, !.csrf = TRUE]
<1>1. /\ WebAnswer(t, "auth", "ok") /\ m.pc = "checked" /\ m.kind = "login" /\ "auth" \in Slots /\ sess' = Put(m.sid, s)
      /\ UNCHANGED <<config, born, cookie, idp, signedOut, slipped, clicks, mishaps>>
  BY DEF ActivateSession, Slots
<1>2. m.sid # 0 /\ m.sid \in 1 .. born
  <2>1. SidsGiven(t) /\ m \in WebMutation
    BY <1>1, Here
  <2>2. m.sid # 0 /\ m.sid <= born
    BY <1>1, <2>1 DEF SidsGiven
  <2>3. m.sid \in 0 .. MaxSids
    BY <2>1, MutationAt
  <2>4. born \in 0 .. MaxSids
    BY Here
  <2> QED BY <2>2, <2>3, <2>4, WebBounds
<1>3. s \in WebSessions
  BY DEF NewSession, WebSessions
<1> HIDE DEF s
<1>4. /\ sess' \in [DOMAIN sess' -> WebSessions] /\ DOMAIN sess' = DOMAIN sess \cup {m.sid}
      /\ DOMAIN sess' \subseteq 1 .. born'
  BY <1>1, <1>2, <1>3, SessionPut DEF WebInv
<1>5. /\ tab' \in [Tabs -> WebTab] /\ TabsHold' /\ \A u \in Tabs \ {t} : SameTab(u)
      /\ tab'[t].page = tab[t].page
  <2>1. DOMAIN sess \subseteq DOMAIN sess'
    BY <1>4
  <2> QED BY <1>1, <1>2, <2>1, Answers
<1>6. WebTypeOK'
  BY <1>1, <1>4, <1>5 DEF WebInv, WebTypeOK
<1>7. StaysOut'
  BY <1>1 DEF StaysOut, NobodyIsIn, WebInv
<1>8. NoProvider'
  BY <1>1, <1>5 DEF NoProvider, WebInv, SameTab, TabIs, Abroad
<1> QED BY <1>5, <1>6, <1>7, <1>8 DEF WebInv

\* What a sign-out leaves behind, unless a sign-in is in progress: nobody is in, and the
\* provider is still to be told.
LEMMA LogoutHolds == ASSUME WebInv, NEW t \in Tabs, Logout(t) PROVE WebInv'
<1> DEFINE m == tab[t].mut["auth"]
<1>1. /\ tab' = Surprised([tab EXCEPT ![t].mut["auth"].pc = "ok"], t) /\ m.pc = "out" /\ m.kind = "logout" /\ Guarded(m)
      /\ "auth" \in Slots /\ sess' = DestroySession(m.sid) /\ signedOut' = TRUE /\ slipped' = (slipped \/ InProgress(m.sid))
      /\ UNCHANGED <<config, born, cookie, idp, clicks, mishaps>>
  BY DEF Logout, Slots
<1>2. m.sid # 0
  BY <1>1, Here DEF Guarded, Live
<1>3. /\ sess' \in [DOMAIN sess' -> WebSessions] /\ DOMAIN sess' = DOMAIN sess \ {m.sid}
      /\ DOMAIN sess' \subseteq 1 .. born' /\ \A j \in DOMAIN sess' : sess'[j] = sess[j]
  BY <1>1, SessionGone DEF WebInv
<1>4. /\ tab' \in [Tabs -> WebTab] /\ TabsHold' /\ \A u \in Tabs \ {t} : SameTab(u)
      /\ tab'[t].page = tab[t].page /\ tab'[t].mut["auth"].kind = m.kind /\ tab'[t].mut["auth"].pc = "ok"
  BY <1>1, <1>2, Answers
<1>5. WebTypeOK'
  <2>1. slipped' \in BOOLEAN
    BY <1>1 DEF WebInv, WebTypeOK, InProgress
  <2> QED BY <1>1, <1>3, <1>4, <2>1 DEF WebInv, WebTypeOK
<1>6. StaysOut'
  <2> SUFFICES ASSUME ~InProgress(m.sid) PROVE NobodyIsIn'
    BY <1>1 DEF StaysOut
  <2>1. \A k \in DOMAIN sess' : ~sess'[k].user
    BY <1>3 DEF InProgress
  <2>2. \A u \in Tabs : tab'[u].page = tab[u].page /\ tab'[u].mut["auth"].kind = tab[u].mut["auth"].kind
    BY <1>4 DEF SameTab, TabIs
  <2>3. Leaving'
    BY <1>1, <1>4 DEF Leaving
  <2> QED BY <2>1, <2>2, <2>3 DEF NobodyIsIn, InProgress, Abroad
<1>7. NoProvider'
  BY <1>1, <1>4 DEF NoProvider, WebInv, SameTab, TabIs, Abroad
<1> QED BY <1>4, <1>5, <1>6, <1>7 DEF WebInv

LEMMA ContinueWithSsoHolds == ASSUME WebInv, NEW t \in Tabs, ContinueWithSso(t) PROVE WebInv'
<1> DEFINE z == [tab[t] EXCEPT !.page = "toIdp"]
<1>0. "toIdp" \in PageNames \ {"toEnd"}
  BY DEF PageNames
<1>1. z \in WebTab /\ TabIs(z, "toIdp", tab[t].known, tab[t].token, tab[t].fetch, tab[t].got, tab[t].mut, tab[t].behind)
  BY <1>0, TabChanged, Here
<1>2. tab' = [tab EXCEPT ![t] = z]
  BY DEF ContinueWithSso
<1> HIDE DEF z
<1>3. Actor(t, z)
  BY <1>1, <1>2, OnlyThisTab, Here
<1>4. TabHolds(t)'
  BY <1>0, <1>1, <1>3, MovedHolds DEF ContinueWithSso
<1>5. WebTypeOK' /\ TabsHold'
  <2>1. clicks' \in 0 .. MaxClicks
    BY Clicked DEF ContinueWithSso, WebInv
  <2> QED BY <1>3, <1>4, <2>1, SameSession DEF ContinueWithSso, WebInv, WebTypeOK
<1>6. StaysOut' /\ NoProvider'
  BY DEF ContinueWithSso, StaysOut, NoProvider
<1> QED BY <1>5, <1>6 DEF WebInv

LEMMA OidcLoginHolds == ASSUME WebInv, NEW t \in Tabs, OidcLogin(t) PROVE WebInv'
<1> DEFINE s == [SessionFor(cookie) EXCEPT !.pending = t]
           got == SidFor(cookie)
           z == PageLoaded("atIdp")
<1>0. "atIdp" \in PageNames
  BY DEF PageNames
<1>1. s \in WebSessions /\ s.user = SessionFor(cookie).user /\ (s.user => Live(cookie) /\ sess[cookie].user)
  BY CookieSession DEF WebInv
<1>2. /\ Store(cookie, s) /\ cookie' = got
      /\ \/ tab' = [tab EXCEPT ![t] = z] /\ cookie' = cookie
         \/ tab' = Surprised([tab EXCEPT ![t] = z], t)
  BY DEF OidcLogin
<1> HIDE DEF s
<1>3. /\ sess' \in [DOMAIN sess' -> WebSessions] /\ DOMAIN sess' = DOMAIN sess \cup {got}
      /\ DOMAIN sess' \subseteq 1 .. born' /\ born' \in 0 .. MaxSids /\ born <= born'
      /\ got \in 1 .. born' /\ (Live(cookie) => got = cookie)
      /\ sess'[got] = s /\ \A k \in DOMAIN sess \ {got} : sess'[k] = sess[k]
  BY <1>1, <1>2, Stored DEF WebInv
<1> HIDE DEF got
<1>4. z \in WebTab
  BY <1>0, LoadedTab
<1> HIDE DEF z
<1>5. Actor(t, z) /\ \/ cookie' = cookie
                     \/ \A u \in Tabs \ {t} : tab'[u].behind
  BY <1>2, <1>4, OnlyThisTab, OthersSurprised, Here
<1>6. born' \in Nat
  BY <1>3
<1>7. TabHolds(t)' /\ tab'[t].page = "atIdp" /\ tab'[t].mut["auth"].kind = "none"
  BY <1>0, <1>5, <1>6, LoadedHolds DEF z
<1>8. TabsHold'
  <2>1. \A u \in Tabs \ {t} : TabHolds(u)'
    BY <1>3, <1>5, <1>6, OthersHold DEF WebInv, Actor
  <2> QED BY <1>7, <2>1 DEF TabsHold
<1>9. WebTypeOK'
  <2>1. cookie' \in 0 .. born'
    BY <1>2, <1>3
  <2> QED BY <1>3, <1>5, <2>1 DEF WebInv, WebTypeOK, OidcLogin, Actor
<1>10. StaysOut' /\ NoProvider'
  <2>1. \A k \in DOMAIN sess' : sess'[k].user => k \in DOMAIN sess /\ sess[k].user
    BY <1>1, <1>3 DEF Live
  <2>2. Abroad(t)
    BY DEF OidcLogin, Abroad
  <2>3. \A u \in Tabs \ {t} : SameTab(u)
    BY <1>5 DEF Actor
  <2> QED BY <1>7, <2>1, <2>2, <2>3, Here, NobodyComesIn, {t} \in SUBSET Tabs DEF WebInv, OidcLogin
<1> QED BY <1>8, <1>9, <1>10 DEF WebInv

LEMMA OidcCallbackHolds == ASSUME WebInv, NEW t \in Tabs, OidcCallback(t) PROVE WebInv'
<1> DEFINE ours == Live(cookie) /\ sess[cookie].pending = t
           page == IF ours THEN "guarded" ELSE "failed"
           z == PageLoaded(page)
           s == [sess[cookie] EXCEPT !.pending = Nobody, !.user = sess[cookie].user \/ ours]
<1>1. page \in PageNames \ {"toEnd", "toIdp", "atIdp"}
  BY DEF PageNames
<1>2. /\ tab' = [tab EXCEPT ![t] = z] /\ UNCHANGED <<config, born, cookie, slipped, mishaps>> /\ tab[t].page = "atIdp"
      /\ sess' = IF ~Live(cookie) THEN sess ELSE Put(cookie, s)
      /\ idp' = TRUE /\ IF ~idp THEN Click(t) /\ signedOut' = FALSE ELSE UNCHANGED <<clicks, signedOut>>
  BY DEF OidcCallback
<1>3. Live(cookie) => s \in WebSessions
  <2> SUFFICES ASSUME Live(cookie) PROVE s \in WebSessions
    OBVIOUS
  <2>1. sess[cookie] \in WebSessions
    BY DEF Live, WebInv, WebTypeOK
  <2>2. \A y \in WebSessions, b \in BOOLEAN : [y EXCEPT !.pending = Nobody, !.user = b] \in WebSessions
    BY DEF WebSessions
  <2>3. (sess[cookie].user \/ ours) \in BOOLEAN
    OBVIOUS
  <2> QED BY <2>1, <2>2, <2>3
<1> HIDE DEF s, page
<1>4. sess' \in [DOMAIN sess' -> WebSessions] /\ DOMAIN sess' = DOMAIN sess /\ DOMAIN sess' \subseteq 1 .. born'
  <2>1. CASE ~Live(cookie)
    BY <1>2, <2>1 DEF WebInv, WebTypeOK
  <2>2. CASE Live(cookie)
    <3>1. cookie \in 1 .. born
      BY <2>2, Here DEF Live
    <3> QED BY <1>2, <1>3, <2>2, <3>1, SessionPut DEF WebInv, Live
  <2> QED BY <2>1, <2>2
<1>5. z \in WebTab
  BY <1>1, LoadedTab
<1> HIDE DEF z
<1>6. Actor(t, z)
  BY <1>2, <1>5, OnlyThisTab, Here
<1>7. born <= born' /\ born' \in Nat /\ DOMAIN sess \subseteq DOMAIN sess'
  BY <1>2, <1>4, Here
<1>8. TabHolds(t)' /\ tab'[t].page = page
  BY <1>1, <1>6, <1>7, LoadedHolds DEF z
<1>9. TabsHold'
  <2>1. \A u \in Tabs \ {t} : TabHolds(u)'
    BY <1>2, <1>6, <1>7, OthersHold DEF WebInv, Actor
  <2> QED BY <1>8, <2>1 DEF TabsHold
<1>10. WebTypeOK'
  <2>1. clicks' \in 0 .. MaxClicks /\ signedOut' \in BOOLEAN
    BY <1>2, Clicked DEF WebInv, WebTypeOK
  <2> QED BY <1>2, <1>4, <1>6, <2>1 DEF WebInv, WebTypeOK, Actor
<1>11. StaysOut'
  <2> SUFFICES ASSUME signedOut', config' # "plain", ~slipped' PROVE FALSE
    BY DEF StaysOut
  <2>1. idp /\ NobodyIsIn
    BY <1>2 DEF StaysOut, WebInv
  <2> QED BY <1>2, <2>1 DEF NobodyIsIn, Abroad
<1>12. NoProvider'
  BY <1>2 DEF NoProvider, WebInv, Abroad
<1> QED BY <1>9, <1>10, <1>11, <1>12 DEF WebInv

LEMMA EndSessionHolds == ASSUME WebInv, NEW t \in Tabs, EndSession(t) PROVE WebInv'
<1> DEFINE z == PageLoaded("loggedOut")
<1>1. "loggedOut" \in PageNames
  BY DEF PageNames
<1>2. Actor(t, z)
  BY <1>1, LoadedTab, OnlyThisTab, Here DEF EndSession
<1> HIDE DEF z
<1>3. TabHolds(t)' /\ tab'[t].page = "loggedOut" /\ tab'[t].mut["auth"].kind = "none"
  BY <1>1, <1>2, LoadedHolds, Here DEF EndSession, z
<1>4. WebTypeOK' /\ TabsHold'
  BY <1>2, <1>3, SameSession DEF EndSession, WebInv, WebTypeOK
<1>5. StaysOut' /\ NoProvider'
  <2>1. ~Abroad(t)' /\ ~idp'
    BY <1>3 DEF Abroad, EndSession
  <2>2. \A u \in Tabs \ {t} : SameTab(u)
    BY <1>2 DEF Actor
  <2> QED BY <1>3, <2>1, <2>2, Here, NobodyComesIn, {t} \in SUBSET Tabs DEF WebInv, EndSession
<1> QED BY <1>4, <1>5 DEF WebInv

LEMMA ExpireHolds == ASSUME WebInv, Expire PROVE WebInv'
<1>1. /\ Live(cookie) /\ Mishap /\ sess' = DestroySession(cookie) /\ cookie' = 0
      /\ tab' = [t \in Tabs |-> [tab[t] EXCEPT !.behind = TRUE]]
      /\ UNCHANGED <<config, born, idp, signedOut, slipped, clicks>>
  BY DEF Expire
<1>2. tab \in [Tabs -> WebTab] /\ born \in Nat
  BY WebBounds DEF WebInv, WebTypeOK
<1>3. \A t \in Tabs : /\ tab'[t] \in WebTab
                      /\ TabIs(tab'[t], tab[t].page, tab[t].known, tab[t].token, tab[t].fetch, tab[t].got, tab[t].mut, TRUE)
  BY <1>1, <1>2, TabChanged
<1>4. tab' \in [Tabs -> WebTab] /\ \A t \in Tabs : SameTab(t) /\ tab'[t].behind
  BY <1>1, <1>3 DEF SameTab, TabIs
<1>5. /\ sess' \in [DOMAIN sess' -> WebSessions] /\ DOMAIN sess' = DOMAIN sess \ {cookie}
      /\ DOMAIN sess' \subseteq 1 .. born' /\ \A j \in DOMAIN sess' : sess'[j] = sess[j]
  BY <1>1, SessionGone DEF WebInv
<1>6. TabsHold'
  BY <1>1, <1>2, <1>4, OthersHold, Tabs \in SUBSET Tabs DEF WebInv, TabsHold
<1>7. WebTypeOK'
  <2>1. mishaps' \in 0 .. MaxMishaps
    BY <1>1, Clicked DEF WebInv
  <2>2. cookie' \in 0 .. born'
    BY <1>1, <1>2
  <2> QED BY <1>1, <1>4, <1>5, <2>1, <2>2 DEF WebInv, WebTypeOK
<1>8. StaysOut' /\ NoProvider'
  <2>1. config \in {"none", "plain", "ends"} /\ {} \in SUBSET Tabs
    BY DEF WebInv, WebTypeOK
  <2> QED BY <1>1, <1>4, <1>5, <2>1, NobodyComesIn DEF WebInv
<1> QED BY <1>6, <1>7, <1>8 DEF WebInv

LEMMA SaveAnsweredHolds == ASSUME WebInv, NEW t \in Tabs, SaveAnswered(t) PROVE WebInv'
<1> DEFINE mut == [tab[t].mut EXCEPT !["save"] = NoMutation]
           z == [tab[t] EXCEPT !.mut = mut]
<1>1. tab[t].mut \in [Slots -> WebMutation] /\ "save" \in Slots /\ "auth" \in Slots /\ tab[t] \in WebTab
  BY Here DEF Muts, Slots
<1>2. mut \in Muts
  BY <1>1, NoMutationType DEF Muts
<1>3. tab' = [tab EXCEPT ![t] = z] /\ tab[t].mut["save"].pc \in {"ok", "failed"}
  BY DEF SaveAnswered
<1>4. z \in WebTab /\ TabIs(z, tab[t].page, tab[t].known, tab[t].token, tab[t].fetch, tab[t].got, mut, tab[t].behind)
  <2> HIDE DEF mut
  <2> QED BY <1>1, <1>2, TabChanged
<1> HIDE DEF z
<1>5. Actor(t, z)
  BY <1>3, <1>4, OnlyThisTab, Here
<1>6. tab'[t].page = tab[t].page /\ tab'[t].mut["auth"] = tab[t].mut["auth"]
  BY <1>1, <1>4, <1>5 DEF Actor, TabIs
<1>7. TabHolds(t)'
  <2>1. sess' = sess /\ born' = born /\ cookie' = cookie /\ tab[t].mut["save"].pc # "idle"
    BY <1>3 DEF SaveAnswered
  <2> QED BY <1>1, <1>4, <1>5, <2>1, PlacedHolds, NoMutationType
<1>8. WebTypeOK' /\ TabsHold'
  BY <1>5, <1>7, SameSession DEF SaveAnswered, WebInv, WebTypeOK
<1>9. StaysOut' /\ NoProvider'
  <2>1. Abroad(t)' = Abroad(t) /\ (Leaves(t) => Leaves(t)')
    BY <1>6 DEF Abroad, Leaves, LeftIt
  <2>2. \A u \in Tabs \ {t} : SameTab(u)
    BY <1>5 DEF Actor
  <2> QED BY <1>6, <2>1, <2>2, Here, NobodyComesIn, {t} \in SUBSET Tabs DEF WebInv, SaveAnswered
<1> QED BY <1>8, <1>9 DEF WebInv

\* A page whose own sign-in or sign-out is over, and which has dropped its token.
LEMMA DroppedHolds ==
  ASSUME WebInv, NEW t \in Tabs, tab[t].mut["auth"].pc \in {"ok", "failed"}, NEW page \in PageNames \ {"toEnd"},
         NEW known, NEW z,
         TabIs(z, page, known, 0, tab[t].fetch, tab[t].got, [tab[t].mut EXCEPT !["auth"] = NoMutation], FALSE),
         Actor(t, z), born' = born
  PROVE  TabHolds(t)'
<1>0. SidsGiven(t) /\ Awaited(t) /\ GoesFresh(t) /\ tab[t].mut \in [Slots -> WebMutation] /\ "auth" \in Slots /\ 0 <= born
  BY Here DEF Muts, Slots
<1>1. /\ tab'[t].page = page /\ tab'[t].token = 0 /\ tab'[t].fetch = tab[t].fetch
      /\ tab'[t].got = tab[t].got /\ tab'[t].behind = FALSE
      /\ tab'[t].mut["auth"] = NoMutation /\ \A r \in Slots \ {"auth"} : tab'[t].mut[r] = tab[t].mut[r]
  BY <1>0 DEF TabIs, Actor
<1>2. tab[t].fetch = "none"
  BY <1>0 DEF Awaited
<1>3. SidsGiven(t)'
  BY <1>0, <1>1, NoMutationType DEF SidsGiven
<1>4. Awaited(t)'
  BY <1>0, <1>1, <1>2, NoMutationType DEF Awaited
<1>5. TokenIsFresh(t)'
  BY <1>1, <1>2 DEF TokenIsFresh
<1>6. GoesFresh(t)'
  BY <1>0, <1>1, NoMutationType DEF GoesFresh
<1> QED BY <1>3, <1>4, <1>5, <1>6 DEF TabHolds

LEMMA DroppedTab ==
  ASSUME NEW y \in WebTab, NEW page \in PageNames, NEW known \in Knows, NEW mut \in Muts
  PROVE  LET w == [y EXCEPT !.mut = mut, !.token = 0, !.behind = FALSE, !.known = known, !.page = page] IN
         w \in WebTab /\ TabIs(w, page, known, 0, y.fetch, y.got, mut, FALSE)
<1> DEFINE N == 0 .. MaxSids
<1>1. WebTab = [page : PageNames, known : Knows, token : N, fetch : TokenFetches, got : N, mut : Muts, behind : BOOLEAN]
  BY DEF WebTab, PageNames, Knows, TokenFetches, Muts
<1>2. 0 \in N
  BY WebBounds
<1> HIDE DEF N
<1> QED BY <1>1, <1>2 DEF TabIs

LEMMA LoginAnsweredHolds == ASSUME WebInv, NEW t \in Tabs, LoginAnswered(t) PROVE WebInv'
<1> DEFINE m == tab[t].mut["auth"]
           page == Shows(tab[t].page, "yes")
           mut == [tab[t].mut EXCEPT !["auth"] = NoMutation]
           z == [tab[t] EXCEPT !.mut = mut, !.token = 0, !.behind = FALSE, !.known = "yes", !.page = page]
           y == [tab[t] EXCEPT !.mut = mut]
<1>0. /\ m.kind = "login" /\ m.pc \in {"ok", "failed"} /\ "auth" \in Slots
      /\ UNCHANGED <<config, sess, born, idp, signedOut, slipped, clicks, mishaps>>
      /\ ~LeftIt(t) /\ tab[t] \in WebTab /\ tab[t].mut \in [Slots -> WebMutation]
  BY Here DEF LoginAnswered, LeftIt, Slots, Muts
<1>1. mut \in Muts /\ mut["auth"].kind = "none"
  BY <1>0, NoMutationType DEF Muts
<1>2. page \in PageNames \ {"toEnd"} /\ (page \in {"toIdp", "atIdp"} => page = tab[t].page)
  <2>1. tab[t].page # "toEnd"
    <3>1. m # NoMutation
      BY <1>0, NoMutationType
    <3> QED BY <3>1, <1>0, Here DEF Awaited
  <2> QED BY <2>1, Here DEF Shows, LoginShows, PageNames
<1>3. \/ m.pc = "failed" /\ tab' = [tab EXCEPT ![t] = y] /\ cookie' = cookie
      \/ /\ m.pc = "ok" /\ cookie' = m.sid
         /\ \/ tab' = [tab EXCEPT ![t] = z] /\ cookie' = cookie
            \/ tab' = Surprised([tab EXCEPT ![t] = z], t)
  <2>1. CASE m.pc = "failed"
    BY <1>0, <2>1 DEF LoginAnswered
  <2>2. CASE m.pc = "ok"
    <3>1. z = [tab[t] EXCEPT !.mut["auth"] = NoMutation, !.token = 0, !.behind = FALSE, !.known = "yes", !.page = page]
      OBVIOUS
    <3> HIDE DEF z
    <3> QED BY <1>0, <2>2, <3>1 DEF LoginAnswered
  <2> QED BY <1>0, <2>1, <2>2
<1> HIDE DEF page
<1>4. y \in WebTab /\ TabIs(y, tab[t].page, tab[t].known, tab[t].token, tab[t].fetch, tab[t].got, mut, tab[t].behind)
  <2> HIDE DEF mut
  <2> QED BY <1>0, <1>1, TabChanged
<1>5. z \in WebTab /\ TabIs(z, page, "yes", 0, tab[t].fetch, tab[t].got, mut, FALSE)
  <2> HIDE DEF mut
  <2>1. "yes" \in Knows
    BY DEF Knows
  <2> QED BY <1>0, <1>1, <1>2, <2>1, DroppedTab
<1> HIDE DEF y, z
<1>6. /\ \/ Actor(t, y) /\ m.pc = "failed" /\ cookie' = cookie
         \/ Actor(t, z) /\ m.pc = "ok" /\ cookie' = m.sid
      /\ \/ cookie' = cookie
         \/ \A u \in Tabs \ {t} : tab'[u].behind
  BY <1>3, <1>4, <1>5, OnlyThisTab, OthersSurprised, Here
<1>7. TabHolds(t)'
  <2>1. CASE Actor(t, y) /\ m.pc = "failed" /\ cookie' = cookie
    <3>1. m.pc # "idle" /\ DOMAIN sess \subseteq DOMAIN sess'
      BY <1>0
    <3> QED BY <1>0, <1>4, <2>1, <3>1, PlacedHolds, NoMutationType DEF mut
  <2>2. CASE Actor(t, z)
    BY <1>0, <1>2, <1>5, <2>2, DroppedHolds
  <2> QED BY <1>6, <2>1, <2>2
<1>8. tab' \in [Tabs -> WebTab] /\ \A u \in Tabs \ {t} : SameTab(u)
  BY <1>6 DEF Actor
<1>9. TabsHold'
  <2>1. born <= born' /\ born' \in Nat /\ sess' = sess
    BY <1>0, Here
  <2>2. \A u \in Tabs \ {t} : TabHolds(u)'
    BY <1>6, <1>8, <2>1, OthersHold DEF WebInv
  <2> QED BY <1>7, <2>2 DEF TabsHold
<1>10. WebTypeOK'
  <2>1. cookie' \in 0 .. born'
    <3>1. m \in WebMutation /\ m.sid <= born
      BY <1>0, Here DEF SidsGiven
    <3>2. m.sid \in 0 .. MaxSids
      BY <3>1, MutationAt
    <3> QED BY <1>0, <1>6, <3>1, <3>2, Here
  <2> QED BY <1>0, <1>8, <2>1 DEF WebInv, WebTypeOK
<1>11. StaysOut'
  BY <1>0 DEF StaysOut, NobodyIsIn, WebInv
<1>12. NoProvider'
  <2>1. Abroad(t)' => Abroad(t)
    <3>1. tab'[t].page \in {page, tab[t].page}
      BY <1>4, <1>5, <1>6 DEF Actor, TabIs
    <3> QED BY <1>2, <3>1 DEF Abroad
  <2> QED BY <1>0, <1>8, <2>1 DEF NoProvider, WebInv, SameTab, TabIs, Abroad
<1> QED BY <1>9, <1>10, <1>11, <1>12 DEF WebInv

LEMMA LogoutAnsweredHolds == ASSUME WebInv, NEW t \in Tabs, LogoutAnswered(t) PROVE WebInv'
<1> DEFINE m == tab[t].mut["auth"]
           mut == [tab[t].mut EXCEPT !["auth"] = NoMutation]
           z == [tab[t] EXCEPT !.mut = mut, !.known = "?", !.page = "login", !.behind = FALSE, !.token = 0]
           y == PageLoaded("toEnd")
<1>0. /\ m.kind = "logout" /\ m.pc \in {"ok", "failed"} /\ "auth" \in Slots
      /\ UNCHANGED <<config, sess, born, idp, signedOut, clicks>>
      /\ tab[t] \in WebTab /\ tab[t].mut \in [Slots -> WebMutation]
      /\ "toEnd" \in PageNames /\ "login" \in PageNames \ {"toEnd"} /\ "?" \in Knows
  BY Here DEF LogoutAnswered, Slots, Muts, PageNames, Knows
<1>1. mut \in Muts
  BY <1>0, NoMutationType DEF Muts
<1>2. z \in WebTab /\ TabIs(z, "login", "?", 0, tab[t].fetch, tab[t].got, mut, FALSE)
  <2> DEFINE w == [tab[t] EXCEPT !.mut = mut, !.token = 0, !.behind = FALSE, !.known = "?", !.page = "login"]
  <2>1. z = w
    <3> HIDE DEF mut
    <3> QED BY <1>0 DEF WebTab
  <2> HIDE DEF mut, z
  <2>2. w \in WebTab /\ TabIs(w, "login", "?", 0, tab[t].fetch, tab[t].got, mut, FALSE)
    BY <1>0, <1>1, DroppedTab
  <2> HIDE DEF w
  <2> QED BY <2>1, <2>2
<1>3. y \in WebTab
  BY <1>0, LoadedTab
<1>4. SignedOutHere(t) = z
  BY DEF SignedOutHere
<1>5. /\ \/ m.pc = "ok" /\ cookie' = 0 /\ (tab' = Surprised([tab EXCEPT ![t] = y], t) \/ tab' = Surprised([tab EXCEPT ![t] = z], t))
         \/ m.pc = "failed" /\ cookie' = cookie /\ tab' = [tab EXCEPT ![t] = z]
      /\ \/ tab' = Surprised([tab EXCEPT ![t] = y], t)
         \/ /\ \/ tab' = Surprised([tab EXCEPT ![t] = z], t)
               \/ tab' = [tab EXCEPT ![t] = z]
            /\ m.pc = "ok" /\ ~slipped' => config # "ends"
      /\ slipped' = slipped \/ slipped' = TRUE
      /\ UNCHANGED mishaps \/ Mishap
  <2> HIDE DEF y, z
  <2>1. m.pc = "ok" => m.pc # "failed"
    OBVIOUS
  <2> QED BY <1>0, <1>4 DEF LogoutAnswered, HandsOff, y
<1> HIDE DEF y, z
<1>6. /\ \/ Actor(t, y)
         \/ Actor(t, z) /\ (m.pc = "ok" /\ ~slipped' => config # "ends")
      /\ \/ cookie' = cookie
         \/ \A u \in Tabs \ {t} : tab'[u].behind
  BY <1>2, <1>3, <1>5, OnlyThisTab, OthersSurprised, Here
<1>7. TabHolds(t)' /\ tab'[t].page \in {"toEnd", "login"} /\ tab'[t].mut["auth"].kind = "none"
  <2>1. CASE Actor(t, y)
    BY <1>0, <2>1, LoadedHolds, Here DEF y
  <2>2. CASE Actor(t, z)
    <3>1. tab'[t].page = "login" /\ tab'[t].mut["auth"].kind = "none"
      BY <1>0, <1>2, <2>2, NoMutationType DEF Actor, TabIs
    <3> QED BY <1>0, <1>2, <2>2, <3>1, DroppedHolds
  <2> QED BY <1>6, <2>1, <2>2
<1>8. tab' \in [Tabs -> WebTab] /\ \A u \in Tabs \ {t} : SameTab(u)
  BY <1>6 DEF Actor
<1>9. TabsHold'
  <2>1. born <= born' /\ born' \in Nat /\ sess' = sess
    BY <1>0, Here
  <2>2. \A u \in Tabs \ {t} : TabHolds(u)'
    BY <1>6, <1>8, <2>1, OthersHold DEF WebInv
  <2> QED BY <1>7, <2>2 DEF TabsHold
<1>10. WebTypeOK'
  <2>1. cookie' \in 0 .. born' /\ slipped' \in BOOLEAN /\ mishaps' \in 0 .. MaxMishaps
    <3>1. born' = born /\ born \in 0 .. MaxSids /\ cookie \in 0 .. born
      BY <1>0, Here
    <3>2. cookie' \in {0, cookie}
      BY <1>5
    <3>3. cookie' \in 0 .. born'
      BY <3>1, <3>2, WebBounds
    <3>4. slipped \in BOOLEAN /\ mishaps \in 0 .. MaxMishaps /\ (Mishap => mishaps' \in 0 .. MaxMishaps)
      BY Clicked DEF WebInv, WebTypeOK
    <3>5. slipped' \in BOOLEAN
      BY <1>5, <3>4
    <3>6. mishaps' \in 0 .. MaxMishaps
      BY <1>5, <3>4
    <3> QED BY <3>3, <3>5, <3>6
  <2> QED BY <1>0, <1>8, <2>1 DEF WebInv, WebTypeOK
<1>11. StaysOut' /\ NoProvider'
  <2>1. ~Abroad(t)'
    BY <1>7 DEF Abroad
  <2>2. Leaves(t) => Leaves(t)' \/ slipped' \/ config # "ends"
    <3>1. CASE Actor(t, y)
      <4>1. tab'[t].page = "toEnd"
        BY <1>0, <3>1, LoadedHolds, Here DEF y
      <4> QED BY <4>1 DEF Leaves
    <3>2. CASE Actor(t, z) /\ (m.pc = "ok" /\ ~slipped' => config # "ends")
      <4>1. tab[t].page # "toEnd"
        <5>1. m # NoMutation
          BY <1>0, NoMutationType
        <5> QED BY <5>1, <1>0, Here DEF Awaited
      <4> QED BY <3>2, <4>1 DEF Leaves, LeftIt
    <3> QED BY <1>6, <3>1, <3>2
  <2>3. slipped => slipped'
    BY <1>5
  <2> QED BY <1>0, <1>7, <1>8, <2>1, <2>2, <2>3, Here, NobodyComesIn, {t} \in SUBSET Tabs DEF WebInv
<1> QED BY <1>9, <1>10, <1>11 DEF WebInv

-----------------------------------------------------------------------------

LEMMA WebSessionStarts == WebInit => WebInv
<1> SUFFICES ASSUME WebInit PROVE WebInv
  OBVIOUS
<1> DEFINE z == PageLoaded("guarded")
<1>1. "guarded" \in PageNames
  BY DEF PageNames
<1>2. z \in WebTab /\ TabIs(z, "guarded", "?", 0, "none", 0, [s \in Slots |-> NoMutation], FALSE)
  BY <1>1, LoadedTab
<1>3. tab = [t \in Tabs |-> z]
  BY DEF WebInit
<1> HIDE DEF z
<1>4. tab \in [Tabs -> WebTab]
  BY <1>2, <1>3
<1>5. WebTypeOK
  <2>1. sess = <<>> /\ born = 0 /\ cookie = 0 /\ clicks = 0 /\ mishaps = 0
    BY DEF WebInit
  <2>2. DOMAIN sess = {}
    BY <2>1
  <2>3. sess \in [DOMAIN sess -> WebSessions]
    BY <2>1, <2>2
  <2>4. config \in {"none", "plain", "ends"} /\ idp \in BOOLEAN /\ signedOut \in BOOLEAN /\ slipped \in BOOLEAN
    BY DEF WebInit
  <2>5. 0 \in 0 .. MaxSids /\ 0 \in 0 .. 0 /\ 0 \in 0 .. MaxClicks /\ 0 \in 0 .. MaxMishaps
    BY WebBounds
  <2> QED BY <1>4, <2>1, <2>2, <2>3, <2>4, <2>5 DEF WebTypeOK
<1>6. ASSUME NEW t \in Tabs PROVE TabHolds(t) /\ tab[t].page = "guarded"
  <2>1. /\ tab[t].page = "guarded" /\ tab[t].token = 0 /\ tab[t].fetch = "none" /\ tab[t].got = 0
        /\ \A s \in Slots : tab[t].mut[s] = NoMutation
    BY <1>2, <1>3 DEF TabIs
  <2>2. SidsGiven(t) /\ Awaited(t) /\ TokenIsFresh(t) /\ GoesFresh(t)
    <3>1. "auth" \in Slots /\ born = 0
      BY DEF Slots, WebInit
    <3> QED BY <2>1, <3>1, NoMutationType DEF SidsGiven, Awaited, TokenIsFresh, GoesFresh
  <2> QED BY <2>1, <2>2 DEF TabHolds
<1>7. StaysOut /\ NoProvider
  BY <1>6 DEF WebInit, StaysOut, NoProvider, Abroad
<1> QED BY <1>5, <1>6, <1>7 DEF WebInv, TabsHold

LEMMA WebSessionStep == WebInv /\ [WebNext]_webVars => WebInv'
<1> SUFFICES ASSUME WebInv, [WebNext]_webVars PROVE WebInv'
  OBVIOUS
<1>1. CASE UNCHANGED webVars
  BY <1>1 DEF webVars, WebInv, WebTypeOK, TabsHold, TabHolds, SidsGiven, Awaited, TokenIsFresh, LeftIt, GoesFresh,
              Live, StaysOut, NobodyIsIn, Leaving, Abroad, NoProvider
<1>2. CASE Expire
  BY <1>2, ExpireHolds
<1>3. ASSUME NEW t \in Tabs,
             \/ OpenPage(t) \/ ReadSession(t) \/ ServeToken(t) \/ TokenArrives(t)
             \/ \E sort \in {"login", "logout", "save"} : Mutate(t, sort)
             \/ \E s \in Slots : Refuse(t, s)
             \/ SaveSomething(t) \/ CheckLogin(t) \/ ActivateSession(t) \/ Logout(t)
             \/ SaveAnswered(t) \/ LoginAnswered(t) \/ LogoutAnswered(t)
             \/ ContinueWithSso(t) \/ OidcLogin(t) \/ OidcCallback(t) \/ EndSession(t)
      PROVE  WebInv'
  BY <1>3, OpenPageHolds, ReadSessionHolds, ServeTokenHolds, TokenArrivesHolds, MutateHolds, RefuseHolds,
     SaveSomethingHolds, CheckLoginHolds, ActivateSessionHolds, LogoutHolds, SaveAnsweredHolds, LoginAnsweredHolds,
     LogoutAnsweredHolds, ContinueWithSsoHolds, OidcLoginHolds, OidcCallbackHolds, EndSessionHolds
<1> QED BY <1>1, <1>2, <1>3 DEF WebNext

LEMMA WebInvSuffices == WebInv => SessionsHold
<1> SUFFICES ASSUME WebInv PROVE FreshTokens /\ SignOutSticks
  BY DEF SessionsHold
<1>1. FreshTokens
  BY DEF WebInv, TabsHold, TabHolds, GoesFresh, FreshTokens
<1>2. SignOutSticks
  BY DEF WebInv, StaysOut, NobodyIsIn, SignOutSticks, SignedIn, Live
<1> QED BY <1>1, <1>2

\* However many tabs, sessions and clicks there are, and whatever expires or fails: a
\* mutation goes out with its session's token unless the session has changed behind the
\* page's back or by the page's own hand (lib/api.ts:11), and nobody who has signed out is
\* signed in again by anything but what he does himself, or a sign-in already begun.
THEOREM SessionsAreRight == WebSpec => []SessionsHold
<1>1. WebInit => WebInv
  BY WebSessionStarts
<1>2. WebInv /\ [WebNext]_webVars => WebInv'
  BY WebSessionStep
<1>3. WebInv => SessionsHold
  BY WebInvSuffices
<1> QED BY <1>1, <1>2, <1>3, PTL DEF WebSpec

===============================================================================
