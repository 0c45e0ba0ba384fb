------------------------------ MODULE Accounts ------------------------------
(***************************************************************************)
(* The account table of the manager and the requests that change it:       *)
(* registration with and without an invitation, the administrator's pages, *)
(* sign-in through an identity provider with just-in-time provisioning,    *)
(* invitations and password resets.  No handler runs in a transaction, so  *)
(* a step of the model is one query of the code, and requests interleave   *)
(* between any two of them.                                                *)
(*                                                                         *)
(* A uid is a number: 0 is the base a provider suggests, k the base with   *)
(* the suffix k.  A link is the pair of issuer and subject.  Passwords are *)
(* left out, and of the groups only sysadmins is kept.                     *)
(***************************************************************************)
EXTENDS Naturals, FiniteSets, Sequences, FiniteSetsExt

CONSTANTS
  Mails,        \* mail addresses
  Subjects,     \* identities at the provider
  None,         \* no identity, no token
  Scenarios,    \* bound: where behaviours start, the kinds and the number of their
                \* requests, the uids and addresses these bring, how many die half way
  MaxRequests,  \* bound: the largest of these numbers
  MaxTokens,    \* bound: invitations and resets over a behaviour
  ATTEMPTS      \* attempts at provisioning an account; 3 in the code

RequestKinds == {"register", "oidc", "create", "edit", "delete", "group", "invite", "reset"}
Scenario == [kinds : SUBSET RequestKinds, names : SUBSET {0, 1}, mails : SUBSET Mails, founded : BOOLEAN,
             limit : 1 .. MaxRequests, faults : Nat]

ASSUME AttemptsPositive == ATTEMPTS \in Nat \ {0}
ASSUME ScenariosAssumption == Scenarios \subseteq Scenario
ASSUME NoneIsNobody == None \notin Mails \cup Subjects
ASSUME BoundsAreNumbers == MaxRequests \in Nat /\ MaxTokens \in Nat

VARIABLES
  scenario,   \* the one of Scenarios this behaviour follows
  users,      \* uidNumber -> row
  sysadmins,  \* group 2000: "admin", "plain" (isAdmin false) or "gone"
  admins,     \* the uidNumbers in group 2000
  tokens,     \* invitations and password resets, in the order they were made
  reqs,       \* the requests, in the order they arrived
  signedIn,   \* history: <<identity, creator of the account>> of sign-ins
  excused,    \* history: creations overlapped or died, or an administrator left
              \* nobody in charge
  linkRace,   \* history: an identity was saved over another request's write, or its new
              \* account read back by a uid that another had got meanwhile
  led,        \* history: there has been somebody in charge
  faults

accVars == <<scenario, users, sysadmins, admins, tokens, reqs, signedIn, excused, linkRace, led, faults>>

Uids == 0 .. MaxRequests
FirstNumber == 2000
Numbers == FirstNumber .. FirstNumber + 2 * MaxRequests

NoRequest ==
  [op |-> "none", pc |-> "done", uid |-> 0, mail |-> None, sub |-> None, num |-> 0, by |-> 0,
   status |-> "pending", token |-> 0, grp |-> "keep", self |-> FALSE, tries |-> 0,
   beaten |-> 0, mailTaken |-> FALSE]

-----------------------------------------------------------------------------
(* The table *)

NoAccount == DOMAIN users = {}
NextUidNumber == IF NoAccount THEN FirstNumber ELSE Max(DOMAIN users) + 1

\* The first of base, base1, base2... that no account has.
UniqueUid ==
  Min({u \in 0 .. Cardinality(DOMAIN users) : \A n \in DOMAIN users : users[n].uid # u})

\* Mutant of Collides: no index on the identity.
CollidesWithoutLink(num, row) ==
  \/ num \in DOMAIN users
  \/ \E n \in DOMAIN users : users[n].uid = row.uid \/ users[n].mail = row.mail

\* The primary key and the unique indexes on uid, mail and identity.
Collides(num, row) ==
  \/ num \in DOMAIN users
  \/ \E n \in DOMAIN users :
       \/ users[n].uid = row.uid
       \/ users[n].mail = row.mail
       \/ row.link # None /\ users[n].link = row.link

IsAdmin(n) == n \in admins /\ sysadmins = "admin"
InCharge == \E n \in DOMAIN users : users[n].status = "active" /\ IsAdmin(n)

\* A session keeps what its sign-in found: who was an administrator then still is.
AdminSession == led

-----------------------------------------------------------------------------
(* Requests *)

CreatingPcs == {"uid", "number", "insert", "raced", "hook"}
Creating(r) == reqs[r].pc \in CreatingPcs
\* A sign-in that has found no account of its identity, and may make one.
Provisioning(q) == reqs[q].op = "oidc" /\ (Creating(q) \/ reqs[q].pc = "findMail")

Room == Len(reqs) < scenario.limit
Start(request) == Room /\ reqs' = Append(reqs, request) /\ UNCHANGED scenario

At(r, pc) == reqs[r].pc = pc
Goto(r, pc) == reqs' = [reqs EXCEPT ![r].pc = pc]
End(r) == reqs' = [reqs EXCEPT ![r] = NoRequest]

\* Another request's write to the table, seen from those that are provisioning:
\* `from` is the new req but for this, `mails` what the write gave away.
Beat(from, r, mails) ==
  [q \in DOMAIN from |->
     IF q # r /\ Provisioning(q)
     THEN [from[q] EXCEPT !.beaten = IF @ < ATTEMPTS THEN @ + 1 ELSE @,
                          !.mailTaken = @ \/ (Creating(q) /\ from[q].mail \in mails)]
     ELSE from[q]]

-----------------------------------------------------------------------------
(* Tokens *)

Issue(kind, for) ==
  tokens' = Append(tokens, [kind |-> kind, for |-> for, used |-> FALSE, uses |-> 0,
                            excused |-> FALSE])

\* The requests that have validated token t and not marked it yet.
TokenHolders(t) == {q \in DOMAIN reqs : reqs[q].token = t /\ ~At(q, "validate")}

\* What a validated token was for has been done, by request r.
Honoured(r) ==
  LET t == reqs[r].token IN
  IF t = 0 THEN tokens
  ELSE [tokens EXCEPT ![t].uses = @ + 1, ![t].excused = @ \/ TokenHolders(t) # {r}]

\* Request r ends after its token was honoured and before it is marked.
Unmarked(r) ==
  LET t == reqs[r].token IN IF t = 0 THEN tokens ELSE [tokens EXCEPT ![t].excused = TRUE]

\* Deleting an account deletes its resets.
WithoutResets(n) ==
  [t \in DOMAIN tokens |->
     IF tokens[t].kind = "reset" /\ tokens[t].for = n
     THEN [tokens[t] EXCEPT !.used = TRUE] ELSE tokens[t]]

ValidateTokenUsedToo(r) ==
  /\ At(r, "validate")
  /\ Goto(r, IF reqs[r].op = "reset" THEN "setPassword" ELSE "count")
  /\ UNCHANGED <<users, sysadmins, admins, tokens, signedIn, excused, linkRace, faults>>

\* Unused and, unless the request ends here, not expired.
ValidateToken(r) ==
  /\ At(r, "validate")
  /\ \/ /\ ~tokens[reqs[r].token].used
        /\ Goto(r, IF reqs[r].op = "reset" THEN "setPassword" ELSE "count")
     \/ End(r)
  /\ UNCHANGED <<users, sysadmins, admins, tokens, signedIn, excused, linkRace, faults>>

MarkAsUsed(r) ==
  /\ At(r, "mark")
  /\ LET t == reqs[r].token IN
     tokens' = [tokens EXCEPT ![t].used = TRUE, ![t].excused = @ \/ TokenHolders(t) # {r}]
  /\ End(r)
  /\ UNCHANGED <<users, sysadmins, admins, signedIn, excused, linkRace, faults>>

-----------------------------------------------------------------------------
(* Registration *)

\* What the registration page submits: with an invitation, its address.
RegisterPage(mail, t) == t # 0 => tokens[t].kind = "invite" /\ tokens[t].for = mail

\* The environment names a provider or none: with one there is no registration, and
\* a restart, which leaves no request under way, is between the two.
UnderWay(op) == \E r \in DOMAIN reqs : reqs[r].op = op /\ ~At(r, "gaveUp")

Register(uid, mail, t) ==
  /\ ~UnderWay("oidc")
  /\ RegisterPage(mail, t)
  /\ Start([NoRequest EXCEPT !.op = "register", !.uid = uid, !.mail = mail, !.token = t,
                         !.pc = IF t = 0 THEN "count" ELSE "validate"])
  /\ UNCHANGED <<users, sysadmins, admins, tokens, signedIn, excused, linkRace, faults>>

\* The first user and the invited are active, the others wait for approval.
CountUsers(r) ==
  /\ At(r, "count")
  /\ reqs' = [reqs EXCEPT ![r].pc = "number",
                        ![r].self = reqs[r].token = 0,
                        ![r].status = IF NoAccount \/ reqs[r].token # 0
                                      THEN "active" ELSE "pending"]
  /\ UNCHANGED <<users, sysadmins, admins, tokens, signedIn, excused, linkRace, faults>>

ReadNumber(r) ==
  /\ At(r, "number")
  /\ reqs' = [reqs EXCEPT ![r].pc = "insert", ![r].num = NextUidNumber]
  /\ UNCHANGED <<users, sysadmins, admins, tokens, signedIn, excused, linkRace, faults>>

\* User.create up to the INSERT.
InsertUser(r) ==
  LET q == reqs[r]
      row == [uid |-> q.uid, mail |-> q.mail, status |-> q.status, link |-> q.sub, by |-> r,
              self |-> q.self]
  IN
  /\ At(r, "insert")
  /\ IF Collides(q.num, row)
     THEN /\ IF q.op = "oidc" THEN Goto(r, "raced") ELSE End(r)
          /\ UNCHANGED <<users, tokens, excused>>
     ELSE /\ users' = [n \in DOMAIN users \cup {q.num} |-> IF n = q.num THEN row ELSE users[n]]
          /\ reqs' = Beat([reqs EXCEPT ![r].pc = "hook"], r, {q.mail})
          /\ tokens' = Honoured(r)
          /\ excused' = \/ excused
                        \/ q.op = "create" /\ NoAccount
                        \/ \E p \in DOMAIN reqs \ {r} : Creating(p)
  /\ UNCHANGED <<sysadmins, admins, signedIn, linkRace, faults>>

CountNone == NoAccount
CountOne == Cardinality(DOMAIN users) = 1

NextAfterHook(r) ==
  CASE reqs[r].op = "register" -> IF reqs[r].token = 0 THEN "done" ELSE "mark"
    [] reqs[r].op = "create" -> IF reqs[r].grp = "keep" THEN "done" ELSE "groups"
    [] reqs[r].op = "oidc" -> "look"

\* The afterCreate hook: everyone joins ldapusers, which fails for an account that is
\* gone again, and whoever is alone in the table joins sysadmins.
AfterCreate(r) ==
  /\ At(r, "hook")
  /\ IF reqs[r].num \notin DOMAIN users
     THEN /\ tokens' = Unmarked(r)
          /\ End(r)
          /\ UNCHANGED admins
     ELSE /\ admins' = IF CountOne /\ sysadmins # "gone" THEN admins \cup {reqs[r].num}
                       ELSE admins
          /\ IF NextAfterHook(r) = "done" THEN End(r) ELSE Goto(r, NextAfterHook(r))
          /\ UNCHANGED tokens
  /\ UNCHANGED <<users, sysadmins, signedIn, excused, linkRace, faults>>

-----------------------------------------------------------------------------
(* The administrator's pages *)

\* An administrator's write may fall into a creation, or leave nobody who is in charge, or
\* who could be.
Meddles ==
  excused' = \/ excused
             \/ \E p \in DOMAIN reqs : Creating(p)
             \/ ~NoAccount' /\ ~InCharge'
             \/ sysadmins' # "admin"

AdminCreate(uid, mail, status, grp) ==
  /\ AdminSession
  /\ Start([NoRequest EXCEPT !.op = "create", !.pc = "number", !.uid = uid, !.mail = mail,
                         !.status = status, !.grp = grp])
  /\ UNCHANGED <<users, sysadmins, admins, tokens, signedIn, excused, linkRace, faults>>

\* setGroups replaces the account's groups, and fails for an account that is gone.
SetGroups(r) ==
  /\ At(r, "groups")
  /\ admins' = IF reqs[r].num \notin DOMAIN users THEN admins
               ELSE IF reqs[r].grp = "sys" /\ sysadmins # "gone" THEN admins \cup {reqs[r].num}
               ELSE admins \ {reqs[r].num}
  /\ End(r)
  /\ UNCHANGED <<users, sysadmins, tokens, signedIn, linkRace, faults>>
  /\ Meddles

\* PUT /users/:uidNumber with one changed field: the row is loaded and its changed
\* columns are saved, or refused by a unique index.
AdminEdit(n, field, value, grp) ==
  LET row == [users[n] EXCEPT ![field] = value]
      taken == \E o \in DOMAIN users \ {n} :
                 users[o].uid = row.uid \/ users[o].mail = row.mail
  IN
  /\ AdminSession
  /\ ~taken
  /\ users' = [users EXCEPT ![n] = [row EXCEPT !.self = FALSE]]
  /\ Room /\ UNCHANGED scenario
  /\ LET from == Append(reqs, IF grp = "keep" THEN NoRequest
                             ELSE [NoRequest EXCEPT !.op = "edit", !.pc = "groups", !.num = n,
                                                !.grp = grp])
     IN reqs' = [q \in DOMAIN from |-> IF q \in DOMAIN reqs THEN Beat(reqs, 0, {row.mail})[q]
                                      ELSE from[q]]
  /\ UNCHANGED <<sysadmins, admins, tokens, signedIn, linkRace, faults>>
  /\ Meddles

AdminDelete(n) ==
  /\ AdminSession
  /\ users' = [o \in DOMAIN users \ {n} |-> users[o]]
  /\ admins' = admins \ {n}
  /\ tokens' = WithoutResets(n)
  /\ Start(NoRequest)
  /\ UNCHANGED <<sysadmins, signedIn, linkRace, faults>>
  /\ Meddles

\* POST, PUT and DELETE of group 2000.
GroupEdit(to) ==
  /\ AdminSession
  /\ to # sysadmins
  /\ sysadmins' = to
  /\ admins' = IF to = "gone" THEN {} ELSE admins
  /\ Start(NoRequest)
  /\ UNCHANGED <<users, tokens, signedIn, linkRace, faults>>
  /\ Meddles

\* An invitation goes to an address that has no account yet.
Invite(mail) ==
  /\ AdminSession
  /\ \A n \in DOMAIN users : users[n].mail # mail
  /\ Len(tokens) < MaxTokens
  /\ Issue("invite", mail)
  /\ Start(NoRequest)
  /\ UNCHANGED <<users, sysadmins, admins, signedIn, excused, linkRace, faults>>

-----------------------------------------------------------------------------
(* Password resets *)

RequestReset(n) ==
  /\ Len(tokens) < MaxTokens
  /\ Issue("reset", n)
  /\ Start(NoRequest)
  /\ UNCHANGED <<users, sysadmins, admins, signedIn, excused, linkRace, faults>>

ResetPassword(t) ==
  /\ tokens[t].kind = "reset"
  /\ Start([NoRequest EXCEPT !.op = "reset", !.pc = "validate", !.token = t])
  /\ UNCHANGED <<users, sysadmins, admins, tokens, signedIn, excused, linkRace, faults>>

SetPassword(r) ==
  /\ At(r, "setPassword")
  /\ tokens' = Honoured(r)
  /\ Goto(r, "mark")
  /\ UNCHANGED <<users, sysadmins, admins, signedIn, excused, linkRace, faults>>

-----------------------------------------------------------------------------
(* Sign-in through the provider *)

\* The end of the callback: a session for account n, if it is active.
SignIn(r, n) ==
  /\ signedIn' = IF users[n].status = "active"
                 THEN signedIn \cup {<<reqs[r].sub, users[n].by>>} ELSE signedIn
  /\ End(r)

Callback(sub, mail) ==
  /\ ~UnderWay("register")
  /\ Start([NoRequest EXCEPT !.op = "oidc", !.pc = "findLink", !.sub = sub, !.mail = mail,
                         !.status = "active"])
  /\ UNCHANGED <<users, sysadmins, admins, tokens, signedIn, excused, linkRace, faults>>

LinkedTo(sub) == {n \in DOMAIN users : users[n].link = sub}

FindLink(r) ==
  /\ At(r, "findLink")
  /\ \/ \E n \in LinkedTo(reqs[r].sub) : SignIn(r, n)
     \/ LinkedTo(reqs[r].sub) = {} /\ Goto(r, "findMail") /\ UNCHANGED signedIn
  /\ UNCHANGED <<users, sysadmins, admins, tokens, excused, linkRace, faults>>

\* An account with the address is taken over if it has no identity yet, refused if
\* it has another one.  Without an account the code provisions one, unless that is
\* switched off or the provider gave no address.
FindMail(r) ==
  LET found == {n \in DOMAIN users : users[n].mail = reqs[r].mail} IN
  /\ At(r, "findMail")
  /\ \/ \E n \in found :
          \/ users[n].link = reqs[r].sub /\ SignIn(r, n)
          \/ users[n].link \notin {None, reqs[r].sub} /\ End(r) /\ UNCHANGED signedIn
          \/ /\ users[n].link = None
             /\ reqs' = [reqs EXCEPT ![r].pc = "link", ![r].num = n, ![r].by = users[n].by,
                                   ![r].status = users[n].status]
             /\ UNCHANGED signedIn
     \/ /\ found = {}
        /\ Goto(r, "uid") \/ End(r)
        /\ UNCHANGED signedIn
  /\ UNCHANGED <<users, sysadmins, admins, tokens, excused, linkRace, faults>>

\* The save writes two columns of whichever row has the number now.
SaveLink(r) ==
  LET q == reqs[r]
      there == q.num \in DOMAIN users
      taken == there /\ LinkedTo(q.sub) \ {q.num} # {}
  IN
  /\ At(r, "link")
  /\ users' = IF there /\ ~taken THEN [users EXCEPT ![q.num].link = q.sub] ELSE users
  /\ signedIn' = IF ~taken /\ q.status = "active" THEN signedIn \cup {<<q.sub, q.by>>}
                 ELSE signedIn
  /\ linkRace' = \/ linkRace
                 \/ ~there
                 \/ users[q.num].by # q.by
                 \/ users[q.num].link \notin {None, q.sub}
  /\ reqs' = Beat([reqs EXCEPT ![r] = NoRequest], r, {})
  /\ UNCHANGED <<sysadmins, admins, tokens, excused, faults>>

ReadUid(r) ==
  /\ At(r, "uid")
  /\ reqs' = [reqs EXCEPT ![r].pc = "number", ![r].uid = UniqueUid]
  /\ UNCHANGED <<users, sysadmins, admins, tokens, signedIn, excused, linkRace, faults>>

\* Mutant of Raced: the next attempt with the same names.
RacedSameNames(r) ==
  /\ At(r, "raced")
  /\ reqs' = IF reqs[r].tries + 1 < ATTEMPTS
            THEN [reqs EXCEPT ![r].tries = @ + 1, ![r].pc = "insert"]
            ELSE [reqs EXCEPT ![r].pc = "gaveUp"]
  /\ UNCHANGED <<users, sysadmins, admins, tokens, signedIn, excused, linkRace, faults>>

\* Mutant of Raced: an off-by-one in the number of attempts.
RacedOnceMore(r) ==
  /\ At(r, "raced")
  /\ reqs' = [reqs EXCEPT ![r].tries = @ + 1, ![r].pc = "uid"]
  /\ reqs[r].tries < ATTEMPTS
  /\ UNCHANGED <<users, sysadmins, admins, tokens, signedIn, excused, linkRace, faults>>

\* After a collision: somebody provisioned the same identity, or the next attempt, with
\* names read anew.
Raced(r) ==
  /\ At(r, "raced")
  /\ \/ \E n \in LinkedTo(reqs[r].sub) : SignIn(r, n)
     \/ /\ LinkedTo(reqs[r].sub) = {}
        /\ reqs' = IF reqs[r].tries + 1 < ATTEMPTS
                  THEN [reqs EXCEPT ![r].tries = @ + 1, ![r].pc = "uid"]
                  ELSE [reqs EXCEPT ![r].pc = "gaveUp"]
        /\ UNCHANGED signedIn
  /\ UNCHANGED <<users, sysadmins, admins, tokens, excused, linkRace, faults>>

\* The account is read back by its uid, which may be another account's by now.
Look(r) ==
  LET found == {n \in DOMAIN users : users[n].uid = reqs[r].uid} IN
  /\ At(r, "look")
  /\ \/ \E n \in found : SignIn(r, n) /\ linkRace' = (linkRace \/ users[n].link # reqs[r].sub)
     \/ found = {} /\ End(r) /\ UNCHANGED <<signedIn, linkRace>>
  /\ UNCHANGED <<users, sysadmins, admins, tokens, excused, faults>>

\* A query that fails, or the process that dies, ends a request where it is.
RequestDies(r) ==
  /\ reqs[r].pc \notin {"done", "gaveUp"}
  /\ faults < scenario.faults
  /\ faults' = faults + 1
  /\ End(r)
  /\ excused' = (excused \/ Creating(r))
  /\ tokens' = IF At(r, "mark") \/ At(r, "hook") THEN Unmarked(r) ELSE tokens
  /\ UNCHANGED <<users, sysadmins, admins, signedIn, linkRace>>

-----------------------------------------------------------------------------

\* The account of an administrator who was there before.
Founder ==
  [uid |-> MaxRequests, mail |-> None, status |-> "active", link |-> None, by |-> 0, self |-> FALSE]

AccInit ==
  /\ scenario \in Scenarios
  /\ users = [n \in IF scenario.founded THEN {FirstNumber} ELSE {} |-> Founder]
  /\ admins = DOMAIN users
  /\ sysadmins = "admin" /\ tokens = <<>> /\ reqs = <<>> /\ signedIn = {}
  /\ excused = FALSE /\ linkRace = FALSE /\ faults = 0 /\ led = InCharge

MayArrive(kind) == kind \in scenario.kinds

Visitors ==
  \E mail \in scenario.mails :
    \/ /\ MayArrive("register")
       /\ \E uid \in scenario.names, t \in 0 .. Len(tokens) : Register(uid, mail, t)
    \/ MayArrive("oidc") /\ \E sub \in Subjects : Callback(sub, mail)

Edits(n) ==
  \/ \E mail \in Mails : AdminEdit(n, "mail", mail, "keep")
  \/ \E uid \in scenario.names : AdminEdit(n, "uid", uid, "keep")
  \/ \E p \in {<<"active", "keep">>, <<"active", "sys">>, <<"disabled", "plain">>} :
       AdminEdit(n, "status", p[1], p[2])

Administrators ==
  \/ /\ MayArrive("create")
     /\ \E uid \in scenario.names, mail \in Mails, p \in {<<"active", "sys">>, <<"pending", "keep">>} :
          AdminCreate(uid, mail, p[1], p[2])
  \/ MayArrive("edit") /\ \E n \in DOMAIN users : Edits(n)
  \/ MayArrive("delete") /\ \E n \in DOMAIN users : AdminDelete(n)
  \/ MayArrive("group") /\ \E to \in {"admin", "plain", "gone"} : GroupEdit(to)
  \/ MayArrive("invite") /\ \E mail \in Mails : Invite(mail)

Resets ==
  /\ MayArrive("reset")
  /\ \/ \E n \in DOMAIN users : RequestReset(n)
     \/ \E t \in DOMAIN tokens : ResetPassword(t)

Steps(r) ==
  /\ UNCHANGED scenario
  /\ \/ ValidateToken(r) \/ MarkAsUsed(r) \/ CountUsers(r) \/ ReadNumber(r) \/ InsertUser(r)
     \/ AfterCreate(r) \/ SetGroups(r) \/ SetPassword(r)
     \/ FindLink(r) \/ FindMail(r) \/ SaveLink(r) \/ ReadUid(r) \/ Raced(r) \/ Look(r)
     \/ RequestDies(r)

AccNext ==
  /\ \/ Visitors
     \/ Administrators
     \/ Resets
     \/ \E r \in DOMAIN reqs : Steps(r)
  /\ led' = (led \/ InCharge')

AccSpec == AccInit /\ [][AccNext]_accVars

-----------------------------------------------------------------------------
(* Properties *)

AccTypeOK ==
  /\ DOMAIN users \subseteq Numbers
  /\ \A n \in DOMAIN users :
       users[n] \in [uid : Nat, mail : Mails \cup {None}, status : {"pending", "active", "disabled"},
                     link : Subjects \cup {None}, by : 0 .. MaxRequests, self : BOOLEAN]
  /\ sysadmins \in {"admin", "plain", "gone"}
  /\ admins \subseteq DOMAIN users
  /\ \A t \in DOMAIN tokens :
       /\ tokens[t].for \in Mails \cup Numbers
       /\ tokens[t].uses \in 0 .. MaxRequests
  /\ \A r \in DOMAIN reqs : reqs[r].beaten \in 0 .. ATTEMPTS /\ reqs[r].tries < ATTEMPTS
  /\ signedIn \subseteq Subjects \X (0 .. MaxRequests)
  /\ faults \in 0 .. scenario.faults

\* The first user runs the manager, and nobody else gets in on their own: once there
\* are accounts an active one is an administrator, and of the accounts that registered
\* without an invitation and wait for nobody there is one at most.  Excused: creations
\* that overlapped or died (the count before and the count after the INSERT are two
\* queries), and an administrator whose change left nobody in charge, or the group
\* without its powers.
Bootstrapped ==
  (~excused /\ \A r \in DOMAIN reqs : ~Creating(r)) =>
     /\ ~NoAccount => InCharge
     /\ Cardinality({n \in DOMAIN users : users[n].self /\ users[n].status = "active"}) <= 1

\* However its address at the provider changes and whoever else signs in, an identity
\* gets one account as long as that account exists, unless a link was saved over what
\* another request had written since the row was read, or a new account was read back by
\* a uid that was another's by then.
OneAccountPerIdentity ==
  linkRace \/ \A s, t \in signedIn :
    ( /\ s[1] = t[1]
      /\ \A p \in {s, t} : \E n \in DOMAIN users : users[n].by = p[2] ) => s = t

\* Provisioning fails for good only if other requests wrote to the table as often as it
\* tried, or one of them took its address.
GivesUpOnlyWhenBeaten ==
  \A r \in DOMAIN reqs : At(r, "gaveUp") => reqs[r].beaten >= ATTEMPTS \/ reqs[r].mailTaken

\* An invitation or a reset is honoured once, unless two requests held it at once or
\* one died before it marked it.
TokensWorkOnce == \A t \in DOMAIN tokens : tokens[t].uses > 1 => tokens[t].excused

\* An identity of the provider is one account, a failure to become one has a cause, and
\* no link in a mail makes two.
AccountsHold == OneAccountPerIdentity /\ GivesUpOnlyWhenBeaten /\ TokensWorkOnce

=============================================================================
