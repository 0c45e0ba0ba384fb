------------------------------ MODULE WebSession ------------------------------
(***************************************************************************)
(* Sign-in and sign-out of one browser: the session store and the CSRF     *)
(* guard of the web server, the client's token cache and session query,    *)
(* the login page and the route guard, and the identity provider.          *)
(*                                                                         *)
(* The tabs share one cookie; each has a token cache, a session query and  *)
(* two places for mutations of its own: "auth" (sign in, sign out) and     *)
(* "save" (any other).  A session gets one token for its lifetime, so a    *)
(* token is the number of its session.  Who signs in is left out, and what *)
(* an account may do; a wrong password and a failed call are one fault.    *)
(***************************************************************************)
EXTENDS Naturals, FiniteSets

CONSTANTS
  Tabs,
  FirstTab,     \* the tab the user touches first
  MaxSids,      \* bound: sessions the server makes
  MaxClicks,    \* bound: what the user does, with what goes wrong meanwhile
  MaxMishaps    \* bound: sessions that expire, calls that fail

ASSUME WebBounds == MaxSids \in Nat /\ MaxClicks \in Nat /\ MaxMishaps \in Nat

VARIABLES
  config,    \* the provider: "none", "plain", or "ends" (it has an end-session endpoint)
  sess,      \* the store: sid -> [user, csrf, pending], pending being the tab whose
             \* sign-in at the provider the session remembers, if any
  born,      \* sessions made so far
  cookie,    \* the browser's cookie: a sid, or 0
  idp,       \* the browser is signed in at the provider
  tab,       \* what each tab is doing
  signedOut, \* history: the user has signed out, and done nothing to sign in since
  slipped,   \* history: a sign-in that began by itself, or before, may end after it
  clicks, mishaps

webVars == <<config, sess, born, cookie, idp, tab, signedOut, slipped, clicks, mishaps>>

Slots == {"auth", "save"}
Nobody == "nobody"

NoMutation == [pc |-> "idle", kind |-> "none", sid |-> 0, token |-> 0, fresh |-> TRUE, excused |-> FALSE]

\* A page just loaded: nothing cached, the session query under way.
PageLoaded(page) ==
  [page |-> page, known |-> "?", token |-> 0, fetch |-> "none", got |-> 0,
   mut |-> [s \in Slots |-> NoMutation], behind |-> FALSE]

Live(sid) == sid \in DOMAIN sess
SignedIn(sid) == Live(sid) /\ sess[sid].user
Put(sid, s) == [k \in DOMAIN sess \cup {sid} |-> IF k = sid THEN s ELSE sess[k]]
DestroySession(sid) == [k \in DOMAIN sess \ {sid} |-> sess[k]]
NewSession == [user |-> FALSE, csrf |-> FALSE, pending |-> Nobody]

\* express-session: the session of the cookie, or a new one, which is stored and gets a
\* cookie only if the handler writes to it.
SidFor(c) == IF Live(c) THEN c ELSE born + 1
SessionFor(c) == IF Live(c) THEN sess[c] ELSE NewSession
Store(c, s) ==
  /\ Live(c) \/ born < MaxSids
  /\ sess' = Put(SidFor(c), s)
  /\ born' = IF Live(c) THEN born ELSE born + 1

May == clicks + mishaps < MaxClicks
Click(t) == May /\ clicks' = clicks + 1 /\ (clicks = 0 => t = FirstTab)
Mishap == May /\ mishaps < MaxMishaps /\ mishaps' = mishaps + 1

\* The tabs other than t whose token the cookie's new session takes by surprise.
Surprised(from, t) == [u \in Tabs |-> IF u = t THEN from[u] ELSE [from[u] EXCEPT !.behind = TRUE]]

-----------------------------------------------------------------------------
(* The pages *)

\* The login page goes to the provider by itself, unless the last attempt failed or
\* the user has just signed out; it goes on to the target once there is a session.
LoginShows(known) ==
  IF known = "yes" THEN "guarded" ELSE IF known = "no" /\ config # "none" THEN "toIdp" ELSE "login"

\* The page after its session query has answered.
Shows(page, known) ==
  CASE page = "guarded" -> IF known = "no" THEN LoginShows("no") ELSE "guarded"
    [] page = "login" -> LoginShows(known)
    [] page \in {"loggedOut", "failed"} -> IF known = "yes" THEN "guarded" ELSE page
    [] OTHER -> page

\* A sign-out is under way: the server has ended the session, the provider has not.
Leaving == \E u \in Tabs : tab[u].page = "toEnd" \/
             (tab[u].mut["auth"].kind = "logout" /\ tab[u].mut["auth"].pc = "ok")

\* A page that moves to the provider by itself while a sign-out is under way.
Slips(was, is) == slipped' = (slipped \/ (Leaving /\ was # "toIdp" /\ is = "toIdp"))

\* A new page, or a reload, which gives up what the old page was doing.
OpenPage(t) ==
  /\ Click(t)
  /\ tab' = [tab EXCEPT ![t] = PageLoaded("guarded")]
  /\ slipped' = (slipped \/ tab[t].page = "toEnd" \/ tab[t].mut["auth"].kind = "logout")
  /\ UNCHANGED <<config, sess, born, cookie, idp, signedOut, mishaps>>

\* GET /session: on load, on focus, or when a page mounts with a query that is stale.
\* A 401 of another query sends the page to the login page, which comes back here.
ReadSession(t) ==
  LET known == IF SignedIn(cookie) THEN "yes" ELSE "no"
      page == Shows(tab[t].page, known)
  IN
  /\ tab[t].page \in {"guarded", "login", "loggedOut", "failed"}
  /\ tab[t].known # known
  /\ tab' = [tab EXCEPT ![t].known = known, ![t].page = page]
  /\ Slips(tab[t].page, page)
  /\ UNCHANGED <<config, sess, born, cookie, idp, signedOut, clicks, mishaps>>

-----------------------------------------------------------------------------
(* Mutations: the token first *)

\* The request goes out, with the cookie the browser has then.
GoesOut(was, kind, token, c, busy) ==
  [pc |-> "out", kind |-> kind, sid |-> c, token |-> token,
   fresh |-> token = c /\ Live(c), excused |-> was.behind \/ busy]

Offered(t, kind) ==
  CASE kind = "login" -> tab[t].page = "login" /\ tab[t].known = "no" /\ config = "none"
    [] OTHER -> tab[t].page = "guarded" /\ tab[t].known = "yes"

SlotOf(kind) == IF kind = "save" THEN "save" ELSE "auth"
SessionChanges(t) == tab[t].mut["auth"].pc \in {"out", "checked", "ok", "failed"}

Mutate(t, kind) ==
  LET s == SlotOf(kind) IN
  /\ Offered(t, kind)
  /\ tab[t].mut[s].pc = "idle"
  /\ Click(t)
  /\ tab' = [tab EXCEPT ![t] =
       IF tab[t].token # 0
       THEN [tab[t] EXCEPT !.mut[s] = GoesOut(tab[t], kind, tab[t].token, cookie, SessionChanges(t))]
       ELSE [tab[t] EXCEPT !.mut[s] = [NoMutation EXCEPT !.pc = "token", !.kind = kind],
                           !.fetch = IF tab[t].fetch = "none" THEN "asked" ELSE tab[t].fetch]]
  /\ signedOut' = (signedOut /\ kind # "login")
  /\ UNCHANGED <<config, sess, born, cookie, idp, slipped, mishaps>>

\* GET /csrf-token: the session's token, made and stored if it has none.
ServeToken(t) ==
  /\ tab[t].fetch = "asked"
  /\ Store(cookie, [SessionFor(cookie) EXCEPT !.csrf = TRUE])
  /\ tab' = [tab EXCEPT ![t].fetch = IF SessionFor(cookie).csrf THEN "answered" ELSE "answeredNew",
                         ![t].got = SidFor(cookie)]
  /\ UNCHANGED <<config, cookie, idp, signedOut, slipped, clicks, mishaps>>

\* The answer sets the cookie if the token is new (cookies of tabs that ask at the same
\* time overwrite each other), and all that waited for it go out.
TokenArrives(t) ==
  LET got == tab[t].got
      new == IF tab[t].fetch = "answeredNew" THEN got ELSE cookie
      mine == [tab EXCEPT ![t] =
        [tab[t] EXCEPT !.fetch = "none", !.got = 0, !.token = got,
                       !.mut = [s \in Slots |->
                         IF tab[t].mut[s].pc = "token"
                         THEN GoesOut(tab[t], tab[t].mut[s].kind, got, new, SessionChanges(t))
                         ELSE tab[t].mut[s]]]]
  IN
  /\ tab[t].fetch \in {"answered", "answeredNew"}
  /\ cookie' = new
  /\ tab' = IF new # cookie THEN Surprised(mine, t) ELSE mine
  /\ UNCHANGED <<config, sess, born, idp, signedOut, slipped, clicks, mishaps>>

-----------------------------------------------------------------------------
(* Mutations: the server *)

\* csrfGuard: a session, and its token.
Guarded(m) == Live(m.sid) /\ m.token = m.sid

WebAnswer(t, s, pc) == tab' = [tab EXCEPT ![t].mut[s].pc = pc]

Refuse(t, s) ==
  /\ tab[t].mut[s].pc = "out"
  /\ \/ ~Guarded(tab[t].mut[s]) /\ UNCHANGED mishaps
     \/ Mishap
  /\ WebAnswer(t, s, "failed")
  /\ UNCHANGED <<config, sess, born, cookie, idp, signedOut, slipped, clicks>>

\* Behind apiAuth; what it does is not told apart here.
SaveSomething(t) ==
  LET m == tab[t].mut["save"] IN
  /\ m.pc = "out" /\ Guarded(m)
  /\ WebAnswer(t, "save", IF SignedIn(m.sid) THEN "ok" ELSE "failed")
  /\ UNCHANGED <<config, sess, born, cookie, idp, signedOut, slipped, clicks, mishaps>>

\* POST /login: the session is loaded with the request ...
CheckLogin(t) ==
  LET m == tab[t].mut["auth"] IN
  /\ m.kind = "login" /\ m.pc = "out" /\ Guarded(m)
  /\ WebAnswer(t, "auth", "checked")
  /\ UNCHANGED <<config, sess, born, cookie, idp, signedOut, slipped, clicks, mishaps>>

\* ... and saved when the password is right, also if it has been destroyed meanwhile.
ActivateSession(t) ==
  LET m == tab[t].mut["auth"] IN
  /\ m.kind = "login" /\ m.pc = "checked"
  /\ sess' = Put(m.sid, [NewSession EXCEPT !.user = TRUE, !.csrf = TRUE])
  /\ WebAnswer(t, "auth", "ok")
  /\ UNCHANGED <<config, born, cookie, idp, signedOut, slipped, clicks, mishaps>>

\* A sign-in has been begun in some tab and is not over, or the browser has had two
\* sessions and is signed in to both.
InProgress(sid) ==
  \/ \E other \in DOMAIN sess \ {sid} : sess[other].user
  \/ \E u \in Tabs : \/ tab[u].page \in {"toIdp", "atIdp"}
                     \/ tab[u].mut["auth"].kind = "login"

Logout(t) ==
  LET m == tab[t].mut["auth"] IN
  /\ m.kind = "logout" /\ m.pc = "out" /\ Guarded(m)
  /\ sess' = DestroySession(m.sid)
  /\ signedOut' = TRUE
  /\ slipped' = (slipped \/ InProgress(m.sid))
  /\ tab' = Surprised([tab EXCEPT ![t].mut["auth"].pc = "ok"], t)
  /\ UNCHANGED <<config, born, cookie, idp, clicks, mishaps>>

-----------------------------------------------------------------------------
(* Mutations: the answer *)

\* A request that is answered, or whose answer is lost.
SaveAnswered(t) ==
  /\ tab[t].mut["save"].pc \in {"ok", "failed"}
  /\ tab' = [tab EXCEPT ![t].mut["save"] = NoMutation]
  /\ UNCHANGED <<config, sess, born, cookie, idp, signedOut, slipped, clicks, mishaps>>

\* The token is dropped, the session query set and read again.
LoginAnswered(t) ==
  LET m == tab[t].mut["auth"] IN
  /\ m.kind = "login" /\ m.pc \in {"ok", "failed"}
  /\ IF m.pc = "failed"
     THEN /\ tab' = [tab EXCEPT ![t].mut["auth"] = NoMutation]
          /\ UNCHANGED cookie
     ELSE LET mine == [tab EXCEPT ![t] = [tab[t] EXCEPT !.mut["auth"] = NoMutation, !.token = 0,
                                                        !.behind = FALSE, !.known = "yes",
                                                        !.page = Shows(tab[t].page, "yes")]]
          IN /\ cookie' = m.sid
             /\ tab' = IF cookie # m.sid THEN Surprised(mine, t) ELSE mine
  /\ UNCHANGED <<config, sess, born, idp, signedOut, slipped, clicks, mishaps>>

\* Mutant of SignedOutHere: the token survives the sign-out.
SignedOutHereKeepsToken(t) ==
  [tab[t] EXCEPT !.mut["auth"] = NoMutation, !.known = "?", !.page = "login", !.behind = FALSE]

\* The local end of a sign-out, also of one that failed: nothing is cached any more,
\* and the guard sends the page to the login page.
SignedOutHere(t) ==
  [tab[t] EXCEPT !.mut["auth"] = NoMutation, !.known = "?", !.page = "login", !.behind = FALSE,
                 !.token = 0]

\* Mutant of HandsOff: the cache is cleared, and the guard moves the page, before it goes.
HandsOffLate(m) == FALSE

\* With an end-session URL the page is left at once.
HandsOff(m) == m.pc = "ok" /\ config = "ends"

\* The URL is missing if the provider has none; if the provider does not answer, that is
\* a fault.
LogoutAnswered(t) ==
  LET m == tab[t].mut["auth"]
      To(next) == tab' = IF m.pc = "ok" THEN Surprised([tab EXCEPT ![t] = next], t)
                         ELSE [tab EXCEPT ![t] = next]
  IN
  /\ m.kind = "logout" /\ m.pc \in {"ok", "failed"}
  /\ cookie' = IF m.pc = "ok" THEN 0 ELSE cookie
  /\ \/ HandsOff(m) /\ To(PageLoaded("toEnd")) /\ UNCHANGED <<slipped, mishaps>>
     \/ ~HandsOff(m) /\ To(SignedOutHere(t)) /\ UNCHANGED <<slipped, mishaps>>
     \/ HandsOff(m) /\ Mishap /\ To(SignedOutHere(t)) /\ slipped' = TRUE
  /\ UNCHANGED <<config, sess, born, idp, signedOut, clicks>>

-----------------------------------------------------------------------------
(* The provider *)

\* The button on the page that follows a sign-out or a failed sign-in.
ContinueWithSso(t) ==
  /\ config # "none"
  /\ tab[t].page \in {"loggedOut", "failed"} /\ tab[t].known = "no"
  /\ Click(t)
  /\ tab' = [tab EXCEPT ![t].page = "toIdp"]
  /\ signedOut' = FALSE
  /\ UNCHANGED <<config, sess, born, cookie, idp, slipped, mishaps>>

\* GET /oidc/login: the session remembers this attempt and forgets an earlier one.
OidcLogin(t) ==
  /\ tab[t].page = "toIdp"
  /\ Store(cookie, [SessionFor(cookie) EXCEPT !.pending = t])
  /\ cookie' = SidFor(cookie)
  /\ LET mine == [tab EXCEPT ![t] = PageLoaded("atIdp")]
     IN tab' = IF cookie' # cookie THEN Surprised(mine, t) ELSE mine
  /\ UNCHANGED <<config, idp, signedOut, slipped, clicks, mishaps>>

\* The provider asks whoever is not signed in there; then GET /oidc/callback, which
\* takes the state and fails if there is none, or if it is another attempt's.
OidcCallback(t) ==
  LET asked == ~idp
      ours == Live(cookie) /\ sess[cookie].pending = t
  IN
  /\ tab[t].page = "atIdp"
  /\ idp' = TRUE
  /\ IF asked THEN Click(t) /\ signedOut' = FALSE ELSE UNCHANGED <<clicks, signedOut>>
  /\ sess' = IF ~Live(cookie) THEN sess
             ELSE Put(cookie, [sess[cookie] EXCEPT !.pending = Nobody, !.user = @ \/ ours])
  /\ tab' = [tab EXCEPT ![t] = PageLoaded(IF ours THEN "guarded" ELSE "failed")]
  /\ UNCHANGED <<config, born, cookie, slipped, mishaps>>

\* The end-session endpoint, and back to the login page.
EndSession(t) ==
  /\ tab[t].page = "toEnd"
  /\ idp' = FALSE
  /\ tab' = [tab EXCEPT ![t] = PageLoaded("loggedOut")]
  /\ UNCHANGED <<config, sess, born, cookie, signedOut, slipped, clicks, mishaps>>

\* A session, and its cookie, last 24 hours.
Expire ==
  /\ Live(cookie) /\ Mishap
  /\ sess' = DestroySession(cookie)
  /\ cookie' = 0
  /\ tab' = [t \in Tabs |-> [tab[t] EXCEPT !.behind = TRUE]]
  /\ UNCHANGED <<config, born, idp, signedOut, slipped, clicks>>

-----------------------------------------------------------------------------

WebInit ==
  /\ config \in {"none", "plain", "ends"}
  /\ sess = <<>> /\ born = 0 /\ cookie = 0
  /\ idp \in IF config = "none" THEN {FALSE} ELSE BOOLEAN
  /\ tab = [t \in Tabs |-> PageLoaded("guarded")]
  /\ signedOut = FALSE /\ slipped = FALSE /\ clicks = 0 /\ mishaps = 0

WebNext ==
  \/ Expire
  \/ \E t \in Tabs :
       \/ OpenPage(t) \/ ReadSession(t) \/ ServeToken(t) \/ TokenArrives(t)
       \/ \E kind \in {"login", "logout", "save"} : Mutate(t, kind)
       \/ \E s \in Slots : Refuse(t, s)
       \/ SaveSomething(t) \/ CheckLogin(t) \/ ActivateSession(t) \/ Logout(t)
       \/ SaveAnswered(t) \/ LoginAnswered(t) \/ LogoutAnswered(t)
       \/ ContinueWithSso(t) \/ OidcLogin(t) \/ OidcCallback(t) \/ EndSession(t)

WebSpec == WebInit /\ [][WebNext]_webVars

-----------------------------------------------------------------------------
(* Properties *)

WebMutation ==
  [pc : {"idle", "token", "out", "checked", "ok", "failed"}, kind : {"none", "login", "logout", "save"},
   sid : 0 .. MaxSids, token : 0 .. MaxSids, fresh : BOOLEAN, excused : BOOLEAN]
WebTab ==
  [page : {"guarded", "login", "loggedOut", "failed", "toIdp", "atIdp", "toEnd"}, known : {"?", "yes", "no"},
   token : 0 .. MaxSids, fetch : {"none", "asked", "answered", "answeredNew"}, got : 0 .. MaxSids,
   mut : [Slots -> WebMutation], behind : BOOLEAN]
WebSessions == [user : BOOLEAN, csrf : BOOLEAN, pending : Tabs \cup {Nobody}]

WebTypeOK ==
  /\ config \in {"none", "plain", "ends"} /\ idp \in BOOLEAN
  /\ DOMAIN sess \subseteq 1 .. born /\ sess \in [DOMAIN sess -> WebSessions]
  /\ born \in 0 .. MaxSids /\ cookie \in 0 .. born
  /\ tab \in [Tabs -> WebTab]
  /\ signedOut \in BOOLEAN /\ slipped \in BOOLEAN
  /\ clicks \in 0 .. MaxClicks /\ mishaps \in 0 .. MaxMishaps

\* A mutation never goes out without a valid token (lib/api.ts:11), except where another
\* tab or the end of the session's day has changed the session behind the page's back,
\* or the page's own sign-in or sign-out is on its way.
FreshTokens ==
  \A t \in Tabs, s \in Slots :
    tab[t].mut[s].pc # "idle" => tab[t].mut[s].fresh \/ tab[t].mut[s].excused

\* Who has signed out stays signed out until he does something to sign in: unless the
\* provider has no end-session endpoint (or it failed), a sign-in was already on its
\* way, or had led to a second session, or a page noticed the end of the session first and went to the provider.
SignOutSticks == signedOut /\ config # "plain" /\ ~slipped => ~SignedIn(cookie)

\* The browser's token and its session follow what the user has done.
SessionsHold == FreshTokens /\ SignOutSticks

=============================================================================
