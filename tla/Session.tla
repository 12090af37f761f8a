------------------------------- MODULE Session -------------------------------
(***************************************************************************)
(* Signing in, the sessions this makes, and what the browser knows of      *)
(* them: the login and callback routes of apps/web/src/app/api/auth and    *)
(* the session routes of apps/api/src/auth.ts.                             *)
(*                                                                         *)
(* One browser holds the cookies and may have several requests under way   *)
(* at once, from as many tabs; a request carries the cookies of the moment *)
(* it is sent and its answer changes them when it comes, if it comes.      *)
(*                                                                         *)
(* An exchange is a request and its answer, made once.  Every secret is    *)
(* random and new, so it is named by the exchange that made it: a login is *)
(* r, its state, verifier, nonce, session and first CSRF token too, and a  *)
(* reauthentication r makes the CSRF token r.  Hashes are as good as what  *)
(* they hash.  The session and CSRF cookies run out together with the      *)
(* session, when they would not be accepted any more.  Users are never     *)
(* disabled by this code, and nothing reads lastSeenAt.                    *)
(***************************************************************************)
EXTENDS Integers, FiniteSets

CONSTANTS
    Subjects,               \* people, as the identity provider knows them
    Exchanges,
    RecentWindow,           \* RECENT_AUTH_WINDOW_MS
    ClockSkew,              \* the 60 s by which the provider may be ahead
    SessionLifetime,        \* SESSION_LIFETIME_MS
    LoginLifetime,          \* maxAge of transactionCookieOptions
    MaxTime,                \* bound: the clock stops here
    MaxTokens               \* bound: ID tokens the provider issues

ASSUME LifetimesAssumption ==
    {RecentWindow, ClockSkew, SessionLifetime, LoginLifetime, MaxTime, MaxTokens} \subseteq Nat

VARIABLES
    now,
    issued,                 \* the ID tokens the identity provider has issued
    sessions,               \* sessions[r]: {} or the row of auth_sessions made by r
    cookies,                \* what the browser holds
    exchanges,              \* exchanges[r]: where request r is
    crossed                 \* cookie changes have overlapped or were lost, and
                            \* no sign-in has put them in order since

sessionVars == <<now, issued, sessions, cookies, exchanges, crossed>>

NoTime == -1

(* payload.auth_time is optional. *)
IdToken == [subject : Subjects, authTime : Nat \cup {NoTime}]

Row ==
    [user : Subjects, csrf : Exchanges, authenticatedAt : Nat,
     expiresAt : Nat, revoked : BOOLEAN]

Cookies ==
    [session : SUBSET Exchanges, csrf : SUBSET Exchanges,
     login : SUBSET Exchanges, loginExpires : Nat]

Kinds == {"login", "sensitive", "reauthenticate", "signout"}

(* The cookies a request carries, the ID token it is made with, what it    *)
(* read of its session, and whether it is alone: no cookie change overlaps *)
(* it, or for a login, no other login.                                     *)
Exchange ==
    [at : {"new", "begun", "sent", "checked", "authorized", "answer", "done", "rejected",
           "invalid_callback", "csrf_rejected"},
     kind : Kinds, session : SUBSET Exchanges, csrf : SUBSET Exchanges,
     token : SUBSET IdToken, seen : Nat, alone : BOOLEAN]

New ==
    [at |-> "new", kind |-> "sensitive", session |-> {}, csrf |-> {},
     token |-> {}, seen |-> 0, alone |-> TRUE]

(* Sent and not answered yet. *)
Pending(r) == exchanges[r].at \in {"sent", "checked", "authorized", "answer"}

(* Requests whose answer sets or clears the cookies of the session. *)
ChangesCookies(kind) == kind # "sensitive"

Meet(kind, r) == Pending(r) /\ (ChangesCookies(kind) \/ ChangesCookies(exchanges[r].kind))

NoChangeBut(r) == \A o \in Exchanges \ {r} : ~(Pending(o) /\ ChangesCookies(exchanges[o].kind))

(* Request r goes out as q: it and the pending requests overlap, which     *)
(* matters if one of them changes cookies.                                 *)
SendAs(r, q) ==
    /\ exchanges' = [p \in Exchanges |->
            CASE p = r /\ q.kind # "login" ->
                    [q EXCEPT !.alone = \A o \in Exchanges \ {r} : ~Meet(q.kind, o)]
              [] p = r /\ q.kind = "login" -> q
              [] p # r /\ Meet(q.kind, p) /\ exchanges[p].kind # "login" ->
                    [exchanges[p] EXCEPT !.alone = FALSE]
              [] OTHER -> exchanges[p]]
    /\ crossed' = (crossed \/ (ChangesCookies(q.kind) /\ ~NoChangeBut(r)))

LoginUnderway(r) == exchanges[r].kind = "login" /\ (exchanges[r].at = "begun" \/ Pending(r))

(* How request r ends; of a sign-in its token is remembered. *)
End(r, at) ==
    exchanges' = [exchanges EXCEPT ![r] =
        [New EXCEPT !.at = at,
                    !.kind = IF at = "done" THEN exchanges[r].kind ELSE "sensitive",
                    !.token = IF at = "done" /\ exchanges[r].kind = "login"
                              THEN exchanges[r].token ELSE {}]]

Advance(r, at) == exchanges' = [exchanges EXCEPT ![r].at = at]

-----------------------------------------------------------------------------

SessionInit ==
    /\ now = 0
    /\ issued = {}
    /\ sessions = [r \in Exchanges |-> {}]
    /\ cookies = [session |-> {}, csrf |-> {}, login |-> {}, loginExpires |-> 0]
    /\ exchanges = [r \in Exchanges |-> New]
    /\ crossed = FALSE

Tick ==
    /\ now < MaxTime
    /\ now' = now + 1
    /\ UNCHANGED <<issued, sessions, cookies, exchanges, crossed>>

(* The provider authenticates a person, by a clock that may be ahead, or   *)
(* issues a token that does not tell when it did.                          *)
Issue(u, authTime) ==
    /\ Cardinality(issued) < MaxTokens
    /\ issued' = issued \cup {[subject |-> u, authTime |-> authTime]}
    /\ UNCHANGED <<now, sessions, cookies, exchanges, crossed>>

(* GET /api/auth/login: the answer sets the cookies of this login and      *)
(* sends the browser to the provider.                                      *)
BeginLogin(r) ==
    /\ exchanges[r].at = "new"
    /\ cookies' = [cookies EXCEPT !.login = {r}, !.loginExpires = now + LoginLifetime]
    /\ exchanges' = [p \in Exchanges |->
            CASE p = r -> [New EXCEPT !.at = "begun", !.kind = "login",
                                      !.alone = \A o \in Exchanges : ~LoginUnderway(o)]
              [] p # r /\ LoginUnderway(p) -> [exchanges[p] EXCEPT !.alone = FALSE]
              [] OTHER -> exchanges[p]]
    /\ UNCHANGED <<now, issued, sessions, crossed>>

(* GET /api/auth/callback: state, verifier and nonce must be those of the  *)
(* login the cookies name, and they live for ten minutes.                  *)
LoginCookie == IF now < cookies.loginExpires THEN cookies.login ELSE {}

Callback(r) ==
    /\ exchanges[r].at = "begun"
    /\ IF LoginCookie = {r}
       THEN SendAs(r, [exchanges[r] EXCEPT !.at = "sent"])
       ELSE End(r, "invalid_callback") /\ UNCHANGED crossed
    /\ UNCHANGED <<now, issued, sessions, cookies>>

(* The code is exchanged for an ID token, and POST /auth/session makes the *)
(* user, if need be, and the session.                                      *)
SignIn(r, token) ==
    /\ exchanges[r].at = "sent" /\ exchanges[r].kind = "login"
    /\ sessions' = [sessions EXCEPT ![r] =
            {[user |-> token.subject, csrf |-> r,
              authenticatedAt |-> IF token.authTime = NoTime THEN now ELSE token.authTime,
              expiresAt |-> now + SessionLifetime, revoked |-> FALSE]}]
    /\ exchanges' = [exchanges EXCEPT ![r].at = "answer", ![r].token = {token}]
    /\ UNCHANGED <<now, issued, cookies, crossed>>

(* A request to the API, which needs the session's cookie. *)
Send(r, kind, token) ==
    /\ exchanges[r].at = "new"
    /\ kind # "login" /\ cookies.session # {}
    /\ (token # {}) = (kind = "reauthenticate")
    /\ SendAs(r, [New EXCEPT !.at = "sent", !.kind = kind, !.token = token,
                             !.session = cookies.session, !.csrf = cookies.csrf])
    /\ UNCHANGED <<now, issued, sessions, cookies>>

(* authenticate() and requireCsrf(): the row of an active session is read, *)
(* and the CSRF cookie is compared with it.                                *)
ActiveRow(row) == ~row.revoked /\ now < row.expiresAt

Authenticate(r) ==
    /\ exchanges[r].at = "sent" /\ exchanges[r].kind # "login"
    /\ \E s \in exchanges[r].session :
        LET found == {row \in sessions[s] : ActiveRow(row)}
        IN  IF found = {} THEN End(r, "rejected")
            ELSE \E row \in found :
                IF exchanges[r].csrf # {row.csrf} THEN End(r, "csrf_rejected")
                ELSE exchanges' = [exchanges EXCEPT
                        ![r].at = "checked",
                        ![r].seen = IF exchanges[r].kind = "sensitive"
                                    THEN row.authenticatedAt ELSE 0]
    /\ UNCHANGED <<now, issued, sessions, cookies, crossed>>

IsRecent(at) == now - at >= -ClockSkew /\ now - at <= RecentWindow

(* The recent authentication authorize() wants, and the fresh token of the *)
(* same person reauthentication wants.  (Mutant: the token of any person.) *)
AcceptedForAnybody(r) ==
    CASE exchanges[r].kind = "sensitive" -> IsRecent(exchanges[r].seen)
      [] exchanges[r].kind = "reauthenticate" ->
            \A token \in exchanges[r].token :
                token.authTime # NoTime /\ IsRecent(token.authTime)
      [] OTHER -> TRUE

Accepted(r) ==
    CASE exchanges[r].kind = "sensitive" -> IsRecent(exchanges[r].seen)
      [] exchanges[r].kind = "reauthenticate" ->
            \A token \in exchanges[r].token :
                /\ token.authTime # NoTime /\ IsRecent(token.authTime)
                /\ \A s \in exchanges[r].session : \A row \in sessions[s] :
                        token.subject = row.user
      [] OTHER -> TRUE

Check(r) ==
    /\ exchanges[r].at = "checked"
    /\ IF Accepted(r) THEN Advance(r, "authorized") ELSE End(r, "rejected")
    /\ UNCHANGED <<now, issued, sessions, cookies, crossed>>

(* authSessions.markReauthenticated and revoke write what they were given, *)
(* whatever the row has become.  (Mutant: the row is written as it was     *)
(* when it was read.)                                                      *)
MarkReauthenticatedUnrevoked(row, r, token) ==
    [row EXCEPT !.authenticatedAt = token.authTime, !.csrf = r, !.revoked = FALSE]

MarkReauthenticated(row, r, token) ==
    [row EXCEPT !.authenticatedAt = token.authTime, !.csrf = r]

Commit(r) ==
    /\ exchanges[r].at = "authorized"
    /\ sessions' = [s \in Exchanges |->
            IF s \notin exchanges[r].session THEN sessions[s]
            ELSE CASE exchanges[r].kind = "reauthenticate" ->
                        {MarkReauthenticated(row, r, token) :
                            row \in sessions[s], token \in exchanges[r].token}
                   [] exchanges[r].kind = "signout" ->
                        {[row EXCEPT !.revoked = TRUE] : row \in sessions[s]}
                   [] OTHER -> sessions[s]]
    /\ IF ChangesCookies(exchanges[r].kind) THEN Advance(r, "answer") ELSE End(r, "done")
    /\ UNCHANGED <<now, issued, cookies, crossed>>

(* The answer reaches the browser.  (Mutants: a sign-out clears the        *)
(* cookies of a login too; a reauthentication forgets the CSRF cookie.)    *)
SetCookiesAllCleared(r) ==
    CASE exchanges[r].kind = "login" ->
            [session |-> {r}, csrf |-> {r}, login |-> {}, loginExpires |-> 0]
      [] exchanges[r].kind = "reauthenticate" -> [cookies EXCEPT !.csrf = {r}]
      [] exchanges[r].kind = "signout" -> [cookies EXCEPT !.session = {}, !.csrf = {}, !.login = {}]
      [] OTHER -> cookies

SetCookiesWithoutCsrf(r) ==
    CASE exchanges[r].kind = "login" ->
            [session |-> {r}, csrf |-> {r}, login |-> {}, loginExpires |-> 0]
      [] exchanges[r].kind = "signout" -> [cookies EXCEPT !.session = {}, !.csrf = {}]
      [] OTHER -> cookies

SetCookies(r) ==
    CASE exchanges[r].kind = "login" ->
            [session |-> {r}, csrf |-> {r}, login |-> {}, loginExpires |-> 0]
      [] exchanges[r].kind = "reauthenticate" -> [cookies EXCEPT !.csrf = {r}]
      [] exchanges[r].kind = "signout" -> [cookies EXCEPT !.session = {}, !.csrf = {}]
      [] OTHER -> cookies

Answer(r) ==
    /\ exchanges[r].at = "answer"
    /\ cookies' = SetCookies(r)
    /\ crossed' = (crossed /\ ~(exchanges[r].kind = "login" /\ NoChangeBut(r)))
    /\ End(r, "done")
    /\ UNCHANGED <<now, issued, sessions>>

(* The request fails, or its answer is lost. *)
Fail(r) ==
    /\ Pending(r)
    /\ crossed' = (crossed \/ (exchanges[r].at = "answer" /\ ChangesCookies(exchanges[r].kind)))
    /\ End(r, "rejected")
    /\ UNCHANGED <<now, issued, sessions, cookies>>

SessionNext ==
    \/ Tick
    \/ \E u \in Subjects, t \in {NoTime} \cup (now .. now + ClockSkew) : Issue(u, t)
    \/ \E r \in Exchanges :
        \/ BeginLogin(r) \/ Callback(r)
        \/ \E token \in issued : SignIn(r, token)
        \/ \E kind \in Kinds, token \in {{}} \cup {{t} : t \in issued} : Send(r, kind, token)
        \/ Authenticate(r) \/ Check(r) \/ Commit(r)
        \/ Answer(r) \/ Fail(r)

SessionSpec == SessionInit /\ [][SessionNext]_sessionVars

-----------------------------------------------------------------------------
(* Type correctness of rows, tokens, cookies and requests. *)
SessionTypeOK ==
    /\ now \in Nat
    /\ issued \subseteq IdToken
    /\ sessions \in [Exchanges -> SUBSET Row]
    /\ \A r \in Exchanges : \A x, y \in sessions[r] : x = y
    /\ cookies \in Cookies
    /\ exchanges \in [Exchanges -> Exchange]
    /\ crossed \in BOOLEAN

(* A sensitive action is authorized only while an authentication of the    *)
(* session's own user is recent, whichever requests have written to the    *)
(* session in between.  The one exception is a provider that does not tell *)
(* when: then the sign-in counts as the authentication.                    *)
SignInCounts(s, row) ==
    /\ \E token \in exchanges[s].token : token.authTime = NoTime
    /\ now <= row.expiresAt - SessionLifetime + RecentWindow

SensitiveIsRecent ==
    [][\A r \in Exchanges :
        (exchanges[r].kind = "sensitive" /\ exchanges[r].at # "authorized"
                                        /\ exchanges'[r].at = "authorized") =>
            \E s \in exchanges[r].session : \E row \in sessions[s] :
                \/ \E token \in issued :
                    /\ token.subject = row.user
                    /\ token.authTime # NoTime /\ IsRecent(token.authTime)
                \/ SignInCounts(s, row)]_sessionVars

(* The browser and the session agree on the CSRF token: a request is       *)
(* refused for it only if it overlaps a change of cookies, or earlier      *)
(* changes overlapped each other or lost an answer, and then signing in    *)
(* again mends it.                                                         *)
CsrfRejectedOnlyIfCrossed ==
    [][\A r \in Exchanges :
        (exchanges[r].at = "sent" /\ exchanges'[r].at = "csrf_rejected") =>
            crossed \/ ~exchanges[r].alone]_sessionVars

(* A login comes back to cookies that are not its own only if another      *)
(* login of the browser overlaps it, or it took longer than they live.     *)
LoginRejectedOnlyIfOverlapping ==
    [][\A r \in Exchanges :
        (exchanges[r].at = "begun" /\ exchanges'[r].at = "invalid_callback") =>
            ~exchanges[r].alone \/ now >= cookies.loginExpires]_sessionVars

(* What is signed out stays so, even if a reauthentication that began      *)
(* before writes to the session afterwards.                                *)
SignedOutStays ==
    [][\A r \in Exchanges :
        (\E row \in sessions[r] : row.revoked) => (\E row \in sessions'[r] : row.revoked)]_sessionVars

=============================================================================
