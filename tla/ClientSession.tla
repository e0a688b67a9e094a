----------------------------- MODULE ClientSession -----------------------------
(***************************************************************************)
(* The session of the web client in one tab: the access token in memory,   *)
(* the interceptor that refreshes it when a request is refused, the one    *)
(* refresh all such requests share, login, logout, reloads of the page,    *)
(* and the pages the guards let the user see.  Of the API it keeps which   *)
(* access tokens and which sessions it still accepts.                      *)
(***************************************************************************)
EXTENDS Navigation

CONSTANTS
    Accounts, RoleOf,
    First,          \* the session the browser's cookie names at the start
    FirstAccount,
    ApiSlots,       \* requests of the pages, each made once
    AuthSlots,      \* logins and logouts, each made once
    Loads,          \* loads of the page, each made once
    Configs,        \* what app-config.json may leave active
    Urls,           \* bound: the routes the user opens
    None

Slots == ApiSlots \cup AuthSlots

ASSUME AccountsHaveRoles == RoleOf \in [Accounts -> ALL_ROLES] /\ FirstAccount \in Accounts
ASSUME NamesAreDistinct ==
    /\ ApiSlots \cap AuthSlots = {} /\ Slots \cap Loads = {} /\ First \notin Slots \cup Loads
    /\ None \notin Slots \cup Loads \cup Accounts \cup {First}
ASSUME PageIsLoaded == Loads # {}
ASSUME ConfigsDisableModules == Configs \subseteq SUBSET Modules /\ Urls \subseteq Routes

\* A login names its session and its token; a refresh, which is named after
\* what started it, its token.
Sids == {First} \cup Slots
Tokens == Slots \cup Loads
Refreshes == Slots \cup Loads

VARIABLES
    live,       \* sessions the API still refreshes
    good,       \* access tokens it still accepts
    owner,      \* the account of each session
    sidOf,      \* the session of each token
    cookie,     \* the session the refresh cookie names
    token,      \* _accessToken
    user,       \* _user
    inFlight,   \* _refreshInFlight$
    refresh,    \* the POSTs to /auth/refresh
    http,       \* the other requests
    page,       \* the route shown, or "boot" before the first
    active,     \* AppConfigService.modules
    load        \* the page load that is running

api == <<live, good, owner, sidOf>>
session == <<cookie, token, user>>
client == <<session, inFlight, refresh, http, page, active, load>>
vars == <<api, client>>

Idle == [kind |-> "none", status |-> "idle", token |-> None, answer |-> "none",
         refused |-> None, on |-> None, account |-> None]
NoRefresh == [status |-> "idle", cookie |-> None, token |-> None]

OverRefresh == [NoRefresh EXCEPT !.status = "over"]

\* A request that has been heard, or that nobody listens to any more.
Over == [Idle EXCEPT !.status = "over"]

Loaded == page # "boot"

\* The redirects of clearSession, of a login and of the end of the boot.
Show(id, u) == page' = IF u = None THEN Login ELSE Land(id, RoleOf[u], active)

ClearSession ==
    /\ token' = None /\ user' = None
    /\ page' = Login

-----------------------------------------------------------------------------
(* The API, by what it accepts *)

\* What no request, no cookie and no memory holds can lapse unseen.
Held == ({token} \cup {http[r].token : r \in Slots}) \ {None}

HeldSids == {cookie} \cup {sidOf[t] : t \in Held} \cup {refresh[f].cookie : f \in Refreshes}

Expire(t) ==
    /\ t \in good \cap Held
    /\ good' = good \ {t}
    /\ UNCHANGED <<live, owner, sidOf, client>>

\* A session lapses, or its account is deactivated.
Lapse(s) ==
    /\ s \in live \cap HeldSids
    /\ live' = live \ {s}
    /\ \/ good' = good
       \/ good' = {t \in good : sidOf[t] # s}
    /\ UNCHANGED <<owner, sidOf, client>>

Rejects(r) == http[r].token \notin good

\* A login or a logout is carried out at one moment and heard at another.
Answers(r, answer) ==
    http' = [http EXCEPT ![r].status = "answered", ![r].answer = answer]

ServeLogin(r) ==
    /\ http[r].kind = "login"
    /\ live' = live \cup {r} /\ good' = good \cup {r}
    /\ owner' = [owner EXCEPT ![r] = http[r].account]
    /\ sidOf' = [sidOf EXCEPT ![r] = r]
    /\ Answers(r, "ok")

ServeLogout(r) ==
    /\ http[r].kind = "logout" /\ ~Rejects(r)
    /\ live' = live \ {sidOf[http[r].token]}
    /\ good' = good \ {http[r].token}
    /\ Answers(r, "ok")
    /\ UNCHANGED <<owner, sidOf>>

\* Refused, or lost.
ServeError(r) ==
    /\ Answers(r, "error")
    /\ UNCHANGED api

Serve(r) ==
    /\ http[r].status = "sent" /\ http[r].kind # "api"
    /\ ServeLogin(r) \/ ServeLogout(r) \/ ServeError(r)
    /\ UNCHANGED <<session, inFlight, refresh, page, active, load>>

ServeRefresh(f) ==
    /\ refresh[f].status = "sent"
    /\ \/ /\ refresh[f].cookie \in live
          /\ good' = good \cup {f}
          /\ sidOf' = [sidOf EXCEPT ![f] = refresh[f].cookie]
          /\ refresh' = [refresh EXCEPT ![f].status = "answered", ![f].token = f]
       \/ /\ refresh' = [refresh EXCEPT ![f].status = "answered"]
          /\ UNCHANGED <<good, sidOf>>
    /\ UNCHANGED <<live, owner, session, inFlight, http, page, active, load>>

-----------------------------------------------------------------------------
(* AuthService.refresh: the POST that is in flight, or a new one named f *)

\* Mutation: a refresh for each caller.
CurrentNever(f) == f

Current(f) == IF inFlight = None THEN f ELSE inFlight

Post(f) ==
    IF Current(f) = f
    THEN [refresh EXCEPT ![f] = [status |-> "sent", cookie |-> cookie, token |-> None]]
    ELSE refresh

Waiting(f) == {r \in Slots : http[r].status = "waiting" /\ http[r].on = f}

\* Mutation: the requests that wait are retried with what they had.
RetrySame(r, t) == [http[r] EXCEPT !.status = "sent", !.refused = http[r].token]

\* The interceptor's switchMap: the request again, with the new token.
Retry(r, t) ==
    [http[r] EXCEPT !.status = "sent", !.refused = http[r].token, !.token = t]

\* Mutation: a failure nobody is told of.
FailNobody(waiters) == http

FailAll(waiters) ==
    [r \in Slots |-> IF r \in waiters THEN Over ELSE http[r]]

RefreshedUser(t) == owner[sidOf[t]]

HearRefreshed(f) ==
    LET t == refresh[f].token
    IN  /\ t # None
        /\ token' = t /\ user' = RefreshedUser(t) /\ cookie' = sidOf[t]
        /\ http' = [r \in Slots |-> IF r \in Waiting(f) THEN Retry(r, t) ELSE http[r]]
        /\ UNCHANGED page

HearRefreshFailed(f) ==
    /\ refresh[f].token = None
    /\ http' = FailAll(Waiting(f))
    /\ UNCHANGED cookie
    /\ IF Waiting(f) = {} THEN UNCHANGED <<token, user, page>> ELSE ClearSession

\* finalize lets the next caller post again.
HearRefresh(f) ==
    /\ refresh[f].status = "answered"
    /\ HearRefreshed(f) \/ HearRefreshFailed(f)
    /\ refresh' = [refresh EXCEPT ![f] = OverRefresh]
    /\ inFlight' = IF inFlight = f THEN None ELSE inFlight
    /\ UNCHANGED <<api, active, load>>

-----------------------------------------------------------------------------
(* The interceptor around a request of a page *)

Send(r, kind, account) ==
    /\ http[r] = Idle
    /\ http' = [http EXCEPT ![r] = [Idle EXCEPT !.kind = kind, !.status = "sent",
                                               !.token = token, !.account = account]]
    /\ UNCHANGED <<api, session, inFlight, refresh, page, active, load>>

SendApi(r) == r \in ApiSlots /\ page \in Modules /\ Send(r, "api", None)

End(r) == http' = [http EXCEPT ![r] = Over]

\* The page is left: what it was waiting for is dropped, a refresh is not.
Abandon(r) ==
    /\ http[r].kind = "api" /\ http[r].status # "over"
    /\ End(r)
    /\ UNCHANGED <<api, session, inFlight, refresh, page, active, load>>

Retried(r) == http[r].refused # None

\* What an answer to the page's request changes is decided when it is heard.
Hears(r) == http[r].kind = "api" /\ http[r].status = "sent"

\* An answer of any kind but 401, or none.
HearAnswer(r) ==
    /\ Hears(r)
    /\ ~Retried(r) \/ ~Rejects(r)
    /\ End(r)
    /\ UNCHANGED <<api, session, inFlight, refresh, page, active, load>>

Hear401(r) ==
    /\ Hears(r) /\ Rejects(r) /\ ~Retried(r)
    /\ refresh' = Post(r)
    /\ inFlight' = Current(r)
    /\ http' = [http EXCEPT ![r].status = "waiting", ![r].on = Current(r)]
    /\ UNCHANGED <<api, session, page, active, load>>

\* The second catchError is around the retry as well: whatever it fails with
\* clears the session.
HearRetryFailed(r) ==
    /\ Hears(r) /\ Retried(r)
    /\ End(r)
    /\ ClearSession
    /\ UNCHANGED <<api, cookie, inFlight, refresh, active, load>>

Heard(r, kind) == http[r].status = "answered" /\ http[r].kind = kind

-----------------------------------------------------------------------------
(* Login, logout, navigation, reloads *)

\* The button is disabled until the answer, and after a success.
OnSubmit(r, a) ==
    /\ r \in AuthSlots /\ page = Login
    /\ \A s \in Slots : http[s].kind # "login"
    /\ Send(r, "login", a)

HearLogin(r) ==
    /\ Heard(r, "login")
    /\ End(r)
    /\ IF http[r].answer = "ok"
       THEN /\ token' = r /\ user' = http[r].account /\ cookie' = r
            /\ Show(Welcome(RoleOf[user']), user')
       ELSE UNCHANGED <<session, page>>
    /\ UNCHANGED <<api, inFlight, refresh, active, load>>

Logout(r) == r \in AuthSlots /\ page \in Modules /\ Send(r, "logout", None)

\* Mutation: the page stays.
EndLogoutHere == token' = None /\ user' = None /\ UNCHANGED page

EndLogout == ClearSession

\* Any error counts as an answer.
HearLogout(r) ==
    /\ Heard(r, "logout")
    /\ End(r)
    /\ cookie' = IF http[r].answer = "ok" THEN None ELSE cookie
    /\ EndLogout
    /\ UNCHANGED <<api, inFlight, refresh, active, load>>

\* authGuard, then the guards of the module.
Navigate(id) ==
    /\ Loaded
    /\ Show(id, user)
    /\ UNCHANGED <<api, session, inFlight, refresh, http, active, load>>

\* A reload: memory and requests are lost, the cookie is not.  The
\* configuration is fetched; without it everything is active.
Reload(f) ==
    /\ Loaded
    /\ refresh[f] = NoRefresh
    /\ load' = f
    /\ active' \in Configs \cup {Modules}
    /\ token' = None /\ user' = None /\ page' = "boot"
    /\ http' = [r \in Slots |-> IF http[r] = Idle THEN Idle ELSE Over]
    /\ refresh' = [g \in Refreshes |->
           IF g = f THEN [status |-> "sent", cookie |-> cookie, token |-> None]
           ELSE IF refresh[g] = NoRefresh THEN NoRefresh
           ELSE OverRefresh]
    /\ inFlight' = f
    /\ UNCHANGED <<api, cookie>>

\* bootstrap resolves whatever the refresh came to; the router starts at the
\* URL that was open.
Boot ==
    /\ page = "boot" /\ refresh[load].status = "over"
    /\ \E id \in Urls : Show(id, user)
    /\ UNCHANGED <<api, session, inFlight, refresh, http, active, load>>

-----------------------------------------------------------------------------
\* The page is being loaded, in a browser with the cookie of a session.
Init ==
    /\ live = {First} /\ good = {}
    /\ owner = [s \in Sids |-> IF s = First THEN FirstAccount ELSE None]
    /\ sidOf = [t \in Tokens |-> None]
    /\ cookie = First /\ token = None /\ user = None
    /\ http = [r \in Slots |-> Idle]
    /\ page = "boot"
    /\ active \in Configs \cup {Modules}
    /\ load = CHOOSE f \in Loads : TRUE
    /\ inFlight = load
    /\ refresh = [f \in Refreshes |->
           IF f = load THEN [status |-> "sent", cookie |-> First, token |-> None] ELSE NoRefresh]

Hear(r) ==
    HearAnswer(r) \/ Hear401(r) \/ HearRetryFailed(r) \/ HearLogin(r) \/ HearLogout(r)

Next ==
    \/ \E r \in Slots : SendApi(r) \/ Abandon(r) \/ Serve(r) \/ Hear(r) \/ Logout(r)
    \/ \E r \in Slots, a \in Accounts : OnSubmit(r, a)
    \/ \E f \in Refreshes : ServeRefresh(f) \/ HearRefresh(f)
    \/ \E f \in Loads : Reload(f)
    \/ \E t \in Tokens : Expire(t)
    \/ \E s \in Sids : Lapse(s)
    \/ \E id \in Urls : Navigate(id)
    \/ Boot

Spec == Init /\ [][Next]_vars

\* Every request is answered, if only by an error, and every answer is heard.
\* As each is made once, it is enough that these steps do not stop for good.
Progress ==
    \/ \E r \in Slots : Serve(r) \/ Hear(r)
    \/ \E f \in Refreshes : ServeRefresh(f) \/ HearRefresh(f)
    \/ Boot

FairSpec == Spec /\ WF_vars(Progress)

-----------------------------------------------------------------------------
(* Properties. *)

Statuses == {"idle", "sent", "answered", "waiting", "over"}

\* "Single in-flight refresh shared by all callers" (auth.service.ts): however
\* many requests are refused together, a page has one POST unanswered, it is
\* the one that the next caller will share, and every request that waits
\* waits for it, so none waits for an answer that has been and gone.
OneRefresh ==
    /\ \A f \in Refreshes : refresh[f].status \in {"sent", "answered"} <=> f = inFlight
    /\ \A r \in Slots :
           http[r].status = "waiting" => inFlight # None /\ http[r].on = inFlight

\* A request is sent again only with a token issued after the one it was
\* refused with, though several logins, refreshes and logouts may have come
\* between its first sending and the refresh it waited for.
RetriesAreNewer ==
    \A r \in Slots : Retried(r) =>
        http[r].token # http[r].refused /\ http[r].token = http[r].on

\* A module is on the screen only with a token, and the user whose name and
\* menu it shows is the one that token was issued to, whoever logged in or
\* out while a refresh of another session was on its way.
ScreenIsTheUsers ==
    /\ page \in Modules => token # None
    /\ token # None => user = owner[sidOf[token]]

\* The redirects of the guards end, whatever the role, the URL and the
\* modules that are active: at a page the role may see, and at a disabled one
\* only if all of the menu is disabled; and what the menu offers is
\* what it leads to, although routes and menu list the roles separately.
RedirectsEnd ==
    page = "boot" =>
        \A role \in ALL_ROLES :
            /\ \A id \in Modules :
                 LET end == Land(id, role, active)
                 IN  /\ Hop(end, role, active) = end
                     /\ role \in ShellRoutes[end]
                     /\ end \in active \/ Menu(role, active) = {}
            /\ \A id \in Menu(role, active) : Land(id, role, active) = id

\* Every request ends, though it be refused, wait for a refresh and be sent
\* again: the page is never left waiting for good.
EveryRequestEnds == []<>(\A r \in Slots : http[r] \in {Idle, Over})
=============================================================================
