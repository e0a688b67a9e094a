------------------------------- MODULE Sessions -------------------------------
(***************************************************************************)
(* AuthService and the guards in front of every handler: login with its    *)
(* lockout counter, refresh, logout, the check of an access token and the  *)
(* handshake of a socket, one action per call they await on Redis or on    *)
(* the database, beside deactivations and the clock.                       *)
(*                                                                         *)
(* The clock counts half seconds.  A JWT is dated in whole seconds, while  *)
(* a Redis key lives for whole seconds from the moment it is written.      *)
(***************************************************************************)
EXTENDS Integers

CONSTANTS
    Users,
    Requests,       \* HTTP requests and socket handshakes, each made once
    FirstTokens,    \* pairs of tokens delivered before the start, a session each
    FirstUser,      \* the user of each of them
    AccessLife,     \* JWT_ACCESS_EXPIRES_IN, in seconds
    RefreshLife,    \* JWT_REFRESH_EXPIRES_IN
    RefreshTTL,     \* REFRESH_TTL
    MaxAttempts,    \* MAX_LOGIN_ATTEMPTS
    LockSeconds,    \* LOGIN_LOCK_SECONDS
    MaxClock,       \* bound: the clock stops there
    NoToken, NoCall

ASSUME FirstUsers == FirstUser \in [FirstTokens -> Users]
ASSUME FirstTokensAreNoRequests == FirstTokens \cap Requests = {}
ASSUME LivesAreSeconds ==
    {AccessLife, RefreshLife, RefreshTTL, MaxAttempts, LockSeconds, MaxClock} \subseteq Nat \ {0}

\* Seven days both, by the defaults and the examples; a deployment that
\* configures longer tokens has sessions that end before them.
ASSUME KeysOutliveTokens == RefreshLife <= RefreshTTL

\* The pair of tokens and the session id a request issues are named after it.
Tokens == FirstTokens \cup Requests
Sids == Tokens
Second(t) == t \div 2
Payloads == [user: Users, sid: Sids, iat: 0..Second(MaxClock)]

ASSUME NoTokenIsNone == NoToken \notin Tokens \cup Payloads

Call(op, u, t, good) == [op |-> op, user |-> u, token |-> t, good |-> good]
Logins == {Call("login", u, NoToken, good) : u \in Users, good \in BOOLEAN}
Calls == Logins \cup {Call(op, u, t, TRUE) :
    op \in {"refresh", "logout", "use", "socket"}, u \in Users, t \in Tokens}

ASSUME NoCallIsNone == NoCall \notin Calls

VARIABLES
    clock,
    isActive,   \* users.isActive
    token,      \* the payload of every pair that has been signed
    session,    \* the keys refresh:<user>:<sid>: when each expires, 0 if absent
    denied,     \* the keys denylist:access:<jti>, likewise
    fails,      \* the keys login-fail:<email>: the count
    failsUntil, \* and when they expire
    pc, call,
    late        \* history: what was already so when the request arrived

redis == <<session, denied, fails, failsUntil>>
vars == <<clock, isActive, token, redis, pc, call, late>>

Expiry(seconds) == clock + 2 * seconds
Live(until) == clock < until
Forever == MaxClock + 2 * LockSeconds + 1      \* no expiry: later than any other

Keys == Users \X Sids
UserOf(r) == call[r].user

SidOf(r) == IF call[r].op = "login" THEN r ELSE token[call[r].token].sid

RefreshKey(u, s) == <<u, s>>

FirstToken(t) == [user |-> FirstUser[t], sid |-> t, iat |-> 0]

Init ==
    /\ clock = 0
    /\ isActive = [u \in Users |-> TRUE]
    /\ token = [t \in Tokens |-> IF t \in FirstTokens THEN FirstToken(t) ELSE NoToken]
    /\ session = [k \in Keys |->
           IF \E t \in FirstTokens : k = RefreshKey(FirstUser[t], t) THEN 2 * RefreshTTL ELSE 0]
    /\ denied = [t \in Tokens |-> 0]
    /\ fails = [u \in Users |-> 0]
    /\ failsUntil = [u \in Users |-> 0]
    /\ pc = [r \in Requests |-> "idle"]
    /\ call = [r \in Requests |-> NoCall]
    /\ late = [r \in Requests |-> {}]

-----------------------------------------------------------------------------
Settled == {"issued", "admitted", "joined", "out", "refused", "failed"}

Go(r, to) == pc' = [pc EXCEPT ![r] = to]
Unchanged == UNCHANGED <<clock, isActive, token, redis, call, late>>

\* A check: the handler goes on, or the request is refused.
Check(r, at, holds, next) ==
    /\ pc[r] = at
    /\ Go(r, IF holds THEN next ELSE "refused")
    /\ Unchanged

\* The tokens a client can hold: those of a request that was answered.
Delivered(t) == t \in FirstTokens \/ (t \in Requests /\ pc[t] = "issued")
LoggedOut(t) == \E s \in Requests : pc[s] = "out" /\ call[s].token = t

What(c) == {w \in {"logout", "inactive"} :
    \/ w = "logout" /\ c.op # "login" /\ LoggedOut(c.token)
    \/ w = "inactive" /\ ~isActive[c.user]}

Arrive(r) ==
    /\ pc[r] = "idle"
    /\ \E c \in Calls :
         /\ c.op # "login" => Delivered(c.token) /\ token[c.token].user = c.user
         /\ call' = [call EXCEPT ![r] = c]
         /\ late' = [late EXCEPT ![r] = What(c)]
         /\ Go(r, IF c.op = "login" THEN "attempts" ELSE "verify")
    /\ UNCHANGED <<clock, isActive, token, redis>>

-----------------------------------------------------------------------------
(* login *)

Fails(u) == IF Live(failsUntil[u]) THEN fails[u] ELSE 0

ReadAttempts(r) == Check(r, "attempts", Fails(UserOf(r)) < MaxAttempts, "password")

\* findByEmail and the comparison: the row that is read here decides.
CheckPassword(r) ==
    /\ pc[r] = "password"
    /\ Go(r, CASE ~call[r].good -> "increment"
               [] call[r].good /\ isActive[UserOf(r)] -> "reset"
               [] OTHER -> "refused")
    /\ Unchanged

\* RedisService.increment is two commands: INCR keeps the expiry of a key
\* that exists and makes a key without one, EXPIRE follows for a new key.
\*
\* Mutation: an expiry for the second failure.
IsSecond(u) == Fails(u) = 1

IsFirst(u) == Fails(u) = 0

Increment(r) ==
    LET u == UserOf(r)
    IN  /\ pc[r] = "increment"
        /\ fails' = [fails EXCEPT ![u] = Fails(u) + 1]
        /\ failsUntil' = [failsUntil EXCEPT ![u] = IF Live(@) THEN @ ELSE Forever]
        /\ Go(r, IF IsFirst(u) THEN "expire" ELSE "refused")
        /\ UNCHANGED <<clock, isActive, token, session, denied, call, late>>

Expire(r) ==
    LET u == UserOf(r)
    IN  /\ pc[r] = "expire"
        /\ failsUntil' = [failsUntil EXCEPT ![u] = IF Live(@) THEN Expiry(LockSeconds) ELSE @]
        /\ Go(r, "refused")
        /\ UNCHANGED <<clock, isActive, token, session, denied, fails, call, late>>

Reset(r) ==
    /\ pc[r] = "reset"
    /\ failsUntil' = [failsUntil EXCEPT ![UserOf(r)] = 0]
    /\ fails' = [fails EXCEPT ![UserOf(r)] = 0]
    /\ Go(r, "sign")
    /\ UNCHANGED <<clock, isActive, token, session, denied, call, late>>

-----------------------------------------------------------------------------
(* issueTokens, for login and refresh *)

Sign(r) ==
    /\ pc[r] = "sign"
    /\ token' = [token EXCEPT ![r] =
           [user |-> UserOf(r), sid |-> SidOf(r), iat |-> Second(clock)]]
    /\ Go(r, "store")
    /\ UNCHANGED <<clock, isActive, redis, call, late>>

\* Mutation: a key one second short.
SessionExpiryShort == Expiry(RefreshTTL - 1)

SessionExpiry == Expiry(RefreshTTL)

\* The audit row of a login cannot fail it.
Store(r) ==
    /\ pc[r] = "store"
    /\ session' = [session EXCEPT ![RefreshKey(UserOf(r), SidOf(r))] = SessionExpiry]
    /\ Go(r, "issued")
    /\ UNCHANGED <<clock, isActive, token, denied, fails, failsUntil, call, late>>

-----------------------------------------------------------------------------
(* What a token is checked for. *)

Fresh(t, life) == Second(clock) < token[t].iat + life

Verify(r) ==
    /\ pc[r] = "verify"
    /\ IF call[r].op = "refresh"
       THEN Check(r, "verify", Fresh(call[r].token, RefreshLife), "session")
       ELSE Check(r, "verify", Fresh(call[r].token, AccessLife), "denylist")

\* Mutation: the signature is enough.
MatchesAlways(r) == TRUE

\* refresh: the stored hash.  bcrypt reads 72 bytes, which in a JWT hold the
\* header and the beginning of the user id, so the hash under a user's key
\* matches every refresh token of that user: that the key is there decides.
Matches(r) == Live(session[RefreshKey(UserOf(r), SidOf(r))])

FindSession(r) == Check(r, "session", Matches(r), "user")

\* Mutation: no look at the user again.
UserMayRefresh(r) == TRUE

MayRefresh(r) == isActive[UserOf(r)]

FindUser(r) == Check(r, "user", MayRefresh(r), "sign")

\* JwtStrategy.validate, and the gateway's handshake, which does not look at
\* the user.
CheckDenylist(r) ==
    Check(r, "denylist", ~Live(denied[call[r].token]),
          IF call[r].op = "socket" THEN "joined" ELSE "account")

CheckAccount(r) ==
    Check(r, "account", isActive[UserOf(r)],
          IF call[r].op = "logout" THEN "delete" ELSE "admitted")

-----------------------------------------------------------------------------
(* logout *)

DeleteSession(r) ==
    /\ pc[r] = "delete"
    /\ session' = [session EXCEPT ![RefreshKey(UserOf(r), SidOf(r))] = 0]
    /\ Go(r, "deny")
    /\ UNCHANGED <<clock, isActive, token, denied, fails, failsUntil, call, late>>

SecondsLeft(t) == token[t].iat + AccessLife - Second(clock)

DenyToken(r) ==
    LET t == call[r].token
    IN  /\ pc[r] = "deny"
        /\ denied' = IF SecondsLeft(t) > 0
                     THEN [denied EXCEPT ![t] = Expiry(SecondsLeft(t))]
                     ELSE denied
        /\ Go(r, "out")
        /\ UNCHANGED <<clock, isActive, token, session, fails, failsUntil, call, late>>

-----------------------------------------------------------------------------
(* What runs beside the requests. *)

\* Redis or the database is lost, or the process dies.
Fail(r) ==
    /\ pc[r] \notin Settled \cup {"idle"}
    /\ Go(r, "failed")
    /\ Unchanged

\* UsersService.toggleActive: what was so when a request arrived is no longer.
ToggleActive(u) ==
    /\ isActive' = [isActive EXCEPT ![u] = ~@]
    /\ late' = [r \in Requests |->
           IF pc[r] # "idle" /\ UserOf(r) = u THEN late[r] \ {"inactive"} ELSE late[r]]
    /\ UNCHANGED <<clock, token, redis, pc, call>>

Tick ==
    /\ clock < MaxClock
    /\ clock' = clock + 1
    /\ UNCHANGED <<isActive, token, redis, pc, call, late>>

Next ==
    \/ \E r \in Requests :
         \/ Arrive(r) \/ ReadAttempts(r) \/ CheckPassword(r) \/ Increment(r)
         \/ Expire(r) \/ Reset(r) \/ Sign(r) \/ Store(r)
         \/ Verify(r) \/ FindSession(r) \/ FindUser(r)
         \/ CheckDenylist(r) \/ CheckAccount(r) \/ DeleteSession(r) \/ DenyToken(r)
         \/ Fail(r)
    \/ \E u \in Users : ToggleActive(u)
    \/ Tick

Spec == Init /\ [][Next]_vars

-----------------------------------------------------------------------------
(* Properties. *)

Statements == {"idle", "attempts", "password", "increment", "expire", "reset", "sign",
               "store", "verify", "session", "user", "denylist", "account", "delete",
               "deny"} \cup Settled

\* The keys and the tokens have their types, and a request past its first
\* statement that names a token names one that was signed for its user.
TypeOK ==
    /\ clock \in 0..MaxClock
    /\ isActive \in [Users -> BOOLEAN]
    /\ token \in [Tokens -> Payloads \cup {NoToken}]
    /\ session \in [Keys -> Nat]
    /\ denied \in [Tokens -> Nat]
    /\ fails \in [Users -> Nat]
    /\ failsUntil \in [Users -> Nat]
    /\ pc \in [Requests -> Statements]
    /\ call \in [Requests -> Calls \cup {NoCall}]
    /\ late \in [Requests -> SUBSET {"logout", "inactive"}]
    /\ \A r \in Requests : pc[r] # "idle" =>
           /\ call[r] \in Calls
           /\ call[r].op # "login" =>
                  token[call[r].token] # NoToken /\ token[call[r].token].user = UserOf(r)

\* A request that arrives after the logout of its access token was answered
\* is admitted, or joins a room, only once the token itself has expired: the
\* denylist entry, counted in Redis's seconds from a moment within a second,
\* does not lapse while the token, counted in whole seconds, is fresh.
LogoutIsFinal ==
    \A r \in Requests :
        pc[r] \in {"admitted", "joined", "out"} /\ "logout" \in late[r] =>
            ~Fresh(call[r].token, AccessLife)

\* "deactivation ... take effect immediately" (jwt.strategy.ts): an account
\* that is inactive from before a request arrives gets neither through the
\* guard nor to new tokens.  (A socket's handshake does not ask.)
DeactivationIsImmediate ==
    \A r \in Requests :
        pc[r] \in {"admitted", "out", "issued"} => "inactive" \notin late[r]

\* Nobody is logged out early, nor by another device ("other devices keep
\* their sessions"): until a logout of that very session, its key is there for
\* as long as any refresh token delivered in it is fresh, although the two are
\* dated at different moments and in different seconds.
Leaving(r, s) ==
    /\ call[r] # NoCall /\ call[r].op = "logout" /\ SidOf(r) = s
    /\ pc[r] \in {"deny", "out", "failed"}

SessionOutlivesTokens ==
    \A t \in Tokens :
        /\ Delivered(t) /\ Fresh(t, RefreshLife)
        /\ ~\E r \in Requests : Leaving(r, token[t].sid)
        => Live(session[<<token[t].user, token[t].sid>>])

\* "Revoke only the session this request belongs to" (logout): a session whose
\* logout has been answered is alive only if a refresh in it was, too; and
\* that one was under way when the logout deleted the key, or it would have
\* found none.
RefreshedIn(s) == {r \in Requests : pc[r] = "issued" /\ call[r].op = "refresh" /\ SidOf(r) = s}

LogoutEndsSession ==
    \A r \in Requests :
        /\ pc[r] = "out" /\ Live(session[RefreshKey(UserOf(r), SidOf(r))])
        => \E q \in RefreshedIn(SidOf(r)) :
               call[q].token = call[r].token => "logout" \notin late[q]

\* A logout ends both the access token that asked for it and its session.
LogoutHolds == LogoutIsFinal /\ LogoutEndsSession

\* A counter without an expiry, which would lock its account for good, is that
\* of a login that is about to date it or was lost on the way: though the key
\* may expire between the two commands of increment, and be made again or
\* deleted by other logins, one that is made is always dated.
CountersExpire ==
    \A u \in Users : failsUntil[u] = Forever =>
        \E r \in Requests : /\ pc[r] \in {"expire", "failed"}
                            /\ call[r].op = "login" /\ UserOf(r) = u
=============================================================================
