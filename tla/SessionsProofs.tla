---------------------------- MODULE SessionsProofs ----------------------------
(***************************************************************************)
(* What logins, refreshes, logouts and the guards keep for every number of *)
(* users, requests and tokens, whatever the lives of tokens and keys.      *)
(***************************************************************************)
EXTENDS Sessions, TLAPS

\* Which requests reach which statement.
Before == {"idle", "attempts", "password", "increment", "expire", "reset", "sign",
           "verify", "session", "user"}
LoginOnly == {"attempts", "password", "increment", "expire", "reset"}
Issuing == {"sign", "store", "issued"}
Held == {"denylist", "account", "admitted", "joined", "delete", "deny", "out"}

Flow ==
    \A r \in Requests :
        /\ pc[r] \in LoginOnly => call[r].op = "login"
        /\ pc[r] = "verify" => call[r].op # "login"
        /\ pc[r] \in {"session", "user"} => call[r].op = "refresh"
        /\ pc[r] \in Issuing => call[r].op \in {"login", "refresh"}
        /\ pc[r] \in Held => call[r].op \in {"logout", "use", "socket"}
        /\ pc[r] \in {"account", "admitted"} => call[r].op \in {"logout", "use"}
        /\ pc[r] \in {"delete", "deny", "out"} => call[r].op = "logout"
        /\ pc[r] = "idle" <=> call[r] = NoCall
        /\ pc[r] = "idle" => late[r] = {}

\* Tokens are signed once, before they are delivered, and in the past.
Signed ==
    /\ \A t \in Tokens : Delivered(t) => token[t] # NoToken
    /\ \A r \in Requests : pc[r] \in Before => token[r] = NoToken
    /\ \A t \in Tokens : token[t] # NoToken => token[t].iat <= Second(clock)
    /\ \A r \in Requests : pc[r] = "store" => token[r].user = UserOf(r) /\ token[r].sid = SidOf(r)
                                               /\ token[r] # NoToken

\* A request names a token that was delivered, and a delivered token is of a
\* session that was.
Named ==
    /\ \A r \in Requests : call[r] # NoCall /\ call[r].op # "login" => Delivered(call[r].token)
    /\ \A t \in Tokens : token[t] # NoToken =>
           Delivered(token[t].sid) \/ (t \in Requests /\ token[t].sid = t)

-----------------------------------------------------------------------------
(* Deactivation. *)

Judged == {"reset", "sign", "store", "issued", "admitted", "delete", "deny", "out"}

InactiveIsSo ==
    \A r \in Requests : "inactive" \in late[r] => ~isActive[UserOf(r)] /\ pc[r] \notin Judged

-----------------------------------------------------------------------------
(* Logout. *)

\* The second, doubled, from which a token is stale.
Until(t, life) == 2 * (token[t].iat + life)

Denied ==
    \A t \in Tokens : LoggedOut(t) => denied[t] >= Until(t, AccessLife) \/ clock >= Until(t, AccessLife)

LateLogouts ==
    \A r \in Requests : "logout" \in late[r] =>
        /\ call[r].op # "login" /\ LoggedOut(call[r].token)
        /\ pc[r] \in Held \ {"denylist"} => clock >= Until(call[r].token, AccessLife)

\* A refresh of the session of r that was under way at the logout.
Excused(r) ==
    \E q \in Requests :
        /\ pc[q] = "issued" /\ call[q].op = "refresh" /\ SidOf(q) = SidOf(r)
        /\ call[q].token = call[r].token => "logout" \notin late[q]

Alive(r) == Live(session[RefreshKey(UserOf(r), SidOf(r))])

Ended == \A r \in Requests : pc[r] \in {"deny", "out"} /\ Alive(r) => Excused(r)

FoundAlive ==
    \A q \in Requests :
        pc[q] \in {"user", "sign", "store"} /\ call[q].op = "refresh" /\ "logout" \in late[q] =>
            Excused(q)

-----------------------------------------------------------------------------
(* The session's key. *)

Kept ==
    \A t \in Tokens : Delivered(t) =>
        \/ \E r \in Requests : Leaving(r, token[t].sid)
        \/ session[RefreshKey(token[t].user, token[t].sid)] >= Until(t, RefreshLife)

IInv ==
    /\ TypeOK /\ Flow /\ Signed /\ Named
    /\ InactiveIsSo /\ Denied /\ LateLogouts /\ Ended /\ FoundAlive /\ Kept
    /\ CountersExpire

-----------------------------------------------------------------------------
LEMMA CallFields ==
    /\ \A c \in Calls : /\ c.op \in {"login", "refresh", "logout", "use", "socket"}
                        /\ c.user \in Users
                        /\ c.op # "login" => c.token \in Tokens
    /\ NoCall \notin Calls
  BY NoCallIsNone DEF Calls, Logins, Call

LEMMA Constants ==
    /\ AccessLife \in Nat /\ RefreshLife \in Nat /\ RefreshTTL \in Nat /\ LockSeconds \in Nat
    /\ MaxAttempts \in Nat /\ MaxClock \in Nat /\ RefreshLife <= RefreshTTL
    /\ NoToken \notin Tokens \cup Payloads /\ Requests \subseteq Tokens /\ Sids = Tokens
    /\ \A r \in Requests : r \notin FirstTokens
  BY LivesAreSeconds, KeysOutliveTokens, NoTokenIsNone, FirstTokensAreNoRequests DEF Tokens, Sids

LEMMA InitEstablishesIInv == Init => IInv
<1>. SUFFICES ASSUME Init PROVE IInv
  OBVIOUS
<1>. USE DEF Init
<1>0. \A t \in FirstTokens : FirstToken(t) \in Payloads
  BY FirstUsers, Constants DEF FirstToken, Payloads, Tokens, Sids, Second
<1>1. TypeOK
  BY <1>0, Constants DEF TypeOK, Statements
<1>2. Flow
  BY DEF Flow, LoginOnly, Issuing, Held
<1>3. Signed
  <2>1. \A t \in FirstTokens : token[t] = FirstToken(t) /\ token[t] # NoToken
    BY <1>0, Constants DEF Tokens
  <2>. QED
    BY <2>1, Constants DEF Signed, Delivered, Tokens, FirstToken, Second
<1>4. Named
  BY Constants DEF Named, Delivered, Tokens, FirstToken
<1>5. InactiveIsSo /\ Denied /\ LateLogouts /\ Ended /\ FoundAlive /\ CountersExpire
  BY Constants DEF InactiveIsSo, Denied, LateLogouts, Ended, FoundAlive, CountersExpire, LoggedOut, Forever
<1>6. Kept
  <2>. SUFFICES ASSUME NEW t \in Tokens, Delivered(t)
                PROVE  session[RefreshKey(token[t].user, token[t].sid)] >= Until(t, RefreshLife)
    BY DEF Kept
  <2>1. t \in FirstTokens
    BY DEF Delivered
  <2>2. token[t] = FirstToken(t)
    BY <2>1 DEF Tokens
  <2>3. RefreshKey(FirstUser[t], t) \in Keys
    BY <2>1, FirstUsers DEF RefreshKey, Keys, Sids, Tokens
  <2>4. session[RefreshKey(FirstUser[t], t)] = 2 * RefreshTTL
    BY <2>1, <2>3
  <2>. QED
    BY <2>2, <2>4, Constants DEF FirstToken, Until
<1>. QED
  BY <1>1, <1>2, <1>3, <1>4, <1>5, <1>6 DEF IInv

-----------------------------------------------------------------------------
(* Steps that only move one request on. *)

Targets == {"password", "increment", "reset", "session", "denylist", "user", "sign",
            "joined", "account", "delete", "admitted", "refused", "failed"}

\* What has to be so where a request arrives.
Fits(r, to) ==
    /\ to \in LoginOnly => call[r].op = "login"
    /\ to \in {"session", "user"} => call[r].op = "refresh"
    /\ to = "sign" => call[r].op \in {"login", "refresh"}
    /\ to \in Held => call[r].op \in {"logout", "use", "socket"}
    /\ to \in {"account", "admitted"} => call[r].op \in {"logout", "use"}
    /\ to = "delete" => call[r].op = "logout"
    /\ to \in Before => pc[r] \in Before
    /\ to \in Judged => "inactive" \notin late[r]
    /\ to \in Held \ {"denylist"} /\ "logout" \in late[r] =>
           clock >= Until(call[r].token, AccessLife)
    /\ to \in {"user", "sign"} /\ call[r].op = "refresh" /\ "logout" \in late[r] => Excused(r)
    /\ pc[r] \in {"expire", "deny"} => to = "failed"

LEMMA MovePreservesIInv ==
    ASSUME IInv, NEW r \in Requests, NEW to \in Targets,
           pc[r] \notin Settled \cup {"idle"}, Fits(r, to), Go(r, to), Unchanged
    PROVE  IInv'
<1>1. /\ pc' = [pc EXCEPT ![r] = to] /\ pc \in [Requests -> Statements]
      /\ UNCHANGED <<clock, isActive, token, session, denied, fails, failsUntil, call, late>>
  BY DEF Go, Unchanged, redis, IInv, TypeOK
<1>2. pc'[r] = to /\ \A s \in Requests \ {r} : pc'[s] = pc[s]
  BY <1>1
<1>3. /\ pc[r] # "issued" /\ to # "issued" /\ pc[r] # "out" /\ to # "out"
      /\ pc[r] # "idle" /\ to # "idle" /\ to # "store" /\ to # "deny" /\ to # "expire"
  BY DEF Settled, Targets
<1>4. \A t \in Tokens : (Delivered(t)' <=> Delivered(t)) /\ (LoggedOut(t)' <=> LoggedOut(t))
  BY <1>1, <1>2, <1>3 DEF Delivered, LoggedOut
<1>5. \A s \in Requests : SidOf(s)' = SidOf(s) /\ UserOf(s)' = UserOf(s)
  BY <1>1 DEF SidOf, UserOf
<1>6. TypeOK'
  BY <1>1, <1>2, <1>3 DEF IInv, TypeOK, Targets, Statements, Settled, UserOf
<1>7. Flow'
  BY <1>1, <1>2, <1>3 DEF IInv, Flow, Fits, Targets, LoginOnly, Issuing, Held
<1>8. Signed'
  BY <1>1, <1>2, <1>3, <1>4, <1>5 DEF IInv, Signed, Fits, Second
<1>11. Named'
  <2>1. \A t : Delivered(t) => Delivered(t)'
    BY <1>1, <1>2, <1>3 DEF Delivered
  <2>. QED
    BY <1>1, <2>1 DEF IInv, Named, Delivered
<1>12. InactiveIsSo'
  BY <1>1, <1>2, <1>5 DEF IInv, InactiveIsSo, Fits
<1>13. Denied'
  BY <1>1, <1>4 DEF IInv, Denied, Until
<1>14. LateLogouts'
  BY <1>1, <1>2, <1>4, <1>3 DEF IInv, LateLogouts, Until, Fits, LoggedOut
<1>15. \A s \in Requests : Excused(s) => Excused(s)'
  BY <1>1, <1>2, <1>3, <1>5 DEF Excused
<1>16. Ended'
  BY <1>1, <1>2, <1>3, <1>5, <1>15 DEF IInv, Ended, Alive, RefreshKey, Live
<1>17. FoundAlive'
  BY <1>1, <1>2, <1>3, <1>15 DEF IInv, FoundAlive, Fits
<1>18. Kept'
  <2>1. \A s \in Requests : \A sid : Leaving(s, sid) => Leaving(s, sid)'
    BY <1>1, <1>2, <1>5 DEF Leaving, Fits, Settled
  <2>. QED
    BY <1>1, <1>4, <2>1 DEF IInv, Kept, Until
<1>19. CountersExpire'
  BY <1>1, <1>2, <1>5 DEF IInv, CountersExpire, Fits, Settled, Forever
<1>. QED
  BY <1>6, <1>7, <1>8, <1>11, <1>12, <1>13, <1>14, <1>16, <1>17, <1>18, <1>19 DEF IInv

LEMMA ChecksMove ==
    ASSUME IInv, NEW r \in Requests,
           ReadAttempts(r) \/ CheckPassword(r) \/ Verify(r) \/ FindUser(r) \/ CheckAccount(r) \/ Fail(r)
    PROVE  IInv'
<1>. USE DEF IInv, Flow, LateLogouts, InactiveIsSo, Fits, Targets, LoginOnly, Issuing, Held, Before,
             Judged, Settled
<1>1. CASE ReadAttempts(r)
  <2>. DEFINE to == IF Fails(UserOf(r)) < MaxAttempts THEN "password" ELSE "refused"
  <2>1. pc[r] = "attempts" /\ Go(r, to) /\ Unchanged
    BY <1>1 DEF ReadAttempts, Check
  <2>2. to \in {"password", "refused"}
    OBVIOUS
  <2>. HIDE DEF to
  <2>3. Fits(r, to) /\ to \in Targets
    BY <2>1, <2>2
  <2>. QED
    BY <2>1, <2>3, MovePreservesIInv DEF Settled
<1>2. CASE CheckPassword(r)
  <2>1. PICK to \in {"increment", "reset", "refused"} :
            pc[r] = "password" /\ Go(r, to) /\ Unchanged /\ (to = "reset" => isActive[UserOf(r)])
    BY <1>2 DEF CheckPassword
  <2>2. call[r].op = "login" /\ "logout" \notin late[r] /\ (to = "reset" => "inactive" \notin late[r])
    BY <2>1
  <2>3. Fits(r, to) /\ to \in Targets
    BY <2>1, <2>2
  <2>. QED
    BY <2>1, <2>3, MovePreservesIInv
<1>3. CASE Verify(r)
  <2>1. PICK to \in {"session", "denylist", "refused"} :
            /\ pc[r] = "verify" /\ Go(r, to) /\ Unchanged
            /\ to = "session" => call[r].op = "refresh"
            /\ to = "denylist" => call[r].op # "refresh"
    BY <1>3 DEF Verify, Check
  <2>2. call[r].op # "login" => call[r].op \in {"refresh", "logout", "use", "socket"}
    BY <2>1, CallFields DEF TypeOK
  <2>3. Fits(r, to) /\ to \in Targets
    BY <2>1, <2>2
  <2>. QED
    BY <2>1, <2>3, MovePreservesIInv
<1>4. CASE FindUser(r)
  <2>1. PICK to \in {"sign", "refused"} :
            pc[r] = "user" /\ Go(r, to) /\ Unchanged /\ (to = "sign" => isActive[UserOf(r)])
    BY <1>4 DEF FindUser, Check, MayRefresh
  <2>2. Fits(r, to) /\ to \in Targets
    BY <2>1 DEF FoundAlive
  <2>. QED
    BY <2>1, <2>2, MovePreservesIInv
<1>5. CASE CheckAccount(r)
  <2>1. PICK to \in {"delete", "admitted", "refused"} :
            /\ pc[r] = "account" /\ Go(r, to) /\ Unchanged
            /\ to = "delete" => call[r].op = "logout"
            /\ to # "refused" => isActive[UserOf(r)]
    BY <1>5 DEF CheckAccount, Check
  <2>2. Fits(r, to) /\ to \in Targets
    BY <2>1
  <2>. QED
    BY <2>1, <2>2, MovePreservesIInv
<1>6. CASE Fail(r)
  <2>1. pc[r] \notin Settled \cup {"idle"} /\ Go(r, "failed") /\ Unchanged
    BY <1>6 DEF Fail
  <2>2. Fits(r, "failed") /\ "failed" \in Targets
    OBVIOUS
  <2>. QED
    BY <2>1, <2>2, MovePreservesIInv
<1>. QED
  BY <1>1, <1>2, <1>3, <1>4, <1>5, <1>6

\* A refresh that finds a session whose logout was answered before it came
\* finds what another refresh, under way at the logout, has left.
LEMMA FindSessionPreservesIInv ==
    ASSUME IInv, NEW r \in Requests, FindSession(r) PROVE IInv'
<1>1. PICK to \in {"user", "refused"} :
          pc[r] = "session" /\ Go(r, to) /\ Unchanged /\ (to = "user" => Alive(r))
  BY DEF FindSession, Check, Matches, Alive
<1>2. ASSUME to = "user", "logout" \in late[r] PROVE Excused(r)
  <2>1. LoggedOut(call[r].token)
    BY <1>2 DEF IInv, LateLogouts
  <2>2. PICK s \in Requests : pc[s] = "out" /\ call[s].token = call[r].token
    BY <2>1 DEF LoggedOut
  <2>3. call[s].op # "login" /\ call[r].op # "login"
    BY <1>1, <2>2 DEF IInv, Flow, LoginOnly
  <2>4. SidOf(s) = SidOf(r) /\ UserOf(s) = UserOf(r)
    BY <1>1, <2>2, <2>3 DEF SidOf, IInv, TypeOK
  <2>5. Excused(s)
    BY <1>1, <1>2, <2>2, <2>4 DEF IInv, Ended, Alive
  <2>. QED
    BY <2>2, <2>4, <2>5 DEF Excused
<1>3. Fits(r, to) /\ to \in Targets
  BY <1>1, <1>2 DEF Fits, Targets, IInv, Flow, LoginOnly, Held, Before, Judged
<1>. QED
  BY <1>1, <1>3, MovePreservesIInv DEF Settled

LEMMA CheckDenylistPreservesIInv ==
    ASSUME IInv, NEW r \in Requests, CheckDenylist(r) PROVE IInv'
<1>1. PICK to \in {"joined", "account", "refused"} :
          /\ pc[r] = "denylist" /\ Go(r, to) /\ Unchanged
          /\ to = "joined" <=> to # "refused" /\ call[r].op = "socket"
          /\ to # "refused" => ~Live(denied[call[r].token])
  BY DEF CheckDenylist, Check
<1>2. call[r].op \in {"logout", "use", "socket"} /\ call[r].token \in Tokens
  BY <1>1, CallFields DEF IInv, Flow, Held, TypeOK
<1>3. ASSUME to # "refused", "logout" \in late[r] PROVE clock >= Until(call[r].token, AccessLife)
  <2>1. LoggedOut(call[r].token)
    BY <1>3 DEF IInv, LateLogouts
  <2>2. token[call[r].token] \in Payloads
    BY <1>1, <1>2 DEF IInv, TypeOK
  <2>3. Until(call[r].token, AccessLife) \in Int /\ denied[call[r].token] \in Int /\ clock \in Int
    BY <1>2, <2>2, Constants DEF Until, Payloads, IInv, TypeOK, Second
  <2>. QED
    BY <1>1, <1>2, <1>3, <2>1, <2>3 DEF IInv, Denied, Live
<1>4. Fits(r, to) /\ to \in Targets
  BY <1>1, <1>2, <1>3 DEF Fits, Targets, LoginOnly, Held, Before, Judged
<1>. QED
  BY <1>1, <1>4, MovePreservesIInv DEF Settled

-----------------------------------------------------------------------------
(* Arrivals, and the steps that change a key or a token. *)

\* What no step undoes.
LEMMA Monotone ==
    ASSUME NEW r \in Requests, NEW to, pc \in [Requests -> Statements],
           Go(r, to), pc[r] \notin {"issued", "out"}, UNCHANGED call
    PROVE  /\ pc'[r] = to /\ \A s \in Requests \ {r} : pc'[s] = pc[s]
           /\ \A t : Delivered(t) => Delivered(t)'
           /\ \A t : LoggedOut(t) => LoggedOut(t)'
           /\ \A t : to # "issued" \/ t # r => (Delivered(t)' => Delivered(t))
           /\ \A t : to # "out" \/ call[r].token # t => (LoggedOut(t)' => LoggedOut(t))
<1>1. pc'[r] = to /\ \A s \in Requests \ {r} : pc'[s] = pc[s]
  BY DEF Go
<1>. QED
  BY <1>1 DEF Delivered, LoggedOut

LEMMA ArrivePreservesIInv ==
    ASSUME IInv, NEW r \in Requests, Arrive(r) PROVE IInv'
<1>1. PICK c \in Calls :
          /\ pc[r] = "idle"
          /\ c.op # "login" => Delivered(c.token) /\ token[c.token].user = c.user
          /\ call' = [call EXCEPT ![r] = c]
          /\ late' = [late EXCEPT ![r] = What(c)]
          /\ Go(r, IF c.op = "login" THEN "attempts" ELSE "verify")
          /\ UNCHANGED <<clock, isActive, token, redis>>
  BY DEF Arrive
<1>. DEFINE to == IF c.op = "login" THEN "attempts" ELSE "verify"
<1>2. /\ pc'[r] = to /\ call'[r] = c /\ late'[r] = What(c)
      /\ \A s \in Requests \ {r} : pc'[s] = pc[s] /\ call'[s] = call[s] /\ late'[s] = late[s]
      /\ UNCHANGED <<clock, isActive, token, session, denied, fails, failsUntil>>
  BY <1>1 DEF IInv, TypeOK, Go, redis
<1>3. /\ to \in {"attempts", "verify"} /\ (to = "attempts" <=> c.op = "login")
      /\ c \in Calls /\ c # NoCall /\ c.user \in Users
      /\ c.op # "login" => c.token \in Tokens
      /\ pc[r] = "idle" /\ call[r] = NoCall
  BY <1>1, CallFields DEF IInv, Flow
<1>. HIDE DEF to
<1>4. \A t : (Delivered(t)' <=> Delivered(t)) /\ (LoggedOut(t)' <=> LoggedOut(t))
  BY <1>2, <1>3 DEF Delivered, LoggedOut
<1>5. \A s \in Requests \ {r} : SidOf(s)' = SidOf(s) /\ UserOf(s)' = UserOf(s)
  BY <1>2 DEF SidOf, UserOf
<1>6. TypeOK'
  <2>1. What(c) \in SUBSET {"logout", "inactive"}
    BY DEF What
  <2>2. /\ pc' \in [Requests -> Statements] /\ call' \in [Requests -> Calls \cup {NoCall}]
        /\ late' \in [Requests -> SUBSET {"logout", "inactive"}]
    BY <1>1, <1>3, <2>1 DEF IInv, TypeOK, Go, Statements, Settled
  <2>3. c.op # "login" => token[c.token] # NoToken
    BY <1>1, <1>3 DEF IInv, Signed
  <2>. QED
    BY <1>1, <1>2, <1>3, <2>2, <2>3 DEF IInv, TypeOK, UserOf
<1>7. Flow'
  BY <1>2, <1>3 DEF IInv, Flow, LoginOnly, Issuing, Held
<1>8. Signed'
  BY <1>2, <1>3, <1>4, <1>5 DEF IInv, Signed, Second, Before
<1>9. Named'
  BY <1>1, <1>2, <1>3, <1>4 DEF IInv, Named, Delivered
<1>10. InactiveIsSo'
  BY <1>2, <1>3, <1>5 DEF IInv, InactiveIsSo, What, UserOf, Judged
<1>11. Denied'
  BY <1>2, <1>4 DEF IInv, Denied, Until
<1>12. LateLogouts'
  BY <1>2, <1>3, <1>4 DEF IInv, LateLogouts, What, Until, Held, LoggedOut
<1>13. \A s \in Requests \ {r} : Excused(s) => Excused(s)'
  BY <1>2, <1>3, <1>5 DEF Excused
<1>14. Ended' /\ FoundAlive'
  BY <1>2, <1>3, <1>5, <1>13 DEF IInv, Ended, FoundAlive, Alive, RefreshKey, Live
<1>15. Kept'
  <2>1. \A s \in Requests : \A sid : Leaving(s, sid) => Leaving(s, sid)'
    BY <1>2, <1>3, <1>5 DEF Leaving
  <2>. QED
    BY <1>2, <1>4, <2>1 DEF IInv, Kept, Until
<1>16. CountersExpire'
  BY <1>2, <1>3, <1>5 DEF IInv, CountersExpire, Forever
<1>. QED
  BY <1>6, <1>7, <1>8, <1>9, <1>10, <1>11, <1>12, <1>14, <1>15, <1>16 DEF IInv

LEMMA CounterPreservesIInv ==
    ASSUME IInv, NEW r \in Requests, NEW to \in {"expire", "refused", "sign"},
           pc[r] \in {"increment", "expire", "reset"}, to = "sign" => pc[r] = "reset", Go(r, to),
           UNCHANGED <<clock, isActive, token, session, denied, call, late>>,
           fails' \in [Users -> Nat], failsUntil' \in [Users -> Nat],
           \A u \in Users : failsUntil'[u] = Forever =>
               \/ u = UserOf(r) /\ to = "expire"
               \/ failsUntil[u] = Forever /\ (pc[r] = "expire" => u # UserOf(r))
    PROVE  IInv'
<1>0. pc \in [Requests -> Statements]
  BY DEF IInv, TypeOK
<1>1. /\ pc'[r] = to /\ \A s \in Requests \ {r} : pc'[s] = pc[s]
      /\ \A t : (Delivered(t)' <=> Delivered(t)) /\ (LoggedOut(t)' <=> LoggedOut(t))
  BY <1>0, Monotone
<1>2. call[r].op = "login"
  BY DEF IInv, Flow, LoginOnly
<1>3. \A s \in Requests : SidOf(s)' = SidOf(s) /\ UserOf(s)' = UserOf(s)
  BY DEF SidOf, UserOf
<1>4. TypeOK'
  BY <1>1 DEF IInv, TypeOK, Go, Statements, Settled, UserOf
<1>5. Flow'
  BY <1>1, <1>2 DEF IInv, Flow, LoginOnly, Issuing, Held
<1>6. Signed'
  BY <1>1, <1>3 DEF IInv, Signed, Second, Before
<1>7. Named'
  BY <1>1 DEF IInv, Named, Delivered
<1>8. InactiveIsSo'
  BY <1>1, <1>3 DEF IInv, InactiveIsSo, Judged
<1>9. Denied'
  BY <1>1 DEF IInv, Denied, Until
<1>10. LateLogouts'
  BY <1>1, <1>2 DEF IInv, LateLogouts, Until, LoggedOut
<1>11. \A s \in Requests : Excused(s) => Excused(s)'
  BY <1>1, <1>3 DEF Excused
<1>12. Ended' /\ FoundAlive'
  BY <1>1, <1>2, <1>3, <1>11 DEF IInv, Ended, FoundAlive, Alive, RefreshKey, Live
<1>13. Kept'
  <2>1. \A s \in Requests : \A sid : Leaving(s, sid) => Leaving(s, sid)'
    BY <1>1, <1>2, <1>3 DEF Leaving
  <2>. QED
    BY <1>1, <2>1 DEF IInv, Kept, Until
<1>14. CountersExpire'
  <2>. SUFFICES ASSUME NEW u \in Users, failsUntil'[u] = Forever
                PROVE  \E s \in Requests : /\ pc'[s] \in {"expire", "failed"}
                                           /\ call[s].op = "login" /\ UserOf(s) = u
    BY <1>3 DEF CountersExpire, Forever
  <2>1. CASE u = UserOf(r) /\ to = "expire"
    BY <1>1, <1>2, <2>1
  <2>2. CASE failsUntil[u] = Forever /\ (pc[r] = "expire" => u # UserOf(r))
    BY <1>1, <2>2 DEF IInv, CountersExpire
  <2>. QED
    BY <2>1, <2>2 DEF Forever
<1>. QED
  BY <1>4, <1>5, <1>6, <1>7, <1>8, <1>9, <1>10, <1>12, <1>13, <1>14 DEF IInv

LEMMA CountersPreserveIInv ==
    ASSUME IInv, NEW r \in Requests, Increment(r) \/ Expire(r) \/ Reset(r) PROVE IInv'
<1>. DEFINE u == UserOf(r)
<1>1. pc[r] \in {"increment", "expire", "reset"}
  BY DEF Increment, Expire, Reset
<1>2. u \in Users
  BY <1>1, CallFields DEF IInv, TypeOK, UserOf
<1>3. /\ clock \in Nat /\ clock <= MaxClock /\ fails \in [Users -> Nat] /\ failsUntil \in [Users -> Nat]
      /\ Forever \in Nat /\ Forever > clock /\ Expiry(LockSeconds) \in Nat /\ Expiry(LockSeconds) < Forever
      /\ Forever # 0
  BY Constants DEF IInv, TypeOK, Forever, Expiry
<1>4. CASE Increment(r)
  <2>. DEFINE to == IF IsFirst(u) THEN "expire" ELSE "refused"
  <2>1. /\ pc[r] = "increment" /\ Go(r, to)
        /\ fails' = [fails EXCEPT ![u] = Fails(u) + 1]
        /\ failsUntil' = [failsUntil EXCEPT ![u] = IF Live(@) THEN @ ELSE Forever]
        /\ UNCHANGED <<clock, isActive, token, session, denied, call, late>>
    BY <1>4 DEF Increment
  <2>2. Fails(u) \in Nat /\ (~Live(failsUntil[u]) => IsFirst(u))
    BY <1>2, <1>3 DEF Fails, IsFirst
  <2>3. fails' \in [Users -> Nat] /\ failsUntil' \in [Users -> Nat]
    BY <1>2, <1>3, <2>1, <2>2
  <2>4. \A v \in Users : failsUntil'[v] = Forever =>
            (v = u /\ to = "expire") \/ failsUntil[v] = Forever
    BY <1>2, <1>3, <2>1, <2>2
  <2>5. to \in {"expire", "refused"}
    OBVIOUS
  <2>. QED
    BY <2>1, <2>3, <2>4, <2>5, CounterPreservesIInv
<1>5. CASE Expire(r)
  <2>1. /\ pc[r] = "expire" /\ Go(r, "refused")
        /\ failsUntil' = [failsUntil EXCEPT ![u] = IF Live(@) THEN Expiry(LockSeconds) ELSE @]
        /\ UNCHANGED <<clock, isActive, token, session, denied, fails, call, late>>
    BY <1>5 DEF Expire
  <2>2. fails' \in [Users -> Nat] /\ failsUntil' \in [Users -> Nat]
    BY <1>2, <1>3, <2>1
  <2>3. \A v \in Users : failsUntil'[v] = Forever => failsUntil[v] = Forever /\ v # u
    BY <1>2, <1>3, <2>1 DEF Live
  <2>. QED
    BY <2>1, <2>2, <2>3, CounterPreservesIInv
<1>6. CASE Reset(r)
  <2>1. /\ pc[r] = "reset" /\ Go(r, "sign")
        /\ failsUntil' = [failsUntil EXCEPT ![u] = 0] /\ fails' = [fails EXCEPT ![u] = 0]
        /\ UNCHANGED <<clock, isActive, token, session, denied, call, late>>
    BY <1>6 DEF Reset
  <2>2. fails' \in [Users -> Nat] /\ failsUntil' \in [Users -> Nat]
    BY <1>2, <1>3, <2>1
  <2>3. \A v \in Users : failsUntil'[v] = Forever => failsUntil[v] = Forever
    BY <1>2, <1>3, <2>1
  <2>. QED
    BY <2>1, <2>2, <2>3, CounterPreservesIInv
<1>. QED
  BY <1>4, <1>5, <1>6

LEMMA Payload ==
    ASSUME IInv
    PROVE  /\ \A t \in Tokens : token[t] # NoToken => token[t] \in Payloads
           /\ \A r \in Requests : call[r] # NoCall =>
                  /\ UserOf(r) \in Users /\ SidOf(r) \in Tokens
                  /\ call[r].op # "login" =>
                        /\ call[r].token \in Tokens /\ token[call[r].token] \in Payloads
                        /\ Delivered(call[r].token)
                        /\ token[call[r].token].user = UserOf(r)
                        /\ token[call[r].token].sid = SidOf(r)
<1>1. \A t \in Tokens : token[t] # NoToken => token[t] \in Payloads
  BY DEF IInv, TypeOK
<1>2. ASSUME NEW r \in Requests, call[r] # NoCall
      PROVE  /\ UserOf(r) \in Users /\ SidOf(r) \in Tokens
             /\ call[r].op # "login" =>
                   /\ call[r].token \in Tokens /\ token[call[r].token] \in Payloads
                   /\ Delivered(call[r].token)
                   /\ token[call[r].token].user = UserOf(r)
                   /\ token[call[r].token].sid = SidOf(r)
  <2>1. call[r] \in Calls /\ pc[r] # "idle"
    BY <1>2 DEF IInv, TypeOK, Flow
  <2>2. UserOf(r) \in Users /\ (call[r].op # "login" => call[r].token \in Tokens)
    BY <2>1, CallFields DEF UserOf
  <2>3. ASSUME call[r].op # "login" PROVE Delivered(call[r].token) /\ token[call[r].token].user = UserOf(r)
    BY <1>2, <2>1, <2>3 DEF IInv, Named, TypeOK
  <2>4. ASSUME call[r].op # "login" PROVE token[call[r].token] \in Payloads
    BY <1>1, <2>2, <2>3, <2>4 DEF IInv, Signed
  <2>5. SidOf(r) \in Tokens
    BY <2>4, Constants DEF SidOf, Payloads
  <2>. QED
    BY <2>2, <2>3, <2>4, <2>5 DEF SidOf
<1>. QED
  BY <1>1, <1>2

LEMMA SignPreservesIInv ==
    ASSUME IInv, NEW r \in Requests, Sign(r) PROVE IInv'
<1>. DEFINE new == [user |-> UserOf(r), sid |-> SidOf(r), iat |-> Second(clock)]
<1>1. /\ pc[r] = "sign" /\ Go(r, "store") /\ token' = [token EXCEPT ![r] = new]
      /\ UNCHANGED <<clock, isActive, session, denied, fails, failsUntil, call, late>>
  BY DEF Sign, redis
<1>2. /\ pc'[r] = "store" /\ \A s \in Requests \ {r} : pc'[s] = pc[s]
      /\ \A t : (Delivered(t)' <=> Delivered(t)) /\ (LoggedOut(t)' <=> LoggedOut(t))
  BY <1>1, Monotone DEF IInv, TypeOK
<1>3. call[r] # NoCall /\ token[r] = NoToken /\ ~Delivered(r)
  BY <1>1, Constants DEF IInv, Flow, Signed, Before, Delivered
<1>4. /\ new.user = UserOf(r) /\ new.sid = SidOf(r) /\ new.iat = Second(clock)
      /\ new \in Payloads /\ new # NoToken
  BY <1>3, Payload, Constants DEF Payloads, IInv, TypeOK, Second
<1>. HIDE DEF new
<1>5. token'[r] = new /\ \A t \in Tokens \ {r} : token'[t] = token[t]
  BY <1>1, Constants DEF IInv, TypeOK
<1>6. \A s \in Requests : call[s] # NoCall /\ call[s].op # "login" => call[s].token \in Tokens \ {r}
  BY <1>3, Payload
<1>7. \A s \in Requests : call[s] # NoCall => SidOf(s)' = SidOf(s) /\ UserOf(s)' = UserOf(s)
  BY <1>1, <1>5, <1>6 DEF SidOf, UserOf
<1>8. \A t \in Tokens : Delivered(t) => t # r
  BY <1>3
<1>9. TypeOK'
  <2>1. token' \in [Tokens -> Payloads \cup {NoToken}] /\ pc' \in [Requests -> Statements]
    BY <1>1, <1>4 DEF IInv, TypeOK, Go, Statements
  <2>2. \A s \in Requests : pc[s] # "idle" /\ call[s].op # "login" =>
            token'[call[s].token] = token[call[s].token]
    BY <1>5, <1>6 DEF IInv, Flow
  <2>. QED
    BY <1>1, <1>2, <2>1, <2>2 DEF IInv, TypeOK, UserOf
<1>10. Flow'
  BY <1>1, <1>2 DEF IInv, Flow, LoginOnly, Issuing, Held
<1>11. Signed'
  <2>1. \A s \in Requests \ {r} : pc[s] = "store" => token'[s] = token[s] /\ call[s] # NoCall
    BY <1>5, Constants DEF IInv, Flow
  <2>2. \A s \in Requests \ {r} : token'[s] = token[s]
    BY <1>5, Constants
  <2>3. \A t \in Tokens : token'[t] # NoToken => token'[t].iat <= Second(clock)
    BY <1>4, <1>5 DEF IInv, Signed, TypeOK, Second
  <2>4. \A t \in Tokens : Delivered(t) => token'[t] # NoToken
    BY <1>5, <1>8 DEF IInv, Signed
  <2>. QED
    BY <1>1, <1>2, <1>3, <1>4, <1>5, <1>7, <2>1, <2>2, <2>3, <2>4 DEF IInv, Signed, Before
<1>12. Named'
  <2>1. Delivered(SidOf(r)) \/ SidOf(r) = r
    <3>1. CASE call[r].op = "login"
      BY <3>1 DEF SidOf
    <3>2. CASE call[r].op # "login"
      BY <1>3, <3>2, Payload DEF IInv, Named, Signed
    <3>. QED
      BY <3>1, <3>2
  <2>2. \A t \in Tokens : token'[t] # NoToken =>
            Delivered(token'[t].sid) \/ (t \in Requests /\ token'[t].sid = t)
    BY <1>4, <1>5, <2>1 DEF IInv, Named
  <2>. QED
    BY <1>1, <1>2, <2>2 DEF IInv, Named, Delivered
<1>13. InactiveIsSo'
  BY <1>1, <1>2 DEF IInv, InactiveIsSo, Judged, UserOf
<1>14. Denied' /\ LateLogouts'
  <2>1. \A t \in Tokens : LoggedOut(t) => t # r
    <3>. SUFFICES ASSUME LoggedOut(r) PROVE FALSE
      OBVIOUS
    <3>1. PICK s \in Requests : pc[s] = "out" /\ call[s].token = r
      BY DEF LoggedOut
    <3>2. call[s] # NoCall /\ call[s].op # "login"
      BY <3>1 DEF IInv, Flow
    <3>. QED
      BY <1>6, <3>1, <3>2
  <2>2. Denied'
    BY <1>1, <1>2, <1>5, <2>1 DEF IInv, Denied, Until
  <2>3. \A s \in Requests : "logout" \in late[s] => call[s] # NoCall /\ call[s].op # "login"
    BY DEF IInv, LateLogouts, Flow
  <2>4. \A s \in Requests : "logout" \in late[s] =>
            Until(call[s].token, AccessLife)' = Until(call[s].token, AccessLife)
    BY <1>1, <1>5, <1>6, <2>3 DEF Until
  <2>. QED
    BY <1>1, <1>2, <2>2, <2>3, <2>4 DEF IInv, LateLogouts, Held, LoggedOut, Until
<1>15. \A s \in Requests : call[s] # NoCall /\ Excused(s) => Excused(s)'
  <2>. SUFFICES ASSUME NEW s \in Requests, call[s] # NoCall, Excused(s) PROVE Excused(s)'
    OBVIOUS
  <2>1. PICK q \in Requests :
            /\ pc[q] = "issued" /\ call[q].op = "refresh" /\ SidOf(q) = SidOf(s)
            /\ call[q].token = call[s].token => "logout" \notin late[q]
    BY DEF Excused
  <2>2. call[q] # NoCall /\ pc'[q] = "issued"
    BY <1>1, <1>2, <2>1 DEF IInv, Flow
  <2>3. SidOf(q)' = SidOf(s)'
    BY <1>7, <2>1, <2>2
  <2>. QED
    BY <1>1, <2>1, <2>2, <2>3 DEF Excused
<1>16. \A s \in Requests : pc'[s] \in {"deny", "out", "user", "sign", "store"} => call[s] # NoCall
  BY <1>1, <1>2 DEF IInv, Flow
<1>17. Ended'
  <2>. SUFFICES ASSUME NEW s \in Requests, pc'[s] \in {"deny", "out"}, Alive(s)' PROVE Excused(s)'
    BY DEF Ended
  <2>1. pc[s] \in {"deny", "out"} /\ call[s] # NoCall
    BY <1>2, <1>16
  <2>2. Alive(s)
    BY <1>1, <1>7, <2>1 DEF Alive, RefreshKey, Live
  <2>. QED
    BY <1>15, <2>1, <2>2 DEF IInv, Ended
<1>18. FoundAlive'
  BY <1>1, <1>2, <1>15, <1>16 DEF IInv, FoundAlive
<1>19. Kept'
  <2>1. \A s \in Requests : \A sid : Leaving(s, sid) => Leaving(s, sid)'
    BY <1>1, <1>2, <1>7 DEF Leaving
  <2>. QED
    BY <1>1, <1>2, <1>5, <1>8, <2>1 DEF IInv, Kept, Until, RefreshKey
<1>20. CountersExpire'
  BY <1>1, <1>2 DEF IInv, CountersExpire, Forever, UserOf
<1>. QED
  BY <1>9, <1>10, <1>11, <1>12, <1>13, <1>14, <1>17, <1>18, <1>19, <1>20 DEF IInv

\* A login's own session is named by no token that was delivered before.
LEMMA LoginsAreNew ==
    ASSUME IInv, NEW r \in Requests, pc[r] = "store", call[r].op = "login",
           NEW t \in Tokens, Delivered(t)
    PROVE  token[t].sid # r
<1>1. ~Delivered(r) /\ t # r
  BY Constants DEF Delivered
<1>. QED
  BY <1>1 DEF IInv, Named, Signed

LEMMA StorePreservesIInv ==
    ASSUME IInv, NEW r \in Requests, Store(r) PROVE IInv'
<1>. DEFINE key == RefreshKey(UserOf(r), SidOf(r))
<1>1. /\ pc[r] = "store" /\ Go(r, "issued")
      /\ session' = [session EXCEPT ![key] = SessionExpiry]
      /\ UNCHANGED <<clock, isActive, token, denied, fails, failsUntil, call, late>>
  BY DEF Store
<1>2. call[r] # NoCall /\ call[r].op \in {"login", "refresh"}
  BY <1>1 DEF IInv, Flow, Issuing
<1>3. /\ clock \in Nat /\ SessionExpiry = clock + 2 * RefreshTTL /\ SessionExpiry \in Nat
      /\ key \in Keys /\ UserOf(r) \in Users /\ SidOf(r) \in Tokens
  BY <1>2, Payload, Constants DEF IInv, TypeOK, SessionExpiry, Expiry, Keys, RefreshKey
<1>4. /\ pc'[r] = "issued" /\ \A s \in Requests \ {r} : pc'[s] = pc[s]
      /\ \A t : Delivered(t) => Delivered(t)'
      /\ \A t : t # r => (Delivered(t)' => Delivered(t))
      /\ \A t : LoggedOut(t)' <=> LoggedOut(t)
  BY <1>1, Monotone DEF IInv, TypeOK
<1>5. \A s \in Requests : SidOf(s)' = SidOf(s) /\ UserOf(s)' = UserOf(s)
  BY <1>1 DEF SidOf, UserOf
<1>6. TypeOK'
  BY <1>1, <1>3, <1>4 DEF IInv, TypeOK, Go, Statements, Settled, UserOf
<1>7. Flow'
  BY <1>1, <1>2, <1>4 DEF IInv, Flow, LoginOnly, Issuing, Held
<1>8. Signed'
  BY <1>1, <1>4, <1>5 DEF IInv, Signed, Second, Before
<1>9. Named'
  BY <1>1, <1>4 DEF IInv, Named, Delivered
<1>10. InactiveIsSo'
  BY <1>1, <1>4, <1>5 DEF IInv, InactiveIsSo, Judged
<1>11. Denied' /\ LateLogouts'
  BY <1>1, <1>4 DEF IInv, Denied, LateLogouts, Until, Held, LoggedOut
<1>12. \A s \in Requests : Excused(s) => Excused(s)'
  BY <1>1, <1>4, <1>5 DEF Excused
<1>13. FoundAlive'
  BY <1>1, <1>4, <1>12 DEF IInv, FoundAlive
<1>14. Ended'
  <2>. SUFFICES ASSUME NEW s \in Requests, pc'[s] \in {"deny", "out"}, Alive(s)' PROVE Excused(s)'
    BY DEF Ended
  <2>1. s # r /\ pc[s] \in {"deny", "out"} /\ call[s] # NoCall /\ call[s].op = "logout"
    BY <1>4 DEF IInv, Flow
  <2>2. CASE RefreshKey(UserOf(s), SidOf(s)) # key
    <3>1. Alive(s)
      <4>1. RefreshKey(UserOf(s), SidOf(s)) \in Keys
        BY <2>1, Payload, Constants DEF Keys, RefreshKey
      <4>. QED
        BY <1>1, <1>5, <2>2, <4>1 DEF Alive, Live, IInv, TypeOK
    <3>. QED
      BY <1>12, <2>1, <3>1 DEF IInv, Ended
  <2>3. CASE RefreshKey(UserOf(s), SidOf(s)) = key
    <3>1. SidOf(s) = SidOf(r)
      BY <2>3 DEF RefreshKey
    <3>2. call[r].op = "refresh"
      <4>. SUFFICES ASSUME call[r].op = "login" PROVE FALSE
        BY <1>2
      <4>1. SidOf(r) = r
        BY DEF SidOf
      <4>2. /\ call[s].token \in Tokens /\ Delivered(call[s].token)
            /\ token[call[s].token].sid = SidOf(s)
        BY <2>1, Payload
      <4>. QED
        BY <1>1, <3>1, <4>1, <4>2, LoginsAreNew
    <3>3. CASE call[r].token = call[s].token /\ "logout" \in late[r]
      <4>1. Excused(r)
        BY <1>1, <3>2, <3>3 DEF IInv, FoundAlive
      <4>2. Excused(s)
        BY <3>1, <3>3, <4>1 DEF Excused
      <4>. QED
        BY <1>12, <4>2
    <3>4. CASE ~(call[r].token = call[s].token /\ "logout" \in late[r])
      BY <1>1, <1>4, <1>5, <3>1, <3>2, <3>4 DEF Excused
    <3>. QED
      BY <3>3, <3>4
  <2>. QED
    BY <2>2, <2>3
<1>15. Kept'
  <2>. SUFFICES ASSUME NEW t \in Tokens, Delivered(t)', NEW sid, sid = token[t].sid,
                       \A s \in Requests : ~Leaving(s, sid)'
                PROVE  session'[RefreshKey(token[t].user, token[t].sid)] >= Until(t, RefreshLife)
    BY <1>1 DEF Kept, Until, RefreshKey, Leaving
  <2>1. token[t] # NoToken /\ token[t] \in Payloads /\ token[t].iat <= Second(clock)
    BY <1>1, <1>4, Payload DEF IInv, Signed
  <2>2. CASE RefreshKey(token[t].user, token[t].sid) = key
    <3>1. Until(t, RefreshLife) <= SessionExpiry
      BY <1>3, <2>1, Constants DEF Until, Second, Payloads
    <3>2. Until(t, RefreshLife) \in Int
      BY <2>1, Constants DEF Until, Payloads, Second
    <3>. QED
      BY <1>1, <1>3, <2>2, <3>1, <3>2 DEF IInv, TypeOK
  <2>3. CASE RefreshKey(token[t].user, token[t].sid) # key
    <3>1. t # r
      BY <1>1, <2>3 DEF IInv, Signed
    <3>2. \A s \in Requests : ~Leaving(s, sid)
      BY <1>1, <1>4, <1>5 DEF Leaving
    <3>3. session[RefreshKey(token[t].user, token[t].sid)] >= Until(t, RefreshLife)
      BY <1>1, <1>4, <3>1, <3>2 DEF IInv, Kept
    <3>4. RefreshKey(token[t].user, token[t].sid) \in Keys
      BY <2>1 DEF Payloads, Keys, RefreshKey
    <3>. QED
      BY <1>1, <2>3, <3>3, <3>4 DEF IInv, TypeOK
  <2>. QED
    BY <2>2, <2>3
<1>16. CountersExpire'
  BY <1>1, <1>4, <1>5 DEF IInv, CountersExpire, Forever
<1>. QED
  BY <1>6, <1>7, <1>8, <1>9, <1>10, <1>11, <1>13, <1>14, <1>15, <1>16 DEF IInv

LEMMA DeleteSessionPreservesIInv ==
    ASSUME IInv, NEW r \in Requests, DeleteSession(r) PROVE IInv'
<1>. DEFINE key == RefreshKey(UserOf(r), SidOf(r))
<1>1. /\ pc[r] = "delete" /\ Go(r, "deny") /\ session' = [session EXCEPT ![key] = 0]
      /\ UNCHANGED <<clock, isActive, token, denied, fails, failsUntil, call, late>>
  BY DEF DeleteSession
<1>2. call[r] # NoCall /\ call[r].op = "logout"
  BY <1>1 DEF IInv, Flow
<1>3. key \in Keys /\ UserOf(r) \in Users /\ SidOf(r) \in Tokens
  BY <1>2, Payload, Constants DEF Keys, RefreshKey
<1>4. /\ pc'[r] = "deny" /\ \A s \in Requests \ {r} : pc'[s] = pc[s]
      /\ \A t : Delivered(t)' <=> Delivered(t)
      /\ \A t : LoggedOut(t)' <=> LoggedOut(t)
  BY <1>1, Monotone DEF IInv, TypeOK
<1>5. \A s \in Requests : SidOf(s)' = SidOf(s) /\ UserOf(s)' = UserOf(s)
  BY <1>1 DEF SidOf, UserOf
<1>6. TypeOK'
  BY <1>1, <1>3, <1>4 DEF IInv, TypeOK, Go, Statements, Settled, UserOf
<1>7. Flow'
  BY <1>1, <1>2, <1>4 DEF IInv, Flow, LoginOnly, Issuing, Held
<1>8. Signed'
  BY <1>1, <1>4, <1>5 DEF IInv, Signed, Second, Before
<1>9. Named'
  BY <1>1, <1>4 DEF IInv, Named, Delivered
<1>10. InactiveIsSo'
  BY <1>1, <1>4, <1>5 DEF IInv, InactiveIsSo, Judged
<1>11. Denied' /\ LateLogouts'
  BY <1>1, <1>4 DEF IInv, Denied, LateLogouts, Until, Held, LoggedOut
<1>12. \A s \in Requests : Excused(s) => Excused(s)'
  BY <1>1, <1>4, <1>5 DEF Excused
<1>13. FoundAlive'
  BY <1>1, <1>4, <1>12 DEF IInv, FoundAlive
<1>14. Ended'
  <2>. SUFFICES ASSUME NEW s \in Requests, pc'[s] \in {"deny", "out"}, Alive(s)' PROVE Excused(s)'
    BY DEF Ended
  <2>1. RefreshKey(UserOf(s), SidOf(s)) # key
    BY <1>1, <1>3, <1>5 DEF Alive, Live, IInv, TypeOK
  <2>2. s # r /\ pc[s] \in {"deny", "out"} /\ call[s] # NoCall
    BY <1>4, <2>1 DEF IInv, Flow
  <2>3. Alive(s)
    <3>1. RefreshKey(UserOf(s), SidOf(s)) \in Keys
      BY <2>2, Payload, Constants DEF Keys, RefreshKey
    <3>. QED
      BY <1>1, <1>5, <2>1, <3>1 DEF Alive, Live, IInv, TypeOK
  <2>. QED
    BY <1>12, <2>2, <2>3 DEF IInv, Ended
<1>15. Kept'
  <2>. SUFFICES ASSUME NEW t \in Tokens, Delivered(t), NEW sid, sid = token[t].sid,
                       \A s \in Requests : ~Leaving(s, sid)'
                PROVE  session'[RefreshKey(token[t].user, token[t].sid)] >= Until(t, RefreshLife)
    BY <1>1, <1>4 DEF Kept, Until, RefreshKey, Leaving
  <2>1. sid # SidOf(r)
    BY <1>1, <1>2, <1>4, <1>5 DEF Leaving
  <2>2. RefreshKey(token[t].user, token[t].sid) # key
    BY <2>1 DEF RefreshKey
  <2>3. \A s \in Requests : ~Leaving(s, sid)
    BY <1>1, <1>4, <1>5 DEF Leaving
  <2>4. session[RefreshKey(token[t].user, token[t].sid)] >= Until(t, RefreshLife)
    BY <1>1, <2>3 DEF IInv, Kept
  <2>5. RefreshKey(token[t].user, token[t].sid) \in Keys
    BY Payload DEF IInv, Signed, Payloads, Keys, RefreshKey
  <2>. QED
    BY <1>1, <2>2, <2>4, <2>5 DEF IInv, TypeOK
<1>16. CountersExpire'
  BY <1>1, <1>4, <1>5 DEF IInv, CountersExpire, Forever
<1>. QED
  BY <1>6, <1>7, <1>8, <1>9, <1>10, <1>11, <1>13, <1>14, <1>15, <1>16 DEF IInv

\* An entry of the denylist covers what is left of its token: it is dated
\* from the clock, the token's end from a second that began no later.
LEMMA DenyTokenPreservesIInv ==
    ASSUME IInv, NEW r \in Requests, DenyToken(r) PROVE IInv'
<1>. DEFINE t == call[r].token
            new == IF SecondsLeft(t) > 0
                   THEN [denied EXCEPT ![t] = Expiry(SecondsLeft(t))] ELSE denied
<1>1. /\ pc[r] = "deny" /\ Go(r, "out") /\ denied' = new
      /\ UNCHANGED <<clock, isActive, token, session, fails, failsUntil, call, late>>
  BY DEF DenyToken
<1>2. call[r] # NoCall /\ call[r].op = "logout"
  BY <1>1 DEF IInv, Flow
<1>3. t \in Tokens /\ token[t] \in Payloads
  BY <1>2, Payload
<1>4. /\ clock \in Nat /\ SecondsLeft(t) \in Int /\ Until(t, AccessLife) \in Nat
      /\ denied \in [Tokens -> Nat]
      /\ Until(t, AccessLife) <= Expiry(SecondsLeft(t))
      /\ SecondsLeft(t) <= 0 => clock >= Until(t, AccessLife)
      /\ SecondsLeft(t) > 0 => Expiry(SecondsLeft(t)) \in Nat
  BY <1>3, Constants DEF IInv, TypeOK, SecondsLeft, Until, Expiry, Payloads, Second
<1>5. /\ new \in [Tokens -> Nat] /\ \A x \in Tokens \ {t} : new[x] = denied[x]
      /\ new[t] >= Until(t, AccessLife) \/ clock >= Until(t, AccessLife)
  BY <1>3, <1>4
<1>. HIDE DEF new
<1>6. /\ pc'[r] = "out" /\ \A s \in Requests \ {r} : pc'[s] = pc[s]
      /\ \A x : Delivered(x)' <=> Delivered(x)
      /\ \A x : LoggedOut(x) => LoggedOut(x)'
      /\ \A x : x # t => (LoggedOut(x)' => LoggedOut(x))
  BY <1>1, Monotone DEF IInv, TypeOK
<1>7. \A s \in Requests : SidOf(s)' = SidOf(s) /\ UserOf(s)' = UserOf(s)
  BY <1>1 DEF SidOf, UserOf
<1>8. TypeOK'
  BY <1>1, <1>5, <1>6 DEF IInv, TypeOK, Go, Statements, Settled, UserOf
<1>9. Flow'
  BY <1>1, <1>2, <1>6 DEF IInv, Flow, LoginOnly, Issuing, Held
<1>10. Signed'
  BY <1>1, <1>6, <1>7 DEF IInv, Signed, Second, Before
<1>11. Named'
  BY <1>1, <1>6 DEF IInv, Named, Delivered
<1>12. InactiveIsSo'
  BY <1>1, <1>6, <1>7 DEF IInv, InactiveIsSo, Judged
<1>13. Denied'
  BY <1>1, <1>5, <1>6 DEF IInv, Denied, Until
<1>14. LateLogouts'
  BY <1>1, <1>6 DEF IInv, LateLogouts, Until, Held, LoggedOut
<1>15. \A s \in Requests : Excused(s) => Excused(s)'
  BY <1>1, <1>6, <1>7 DEF Excused
<1>16. Ended' /\ FoundAlive'
  BY <1>1, <1>6, <1>7, <1>15 DEF IInv, Ended, FoundAlive, Alive, RefreshKey, Live
<1>17. Kept'
  <2>1. \A s \in Requests : \A sid : Leaving(s, sid) => Leaving(s, sid)'
    BY <1>1, <1>6, <1>7 DEF Leaving
  <2>. QED
    BY <1>1, <1>6, <2>1 DEF IInv, Kept, Until
<1>18. CountersExpire'
  BY <1>1, <1>6, <1>7 DEF IInv, CountersExpire, Forever
<1>. QED
  BY <1>8, <1>9, <1>10, <1>11, <1>12, <1>13, <1>14, <1>16, <1>17, <1>18 DEF IInv

-----------------------------------------------------------------------------
(* What runs beside the requests. *)

LEMMA ToggleActivePreservesIInv ==
    ASSUME IInv, NEW u \in Users, ToggleActive(u) PROVE IInv'
<1>1. /\ isActive' = [isActive EXCEPT ![u] = ~@]
      /\ late' = [r \in Requests |->
             IF pc[r] # "idle" /\ UserOf(r) = u THEN late[r] \ {"inactive"} ELSE late[r]]
      /\ UNCHANGED <<clock, token, session, denied, fails, failsUntil, pc, call>>
  BY DEF ToggleActive, redis
<1>2. \A r \in Requests :
          /\ "logout" \in late'[r] <=> "logout" \in late[r]
          /\ late'[r] \subseteq late[r]
          /\ "inactive" \in late'[r] => "inactive" \in late[r] /\ (pc[r] = "idle" \/ UserOf(r) # u)
  BY <1>1
<1>3. \A s \in Requests : SidOf(s)' = SidOf(s) /\ UserOf(s)' = UserOf(s)
  BY <1>1 DEF SidOf, UserOf
<1>4. \A x : (Delivered(x)' <=> Delivered(x)) /\ (LoggedOut(x)' <=> LoggedOut(x))
  BY <1>1 DEF Delivered, LoggedOut
<1>5. TypeOK'
  BY <1>1 DEF IInv, TypeOK, UserOf
<1>6. Flow' /\ Signed' /\ Named'
  <2>1. Flow'
    BY <1>1, <1>2 DEF IInv, Flow
  <2>2. Signed' /\ Named'
    BY <1>1, <1>3 DEF IInv, Signed, Named, Delivered, Second
  <2>. QED
    BY <2>1, <2>2
<1>7. InactiveIsSo'
  <2>. SUFFICES ASSUME NEW r \in Requests, "inactive" \in late'[r]
                PROVE  ~isActive'[UserOf(r)] /\ pc[r] \notin Judged
    BY <1>1, <1>3 DEF InactiveIsSo, UserOf
  <2>1. "inactive" \in late[r] /\ UserOf(r) # u
    BY <1>2 DEF IInv, Flow
  <2>2. isActive'[UserOf(r)] = isActive[UserOf(r)]
    BY <1>1, <2>1 DEF IInv, TypeOK
  <2>. QED
    BY <2>1, <2>2 DEF IInv, InactiveIsSo
<1>8. Denied' /\ LateLogouts'
  BY <1>1, <1>2, <1>4 DEF IInv, Denied, LateLogouts, Until, LoggedOut
<1>9. \A s \in Requests : Excused(s) => Excused(s)'
  BY <1>1, <1>2, <1>3 DEF Excused
<1>10. Ended' /\ FoundAlive'
  BY <1>1, <1>2, <1>3, <1>9 DEF IInv, Ended, FoundAlive, Alive, RefreshKey, Live
<1>11. Kept'
  <2>1. \A s \in Requests : \A sid : Leaving(s, sid) => Leaving(s, sid)'
    BY <1>1, <1>3 DEF Leaving
  <2>. QED
    BY <1>1, <1>4, <2>1 DEF IInv, Kept, Until
<1>12. CountersExpire'
  BY <1>1, <1>3 DEF IInv, CountersExpire, Forever
<1>. QED
  BY <1>5, <1>6, <1>7, <1>8, <1>10, <1>11, <1>12 DEF IInv

LEMMA TickPreservesIInv ==
    ASSUME IInv, Tick PROVE IInv'
<1>1. /\ clock < MaxClock /\ clock' = clock + 1
      /\ UNCHANGED <<isActive, token, session, denied, fails, failsUntil, pc, call, late>>
  BY DEF Tick, redis
<1>2. clock \in Nat /\ clock' \in 0..MaxClock /\ Second(clock) <= Second(clock') /\ Second(clock') \in Int
      /\ Second(clock) \in Int
  BY <1>1, Constants DEF IInv, TypeOK, Second
<1>3. \A s \in Requests : SidOf(s)' = SidOf(s) /\ UserOf(s)' = UserOf(s)
  BY <1>1 DEF SidOf, UserOf
<1>4. \A x : (Delivered(x)' <=> Delivered(x)) /\ (LoggedOut(x)' <=> LoggedOut(x))
  BY <1>1 DEF Delivered, LoggedOut
<1>5. TypeOK'
  BY <1>1, <1>2 DEF IInv, TypeOK, UserOf
<1>6. Flow' /\ InactiveIsSo'
  BY <1>1, <1>3 DEF IInv, Flow, InactiveIsSo
<1>7. Signed'
  <2>1. \A t \in Tokens : token[t] # NoToken => token[t].iat \in Int /\ token[t].iat <= Second(clock)
    BY Payload, Constants DEF IInv, Signed, Payloads
  <2>2. \A t \in Tokens : token'[t] # NoToken => token'[t].iat <= Second(clock')
    BY <1>1, <1>2, <2>1
  <2>. QED
    BY <1>1, <1>3, <1>4, <2>2 DEF IInv, Signed, Second
<1>8. Named'
  BY <1>1 DEF IInv, Named, Delivered
<1>9. \A t \in Tokens : token[t] # NoToken => Until(t, AccessLife) \in Int
  BY Payload, Constants DEF Until, Payloads
<1>10. \A r \in Requests : pc[r] = "out" \/ "logout" \in late[r] =>
           call[r] # NoCall /\ call[r].op # "login"
  BY DEF IInv, Flow, LateLogouts
<1>11. \A r \in Requests : pc[r] = "out" \/ "logout" \in late[r] =>
           call[r].token \in Tokens /\ token[call[r].token] # NoToken
  BY <1>10, Payload, Constants
<1>12. Denied'
  <2>. SUFFICES ASSUME NEW t \in Tokens, LoggedOut(t)
                PROVE  denied[t] >= Until(t, AccessLife) \/ clock + 1 >= Until(t, AccessLife)
    BY <1>1, <1>4 DEF Denied, Until
  <2>1. token[t] # NoToken
    BY <1>11 DEF LoggedOut
  <2>. QED
    BY <1>2, <1>9, <2>1 DEF IInv, Denied
<1>13. LateLogouts'
  <2>1. \A r \in Requests : "logout" \in late[r] /\ pc[r] \in Held \ {"denylist"} =>
            clock + 1 >= Until(call[r].token, AccessLife)
    BY <1>2, <1>9, <1>11 DEF IInv, LateLogouts
  <2>. QED
    BY <1>1, <1>4, <2>1 DEF IInv, LateLogouts, Until, LoggedOut
<1>14. \A s \in Requests : Excused(s) => Excused(s)'
  BY <1>1, <1>3 DEF Excused
<1>15. \A k \in Keys : session[k] \in Nat
  BY DEF IInv, TypeOK
<1>16. \A s \in Requests : pc[s] \in {"deny", "out"} /\ Alive(s)' => Alive(s)
  <2>. SUFFICES ASSUME NEW s \in Requests, pc[s] \in {"deny", "out"}, Alive(s)' PROVE Alive(s)
    OBVIOUS
  <2>1. RefreshKey(UserOf(s), SidOf(s)) \in Keys
    BY Payload, Constants DEF IInv, Flow, Keys, RefreshKey
  <2>. QED
    BY <1>1, <1>2, <1>3, <1>15, <2>1 DEF Alive, Live
<1>17. Ended' /\ FoundAlive'
  BY <1>1, <1>14, <1>16 DEF IInv, Ended, FoundAlive
<1>18. Kept'
  <2>1. \A s \in Requests : \A sid : Leaving(s, sid) => Leaving(s, sid)'
    BY <1>1, <1>3 DEF Leaving
  <2>. QED
    BY <1>1, <1>4, <2>1 DEF IInv, Kept, Until
<1>19. CountersExpire'
  BY <1>1, <1>3 DEF IInv, CountersExpire, Forever
<1>. QED
  BY <1>5, <1>6, <1>7, <1>8, <1>12, <1>13, <1>17, <1>18, <1>19 DEF IInv

-----------------------------------------------------------------------------
LEMMA NextPreservesIInv == IInv /\ [Next]_vars => IInv'
<1>. SUFFICES ASSUME IInv, [Next]_vars PROVE IInv'
  OBVIOUS
<1>1. CASE Next
  <2>1. ASSUME NEW r \in Requests,
               \/ ReadAttempts(r) \/ CheckPassword(r) \/ Verify(r) \/ FindUser(r)
               \/ CheckAccount(r) \/ Fail(r) \/ FindSession(r) \/ CheckDenylist(r)
               \/ Arrive(r) \/ Increment(r) \/ Expire(r) \/ Reset(r)
               \/ Sign(r) \/ Store(r) \/ DeleteSession(r) \/ DenyToken(r)
        PROVE  IInv'
    BY <2>1, ChecksMove, FindSessionPreservesIInv, CheckDenylistPreservesIInv, ArrivePreservesIInv,
       CountersPreserveIInv, SignPreservesIInv, StorePreservesIInv, DeleteSessionPreservesIInv,
       DenyTokenPreservesIInv
  <2>. QED
    BY <1>1, <2>1, ToggleActivePreservesIInv, TickPreservesIInv DEF Next
<1>2. CASE UNCHANGED vars
  <2>1. UNCHANGED <<clock, isActive, token, session, denied, fails, failsUntil, pc, call, late>>
    BY <1>2 DEF vars, redis
  <2>2. TypeOK' /\ Flow' /\ Signed' /\ Named'
    BY <2>1 DEF IInv, TypeOK, Flow, Signed, Named, Delivered, UserOf, SidOf, Second
  <2>3. InactiveIsSo' /\ Denied' /\ LateLogouts'
    BY <2>1 DEF IInv, InactiveIsSo, Denied, LateLogouts, UserOf, LoggedOut, Until
  <2>4. Ended' /\ FoundAlive'
    BY <2>1 DEF IInv, Ended, FoundAlive, Excused, Alive, SidOf, UserOf, RefreshKey, Live
  <2>5. Kept' /\ CountersExpire'
    BY <2>1 DEF IInv, Kept, CountersExpire, Leaving, Delivered, Until, SidOf, UserOf, RefreshKey, Forever
  <2>. QED
    BY <2>2, <2>3, <2>4, <2>5 DEF IInv
<1>. QED
  BY <1>1, <1>2

LEMMA IInvariance == Spec => []IInv
  BY InitEstablishesIInv, NextPreservesIInv, PTL DEF Spec

-----------------------------------------------------------------------------
(* The results. *)

\* Keys, counters, tokens and requests keep their types, and a request names
\* only a token that was signed for its user.
THEOREM TypeCorrectness == Spec => []TypeOK
<1>1. IInv => TypeOK
  BY DEF IInv
<1>. QED
  BY <1>1, IInvariance, PTL

\* A logout holds: its access token is not admitted afterwards, whatever the
\* rounding of the two clocks, and its session is alive only by a refresh
\* that was under way when it ended.
THEOREM LogoutsHold == Spec => []LogoutHolds
<1>1. ASSUME IInv PROVE LogoutIsFinal
  <2>. SUFFICES ASSUME NEW r \in Requests, pc[r] \in {"admitted", "joined", "out"},
                       "logout" \in late[r]
                PROVE  ~Fresh(call[r].token, AccessLife)
    BY DEF LogoutIsFinal
  <2>1. clock >= Until(call[r].token, AccessLife)
    BY <1>1 DEF IInv, LateLogouts, Held
  <2>2. call[r] # NoCall /\ call[r].op # "login"
    BY <1>1 DEF IInv, LateLogouts, Flow
  <2>3. token[call[r].token] \in Payloads
    BY <1>1, <2>2, Payload
  <2>. QED
    BY <1>1, <2>1, <2>3, Constants DEF Fresh, Until, Second, Payloads, IInv, TypeOK
<1>2. ASSUME IInv PROVE LogoutEndsSession
  <2>. SUFFICES ASSUME NEW r \in Requests, pc[r] = "out",
                       Live(session[RefreshKey(UserOf(r), SidOf(r))])
                PROVE  \E q \in RefreshedIn(SidOf(r)) :
                           call[q].token = call[r].token => "logout" \notin late[q]
    BY DEF LogoutEndsSession
  <2>1. Excused(r)
    BY <1>2 DEF IInv, Ended, Alive
  <2>. QED
    BY <2>1 DEF Excused, RefreshedIn
<1>. QED
  BY <1>1, <1>2, IInvariance, PTL DEF LogoutHolds

\* An account that was inactive when a request arrived, and has stayed so, is
\* neither admitted nor given tokens.
THEOREM DeactivationHolds == Spec => []DeactivationIsImmediate
<1>1. IInv => DeactivationIsImmediate
  BY DEF IInv, InactiveIsSo, Judged, DeactivationIsImmediate
<1>. QED
  BY <1>1, IInvariance, PTL

\* A session lives as long as any refresh token delivered in it, until its
\* own logout.
THEOREM SessionsLast == Spec => []SessionOutlivesTokens
<1>1. ASSUME IInv PROVE SessionOutlivesTokens
  <2>. SUFFICES ASSUME NEW t \in Tokens, Delivered(t), Fresh(t, RefreshLife),
                       ~\E r \in Requests : Leaving(r, token[t].sid)
                PROVE  Live(session[<<token[t].user, token[t].sid>>])
    BY DEF SessionOutlivesTokens
  <2>1. token[t] \in Payloads
    BY <1>1, Payload DEF IInv, Signed
  <2>2. session[<<token[t].user, token[t].sid>>] >= Until(t, RefreshLife)
    BY <1>1 DEF IInv, Kept, RefreshKey
  <2>3. session[<<token[t].user, token[t].sid>>] \in Nat /\ clock \in Nat
    BY <1>1, <2>1 DEF IInv, TypeOK, Payloads, Keys
  <2>. QED
    BY <2>1, <2>2, <2>3, Constants DEF Fresh, Until, Second, Live, Payloads
<1>. QED
  BY <1>1, IInvariance, PTL

\* A failure counter without an expiry is that of a login about to date it,
\* or lost on the way.
THEOREM CountersAreDated == Spec => []CountersExpire
<1>1. IInv => CountersExpire
  BY DEF IInv
<1>. QED
  BY <1>1, IInvariance, PTL
=============================================================================
