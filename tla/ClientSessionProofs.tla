------------------------- MODULE ClientSessionProofs -------------------------
(***************************************************************************)
(* What the session of the web client keeps for every number of requests,  *)
(* loads and accounts: one refresh at a time that every waiting request    *)
(* shares, retries with newer tokens, and a screen of the token's user.    *)
(***************************************************************************)
EXTENDS ClientSession, WellFoundedInduction, TLAPS

HttpRows == [kind: {"none", "api", "login", "logout"}, status: Statuses,
             token: Tokens \cup {None}, answer: {"none", "ok", "error"},
             refused: Tokens \cup {None}, on: Refreshes \cup {None},
             account: Accounts \cup {None}]

\* Of the types, what the rest needs.
Types ==
    /\ live \subseteq Sids
    /\ owner \in [Sids -> Accounts \cup {None}] /\ sidOf \in [Tokens -> Sids \cup {None}]
    /\ cookie \in Sids \cup {None} /\ token \in Tokens \cup {None}
    /\ inFlight \in Refreshes \cup {None}
    /\ refresh \in [Refreshes -> [status: {"idle", "sent", "answered", "over"},
                                   cookie: Sids \cup {None}, token: Tokens \cup {None}]]
    /\ http \in [Slots -> HttpRows]

\* Which requests are made where, and how far each kind can be.
KindsFit ==
    \A r \in Slots :
        /\ http[r].kind = "api" => r \in ApiSlots /\ http[r].token # None
        /\ http[r].kind \in {"login", "logout"} => r \in AuthSlots
        /\ http[r].status = "idle" <=> http[r] = Idle
        /\ http[r].status = "sent" => http[r].kind # "none"
        /\ http[r].status = "answered" => http[r].kind \in {"login", "logout"}
        /\ http[r].status = "waiting" => http[r].kind = "api" /\ ~Retried(r)

\* A request may still ask for a refresh of its own.
MayRefresh(r) == http[r].status \in {"idle", "sent"} /\ ~Retried(r)

\* A refresh is made once, by a request's first refusal or by a load, and its
\* token is its own.
RefreshesAreOnce ==
    /\ \A f \in Refreshes : refresh[f].token # None =>
           refresh[f].status = "answered" /\ refresh[f].token = f
    /\ \A f \in AuthSlots : refresh[f] = NoRefresh
    /\ \A r \in ApiSlots : MayRefresh(r) => refresh[r] = NoRefresh

\* No memory and no request has the token of a refresh before it was heard.
TokensAreHeard ==
    \A f \in ApiSlots \cup Loads :
        token = f \/ (\E r \in Slots : http[r].token = f) => refresh[f].status = "over"

\* A login the API has not carried out has named nothing yet.
Unserved(r) == http[r] = Idle \/ (http[r].kind = "login" /\ http[r].status = "sent")

UnservedIsUnknown ==
    \A r \in AuthSlots : Unserved(r) =>
        /\ token # r /\ cookie # r
        /\ \A t \in Tokens : sidOf[t] # r
        /\ \A f \in Refreshes : refresh[f].cookie # r

\* One that it has carried out named the session of its account.
ServedIsOwned ==
    \A r \in AuthSlots :
        http[r].kind = "login" /\ http[r].status = "answered" /\ http[r].answer = "ok"
            => sidOf[r] = r /\ owner[r] = http[r].account

\* Every token that is or will be the client's is one of a session.
TokensNameSessions ==
    /\ token # None => sidOf[token] \in Sids
    /\ \A f \in Refreshes : refresh[f].token # None => sidOf[f] \in Sids

UserHasToken == user # None => token # None

IInv ==
    /\ Types /\ KindsFit /\ RefreshesAreOnce /\ TokensAreHeard
    /\ UnservedIsUnknown /\ ServedIsOwned /\ TokensNameSessions /\ UserHasToken
    /\ OneRefresh /\ RetriesAreNewer /\ ScreenIsTheUsers

-----------------------------------------------------------------------------
LEMMA Names ==
    /\ None \notin Tokens /\ None \notin Refreshes /\ None \notin Sids
    /\ \A f \in Loads : f \notin Slots
    /\ \A r \in ApiSlots : r \notin AuthSlots
    /\ Login \notin Modules /\ "boot" \notin Modules
<1>1. Login \notin Modules /\ "boot" \notin Modules
  BY DEF Login, Modules, ShellRoutes
<1>. QED
  BY <1>1, NamesAreDistinct DEF Tokens, Refreshes, Sids, Slots

LEMMA InitEstablishesIInv == Init => IInv
<1>. SUFFICES ASSUME Init PROVE IInv
  OBVIOUS
<1>1. load \in Loads /\ load \in Refreshes
  BY PageIsLoaded DEF Init, Refreshes
<1>2. \A r \in Slots : http[r] = Idle
  BY DEF Init
<1>3. \A f \in Refreshes : /\ f # load => refresh[f] = NoRefresh
                           /\ refresh[load].status = "sent" /\ refresh[load].cookie = First
                           /\ refresh[f].token = None
  BY <1>1 DEF Init, NoRefresh
<1>4. Types
  BY <1>1, AccountsHaveRoles DEF Init, Types, HttpRows, Idle, NoRefresh, Statuses, Sids, Tokens, Refreshes
<1>5. KindsFit
  BY <1>2 DEF KindsFit, Idle
<1>6. RefreshesAreOnce /\ OneRefresh
  BY <1>1, <1>2, <1>3, Names DEF Init, RefreshesAreOnce, OneRefresh, MayRefresh, Retried, Idle,
                                 NoRefresh, Refreshes, Slots
<1>7. TokensAreHeard
  BY <1>2, Names DEF Init, TokensAreHeard, Tokens, Slots, Idle
<1>8. UnservedIsUnknown
  BY <1>3, Names, NamesAreDistinct DEF Init, UnservedIsUnknown, NoRefresh, Slots, Tokens
<1>9. /\ ServedIsOwned /\ TokensNameSessions /\ UserHasToken
      /\ RetriesAreNewer /\ ScreenIsTheUsers
  BY <1>2, <1>3, Names DEF Init, ServedIsOwned, TokensNameSessions, UserHasToken, RetriesAreNewer, ScreenIsTheUsers,
                     Retried, Idle, Slots
<1>. QED
  BY <1>4, <1>5, <1>6, <1>7, <1>8, <1>9 DEF IInv

\* A request that is made.
LEMMA SendPreservesIInv ==
    ASSUME IInv, NEW r \in Slots, NEW kind \in {"api", "login", "logout"},
           NEW account \in Accounts \cup {None},
           Send(r, kind, account),
           \/ r \in ApiSlots /\ kind = "api" /\ token # None
           \/ r \in AuthSlots /\ kind \in {"login", "logout"}
    PROVE  IInv'
<1>. DEFINE new == [Idle EXCEPT !.kind = kind, !.status = "sent", !.token = token,
                                !.account = account]
<1>1. /\ http[r] = Idle /\ http' = [http EXCEPT ![r] = new]
      /\ UNCHANGED <<live, owner, sidOf, cookie, token, user, inFlight, refresh, page>>
  BY DEF Send, api, session
<1>2. /\ new.kind = kind /\ new.status = "sent" /\ new.token = token
      /\ new.answer = "none" /\ new.refused = None /\ new.on = None
      /\ new.account = account
      /\ new \in HttpRows
  BY DEF Idle, IInv, Types, HttpRows, Statuses
<1>. HIDE DEF new
<1>3. Types'
  BY <1>1, <1>2 DEF IInv, Types, Statuses
<1>4. /\ http'[r] = new /\ \A s \in Slots \ {r} : http'[s] = http[s]
      /\ \A s \in Slots : s \in Slots
  BY <1>1 DEF IInv, Types
<1>5. KindsFit'
  BY <1>1, <1>2, <1>4 DEF IInv, KindsFit, Retried, Idle
<1>6. RefreshesAreOnce'
  BY <1>1, <1>2, <1>4 DEF IInv, RefreshesAreOnce, MayRefresh, Retried, Idle, Slots
<1>7. TokensAreHeard'
  BY <1>1, <1>2, <1>4 DEF IInv, TokensAreHeard
<1>8. UnservedIsUnknown'
  BY <1>1, <1>2, <1>4 DEF IInv, UnservedIsUnknown, Unserved, Idle, Slots
<1>9. ServedIsOwned' /\ TokensNameSessions' /\ UserHasToken' /\ ScreenIsTheUsers'
  BY <1>1, <1>2, <1>4 DEF IInv, ServedIsOwned, TokensNameSessions, UserHasToken, ScreenIsTheUsers, Slots
<1>10. OneRefresh'
  BY <1>1, <1>2, <1>4 DEF IInv, OneRefresh
<1>11. RetriesAreNewer'
  BY <1>1, <1>2, <1>4 DEF IInv, RetriesAreNewer, Retried
<1>. QED
  BY <1>3, <1>5, <1>6, <1>7, <1>8, <1>9, <1>10, <1>11 DEF IInv

\* A request that is over, or heard without more.
LEMMA EndPreservesIInv ==
    ASSUME IInv, NEW r \in Slots, End(r), http[r] # Idle,
           UNCHANGED <<live, owner, sidOf, inFlight, refresh>>, cookie' \in {cookie, None},
           \/ UNCHANGED <<token, user, page>>
           \/ token' = None /\ user' = None /\ page' = Login
    PROVE  IInv'
<1>1. http' = [http EXCEPT ![r] = Over]
  BY DEF End
<1>2. /\ Over.kind = "none" /\ Over.status = "over" /\ Over.token = None
      /\ Over.refused = None /\ Over # Idle /\ Over \in HttpRows
  BY DEF Over, Idle, HttpRows, Statuses
<1>3. Types'
  BY <1>1, <1>2 DEF IInv, Types
<1>4. /\ http'[r] = Over /\ \A s \in Slots \ {r} : http'[s] = http[s]
  BY <1>1 DEF IInv, Types
<1>5. KindsFit'
  BY <1>2, <1>4 DEF IInv, KindsFit, Retried
<1>6. RefreshesAreOnce'
  BY <1>2, <1>4 DEF IInv, RefreshesAreOnce, MayRefresh, Retried, Slots
<1>7. TokensAreHeard'
  BY <1>2, <1>4, Names DEF IInv, TokensAreHeard, Tokens, Slots
<1>8. UnservedIsUnknown'
  BY <1>2, <1>4, Names DEF IInv, UnservedIsUnknown, Unserved, Slots, Tokens
<1>9. ServedIsOwned' /\ TokensNameSessions' /\ UserHasToken' /\ ScreenIsTheUsers'
  BY <1>2, <1>4, Names DEF IInv, ServedIsOwned, TokensNameSessions, UserHasToken, ScreenIsTheUsers, Slots
<1>10. OneRefresh'
  BY <1>2, <1>4 DEF IInv, OneRefresh
<1>11. RetriesAreNewer'
  BY <1>2, <1>4 DEF IInv, RetriesAreNewer, Retried
<1>. QED
  BY <1>3, <1>5, <1>6, <1>7, <1>8, <1>9, <1>10, <1>11 DEF IInv

\* A login or a logout that the API carries out, or refuses.
LEMMA ServePreservesIInv ==
    ASSUME IInv, NEW r \in Slots, Serve(r)
    PROVE  IInv'
<1>. DEFINE new == http'[r]
<1>1. PICK answer \in {"ok", "error"} :
        /\ http' = [http EXCEPT ![r].status = "answered", ![r].answer = answer]
        /\ answer = "ok" /\ http[r].kind = "login" =>
             /\ owner' = [owner EXCEPT ![r] = http[r].account]
             /\ sidOf' = [sidOf EXCEPT ![r] = r]
        /\ ~(answer = "ok" /\ http[r].kind = "login") => UNCHANGED <<owner, sidOf>>
  BY DEF Serve, ServeLogin, ServeLogout, ServeError, Answers, api
<1>2. /\ http[r].status = "sent" /\ http[r].kind \in {"login", "logout"} /\ r \in AuthSlots
      /\ r \notin ApiSlots /\ http[r] \in HttpRows /\ http[r] # Idle
      /\ UNCHANGED <<cookie, token, user, inFlight, refresh, page>>
  BY Names DEF Serve, IInv, KindsFit, Types, HttpRows, session, Idle
<1>3. /\ new.kind = http[r].kind /\ new.status = "answered" /\ new.token = http[r].token
      /\ new.answer = answer /\ new.refused = http[r].refused /\ new.on = http[r].on
      /\ new.account = http[r].account /\ new \in HttpRows
      /\ \A s \in Slots \ {r} : http'[s] = http[s]
  BY <1>1, <1>2 DEF IInv, Types, HttpRows, Statuses
<1>4. /\ http' \in [Slots -> HttpRows]
      /\ owner' \in [Sids -> Accounts \cup {None}] /\ sidOf' \in [Tokens -> Sids \cup {None}]
      /\ \A t \in Tokens \ {r} : sidOf'[t] = sidOf[t]
      /\ \A s \in Sids \ {r} : owner'[s] = owner[s]
  BY <1>1, <1>2, <1>3 DEF IInv, Types, HttpRows, Sids, Tokens
<1>. HIDE DEF new
<1>5. Types'
  <2>1. live' \subseteq Sids
    BY <1>2 DEF IInv, Types, Serve, ServeLogin, ServeLogout, ServeError, api, Sids
  <2>. QED
    BY <1>2, <1>4, <2>1 DEF IInv, Types
<1>6. KindsFit'
  <2>1. new # Idle
    BY <1>3 DEF Idle
  <2>. QED
    BY <1>2, <1>3, <2>1 DEF IInv, KindsFit, Retried, new
<1>7. RefreshesAreOnce'
  BY <1>2, <1>3 DEF IInv, RefreshesAreOnce, MayRefresh, Retried, Slots, new
<1>8. TokensAreHeard'
  BY <1>2, <1>3 DEF IInv, TokensAreHeard, new
<1>9. UnservedIsUnknown'
  <2>. SUFFICES ASSUME NEW s \in AuthSlots, Unserved(s)'
                PROVE  /\ token # s /\ cookie # s /\ \A t \in Tokens : sidOf'[t] # s
                       /\ \A f \in Refreshes : refresh[f].cookie # s
    BY <1>2 DEF UnservedIsUnknown
  <2>1. s # r
    BY <1>3 DEF Unserved, new, Idle
  <2>2. http'[s] = http[s]
    BY <1>3, <2>1 DEF Slots
  <2>3. Unserved(s)
    BY <2>2 DEF Unserved
  <2>4. sidOf'[r] # s
    BY <1>1, <2>1, <2>3 DEF IInv, Types, UnservedIsUnknown, Tokens
  <2>. QED
    BY <1>4, <2>3, <2>4 DEF IInv, UnservedIsUnknown
<1>10. answer = "ok" /\ http[r].kind = "login" =>
         /\ Unserved(r) /\ sidOf'[r] = r /\ owner'[r] = http[r].account
  BY <1>1, <1>2 DEF Unserved, IInv, Types, Sids, Tokens
<1>11. ServedIsOwned'
  <2>. SUFFICES ASSUME NEW s \in AuthSlots, http'[s].kind = "login", http'[s].status = "answered",
                       http'[s].answer = "ok"
                PROVE  sidOf'[s] = s /\ owner'[s] = http'[s].account
    BY DEF ServedIsOwned
  <2>1. CASE s = r
    BY <1>3, <1>10, <2>1 DEF new
  <2>2. CASE s # r
    <3>1. http'[s] = http[s] /\ s \in Tokens /\ s \in Sids
      BY <1>3, <2>2 DEF Slots, Tokens, Sids
    <3>. QED
      BY <1>4, <2>2, <3>1 DEF IInv, ServedIsOwned
  <2>. QED
    BY <2>1, <2>2
<1>12. TokensNameSessions'
  BY <1>1, <1>2, <1>4, <1>10 DEF IInv, Types, TokensNameSessions, Tokens, Sids, Refreshes
<1>13. UserHasToken' /\ ScreenIsTheUsers'
  <2>1. token # None => owner'[sidOf'[token]] = owner[sidOf[token]]
    <3>1. CASE answer = "ok" /\ http[r].kind = "login"
      <4>1. token # r /\ \A t \in Tokens : sidOf[t] # r
        BY <1>2, <1>10, <3>1 DEF IInv, UnservedIsUnknown
      <4>2. token # None => /\ token \in Tokens /\ sidOf'[token] = sidOf[token]
                            /\ sidOf[token] \in Sids \ {r}
        BY <1>4, <4>1 DEF IInv, Types, TokensNameSessions
      <4>. QED
        BY <1>4, <4>2
    <3>2. CASE ~(answer = "ok" /\ http[r].kind = "login")
      BY <1>1, <3>2
    <3>. QED
      BY <3>1, <3>2
  <2>. QED
    BY <1>2, <2>1 DEF IInv, UserHasToken, ScreenIsTheUsers
<1>14. OneRefresh'
  BY <1>2, <1>3 DEF IInv, OneRefresh, new
<1>15. RetriesAreNewer'
  BY <1>3 DEF IInv, RetriesAreNewer, Retried, new
<1>. QED
  BY <1>5, <1>6, <1>7, <1>8, <1>9, <1>11, <1>12, <1>13, <1>14, <1>15 DEF IInv

\* A refresh that the API answers.
LEMMA ServeRefreshPreservesIInv ==
    ASSUME IInv, NEW f \in Refreshes, ServeRefresh(f)
    PROVE  IInv'
<1>1. /\ refresh[f].status = "sent" /\ refresh[f] # NoRefresh /\ refresh[f].token = None
      /\ UNCHANGED <<live, owner, cookie, token, user, inFlight, http, page>>
  BY DEF ServeRefresh, session, NoRefresh, IInv, RefreshesAreOnce
<1>2. f \notin AuthSlots /\ f \in ApiSlots \cup Loads /\ f \in Tokens /\ f # None
  BY <1>1, Names DEF IInv, RefreshesAreOnce, Refreshes, Slots, Tokens
<1>3. token # f /\ \A r \in Slots : http[r].token # f
  BY <1>1, <1>2 DEF IInv, TokensAreHeard
<1>4. /\ refresh'[f].status = "answered" /\ refresh'[f].cookie = refresh[f].cookie
      /\ \/ refresh'[f].token = f /\ sidOf' = [sidOf EXCEPT ![f] = refresh[f].cookie]
                                  /\ refresh[f].cookie \in Sids
         \/ refresh'[f].token = None /\ sidOf' = sidOf
      /\ \A g \in Refreshes \ {f} : refresh'[g] = refresh[g]
      /\ refresh' \in [Refreshes -> [status: {"idle", "sent", "answered", "over"},
                                     cookie: Sids \cup {None}, token: Tokens \cup {None}]]
  BY <1>1, <1>2 DEF ServeRefresh, IInv, Types
<1>5. /\ \A t \in Tokens \ {f} : sidOf'[t] = sidOf[t]
      /\ sidOf' \in [Tokens -> Sids \cup {None}]
      /\ sidOf'[f] \in {sidOf[f], refresh[f].cookie}
      /\ refresh'[f].token = f => sidOf'[f] \in Sids
  BY <1>2, <1>4 DEF IInv, Types
<1>6. Types'
  BY <1>1, <1>4, <1>5 DEF IInv, Types
<1>7. KindsFit' /\ UserHasToken'
  BY <1>1 DEF IInv, KindsFit, UserHasToken, Retried
<1>8. RetriesAreNewer'
  BY <1>1 DEF IInv, RetriesAreNewer, Retried
<1>9. RefreshesAreOnce'
  <2>1. \A g \in Refreshes : refresh'[g].token # None =>
          refresh'[g].status = "answered" /\ refresh'[g].token = g
    BY <1>4 DEF IInv, RefreshesAreOnce
  <2>2. \A g \in AuthSlots : refresh'[g] = NoRefresh
    BY <1>2, <1>4 DEF IInv, RefreshesAreOnce, Refreshes, Slots
  <2>3. \A r \in ApiSlots : MayRefresh(r)' => refresh'[r] = NoRefresh
    BY <1>1, <1>4 DEF IInv, RefreshesAreOnce, MayRefresh, Retried, Refreshes, Slots
  <2>. QED
    BY <2>1, <2>2, <2>3 DEF RefreshesAreOnce
<1>10. TokensAreHeard'
  BY <1>1, <1>2, <1>3, <1>4 DEF IInv, TokensAreHeard, Refreshes, Slots
<1>11. UnservedIsUnknown'
  BY <1>1, <1>4, <1>5 DEF IInv, UnservedIsUnknown, Unserved
<1>12. ServedIsOwned'
  BY <1>1, <1>2, <1>5 DEF IInv, ServedIsOwned, Tokens, Slots
<1>13. TokensNameSessions'
  BY <1>1, <1>3, <1>4, <1>5 DEF IInv, TokensNameSessions, Types, Refreshes, Tokens
<1>14. ScreenIsTheUsers'
  BY <1>1, <1>3, <1>5 DEF IInv, ScreenIsTheUsers, Types
<1>15. OneRefresh'
  BY <1>1, <1>4 DEF IInv, OneRefresh
<1>. QED
  BY <1>6, <1>7, <1>8, <1>9, <1>10, <1>11, <1>12, <1>13, <1>14, <1>15 DEF IInv

\* The first refusal: a refresh of the request's own, or the one in flight.
LEMMA Hear401PreservesIInv ==
    ASSUME IInv, NEW r \in Slots, Hear401(r)
    PROVE  IInv'
<1>. DEFINE f == Current(r)
            new == http'[r]
<1>1. /\ http[r].kind = "api" /\ http[r].status = "sent" /\ ~Retried(r) /\ r \in ApiSlots
      /\ refresh[r] = NoRefresh /\ refresh' = Post(r) /\ inFlight' = f
      /\ http' = [http EXCEPT ![r].status = "waiting", ![r].on = f]
      /\ UNCHANGED <<live, owner, sidOf, cookie, token, user, page>>
  BY DEF Hear401, Hears, IInv, KindsFit, RefreshesAreOnce, MayRefresh, api, session
<1>2. r \in Refreshes /\ f \in Refreshes /\ inFlight # r
  BY <1>1 DEF Current, IInv, Types, OneRefresh, NoRefresh, Refreshes
<1>3. /\ new.kind = "api" /\ new.status = "waiting" /\ new.token = http[r].token
      /\ new.refused = None /\ new.on = f /\ new \in HttpRows
      /\ \A s \in Slots \ {r} : http'[s] = http[s]
      /\ http' \in [Slots -> HttpRows]
  <2>. HIDE DEF f
  <2>1. http[r] \in HttpRows /\ http[r].refused = None
    BY <1>1 DEF IInv, Types, Retried
  <2>2. [http[r] EXCEPT !.status = "waiting", !.on = f] \in HttpRows
    BY <1>2, <2>1 DEF HttpRows, Statuses
  <2>3. new = [http[r] EXCEPT !.status = "waiting", !.on = f]
    BY <1>1 DEF IInv, Types
  <2>4. new.status = "waiting" /\ new.on = f /\ new.kind = http[r].kind
          /\ new.token = http[r].token /\ new.refused = http[r].refused
    BY <2>1, <2>3 DEF HttpRows
  <2>. QED
    BY <1>1, <2>1, <2>2, <2>3, <2>4 DEF IInv, Types
<1>4. refresh' \in [Refreshes -> [status: {"idle", "sent", "answered", "over"},
                                  cookie: Sids \cup {None}, token: Tokens \cup {None}]]
  BY <1>1 DEF Post, IInv, Types
<1>5. /\ \A g \in Refreshes \ {r} : refresh'[g] = refresh[g]
      /\ refresh'[r].token = None /\ refresh'[r].status # "answered"
      /\ f # r => f = inFlight /\ refresh'[r] = refresh[r]
      /\ f = r => inFlight = None /\ refresh'[r].status = "sent" /\ refresh'[r].cookie = cookie
  BY <1>1, <1>2 DEF Post, Current, IInv, Types, NoRefresh
<1>. HIDE DEF new, f
<1>6. Types'
  BY <1>1, <1>2, <1>3, <1>4 DEF IInv, Types
<1>7. KindsFit'
  <2>1. new # Idle
    BY <1>3 DEF Idle
  <2>2. http[r].token # None
    BY <1>1 DEF IInv, KindsFit
  <2>. QED
    BY <1>1, <1>3, <2>1, <2>2 DEF IInv, KindsFit, Retried, new
<1>8. RefreshesAreOnce'
  <2>1. \A g \in Refreshes : refresh'[g].token # None =>
          refresh'[g].status = "answered" /\ refresh'[g].token = g
    BY <1>5 DEF IInv, RefreshesAreOnce
  <2>2. \A g \in AuthSlots : refresh'[g] = NoRefresh
    BY <1>1, <1>5, Names DEF IInv, RefreshesAreOnce, Refreshes, Slots
  <2>3. \A s \in ApiSlots : MayRefresh(s)' => refresh'[s] = NoRefresh
    BY <1>3, <1>5 DEF IInv, RefreshesAreOnce, MayRefresh, Retried, Refreshes, Slots, new
  <2>. QED
    BY <2>1, <2>2, <2>3 DEF RefreshesAreOnce
<1>9. TokensAreHeard'
  <2>1. token # r /\ \A s \in Slots : http[s].token # r
    BY <1>1 DEF IInv, TokensAreHeard, NoRefresh
  <2>2. \A s \in Slots : http'[s].token = http[s].token
    BY <1>3 DEF new
  <2>. QED
    BY <1>1, <1>5, <2>1, <2>2 DEF IInv, TokensAreHeard, Refreshes, Slots
<1>10. UnservedIsUnknown'
  <2>. SUFFICES ASSUME NEW s \in AuthSlots, Unserved(s)'
                PROVE  /\ token # s /\ cookie # s /\ \A t \in Tokens : sidOf[t] # s
                       /\ \A g \in Refreshes : refresh'[g].cookie # s
    BY <1>1 DEF UnservedIsUnknown
  <2>1. Unserved(s)
    BY <1>1, <1>3, Names DEF Unserved, Slots
  <2>. QED
    BY <1>2, <1>5, <2>1 DEF IInv, UnservedIsUnknown
<1>11. ServedIsOwned'
  BY <1>1, <1>3, Names DEF IInv, ServedIsOwned, Slots
<1>12. TokensNameSessions'
  BY <1>1, <1>5 DEF IInv, TokensNameSessions
<1>13. UserHasToken' /\ ScreenIsTheUsers'
  BY <1>1 DEF IInv, UserHasToken, ScreenIsTheUsers
<1>14. RetriesAreNewer'
  BY <1>3 DEF IInv, RetriesAreNewer, Retried, new
<1>15. OneRefresh'
  <2>1. \A g \in Refreshes : refresh'[g].status \in {"sent", "answered"} <=> g = inFlight'
    BY <1>1, <1>2, <1>5, Names DEF IInv, OneRefresh, NoRefresh
  <2>2. \A s \in Slots \ {r} : http[s].status = "waiting" => f = inFlight
    BY <1>5 DEF IInv, OneRefresh
  <2>. QED
    BY <1>1, <1>2, <1>3, <2>1, <2>2, Names DEF IInv, OneRefresh, new
<1>. QED
  BY <1>6, <1>7, <1>8, <1>9, <1>10, <1>11, <1>12, <1>13, <1>14, <1>15 DEF IInv

\* The answer of a refresh: every request that waits goes on, or ends.
LEMMA HearRefreshPreservesIInv ==
    ASSUME IInv, NEW f \in Refreshes, HearRefresh(f)
    PROVE  IInv'
<1>. DEFINE t == refresh[f].token
<1>1. /\ refresh[f].status = "answered" /\ f = inFlight /\ inFlight' = None
      /\ refresh' = [refresh EXCEPT ![f] = OverRefresh]
      /\ UNCHANGED <<live, owner, sidOf>>
  BY DEF HearRefresh, IInv, OneRefresh, api
<1>2. /\ OverRefresh.status = "over" /\ OverRefresh.cookie = None /\ OverRefresh.token = None
      /\ OverRefresh \in [status: {"idle", "sent", "answered", "over"},
                          cookie: Sids \cup {None}, token: Tokens \cup {None}]
  BY DEF OverRefresh, NoRefresh
<1>3. /\ refresh'[f] = OverRefresh /\ \A g \in Refreshes \ {f} : refresh'[g] = refresh[g]
      /\ refresh' \in [Refreshes -> [status: {"idle", "sent", "answered", "over"},
                                     cookie: Sids \cup {None}, token: Tokens \cup {None}]]
  BY <1>1, <1>2 DEF IInv, Types
<1>4. /\ f \in ApiSlots \cup Loads /\ f \in Tokens /\ f \notin AuthSlots /\ f # None
      /\ token # f /\ \A r \in Slots : http[r].token # f
  <2>1. refresh[f] # NoRefresh
    BY <1>1 DEF NoRefresh
  <2>2. f \in ApiSlots \cup Loads /\ f \in Tokens /\ f \notin AuthSlots /\ f # None
    BY <2>1, Names DEF IInv, RefreshesAreOnce, Refreshes, Slots, Tokens
  <2>. QED
    BY <1>1, <2>2 DEF IInv, TokensAreHeard
<1>5. Waiting(f) = {r \in Slots : http[r].status = "waiting"}
  BY <1>1 DEF Waiting, IInv, OneRefresh
<1>6. Over.kind = "none" /\ Over.status = "over" /\ Over.token = None
        /\ Over.refused = None /\ Over # Idle /\ Over \in HttpRows
  BY DEF Over, Idle, HttpRows, Statuses
\* What is known of each request afterwards.
<1>7. ASSUME NEW new, new \in HttpRows, NEW r \in Slots, http[r].status = "waiting",
             new = Retry(r, f)
      PROVE  /\ new.kind = "api" /\ new.status = "sent" /\ new.refused = http[r].token
             /\ new.token = f /\ new.on = f
  BY <1>1, <1>7 DEF Retry, IInv, Types, HttpRows, KindsFit, OneRefresh
<1>8. ASSUME NEW r \in Slots, http[r].status = "waiting"
      PROVE  Retry(r, f) \in HttpRows
  BY <1>4, <1>8 DEF Retry, IInv, Types, HttpRows, Statuses
<1>9. \/ /\ token' = f /\ user' = owner[sidOf[f]] /\ cookie' = sidOf[f] /\ page' = page
         /\ t = f
         /\ http' = [r \in Slots |-> IF http[r].status = "waiting" THEN Retry(r, f) ELSE http[r]]
      \/ /\ cookie' = cookie
         /\ UNCHANGED <<token, user, page>> \/ (token' = None /\ user' = None /\ page' = Login)
         /\ http' = [r \in Slots |-> IF http[r].status = "waiting" THEN Over ELSE http[r]]
  <2>1. CASE HearRefreshed(f)
    <3>1. t = f
      BY <2>1 DEF HearRefreshed, IInv, RefreshesAreOnce
    <3>2. http' = [r \in Slots |-> IF r \in Waiting(f) THEN Retry(r, f) ELSE http[r]]
      BY <2>1, <3>1 DEF HearRefreshed
    <3>. QED
      BY <1>5, <2>1, <3>1, <3>2 DEF HearRefreshed, RefreshedUser
  <2>2. CASE HearRefreshFailed(f)
    BY <1>5, <2>2 DEF HearRefreshFailed, FailAll, ClearSession
  <2>. QED
    BY <2>1, <2>2 DEF HearRefresh
<1>10. ASSUME NEW r \in Slots
       PROVE  /\ http'[r] \in HttpRows
              /\ http[r].status # "waiting" => http'[r] = http[r]
              /\ http[r].status = "waiting" =>
                   \/ http'[r] = Over
                   \/ /\ http'[r].kind = "api" /\ http'[r].status = "sent" /\ token' = f
                      /\ http'[r].refused = http[r].token /\ http'[r].refused # f
                      /\ http'[r].refused # None
                      /\ http'[r].token = f /\ http'[r].on = f
  BY <1>4, <1>6, <1>7, <1>8, <1>9 DEF IInv, Types, HttpRows, KindsFit
<1>11. http' = [r \in Slots |-> http'[r]]
  BY <1>9
<1>12. sidOf[f] \in Sids \/ t = None
  BY DEF IInv, TokensNameSessions, RefreshesAreOnce
<1>13. /\ cookie' \in {cookie, sidOf[f]} /\ cookie' \in Sids \cup {None}
       /\ token' \in {token, f, None}
       /\ token' = f => t = f /\ user' = owner[sidOf[f]] /\ page' = page
       /\ token' # f => \/ UNCHANGED <<token, user, page>>
                        \/ token' = None /\ user' = None /\ page' = Login
  BY <1>4, <1>9, <1>12 DEF IInv, Types
<1>. HIDE DEF t
<1>14. Types'
  BY <1>1, <1>3, <1>4, <1>10, <1>11, <1>13 DEF IInv, Types
<1>15. KindsFit'
  BY <1>4, <1>6, <1>10 DEF IInv, KindsFit, Retried, Idle
<1>16. RefreshesAreOnce'
  <2>1. \A g \in Refreshes : refresh'[g].token # None =>
          refresh'[g].status = "answered" /\ refresh'[g].token = g
    BY <1>2, <1>3 DEF IInv, RefreshesAreOnce
  <2>2. \A g \in AuthSlots : refresh'[g] = NoRefresh
    BY <1>3, <1>4 DEF IInv, RefreshesAreOnce, Refreshes, Slots
  <2>3. ASSUME NEW r \in ApiSlots, MayRefresh(r)'
        PROVE  refresh'[r] = NoRefresh
    <3>1. r \in Slots /\ http'[r] = http[r] /\ MayRefresh(r)
      BY <1>6, <1>10, <2>3 DEF MayRefresh, Retried, Slots
    <3>2. refresh[r] = NoRefresh /\ r # f
      BY <1>1, <3>1 DEF IInv, RefreshesAreOnce, NoRefresh
    <3>. QED
      BY <1>3, <3>1, <3>2 DEF Refreshes
  <2>. QED
    BY <2>1, <2>2, <2>3 DEF RefreshesAreOnce
<1>17. TokensAreHeard'
  BY <1>2, <1>3, <1>4, <1>6, <1>10, <1>13, Names
  DEF IInv, TokensAreHeard, Tokens, Refreshes, Slots
<1>18. UnservedIsUnknown'
  <2>. SUFFICES ASSUME NEW s \in AuthSlots, Unserved(s)'
                PROVE  /\ token' # s /\ cookie' # s /\ \A u \in Tokens : sidOf[u] # s
                       /\ \A g \in Refreshes : refresh'[g].cookie # s
    BY <1>1 DEF UnservedIsUnknown
  <2>1. s \in Slots /\ s # None /\ s # f
    BY <1>4, Names DEF Slots, Tokens
  <2>2. Unserved(s)
    BY <1>6, <1>10, <2>1 DEF Unserved, Idle
  <2>. QED
    BY <1>2, <1>3, <1>4, <1>13, <2>1, <2>2 DEF IInv, UnservedIsUnknown
<1>19. ServedIsOwned'
  BY <1>1, <1>6, <1>10 DEF IInv, ServedIsOwned, Slots
<1>20. TokensNameSessions' /\ UserHasToken'
  BY <1>1, <1>2, <1>3, <1>4, <1>12, <1>13 DEF IInv, TokensNameSessions, UserHasToken
<1>21. ScreenIsTheUsers'
  BY <1>1, <1>4, <1>13, Names DEF IInv, ScreenIsTheUsers
<1>22. OneRefresh'
  BY <1>1, <1>2, <1>3, <1>6, <1>10, Names DEF IInv, OneRefresh
<1>23. RetriesAreNewer'
  BY <1>6, <1>10 DEF IInv, RetriesAreNewer, Retried
<1>. QED
  BY <1>14, <1>15, <1>16, <1>17, <1>18, <1>19, <1>20, <1>21, <1>22, <1>23 DEF IInv

\* The answer of a login: the token and the user are new together.
LEMMA HearLoginPreservesIInv ==
    ASSUME IInv, NEW r \in Slots, HearLogin(r)
    PROVE  IInv'
<1>1. /\ http[r].kind = "login" /\ http[r].status = "answered" /\ r \in AuthSlots
      /\ r \in Tokens /\ r \in Sids /\ http[r] # Idle /\ End(r)
      /\ UNCHANGED <<live, owner, sidOf, inFlight, refresh>>
  BY DEF HearLogin, Heard, IInv, KindsFit, Idle, Tokens, Sids, api
<1>2. CASE http[r].answer # "ok"
  BY <1>1, <1>2, EndPreservesIInv DEF HearLogin, session
<1>3. CASE http[r].answer = "ok"
  <2>1. /\ token' = r /\ user' = http[r].account /\ cookie' = r
        /\ http' = [http EXCEPT ![r] = Over]
    BY <1>3 DEF HearLogin, End
  <2>2. sidOf[r] = r /\ owner[r] = http[r].account /\ r # None
    BY <1>1, <1>3, Names DEF IInv, ServedIsOwned
  <2>3. /\ Over.kind = "none" /\ Over.status = "over" /\ Over.token = None
        /\ Over.refused = None /\ Over # Idle /\ Over \in HttpRows
    BY DEF Over, Idle, HttpRows, Statuses
  <2>4. http'[r] = Over /\ \A s \in Slots \ {r} : http'[s] = http[s]
    BY <2>1 DEF IInv, Types
  <2>5. Types'
    BY <1>1, <2>1, <2>3 DEF IInv, Types
  <2>6. KindsFit'
    BY <2>3, <2>4 DEF IInv, KindsFit, Retried
  <2>7. RefreshesAreOnce'
    BY <1>1, <2>3, <2>4 DEF IInv, RefreshesAreOnce, MayRefresh, Retried, Slots
  <2>8. TokensAreHeard'
    <3>1. r \notin ApiSlots \cup Loads
      BY <1>1, Names
    <3>. QED
      BY <1>1, <2>1, <2>3, <2>4, <3>1, Names DEF IInv, TokensAreHeard, Tokens, Slots
  <2>9. UnservedIsUnknown'
    BY <1>1, <2>1, <2>3, <2>4 DEF IInv, UnservedIsUnknown, Unserved, Slots
  <2>10. ServedIsOwned'
    BY <1>1, <2>3, <2>4 DEF IInv, ServedIsOwned, Slots
  <2>11. TokensNameSessions' /\ UserHasToken' /\ ScreenIsTheUsers'
    BY <1>1, <2>1, <2>2 DEF IInv, TokensNameSessions, UserHasToken, ScreenIsTheUsers
  <2>12. OneRefresh'
    BY <1>1, <2>3, <2>4 DEF IInv, OneRefresh
  <2>13. RetriesAreNewer'
    BY <2>3, <2>4 DEF IInv, RetriesAreNewer, Retried
  <2>. QED
    BY <2>5, <2>6, <2>7, <2>8, <2>9, <2>10, <2>11, <2>12, <2>13 DEF IInv
<1>. QED
  BY <1>2, <1>3

\* A reload forgets the token and every request, and posts one refresh.
LEMMA ReloadPreservesIInv ==
    ASSUME IInv, NEW f \in Loads, Reload(f)
    PROVE  IInv'
<1>1. /\ f \in Refreshes /\ f \notin Slots /\ refresh[f] = NoRefresh
      /\ inFlight' = f /\ token' = None /\ user' = None /\ page' = "boot"
      /\ UNCHANGED <<live, owner, sidOf, cookie>>
  BY Names DEF Reload, Refreshes, api
<1>2. /\ Over.kind = "none" /\ Over.status = "over" /\ Over.token = None
      /\ Over.refused = None /\ Over # Idle /\ Over \in HttpRows
      /\ Idle.kind = "none" /\ Idle.status = "idle" /\ Idle.token = None
      /\ Idle.refused = None
  BY DEF Over, Idle, HttpRows, Statuses
<1>3. http' \in [Slots -> HttpRows]
        /\ \A r \in Slots : http'[r] = IF http[r] = Idle THEN Idle ELSE Over
  BY <1>2 DEF Reload, IInv, Types, Idle, HttpRows, Statuses
<1>4. /\ refresh'[f].status = "sent" /\ refresh'[f].cookie = cookie /\ refresh'[f].token = None
      /\ \A g \in Refreshes \ {f} :
           refresh'[g] = IF refresh[g] = NoRefresh THEN NoRefresh ELSE OverRefresh
  BY <1>1 DEF Reload
<1>5. /\ OverRefresh.status = "over" /\ OverRefresh.cookie = None /\ OverRefresh.token = None
      /\ NoRefresh.status = "idle" /\ NoRefresh.cookie = None /\ NoRefresh.token = None
  BY DEF OverRefresh, NoRefresh
<1>6. refresh' \in [Refreshes -> [status: {"idle", "sent", "answered", "over"},
                                  cookie: Sids \cup {None}, token: Tokens \cup {None}]]
  BY DEF Reload, OverRefresh, NoRefresh, IInv, Types
<1>7. Types'
  BY <1>1, <1>3, <1>6 DEF IInv, Types
<1>8. KindsFit'
  BY <1>2, <1>3 DEF KindsFit, Retried
<1>9. RefreshesAreOnce'
  <2>1. \A g \in Refreshes : refresh'[g].token = None
    BY <1>4, <1>5
  <2>2. \A g \in AuthSlots : refresh'[g] = NoRefresh
    BY <1>1, <1>4 DEF IInv, RefreshesAreOnce, Refreshes, Slots
  <2>3. ASSUME NEW r \in ApiSlots, MayRefresh(r)'
        PROVE  refresh'[r] = NoRefresh
    <3>1. r \in Slots /\ http[r] = Idle
      BY <1>2, <1>3, <2>3 DEF MayRefresh, Slots
    <3>2. refresh[r] = NoRefresh
      BY <1>2, <3>1 DEF IInv, RefreshesAreOnce, MayRefresh, Retried
    <3>. QED
      BY <1>1, <1>4, <3>1, <3>2 DEF Refreshes
  <2>. QED
    BY <2>1, <2>2, <2>3 DEF RefreshesAreOnce
<1>10. TokensAreHeard'
  BY <1>1, <1>2, <1>3, Names DEF TokensAreHeard, Tokens, Slots
<1>11. UnservedIsUnknown'
  <2>. SUFFICES ASSUME NEW s \in AuthSlots, Unserved(s)'
                PROVE  /\ token' # s /\ cookie # s /\ \A u \in Tokens : sidOf[u] # s
                       /\ \A g \in Refreshes : refresh'[g].cookie # s
    BY <1>1 DEF UnservedIsUnknown
  <2>1. s \in Slots /\ s # None
    BY Names DEF Slots, Tokens
  <2>2. Unserved(s)
    BY <1>2, <1>3, <2>1 DEF Unserved
  <2>. QED
    BY <1>1, <1>4, <1>5, <2>1, <2>2 DEF IInv, UnservedIsUnknown
<1>12. ServedIsOwned'
  BY <1>2, <1>3 DEF ServedIsOwned, Slots
<1>13. TokensNameSessions' /\ UserHasToken' /\ ScreenIsTheUsers'
  BY <1>1, <1>4, <1>5, Names DEF TokensNameSessions, UserHasToken, ScreenIsTheUsers
<1>14. OneRefresh' /\ RetriesAreNewer'
  BY <1>1, <1>2, <1>3, <1>4, <1>5 DEF OneRefresh, RetriesAreNewer, Retried
<1>. QED
  BY <1>7, <1>8, <1>9, <1>10, <1>11, <1>12, <1>13, <1>14 DEF IInv

\* The tokens and sessions the API forgets, and the pages the user opens.
LEMMA QuietPreservesIInv ==
    ASSUME IInv, live' \subseteq live,
           UNCHANGED <<owner, sidOf, cookie, token, user, inFlight, refresh, http>>,
           page' = page \/ \E id : Show(id, user)
    PROVE  IInv'
<1>1. page' \in Modules => page \in Modules \/ token # None
  BY Names DEF Show, IInv, UserHasToken
<1>2. ScreenIsTheUsers' /\ UserHasToken'
  BY <1>1 DEF IInv, ScreenIsTheUsers, UserHasToken
<1>3. Types' /\ TokensNameSessions' /\ OneRefresh'
  BY DEF IInv, Types, TokensNameSessions, OneRefresh
<1>4. KindsFit' /\ RetriesAreNewer'
  BY DEF IInv, KindsFit, RetriesAreNewer, Retried
<1>5. RefreshesAreOnce' /\ TokensAreHeard'
  BY DEF IInv, RefreshesAreOnce, MayRefresh, Retried, TokensAreHeard
<1>6. UnservedIsUnknown' /\ ServedIsOwned'
  BY DEF IInv, UnservedIsUnknown, Unserved, ServedIsOwned
<1>. QED
  BY <1>2, <1>3, <1>4, <1>5, <1>6 DEF IInv

LEMMA NextPreservesIInv == IInv /\ [Next]_vars => IInv'
<1>. SUFFICES ASSUME IInv, [Next]_vars PROVE IInv'
  OBVIOUS
<1>. USE DEF api, session
<1>1. ASSUME NEW r \in Slots, SendApi(r)
      PROVE  IInv'
  <2>1. token # None
    BY <1>1 DEF SendApi, IInv, ScreenIsTheUsers
  <2>. QED
    BY <1>1, <2>1, SendPreservesIInv DEF SendApi
<1>2. ASSUME NEW r \in Slots, Logout(r)
      PROVE  IInv'
  BY <1>2, SendPreservesIInv DEF Logout
<1>3. ASSUME NEW r \in Slots, NEW a \in Accounts, OnSubmit(r, a)
      PROVE  IInv'
  BY <1>3, SendPreservesIInv DEF OnSubmit
<1>4. ASSUME NEW r \in Slots, Abandon(r) \/ HearAnswer(r)
      PROVE  IInv'
  BY <1>4, EndPreservesIInv DEF Abandon, HearAnswer, Hears, Idle
<1>5. ASSUME NEW r \in Slots, HearRetryFailed(r)
      PROVE  IInv'
  BY <1>5, EndPreservesIInv DEF HearRetryFailed, Hears, Idle, ClearSession
<1>6. ASSUME NEW r \in Slots, HearLogout(r)
      PROVE  IInv'
  BY <1>6, EndPreservesIInv DEF HearLogout, Heard, Idle, EndLogout, ClearSession
<1>7. ASSUME NEW t \in Tokens, Expire(t)
      PROVE  IInv'
  BY <1>7, QuietPreservesIInv DEF Expire, client
<1>8. ASSUME NEW s \in Sids, Lapse(s)
      PROVE  IInv'
  BY <1>8, QuietPreservesIInv DEF Lapse, client
<1>9. ASSUME NEW id, Navigate(id)
      PROVE  IInv'
  BY <1>9, QuietPreservesIInv DEF Navigate
<1>10. CASE Boot
  BY <1>10, QuietPreservesIInv DEF Boot
<1>11. CASE UNCHANGED vars
  BY <1>11, QuietPreservesIInv DEF vars, client
<1>. QED
  BY <1>1, <1>2, <1>3, <1>4, <1>5, <1>6, <1>7, <1>8, <1>9, <1>10, <1>11, ServePreservesIInv,
     ServeRefreshPreservesIInv, Hear401PreservesIInv, HearRefreshPreservesIInv,
     HearLoginPreservesIInv, ReloadPreservesIInv
  DEF Next, Hear

-----------------------------------------------------------------------------
(* Theorems *)

\* The inductive invariant: who has which token, and which refresh is whose.
THEOREM Invariance == Spec => []IInv
  BY InitEstablishesIInv, NextPreservesIInv, PTL DEF Spec

\* However many requests are refused together, one refresh is under way, and
\* every request that waits waits for that one.
THEOREM RefreshIsShared == Spec => []OneRefresh
  BY Invariance, PTL DEF IInv

\* No request is sent again with the token it was refused with.
THEOREM RetriesCarryTheNewToken == Spec => []RetriesAreNewer
  BY Invariance, PTL DEF IInv

\* A module is shown to a user with a token, and the user is the token's.
THEOREM ScreenAndTokenAgree == Spec => []ScreenIsTheUsers
  BY Invariance, PTL DEF IInv

-----------------------------------------------------------------------------
(* Navigation: the guards, whatever is active. *)

\* The menu and the routes list the same roles for every module.
LEMMA MenuMatchesRoutes ==
    /\ DOMAIN NAV_ITEMS = 1..10
    /\ \A i \in 1..10 : /\ NAV_ITEMS[i].id \in Modules
                        /\ NAV_ITEMS[i].roles = ShellRoutes[NAV_ITEMS[i].id]
    /\ "home" \in Modules /\ ShellRoutes["home"] = ALL_ROLES /\ NAV_ITEMS[1].id = "home"
    /\ Login \notin Modules
  BY DEF NAV_ITEMS, ShellRoutes, Modules, Item, Login

LEMMA SmallestIsIn ==
    ASSUME NEW S \in SUBSET Nat, S # {}
    PROVE  Min(S) \in S
<1>1. \E x \in S : \A y \in S : <<y, x>> \notin OpToRel(<, Nat)
  BY NatLessThanWellFounded, WFMin, Zenon
<1>2. \E x \in S : \A y \in S : ~(y < x)
  BY <1>1, Zenon DEF OpToRel
<1>3. \E x \in S : \A y \in S : x <= y
  BY <1>2
<1>. QED  BY <1>3 DEF Min

\* A module the role may see is found, an active one if there is one.
LEMMA SomewhereToGo ==
    ASSUME NEW role \in ALL_ROLES, NEW on \in SUBSET Modules
    PROVE  LET f == FirstAvailableModuleId(role, on)
           IN  /\ f \in Modules /\ role \in ShellRoutes[f]
               /\ f \in on \/ Menu(role, on) = {}
<1> DEFINE f == FirstAvailableModuleId(role, on)
<1>1. /\ Shown(role, on) \in SUBSET Nat /\ Shown(role, Modules) \in SUBSET Nat
      /\ 1 \in Shown(role, Modules)
  BY MenuMatchesRoutes DEF Shown
<1>2. CASE Shown(role, on) # {}
  <2>1. PICK i \in Shown(role, on) : f = NAV_ITEMS[i].id
    BY <1>1, <1>2, SmallestIsIn DEF FirstAvailableModuleId
  <2>. QED  BY <2>1, MenuMatchesRoutes DEF Shown
<1>3. CASE Shown(role, on) = {}
  <2>1. PICK i \in Shown(role, Modules) : f = NAV_ITEMS[i].id
    BY <1>1, <1>3, SmallestIsIn DEF FirstAvailableModuleId
  <2>. QED  BY <1>3, <2>1, MenuMatchesRoutes DEF Shown, Menu
<1>. QED  BY <1>2, <1>3

LEMMA GuardsEnd ==
    ASSUME NEW role \in ALL_ROLES, NEW on \in SUBSET Modules, NEW id \in Modules
    PROVE  LET end == Land(id, role, on)
           IN  /\ Hop(end, role, on) = end
               /\ role \in ShellRoutes[end]
               /\ end \in on \/ Menu(role, on) = {}
<1> DEFINE f == FirstAvailableModuleId(role, on)
           Final(x) == /\ x \in Modules /\ role \in ShellRoutes[x]
                       /\ x \in on \/ Menu(role, on) = {}
                       /\ Hop(x, role, on) = x
<1>1. Final(f)
  BY SomewhereToGo, MenuMatchesRoutes DEF Hop, RoleGuard, ModuleActiveGuard
<1>2. ASSUME NEW x \in Modules
      PROVE  LET y == Hop(x, role, on) IN Final(y) \/ y = "home"
  BY <1>1, <1>2, MenuMatchesRoutes DEF Hop, RoleGuard, ModuleActiveGuard
<1>3. Final(Hop("home", role, on))
  BY <1>1, MenuMatchesRoutes DEF Hop, RoleGuard, ModuleActiveGuard
<1>. QED
  BY <1>2, <1>3 DEF Land

LEMMA MenuLeadsThere ==
    ASSUME NEW role \in ALL_ROLES, NEW on \in SUBSET Modules, NEW id \in Menu(role, on)
    PROVE  Land(id, role, on) = id
<1>1. id \in Modules /\ id \in on /\ role \in ShellRoutes[id]
  BY MenuMatchesRoutes DEF Menu, Shown
<1>. QED  BY <1>1, MenuMatchesRoutes DEF Land, Hop, RoleGuard, ModuleActiveGuard

\* What app-config.json leaves active is a set of modules.
LEMMA ActiveAreModules == Spec => [](active \in SUBSET Modules)
<1>1. Init => active \in SUBSET Modules
  BY ConfigsDisableModules DEF Init
<1>2. active \in SUBSET Modules /\ [Next]_vars => (active \in SUBSET Modules)'
  <2> SUFFICES ASSUME active \in SUBSET Modules, [Next]_vars
               PROVE  active' \in SUBSET Modules
    OBVIOUS
  <2>1. CASE UNCHANGED active
    BY <2>1
  <2>2. CASE \E l \in Loads : Reload(l)
    BY <2>2, ConfigsDisableModules DEF Reload
  <2>3. Next => UNCHANGED active \/ \E l \in Loads : Reload(l)
    BY DEF Next, SendApi, Abandon, Serve, Hear, HearAnswer, Hear401, HearRetryFailed, HearLogin,
           HearLogout, Logout, OnSubmit, Send, ServeRefresh, HearRefresh, Expire, Lapse, client,
           Navigate, Boot
  <2>. QED  BY <2>1, <2>2, <2>3 DEF vars, client
<1>. QED  BY <1>1, <1>2, PTL DEF Spec

\* No role, URL or build configuration makes the guards redirect for ever, and
\* the menu leads where it says.
THEOREM GuardsAgree == Spec => []RedirectsEnd
<1>1. active \in SUBSET Modules => RedirectsEnd
  BY GuardsEnd, MenuLeadsThere DEF RedirectsEnd
<1>. QED  BY <1>1, ActiveAreModules, PTL
=============================================================================
