------------------------------- MODULE Accounts -------------------------------
(***************************************************************************)
(* Companies and their users: CompaniesService and UsersService behind the *)
(* guards of the API, one action per statement that is awaited, and the    *)
(* audit rows their controllers write afterwards.  What a request creates  *)
(* is named after the request.                                             *)
(***************************************************************************)
EXTENDS Naturals

CONSTANTS
    Requests,       \* each made once
    Calls,          \* bound: what a request may be
    FirstCompanies, FirstUsers,     \* rows there are at the start
    Names, Emails,
    SlugOf,         \* slugify
    NoRow, NoCall, NoOne, NoCompany, Unset

VARIABLES
    company, user,  \* the rows
    pending,        \* ids of the rows a transaction has not committed yet
    audit,          \* requests that have a row in audit_logs
    pc, call,
    who,            \* the JwtPayload that validate returned
    got             \* what the handler has read of its row

tables == <<company, user, pending>>
accounts == <<tables, audit, pc, call, who, got>>

Roles == {"SUPERADMIN", "ADMIN", "MANAGER", "OPERATOR", "VIEWER"}
Assignable == {"MANAGER", "OPERATOR", "VIEWER"}

CompanyIds == DOMAIN FirstCompanies \cup Requests
UserIds == DOMAIN FirstUsers \cup Requests
CompanyRows == [name : Names, slug : {SlugOf[n] : n \in Names}, active : BOOLEAN]
UserRows == [email : Emails, role : Roles, company : CompanyIds \cup {NoCompany}, active : BOOLEAN]

\* A call: the user whose token it carries, the id in its route, its body.
Call(op, by, id, body) == [op |-> op, by |-> by, id |-> id, body |-> body]

CompanyOps == {"createCompany", "updateCompany", "toggleStatus"}
UserOps == {"createUser", "updateUser", "toggleUser"}

AccountCalls ==
    UNION {
      [op: {"createCompany"}, by: UserIds, id: {Unset}, body: [name: Names, email: Emails]],
      [op: {"updateCompany"}, by: UserIds, id: CompanyIds, body: [name: Names \cup {Unset}]],
      [op: {"toggleStatus"}, by: UserIds, id: CompanyIds, body: {Unset}],
      [op: {"createUser"}, by: UserIds, id: {Unset}, body: [email: Emails, role: Assignable]],
      [op: {"updateUser"}, by: UserIds, id: UserIds,
       body: [email: Emails \cup {Unset}, role: Assignable \cup {Unset}]],
      [op: {"toggleUser"}, by: UserIds, id: UserIds, body: {Unset}]}

ASSUME SlugsOfNames == DOMAIN SlugOf = Names
ASSUME FirstRowsAreRows ==
    /\ \A c \in DOMAIN FirstCompanies : FirstCompanies[c] \in CompanyRows
    /\ \A u \in DOMAIN FirstUsers : FirstUsers[u] \in UserRows
ASSUME RequestsAreNew ==
    Requests \cap (DOMAIN FirstCompanies \cup DOMAIN FirstUsers) = {}
ASSUME FirstRowsFit ==
    /\ \A i, j \in DOMAIN FirstUsers :
           FirstUsers[i].email = FirstUsers[j].email => i = j
    /\ \A i, j \in DOMAIN FirstCompanies :
           FirstCompanies[i].slug = FirstCompanies[j].slug => i = j
    /\ \A c \in DOMAIN FirstCompanies : \E u \in DOMAIN FirstUsers : FirstUsers[u].company = c
    /\ \A u \in DOMAIN FirstUsers : FirstUsers[u].company \in DOMAIN FirstCompanies \cup {NoCompany}
ASSUME NothingIsARow ==
    /\ NoRow \notin CompanyRows \cup UserRows
    /\ NoOne \notin [role : Roles, company : CompanyIds \cup {NoCompany}]
    /\ NoCompany \notin CompanyIds
ASSUME UnsetIsNothing == Unset \notin Names \cup Emails \cup Assignable \cup UserIds \cup CompanyIds

Exists(table, i) == table[i] # NoRow
Uncommitted(i) == \E r \in Requests : i \in pending[r]
Committed(table, i) == Exists(table, i) /\ ~Uncommitted(i)

-----------------------------------------------------------------------------
Op(r) == call[r].op
Id(r) == call[r].id
Body(r) == call[r].body
At(r, statement, ops) == pc[r] = statement /\ Op(r) \in ops

Go(r, to) == pc' = [pc EXCEPT ![r] = to]
Keep == UNCHANGED <<audit, call, who>>

\* A look-up: the handler goes on, or the request is refused.
Check(r, holds, next) ==
    /\ Go(r, IF holds THEN next ELSE "refused")
    /\ UNCHANGED <<tables, got>> /\ Keep

\* The row is read into a local, or the request is refused.
Find(r, found, read, next) ==
    /\ Go(r, IF found THEN next ELSE "refused")
    /\ got' = [got EXCEPT ![r] = IF found THEN read ELSE @]
    /\ UNCHANGED tables /\ Keep

Arrive(r) ==
    /\ pc[r] = "idle"
    /\ \E c \in Calls : call' = [call EXCEPT ![r] = c]
    /\ Go(r, "admit")
    /\ UNCHANGED <<tables, audit, who, got>>

\* @Roles; RolesGuard lets a SUPERADMIN in everywhere.
MayAs(role, roles) == role = "SUPERADMIN" \/ role \in roles

\* JwtStrategy.validate reads the user of the token; RolesGuard and
\* CompanyGuard judge that row.  @AllowNoCompany is on the companies only.
Admit(r, ops, roles) ==
    LET u == user[call[r].by]
    IN  /\ At(r, "admit", ops)
        /\ LET fits == /\ Committed(user, call[r].by) /\ u.active
                       /\ MayAs(u.role, roles)
                       /\ Op(r) \in CompanyOps \/ u.company # NoCompany
           IN  /\ Go(r, IF fits THEN "start" ELSE "refused")
               /\ who' = [who EXCEPT ![r] =
                              IF fits THEN [role |-> u.role, company |-> u.company] ELSE @]
        /\ UNCHANGED <<tables, audit, call, got>>

AdmitCompanies(r) == Admit(r, CompanyOps, {"SUPERADMIN"})
AdmitUsers(r) == Admit(r, UserOps, {"ADMIN"})

-----------------------------------------------------------------------------
(* Unique indexes.  A row another transaction has not committed is waited  *)
(* for; one that is committed refuses the write.                           *)

HasEmail(e) == {i \in UserIds : Exists(user, i) /\ user[i].email = e}
HasSlug(s) == {i \in CompanyIds : Exists(company, i) /\ company[i].slug = s}

\* Mutation: no unique index, only the checks of the handlers.
WriteAnyway(r, table, i, new, rivals, next) ==
    Go(r, next) /\ table' = [table EXCEPT ![i] = new]

\* The one write of a handler that needs no transaction, or one statement of it.
Write(r, table, i, new, rivals, next) ==
    /\ \A j \in rivals \ {i} : ~Uncommitted(j)
    /\ Go(r, IF rivals \subseteq {i} THEN next ELSE "refused")
    /\ table' = IF rivals \subseteq {i} THEN [table EXCEPT ![i] = new] ELSE table

WriteUser(r, i, new, next) ==
    /\ Write(r, user, i, new, HasEmail(new.email), next)
    /\ UNCHANGED <<company, got>> /\ Keep

WriteCompany(r, i, new, next) ==
    /\ Write(r, company, i, new, HasSlug(new.slug), next)
    /\ UNCHANGED <<user, got>> /\ Keep

-----------------------------------------------------------------------------
(* UsersService *)

FindByEmail(r) ==
    /\ At(r, "start", {"createUser"})
    /\ Check(r, \A i \in HasEmail(Body(r).email) : Uncommitted(i), "write")

InsertUser(r) ==
    /\ At(r, "write", {"createUser"})
    /\ WriteUser(r, r, [email |-> Body(r).email, role |-> Body(r).role,
                        company |-> who[r].company, active |-> TRUE], "audit")
    /\ UNCHANGED pending

\* Mutation: the user is looked up by id alone.
AnyUser(r) == Committed(user, Id(r))

OwnUser(r) == Committed(user, Id(r)) /\ user[Id(r)].company = who[r].company

FindUser(r) ==
    /\ At(r, "start", {"updateUser", "toggleUser"})
    /\ Find(r, OwnUser(r), user[Id(r)].active, "write")

Given(new, old) == IF new = Unset THEN old ELSE new

UpdateUser(r) ==
    /\ At(r, "write", {"updateUser"})
    /\ LET u == user[Id(r)]
       IN  WriteUser(r, Id(r), [u EXCEPT !.email = Given(Body(r).email, @),
                                         !.role = Given(Body(r).role, @)], "audit")
    /\ UNCHANGED pending

ToggleUser(r) ==
    /\ At(r, "write", {"toggleUser"})
    /\ WriteUser(r, Id(r), [user[Id(r)] EXCEPT !.active = ~got[r]], "audit")
    /\ UNCHANGED pending

\* AuditService.log: a failed insert is swallowed.
Log(r) ==
    /\ pc[r] = "audit"
    /\ Go(r, "ok")
    /\ audit' = audit \cup {r}
    /\ UNCHANGED <<tables, call, who, got>>

LogFails(r) ==
    /\ pc[r] = "audit"
    /\ Go(r, "ok")
    /\ UNCHANGED <<tables, got>> /\ Keep

-----------------------------------------------------------------------------
(* CompaniesService *)

Named(n) == {i \in CompanyIds : Committed(company, i) /\ company[i].name = n}

FindCompanyNamed(r) ==
    /\ At(r, "start", {"createCompany"})
    /\ Check(r, /\ Named(Body(r).name) = {}
                /\ \A i \in HasSlug(SlugOf[Body(r).name]) : Uncommitted(i), "email")

FindAdminEmail(r) ==
    /\ At(r, "email", {"createCompany"})
    /\ Check(r, \A i \in HasEmail(Body(r).email) : Uncommitted(i), "write")

\* The transaction: both rows are pending until it commits.
InsertCompany(r) ==
    /\ At(r, "write", {"createCompany"})
    /\ WriteCompany(r, r, [name |-> Body(r).name, slug |-> SlugOf[Body(r).name],
                           active |-> TRUE], "admin")
    /\ pending' = [pending EXCEPT ![r] = IF pc'[r] = "admin" THEN {r} ELSE {}]

\* Mutation: the company is kept when its administrator is refused.
CommitAnyway(r) ==
    /\ UNCHANGED <<company, user>>
    /\ pending' = [pending EXCEPT ![r] = {}]

\* What is left of the transaction when a statement of it fails: nothing.
RollBack(r) ==
    /\ company' = [company EXCEPT ![r] = IF r \in pending[r] THEN NoRow ELSE @]
    /\ user' = [user EXCEPT ![r] = IF r \in pending[r] THEN NoRow ELSE @]
    /\ pending' = [pending EXCEPT ![r] = {}]

InsertAdmin(r) ==
    /\ At(r, "admin", {"createCompany"})
    /\ LET rivals == HasEmail(Body(r).email)
       IN  /\ \A i \in rivals : ~Uncommitted(i)
           /\ IF rivals = {}
              THEN /\ user' = [user EXCEPT ![r] = [email |-> Body(r).email, role |-> "ADMIN",
                                                   company |-> r, active |-> TRUE]]
                   /\ Go(r, "commit")
                   /\ UNCHANGED <<company, pending>>
              ELSE Go(r, "refused") /\ RollBack(r)
    /\ UNCHANGED got /\ Keep

Commit(r) ==
    /\ At(r, "commit", {"createCompany"})
    /\ pending' = [pending EXCEPT ![r] = {}]
    /\ Go(r, "ok")
    /\ UNCHANGED <<company, user, got>> /\ Keep

FindCompany(r) ==
    /\ At(r, "start", {"updateCompany", "toggleStatus"})
    /\ Find(r, Committed(company, Id(r)), company[Id(r)].active,
            IF Op(r) = "updateCompany" /\ Body(r).name # Unset THEN "name" ELSE "write")

FindNameConflict(r) ==
    /\ At(r, "name", {"updateCompany"})
    /\ Check(r, Named(Body(r).name) \subseteq {Id(r)}, "write")

\* The slug stays what it was.
UpdateCompany(r) ==
    /\ At(r, "write", {"updateCompany"})
    /\ WriteCompany(r, Id(r), [company[Id(r)] EXCEPT !.name = Given(Body(r).name, @)], "ok")
    /\ UNCHANGED pending

ToggleStatus(r) ==
    /\ At(r, "write", {"toggleStatus"})
    /\ WriteCompany(r, Id(r), [company[Id(r)] EXCEPT !.active = ~got[r]], "ok")
    /\ UNCHANGED pending

-----------------------------------------------------------------------------
Answers == {"ok", "refused"}

\* A connection is lost: a transaction is rolled back, a write of its own
\* has been made or not.
Fail(r) ==
    /\ pc[r] \notin {"idle"} \cup Answers
    /\ Go(r, "refused")
    /\ RollBack(r)
    /\ UNCHANGED got /\ Keep

Users(r) == AdmitUsers(r) \/ FindByEmail(r) \/ InsertUser(r) \/ FindUser(r)
            \/ UpdateUser(r) \/ ToggleUser(r) \/ Log(r) \/ LogFails(r)
Companies(r) == \/ AdmitCompanies(r) \/ FindCompanyNamed(r) \/ FindAdminEmail(r)
                \/ InsertCompany(r) \/ InsertAdmin(r) \/ Commit(r)
                \/ FindCompany(r) \/ FindNameConflict(r) \/ UpdateCompany(r) \/ ToggleStatus(r)
AccountStep(r) == Arrive(r) \/ Users(r) \/ Companies(r) \/ Fail(r)

AccountsInit ==
    /\ company = [i \in CompanyIds |-> IF i \in Requests THEN NoRow ELSE FirstCompanies[i]]
    /\ user = [i \in UserIds |-> IF i \in Requests THEN NoRow ELSE FirstUsers[i]]
    /\ pending = [r \in Requests |-> {}]
    /\ audit = {}
    /\ pc = [r \in Requests |-> "idle"]
    /\ call = [r \in Requests |-> NoCall]
    /\ who = [r \in Requests |-> NoOne]
    /\ got = [r \in Requests |-> NoRow]

-----------------------------------------------------------------------------
(* Properties. *)

\* No two users have one email and no two companies one slug, whichever of
\* the three handlers that look for an email first writes it first.
IdentitiesDiffer ==
    /\ \A i, j \in UserIds : Exists(user, i) /\ Exists(user, j) /\ user[i].email = user[j].email
           => i = j
    /\ \A i, j \in CompanyIds :
           Exists(company, i) /\ Exists(company, j) /\ company[i].slug = company[j].slug => i = j

\* A company that anyone can see has a user, and a user's company is there:
\* the creation of a company and its administrator never stops halfway.
CompaniesHaveUsers ==
    /\ \A c \in CompanyIds : Committed(company, c) =>
           \E u \in UserIds : Committed(user, u) /\ user[u].company = c
    /\ \A u \in UserIds : Committed(user, u) /\ user[u].company # NoCompany =>
           Committed(company, user[u].company)
=============================================================================
