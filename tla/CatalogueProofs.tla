--------------------------- MODULE CatalogueProofs ---------------------------
(***************************************************************************)
(* What companies, users, labels and products keep for every number of     *)
(* requests and rows: the checks of a handler are still worth something    *)
(* when it writes.                                                         *)
(***************************************************************************)
EXTENDS Catalogue, TLAPS

WhoRows == [role : Roles, company : CompanyIds \cup {NoCompany}]

Types ==
    /\ CatalogueTypeOK
    /\ pending \in [Requests -> SUBSET Requests]
    /\ call \in [Requests -> Calls \cup {NoCall}] /\ who \in [Requests -> WhoRows \cup {NoOne}]
    /\ got \in [Requests -> {NoRow, Unset} \cup BOOLEAN \cup Files]
    /\ \A r \in Requests : pc[r] # "idle" => call[r] \in Calls

\* Which requests can be at which statement.
FlowOf(r) ==
    /\ pc[r] \in {"admin", "commit", "email"} => Op(r) = "createCompany"
    /\ pc[r] = "name" => Op(r) = "updateCompany"
    /\ pc[r] = "audit" =>
           Op(r) \in UserOps \cup {"createProduct", "updateProduct", "removeProduct"}
    /\ pc[r] \in {"rm", "file", "row"} => Op(r) = "uploadImage"
    /\ pc[r] \in {"write", "audit"} => Op(r) # "uploadImage"

Flow == \A r \in Requests : FlowOf(r)

\* Only a transaction that is under way has rows pending.
Pending ==
    \A r \in Requests :
        /\ pending[r] = IF pc[r] \in {"admin", "commit"} THEN {r} ELSE {}
        /\ pc[r] \in {"admin", "commit"} => Exists(company, r)
        /\ pc[r] = "commit" => Exists(user, r) /\ user[r].company = r

\* The company a request works for is there to stay.
WhoFits ==
    \A r \in Requests :
        /\ pc[r] \in {"idle", "admit"} => who[r] = NoOne
        /\ who[r] = NoOne => pc[r] \in {"idle", "admit", "refused"}
        /\ who[r] # NoOne =>
             /\ who[r].company # NoCompany => Committed(company, who[r].company)
             /\ Op(r) \in CompanyOps => who[r].role = "SUPERADMIN"
             /\ Op(r) \notin CompanyOps => who[r].company # NoCompany

\* A row is created by the request it is named after, and once.
CreatedOnce ==
    \A r \in Requests :
        /\ company[r] # NoRow => pc[r] \in {"admin", "commit"} \cup Answers
        /\ user[r] # NoRow => pc[r] \in {"commit", "audit"} \cup Answers
        /\ label[r] # NoRow => pc[r] = "ok"
        /\ product[r] # NoRow => pc[r] \in {"audit"} \cup Answers

\* What a handler has found: rows that stay, and labels that may go but never
\* come back as another's.
UserStays(r, i) == i \in UserIds /\ Committed(user, i) /\ user[i].company = who[r].company

LabelFits(r, i, kind) ==
    /\ i \in LabelIds
    /\ i \in Requests => pc[i] \in Answers
    /\ label[i] # NoRow => label[i].kind = kind /\ label[i].company = who[r].company

ProductStays(r, i) == i \in ProductIds /\ product[i] # NoRow /\ product[i].company = who[r].company

Fitting(r, field, kind) == Body(r)[field] # Unset => LabelFits(r, Body(r)[field], kind)

FoundBy(r) ==
    /\ pc[r] = "write" /\ Op(r) \in {"updateUser", "toggleUser"} => UserStays(r, Id(r))
    /\ pc[r] \in {"name", "write"} /\ Op(r) \in {"updateCompany", "toggleStatus"} =>
           Committed(company, Id(r))
    /\ pc[r] = "write" /\ Op(r) \in {"renameLabel", "removeLabel"} =>
           LabelFits(r, Id(r), Body(r).kind)
    /\ pc[r] \in {"brand", "write"} /\ Op(r) \in {"createProduct", "updateProduct"} =>
         /\ Fitting(r, "category", "category")
         /\ pc[r] = "write" => Fitting(r, "brand", "brand")
    /\ /\ pc[r] \in {"category", "brand", "write", "rm", "file", "row"}
       /\ Op(r) \in {"updateProduct", "removeProduct", "uploadImage"}
       => ProductStays(r, Id(r))

Found == \A r \in Requests : FoundBy(r)

\* A request that writes an audit row has changed a row of its company.
Subject(r) == IF Id(r) = Unset THEN r ELSE Id(r)

Audited ==
    /\ \A r \in audit : pc[r] \in Answers
    /\ \A r \in Requests : r \in audit \/ pc[r] = "audit" =>
         IF Op(r) \in UserOps THEN UserStays(r, Subject(r)) ELSE ProductStays(r, Subject(r))

IInv ==
    /\ Types /\ Flow /\ Pending /\ WhoFits /\ CreatedOnce /\ Found /\ Audited
    /\ IdentitiesDiffer /\ CompaniesHaveUsers /\ ProductsInTheirCatalogue

-----------------------------------------------------------------------------
(* Image files. *)

\* A name that no body has given.
Ours(f) == f \in Requests /\ Bodies(f) = {}

\* The finished upload of a product.
Attached(f, p) == pc[f] = "ok" /\ Op(f) = "uploadImage" /\ Id(f) = p

FilesInv ==
    /\ ImagesExist
    /\ \A r \in Requests : pc[r] \in {"idle", "admit", "start"} => got[r] = NoRow
    /\ \A p \in ProductIds :
           Exists(product, p) /\ Ours(product[p].image) => Attached(product[p].image, p)
    /\ \A r \in Requests : pc[r] = "rm" /\ Ours(got[r]) => Attached(got[r], Id(r))
    /\ \A r \in Requests : pc[r] = "row" /\ Ours(r) => r \in files

-----------------------------------------------------------------------------
LEMMA CallShapes ==
    ASSUME NEW c \in Calls
    PROVE  /\ c.op \in CompanyOps \cup UserOps \cup LabelOps \cup ProductOps
           /\ c.op = "createCompany" =>
                c.id = Unset /\ c.body.name \in Names /\ c.body.email \in Emails
           /\ c.op = "updateCompany" => c.id \in CompanyIds /\ c.body.name \in Names \cup {Unset}
           /\ c.op = "toggleStatus" => c.id \in CompanyIds
           /\ c.op = "createUser" =>
                c.id = Unset /\ c.body.email \in Emails /\ c.body.role \in Assignable
           /\ c.op = "updateUser" =>
                /\ c.id \in UserIds
                /\ c.body.email \in Emails \cup {Unset} /\ c.body.role \in Assignable \cup {Unset}
           /\ c.op = "toggleUser" => c.id \in UserIds
           /\ c.op = "createLabel" => c.body.kind \in Kinds /\ c.body.name \in Names
           /\ c.op = "renameLabel" =>
                c.id \in LabelIds /\ c.body.kind \in Kinds /\ c.body.name \in Names
           /\ c.op = "removeLabel" => c.id \in LabelIds /\ c.body.kind \in Kinds
           /\ c.op = "createProduct" =>
                /\ c.id = Unset /\ c.body.sku \in Skus /\ c.body.category \in LabelIds
                /\ c.body.brand \in LabelIds \cup {Unset}
                /\ c.body.image \in Files \cup {"none", Unset}
           /\ c.op = "updateProduct" =>
                /\ c.id \in ProductIds /\ c.body.sku \in Skus \cup {Unset}
                /\ c.body.category \in LabelIds \cup {Unset}
                /\ c.body.brand \in LabelIds \cup {Unset}
                /\ c.body.image \in Files \cup {"none", Unset}
           /\ c.op \in {"removeProduct", "uploadImage"} => c.id \in ProductIds
<1>1. c \in AccountCalls \/ c \in CatalogueCalls
  BY CallsAreCalls
<1>2. CASE c \in AccountCalls
  BY <1>2 DEF AccountCalls, CompanyOps, UserOps, LabelOps, ProductOps
<1>3. CASE c \in CatalogueCalls
  BY <1>3 DEF CatalogueCalls, CompanyOps, UserOps, LabelOps, ProductOps
<1>. QED
  BY <1>1, <1>2, <1>3

\* Names that tell nothing from a row, and new rows from old ones.
LEMMA Markers ==
    /\ NoRow \notin CompanyRows /\ NoRow \notin UserRows /\ NoRow \notin LabelRows
    /\ NoRow \notin ProductRows /\ NoRow \notin Files /\ NoRow # Unset
    /\ NoOne \notin WhoRows /\ NoCompany \notin CompanyIds
    /\ Unset \notin Names /\ Unset \notin Emails /\ Unset \notin Assignable
    /\ Unset \notin UserIds /\ Unset \notin CompanyIds /\ Unset \notin LabelIds
    /\ Unset \notin Files /\ Unset \notin Skus
    /\ Requests \subseteq UserIds /\ Requests \subseteq CompanyIds /\ Requests \subseteq LabelIds
    /\ Requests \subseteq ProductIds /\ Requests \subseteq Files
    /\ \A r \in Requests : /\ r \notin DOMAIN FirstUsers /\ r \notin DOMAIN FirstCompanies
                            /\ r \notin DOMAIN FirstLabels /\ r \notin DOMAIN FirstProducts
                            /\ r \notin FirstFiles
<1>1. \A r \in Requests : /\ r \notin DOMAIN FirstUsers /\ r \notin DOMAIN FirstCompanies
                          /\ r \notin DOMAIN FirstLabels /\ r \notin DOMAIN FirstProducts
                          /\ r \notin FirstFiles
  BY RequestsAreNew, NewRequests
<1>. QED
  BY <1>1, NothingIsARow, UnsetIsNothing, UnsetNamesNothing, NewRequests
     DEF WhoRows, UserIds, CompanyIds, LabelIds, ProductIds, Files

LEMMA InitEstablishesIInv == Init => IInv
<1>. SUFFICES ASSUME Init PROVE IInv
  OBVIOUS
<1>0. \A r \in Requests : /\ pc[r] = "idle" /\ pending[r] = {} /\ who[r] = NoOne
                          /\ user[r] = NoRow /\ company[r] = NoRow
                          /\ label[r] = NoRow /\ product[r] = NoRow
  BY Markers DEF Init, AccountsInit
<1>1. /\ \A i \in DOMAIN FirstUsers : user[i] = FirstUsers[i] /\ user[i] \in UserRows
      /\ \A i \in DOMAIN FirstCompanies : company[i] = FirstCompanies[i] /\ company[i] \in CompanyRows
      /\ \A i \in DOMAIN FirstLabels : label[i] = FirstLabels[i] /\ label[i] \in LabelRows
      /\ \A i \in DOMAIN FirstProducts : product[i] = FirstProducts[i] /\ product[i] \in ProductRows
  BY Markers, FirstRowsAreRows, FirstCatalogue DEF Init, AccountsInit, UserIds, CompanyIds, LabelIds, ProductIds
<1>2. Types
  BY <1>0, <1>1 DEF Init, AccountsInit, Types, CatalogueTypeOK, Statements, Files, UserIds, CompanyIds, LabelIds, ProductIds
<1>3. Flow /\ Pending /\ WhoFits /\ CreatedOnce /\ Found /\ Audited
  BY <1>0 DEF Init, AccountsInit, Flow, FlowOf, Pending, WhoFits, CreatedOnce, Found, FoundBy, Audited
<1>4. /\ \A i \in UserIds : Exists(user, i) => i \in DOMAIN FirstUsers
      /\ \A i \in CompanyIds : Exists(company, i) => i \in DOMAIN FirstCompanies
      /\ \A i \in ProductIds : Exists(product, i) => i \in DOMAIN FirstProducts
      /\ \A i : ~Uncommitted(i)
  BY <1>0 DEF Exists, UserIds, CompanyIds, ProductIds, Uncommitted
<1>5. IdentitiesDiffer
  BY <1>1, <1>4, FirstRowsFit DEF IdentitiesDiffer
<1>6. CompaniesHaveUsers
  <2>1. \A i \in DOMAIN FirstUsers : i \in UserIds /\ Committed(user, i)
    BY <1>1, <1>4, Markers DEF UserIds, Committed, Exists
  <2>2. \A i \in DOMAIN FirstCompanies : i \in CompanyIds /\ Committed(company, i)
    BY <1>1, <1>4, Markers DEF CompanyIds, Committed, Exists
  <2>3. ASSUME NEW i \in CompanyIds, Committed(company, i)
        PROVE  \E u \in UserIds : Committed(user, u) /\ user[u].company = i
    BY <1>1, <1>4, <2>1, <2>3, FirstRowsFit DEF Committed
  <2>4. ASSUME NEW u \in UserIds, Committed(user, u), user[u].company # NoCompany
        PROVE  Committed(company, user[u].company)
    BY <1>1, <1>4, <2>2, <2>4, FirstRowsFit DEF Committed
  <2>. QED
    BY <2>3, <2>4 DEF CompaniesHaveUsers
<1>7. ProductsInTheirCatalogue
  BY <1>1, <1>4, FirstCatalogueFits, Markers DEF ProductsInTheirCatalogue, Exists
<1>. QED
  BY <1>2, <1>3, <1>5, <1>6, <1>7 DEF IInv

-----------------------------------------------------------------------------
(* What a step of one request may do to what the others have found. *)

Rows ==
    /\ company \in [CompanyIds -> CompanyRows \cup {NoRow}]
    /\ user \in [UserIds -> UserRows \cup {NoRow}]
    /\ label \in [LabelIds -> LabelRows \cup {NoRow}]
    /\ product \in [ProductIds -> ProductRows \cup {NoRow}]
    /\ files \subseteq Files
    /\ got \in [Requests -> {NoRow, Unset} \cup BOOLEAN \cup Files]

\* The request goes on.
Turn(r, to) ==
    /\ pc[r] \notin Answers \cup {"idle"} /\ to \in Statements \ {"idle", "admit"}
    /\ pc[r] \in {"commit", "audit"} => to \in Answers
    /\ pc[r] = "admin" => to \in {"commit"} \cup Answers
    /\ pc' = [pc EXCEPT ![r] = to] /\ call' = call
    /\ pending' = [pending EXCEPT ![r] = IF to \in {"admin", "commit"} THEN {r} ELSE {}]
    /\ audit' = audit \/ (pc[r] = "audit" /\ to = "ok" /\ audit' = audit \cup {r})
    /\ FlowOf(r)'

\* Rows of accounts that anyone may have found stay.
AccountsStay(r, to) ==
    /\ \A i \in UserIds : Committed(user, i) =>
           Committed(user, i)' /\ user'[i].company = user[i].company
    /\ \A i \in CompanyIds : Committed(company, i) => Committed(company, i)'
    /\ \A s \in Requests \ {r} :
           /\ Exists(company, s) => Exists(company, s)'
           /\ Exists(user, s) => Exists(user, s)' /\ user'[s].company = user[s].company
    /\ \A s \in Requests : Exists(company, s)' => Exists(company, s) \/ (s = r /\ to = "admin")
    /\ \A s \in Requests :
           Exists(user, s)' => Exists(user, s) \/ (s = r /\ to \in {"commit", "audit"})

LabelsStay(r, to) ==
    \A k \in LabelIds : label'[k] # NoRow =>
        \/ /\ label[k] # NoRow
           /\ label'[k].kind = label[k].kind /\ label'[k].company = label[k].company
        \/ k = r /\ to = "ok"

ProductsStay(r, to) ==
    \A k \in ProductIds :
        /\ product[k] # NoRow => product'[k] # NoRow /\ product'[k].company = product[k].company
        /\ product'[k] # NoRow => product[k] # NoRow \/ (k = r /\ to = "audit")

Fits(r, to) ==
    /\ to \in {"admin", "commit"} => Exists(company, r)'
    /\ to = "commit" => Exists(user, r)' /\ user'[r].company = r
    /\ FoundBy(r)'
    /\ to = "audit" => IF Op(r) \in UserOps THEN UserStays(r, Subject(r))' ELSE ProductStays(r, Subject(r))'

LEMMA TurnIsSafe ==
    ASSUME IInv, NEW r \in Requests, NEW to, Turn(r, to), Rows', who' = who,
           pc[r] = "admit" => to = "refused",
           AccountsStay(r, to), LabelsStay(r, to), ProductsStay(r, to), Fits(r, to)
    PROVE  Types' /\ Flow' /\ Pending' /\ WhoFits' /\ CreatedOnce' /\ Found' /\ Audited'
<1>1. /\ pc' = [pc EXCEPT ![r] = to] /\ pc \in [Requests -> Statements] /\ call' = call
      /\ pc'[r] = to /\ \A s \in Requests \ {r} : pc'[s] = pc[s]
      /\ to \in Statements /\ pc' \in [Requests -> Statements]
      /\ pc[r] \notin Answers \cup {"idle"} /\ to \notin {"idle", "admit"}
      /\ pc[r] \in {"commit", "audit"} => to \in Answers
  BY DEF Turn, IInv, Types, CatalogueTypeOK
<1>2. /\ pending'[r] = IF to \in {"admin", "commit"} THEN {r} ELSE {}
      /\ \A s \in Requests \ {r} : pending'[s] = pending[s]
      /\ pending' \in [Requests -> SUBSET Requests] /\ \A s \in Requests : pending'[s] \subseteq {s}
      /\ audit' \subseteq Requests
  BY DEF Turn, IInv, Types, CatalogueTypeOK
<1>3. Types'
  BY <1>1, <1>2 DEF IInv, Types, CatalogueTypeOK, Rows
<1>5. Pending'
  <2>. SUFFICES ASSUME NEW s \in Requests
                PROVE  /\ pending'[s] = IF pc'[s] \in {"admin", "commit"} THEN {s} ELSE {}
                       /\ pc'[s] \in {"admin", "commit"} => Exists(company, s)'
                       /\ pc'[s] = "commit" => Exists(user, s)' /\ user'[s].company = s
    BY DEF Pending, Exists
  <2>1. CASE s = r
    BY <1>1, <1>2, <2>1 DEF Fits
  <2>2. CASE s # r
    BY <1>1, <1>2, <2>2 DEF IInv, Pending, AccountsStay
  <2>. QED
    BY <2>1, <2>2
<1>6. \A s \in Requests : /\ Op(s)' = Op(s) /\ Id(s)' = Id(s) /\ Body(s)' = Body(s)
                          /\ Subject(s)' = Subject(s) /\ who'[s] = who[s]
  BY <1>1 DEF Op, Id, Body, Subject
<1>4. Flow'
  BY <1>1, <1>6 DEF Turn, IInv, Flow, FlowOf
<1>7. WhoFits'
  <2>1. \A i \in CompanyIds : Committed(company, i) => Committed(company, i)'
    BY DEF AccountsStay
  <2>2. ASSUME NEW s \in Requests, who[s] # NoOne, who[s].company # NoCompany
        PROVE  who[s].company \in CompanyIds /\ Committed(company, who[s].company)
    BY <2>2 DEF IInv, WhoFits, Types, WhoRows
  <2>3. ASSUME NEW s \in Requests, NEW i, i = who[s].company, who[s] # NoOne, i # NoCompany
        PROVE  Committed(company, i)'
    BY <2>1, <2>2, <2>3
  <2>4. \A s \in Requests : who[s] # NoOne /\ who[s].company # NoCompany =>
            Committed(company, who[s].company)'
    BY <2>3 DEF Committed, Exists, Uncommitted
  <2>5. \A s \in Requests : /\ pc'[s] \in {"idle", "admit"} => who[s] = NoOne
                            /\ who[s] = NoOne => pc'[s] \in {"idle", "admit", "refused"}
    BY <1>1 DEF IInv, WhoFits, Answers
  <2>. QED
    BY <1>6, <2>4, <2>5 DEF IInv, WhoFits
<1>8. CreatedOnce'
  <2>1. \A s \in Requests : /\ s \in UserIds /\ s \in CompanyIds /\ s \in LabelIds /\ s \in ProductIds
                            /\ pc[s] \in Answers => s # r /\ pc'[s] \in Answers
    BY <1>1, Markers
  <2>2. pc[r] = "admin" => to \in {"commit"} \cup Answers
    BY DEF Turn
  <2>3. \A s \in Requests : company'[s] # NoRow => pc'[s] \in {"admin", "commit"} \cup Answers
    BY <1>1, <2>1, <2>2 DEF IInv, CreatedOnce, AccountsStay, Exists, Answers
  <2>4. \A s \in Requests : user'[s] # NoRow => pc'[s] \in {"commit", "audit"} \cup Answers
    BY <1>1, <2>1 DEF IInv, CreatedOnce, AccountsStay, Exists, Answers
  <2>5. \A s \in Requests : label'[s] # NoRow => pc'[s] = "ok"
    BY <1>1, <2>1 DEF IInv, CreatedOnce, LabelsStay, Answers
  <2>6. \A s \in Requests : product'[s] # NoRow => pc'[s] \in {"audit"} \cup Answers
    BY <1>1, <2>1 DEF IInv, CreatedOnce, ProductsStay, Answers
  <2>. QED
    BY <2>3, <2>4, <2>5, <2>6 DEF CreatedOnce
<1>9. \A s \in Requests : \A i : UserStays(s, i) => UserStays(s, i)'
  BY <1>6 DEF UserStays, AccountsStay
<1>10. \A s \in Requests : \A i, kind : LabelFits(s, i, kind) => LabelFits(s, i, kind)'
  BY <1>1, <1>6 DEF LabelFits, LabelsStay, Answers
<1>11. \A s \in Requests : \A i : ProductStays(s, i) => ProductStays(s, i)'
  BY <1>6 DEF ProductStays, ProductsStay
<1>12. Found'
  <2>. SUFFICES ASSUME NEW s \in Requests, s # r PROVE FoundBy(s)'
    BY DEF Found, Fits
  <2>1. FoundBy(s) /\ pc'[s] = pc[s]
    BY <1>1 DEF IInv, Found
  <2>2. \A field, kind : Fitting(s, field, kind) => Fitting(s, field, kind)'
    BY <1>6, <1>10 DEF Fitting
  <2>3. \A i : i \in CompanyIds /\ Committed(company, i) => Committed(company, i)'
    BY DEF AccountsStay
  <2>4. Op(s) \in {"updateCompany", "toggleStatus"} /\ pc[s] # "idle" => Id(s) \in CompanyIds
    BY CallShapes DEF IInv, Types, Op, Id
  <2>5. LabelFits(s, Id(s), Body(s).kind) => LabelFits(s, Id(s), Body(s).kind)'
    BY <1>1, <1>6 DEF LabelFits, LabelsStay, Answers
  <2>6. UserStays(s, Id(s)) => UserStays(s, Id(s))'
    BY <1>6 DEF UserStays, AccountsStay
  <2>7. ProductStays(s, Id(s)) => ProductStays(s, Id(s))'
    BY <1>6 DEF ProductStays, ProductsStay
  <2>8. Committed(company, Id(s)) /\ Id(s) \in CompanyIds => Committed(company, Id(s))'
    BY <1>6, <2>3 DEF Committed, Exists, Uncommitted
  <2>9. /\ Fitting(s, "category", "category") => Fitting(s, "category", "category")'
        /\ Fitting(s, "brand", "brand") => Fitting(s, "brand", "brand")'
    BY <2>2
  <2>. QED
    BY <2>1, <2>4, <2>5, <2>6, <2>7, <2>8, <2>9, <1>6 DEF FoundBy
<1>13. Audited'
  <2>1. \A s \in audit' : pc'[s] \in Answers
    BY <1>1, <1>2 DEF Turn, IInv, Audited, Answers
  <2>2. \A s \in Requests : s \in audit' \/ pc'[s] = "audit" =>
            s \in audit \/ pc[s] = "audit" \/ (s = r /\ to = "audit")
    BY <1>1 DEF Turn
  <2>3. \A s \in Requests : (s \in audit' \/ pc'[s] = "audit") =>
            IF Op(s) \in UserOps THEN UserStays(s, Subject(s))' ELSE ProductStays(s, Subject(s))'
    <3>. SUFFICES ASSUME NEW s \in Requests, s \in audit' \/ pc'[s] = "audit"
                  PROVE  IF Op(s) \in UserOps THEN UserStays(s, Subject(s))'
                         ELSE ProductStays(s, Subject(s))'
      OBVIOUS
    <3>1. UserStays(s, Subject(s)) => UserStays(s, Subject(s))'
      BY <1>6 DEF UserStays, AccountsStay
    <3>2. ProductStays(s, Subject(s)) => ProductStays(s, Subject(s))'
      BY <1>6 DEF ProductStays, ProductsStay
    <3>. QED
      BY <2>2, <3>1, <3>2 DEF IInv, Audited, Fits
  <2>. QED
    BY <2>1, <2>3, <1>6 DEF Audited
<1>. QED
  BY <1>3, <1>4, <1>5, <1>7, <1>8, <1>12, <1>13

-----------------------------------------------------------------------------
(* Steps that leave the rows alone: look-ups, answers, the disk. *)

Reading == {"start", "name", "email", "write", "audit", "category", "brand", "rm", "file", "row"}

LEMMA ReadIsSafe ==
    ASSUME IInv, NEW r \in Requests, NEW to, pc[r] \in Reading,
           to \in (Reading \ {"audit"}) \cup Answers, pc[r] = "audit" => to \in Answers,
           Go(r, to), UNCHANGED <<tables, call, who, label, product>>,
           audit' = audit \/ (pc[r] = "audit" /\ to = "ok" /\ audit' = audit \cup {r}),
           files' \subseteq Files,
           got' \in [Requests -> {NoRow, Unset} \cup BOOLEAN \cup Files],
           FlowOf(r)', FoundBy(r)'
    PROVE  IInv'
<1>1. UNCHANGED <<company, user, pending, label, product, call, who>>
  BY DEF tables
<1>2. pending[r] = {} /\ pending \in [Requests -> SUBSET Requests]
  BY DEF IInv, Types, Pending, Reading
<1>3. Turn(r, to)
  BY <1>1, <1>2 DEF Turn, Go, Reading, Answers, Statements
<1>4. Rows'
  BY <1>1 DEF IInv, Types, CatalogueTypeOK, Rows
<1>5. AccountsStay(r, to) /\ LabelsStay(r, to) /\ ProductsStay(r, to)
  BY <1>1 DEF AccountsStay, LabelsStay, ProductsStay, Committed, Exists, Uncommitted
<1>6. Fits(r, to)
  BY <1>1 DEF Fits, Reading, Answers
<1>7. Types' /\ Flow' /\ Pending' /\ WhoFits' /\ CreatedOnce' /\ Found' /\ Audited'
  BY <1>1, <1>3, <1>4, <1>5, <1>6, TurnIsSafe DEF Reading
<1>8. IdentitiesDiffer' /\ ProductsInTheirCatalogue'
  BY <1>1 DEF IInv, IdentitiesDiffer, ProductsInTheirCatalogue, Exists
<1>9. CompaniesHaveUsers'
  BY <1>1 DEF IInv, CompaniesHaveUsers, Committed, Exists, Uncommitted
<1>. QED
  BY <1>7, <1>8, <1>9 DEF IInv

\* What the request was for stays what it was.
LEMMA TheCallStays ==
    ASSUME NEW r, UNCHANGED <<call, who>>
    PROVE  Op(r)' = Op(r) /\ Id(r)' = Id(r) /\ Body(r)' = Body(r) /\ Subject(r)' = Subject(r)
           /\ who'[r] = who[r]
BY DEF Op, Id, Body, Subject

\* The call of a request that is under way.
LEMMA ACall ==
    ASSUME IInv, NEW r \in Requests, pc[r] # "idle"
    PROVE  call[r] \in Calls /\ Op(r) = call[r].op /\ Id(r) = call[r].id /\ Body(r) = call[r].body
BY DEF IInv, Types, Op, Id, Body

LEMMA GoMoves ==
    ASSUME IInv, NEW r \in Requests, NEW to, Go(r, to)
    PROVE  pc'[r] = to /\ \A s \in Requests \ {r} : pc'[s] = pc[s]
BY DEF IInv, Types, CatalogueTypeOK, Go

LEMMA AnswersAreSafe ==
    ASSUME IInv, NEW r \in Requests, NEW to \in Answers, pc[r] \in Reading,
           Go(r, to), UNCHANGED <<tables, call, who, label, product>>,
           audit' = audit \/ (pc[r] = "audit" /\ to = "ok" /\ audit' = audit \cup {r}),
           files' \subseteq Files,
           got' \in [Requests -> {NoRow, Unset} \cup BOOLEAN \cup Files]
    PROVE  IInv'
<1>1. pc'[r] = to
  BY GoMoves
<1>2. FlowOf(r)' /\ FoundBy(r)'
  BY <1>1 DEF FlowOf, FoundBy, Answers
<1>. QED
  BY <1>2, ReadIsSafe

LEMMA CheckIsSafe ==
    ASSUME IInv, NEW r \in Requests, NEW holds, NEW next \in Reading \ {"audit"},
           pc[r] \in Reading \ {"audit"},
           Check(r, holds, next), UNCHANGED catalogue,
           holds /\ pc'[r] = next => FlowOf(r)' /\ FoundBy(r)'
    PROVE  IInv'
<1>1. /\ Go(r, IF holds THEN next ELSE "refused")
      /\ UNCHANGED <<tables, got, audit, call, who, label, product, files>>
  BY DEF Check, Keep, catalogue
<1>2. /\ files' \subseteq Files /\ got' \in [Requests -> {NoRow, Unset} \cup BOOLEAN \cup Files]
  BY <1>1 DEF IInv, Types, CatalogueTypeOK
<1>3. CASE ~holds
  BY <1>1, <1>2, <1>3, AnswersAreSafe DEF Answers
<1>4. CASE holds
  <2>1. Go(r, next)
    BY <1>1, <1>4
  <2>. QED
    BY <1>1, <1>2, <1>4, <2>1, GoMoves, ReadIsSafe
<1>. QED
  BY <1>3, <1>4

LEMMA FindIsSafe ==
    ASSUME IInv, NEW r \in Requests, NEW found, NEW read, NEW next,
           pc[r] \in Reading \ {"audit"},
           Find(r, found, read, next), UNCHANGED catalogue,
           found => /\ next \in Reading \ {"audit"}
                    /\ read \in {NoRow, Unset} \cup BOOLEAN \cup Files
                    /\ pc'[r] = next => FlowOf(r)' /\ FoundBy(r)'
    PROVE  IInv'
<1>1. /\ Go(r, IF found THEN next ELSE "refused")
      /\ UNCHANGED <<tables, audit, call, who, label, product, files>>
      /\ got' = [got EXCEPT ![r] = IF found THEN read ELSE @]
  BY DEF Find, Keep, catalogue
<1>2. files' \subseteq Files /\ got \in [Requests -> {NoRow, Unset} \cup BOOLEAN \cup Files]
  BY <1>1 DEF IInv, Types, CatalogueTypeOK
<1>3. got' \in [Requests -> {NoRow, Unset} \cup BOOLEAN \cup Files]
  BY <1>1, <1>2
<1>4. CASE ~found
  BY <1>1, <1>2, <1>3, <1>4, AnswersAreSafe DEF Answers
<1>5. CASE found
  <2>1. Go(r, next)
    BY <1>1, <1>5
  <2>. QED
    BY <1>1, <1>2, <1>3, <1>5, <2>1, GoMoves, ReadIsSafe
<1>. QED
  BY <1>4, <1>5

\* A request that has been let in works for a company.
LEMMA ForACompany ==
    ASSUME IInv, NEW r \in Requests, pc[r] \notin {"idle", "admit"} \cup Answers
    PROVE  /\ who[r] # NoOne /\ who[r] \in WhoRows
           /\ who[r].company \in CompanyIds \cup {NoCompany}
           /\ Op(r) \notin CompanyOps => who[r].company \in CompanyIds
<1>1. who[r] # NoOne /\ who[r] \in WhoRows
  BY DEF IInv, WhoFits, Types, Answers
<1>. QED
  BY <1>1 DEF IInv, WhoFits, WhoRows

LEMMA LookUpsAreSafe ==
    ASSUME IInv, NEW r \in Requests, UNCHANGED catalogue,
           \/ FindByEmail(r) \/ FindUser(r) \/ FindCompanyNamed(r) \/ FindAdminEmail(r)
           \/ FindCompany(r) \/ FindNameConflict(r)
    PROVE  IInv'
<1>0. UNCHANGED <<tables, call, who>>
  BY DEF FindByEmail, FindUser, FindCompanyNamed, FindAdminEmail, FindCompany, FindNameConflict,
         Check, Find, Keep
<1>1. /\ Op(r)' = Op(r) /\ Id(r)' = Id(r) /\ Body(r)' = Body(r) /\ who'[r] = who[r]
      /\ UNCHANGED <<company, user, pending>>
  BY <1>0, TheCallStays DEF tables
<1>2. CASE FindByEmail(r)
  <2>1. pc'[r] = "write" => FlowOf(r)' /\ FoundBy(r)'
    BY <1>1, <1>2 DEF FindByEmail, At, FlowOf, FoundBy
  <2>. QED
    BY <1>2, <2>1, CheckIsSafe DEF FindByEmail, At, Reading
<1>3. CASE FindCompanyNamed(r)
  <2>1. pc'[r] = "email" => FlowOf(r)' /\ FoundBy(r)'
    BY <1>1, <1>3 DEF FindCompanyNamed, At, FlowOf, FoundBy
  <2>. QED
    BY <1>3, <2>1, CheckIsSafe DEF FindCompanyNamed, At, Reading
<1>4. CASE FindAdminEmail(r)
  <2>1. pc'[r] = "write" => FlowOf(r)' /\ FoundBy(r)'
    BY <1>1, <1>4 DEF FindAdminEmail, At, FlowOf, FoundBy
  <2>. QED
    BY <1>4, <2>1, CheckIsSafe DEF FindAdminEmail, At, Reading
<1>5. CASE FindNameConflict(r)
  <2>1. Committed(company, Id(r))
    BY <1>5, ACall DEF FindNameConflict, At, IInv, Found, FoundBy
  <2>2. pc'[r] = "write" => FlowOf(r)' /\ FoundBy(r)'
    BY <1>1, <1>5, <2>1 DEF FindNameConflict, At, FlowOf, FoundBy, Committed, Exists, Uncommitted
  <2>. QED
    BY <1>5, <2>2, CheckIsSafe DEF FindNameConflict, At, Reading
<1>6. CASE FindUser(r)
  <2>1. Id(r) \in UserIds
    BY <1>6, ACall, CallShapes DEF FindUser, At
  <2>2. ASSUME OwnUser(r) PROVE user[Id(r)].active \in BOOLEAN
    BY <2>1, <2>2 DEF OwnUser, Committed, Exists, IInv, Types, CatalogueTypeOK, UserRows
  <2>3. OwnUser(r) /\ pc'[r] = "write" => FlowOf(r)' /\ FoundBy(r)'
    BY <1>1, <1>6, <2>1
       DEF FindUser, At, FlowOf, FoundBy, OwnUser, UserStays, Committed, Exists, Uncommitted
  <2>. QED
    BY <1>6, <2>2, <2>3, FindIsSafe DEF FindUser, At, Reading
<1>7. CASE FindCompany(r)
  <2>1. Id(r) \in CompanyIds
    BY <1>7, ACall, CallShapes DEF FindCompany, At
  <2>2. ASSUME Committed(company, Id(r)) PROVE company[Id(r)].active \in BOOLEAN
    BY <2>1, <2>2 DEF Committed, Exists, IInv, Types, CatalogueTypeOK, CompanyRows
  <2>3. Committed(company, Id(r)) /\ (pc'[r] = "write" \/ (pc'[r] = "name" /\ Op(r) = "updateCompany"))
            => FlowOf(r)' /\ FoundBy(r)'
    BY <1>1, <1>7 DEF FindCompany, At, FlowOf, FoundBy, Committed, Exists, Uncommitted
  <2>. DEFINE next == IF Op(r) = "updateCompany" /\ Body(r).name # Unset THEN "name" ELSE "write"
  <2>4. next = "write" \/ (next = "name" /\ Op(r) = "updateCompany")
    OBVIOUS
  <2>6. next \in Reading \ {"audit"}
    BY <2>4 DEF Reading
  <2>5. /\ Find(r, Committed(company, Id(r)), company[Id(r)].active, next)
        /\ pc[r] \in Reading \ {"audit"}
    BY <1>7 DEF FindCompany, At, Reading
  <2>. HIDE DEF next
  <2>. QED
    BY <2>2, <2>3, <2>4, <2>5, <2>6, FindIsSafe
<1>. QED
  BY <1>2, <1>3, <1>4, <1>5, <1>6, <1>7

\* A label that is the company's fits from then on.
LEMMA OwnLabelFits ==
    ASSUME IInv, NEW r \in Requests, NEW to, Go(r, to), pc[r] \notin Answers,
           NEW i \in LabelIds, NEW kind, OwnLabel(r, i, kind), UNCHANGED <<label, call, who>>
    PROVE  LabelFits(r, i, kind)'
<1>1. label[i] # NoRow /\ label[i].kind = kind /\ label[i].company = who[r].company
  BY DEF OwnLabel, Exists
<1>2. i \in Requests => pc[i] = "ok"
  BY <1>1 DEF IInv, CreatedOnce
<1>3. i \in Requests => pc'[i] = "ok"
  BY <1>2, GoMoves DEF Answers
<1>. QED
  BY <1>1, <1>3 DEF LabelFits, Answers

LEMMA CatalogueLookUpsAreSafe ==
    ASSUME IInv, NEW r \in Requests,
           FindLabel(r) \/ FindOne(r) \/ FindCategory(r) \/ FindBrand(r)
    PROVE  IInv'
<1>0. UNCHANGED <<tables, call, who, catalogue>>
  BY DEF FindLabel, FindOne, FindCategory, FindBrand, Check, Find, Keep
<1>1. /\ Op(r)' = Op(r) /\ Id(r)' = Id(r) /\ Body(r)' = Body(r) /\ who'[r] = who[r]
      /\ UNCHANGED <<label, product, files, call, who>>
  BY <1>0, TheCallStays DEF catalogue
<1>2. CASE FindLabel(r)
  <2>1. Id(r) \in LabelIds
    BY <1>2, ACall, CallShapes DEF FindLabel, At
  <2>2. Go(r, IF OwnLabel(r, Id(r), Body(r).kind) THEN "write" ELSE "refused") /\ pc[r] \notin Answers
    BY <1>2 DEF FindLabel, Check, At, Answers
  <2>3. OwnLabel(r, Id(r), Body(r).kind) => LabelFits(r, Id(r), Body(r).kind)'
    BY <1>1, <2>1, <2>2, OwnLabelFits
  <2>5. OwnLabel(r, Id(r), Body(r).kind) /\ pc'[r] = "write" => FlowOf(r)' /\ FoundBy(r)'
    BY <1>1, <1>2, <2>3 DEF FindLabel, At, FlowOf, FoundBy
  <2>. QED
    BY <1>0, <1>2, <2>5, CheckIsSafe DEF FindLabel, At, Reading
<1>3. CASE FindOne(r)
  <2>. DEFINE found == Body(r) # [file |-> "other"] /\ OwnProduct(r)
  <2>1. /\ pc[r] = "start" /\ Op(r) \in ProductOps \ {"createProduct"} /\ Id(r) \in ProductIds
        /\ Find(r, found, product[Id(r)].image, IF found THEN AfterFindOne(r) ELSE "refused")
    BY <1>3, ACall, CallShapes DEF FindOne, At, ProductOps
  <2>2. ASSUME found
        PROVE  /\ product[Id(r)].image \in {NoRow, Unset} \cup BOOLEAN \cup Files
               /\ ProductStays(r, Id(r))
    BY <2>1, <2>2 DEF OwnProduct, Exists, IInv, Types, CatalogueTypeOK, ProductRows, ProductStays
  <2>3. ASSUME found, pc'[r] = AfterFindOne(r) PROVE FlowOf(r)' /\ FoundBy(r)'
    <3>1. ProductStays(r, Id(r))'
      BY <1>1, <2>2, <2>3 DEF ProductStays
    <3>2. CASE Op(r) = "updateProduct"
      BY <1>1, <2>3, <3>1, <3>2 DEF FlowOf, FoundBy, AfterFindOne, AfterCategory, Fitting
    <3>3. CASE Op(r) = "removeProduct"
      BY <1>1, <2>3, <3>1, <3>3 DEF FlowOf, FoundBy, AfterFindOne
    <3>4. CASE Op(r) = "uploadImage"
      BY <1>1, <2>3, <3>1, <3>4 DEF FlowOf, FoundBy, AfterFindOne
    <3>. QED
      BY <2>1, <3>2, <3>3, <3>4 DEF ProductOps
  <2>4. AfterFindOne(r) \in Reading \ {"audit"}
    BY <2>1 DEF AfterFindOne, AfterCategory, Reading, ProductOps
  <2>5. pc[r] \in Reading \ {"audit"}
    BY <2>1 DEF Reading
  <2>. HIDE DEF found
  <2>. QED
    BY <1>0, <2>1, <2>2, <2>3, <2>4, <2>5, FindIsSafe
<1>4. CASE FindCategory(r)
  <2>. DEFINE own == OwnLabel(r, Body(r).category, "category")
  <2>1. /\ Check(r, own, AfterCategory(r))
        /\ \/ pc[r] = "start" /\ Op(r) = "createProduct"
           \/ pc[r] = "category" /\ Op(r) = "updateProduct"
    BY <1>4 DEF FindCategory, At
  <2>2. Body(r).category # Unset => Body(r).category \in LabelIds
    BY <2>1, ACall, CallShapes
  <2>3. Go(r, IF own THEN AfterCategory(r) ELSE "refused") /\ pc[r] \notin Answers
    BY <2>1 DEF Check, Answers
  <2>4. ASSUME own, Body(r).category # Unset PROVE LabelFits(r, Body(r).category, "category")'
    BY <1>1, <2>2, <2>3, <2>4, OwnLabelFits
  <2>5. own => Fitting(r, "category", "category")'
    BY <1>1, <2>4 DEF Fitting, LabelFits
  <2>6. Op(r) = "updateProduct" => ProductStays(r, Id(r))'
    BY <1>1, <2>1 DEF IInv, Found, FoundBy, ProductStays
  <2>7. ASSUME own, pc'[r] = AfterCategory(r) PROVE FlowOf(r)' /\ FoundBy(r)'
    BY <1>1, <2>1, <2>5, <2>6, <2>7 DEF FlowOf, FoundBy, AfterCategory, Fitting
  <2>8. AfterCategory(r) \in Reading \ {"audit"} /\ pc[r] \in Reading \ {"audit"}
    BY <2>1 DEF AfterCategory, Reading
  <2>. HIDE DEF own
  <2>. QED
    BY <1>0, <2>1, <2>7, <2>8, CheckIsSafe
<1>5. CASE FindBrand(r)
  <2>. DEFINE own == OwnLabel(r, Body(r).brand, "brand")
  <2>1. /\ Check(r, own, "write")
        /\ pc[r] = "brand" /\ Op(r) \in {"createProduct", "updateProduct"}
    BY <1>5 DEF FindBrand, At
  <2>2. Body(r).brand # Unset => Body(r).brand \in LabelIds
    BY <2>1, ACall, CallShapes
  <2>3. Go(r, IF own THEN "write" ELSE "refused") /\ pc[r] \notin Answers
    BY <2>1 DEF Check, Answers
  <2>4. ASSUME own, Body(r).brand # Unset PROVE LabelFits(r, Body(r).brand, "brand")'
    BY <1>1, <2>2, <2>3, <2>4, OwnLabelFits
  <2>5. own => Fitting(r, "brand", "brand")'
    BY <1>1, <2>4 DEF Fitting, LabelFits
  <2>6. Fitting(r, "category", "category") /\ (Op(r) = "updateProduct" => ProductStays(r, Id(r)))
    BY <2>1 DEF IInv, Found, FoundBy
  <2>7. /\ Fitting(r, "category", "category")'
        /\ Op(r) = "updateProduct" => ProductStays(r, Id(r))'
    <3>1. \A s \in Requests : pc[s] \in Answers => pc'[s] \in Answers
      BY <2>3, GoMoves
    <3>. QED
      BY <1>1, <2>6, <3>1 DEF Fitting, LabelFits, ProductStays
  <2>8. ASSUME own, pc'[r] = "write" PROVE FlowOf(r)' /\ FoundBy(r)'
    BY <1>1, <2>1, <2>5, <2>7, <2>8 DEF FlowOf, FoundBy
  <2>9. "write" \in Reading \ {"audit"} /\ pc[r] \in Reading \ {"audit"}
    BY <2>1 DEF Reading
  <2>. HIDE DEF own
  <2>. QED
    BY <1>0, <2>1, <2>8, <2>9, CheckIsSafe
<1>. QED
  BY <1>2, <1>3, <1>4, <1>5

LEMMA TheRestIsSafe ==
    ASSUME IInv, NEW r \in Requests,
           \/ (Log(r) \/ LogFails(r)) /\ UNCHANGED catalogue
           \/ RemovePrevious(r) \/ WriteFile(r)
    PROVE  IInv'
<1>1. UNCHANGED <<tables, call, who, label, product, got>>
  BY DEF Log, LogFails, RemovePrevious, WriteFile, OnDisk, Keep, catalogue
<1>2. got' \in [Requests -> {NoRow, Unset} \cup BOOLEAN \cup Files]
  BY <1>1 DEF IInv, Types
<1>3. /\ Op(r)' = Op(r) /\ Id(r)' = Id(r) /\ Body(r)' = Body(r) /\ who'[r] = who[r]
      /\ UNCHANGED <<label, product, call, who>>
  BY <1>1, TheCallStays
<1>4. CASE (Log(r) \/ LogFails(r)) /\ UNCHANGED catalogue
  <2>1. /\ pc[r] = "audit" /\ Go(r, "ok") /\ (audit' = audit \cup {r} \/ audit' = audit)
        /\ files' = files
    BY <1>4 DEF Log, LogFails, Keep, catalogue
  <2>2. files' \subseteq Files /\ pc[r] \in Reading /\ "ok" \in Answers
    BY <2>1 DEF IInv, Types, CatalogueTypeOK, Reading, Answers
  <2>. QED
    BY <1>1, <1>2, <2>1, <2>2, AnswersAreSafe
<1>5. CASE RemovePrevious(r) \/ WriteFile(r)
  <2>1. /\ pc[r] \in {"rm", "file"} /\ Op(r) = "uploadImage" /\ audit' = audit
        /\ Go(r, "file") \/ Go(r, "row")
        /\ files' \subseteq files \cup {r}
    BY <1>5 DEF RemovePrevious, WriteFile, OnDisk, At, Keep
  <2>2. files' \subseteq Files
    BY <2>1, Markers DEF IInv, Types, CatalogueTypeOK
  <2>3. ProductStays(r, Id(r))'
    BY <1>3, <2>1 DEF IInv, Found, FoundBy, ProductStays
  <2>4. pc'[r] \in {"file", "row"}
    BY <2>1, GoMoves
  <2>5. FlowOf(r)' /\ FoundBy(r)'
    BY <1>3, <2>1, <2>3, <2>4 DEF FlowOf, FoundBy
  <2>. QED
    BY <1>1, <1>2, <2>1, <2>2, <2>5, ReadIsSafe DEF Reading
<1>. QED
  BY <1>4, <1>5

-----------------------------------------------------------------------------
(* A request arrives and is let in. *)

LEMMA EntryIsSafe ==
    ASSUME IInv, NEW r \in Requests, NEW to, Go(r, to),
           UNCHANGED <<tables, audit, got, catalogue>>,
           call' \in [Requests -> Calls \cup {NoCall}], call'[r] \in Calls,
           who' \in [Requests -> WhoRows \cup {NoOne}],
           \A s \in Requests \ {r} : call'[s] = call[s] /\ who'[s] = who[s],
           pc[r] \in {"idle", "admit"}, to \in {"admit", "start", "refused"},
           who'[r] = NoOne => to \in {"admit", "refused"},
           to = "admit" => who'[r] = NoOne,
           who'[r] # NoOne =>
             /\ who'[r].company # NoCompany => Committed(company, who'[r].company)
             /\ call'[r].op \in CompanyOps => who'[r].role = "SUPERADMIN"
             /\ call'[r].op \notin CompanyOps => who'[r].company # NoCompany
    PROVE  IInv'
<1>1. UNCHANGED <<company, user, pending, label, product, files, audit, got>>
  BY DEF tables, catalogue
<1>2. /\ pc'[r] = to /\ \A s \in Requests \ {r} : pc'[s] = pc[s]
      /\ pc' = [pc EXCEPT ![r] = to] /\ pc \in [Requests -> Statements]
  BY GoMoves DEF IInv, Types, CatalogueTypeOK, Go
<1>3. Types'
  <2>1. pc' \in [Requests -> Statements]
    BY <1>2 DEF Statements, Answers
  <2>2. CatalogueTypeOK'
    BY <1>1, <2>1 DEF IInv, Types, CatalogueTypeOK
  <2>3. \A s \in Requests : pc'[s] # "idle" => call'[s] \in Calls
    BY <1>2 DEF IInv, Types
  <2>. QED
    BY <1>1, <2>2, <2>3 DEF IInv, Types
<1>4. \A s \in Requests \ {r} : /\ Op(s)' = Op(s) /\ Id(s)' = Id(s) /\ Body(s)' = Body(s)
                                /\ Subject(s)' = Subject(s) /\ who'[s] = who[s] /\ pc'[s] = pc[s]
  BY <1>2 DEF Op, Id, Body, Subject
<1>5. Flow'
  BY <1>2, <1>4 DEF IInv, Flow, FlowOf
<1>6. Pending'
  BY <1>1, <1>2 DEF IInv, Pending, Exists
<1>7. WhoFits'
  BY <1>1, <1>2, <1>4 DEF IInv, WhoFits, Op, Committed, Exists, Uncommitted
<1>8. CreatedOnce'
  BY <1>1, <1>2 DEF IInv, CreatedOnce, Answers
<1>9. Found'
  <2>. SUFFICES ASSUME NEW s \in Requests PROVE FoundBy(s)'
    BY DEF Found
  <2>1. CASE s = r
    BY <1>2, <2>1 DEF FoundBy
  <2>2. CASE s # r
    <3>1. FoundBy(s)
      BY DEF IInv, Found
    <3>2. \A i \in Requests : pc[i] \in Answers => pc'[i] \in Answers
      BY <1>2 DEF Answers
    <3>3. /\ UserStays(s, Id(s)) => UserStays(s, Id(s))'
          /\ Committed(company, Id(s)) => Committed(company, Id(s))'
          /\ ProductStays(s, Id(s)) => ProductStays(s, Id(s))'
      BY <1>1, <1>4, <2>2 DEF UserStays, ProductStays, Committed, Exists, Uncommitted
    <3>4. /\ LabelFits(s, Id(s), Body(s).kind) => LabelFits(s, Id(s), Body(s).kind)'
          /\ Fitting(s, "category", "category") => Fitting(s, "category", "category")'
          /\ Fitting(s, "brand", "brand") => Fitting(s, "brand", "brand")'
      BY <1>1, <1>4, <2>2, <3>2 DEF LabelFits, Fitting
    <3>. QED
      BY <1>4, <2>2, <3>1, <3>3, <3>4 DEF FoundBy
  <2>. QED
    BY <2>1, <2>2
<1>10. Audited'
  <2>1. r \notin audit /\ pc'[r] # "audit"
    BY <1>2 DEF IInv, Audited, Answers
  <2>2. \A s \in Requests \ {r} :
            /\ UserStays(s, Subject(s)) => UserStays(s, Subject(s))'
            /\ ProductStays(s, Subject(s)) => ProductStays(s, Subject(s))'
    BY <1>1, <1>4 DEF UserStays, ProductStays, Committed, Exists, Uncommitted
  <2>3. \A s \in audit' : pc'[s] \in Answers
    BY <1>1, <1>2, <2>1 DEF IInv, Audited, Types, CatalogueTypeOK
  <2>4. \A s \in Requests : s \in audit' \/ pc'[s] = "audit" =>
            s # r /\ (s \in audit \/ pc[s] = "audit")
    BY <1>1, <1>2, <2>1
  <2>. QED
    BY <1>4, <2>2, <2>3, <2>4 DEF IInv, Audited
<1>11. IdentitiesDiffer' /\ ProductsInTheirCatalogue'
  BY <1>1 DEF IInv, IdentitiesDiffer, ProductsInTheirCatalogue, Exists
<1>12. CompaniesHaveUsers'
  BY <1>1 DEF IInv, CompaniesHaveUsers, Committed, Exists, Uncommitted
<1>. QED
  BY <1>3, <1>5, <1>6, <1>7, <1>8, <1>9, <1>10, <1>11, <1>12 DEF IInv

LEMMA ArriveIsSafe ==
    ASSUME IInv, NEW r \in Requests, Arrive(r), UNCHANGED catalogue
    PROVE  IInv'
<1>1. PICK c \in Calls : call' = [call EXCEPT ![r] = c]
  BY DEF Arrive
<1>2. /\ pc[r] = "idle" /\ Go(r, "admit") /\ UNCHANGED <<tables, audit, who, got>>
  BY DEF Arrive
<1>3. /\ call' \in [Requests -> Calls \cup {NoCall}] /\ call'[r] \in Calls
      /\ who' \in [Requests -> WhoRows \cup {NoOne}] /\ who'[r] = NoOne
      /\ \A s \in Requests \ {r} : call'[s] = call[s] /\ who'[s] = who[s]
  BY <1>1, <1>2 DEF IInv, Types, WhoFits
<1>. QED
  BY <1>2, <1>3, EntryIsSafe

LEMMA CallersAreUsers ==
    ASSUME NEW c \in Calls PROVE c.by \in UserIds
<1>1. c \in AccountCalls \/ c \in CatalogueCalls
  BY CallsAreCalls
<1>2. CASE c \in AccountCalls
  BY <1>2 DEF AccountCalls
<1>3. CASE c \in CatalogueCalls
  BY <1>3 DEF CatalogueCalls
<1>. QED
  BY <1>1, <1>2, <1>3

LEMMA AdmitIsSafe ==
    ASSUME IInv, NEW r \in Requests, NEW ops, NEW roles, Admit(r, ops, roles), UNCHANGED catalogue,
           Op(r) \in CompanyOps => roles = {"SUPERADMIN"}
    PROVE  IInv'
<1>. DEFINE u == user[call[r].by]
            fits == /\ Committed(user, call[r].by) /\ u.active
                    /\ MayAs(u.role, roles)
                    /\ Op(r) \in CompanyOps \/ u.company # NoCompany
<1>1. /\ pc[r] = "admit" /\ Op(r) \in ops
      /\ Go(r, IF fits THEN "start" ELSE "refused")
      /\ who' = [who EXCEPT ![r] = IF fits THEN [role |-> u.role, company |-> u.company] ELSE @]
      /\ UNCHANGED <<tables, audit, call, got>>
  BY DEF Admit, At
<1>2. call[r] \in Calls /\ call[r].by \in UserIds /\ Op(r) = call[r].op
  BY <1>1, ACall, CallersAreUsers
<1>3. who[r] = NoOne /\ who \in [Requests -> WhoRows \cup {NoOne}]
  BY <1>1 DEF IInv, Types, WhoFits
<1>4. CASE fits
  <2>1. /\ u \in UserRows /\ Committed(user, call[r].by)
        /\ u.role \in Roles /\ u.company \in CompanyIds \cup {NoCompany}
    BY <1>2, <1>4 DEF Committed, Exists, IInv, Types, CatalogueTypeOK, UserRows
  <2>2. [role |-> u.role, company |-> u.company] \in WhoRows
    BY <2>1 DEF WhoRows
  <2>3. u.company # NoCompany => Committed(company, u.company)
    BY <1>2, <2>1 DEF IInv, CompaniesHaveUsers
  <2>4. Op(r) \in CompanyOps => u.role = "SUPERADMIN"
    BY <1>4 DEF MayAs
  <2>5. /\ who'[r] = [role |-> u.role, company |-> u.company]
        /\ who' \in [Requests -> WhoRows \cup {NoOne}] /\ who'[r] # NoOne
        /\ \A s \in Requests \ {r} : who'[s] = who[s]
    BY <1>1, <1>3, <1>4, <2>2, Markers
  <2>6. who'[r].role = u.role /\ who'[r].company = u.company
    BY <2>5
  <2>7. Op(r) \in CompanyOps \/ u.company # NoCompany
    BY <1>4
  <2>8. Go(r, "start") /\ call' = call
    BY <1>1, <1>4
  <2>9. call' \in [Requests -> Calls \cup {NoCall}] /\ call'[r] \in Calls
    BY <1>2, <2>8 DEF IInv, Types
  <2>10. /\ who'[r].company # NoCompany => Committed(company, who'[r].company)
         /\ call'[r].op \in CompanyOps => who'[r].role = "SUPERADMIN"
         /\ call'[r].op \notin CompanyOps => who'[r].company # NoCompany
    BY <1>2, <2>3, <2>4, <2>6, <2>7, <2>8
  <2>. HIDE DEF u, fits
  <2>. QED
    BY <1>1, <2>5, <2>8, <2>9, <2>10, EntryIsSafe
<1>5. CASE ~fits
  <2>1. who' = who /\ Go(r, "refused") /\ call' = call
    BY <1>1, <1>3, <1>5
  <2>2. call' \in [Requests -> Calls \cup {NoCall}] /\ call'[r] \in Calls
    BY <1>2, <2>1 DEF IInv, Types
  <2>. HIDE DEF u, fits
  <2>. QED
    BY <1>1, <1>3, <2>1, <2>2, EntryIsSafe
<1>. QED
  BY <1>4, <1>5

-----------------------------------------------------------------------------
(* Writes of users. *)

LEMMA UserWriteIsSafe ==
    ASSUME IInv, NEW r \in Requests, NEW i, NEW new,
           pc[r] = "write", Op(r) \in UserOps, i \in UserIds, new \in UserRows,
           WriteUser(r, i, new, "audit"), UNCHANGED pending, UNCHANGED catalogue,
           Subject(r) = i, new.company = who[r].company,
           (i = r /\ ~Exists(user, r)) \/ UserStays(r, i)
    PROVE  IInv'
<1>. DEFINE alone == HasEmail(new.email) \subseteq {i}
<1>1. /\ Go(r, IF alone THEN "audit" ELSE "refused")
      /\ user' = IF alone THEN [user EXCEPT ![i] = new] ELSE user
      /\ UNCHANGED <<company, pending, got, audit, call, who, label, product, files>>
  BY DEF WriteUser, Write, Keep, catalogue
<1>2. /\ user \in [UserIds -> UserRows \cup {NoRow}] /\ pc \in [Requests -> Statements]
      /\ \A s \in Requests : pending[s] \subseteq {s} /\ pending \in [Requests -> SUBSET Requests]
      /\ files' \subseteq Files /\ got' \in [Requests -> {NoRow, Unset} \cup BOOLEAN \cup Files]
  BY <1>1 DEF IInv, Types, CatalogueTypeOK
<1>3. CASE ~alone
  <2>1. Go(r, "refused") /\ UNCHANGED tables
    BY <1>1, <1>3 DEF tables
  <2>. QED
    BY <1>1, <1>2, <2>1, AnswersAreSafe DEF Answers, Reading
<1>4. CASE alone
  <2>1. /\ user'[i] = new /\ \A j \in UserIds \ {i} : user'[j] = user[j]
        /\ user' \in [UserIds -> UserRows \cup {NoRow}] /\ new # NoRow /\ Go(r, "audit")
    BY <1>1, <1>2, <1>4, Markers
  <2>2. pc'[r] = "audit" /\ pending[r] = {} /\ \A s \in Requests : Uncommitted(s)' = Uncommitted(s)
    BY <1>1, <2>1, GoMoves DEF IInv, Pending, Uncommitted
  <2>3. ~Uncommitted(i)
    BY <1>2, <2>2, Markers DEF UserStays, Committed, Uncommitted
  <2>4. \A j : Uncommitted(j)' = Uncommitted(j)
    BY <1>1 DEF Uncommitted
  <2>5. \A j \in UserIds : Committed(user, j) =>
            Committed(user, j)' /\ user'[j].company = user[j].company
    BY <2>1, <2>3, <2>4 DEF Committed, Exists, UserStays
  <2>6. \A j \in CompanyIds : Committed(company, j)' = Committed(company, j)
    BY <1>1, <2>4 DEF Committed, Exists
  <2>7. AccountsStay(r, "audit")
    <3>1. \A s \in Requests \ {r} : Exists(user, s) => Exists(user, s)' /\ user'[s].company = user[s].company
      BY <2>1, Markers DEF Exists, UserStays
    <3>2. \A s \in Requests : Exists(user, s)' => Exists(user, s) \/ s = r
      BY <2>1, Markers DEF Exists, UserStays, Committed
    <3>3. \A s \in Requests : Exists(company, s)' = Exists(company, s)
      BY <1>1 DEF Exists
    <3>. QED
      BY <2>5, <2>6, <3>1, <3>2, <3>3 DEF AccountsStay
  <2>8. Turn(r, "audit")
    <3>1. Op(r)' = Op(r)
      BY <1>1, TheCallStays
    <3>2. FlowOf(r)'
      BY <2>2, <3>1 DEF FlowOf, UserOps
    <3>3. pending' = [pending EXCEPT ![r] = {}]
      BY <1>1, <1>2, <2>2
    <3>. QED
      BY <1>1, <2>1, <3>2, <3>3 DEF Turn, Go, Answers, Statements
  <2>9. Rows' /\ LabelsStay(r, "audit") /\ ProductsStay(r, "audit")
    BY <1>1, <1>2, <2>1 DEF IInv, Types, CatalogueTypeOK, Rows, LabelsStay, ProductsStay
  <2>10. Fits(r, "audit")
    <3>1. Op(r)' = Op(r) /\ Subject(r)' = i /\ who' = who
      BY <1>1, TheCallStays
    <3>2. UserStays(r, Subject(r))'
      BY <2>1, <2>3, <2>4, <3>1 DEF UserStays, Committed, Exists
    <3>3. FoundBy(r)'
      BY <2>2 DEF FoundBy
    <3>. QED
      BY <3>1, <3>2, <3>3 DEF Fits
  <2>11. Types' /\ Flow' /\ Pending' /\ WhoFits' /\ CreatedOnce' /\ Found' /\ Audited'
    BY <1>1, <2>7, <2>8, <2>9, <2>10, TurnIsSafe
  <2>12. IdentitiesDiffer'
    <3>1. \A j \in UserIds \ {i} : Exists(user, j) => user[j].email # new.email
      BY <1>4 DEF HasEmail
    <3>. QED
      BY <1>1, <2>1, <3>1 DEF IInv, IdentitiesDiffer, Exists
  <2>13. CompaniesHaveUsers'
    <3>1. ASSUME NEW c \in CompanyIds, Committed(company, c)'
          PROVE  \E u \in UserIds : Committed(user, u)' /\ user'[u].company = c
      BY <2>5, <2>6, <3>1 DEF IInv, CompaniesHaveUsers
    <3>2. new.company # NoCompany => Committed(company, new.company)
      BY ForACompany DEF IInv, WhoFits, Answers
    <3>3. ASSUME NEW u \in UserIds, NEW c, c = user'[u].company, Committed(user, u)', c # NoCompany
          PROVE  Committed(company, c)
      <4>1. CASE u = i
        BY <2>1, <3>2, <3>3, <4>1
      <4>2. CASE u # i
        BY <2>1, <2>4, <3>3, <4>2 DEF IInv, CompaniesHaveUsers, Committed, Exists
      <4>. QED
        BY <4>1, <4>2
    <3>4. \A u \in UserIds : Committed(user, u)' /\ user'[u].company # NoCompany =>
              Committed(company, user[u].company)'
      BY <1>1, <2>4, <3>3 DEF Committed, Exists
    <3>. QED
      BY <3>1, <3>4 DEF CompaniesHaveUsers
  <2>14. ProductsInTheirCatalogue'
    BY <1>1 DEF IInv, ProductsInTheirCatalogue, Exists
  <2>. QED
    BY <2>11, <2>12, <2>13, <2>14 DEF IInv
<1>. QED
  BY <1>3, <1>4

\* A row that is to be created is not there yet, and one that was found is.
LEMMA UsersAreSafe ==
    ASSUME IInv, NEW r \in Requests, UNCHANGED catalogue,
           InsertUser(r) \/ UpdateUser(r) \/ ToggleUser(r)
    PROVE  IInv'
<1>1. /\ pc[r] = "write" /\ Op(r) \in {"createUser", "updateUser", "toggleUser"}
      /\ Op(r) \in UserOps /\ Op(r) \notin CompanyOps /\ UNCHANGED pending
  BY DEF InsertUser, UpdateUser, ToggleUser, At, UserOps, CompanyOps
<1>2. /\ call[r] \in Calls /\ Op(r) = call[r].op /\ Id(r) = call[r].id /\ Body(r) = call[r].body
      /\ who[r].company \in CompanyIds
  BY <1>1, ACall, ForACompany DEF Answers
<1>3. CASE InsertUser(r)
  <2>. DEFINE new == [email |-> Body(r).email, role |-> Body(r).role,
                      company |-> who[r].company, active |-> TRUE]
  <2>1. Op(r) = "createUser" /\ WriteUser(r, r, new, "audit")
    BY <1>3 DEF InsertUser, At
  <2>2. Id(r) = Unset /\ Body(r).email \in Emails /\ Body(r).role \in Roles
    BY <1>2, <2>1, CallShapes DEF Assignable, Roles
  <2>3. new \in UserRows /\ new.company = who[r].company
    BY <1>2, <2>2 DEF UserRows
  <2>4. Subject(r) = r /\ r \in UserIds /\ ~Exists(user, r)
    BY <1>1, <2>2, Markers DEF Subject, Exists, IInv, CreatedOnce, Answers
  <2>. HIDE DEF new
  <2>. QED
    BY <1>1, <2>1, <2>3, <2>4, UserWriteIsSafe
<1>4. ASSUME Op(r) \in {"updateUser", "toggleUser"}
      PROVE  /\ UserStays(r, Id(r)) /\ Id(r) \in UserIds /\ Subject(r) = Id(r)
             /\ user[Id(r)] \in UserRows /\ user[Id(r)].company = who[r].company
  <2>1. UserStays(r, Id(r))
    BY <1>1, <1>4 DEF IInv, Found, FoundBy
  <2>. QED
    BY <2>1, Markers DEF UserStays, Committed, Exists, Subject, IInv, Types, CatalogueTypeOK
<1>5. CASE UpdateUser(r)
  <2>. DEFINE u == user[Id(r)]
              new == [u EXCEPT !.email = Given(Body(r).email, @), !.role = Given(Body(r).role, @)]
  <2>1. Op(r) = "updateUser" /\ WriteUser(r, Id(r), new, "audit")
    BY <1>5 DEF UpdateUser, At
  <2>2. Body(r).email \in Emails \cup {Unset} /\ Body(r).role \in Roles \cup {Unset}
    BY <1>2, <2>1, CallShapes DEF Assignable, Roles
  <2>3. Given(Body(r).email, u.email) \in Emails /\ Given(Body(r).role, u.role) \in Roles
    BY <1>4, <2>1, <2>2 DEF Given, UserRows
  <2>4. new \in UserRows /\ new.company = who[r].company
    BY <1>4, <2>1, <2>3 DEF UserRows
  <2>. HIDE DEF new
  <2>. QED
    BY <1>1, <1>4, <2>1, <2>4, UserWriteIsSafe
<1>6. CASE ToggleUser(r)
  <2>. DEFINE new == [user[Id(r)] EXCEPT !.active = ~got[r]]
  <2>1. Op(r) = "toggleUser" /\ WriteUser(r, Id(r), new, "audit")
    BY <1>6 DEF ToggleUser, At
  <2>2. (~got[r]) \in BOOLEAN
    OBVIOUS
  <2>3. new \in UserRows /\ new.company = who[r].company
    BY <1>4, <2>1, <2>2 DEF UserRows
  <2>. HIDE DEF new
  <2>. QED
    BY <1>1, <1>4, <2>1, <2>3, UserWriteIsSafe
<1>. QED
  BY <1>3, <1>5, <1>6

-----------------------------------------------------------------------------
(* Writes of companies, and the transaction that creates one. *)

\* What the connection leaves behind when it is lost.
LEMMA RollBackIsSafe ==
    ASSUME IInv, NEW r \in Requests, pc[r] \notin Answers \cup {"idle"}, Go(r, "refused"),
           RollBack(r), UNCHANGED <<got, audit, call, who>>, UNCHANGED catalogue
    PROVE  IInv'
<1>1. /\ UNCHANGED <<got, audit, call, who, label, product, files>>
      /\ company' = [company EXCEPT ![r] = IF r \in pending[r] THEN NoRow ELSE @]
      /\ user' = [user EXCEPT ![r] = IF r \in pending[r] THEN NoRow ELSE @]
      /\ pending' = [pending EXCEPT ![r] = {}]
  BY DEF RollBack, catalogue
<1>2. /\ user \in [UserIds -> UserRows \cup {NoRow}]
      /\ company \in [CompanyIds -> CompanyRows \cup {NoRow}]
      /\ pending \in [Requests -> SUBSET Requests] /\ \A s \in Requests : pending[s] \subseteq {s}
      /\ r \in UserIds /\ r \in CompanyIds
  BY Markers DEF IInv, Types, CatalogueTypeOK
<1>3. /\ \A i \in UserIds : user'[i] = user[i] \/ (i = r /\ Uncommitted(r) /\ user'[i] = NoRow)
      /\ \A i \in CompanyIds :
             company'[i] = company[i] \/ (i = r /\ Uncommitted(r) /\ company'[i] = NoRow)
      /\ user' \in [UserIds -> UserRows \cup {NoRow}]
      /\ company' \in [CompanyIds -> CompanyRows \cup {NoRow}]
  BY <1>1, <1>2 DEF Uncommitted
<1>4. \A i : /\ Uncommitted(i)' => Uncommitted(i)
             /\ Uncommitted(i) /\ ~Uncommitted(i)' => i = r /\ r \in pending[r]
  BY <1>1, <1>2 DEF Uncommitted
<1>5. r \in pending[r] => user'[r] = NoRow /\ company'[r] = NoRow
  BY <1>1, <1>2
<1>6. \A i \in UserIds : Committed(user, i)' <=> Committed(user, i) /\ user'[i] = user[i]
  BY <1>3, <1>4, <1>5 DEF Committed, Exists
<1>7. \A i \in CompanyIds : Committed(company, i)' <=> Committed(company, i) /\ company'[i] = company[i]
  BY <1>3, <1>4, <1>5 DEF Committed, Exists
<1>8. /\ \A i \in UserIds : Committed(user, i) => user'[i] = user[i]
      /\ \A i \in CompanyIds : Committed(company, i) => company'[i] = company[i]
  BY <1>3 DEF Committed
<1>9. Types' /\ Flow' /\ Pending' /\ WhoFits' /\ CreatedOnce' /\ Found' /\ Audited'
  <2>1. Turn(r, "refused")
    BY <1>1, GoMoves DEF Turn, Go, Answers, Statements, FlowOf
  <2>2. Rows' /\ LabelsStay(r, "refused") /\ ProductsStay(r, "refused")
    BY <1>1, <1>3 DEF IInv, Types, CatalogueTypeOK, Rows, LabelsStay, ProductsStay
  <2>3. AccountsStay(r, "refused")
    BY <1>3, <1>6, <1>7, <1>8, Markers DEF AccountsStay, Exists
  <2>4. Fits(r, "refused")
    BY GoMoves DEF Fits, FoundBy
  <2>. QED
    BY <1>1, <2>1, <2>2, <2>3, <2>4, TurnIsSafe
<1>10. IdentitiesDiffer'
  BY <1>3 DEF IInv, IdentitiesDiffer, Exists
<1>11. CompaniesHaveUsers'
  <2>1. \A c \in CompanyIds : Committed(company, c)' =>
            \E u \in UserIds : Committed(user, u)' /\ user'[u].company = c
    BY <1>6, <1>7, <1>8 DEF IInv, CompaniesHaveUsers
  <2>2. \A u \in UserIds : Committed(user, u)' /\ user'[u].company # NoCompany =>
            user[u].company \in CompanyIds /\ Committed(company, user[u].company)
    BY <1>2, <1>6 DEF IInv, CompaniesHaveUsers, UserRows, Committed, Exists
  <2>3. \A u \in UserIds, c \in CompanyIds :
            Committed(user, u)' /\ user'[u].company = c => Committed(company, c)'
    BY <1>6, <1>7, <1>8, <2>2, Markers
  <2>4. \A u \in UserIds : Committed(user, u)' => user'[u].company \in CompanyIds \cup {NoCompany}
    BY <1>2, <1>6 DEF UserRows, Committed, Exists
  <2>5. ASSUME NEW u \in UserIds, NEW c, c = user'[u].company, Committed(user, u)', c # NoCompany
        PROVE  Committed(company, c)'
    BY <2>3, <2>4, <2>5
  <2>6. \A u \in UserIds : Committed(user, u)' /\ user'[u].company # NoCompany =>
            Committed(company, user[u].company)'
    BY <2>5 DEF Committed, Exists, Uncommitted
  <2>. QED
    BY <2>1, <2>6 DEF CompaniesHaveUsers
<1>12. ProductsInTheirCatalogue'
  BY <1>1 DEF IInv, ProductsInTheirCatalogue, Exists
<1>. QED
  BY <1>9, <1>10, <1>11, <1>12 DEF IInv

LEMMA FailIsSafe ==
    ASSUME IInv, NEW r \in Requests, Fail(r), UNCHANGED catalogue PROVE IInv'
BY RollBackIsSafe DEF Fail, Keep

LEMMA InsertCompanyIsSafe ==
    ASSUME IInv, NEW r \in Requests, InsertCompany(r), UNCHANGED catalogue
    PROVE  IInv'
<1>. DEFINE new == [name |-> Body(r).name, slug |-> SlugOf[Body(r).name], active |-> TRUE]
            alone == HasSlug(new.slug) \subseteq {r}
<1>1. /\ pc[r] = "write" /\ Op(r) = "createCompany"
      /\ Go(r, IF alone THEN "admin" ELSE "refused")
      /\ company' = IF alone THEN [company EXCEPT ![r] = new] ELSE company
      /\ pending' = [pending EXCEPT ![r] = IF pc'[r] = "admin" THEN {r} ELSE {}]
      /\ UNCHANGED <<user, got, audit, call, who, label, product, files>>
  BY DEF InsertCompany, At, WriteCompany, Write, Keep, catalogue
<1>2. /\ company \in [CompanyIds -> CompanyRows \cup {NoRow}]
      /\ pending \in [Requests -> SUBSET Requests] /\ \A s \in Requests : pending[s] \subseteq {s}
      /\ files' \subseteq Files /\ got' \in [Requests -> {NoRow, Unset} \cup BOOLEAN \cup Files]
      /\ pending[r] = {} /\ user[r] = NoRow /\ company[r] = NoRow
  BY <1>1 DEF IInv, Types, CatalogueTypeOK, Pending, CreatedOnce, Answers
<1>3. new \in CompanyRows
  <2>1. Body(r).name \in Names
    BY <1>1, ACall, CallShapes
  <2>. QED
    BY <2>1, SlugsOfNames DEF CompanyRows
<1>4. CASE ~alone
  <2>1. Go(r, "refused") /\ pc'[r] = "refused"
    BY <1>1, <1>4, GoMoves
  <2>2. UNCHANGED <<tables, label, product, call, who>> /\ audit' = audit
    BY <1>1, <1>2, <1>4, <2>1 DEF tables
  <2>. QED
    BY <1>1, <1>2, <2>1, <2>2, AnswersAreSafe DEF Answers, Reading
<1>5. CASE alone
  <2>. HIDE DEF new
  <2>1. Go(r, "admin") /\ pc'[r] = "admin"
    BY <1>1, <1>5, GoMoves
  <2>2. /\ company'[r] = new /\ \A i \in CompanyIds \ {r} : company'[i] = company[i]
        /\ company' \in [CompanyIds -> CompanyRows \cup {NoRow}] /\ new # NoRow
        /\ pending' = [pending EXCEPT ![r] = {r}]
    BY <1>1, <1>2, <1>3, <1>5, <2>1, Markers
  <2>3. \A i : Uncommitted(i)' <=> Uncommitted(i) \/ i = r
    BY <1>2, <2>2 DEF Uncommitted
  <2>4. \A i \in UserIds : Committed(user, i)' <=> Committed(user, i)
    BY <1>1, <1>2, <2>3 DEF Committed, Exists
  <2>5. \A i \in CompanyIds : Committed(company, i)' <=> Committed(company, i)
    BY <1>2, <2>2, <2>3 DEF Committed, Exists
  <2>6. Types' /\ Flow' /\ Pending' /\ WhoFits' /\ CreatedOnce' /\ Found' /\ Audited'
    <3>1. Op(r)' = Op(r)
      BY <1>1, TheCallStays
    <3>2. Turn(r, "admin")
      BY <1>1, <2>1, <2>2, <3>1 DEF Turn, Go, Answers, Statements, FlowOf
    <3>3. Rows' /\ LabelsStay(r, "admin") /\ ProductsStay(r, "admin")
      BY <1>1, <1>2, <2>2 DEF IInv, Types, CatalogueTypeOK, Rows, LabelsStay, ProductsStay
    <3>4. AccountsStay(r, "admin")
      BY <1>1, <1>2, <2>2, <2>4, <2>5, Markers DEF AccountsStay, Exists
    <3>5. Fits(r, "admin")
      BY <1>1, <2>1, <2>2, <3>1 DEF Fits, FoundBy, Exists
    <3>. QED
      BY <1>1, <3>2, <3>3, <3>4, <3>5, TurnIsSafe
  <2>7. IdentitiesDiffer'
    <3>1. \A j \in CompanyIds \ {r} : Exists(company, j) => company[j].slug # new.slug
      BY <1>5 DEF HasSlug
    <3>. QED
      BY <1>1, <2>2, <3>1 DEF IInv, IdentitiesDiffer, Exists
  <2>8. CompaniesHaveUsers'
    <3>1. \A c \in CompanyIds : Committed(company, c)' =>
              \E u \in UserIds : Committed(user, u)' /\ user'[u].company = c
      BY <1>1, <2>4, <2>5 DEF IInv, CompaniesHaveUsers
    <3>2. ASSUME NEW u \in UserIds, NEW c, c = user[u].company, Committed(user, u)', c # NoCompany
          PROVE  Committed(company, c)'
      <4>1. c \in CompanyIds
        BY <2>4, <3>2 DEF IInv, Types, CatalogueTypeOK, UserRows, Committed, Exists
      <4>. QED
        BY <2>4, <2>5, <3>2, <4>1 DEF IInv, CompaniesHaveUsers
    <3>3. \A u \in UserIds : Committed(user, u)' /\ user'[u].company # NoCompany =>
              Committed(company, user[u].company)'
      BY <1>1, <3>2 DEF Committed, Exists, Uncommitted
    <3>. QED
      BY <3>1, <3>3 DEF CompaniesHaveUsers
  <2>9. ProductsInTheirCatalogue'
    BY <1>1 DEF IInv, ProductsInTheirCatalogue, Exists
  <2>. QED
    BY <2>6, <2>7, <2>8, <2>9 DEF IInv
<1>. QED
  BY <1>4, <1>5

LEMMA InsertAdminIsSafe ==
    ASSUME IInv, NEW r \in Requests, InsertAdmin(r), UNCHANGED catalogue
    PROVE  IInv'
<1>. DEFINE new == [email |-> Body(r).email, role |-> "ADMIN", company |-> r, active |-> TRUE]
            rivals == HasEmail(Body(r).email)
<1>1. /\ pc[r] = "admin" /\ Op(r) = "createCompany"
      /\ UNCHANGED <<got, audit, call, who, label, product, files>>
      /\ IF rivals = {} THEN /\ user' = [user EXCEPT ![r] = new] /\ Go(r, "commit")
                             /\ UNCHANGED <<company, pending>>
                        ELSE Go(r, "refused") /\ RollBack(r)
  BY DEF InsertAdmin, At, Keep, catalogue
<1>2. CASE rivals # {}
  BY <1>1, <1>2, RollBackIsSafe DEF Answers
<1>3. CASE rivals = {}
  <2>1. new \in UserRows
    BY <1>1, ACall, CallShapes, Markers DEF UserRows, Roles
  <2>2. /\ user \in [UserIds -> UserRows \cup {NoRow}] /\ pending[r] = {r} /\ Exists(company, r)
        /\ user[r] = NoRow
    BY <1>1 DEF IInv, Types, CatalogueTypeOK, Pending, CreatedOnce, Answers
  <2>. HIDE DEF new
  <2>3. /\ user'[r] = new /\ \A i \in UserIds \ {r} : user'[i] = user[i]
        /\ user' \in [UserIds -> UserRows \cup {NoRow}] /\ new # NoRow
        /\ pc'[r] = "commit" /\ UNCHANGED <<company, pending>> /\ Go(r, "commit")
    BY <1>1, <1>3, <2>1, <2>2, GoMoves, Markers
  <2>4. new.email = Body(r).email /\ new.company = r
    BY DEF new
  <2>5. Uncommitted(r) /\ \A i : Uncommitted(i)' <=> Uncommitted(i)
    BY <2>2, <2>3 DEF Uncommitted
  <2>6. /\ \A i \in UserIds : Committed(user, i)' <=> Committed(user, i)
        /\ \A i \in UserIds : Committed(user, i) => user'[i] = user[i]
        /\ \A i \in CompanyIds : Committed(company, i)' <=> Committed(company, i)
    BY <2>3, <2>5 DEF Committed, Exists
  <2>7. Types' /\ Flow' /\ Pending' /\ WhoFits' /\ CreatedOnce' /\ Found' /\ Audited'
    <3>1. Op(r)' = Op(r)
      BY <1>1, TheCallStays
    <3>2. pending' = [pending EXCEPT ![r] = {r}]
      BY <2>2, <2>3 DEF IInv, Types
    <3>3. Turn(r, "commit")
      BY <1>1, <2>3, <3>1, <3>2 DEF Turn, Go, Answers, Statements, FlowOf
    <3>4. Rows' /\ LabelsStay(r, "commit") /\ ProductsStay(r, "commit")
      BY <1>1, <2>3 DEF IInv, Types, CatalogueTypeOK, Rows, LabelsStay, ProductsStay
    <3>5. AccountsStay(r, "commit")
      BY <2>2, <2>3, <2>6, Markers DEF AccountsStay, Exists
    <3>6. Fits(r, "commit")
      BY <1>1, <2>2, <2>3, <2>4, <3>1 DEF Fits, FoundBy, Exists
    <3>. QED
      BY <1>1, <3>3, <3>4, <3>5, <3>6, TurnIsSafe
  <2>8. IdentitiesDiffer'
    <3>1. \A j \in UserIds : Exists(user, j) => user[j].email # new.email
      BY <1>3, <2>4 DEF HasEmail
    <3>. QED
      BY <2>3, <3>1 DEF IInv, IdentitiesDiffer, Exists
  <2>9. CompaniesHaveUsers'
    <3>1. \A c \in CompanyIds : Committed(company, c)' =>
              \E u \in UserIds : Committed(user, u)' /\ user'[u].company = c
      BY <2>6 DEF IInv, CompaniesHaveUsers
    <3>2. \A u \in UserIds : Committed(user, u)' /\ user'[u].company # NoCompany =>
              Committed(company, user[u].company)'
      BY <2>3, <2>5, <2>6 DEF IInv, CompaniesHaveUsers, Committed, Exists
    <3>. QED
      BY <3>1, <3>2 DEF CompaniesHaveUsers
  <2>10. ProductsInTheirCatalogue'
    BY <1>1 DEF IInv, ProductsInTheirCatalogue, Exists
  <2>. QED
    BY <2>7, <2>8, <2>9, <2>10 DEF IInv
<1>. QED
  BY <1>2, <1>3

LEMMA CommitIsSafe ==
    ASSUME IInv, NEW r \in Requests, Commit(r), UNCHANGED catalogue
    PROVE  IInv'
<1>1. /\ pc[r] = "commit" /\ Go(r, "ok") /\ pending' = [pending EXCEPT ![r] = {}]
      /\ UNCHANGED <<company, user, got, audit, call, who, label, product, files>>
  BY DEF Commit, At, Keep, catalogue
<1>2. /\ pending \in [Requests -> SUBSET Requests] /\ \A s \in Requests : pending[s] \subseteq {s}
      /\ Exists(company, r) /\ Exists(user, r) /\ user[r].company = r /\ pc'[r] = "ok"
  BY <1>1, GoMoves DEF IInv, Types, CatalogueTypeOK, Pending
<1>3. \A i : Uncommitted(i)' <=> Uncommitted(i) /\ i # r
  BY <1>1, <1>2 DEF Uncommitted
<1>4. /\ \A i \in UserIds : Committed(user, i)' <=> Committed(user, i) \/ i = r
      /\ \A i \in CompanyIds : Committed(company, i)' <=> Committed(company, i) \/ i = r
  BY <1>1, <1>2, <1>3 DEF Committed, Exists
<1>5. Types' /\ Flow' /\ Pending' /\ WhoFits' /\ CreatedOnce' /\ Found' /\ Audited'
  <2>1. Turn(r, "ok")
    BY <1>1, <1>2 DEF Turn, Go, Answers, Statements, FlowOf
  <2>2. Rows' /\ LabelsStay(r, "ok") /\ ProductsStay(r, "ok")
    BY <1>1 DEF IInv, Types, CatalogueTypeOK, Rows, LabelsStay, ProductsStay
  <2>3. AccountsStay(r, "ok")
    BY <1>1, <1>4 DEF AccountsStay, Exists
  <2>4. Fits(r, "ok")
    BY <1>2 DEF Fits, FoundBy
  <2>. QED
    BY <1>1, <2>1, <2>2, <2>3, <2>4, TurnIsSafe
<1>6. IdentitiesDiffer' /\ ProductsInTheirCatalogue'
  BY <1>1 DEF IInv, IdentitiesDiffer, ProductsInTheirCatalogue, Exists
<1>7. CompaniesHaveUsers'
  <2>1. \A c \in CompanyIds : Committed(company, c)' =>
            \E u \in UserIds : Committed(user, u)' /\ user'[u].company = c
    BY <1>1, <1>2, <1>4, Markers DEF IInv, CompaniesHaveUsers
  <2>2. \A u \in UserIds : Committed(user, u)' /\ user'[u].company # NoCompany =>
            Committed(company, user[u].company)'
    BY <1>1, <1>2, <1>3, <1>4, Markers DEF IInv, CompaniesHaveUsers, Committed, Exists
  <2>. QED
    BY <2>1, <2>2 DEF CompaniesHaveUsers
<1>. QED
  BY <1>5, <1>6, <1>7 DEF IInv

LEMMA CompaniesAreSafe ==
    ASSUME IInv, NEW r \in Requests, UpdateCompany(r) \/ ToggleStatus(r), UNCHANGED catalogue
    PROVE  IInv'
<1>. DEFINE i == Id(r)
<1>1. /\ pc[r] = "write" /\ Op(r) \in {"updateCompany", "toggleStatus"}
      /\ UNCHANGED <<user, pending, got, audit, call, who, label, product, files>>
  BY DEF UpdateCompany, ToggleStatus, At, WriteCompany, Keep, catalogue
<1>2. i \in CompanyIds /\ Committed(company, i)
  BY <1>1, ACall, CallShapes DEF IInv, Found, FoundBy
<1>3. company \in [CompanyIds -> CompanyRows \cup {NoRow}] /\ company[i] \in CompanyRows
  BY <1>2 DEF IInv, Types, CatalogueTypeOK, Committed, Exists
<1>4. \E new \in CompanyRows : /\ new.slug = company[i].slug
                               /\ Write(r, company, i, new, HasSlug(new.slug), "ok")
  <2>1. CASE UpdateCompany(r)
    <3>1. Body(r).name \in Names \cup {Unset} /\ Op(r) = "updateCompany"
      BY <2>1, ACall, CallShapes DEF UpdateCompany, At
    <3>2. Given(Body(r).name, company[i].name) \in Names
      BY <1>3, <3>1 DEF Given, CompanyRows
    <3>. DEFINE new == [company[Id(r)] EXCEPT !.name = Given(Body(r).name, @)]
    <3>3. new \in CompanyRows /\ new.slug = company[i].slug
      BY <1>3, <3>2 DEF CompanyRows
    <3>4. Write(r, company, i, new, HasSlug(new.slug), "ok")
      BY <2>1 DEF UpdateCompany, WriteCompany
    <3>. HIDE DEF new
    <3>. QED
      BY <3>3, <3>4
  <2>2. CASE ToggleStatus(r)
    <3>. DEFINE new == [company[Id(r)] EXCEPT !.active = ~got[r]]
    <3>1. (~got[r]) \in BOOLEAN
      OBVIOUS
    <3>3. new \in CompanyRows /\ new.slug = company[i].slug
      BY <1>3, <3>1 DEF CompanyRows
    <3>4. Write(r, company, i, new, HasSlug(new.slug), "ok")
      BY <2>2 DEF ToggleStatus, WriteCompany
    <3>. HIDE DEF new
    <3>. QED
      BY <3>3, <3>4
  <2>. QED
    BY <2>1, <2>2
<1>5. PICK new \in CompanyRows : /\ new.slug = company[i].slug
                                 /\ Write(r, company, i, new, HasSlug(new.slug), "ok")
  BY <1>4
<1>6. \E to \in Answers : Go(r, to)
  BY <1>5 DEF Write, Answers
<1>7. PICK to \in Answers : Go(r, to)
  BY <1>6
<1>8. /\ company' = company \/ company' = [company EXCEPT ![i] = new]
  BY <1>5 DEF Write
<1>. HIDE DEF i
<1>9. /\ company' \in [CompanyIds -> CompanyRows \cup {NoRow}]
      /\ \A j \in CompanyIds : (company'[j] = NoRow) <=> (company[j] = NoRow)
      /\ \A j \in CompanyIds : company[j] # NoRow => company'[j].slug = company[j].slug
  BY <1>2, <1>3, <1>5, <1>8, Markers DEF Committed, Exists
<1>10. /\ \A j : Uncommitted(j)' <=> Uncommitted(j)
       /\ \A j \in UserIds : Committed(user, j)' <=> Committed(user, j)
       /\ \A j \in CompanyIds : Committed(company, j)' <=> Committed(company, j)
  BY <1>1, <1>9 DEF Uncommitted, Committed, Exists
<1>11. Types' /\ Flow' /\ Pending' /\ WhoFits' /\ CreatedOnce' /\ Found' /\ Audited'
  <2>1. pending[r] = {} /\ pending \in [Requests -> SUBSET Requests] /\ pc'[r] = to
    BY <1>1, <1>7, GoMoves DEF IInv, Types, Pending
  <2>2. pending' = [pending EXCEPT ![r] = {}] /\ to \notin {"admin", "commit", "audit"}
    BY <1>1, <2>1 DEF Answers
  <2>3. Turn(r, to)
    BY <1>1, <1>7, <2>1, <2>2 DEF Turn, Go, Answers, Statements, FlowOf
  <2>4. Rows' /\ LabelsStay(r, to) /\ ProductsStay(r, to)
    BY <1>1, <1>9 DEF IInv, Types, CatalogueTypeOK, Rows, LabelsStay, ProductsStay
  <2>5. AccountsStay(r, to)
    BY <1>1, <1>9, <1>10, Markers DEF AccountsStay, Exists
  <2>6. Fits(r, to)
    BY <2>1, <2>2 DEF Fits, FoundBy, Answers
  <2>. QED
    BY <1>1, <2>3, <2>4, <2>5, <2>6, TurnIsSafe
<1>12. IdentitiesDiffer'
  BY <1>1, <1>9 DEF IInv, IdentitiesDiffer, Exists
<1>13. CompaniesHaveUsers'
  <2>1. \A c \in CompanyIds : Committed(company, c)' =>
            \E u \in UserIds : Committed(user, u)' /\ user'[u].company = c
    BY <1>1, <1>10 DEF IInv, CompaniesHaveUsers
  <2>2. ASSUME NEW u \in UserIds, NEW c, c = user[u].company, Committed(user, u)', c # NoCompany
        PROVE  Committed(company, c)'
    <3>1. c \in CompanyIds
      BY <1>10, <2>2 DEF IInv, Types, CatalogueTypeOK, UserRows, Committed, Exists
    <3>. QED
      BY <1>10, <2>2, <3>1 DEF IInv, CompaniesHaveUsers
  <2>3. \A u \in UserIds : Committed(user, u)' /\ user'[u].company # NoCompany =>
            Committed(company, user[u].company)'
    BY <1>1, <2>2 DEF Committed, Exists, Uncommitted
  <2>. QED
    BY <2>1, <2>3 DEF CompaniesHaveUsers
<1>14. ProductsInTheirCatalogue'
  BY <1>1 DEF IInv, ProductsInTheirCatalogue, Exists
<1>. QED
  BY <1>11, <1>12, <1>13, <1>14 DEF IInv

-----------------------------------------------------------------------------
(* Writes of labels and products. *)

LEMMA CatalogueWriteIsSafe ==
    ASSUME IInv, NEW r \in Requests, NEW to, pc[r] \in {"start", "write", "row"},
           to \in Answers \cup {"audit"}, Go(r, to), FlowOf(r)',
           UNCHANGED <<tables, call, who, got, audit, files>>,
           label' \in [LabelIds -> LabelRows \cup {NoRow}],
           product' \in [ProductIds -> ProductRows \cup {NoRow}],
           LabelsStay(r, to), ProductsStay(r, to), ProductsInTheirCatalogue',
           to = "audit" => Op(r) \notin UserOps /\ ProductStays(r, Subject(r))'
    PROVE  IInv'
<1>1. UNCHANGED <<company, user, pending, call, who, got, audit, files>>
  BY DEF tables
<1>2. /\ pending[r] = {} /\ pending \in [Requests -> SUBSET Requests] /\ pc'[r] = to
      /\ to \notin {"admin", "commit"}
  BY GoMoves DEF IInv, Types, Pending, Answers
<1>3. Turn(r, to)
  BY <1>1, <1>2 DEF Turn, Go, Answers, Statements
<1>4. Rows'
  BY <1>1 DEF IInv, Types, CatalogueTypeOK, Rows
<1>5. AccountsStay(r, to)
  BY <1>1 DEF AccountsStay, Committed, Exists, Uncommitted
<1>6. Fits(r, to)
  <2>1. FoundBy(r)'
    BY <1>2 DEF FoundBy, Answers
  <2>2. Op(r)' = Op(r)
    BY <1>1, TheCallStays
  <2>. QED
    BY <1>2, <2>1, <2>2 DEF Fits
<1>7. Types' /\ Flow' /\ Pending' /\ WhoFits' /\ CreatedOnce' /\ Found' /\ Audited'
  BY <1>1, <1>3, <1>4, <1>5, <1>6, TurnIsSafe
<1>8. IdentitiesDiffer' /\ CompaniesHaveUsers'
  BY <1>1 DEF IInv, IdentitiesDiffer, CompaniesHaveUsers, Committed, Exists, Uncommitted
<1>. QED
  BY <1>7, <1>8 DEF IInv

\* A write that the database refused.
LEMMA RefusalIsSafe ==
    ASSUME IInv, NEW r \in Requests, pc[r] \in Reading, Go(r, "refused"),
           UNCHANGED <<tables, got, audit, call, who, label, product, files>>
    PROVE  IInv'
<1>1. /\ files' \subseteq Files /\ got' \in [Requests -> {NoRow, Unset} \cup BOOLEAN \cup Files]
      /\ "refused" \in Answers
  BY DEF IInv, Types, CatalogueTypeOK, Answers
<1>. QED
  BY <1>1, AnswersAreSafe

LEMMA LabelWritesAreSafe ==
    ASSUME IInv, NEW r \in Requests,
           CreateLabel(r) \/ RenameLabel(r) \/ RemoveCategory(r) \/ RemoveBrand(r)
    PROVE  IInv'
<1>1. /\ pc[r] \in {"start", "write"} /\ pc[r] \in Reading
      /\ UNCHANGED <<tables, got, audit, call, who, files>>
      /\ Go(r, "ok") \/ (Go(r, "refused") /\ label' = label)
      /\ ~RemoveBrand(r) => product' = product
  BY DEF CreateLabel, RenameLabel, RemoveCategory, RemoveBrand, At, Put, Keep, Reading
<1>2. /\ label \in [LabelIds -> LabelRows \cup {NoRow}]
      /\ product \in [ProductIds -> ProductRows \cup {NoRow}]
      /\ ProductsInTheirCatalogue
  BY DEF IInv, Types, CatalogueTypeOK
<1>3. pc'[r] \in Answers => FlowOf(r)'
  BY DEF FlowOf, Answers
<1>4. CASE CreateLabel(r)
  <2>. DEFINE new == [kind |-> Body(r).kind, company |-> who[r].company, name |-> Body(r).name]
  <2>1. /\ pc[r] = "start" /\ Op(r) = "createLabel" /\ product' = product
        /\ \/ Go(r, "ok") /\ label' = [label EXCEPT ![r] = new]
           \/ Go(r, "refused") /\ label' = label
    BY <1>4 DEF CreateLabel, At, Put
  <2>2. new \in LabelRows
    <3>1. Body(r).kind \in Kinds /\ Body(r).name \in Names
      BY <2>1, ACall, CallShapes
    <3>2. who[r].company \in CompanyIds
      BY <2>1, ForACompany DEF Answers, CompanyOps
    <3>. QED
      BY <3>1, <3>2 DEF LabelRows
  <2>3. r \in LabelIds /\ label[r] = NoRow
    BY <2>1, Markers DEF IInv, CreatedOnce
  <2>. HIDE DEF new
  <2>4. CASE Go(r, "ok") /\ label' = [label EXCEPT ![r] = new]
    <3>1. /\ label' \in [LabelIds -> LabelRows \cup {NoRow}]
          /\ \A l \in LabelIds : label[l] # NoRow => label'[l] = label[l]
          /\ \A l \in LabelIds : label'[l] # NoRow => l = r \/ label'[l] = label[l]
      BY <1>2, <2>2, <2>3, <2>4
    <3>2. ProductsInTheirCatalogue'
      BY <1>2, <2>1, <3>1 DEF ProductsInTheirCatalogue, Exists, ProductRows
    <3>3. LabelsStay(r, "ok") /\ ProductsStay(r, "ok")
      BY <2>1, <3>1 DEF LabelsStay, ProductsStay
    <3>4. pc'[r] = "ok"
      BY <2>4, GoMoves
    <3>. QED
      BY <1>1, <1>2, <1>3, <2>1, <2>4, <3>1, <3>2, <3>3, <3>4, CatalogueWriteIsSafe DEF Answers
  <2>5. CASE Go(r, "refused") /\ label' = label
    BY <1>1, <2>1, <2>5, RefusalIsSafe
  <2>. QED
    BY <2>1, <2>4, <2>5
<1>5. CASE RenameLabel(r)
  <2>. DEFINE new == [label[Id(r)] EXCEPT !.name = Body(r).name]
  <2>1. /\ pc[r] = "write" /\ Op(r) = "renameLabel" /\ product' = product
        /\ \/ Go(r, "ok") /\ label' = [label EXCEPT ![Id(r)] = new] /\ Exists(label, Id(r))
           \/ Go(r, "refused") /\ label' = label
    BY <1>5 DEF RenameLabel, At, Put
  <2>2. Body(r).name \in Names /\ Id(r) \in LabelIds
    BY <2>1, ACall, CallShapes
  <2>3. CASE Go(r, "ok") /\ label' = [label EXCEPT ![Id(r)] = new] /\ Exists(label, Id(r))
    <3>1. /\ new \in LabelRows /\ new.kind = label[Id(r)].kind
          /\ new.company = label[Id(r)].company
      BY <1>2, <2>2, <2>3 DEF LabelRows, Exists
    <3>. HIDE DEF new
    <3>2. /\ label' \in [LabelIds -> LabelRows \cup {NoRow}]
          /\ \A l \in LabelIds : label[l] # NoRow => /\ label'[l] # NoRow
                 /\ label'[l].kind = label[l].kind /\ label'[l].company = label[l].company
          /\ \A l \in LabelIds : label'[l] # NoRow => label[l] # NoRow
      BY <1>2, <2>2, <2>3, <3>1, Markers DEF Exists
    <3>3. ProductsInTheirCatalogue'
      BY <1>2, <2>1, <3>2 DEF ProductsInTheirCatalogue, Exists, ProductRows
    <3>4. LabelsStay(r, "ok") /\ ProductsStay(r, "ok")
      BY <2>1, <3>2 DEF LabelsStay, ProductsStay
    <3>5. pc'[r] = "ok"
      BY <2>3, GoMoves
    <3>. QED
      BY <1>1, <1>2, <1>3, <2>1, <2>3, <3>2, <3>3, <3>4, <3>5, CatalogueWriteIsSafe DEF Answers
  <2>4. CASE Go(r, "refused") /\ label' = label
    BY <1>1, <2>1, <2>4, RefusalIsSafe
  <2>. QED
    BY <2>1, <2>3, <2>4
<1>6. ASSUME Exists(label, Id(r)), pc[r] = "write", Op(r) = "removeLabel"
      PROVE  Id(r) \in LabelIds /\ label[Id(r)].kind = Body(r).kind
  BY <1>6 DEF IInv, Found, FoundBy, LabelFits, Exists
<1>7. CASE RemoveCategory(r)
  <2>1. /\ pc[r] = "write" /\ Op(r) = "removeLabel" /\ Body(r).kind = "category"
        /\ product' = product
        /\ \/ /\ Go(r, "ok") /\ label' = [label EXCEPT ![Id(r)] = NoRow]
              /\ Exists(label, Id(r)) /\ ~Restricts(Id(r))
           \/ Go(r, "refused") /\ label' = label
    BY <1>7 DEF RemoveCategory, At, Put
  <2>2. CASE /\ Go(r, "ok") /\ label' = [label EXCEPT ![Id(r)] = NoRow]
             /\ Exists(label, Id(r)) /\ ~Restricts(Id(r))
    <3>1. Id(r) \in LabelIds /\ label[Id(r)].kind = "category"
      BY <1>6, <2>1, <2>2
    <3>2. /\ label' \in [LabelIds -> LabelRows \cup {NoRow}]
          /\ \A l \in LabelIds : l = Id(r) \/ label'[l] = label[l]
          /\ label'[Id(r)] = NoRow
      BY <1>2, <2>2, <3>1
    <3>3. \A p \in ProductIds : Exists(product, p) => product[p].category # Id(r)
      BY <2>2 DEF Restricts
    <3>4. \A p \in ProductIds : Exists(product, p) /\ product[p].brand # Unset => product[p].brand # Id(r)
      BY <1>2, <3>1 DEF ProductsInTheirCatalogue
    <3>5. \A p \in ProductIds : Exists(product, p) =>
              product[p].category \in LabelIds /\ product[p].brand \in LabelIds \cup {Unset}
      BY <1>2 DEF ProductRows, Exists
    <3>6. ProductsInTheirCatalogue'
      BY <1>2, <2>1, <3>2, <3>3, <3>4, <3>5 DEF ProductsInTheirCatalogue, Exists
    <3>7. LabelsStay(r, "ok") /\ ProductsStay(r, "ok")
      BY <2>1, <3>2 DEF LabelsStay, ProductsStay
    <3>8. pc'[r] = "ok"
      BY <2>2, GoMoves
    <3>. QED
      BY <1>1, <1>2, <1>3, <2>1, <2>2, <3>2, <3>6, <3>7, <3>8, CatalogueWriteIsSafe DEF Answers
  <2>3. CASE Go(r, "refused") /\ label' = label
    BY <1>1, <2>1, <2>3, RefusalIsSafe
  <2>. QED
    BY <2>1, <2>2, <2>3
<1>8. CASE RemoveBrand(r)
  <2>1. /\ pc[r] = "write" /\ Op(r) = "removeLabel" /\ Body(r).kind = "brand"
        /\ product' = [p \in ProductIds |->
                         IF Exists(product, p) /\ product[p].brand = Id(r)
                         THEN [product[p] EXCEPT !.brand = Unset] ELSE product[p]]
        /\ \/ Go(r, "ok") /\ label' = [label EXCEPT ![Id(r)] = NoRow] /\ Exists(label, Id(r))
           \/ Go(r, "refused") /\ label' = label /\ ~Exists(label, Id(r))
    BY <1>8 DEF RemoveBrand, At, Put
  <2>2. CASE Go(r, "ok") /\ label' = [label EXCEPT ![Id(r)] = NoRow] /\ Exists(label, Id(r))
    <3>1. Id(r) \in LabelIds /\ label[Id(r)].kind = "brand"
      BY <1>6, <2>1, <2>2
    <3>2. /\ label' \in [LabelIds -> LabelRows \cup {NoRow}]
          /\ \A l \in LabelIds : l = Id(r) \/ label'[l] = label[l]
          /\ label'[Id(r)] = NoRow
      BY <1>2, <2>2, <3>1
    <3>3. ASSUME NEW p \in ProductIds
          PROVE  /\ product'[p] \in ProductRows \cup {NoRow}
                 /\ (product'[p] = NoRow) <=> (product[p] = NoRow)
                 /\ product[p] # NoRow =>
                      /\ product'[p].category = product[p].category
                      /\ product'[p].company = product[p].company
                      /\ product'[p].brand = IF product[p].brand = Id(r) THEN Unset
                                             ELSE product[p].brand
                      /\ product[p].category \in LabelIds /\ product[p].brand \in LabelIds \cup {Unset}
      <4>1. CASE product[p] = NoRow
        BY <2>1, <4>1 DEF Exists
      <4>2. CASE product[p] # NoRow
        <5>1. product[p] \in ProductRows
          BY <1>2, <4>2
        <5>2. product'[p] = IF product[p].brand = Id(r) THEN [product[p] EXCEPT !.brand = Unset]
                            ELSE product[p]
          BY <2>1, <4>2 DEF Exists
        <5>3. [product[p] EXCEPT !.brand = Unset] \in ProductRows
          BY <5>1 DEF ProductRows
        <5>4. product'[p] \in ProductRows /\ product'[p] # NoRow
          BY <5>1, <5>2, <5>3, Markers
        <5>5. /\ product'[p].category = product[p].category
              /\ product'[p].company = product[p].company
              /\ product'[p].brand = IF product[p].brand = Id(r) THEN Unset ELSE product[p].brand
              /\ product[p].category \in LabelIds /\ product[p].brand \in LabelIds \cup {Unset}
          BY <5>1, <5>2 DEF ProductRows
        <5>. QED
          BY <4>2, <5>4, <5>5
      <4>. QED
        BY <4>1, <4>2
    <3>4. product' \in [ProductIds -> ProductRows \cup {NoRow}]
      BY <2>1, <3>3
    <3>5. \A p \in ProductIds : product[p] # NoRow => product[p].category # Id(r)
      BY <1>2, <3>1 DEF ProductsInTheirCatalogue, Exists
    <3>6. ProductsInTheirCatalogue'
      BY <1>2, <3>2, <3>3, <3>5 DEF ProductsInTheirCatalogue, Exists
    <3>7. LabelsStay(r, "ok") /\ ProductsStay(r, "ok")
      BY <3>2, <3>3 DEF LabelsStay, ProductsStay
    <3>8. pc'[r] = "ok"
      BY <2>2, GoMoves
    <3>. QED
      BY <1>1, <1>3, <2>2, <3>2, <3>4, <3>6, <3>7, <3>8, CatalogueWriteIsSafe DEF Answers
  <2>3. CASE Go(r, "refused") /\ label' = label /\ ~Exists(label, Id(r))
    <3>1. Id(r) \in LabelIds
      BY <2>1, ACall, CallShapes
    <3>2. \A p \in ProductIds : ~(Exists(product, p) /\ product[p].brand = Id(r))
      BY <1>2, <2>3, <3>1, Markers DEF ProductsInTheirCatalogue
    <3>3. product' = [p \in ProductIds |-> product[p]]
      BY <2>1, <3>2
    <3>4. product' = product
      BY <1>2, <3>3
    <3>. QED
      BY <1>1, <2>3, <3>4, RefusalIsSafe
  <2>. QED
    BY <2>1, <2>2, <2>3
<1>. QED
  BY <1>4, <1>5, <1>7, <1>8

\* A row of products is written by the request that found it, or created it.
LEMMA ProductWriteIsSafe ==
    ASSUME IInv, NEW r \in Requests, NEW i, NEW new, pc[r] = "write",
           Op(r) \in {"createProduct", "updateProduct", "removeProduct"},
           PutProduct(r, i, new), i \in ProductIds, new \in ProductRows, Subject(r) = i,
           new.company = who[r].company,
           (i = r /\ product[r] = NoRow) \/ ProductStays(r, i),
           Exists(label, new.category) =>
               /\ label[new.category].kind = "category"
               /\ label[new.category].company = new.company,
           new.brand # Unset /\ Exists(label, new.brand) =>
               label[new.brand].kind = "brand" /\ label[new.brand].company = new.company
    PROVE  IInv'
<1>1. /\ UNCHANGED <<tables, got, audit, call, who, label, files>>
      /\ \/ /\ Go(r, "audit") /\ product' = [product EXCEPT ![i] = new] /\ References(new)
         \/ Go(r, "refused") /\ product' = product
  BY DEF PutProduct, Put, Keep
<1>2. /\ product \in [ProductIds -> ProductRows \cup {NoRow}] /\ ProductsInTheirCatalogue
      /\ label' \in [LabelIds -> LabelRows \cup {NoRow}] /\ pc[r] \in Reading
  BY <1>1 DEF IInv, Types, CatalogueTypeOK, Reading
<1>3. CASE Go(r, "audit") /\ product' = [product EXCEPT ![i] = new] /\ References(new)
  <2>1. /\ product'[i] = new /\ \A p \in ProductIds \ {i} : product'[p] = product[p]
        /\ product' \in [ProductIds -> ProductRows \cup {NoRow}] /\ new # NoRow
    BY <1>2, <1>3, Markers
  <2>2. ProductsInTheirCatalogue'
    BY <1>1, <1>2, <1>3, <2>1 DEF ProductsInTheirCatalogue, Exists, References
  <2>3. LabelsStay(r, "audit")
    BY <1>1 DEF LabelsStay
  <2>4. ProductsStay(r, "audit")
    BY <2>1 DEF ProductsStay, ProductStays
  <2>5. Op(r)' = Op(r) /\ Subject(r)' = i /\ who' = who /\ pc'[r] = "audit"
    BY <1>1, <1>3, TheCallStays, GoMoves
  <2>6. ProductStays(r, Subject(r))'
    BY <2>1, <2>5 DEF ProductStays
  <2>7. FlowOf(r)' /\ Op(r) \notin UserOps
    BY <2>5 DEF FlowOf, UserOps
  <2>. QED
    BY <1>1, <1>2, <1>3, <2>1, <2>2, <2>3, <2>4, <2>6, <2>7, CatalogueWriteIsSafe
<1>4. CASE Go(r, "refused") /\ product' = product
  BY <1>1, <1>2, <1>4, RefusalIsSafe
<1>. QED
  BY <1>1, <1>3, <1>4

LEMMA ProductsAreSafe ==
    ASSUME IInv, NEW r \in Requests, CreateProduct(r) \/ UpdateProduct(r) \/ RemoveProduct(r)
    PROVE  IInv'
<1>1. pc[r] = "write" /\ Op(r) \in {"createProduct", "updateProduct", "removeProduct"}
  BY DEF CreateProduct, UpdateProduct, RemoveProduct, At
<1>2. /\ call[r] \in Calls /\ Op(r) = call[r].op /\ Id(r) = call[r].id /\ Body(r) = call[r].body
      /\ who[r].company \in CompanyIds
  BY <1>1, ACall, ForACompany DEF Answers, CompanyOps
\* What the body names is still what it was when it was looked up, or gone.
<1>3. ASSUME Op(r) \in {"createProduct", "updateProduct"}, NEW i \in LabelIds, Exists(label, i)
      PROVE  /\ i = Body(r).category => label[i].kind = "category" /\ label[i].company = who[r].company
             /\ i = Body(r).brand => label[i].kind = "brand" /\ label[i].company = who[r].company
  BY <1>1, <1>3, Markers DEF IInv, Found, FoundBy, Fitting, LabelFits, Exists
<1>4. CASE CreateProduct(r)
  <2>. DEFINE new == [sku |-> Body(r).sku, company |-> who[r].company,
                      category |-> Body(r).category, brand |-> Body(r).brand,
                      image |-> Imaged(Body(r).image, Unset), active |-> TRUE]
  <2>1. Op(r) = "createProduct" /\ PutProduct(r, r, new)
    BY <1>4 DEF CreateProduct, At
  <2>2. /\ Id(r) = Unset /\ Body(r).sku \in Skus /\ Body(r).category \in LabelIds
        /\ Body(r).brand \in LabelIds \cup {Unset}
        /\ Imaged(Body(r).image, Unset) \in Files \cup {Unset}
    BY <1>2, <2>1, CallShapes DEF Imaged, Given
  <2>3. /\ new \in ProductRows /\ new.company = who[r].company
        /\ new.category = Body(r).category /\ new.brand = Body(r).brand
    BY <1>2, <2>2 DEF ProductRows
  <2>4. Subject(r) = r /\ r \in ProductIds /\ product[r] = NoRow
    BY <1>1, <2>2, Markers DEF Subject, IInv, CreatedOnce, Answers
  <2>. HIDE DEF new
  <2>5. /\ Exists(label, new.category) =>
             label[new.category].kind = "category" /\ label[new.category].company = new.company
        /\ new.brand # Unset /\ Exists(label, new.brand) =>
             label[new.brand].kind = "brand" /\ label[new.brand].company = new.company
    BY <1>3, <2>1, <2>2, <2>3
  <2>. QED
    BY <1>1, <2>1, <2>3, <2>4, <2>5, ProductWriteIsSafe
<1>5. ASSUME Op(r) \in {"updateProduct", "removeProduct"}, NEW old, old = product[Id(r)]
      PROVE  /\ ProductStays(r, Id(r)) /\ Id(r) \in ProductIds /\ Subject(r) = Id(r)
             /\ old \in ProductRows /\ old.company = who[r].company
             /\ Exists(label, old.category)
             /\ label[old.category].kind = "category" /\ label[old.category].company = old.company
             /\ old.brand # Unset =>
                  label[old.brand].kind = "brand" /\ label[old.brand].company = old.company
  <2>1. ProductStays(r, Id(r))
    BY <1>1, <1>5 DEF IInv, Found, FoundBy
  <2>2. Id(r) # Unset
    BY <1>2, <1>5, <2>1, UnsetNamesNothing, CallShapes DEF ProductStays
  <2>3. old \in ProductRows /\ Id(r) \in ProductIds /\ Exists(product, Id(r))
    BY <1>5, <2>1 DEF ProductStays, Exists, IInv, Types, CatalogueTypeOK
  <2>. QED
    BY <1>5, <2>1, <2>2, <2>3 DEF ProductStays, Subject, IInv, ProductsInTheirCatalogue
<1>6. CASE UpdateProduct(r)
  <2>. DEFINE old == product[Id(r)]
              new == [old EXCEPT !.sku = Given(Body(r).sku, @),
                                 !.category = Given(Body(r).category, @),
                                 !.brand = Given(Body(r).brand, @),
                                 !.image = Imaged(Body(r).image, @)]
  <2>1. Op(r) = "updateProduct" /\ PutProduct(r, Id(r), new)
    BY <1>6 DEF UpdateProduct, At
  <2>2. /\ Body(r).sku \in Skus \cup {Unset} /\ Body(r).category \in LabelIds \cup {Unset}
        /\ Body(r).brand \in LabelIds \cup {Unset}
        /\ Body(r).image \in Files \cup {"none", Unset}
    BY <1>2, <2>1, CallShapes
  <2>3. old \in ProductRows /\ old.company = who[r].company
    BY <1>5, <2>1
  <2>4. /\ Given(Body(r).sku, old.sku) \in Skus
        /\ Given(Body(r).category, old.category) \in LabelIds
        /\ Given(Body(r).brand, old.brand) \in LabelIds \cup {Unset}
        /\ Imaged(Body(r).image, old.image) \in Files \cup {Unset}
    BY <2>2, <2>3 DEF Given, Imaged, ProductRows
  <2>5. /\ new \in ProductRows /\ new.company = who[r].company
        /\ new.category = Given(Body(r).category, old.category)
        /\ new.brand = Given(Body(r).brand, old.brand)
    BY <2>3, <2>4 DEF ProductRows
  <2>6. /\ Exists(label, old.category)
        /\ label[old.category].kind = "category" /\ label[old.category].company = old.company
        /\ old.brand # Unset =>
             label[old.brand].kind = "brand" /\ label[old.brand].company = old.company
    BY <1>5, <2>1
  <2>7. ProductStays(r, Id(r)) /\ Id(r) \in ProductIds /\ Subject(r) = Id(r)
    BY <1>5, <2>1
  <2>. HIDE DEF new, old
  <2>8. Exists(label, new.category) =>
            label[new.category].kind = "category" /\ label[new.category].company = new.company
    BY <1>3, <2>1, <2>2, <2>3, <2>5, <2>6 DEF Given
  <2>9. new.brand # Unset /\ Exists(label, new.brand) =>
            label[new.brand].kind = "brand" /\ label[new.brand].company = new.company
    BY <1>3, <2>1, <2>2, <2>3, <2>5, <2>6 DEF Given
  <2>. QED
    BY <1>1, <2>1, <2>5, <2>7, <2>8, <2>9, ProductWriteIsSafe
<1>7. CASE RemoveProduct(r)
  <2>. DEFINE old == product[Id(r)]
              new == [product[Id(r)] EXCEPT !.active = FALSE]
  <2>1. Op(r) = "removeProduct" /\ PutProduct(r, Id(r), new)
    BY <1>7 DEF RemoveProduct, At
  <2>2. /\ ProductStays(r, Id(r)) /\ Id(r) \in ProductIds /\ Subject(r) = Id(r)
        /\ old \in ProductRows /\ old.company = who[r].company
        /\ label[old.category].kind = "category" /\ label[old.category].company = old.company
        /\ old.brand # Unset =>
             label[old.brand].kind = "brand" /\ label[old.brand].company = old.company
    BY <1>5, <2>1
  <2>3. /\ new \in ProductRows /\ new.company = old.company
        /\ new.category = old.category /\ new.brand = old.brand
    BY <2>2 DEF ProductRows
  <2>. HIDE DEF new, old
  <2>. QED
    BY <1>1, <2>1, <2>2, <2>3, ProductWriteIsSafe
<1>. QED
  BY <1>4, <1>6, <1>7

LEMMA UpdateImageIsSafe ==
    ASSUME IInv, NEW r \in Requests, UpdateImage(r)
    PROVE  IInv'
<1>. DEFINE i == Id(r)
<1>1. /\ pc[r] = "row" /\ Op(r) = "uploadImage" /\ Go(r, "ok")
      /\ product' = [product EXCEPT ![i].image = r]
      /\ UNCHANGED <<tables, got, audit, call, who, label, files>>
  BY DEF UpdateImage, At, Put, Keep
<1>2. ProductStays(r, i)
  BY <1>1 DEF IInv, Found, FoundBy
<1>. HIDE DEF i
<1>3. /\ product \in [ProductIds -> ProductRows \cup {NoRow}] /\ i \in ProductIds
      /\ product[i] \in ProductRows /\ label' \in [LabelIds -> LabelRows \cup {NoRow}]
  BY <1>1, <1>2 DEF IInv, Types, CatalogueTypeOK, ProductStays
<1>4. [product[i] EXCEPT !.image = r] \in ProductRows
  BY <1>3, Markers DEF ProductRows
<1>5. /\ product'[i] = [product[i] EXCEPT !.image = r]
      /\ \A p \in ProductIds \ {i} : product'[p] = product[p]
      /\ product' \in [ProductIds -> ProductRows \cup {NoRow}]
  BY <1>1, <1>3, <1>4
<1>6. /\ product'[i] # NoRow /\ product[i] # NoRow /\ product'[i].company = product[i].company
      /\ product'[i].category = product[i].category /\ product'[i].brand = product[i].brand
  BY <1>3, <1>4, <1>5, Markers DEF ProductRows
<1>7. ProductsInTheirCatalogue'
  BY <1>1, <1>5, <1>6 DEF IInv, ProductsInTheirCatalogue, Exists
<1>8. LabelsStay(r, "ok") /\ ProductsStay(r, "ok")
  BY <1>1, <1>5, <1>6 DEF LabelsStay, ProductsStay
<1>9. FlowOf(r)'
  BY <1>1, GoMoves DEF FlowOf
<1>. QED
  BY <1>1, <1>3, <1>5, <1>7, <1>8, <1>9, CatalogueWriteIsSafe DEF Answers

LEMMA StutterIsSafe == IInv /\ UNCHANGED vars => IInv'
<1>. SUFFICES ASSUME IInv, UNCHANGED vars PROVE IInv'
  OBVIOUS
<1>1. UNCHANGED <<company, user, pending, audit, pc, call, who, got, label, product, files>>
  BY DEF vars, accounts, tables, catalogue
<1>2. Types' /\ Flow' /\ Pending' /\ WhoFits' /\ CreatedOnce'
  BY <1>1 DEF IInv, Types, CatalogueTypeOK, Flow, FlowOf, Op, Pending, WhoFits, CreatedOnce,
              Committed, Exists, Uncommitted
<1>3. Found' /\ Audited'
  BY <1>1 DEF IInv, Found, FoundBy, UserStays, LabelFits, ProductStays, Fitting, Audited, Subject,
              Op, Id, Body, Committed, Exists, Uncommitted
<1>4. IdentitiesDiffer' /\ CompaniesHaveUsers' /\ ProductsInTheirCatalogue'
  BY <1>1 DEF IInv, IdentitiesDiffer, CompaniesHaveUsers, ProductsInTheirCatalogue,
              Committed, Exists, Uncommitted
<1>. QED
  BY <1>2, <1>3, <1>4 DEF IInv

LEMMA AdmissionsAreSafe ==
    ASSUME IInv, NEW r \in Requests, UNCHANGED catalogue,
           AdmitCompanies(r) \/ AdmitUsers(r) \/ AdmitManagers(r) \/ AdmitAdmins(r)
    PROVE  IInv'
<1>1. CASE AdmitCompanies(r)
  BY <1>1, AdmitIsSafe DEF AdmitCompanies
<1>2. CASE AdmitUsers(r)
  <2>1. Op(r) \notin CompanyOps
    BY <1>2 DEF AdmitUsers, Admit, At, UserOps, CompanyOps
  <2>. QED
    BY <1>2, <2>1, AdmitIsSafe DEF AdmitUsers
<1>3. CASE AdmitManagers(r)
  <2>1. Op(r) \notin CompanyOps
    BY <1>3 DEF AdmitManagers, Admit, At, LabelOps, ProductOps, CompanyOps
  <2>. QED
    BY <1>3, <2>1, AdmitIsSafe DEF AdmitManagers
<1>4. CASE AdmitAdmins(r)
  <2>1. Op(r) \notin CompanyOps
    BY <1>4 DEF AdmitAdmins, Admit, At, CompanyOps
  <2>. QED
    BY <1>4, <2>1, AdmitIsSafe DEF AdmitAdmins
<1>. QED
  BY <1>1, <1>2, <1>3, <1>4

\* The steps of a request, sorted by what they may change.
LookUps(r) == FindByEmail(r) \/ FindUser(r) \/ FindCompanyNamed(r) \/ FindAdminEmail(r)
              \/ FindCompany(r) \/ FindNameConflict(r)
Admissions(r) == AdmitCompanies(r) \/ AdmitUsers(r) \/ AdmitManagers(r) \/ AdmitAdmins(r)
UserWrites(r) == InsertUser(r) \/ UpdateUser(r) \/ ToggleUser(r)
CompanyWrites(r) == UpdateCompany(r) \/ ToggleStatus(r)
LabelWrites(r) == CreateLabel(r) \/ RenameLabel(r) \/ RemoveCategory(r) \/ RemoveBrand(r)
ProductWrites(r) == CreateProduct(r) \/ UpdateProduct(r) \/ RemoveProduct(r)

LEMMA StepsSorted ==
    ASSUME Next
    PROVE  \/ Quiet
           \/ \E r \in Requests :
                \/ /\ UNCHANGED catalogue
                   /\ \/ Arrive(r) \/ Admissions(r) \/ LookUps(r) \/ Log(r) \/ LogFails(r)
                      \/ UserWrites(r) \/ InsertCompany(r) \/ InsertAdmin(r) \/ Commit(r)
                      \/ CompanyWrites(r) \/ Fail(r)
                \/ FindLabel(r) \/ FindOne(r) \/ FindCategory(r) \/ FindBrand(r)
                \/ LabelWrites(r) \/ ProductWrites(r)
                \/ RemovePrevious(r) \/ WriteFile(r) \/ UpdateImage(r)
BY DEF Next, AccountStep, Users, Companies, Labels, Products,
       Admissions, LookUps, UserWrites, CompanyWrites, LabelWrites, ProductWrites

LEMMA NextPreservesIInv == IInv /\ [Next]_vars => IInv'
<1>. SUFFICES ASSUME IInv, [Next]_vars PROVE IInv'
  OBVIOUS
<1>1. CASE UNCHANGED vars \/ Quiet
  BY <1>1, StutterIsSafe DEF Quiet
<1>2. ASSUME NEW r \in Requests, UNCHANGED catalogue,
             \/ Arrive(r) \/ Admissions(r) \/ LookUps(r) \/ Log(r) \/ LogFails(r)
             \/ UserWrites(r) \/ InsertCompany(r) \/ InsertAdmin(r) \/ Commit(r)
             \/ CompanyWrites(r) \/ Fail(r)
      PROVE  IInv'
  <2>1. CASE Arrive(r)
    BY <1>2, <2>1, ArriveIsSafe
  <2>2. CASE Admissions(r)
    BY <1>2, <2>2, AdmissionsAreSafe DEF Admissions
  <2>3. CASE LookUps(r)
    BY <1>2, <2>3, LookUpsAreSafe DEF LookUps
  <2>4. CASE Log(r) \/ LogFails(r)
    BY <1>2, <2>4, TheRestIsSafe
  <2>5. CASE UserWrites(r)
    BY <1>2, <2>5, UsersAreSafe DEF UserWrites
  <2>6. CASE InsertCompany(r) \/ InsertAdmin(r) \/ Commit(r)
    BY <1>2, <2>6, InsertCompanyIsSafe, InsertAdminIsSafe, CommitIsSafe
  <2>7. CASE CompanyWrites(r) \/ Fail(r)
    BY <1>2, <2>7, CompaniesAreSafe, FailIsSafe DEF CompanyWrites
  <2>. QED
    BY <1>2, <2>1, <2>2, <2>3, <2>4, <2>5, <2>6, <2>7
<1>3. ASSUME NEW r \in Requests,
             \/ FindLabel(r) \/ FindOne(r) \/ FindCategory(r) \/ FindBrand(r)
             \/ LabelWrites(r) \/ ProductWrites(r)
             \/ RemovePrevious(r) \/ WriteFile(r) \/ UpdateImage(r)
      PROVE  IInv'
  <2>1. CASE FindLabel(r) \/ FindOne(r) \/ FindCategory(r) \/ FindBrand(r)
    BY <2>1, CatalogueLookUpsAreSafe
  <2>2. CASE LabelWrites(r)
    BY <2>2, LabelWritesAreSafe DEF LabelWrites
  <2>3. CASE ProductWrites(r)
    BY <2>3, ProductsAreSafe DEF ProductWrites
  <2>4. CASE RemovePrevious(r) \/ WriteFile(r)
    BY <2>4, TheRestIsSafe
  <2>5. CASE UpdateImage(r)
    BY <2>5, UpdateImageIsSafe
  <2>. QED
    BY <1>3, <2>1, <2>2, <2>3, <2>4, <2>5
<1>. QED
  BY <1>1, <1>2, <1>3, StepsSorted

-----------------------------------------------------------------------------
(* Who writes what. *)

\* The request may write rows of company c.
Writes(r, c) ==
    /\ pc'[r] # pc[r] /\ who[r] # NoOne
    /\ IF Op(r) \in CompanyOps THEN who[r].role = "SUPERADMIN" ELSE who[r].company = c

WritesOwn(r) ==
    /\ \A i \in UserIds : user'[i] # user[i] =>
           Writes(r, IF user[i] # NoRow THEN user[i].company ELSE user'[i].company)
    /\ \A i \in LabelIds : label'[i] # label[i] =>
           Writes(r, IF label[i] # NoRow THEN label[i].company ELSE label'[i].company)
    /\ \A i \in ProductIds : product'[i] # product[i] =>
           Writes(r, IF product[i] # NoRow THEN product[i].company ELSE product'[i].company)

LEMMA WritersAreAdmitted ==
    ASSUME IInv, NEW r \in Requests, NEW to, Go(r, to), pc[r] \notin {"idle", "admit"} \cup Answers,
           to # pc[r]
    PROVE  /\ pc'[r] # pc[r] /\ who[r] # NoOne
           /\ Op(r) \in CompanyOps => who[r].role = "SUPERADMIN"
BY GoMoves, ForACompany DEF IInv, WhoFits

LEMMA AccountWritesAreOwn ==
    ASSUME IInv, NEW r \in Requests, UNCHANGED catalogue,
           UserWrites(r) \/ InsertAdmin(r) \/ Fail(r)
    PROVE  WritesOwn(r)
<1>1. UNCHANGED <<label, product>> /\ user \in [UserIds -> UserRows \cup {NoRow}]
      /\ pending \in [Requests -> SUBSET Requests] /\ \A s \in Requests : pending[s] \subseteq {s}
  BY DEF catalogue, IInv, Types, CatalogueTypeOK
<1>2. CASE InsertAdmin(r) \/ Fail(r)
  <2>1. /\ pc[r] \notin {"idle"} \cup Answers
        /\ Go(r, "commit") \/ Go(r, "refused")
        /\ InsertAdmin(r) => pc[r] = "admin" /\ Op(r) = "createCompany"
        /\ \/ Go(r, "commit") /\ \E new : user' = [user EXCEPT ![r] = new] /\ pc[r] = "admin"
           \/ Go(r, "refused") /\ user' = [user EXCEPT ![r] = IF r \in pending[r] THEN NoRow ELSE @]
    BY <1>2 DEF InsertAdmin, Fail, RollBack, At, Answers
  <2>2. ASSUME NEW i \in UserIds, user'[i] # user[i]
        PROVE  Op(r) = "createCompany" /\ pc[r] \in {"admin", "commit"}
    <3>1. i = r /\ (pc[r] = "admin" \/ r \in pending[r])
      BY <1>1, <2>1, <2>2
    <3>2. pc[r] \in {"admin", "commit"}
      BY <3>1 DEF IInv, Pending
    <3>. QED
      BY <3>2 DEF IInv, Flow, FlowOf
  <2>3. ASSUME pc[r] \in {"admin", "commit"}, Op(r) = "createCompany"
        PROVE  pc'[r] # pc[r] /\ who[r] # NoOne /\ who[r].role = "SUPERADMIN" /\ Op(r) \in CompanyOps
    <3>1. Op(r) \in CompanyOps
      BY <2>3 DEF CompanyOps
    <3>2. CASE Go(r, "refused")
      BY <2>1, <2>3, <3>1, <3>2, WritersAreAdmitted DEF Answers
    <3>3. CASE Go(r, "commit") /\ pc[r] = "admin"
      BY <2>1, <2>3, <3>1, <3>3, WritersAreAdmitted DEF Answers
    <3>. QED
      BY <2>1, <3>2, <3>3
  <2>. QED
    BY <1>1, <2>2, <2>3 DEF WritesOwn, Writes
<1>3. CASE UserWrites(r)
  <2>1. /\ pc[r] = "write" /\ Op(r) \in {"createUser", "updateUser", "toggleUser"}
        /\ Op(r) \notin CompanyOps
        /\ Go(r, "audit") \/ (Go(r, "refused") /\ user' = user)
        /\ Op(r) = "createUser" => user' = user \/ user' =
               [user EXCEPT ![r] = [email |-> Body(r).email, role |-> Body(r).role,
                                    company |-> who[r].company, active |-> TRUE]]
        /\ Op(r) # "createUser" => user' = user \/ \E new : user' = [user EXCEPT ![Id(r)] = new]
    BY <1>3 DEF UserWrites, InsertUser, UpdateUser, ToggleUser, At, WriteUser, Write, CompanyOps
  <2>2. ASSUME NEW i \in UserIds, user'[i] # user[i]
        PROVE  (IF user[i] # NoRow THEN user[i].company ELSE user'[i].company) = who[r].company
    <3>1. CASE Op(r) = "createUser"
      <4>1. r \in UserIds /\ user[r] = NoRow
        BY <2>1, Markers DEF IInv, CreatedOnce, Answers
      <4>. QED
        BY <1>1, <2>1, <2>2, <3>1, <4>1
    <3>2. CASE Op(r) # "createUser"
      <4>1. UserStays(r, Id(r))
        BY <2>1, <3>2 DEF IInv, Found, FoundBy
      <4>. QED
        BY <1>1, <2>1, <2>2, <3>2, <4>1 DEF UserStays, Committed, Exists
    <3>. QED
      BY <3>1, <3>2
  <2>3. ASSUME NEW i \in UserIds, user'[i] # user[i] PROVE pc'[r] # pc[r] /\ who[r] # NoOne
    BY <2>1, <2>3, WritersAreAdmitted DEF Answers
  <2>. QED
    BY <1>1, <2>1, <2>2, <2>3 DEF WritesOwn, Writes
<1>. QED
  BY <1>2, <1>3

LEMMA LabelWritesAreOwn ==
    ASSUME IInv, NEW r \in Requests, LabelWrites(r)
    PROVE  WritesOwn(r)
<1>1. /\ user' = user /\ label \in [LabelIds -> LabelRows \cup {NoRow}]
      /\ pc[r] \in {"start", "write"} /\ Op(r) \in LabelOps /\ Op(r) \notin CompanyOps
      /\ Go(r, "ok") \/ (Go(r, "refused") /\ label' = label)
  BY DEF LabelWrites, CreateLabel, RenameLabel, RemoveCategory, RemoveBrand, At, Put, tables,
         LabelOps, CompanyOps, IInv, Types, CatalogueTypeOK
<1>2. pc'[r] # pc[r] /\ who[r] # NoOne
  BY <1>1, WritersAreAdmitted DEF Answers
<1>3. CASE CreateLabel(r)
  <2>1. r \in LabelIds /\ label[r] = NoRow
    BY <1>3, Markers DEF CreateLabel, At, IInv, CreatedOnce
  <2>2. /\ product' = product
        /\ label' = label \/ label' = [label EXCEPT ![r] =
               [kind |-> Body(r).kind, company |-> who[r].company, name |-> Body(r).name]]
    BY <1>3 DEF CreateLabel, Put
  <2>3. \A i \in LabelIds : label'[i] # label[i] => label[i] = NoRow /\ label'[i].company = who[r].company
    BY <1>1, <2>1, <2>2
  <2>. QED
    BY <1>1, <1>2, <2>2, <2>3 DEF WritesOwn, Writes
<1>4. CASE ~CreateLabel(r)
  <2>1. /\ pc[r] = "write" /\ Op(r) \in {"renameLabel", "removeLabel"}
        /\ label' = label \/ (Exists(label, Id(r)) /\ \E new : label' = [label EXCEPT ![Id(r)] = new])
        /\ \/ product' = product
           \/ /\ Body(r).kind = "brand"
              /\ product' = [p \in ProductIds |->
                               IF Exists(product, p) /\ product[p].brand = Id(r)
                               THEN [product[p] EXCEPT !.brand = Unset] ELSE product[p]]
    BY <1>4 DEF LabelWrites, RenameLabel, RemoveCategory, RemoveBrand, At, Put
  <2>2. /\ Id(r) \in LabelIds /\ Id(r) # Unset
        /\ label[Id(r)] # NoRow => label[Id(r)].company = who[r].company
    BY <2>1, Markers DEF IInv, Found, FoundBy, LabelFits
  <2>3. \A i \in LabelIds : label'[i] # label[i] => label[i] # NoRow /\ label[i].company = who[r].company
    BY <1>1, <2>1, <2>2 DEF Exists
  <2>4. \A p \in ProductIds : product'[p] # product[p] =>
            product[p] # NoRow /\ product[p].company = who[r].company
    BY <2>1, <2>2 DEF IInv, ProductsInTheirCatalogue, Exists
  <2>. QED
    BY <1>1, <1>2, <2>3, <2>4 DEF WritesOwn, Writes
<1>. QED
  BY <1>3, <1>4

LEMMA ProductWritesAreOwn ==
    ASSUME IInv, NEW r \in Requests, ProductWrites(r) \/ UpdateImage(r)
    PROVE  WritesOwn(r)
<1>1. /\ user' = user /\ label' = label /\ product \in [ProductIds -> ProductRows \cup {NoRow}]
      /\ pc[r] \in {"write", "row"} /\ Op(r) \in ProductOps /\ Op(r) \notin CompanyOps
      /\ Op(r) = "uploadImage" => pc[r] = "row"
      /\ \E to : Go(r, to) /\ to \in {"ok", "audit", "refused"}
      /\ Op(r) = "createProduct" => product' = product \/ product' =
             [product EXCEPT ![r] = [sku |-> Body(r).sku, company |-> who[r].company,
                         category |-> Body(r).category, brand |-> Body(r).brand,
                         image |-> Imaged(Body(r).image, Unset), active |-> TRUE]]
      /\ Op(r) # "createProduct" =>
             product' = product \/ \E new : product' = [product EXCEPT ![Id(r)] = new]
  BY DEF ProductWrites, CreateProduct, UpdateProduct, RemoveProduct, UpdateImage, At, PutProduct, Put,
         tables, ProductOps, CompanyOps, IInv, Types, CatalogueTypeOK
<1>2. pc'[r] # pc[r] /\ who[r] # NoOne
  BY <1>1, WritersAreAdmitted DEF Answers
<1>3. ASSUME NEW i \in ProductIds, product'[i] # product[i]
      PROVE  (IF product[i] # NoRow THEN product[i].company ELSE product'[i].company) = who[r].company
  <2>1. CASE Op(r) = "createProduct"
    <3>1. r \in ProductIds /\ product[r] = NoRow
      BY <1>1, <2>1, Markers DEF IInv, CreatedOnce, Flow, FlowOf, Answers
    <3>. QED
      BY <1>1, <1>3, <2>1, <3>1
  <2>2. CASE Op(r) # "createProduct"
    <3>1. ProductStays(r, Id(r))
      BY <1>1, <2>2 DEF IInv, Found, FoundBy, ProductOps
    <3>. QED
      BY <1>1, <1>3, <2>2, <3>1 DEF ProductStays
  <2>. QED
    BY <2>1, <2>2
<1>. QED
  BY <1>1, <1>2, <1>3 DEF WritesOwn, Writes

LEMMA WritesAreOwn == IInv /\ Next => (\E r \in Requests : WritesOwn(r)) \/ UNCHANGED <<user, label, product>>
<1>. SUFFICES ASSUME IInv, Next PROVE (\E r \in Requests : WritesOwn(r)) \/ UNCHANGED <<user, label, product>>
  OBVIOUS
<1>1. CASE Quiet
  BY <1>1 DEF Quiet, vars, accounts, tables, catalogue
<1>2. ASSUME NEW r \in Requests, UNCHANGED catalogue,
             \/ Arrive(r) \/ Admissions(r) \/ LookUps(r) \/ Log(r) \/ LogFails(r)
             \/ InsertCompany(r) \/ Commit(r) \/ CompanyWrites(r)
      PROVE  UNCHANGED <<user, label, product>>
  <2>1. UNCHANGED <<label, product>>
    BY <1>2 DEF catalogue
  <2>2. CASE Arrive(r) \/ Admissions(r) \/ Log(r) \/ LogFails(r)
    BY <2>1, <2>2 DEF Arrive, Admissions, AdmitCompanies, AdmitUsers, AdmitManagers, AdmitAdmins, Admit,
                      Log, LogFails, tables
  <2>3. CASE LookUps(r)
    BY <2>1, <2>3 DEF LookUps, FindByEmail, FindUser, FindCompanyNamed, FindAdminEmail, FindCompany,
                      FindNameConflict, Check, Find, tables
  <2>4. CASE InsertCompany(r) \/ Commit(r) \/ CompanyWrites(r)
    BY <2>1, <2>4 DEF InsertCompany, Commit, CompanyWrites, UpdateCompany, ToggleStatus, WriteCompany
  <2>. QED
    BY <1>2, <2>2, <2>3, <2>4
<1>3. ASSUME NEW r \in Requests,
             \/ FindLabel(r) \/ FindOne(r) \/ FindCategory(r) \/ FindBrand(r)
             \/ RemovePrevious(r) \/ WriteFile(r)
      PROVE  UNCHANGED <<user, label, product>>
  BY <1>3 DEF FindLabel, FindOne, FindCategory, FindBrand, Check, Find, RemovePrevious, WriteFile, OnDisk,
              tables, catalogue
<1>. QED
  BY <1>1, <1>2, <1>3, StepsSorted, AccountWritesAreOwn, LabelWritesAreOwn, ProductWritesAreOwn

-----------------------------------------------------------------------------
(* Image files. *)

\* Only what arrives has a call of its own; bodies that have come stay.
LEMMA OursShrinks ==
    ASSUME IInv, NEW r \in Requests, NEW to, Go(r, to), to # "idle",
           \A s \in Requests \ {r} : call'[s] = call[s], call'[r] = call[r] \/ pc[r] = "idle",
           NEW f, Ours(f)'
    PROVE  Ours(f)
<1>1. ASSUME NEW s \in Bodies(f) PROVE s \in Bodies(f)'
  <2>1. s \in Requests /\ pc[s] # "idle"
    BY <1>1 DEF Bodies
  <2>2. pc'[s] # "idle" /\ call'[s] = call[s]
    BY <2>1, GoMoves
  <2>. QED
    BY <1>1, <2>1, <2>2 DEF Bodies, Op, Body
<1>. QED
  BY <1>1 DEF Ours

\* A step that leaves files alone, and names in rows but for those of bodies.
LEMMA FilesStay ==
    ASSUME IInv, FilesInv, NEW r \in Requests, NEW to, Go(r, to), pc[r] \notin Answers, files' = files,
           \A s \in Requests \ {r} : call'[s] = call[s] /\ got'[s] = got[s],
           call'[r] = call[r] \/ pc[r] = "idle",
           \A p \in ProductIds : \A f : product'[p] # NoRow /\ product'[p].image = f /\ Ours(f) =>
               product[p] # NoRow /\ product[p].image = f,
           to # "row", to = "rm" => (Ours(got'[r]) => Attached(got'[r], Id(r))) /\ call' = call,
           to \in {"idle", "admit", "start"} => got'[r] = got[r] /\ pc[r] \in {"idle", "admit"},
           pc[r] \notin {"idle", "admit", "start"} => got'[r] = got[r],
           to = "ok" => Op(r) # "uploadImage", to # "idle"
    PROVE  FilesInv'
<1>1. pc'[r] = to /\ \A s \in Requests \ {r} : pc'[s] = pc[s]
  BY GoMoves
<1>2. \A s \in Requests \ {r} : Op(s)' = Op(s) /\ Id(s)' = Id(s)
  BY DEF Op, Id
<1>3. ASSUME NEW f \in Requests, NEW p, Attached(f, p) PROVE Attached(f, p)'
  BY <1>1, <1>2, <1>3 DEF Attached, Answers
<1>4. ASSUME NEW f, Ours(f)' PROVE Ours(f)
  BY <1>4, OursShrinks
<1>5. ImagesExist'
  <2>. SUFFICES ASSUME NEW p \in ProductIds, NEW f, product'[p] # NoRow, f = product'[p].image,
                       Ours(f)', f \notin files
                PROVE  \E s \in Requests : /\ pc'[s] \notin {"idle", "ok"}
                                           /\ Op(s)' = "uploadImage" /\ Id(s)' = p /\ got'[s] = f
    BY DEF ImagesExist, Exists, Ours
  <2>1. product[p] # NoRow /\ product[p].image = f /\ Ours(f)
    BY <1>4
  <2>2. PICK s \in Requests : /\ pc[s] \notin {"idle", "ok"}
                              /\ Op(s) = "uploadImage" /\ Id(s) = p /\ got[s] = f
    BY <2>1 DEF FilesInv, ImagesExist, Exists, Ours
  <2>3. pc[s] \notin {"admit", "start"}
    BY <2>1, <2>2, Markers DEF FilesInv, Ours
  <2>4. /\ pc'[s] \notin {"idle", "ok"} /\ Op(s)' = "uploadImage" /\ Id(s)' = p
        /\ got'[s] = f
    BY <1>1, <1>2, <2>2, <2>3 DEF Op, Id
  <2>. QED
    BY <2>4
<1>6. \A s \in Requests : pc'[s] \in {"idle", "admit", "start"} => got'[s] = NoRow
  BY <1>1 DEF FilesInv
<1>7. ASSUME NEW p \in ProductIds, NEW f, product'[p] # NoRow, f = product'[p].image, Ours(f)'
      PROVE  Attached(f, p)'
  BY <1>3, <1>4, <1>7 DEF FilesInv, Exists, Ours
<1>8. ASSUME NEW s \in Requests, NEW f, f = got'[s], NEW p, p = Id(s)', pc'[s] = "rm", Ours(f)'
      PROVE  Attached(f, p)'
  <2>1. Ours(f)
    BY <1>4, <1>8
  <2>2. CASE s # r
    BY <1>1, <1>2, <1>3, <1>8, <2>1, <2>2 DEF FilesInv, Ours
  <2>3. CASE s = r
    BY <1>1, <1>3, <1>8, <2>1, <2>3 DEF Ours, Id
  <2>. QED
    BY <2>2, <2>3
<1>9. \A s \in Requests : pc'[s] = "row" /\ Ours(s)' => s \in files'
  BY <1>1, <1>4 DEF FilesInv
<1>10. \A p \in ProductIds : Exists(product, p)' /\ Ours(product[p].image)' => Attached(product[p].image, p)'
  BY <1>7 DEF Exists, Ours, Bodies, Attached, Op, Id, Body
<1>11. \A s \in Requests : pc'[s] = "rm" /\ Ours(got[s])' => Attached(got[s], Id(s))'
  BY <1>8 DEF Ours, Bodies, Attached, Op, Id, Body
<1>. QED
  BY <1>5, <1>6, <1>9, <1>10, <1>11 DEF FilesInv

LEMMA AccountsKeepFiles ==
    ASSUME IInv, FilesInv, NEW r \in Requests, UNCHANGED catalogue,
           \/ Arrive(r) \/ Admissions(r) \/ LookUps(r) \/ Log(r) \/ LogFails(r)
           \/ UserWrites(r) \/ InsertCompany(r) \/ InsertAdmin(r) \/ Commit(r)
           \/ CompanyWrites(r) \/ Fail(r)
    PROVE  FilesInv'
<1>0. /\ product' = product /\ files' = files
      /\ got \in [Requests -> {NoRow, Unset} \cup BOOLEAN \cup Files]
      /\ call \in [Requests -> Calls \cup {NoCall}]
  BY DEF catalogue, IInv, Types
<1>1. CASE Arrive(r)
  <2>1. /\ pc[r] = "idle" /\ Go(r, "admit") /\ got' = got
        /\ \A s \in Requests \ {r} : call'[s] = call[s]
    BY <1>0, <1>1 DEF Arrive
  <2>. QED
    BY <1>0, <2>1, FilesStay DEF Answers
<1>2. CASE Admissions(r)
  <2>1. \E to \in {"start", "refused"} : Go(r, to) /\ pc[r] = "admit" /\ got' = got /\ call' = call
    BY <1>2 DEF Admissions, AdmitCompanies, AdmitUsers, AdmitManagers, AdmitAdmins, Admit, At
  <2>. QED
    BY <1>0, <2>1, FilesStay DEF Answers
<1>3. CASE LookUps(r)
  <2>1. /\ \E to \in {"write", "email", "name", "refused"} : Go(r, to)
        /\ pc[r] \in {"start", "email", "name"} /\ call' = call
        /\ \A s \in Requests \ {r} : got'[s] = got[s]
        /\ pc[r] # "start" => got'[r] = got[r]
    BY <1>0, <1>3 DEF LookUps, FindByEmail, FindUser, FindCompanyNamed, FindAdminEmail, FindCompany,
                      FindNameConflict, Check, Find, Keep, At
  <2>. QED
    BY <1>0, <2>1, FilesStay DEF Answers
<1>4. CASE Log(r) \/ LogFails(r)
  <2>1. pc[r] = "audit" /\ Go(r, "ok") /\ got' = got /\ call' = call
    BY <1>4 DEF Log, LogFails, Keep
  <2>2. Op(r) # "uploadImage"
    BY <2>1 DEF IInv, Flow, FlowOf
  <2>. QED
    BY <1>0, <2>1, <2>2, FilesStay DEF Answers
<1>5. CASE UserWrites(r) \/ InsertCompany(r) \/ InsertAdmin(r) \/ Commit(r) \/ CompanyWrites(r)
  <2>1. /\ \E to \in {"audit", "admin", "commit", "ok", "refused"} : Go(r, to)
        /\ pc[r] \in {"write", "admin", "commit"} /\ got' = got /\ call' = call
        /\ Op(r) # "uploadImage"
    BY <1>5 DEF UserWrites, InsertUser, UpdateUser, ToggleUser, InsertCompany, InsertAdmin, Commit,
                CompanyWrites, UpdateCompany, ToggleStatus, WriteUser, WriteCompany, Write, Keep, At
  <2>. QED
    BY <1>0, <2>1, FilesStay DEF Answers
<1>6. CASE Fail(r)
  <2>1. pc[r] \notin Answers \cup {"idle"} /\ Go(r, "refused") /\ got' = got /\ call' = call
    BY <1>6 DEF Fail, Keep
  <2>. QED
    BY <1>0, <2>1, FilesStay
<1>. QED
  BY <1>1, <1>2, <1>3, <1>4, <1>5, <1>6

LEMMA LabelsKeepFiles ==
    ASSUME IInv, FilesInv, NEW r \in Requests,
           FindLabel(r) \/ FindCategory(r) \/ FindBrand(r) \/ LabelWrites(r)
    PROVE  FilesInv'
<1>1. /\ files' = files /\ got' = got /\ call' = call
      /\ \E to \in {"write", "brand", "ok", "refused"} : Go(r, to)
      /\ pc[r] \in {"start", "write", "category", "brand"}
      /\ Op(r) # "uploadImage"
      /\ \/ product' = product
         \/ product' = [p \in ProductIds |->
                          IF Exists(product, p) /\ product[p].brand = Id(r)
                          THEN [product[p] EXCEPT !.brand = Unset] ELSE product[p]]
  BY DEF FindLabel, FindCategory, FindBrand, LabelWrites, CreateLabel, RenameLabel, RemoveCategory,
         RemoveBrand, Check, Put, Keep, At, catalogue, AfterCategory
<1>2. ASSUME NEW p \in ProductIds, product'[p] # NoRow
      PROVE  product[p] # NoRow /\ product'[p].image = product[p].image
  <2>1. product[p] \in ProductRows \cup {NoRow}
    BY DEF IInv, Types, CatalogueTypeOK
  <2>2. product'[p] = product[p] \/ (product[p] # NoRow /\ product'[p] = [product[p] EXCEPT !.brand = Unset])
    BY <1>1 DEF Exists
  <2>. QED
    BY <1>2, <2>1, <2>2 DEF ProductRows
<1>. QED
  BY <1>1, <1>2, FilesStay DEF Answers

LEMMA ProductsKeepFiles ==
    ASSUME IInv, FilesInv, NEW r \in Requests, ProductWrites(r)
    PROVE  FilesInv'
<1>1. /\ files' = files /\ got' = got /\ call' = call /\ pc[r] = "write"
      /\ Go(r, "audit") \/ Go(r, "refused")
      /\ Op(r) \in {"createProduct", "updateProduct", "removeProduct"}
  BY DEF ProductWrites, CreateProduct, UpdateProduct, RemoveProduct, PutProduct, Put, Keep, At
<1>2. ASSUME NEW p \in ProductIds, NEW f, product'[p] # NoRow, product'[p].image = f, Ours(f)
      PROVE  product[p] # NoRow /\ product[p].image = f
  <2>1. product \in [ProductIds -> ProductRows \cup {NoRow}]
    BY DEF IInv, Types, CatalogueTypeOK
  \* What this body names is not ours.
  <2>2. Op(r) \in {"createProduct", "updateProduct"} => f # Body(r).image
    BY <1>1, <1>2 DEF Ours, Bodies
  <2>3. f # Unset
    BY <1>2, Markers DEF Ours
  <2>4. CASE product' = product
    BY <1>2, <2>4
  <2>5. CASE CreateProduct(r) /\ product' # product
    <3>1. product' = [product EXCEPT ![r] = [sku |-> Body(r).sku, company |-> who[r].company,
                         category |-> Body(r).category, brand |-> Body(r).brand,
                         image |-> Imaged(Body(r).image, Unset), active |-> TRUE]]
      BY <2>5 DEF CreateProduct, PutProduct, Put
    <3>2. f # Imaged(Body(r).image, Unset)
      BY <2>2, <2>3, <2>5 DEF Imaged, Given, CreateProduct, At
    <3>. QED
      BY <1>2, <2>1, <3>1, <3>2
  <2>6. CASE (UpdateProduct(r) \/ RemoveProduct(r)) /\ product' # product
    <3>1. ProductStays(r, Id(r)) /\ product[Id(r)] \in ProductRows
      BY <1>1, <2>1, <2>6 DEF UpdateProduct, RemoveProduct, At, IInv, Found, FoundBy, ProductStays
    <3>2. \E new : /\ product' = [product EXCEPT ![Id(r)] = new]
                   /\ \/ new.image = product[Id(r)].image
                      \/ UpdateProduct(r) /\ new.image = Imaged(Body(r).image, product[Id(r)].image)
      BY <2>6, <3>1 DEF UpdateProduct, RemoveProduct, PutProduct, Put, ProductRows
    <3>3. /\ p # Id(r) => product'[p] = product[p]
          /\ \/ product'[Id(r)].image = product[Id(r)].image
             \/ UpdateProduct(r) /\ product'[Id(r)].image = Imaged(Body(r).image, product[Id(r)].image)
      BY <2>1, <3>1, <3>2 DEF ProductStays
    <3>4. UpdateProduct(r) => Op(r) = "updateProduct"
      BY DEF UpdateProduct, At
    <3>. QED
      BY <1>2, <2>2, <2>3, <3>1, <3>3, <3>4 DEF ProductStays, Imaged, Given
  <2>. QED
    BY <2>4, <2>5, <2>6 DEF ProductWrites
<1>. QED
  BY <1>1, <1>2, FilesStay DEF Answers

LEMMA FindOneKeepsFiles ==
    ASSUME IInv, FilesInv, NEW r \in Requests, FindOne(r)
    PROVE  FilesInv'
<1>1. /\ files' = files /\ product' = product /\ call' = call /\ pc[r] = "start"
      /\ Op(r) \in ProductOps \ {"createProduct"}
      /\ \A s \in Requests \ {r} : got'[s] = got[s]
      /\ \/ Go(r, "refused")
         \/ Go(r, AfterFindOne(r)) /\ OwnProduct(r) /\ got' = [got EXCEPT ![r] = product[Id(r)].image]
  BY DEF FindOne, Find, Keep, At, catalogue, IInv, Types
<1>2. CASE Go(r, "refused")
  BY <1>1, <1>2, FilesStay DEF Answers
<1>3. CASE Go(r, AfterFindOne(r)) /\ OwnProduct(r) /\ got' = [got EXCEPT ![r] = product[Id(r)].image]
  <2>1. AfterFindOne(r) \in {"category", "brand", "write", "rm", "file"}
    BY <1>1 DEF AfterFindOne, AfterCategory, ProductOps
  <2>2. Id(r) \in ProductIds
    BY <1>1, ACall, CallShapes DEF ProductOps
  <2>3. got'[r] = product[Id(r)].image
    BY <1>3 DEF IInv, Types
  <2>4. Ours(got'[r]) => Attached(got'[r], Id(r))
    BY <1>3, <2>2, <2>3 DEF OwnProduct, FilesInv
  <2>. QED
    BY <1>1, <1>3, <2>1, <2>4, FilesStay DEF Answers
<1>. QED
  BY <1>1, <1>2, <1>3

LEMMA UploadsKeepFiles ==
    ASSUME IInv, FilesInv, NEW r \in Requests, RemovePrevious(r) \/ WriteFile(r) \/ UpdateImage(r)
    PROVE  FilesInv'
<1>0. /\ UNCHANGED <<got, call>> /\ Op(r) = "uploadImage"
      /\ product \in [ProductIds -> ProductRows \cup {NoRow}] /\ files \subseteq Files
  BY DEF RemovePrevious, WriteFile, UpdateImage, OnDisk, Put, Keep, At, IInv, Types, CatalogueTypeOK
<1>1. \A s \in Requests : Op(s)' = Op(s) /\ Id(s)' = Id(s)
  BY <1>0 DEF Op, Id
<1>2. PICK to \in {"file", "row", "ok"} : Go(r, to) /\ pc[r] \in {"rm", "file", "row"}
  BY DEF RemovePrevious, WriteFile, UpdateImage, OnDisk, Put, At
<1>3. pc'[r] = to /\ \A s \in Requests \ {r} : pc'[s] = pc[s]
  BY <1>2, GoMoves
<1>4. ASSUME NEW f \in Requests, NEW p, Attached(f, p) PROVE Attached(f, p)'
  BY <1>1, <1>2, <1>3, <1>4 DEF Attached
<1>5. ASSUME NEW f, Ours(f)' PROVE Ours(f)
  BY <1>0, <1>2, <1>5, OursShrinks
<1>6. \A s \in Requests : pc'[s] \in {"idle", "admit", "start"} => got'[s] = NoRow
  BY <1>0, <1>2, <1>3 DEF FilesInv
<1>7. \A s \in Requests : pc'[s] = "rm" /\ Ours(got[s])' => Attached(got[s], Id(s))'
  <2>1. ASSUME NEW s \in Requests, NEW f, f = got[s], NEW p, p = Id(s), pc'[s] = "rm", Ours(f)'
        PROVE  Attached(f, p)'
    BY <1>1, <1>2, <1>3, <1>4, <1>5, <2>1 DEF FilesInv, Ours
  <2>. QED
    BY <1>0, <2>1 DEF Ours, Bodies, Attached, Op, Id, Body
<1>8. CASE RemovePrevious(r)
  <2>1. pc[r] = "rm" /\ pc'[r] = "file" /\ files' = files \ {got[r]} /\ product' = product
    BY <1>8, GoMoves DEF RemovePrevious, OnDisk, At
  <2>2. \A s \in Requests : pc'[s] = "row" /\ Ours(s)' => s \in files'
    <3>. SUFFICES ASSUME NEW s \in Requests, pc'[s] = "row", Ours(s)' PROVE s \in files'
      OBVIOUS
    <3>1. pc[s] = "row" /\ Ours(s) /\ s \in files
      BY <1>3, <1>5, <2>1 DEF FilesInv
    <3>2. s # got[r]
      BY <2>1, <3>1 DEF FilesInv, Attached
    <3>. QED
      BY <2>1, <3>1, <3>2
  <2>3. ASSUME NEW p \in ProductIds, NEW f, product[p] # NoRow, f = product[p].image, Ours(f)'
        PROVE  /\ Attached(f, p)'
               /\ \/ f \in files'
                  \/ \E s \in Requests : /\ pc'[s] \notin {"idle", "ok"}
                                         /\ Op(s) = "uploadImage" /\ Id(s) = p /\ got[s] = f
    <3>1. Ours(f) /\ Attached(f, p) /\ Attached(f, p)'
      BY <1>4, <1>5, <2>3 DEF FilesInv, Exists, Ours
    <3>2. CASE f = got[r]
      <4>1. Id(r) = p
        BY <2>1, <3>1, <3>2 DEF FilesInv, Attached
      <4>. QED
        BY <1>0, <2>1, <3>1, <3>2, <4>1
    <3>3. CASE f # got[r] /\ f \in files
      BY <2>1, <3>1, <3>3
    <3>4. CASE f \notin files
      <4>1. PICK s \in Requests : /\ pc[s] \notin {"idle", "ok"} /\ Op(s) = "uploadImage"
                                  /\ Id(s) = p /\ got[s] = f
        BY <2>3, <3>1, <3>4 DEF FilesInv, ImagesExist, Exists, Ours
      <4>. QED
        BY <1>3, <2>1, <3>1, <4>1
    <3>. QED
      BY <3>2, <3>3, <3>4
  <2>4. ImagesExist'
    BY <1>0, <1>1, <2>1, <2>3 DEF ImagesExist, Exists, Ours, Bodies, Op, Id, Body
  <2>5. \A p \in ProductIds : Exists(product, p)' /\ Ours(product[p].image)' =>
            Attached(product[p].image, p)'
    BY <2>1, <2>3 DEF Exists, Ours, Bodies, Attached, Op, Id, Body
  <2>. QED
    BY <1>6, <1>7, <2>2, <2>4, <2>5 DEF FilesInv
<1>9. CASE WriteFile(r)
  <2>1. pc[r] = "file" /\ pc'[r] = "row" /\ files' = files \cup {r} /\ product' = product
    BY <1>9, GoMoves DEF WriteFile, OnDisk, At
  <2>2. \A s \in Requests : pc'[s] = "row" /\ Ours(s)' => s \in files'
    BY <1>3, <1>5, <2>1 DEF FilesInv
  <2>3. ASSUME NEW p \in ProductIds, NEW f, product[p] # NoRow, f = product[p].image, Ours(f)'
        PROVE  /\ Attached(f, p)'
               /\ \/ f \in files'
                  \/ \E s \in Requests : /\ pc'[s] \notin {"idle", "ok"}
                                         /\ Op(s) = "uploadImage" /\ Id(s) = p /\ got[s] = f
    <3>1. Ours(f) /\ Attached(f, p)'
      BY <1>4, <1>5, <2>3 DEF FilesInv, Exists, Ours
    <3>2. \/ f \in files
          \/ \E s \in Requests : /\ pc[s] \notin {"idle", "ok"} /\ Op(s) = "uploadImage"
                                 /\ Id(s) = p /\ got[s] = f
      BY <2>3, <3>1 DEF FilesInv, ImagesExist, Exists, Ours
    <3>. QED
      BY <1>3, <2>1, <3>1, <3>2
  <2>4. ImagesExist'
    BY <1>0, <1>1, <2>1, <2>3 DEF ImagesExist, Exists, Ours, Bodies, Op, Id, Body
  <2>5. \A p \in ProductIds : Exists(product, p)' /\ Ours(product[p].image)' =>
            Attached(product[p].image, p)'
    BY <2>1, <2>3 DEF Exists, Ours, Bodies, Attached, Op, Id, Body
  <2>. QED
    BY <1>6, <1>7, <2>2, <2>4, <2>5 DEF FilesInv
<1>10. CASE UpdateImage(r)
  <2>. DEFINE i == Id(r)
  <2>1. pc[r] = "row" /\ pc'[r] = "ok" /\ files' = files /\ product' = [product EXCEPT ![i].image = r]
    BY <1>10, GoMoves DEF UpdateImage, Put, At, Keep
  <2>2. ProductStays(r, i) /\ (Ours(r) => r \in files)
    BY <1>0, <2>1 DEF IInv, Found, FoundBy, FilesInv
  <2>3. /\ i \in ProductIds /\ product[i] \in ProductRows
        /\ product'[i].image = r /\ \A p \in ProductIds \ {i} : product'[p] = product[p]
    BY <1>0, <2>1, <2>2 DEF ProductStays, ProductRows
  <2>4. \A s \in Requests : pc'[s] = "row" /\ Ours(s)' => s \in files'
    BY <1>3, <1>5, <2>1 DEF FilesInv
  <2>5. ASSUME NEW p \in ProductIds, NEW f, product'[p] # NoRow, f = product'[p].image, Ours(f)'
        PROVE  /\ Attached(f, p)'
               /\ \/ f \in files'
                  \/ \E s \in Requests : /\ pc'[s] \notin {"idle", "ok"}
                                         /\ Op(s) = "uploadImage" /\ Id(s) = p /\ got[s] = f
    <3>1. Ours(f)
      BY <1>5, <2>5
    <3>2. CASE p = i
      BY <1>0, <1>1, <2>1, <2>2, <2>3, <2>5, <3>1, <3>2 DEF Attached
    <3>3. CASE p # i
      <4>1. product[p] # NoRow /\ product[p].image = f
        BY <2>3, <2>5, <3>3
      <4>2. Attached(f, p)'
        BY <1>4, <3>1, <4>1 DEF FilesInv, Exists, Ours
      <4>3. \/ f \in files
            \/ \E s \in Requests : /\ pc[s] \notin {"idle", "ok"} /\ Op(s) = "uploadImage"
                                   /\ Id(s) = p /\ got[s] = f
        BY <3>1, <4>1 DEF FilesInv, ImagesExist, Exists, Ours
      \* r itself has given up no name of another product.
      <4>4. \A s \in Requests : Id(s) = p => s # r
        BY <3>3
      <4>. QED
        BY <1>3, <2>1, <4>2, <4>3, <4>4
    <3>. QED
      BY <3>2, <3>3
  <2>6. ImagesExist'
    BY <1>0, <1>1, <2>5 DEF ImagesExist, Exists, Ours, Bodies, Op, Id, Body
  <2>7. \A p \in ProductIds : Exists(product, p)' /\ Ours(product[p].image)' =>
            Attached(product[p].image, p)'
    BY <2>5 DEF Exists, Ours, Bodies, Attached, Op, Id, Body
  <2>. QED
    BY <1>6, <1>7, <2>4, <2>6, <2>7 DEF FilesInv
<1>. QED
  BY <1>8, <1>9, <1>10

LEMMA InitEstablishesFilesInv == Init => FilesInv
<1>. SUFFICES ASSUME Init PROVE FilesInv
  OBVIOUS
<1>1. /\ \A p \in ProductIds : Exists(product, p) => p \in DOMAIN FirstProducts
                                   /\ product[p] = FirstProducts[p]
      /\ \A r \in Requests : pc[r] = "idle" /\ got[r] = NoRow
  BY Markers DEF Init, AccountsInit, Exists, ProductIds
<1>2. ASSUME NEW p \in ProductIds, Exists(product, p)
      PROVE  product[p].image \notin Requests
  BY <1>1, <1>2, FirstCatalogueFits
<1>. QED
  BY <1>1, <1>2 DEF FilesInv, ImagesExist, Ours

LEMMA NextPreservesFilesInv == IInv /\ FilesInv /\ [Next]_vars => FilesInv'
<1>. SUFFICES ASSUME IInv, FilesInv, [Next]_vars PROVE FilesInv'
  OBVIOUS
<1>1. CASE UNCHANGED vars \/ Quiet
  <2>1. UNCHANGED <<pc, call, got, product, files>>
    BY <1>1 DEF Quiet, vars, accounts, catalogue
  <2>. QED
    BY <2>1 DEF FilesInv, ImagesExist, Ours, Bodies, Attached, Exists, Op, Id, Body
<1>. QED
  BY <1>1, StepsSorted, AccountsKeepFiles, LabelsKeepFiles, ProductsKeepFiles, FindOneKeepsFiles,
     UploadsKeepFiles

-----------------------------------------------------------------------------
(* Theorems *)

\* The inductive invariant: rows, what handlers have found, and what for.
THEOREM Invariance == Spec => []IInv
  BY InitEstablishesIInv, NextPreservesIInv, PTL DEF Spec

\* Rows and the handlers' variables keep their types.
THEOREM TypeCorrectness == Spec => []CatalogueTypeOK
  BY Invariance, PTL DEF IInv, Types

\* However many requests find an email or a slug free at once, it is given once.
THEOREM IdentitiesAreUnique == Spec => []IdentitiesDiffer
  BY Invariance, PTL DEF IInv

\* No creation of a company and its administrator is seen halfway.
THEOREM CreationIsWhole == Spec => []CompaniesHaveUsers
  BY Invariance, PTL DEF IInv

\* Whatever is renamed or removed while a product is written, the product names
\* a category and a brand of its company.
THEOREM ReferencesHold == Spec => []ProductsInTheirCatalogue
  BY Invariance, PTL DEF IInv

\* An audit row is about a record of the company it is filed under.
THEOREM AuditIsIsolated == Spec => []AuditStaysInCompany
<1>1. IInv => AuditStaysInCompany
  BY DEF IInv, Audited, AuditStaysInCompany, Subject, UserStays, ProductStays, Committed, Exists,
         Types, CatalogueTypeOK
<1>. QED
  BY <1>1, Invariance, PTL

\* No request changes a row of another company than the caller's.
THEOREM WritesAreIsolated == Spec => WritesStayInCompany
<1>1. ASSUME IInv, Next
      PROVE  /\ \A i \in UserIds : user'[i] # user[i] => \E r \in Requests :
                    Writes(r, IF user[i] # NoRow THEN user[i].company ELSE user'[i].company)
             /\ \A i \in LabelIds : label'[i] # label[i] => \E r \in Requests :
                    Writes(r, IF label[i] # NoRow THEN label[i].company ELSE label'[i].company)
             /\ \A i \in ProductIds : product'[i] # product[i] => \E r \in Requests :
                    Writes(r, IF product[i] # NoRow THEN product[i].company ELSE product'[i].company)
  BY <1>1, WritesAreOwn DEF WritesOwn
<1>. QED
  BY <1>1, Invariance, PTL DEF Spec, WritesStayInCompany, Writes

\* However uploads of one product overtake each other, an upload that its row
\* names is there, unless another upload of the product has read its name and is
\* unfinished or has failed, or a body has given the name to a row.
THEOREM ImagesHold == Spec => []ImagesExist
<1>1. Init => IInv /\ FilesInv
  BY InitEstablishesIInv, InitEstablishesFilesInv
<1>2. (IInv /\ FilesInv) /\ [Next]_vars => (IInv /\ FilesInv)'
  BY NextPreservesIInv, NextPreservesFilesInv
<1>3. FilesInv => ImagesExist
  BY DEF FilesInv
<1>. QED
  BY <1>1, <1>2, <1>3, PTL DEF Spec
=============================================================================
