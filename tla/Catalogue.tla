------------------------------- MODULE Catalogue -------------------------------
(***************************************************************************)
(* The catalogue of a company beside Accounts: categories and brands,      *)
(* products, and the image files the rows of products name.                *)
(***************************************************************************)
EXTENDS Accounts

CONSTANTS
    FirstLabels, FirstProducts,
    FirstFiles,     \* files there are at the start
    NoFiles,        \* names, free text in a body, of no file at the start
    Skus

VARIABLES
    label,      \* the rows of categories and of brands
    product,
    files       \* uploads/products on the disk

catalogue == <<label, product, files>>
vars == <<accounts, catalogue>>

LabelIds == DOMAIN FirstLabels \cup Requests
ProductIds == DOMAIN FirstProducts \cup Requests
Files == FirstFiles \cup NoFiles \cup Requests

Kinds == {"category", "brand"}
LabelRows == [kind : Kinds, company : CompanyIds, name : Names]
ProductRows == [sku : Skus, company : CompanyIds, category : LabelIds,
                brand : LabelIds \cup {Unset}, image : Files \cup {Unset}, active : BOOLEAN]

LabelOps == {"createLabel", "renameLabel", "removeLabel"}
ProductOps == {"createProduct", "updateProduct", "removeProduct", "uploadImage"}

\* imageUrl is any text, "none" if it is empty or null, Unset if it is left out.
CatalogueCalls ==
    UNION {
      [op: {"createLabel"}, by: UserIds, id: {Unset}, body: [kind: Kinds, name: Names]],
      [op: {"renameLabel"}, by: UserIds, id: LabelIds, body: [kind: Kinds, name: Names]],
      [op: {"removeLabel"}, by: UserIds, id: LabelIds, body: [kind: Kinds]],
      [op: {"createProduct"}, by: UserIds, id: {Unset},
       body: [sku: Skus, category: LabelIds, brand: LabelIds \cup {Unset},
              image: Files \cup {"none", Unset}]],
      [op: {"updateProduct"}, by: UserIds, id: ProductIds,
       body: [sku: Skus \cup {Unset}, category: LabelIds \cup {Unset},
              brand: LabelIds \cup {Unset}, image: Files \cup {"none", Unset}]],
      [op: {"removeProduct"}, by: UserIds, id: ProductIds, body: {Unset}],
      [op: {"uploadImage"}, by: UserIds, id: ProductIds, body: [file: {"image", "other"}]]}

ASSUME CallsAreCalls == Calls \subseteq AccountCalls \cup CatalogueCalls
ASSUME FirstCatalogue ==
    /\ \A l \in DOMAIN FirstLabels : FirstLabels[l] \in LabelRows
    /\ \A p \in DOMAIN FirstProducts : FirstProducts[p] \in ProductRows
ASSUME FirstCatalogueFits ==
    \A p \in DOMAIN FirstProducts :
        LET row == FirstProducts[p]
            Owns(i, kind) == /\ i \in DOMAIN FirstLabels
                             /\ FirstLabels[i].company = row.company /\ FirstLabels[i].kind = kind
        IN  /\ Owns(row.category, "category")
            /\ row.brand # Unset => Owns(row.brand, "brand")
            /\ row.image \notin Requests
ASSUME NewRequests ==
    /\ Requests \cap (DOMAIN FirstLabels \cup DOMAIN FirstProducts
                     \cup FirstFiles \cup NoFiles) = {}
    /\ NoRow \notin LabelRows \cup ProductRows \cup Files \cup {Unset}
ASSUME UnsetNamesNothing == Unset \notin LabelIds \cup ProductIds \cup Files \cup Skus

AdmitManagers(r) == Admit(r, (LabelOps \cup ProductOps) \ {"removeLabel", "removeProduct"},
                          {"ADMIN", "MANAGER"})
AdmitAdmins(r) == Admit(r, {"removeLabel", "removeProduct"}, {"ADMIN"})

-----------------------------------------------------------------------------
(* CategoriesService and BrandsService *)

\* Mutation: looked up by id alone.
AnyLabel(r, i, kind) == Exists(label, i) /\ label[i].kind = kind

OwnLabel(r, i, kind) ==
    Exists(label, i) /\ label[i].kind = kind /\ label[i].company = who[r].company

\* A write answers, or the database refuses it: a unique index (P2002), a
\* foreign key (P2003), a row that is gone (P2025).
Put(r, allowed, table, new, next) ==
    /\ Go(r, IF allowed THEN next ELSE "refused")
    /\ table' = IF allowed THEN new ELSE table
    /\ UNCHANGED <<tables, got>> /\ Keep

UniqueLabel(r, i, new) ==
    \A j \in LabelIds \ {i} : Exists(label, j) =>
        <<label[j].kind, label[j].company, label[j].name>> # <<new.kind, new.company, new.name>>

CreateLabel(r) ==
    /\ At(r, "start", {"createLabel"})
    /\ LET new == [kind |-> Body(r).kind, company |-> who[r].company, name |-> Body(r).name]
       IN  Put(r, UniqueLabel(r, r, new), label, [label EXCEPT ![r] = new], "ok")
    /\ UNCHANGED <<product, files>>

FindLabel(r) ==
    /\ At(r, "start", {"renameLabel", "removeLabel"})
    /\ Check(r, OwnLabel(r, Id(r), Body(r).kind), "write")
    /\ UNCHANGED catalogue

RenameLabel(r) ==
    /\ At(r, "write", {"renameLabel"})
    /\ LET new == [label[Id(r)] EXCEPT !.name = Body(r).name]
       IN  Put(r, Exists(label, Id(r)) /\ UniqueLabel(r, Id(r), new),
               label, [label EXCEPT ![Id(r)] = new], "ok")
    /\ UNCHANGED <<product, files>>

\* products.categoryId restricts; removed products count.
Restricts(i) == \E p \in ProductIds : Exists(product, p) /\ product[p].category = i

RemoveCategory(r) ==
    /\ At(r, "write", {"removeLabel"}) /\ Body(r).kind = "category"
    /\ Put(r, Exists(label, Id(r)) /\ ~Restricts(Id(r)),
           label, [label EXCEPT ![Id(r)] = NoRow], "ok")
    /\ UNCHANGED <<product, files>>

\* products.brandId is ON DELETE SET NULL.
RemoveBrand(r) ==
    /\ At(r, "write", {"removeLabel"}) /\ Body(r).kind = "brand"
    /\ Put(r, Exists(label, Id(r)), label, [label EXCEPT ![Id(r)] = NoRow], "ok")
    /\ product' = [p \in ProductIds |->
                     IF Exists(product, p) /\ product[p].brand = Id(r)
                     THEN [product[p] EXCEPT !.brand = Unset] ELSE product[p]]
    /\ UNCHANGED files

-----------------------------------------------------------------------------
(* ProductsService *)

OwnProduct(r) ==
    Exists(product, Id(r)) /\ product[Id(r)].company = who[r].company /\ product[Id(r)].active

\* ensureCatalogOwnership asks for what the body names.
AfterCategory(r) == IF Body(r).brand # Unset THEN "brand" ELSE "write"
AfterFindOne(r) ==
    CASE Op(r) = "updateProduct" ->
             IF Body(r).category # Unset THEN "category" ELSE AfterCategory(r)
      [] Op(r) = "removeProduct" -> "write"
      [] Op(r) = "uploadImage" -> IF product[Id(r)].image # Unset THEN "rm" ELSE "file"

FindOne(r) ==
    /\ At(r, "start", ProductOps \ {"createProduct"})
    /\ LET found == Body(r) # [file |-> "other"] /\ OwnProduct(r)
       IN  Find(r, found, product[Id(r)].image, IF found THEN AfterFindOne(r) ELSE "refused")
    /\ UNCHANGED catalogue

FindCategory(r) ==
    /\ At(r, "start", {"createProduct"}) \/ At(r, "category", {"updateProduct"})
    /\ Check(r, OwnLabel(r, Body(r).category, "category"), AfterCategory(r))
    /\ UNCHANGED catalogue

FindBrand(r) ==
    /\ At(r, "brand", {"createProduct", "updateProduct"})
    /\ Check(r, OwnLabel(r, Body(r).brand, "brand"), "write")
    /\ UNCHANGED catalogue

UniqueSku(i, new) ==
    \A j \in ProductIds \ {i} : Exists(product, j) =>
        <<product[j].company, product[j].sku>> # <<new.company, new.sku>>

References(new) == Exists(label, new.category) /\ (new.brand # Unset => Exists(label, new.brand))

PutProduct(r, i, new) ==
    /\ Put(r, UniqueSku(i, new) /\ References(new), product, [product EXCEPT ![i] = new], "audit")
    /\ UNCHANGED <<label, files>>

Imaged(new, old) == IF new = "none" THEN Unset ELSE Given(new, old)

CreateProduct(r) ==
    /\ At(r, "write", {"createProduct"})
    /\ PutProduct(r, r, [sku |-> Body(r).sku, company |-> who[r].company,
                         category |-> Body(r).category, brand |-> Body(r).brand,
                         image |-> Imaged(Body(r).image, Unset), active |-> TRUE])

UpdateProduct(r) ==
    /\ At(r, "write", {"updateProduct"})
    /\ PutProduct(r, Id(r), [product[Id(r)] EXCEPT !.sku = Given(Body(r).sku, @),
                                                   !.category = Given(Body(r).category, @),
                                                   !.brand = Given(Body(r).brand, @),
                                                   !.image = Imaged(Body(r).image, @)])

RemoveProduct(r) ==
    /\ At(r, "write", {"removeProduct"})
    /\ PutProduct(r, Id(r), [product[Id(r)] EXCEPT !.active = FALSE])

-----------------------------------------------------------------------------
(* uploadImage: the disk first, the row last. *)

OnDisk(r, statement, new, next) ==
    /\ At(r, statement, {"uploadImage"})
    /\ files' = new
    /\ Go(r, next)
    /\ UNCHANGED <<tables, got, label, product>> /\ Keep

\* What the row named, be it an upload of this product or not.
RemovePrevious(r) == OnDisk(r, "rm", files \ {got[r]}, "file")

\* Mutation: a failure to write is ignored.
WriteIfPossible(r) ==
    OnDisk(r, "file", files \cup {r}, "row") \/ OnDisk(r, "file", files, "row")

WriteFile(r) == OnDisk(r, "file", files \cup {r}, "row")

UpdateImage(r) ==
    /\ At(r, "row", {"uploadImage"})
    /\ Put(r, TRUE, product, [product EXCEPT ![Id(r)].image = r], "ok")
    /\ UNCHANGED <<label, files>>

-----------------------------------------------------------------------------
Labels(r) == CreateLabel(r) \/ FindLabel(r) \/ RenameLabel(r) \/ RemoveCategory(r) \/ RemoveBrand(r)
Products(r) == FindOne(r) \/ FindCategory(r) \/ FindBrand(r)
               \/ CreateProduct(r) \/ UpdateProduct(r) \/ RemoveProduct(r)
               \/ RemovePrevious(r) \/ WriteFile(r) \/ UpdateImage(r)

Init ==
    /\ AccountsInit
    /\ label = [i \in LabelIds |-> IF i \in Requests THEN NoRow ELSE FirstLabels[i]]
    /\ product = [i \in ProductIds |-> IF i \in Requests THEN NoRow ELSE FirstProducts[i]]
    /\ files = FirstFiles

Quiet == (\A r \in Requests : pc[r] \in Answers) /\ UNCHANGED vars

Next ==
    \/ \E r \in Requests :
         \/ (AccountStep(r) \/ AdmitManagers(r) \/ AdmitAdmins(r)) /\ UNCHANGED catalogue
         \/ Labels(r) \/ Products(r)
    \/ Quiet

Spec == Init /\ [][Next]_vars

-----------------------------------------------------------------------------
(* Properties. *)

Statements == {"idle", "admit", "start", "name", "email", "write", "admin", "commit", "audit",
               "category", "brand", "rm", "file", "row"} \cup Answers

\* Rows and the variables of the handlers keep their types.
CatalogueTypeOK ==
    /\ company \in [CompanyIds -> CompanyRows \cup {NoRow}]
    /\ user \in [UserIds -> UserRows \cup {NoRow}]
    /\ \A r \in Requests : pending[r] \subseteq {r}
    /\ audit \subseteq Requests
    /\ pc \in [Requests -> Statements]
    /\ label \in [LabelIds -> LabelRows \cup {NoRow}]
    /\ product \in [ProductIds -> ProductRows \cup {NoRow}]
    /\ files \subseteq Files

\* A product's category and brand exist and are its company's, although they
\* were looked up before the row was written, one by one, and may be removed
\* or renamed meanwhile.
ProductsInTheirCatalogue ==
    \A p \in ProductIds : Exists(product, p) =>
        /\ Exists(label, product[p].category)
        /\ label[product[p].category].company = product[p].company
        /\ label[product[p].category].kind = "category"
        /\ product[p].brand # Unset =>
             /\ Exists(label, product[p].brand)
             /\ label[product[p].brand].company = product[p].company
             /\ label[product[p].brand].kind = "brand"

Bodies(f) ==
    {r \in Requests : /\ pc[r] # "idle" /\ Op(r) \in {"createProduct", "updateProduct"}
                      /\ Body(r).image = f}

\* An upload that a row names is on the disk, or another upload of that product
\* has read its name and has not finished or has failed: uploads beside each
\* other leave files behind, but never a row without its file.  Names that a
\* body has given to a row, or that rows had at the start, are excepted: nothing
\* stops a body from naming a file that is not there or is another row's, which
\* the next upload then removes.
ImagesExist ==
    \A p \in ProductIds : Exists(product, p) =>
        \/ product[p].image \notin Requests \/ Bodies(product[p].image) # {}
        \/ product[p].image \in files
        \/ \E r \in Requests : /\ pc[r] \notin {"idle", "ok"}
                               /\ Op(r) = "uploadImage" /\ Id(r) = p /\ got[r] = product[p].image

\* An audit row is about a record of the company it is filed under, which is
\* the only company that will read it.
AuditStaysInCompany ==
    \A r \in audit :
        LET i == IF Id(r) = Unset THEN r ELSE Id(r)
            row == IF Op(r) \in UserOps THEN user[i] ELSE product[i]
        IN  row # NoRow /\ row.company = who[r].company

\* A row is changed on behalf of its own company only, also by what a foreign
\* key does to other rows; companies and their first administrators by a
\* SUPERADMIN.
WritesStayInCompany ==
    [][LET Writer(c) == \E r \in Requests :
             /\ pc'[r] # pc[r] /\ who[r] # NoOne
             /\ IF Op(r) \in CompanyOps THEN who[r].role = "SUPERADMIN" ELSE who[r].company = c
           Changed(new, old, ids) == \A i \in ids : new[i] # old[i] =>
             Writer(IF old[i] # NoRow THEN old[i].company ELSE new[i].company)
       IN  /\ Changed(user', user, UserIds)
           /\ Changed(label', label, LabelIds)
           /\ Changed(product', product, ProductIds)
      ]_vars

\* A brand is not removed while products name it, as the answer that refuses
\* says ("No se puede eliminar: hay productos asociados a esta marca").
BrandsInUseStay ==
    [][\A l \in LabelIds : label[l] # NoRow /\ label'[l] = NoRow =>
         \A p \in ProductIds : Exists(product, p) => product[p].brand # l]_vars
=============================================================================
