----------------------------- MODULE MCCatalogue -----------------------------
(***************************************************************************)
(* Small instances of Catalogue for TLC: two companies, a superadmin, and  *)
(* calls that meet on one row each.                                        *)
(***************************************************************************)
EXTENDS Catalogue, TLC

CONSTANTS acme, globex, root, ana, eva, max, red, blue, shoes, nike, hats, air, cap, old, gone, q1, q2, q3

MCSlugOf == [n \in Names |-> n]
MCCompanies == [c \in {acme, globex} |-> [name |-> c, slug |-> c, active |-> TRUE]]
User(role, c, e) == [email |-> e, role |-> role, company |-> c, active |-> TRUE]
MCUsers == [u \in {root, ana, eva, max} |->
    CASE u = root -> User("SUPERADMIN", NoCompany, root)
      [] u = ana -> User("ADMIN", acme, ana)
      [] u = eva -> User("MANAGER", acme, eva)
      [] u = max -> User("ADMIN", globex, max)]
Label(kind, c, n) == [kind |-> kind, company |-> c, name |-> n]
MCLabels == [l \in {shoes, nike, hats} |->
    CASE l = shoes -> Label("category", acme, red)
      [] l = nike -> Label("brand", acme, red)
      [] l = hats -> Label("category", globex, red)]
Product(c, k, b, i) ==
    [sku |-> red, company |-> c, category |-> k, brand |-> b, image |-> i, active |-> TRUE]
MCProducts == [p \in {air, cap} |->
    IF p = air THEN Product(acme, shoes, nike, old) ELSE Product(globex, hats, Unset, gone)]

New(k, b, i) == [sku |-> blue, category |-> k, brand |-> b, image |-> i]
Change(k, b, i) == [sku |-> Unset, category |-> k, brand |-> b, image |-> i]

AccountMix ==
    {Call("createCompany", root, Unset, [name |-> n, email |-> red]) : n \in {red, blue}} \cup
    {Call("updateCompany", root, acme, [name |-> red]),
     Call("toggleStatus", root, acme, Unset),
     Call("createUser", max, Unset, [email |-> red, role |-> "VIEWER"]),
     Call("createUser", eva, Unset, [email |-> red, role |-> "VIEWER"]),
     Call("updateUser", ana, eva, [email |-> red, role |-> Unset]),
     Call("updateUser", max, eva, [email |-> Unset, role |-> "VIEWER"]),
     Call("toggleUser", ana, eva, Unset)}

CatalogueMix ==
    {Call("createLabel", eva, Unset, [kind |-> "brand", name |-> red]),
     Call("createLabel", root, Unset, [kind |-> "brand", name |-> blue]),
     Call("renameLabel", eva, shoes, [kind |-> "category", name |-> blue]),
     Call("removeLabel", ana, shoes, [kind |-> "category"]),
     Call("removeLabel", ana, nike, [kind |-> "brand"]),
     Call("removeLabel", max, hats, [kind |-> "category"]),
     Call("createProduct", eva, Unset, New(shoes, nike, old)),
     Call("createProduct", max, Unset, New(shoes, nike, Unset)),
     Call("updateProduct", ana, air, Change(shoes, nike, "none")),
     Call("removeProduct", max, cap, Unset),
     Call("uploadImage", eva, air, [file |-> "image"]),
     Call("uploadImage", eva, air, [file |-> "other"])} \cup
    {Call("updateProduct", max, cap, Change(Unset, Unset, r)) : r \in Requests}

MCCalls == AccountMix \cup CatalogueMix

RequestSymmetry == Permutations(Requests)
=============================================================================
