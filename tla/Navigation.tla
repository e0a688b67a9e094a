------------------------------ MODULE Navigation ------------------------------
(***************************************************************************)
(* Where the client's router ends: the menu, the role and module guards    *)
(* and the redirects between them, as functions of the role and of the     *)
(* modules the build configuration keeps active.                           *)
(***************************************************************************)
EXTENDS Integers, Sequences, FiniteSetsExt

ALL_ROLES == {"SUPERADMIN", "ADMIN", "MANAGER", "OPERATOR", "VIEWER"}
OPERATOR_UP == ALL_ROLES \ {"VIEWER"}
MANAGERS_UP == OPERATOR_UP \ {"OPERATOR"}
ADMINS_UP == MANAGERS_UP \ {"MANAGER"}

Item(id, roles) == [id |-> id, roles |-> roles]

\* Mutation: a menu that shows the products to operators.
NavItemsWide ==
    <<Item("home", ALL_ROLES), Item("products", OPERATOR_UP), Item("stock", ALL_ROLES),
      Item("movements", OPERATOR_UP), Item("inventory", OPERATOR_UP),
      Item("receptions", OPERATOR_UP), Item("expeditions", OPERATOR_UP),
      Item("warehouses", MANAGERS_UP), Item("management", MANAGERS_UP),
      Item("admin", ADMINS_UP)>>

NAV_ITEMS ==
    <<Item("home", ALL_ROLES), Item("products", MANAGERS_UP), Item("stock", ALL_ROLES),
      Item("movements", OPERATOR_UP), Item("inventory", OPERATOR_UP),
      Item("receptions", OPERATOR_UP), Item("expeditions", OPERATOR_UP),
      Item("warehouses", MANAGERS_UP), Item("management", MANAGERS_UP),
      Item("admin", ADMINS_UP)>>

\* The same lists again, in the routes.
ShellRoutes ==
    [home |-> ALL_ROLES, products |-> MANAGERS_UP, stock |-> ALL_ROLES,
     movements |-> OPERATOR_UP, inventory |-> OPERATOR_UP, warehouses |-> MANAGERS_UP,
     receptions |-> OPERATOR_UP, expeditions |-> OPERATOR_UP, management |-> MANAGERS_UP,
     admin |-> ADMINS_UP]

Modules == DOMAIN ShellRoutes
Login == "login"
Routes == Modules \cup {Login}

Shown(role, active) ==
    {i \in DOMAIN NAV_ITEMS : role \in NAV_ITEMS[i].roles /\ NAV_ITEMS[i].id \in active}

\* navItems of the shell
Menu(role, active) == {NAV_ITEMS[i].id : i \in Shown(role, active)}

FirstAvailableModuleId(role, active) ==
    LET allowed == Shown(role, Modules)
        shown == Shown(role, active)
    IN  IF shown # {} THEN NAV_ITEMS[Min(shown)].id
        ELSE IF allowed # {} THEN NAV_ITEMS[Min(allowed)].id
        ELSE "home"

RoleGuard(id, role) == role \in ShellRoutes[id]

ModuleActiveGuard(id, role, active) ==
    id \in active \/ FirstAvailableModuleId(role, active) = id

\* One navigation: where the guards let it end or send it on.
Hop(id, role, active) ==
    CASE id = Login -> Login
      [] id # Login /\ ~RoleGuard(id, role) -> "home"
      [] id # Login /\ RoleGuard(id, role) /\ ModuleActiveGuard(id, role, active) -> id
      [] OTHER -> FirstAvailableModuleId(role, active)

\* The router follows redirects until one ends; three hops are enough.
Land(id, role, active) ==
    Hop(Hop(Hop(id, role, active), role, active), role, active)

\* Where a login leads.
Welcome(role) == IF role = "SUPERADMIN" THEN "admin" ELSE "home"
=============================================================================
