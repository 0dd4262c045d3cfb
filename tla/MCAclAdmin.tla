----------------------------- MODULE MCAclAdmin -----------------------------
(***************************************************************************)
(* Small instances of AclAdmin: two admin-capable roles, two people a      *)
(* second spelling of one of them, and a key that is no email address.     *)
(***************************************************************************)
EXTENDS AclAdmin

MCRole == {"admin", "ops", "Ops"}
MCEmail == {"ann", "Ann", "bob", "nobody"}
MCGrant == {"order_agent"}
MCSlug == {"admin", "ops"}
MCAddress == {"ann", "bob"}
MCLower == [x \in MCRole \cup MCEmail |->
  CASE x = "Ops" -> "ops" [] x = "Ann" -> "ann" [] OTHER -> x]

AdminDoc == [agents |-> MCGrant, is_admin |-> TRUE]
PlainDoc == [agents |-> MCGrant, is_admin |-> FALSE]
OfRoles(admin, ops) ==
  [r \in MCRole |-> CASE r = "admin" -> admin [] r = "ops" -> ops [] OTHER -> Absent]
Has(rs) == [roles |-> rs]
OfUsers(ann, bob) ==
  [e \in MCEmail |-> CASE e = "ann" -> ann [] e = "bob" -> bob [] OTHER -> Absent]

PutRole(r, doc) == [col |-> "roles", key |-> r, doc |-> doc]
PutUser(e, rs) == [col |-> "users", key |-> e, doc |-> Has(rs)]
DeleteUser(e) == [col |-> "users", key |-> e, doc |-> Absent]

\* One admin, as provisioned; two admins through one role; two roles that make one.
MCSeeds ==
  {[roles |-> OfRoles(AdminDoc, PlainDoc), users |-> OfUsers(Has({"admin"}), Has({"ops"}))],
   [roles |-> OfRoles(AdminDoc, Absent), users |-> OfUsers(Has({"admin"}), Has({"admin"}))]}

TwoAdmins ==
  {[roles |-> OfRoles(AdminDoc, Absent), users |-> OfUsers(Has({"admin"}), Has({"admin"}))]}

\* Grants, demotions, deletions, a role promoted, and an ill-formed key.
MCOps ==
  {PutUser("ann", {}), PutUser("Ann", {"ops"}), PutUser("bob", {"admin"}),
   DeleteUser("bob"), DeleteUser("Ann"),
   PutRole("ops", AdminDoc), PutRole("Ops", PlainDoc), PutRole("admin", PlainDoc),
   PutRole("admin", Absent), PutUser("nobody", {"ops"})}

RaceOps ==
  {PutUser("Ann", {}), DeleteUser("bob"), PutUser("bob", {"admin"}),
   PutRole("ops", AdminDoc), PutRole("admin", Absent)}
=============================================================================
