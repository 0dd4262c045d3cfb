--------------------------- MODULE MCSupervisorAcl ---------------------------
(***************************************************************************)
(* Small instances of SupervisorAcl: two roles, one of them holding the    *)
(* wildcard, two specialists, one user with a document and one without.    *)
(***************************************************************************)
EXTENDS SupervisorAcl

MCRole == {"admin", "ops"}
MCEmail == {"ann", "eve"}
MCGrant == {"*", "order_agent", "product_agent"}
MCLower == [x \in MCRole \cup MCEmail |-> x]

RoleOf(agents) == [agents |-> agents, is_admin |-> FALSE]
Has(rs) == [roles |-> rs]
OfUsers(ann) == [e \in MCEmail |-> IF e = "ann" THEN ann ELSE Absent]
OfRoles(admin, ops) == [r \in MCRole |-> IF r = "admin" THEN admin ELSE ops]

MCSeeds ==
  {[roles |-> OfRoles(RoleOf({"*"}), RoleOf({"order_agent"})), users |-> OfUsers(Has(rs))] :
     rs \in {{"ops"}, {"admin", "ops"}}}

MCOps ==
  {[col |-> "users", key |-> "ann", doc |-> Has({"ops"})],
   [col |-> "users", key |-> "ann", doc |-> Has({})],
   [col |-> "users", key |-> "ann", doc |-> Absent],
   [col |-> "roles", key |-> "ops", doc |-> RoleOf({"product_agent"})],
   [col |-> "roles", key |-> "ops", doc |-> Absent],
   [col |-> "roles", key |-> "admin", doc |-> RoleOf({"order_agent"})]}
=============================================================================
