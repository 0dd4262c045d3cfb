------------------------------ MODULE MCAclSeed ------------------------------
(***************************************************************************)
(* A small instance of AclSeed.  The seed is the manifest's: the one role  *)
(* admin, with the wildcard and is_admin, and its admins, one of them      *)
(* spelled with a capital.  "ops" is a role of the administrators'.        *)
(***************************************************************************)
EXTENDS AclSeed

MCRole == {"admin", "ops"}
MCEmail == {"ann", "Ann", "bob"}
MCGrant == {"*"}
MCAddress == {"ann", "bob"}
MCLower == [x \in MCRole \cup MCEmail |-> IF x = "Ann" THEN "ann" ELSE x]

AdminDoc == [agents |-> {"*"}, is_admin |-> TRUE]
PlainDoc == [agents |-> {"*"}, is_admin |-> FALSE]
MCSeedRoles == [r \in {"admin"} |-> AdminDoc]
MCSeedUsers == [e \in {"Ann", "bob"} |-> {"admin"}]

OfRoles(admin, ops) == [r \in MCRole |-> IF r = "admin" THEN admin ELSE ops]
Has(rs) == [roles |-> rs]
OfUsers(ann, bob) ==
  [e \in MCEmail |-> CASE e = "ann" -> ann [] e = "bob" -> bob [] OTHER -> Absent]

\* A fresh project, a seeded store the administrators have extended, a lockout.
MCStores ==
  {[roles |-> OfRoles(Absent, Absent), users |-> OfUsers(Absent, Absent)],
   [roles |-> OfRoles(AdminDoc, AdminDoc), users |-> OfUsers(Absent, Has({"ops"}))],
   [roles |-> OfRoles(PlainDoc, PlainDoc), users |-> OfUsers(Has({"ops"}), Has({"admin"}))]}

MCOps ==
  {[col |-> "users", key |-> e, doc |-> [roles |-> rs]] :
      e \in {"ann", "bob"}, rs \in SUBSET MCRole}
  \cup {[col |-> "users", key |-> e, doc |-> Absent] : e \in {"ann", "bob"}}
  \cup {[col |-> "roles", key |-> r, doc |-> d] :
      r \in MCRole, d \in {AdminDoc, PlainDoc, Absent}}
=============================================================================
