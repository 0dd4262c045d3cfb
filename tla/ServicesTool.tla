----------------------------- MODULE ServicesTool -----------------------------
(***************************************************************************)
(* services/provision: provision_services.py (the e-commerce project: its  *)
(* network, identities, Cloud SQL, load balancer and the private path from *)
(* Apigee), its destructive `seed`, and deploy_services.py.                *)
(***************************************************************************)
EXTENDS Cloud

\* fetch_*: the listings, each with the rows that go blind without it.  A listing that
\* is read as absence (`describe` fails) makes its row missing.
ServicesListings ==
  {"apis", "network", "project", "serviceAccounts", "roles", "actAs", "account",
   "orgAccounts", "sql", "databases", "users", "addresses", "negs", "lb", "attachments"}

ApiRows == {Unread([apis |-> "drift"], Lenient("pending", Row("api", "apis")))}

NetworkRows ==
  {Unread([network |-> "unknown"], Row(r, r)) : r \in {"vpc", "subnet"}}

IdentityRows ==
  {Unread([serviceAccounts |-> "missing", roles |-> "drift"],
     With({"runtimeRoles"}, Row("serviceAccount", "runtimeSa"))),
   Unread([project |-> "drift", roles |-> "drift"],
     Gone("drift", Row("buildSA", "buildGrant"))),
   Unread([serviceAccounts |-> "drift", actAs |-> "drift", account |-> "OK"],
     Gone("drift", Row("deployerActAs", "actAs")))}

InvokerRows == {Unread([orgAccounts |-> "drift"], Row("invokerSA", "invokerSa"))}

SqlRows ==
  {Unread([sql |-> "missing"], Lenient("pending", Row("sqlInstance", "sql"))),
   Unread([sql |-> "OK", databases |-> "OK"],
     Under([sql |-> "OK"], Row("sqlDatabase", "database"))),
   Unread([sql |-> "OK", users |-> "OK"],
     Under([sql |-> "OK"], Row("sqlIamUser", "dbUser")))}

AddressRows ==
  {Unread([addresses |-> "unknown"], Row(r, r)) : r \in {"dbAddress", "lbAddress"}}

LbRowsByName ==
  {Unread([addresses |-> "unknown", negs |-> "unknown"], Row(k, k)) :
     k \in {"neg", "backend", "urlMap", "fwd"}}

LbRows ==
  {Unread([addresses |-> "unknown", negs |-> "unknown"], Row("neg", "neg")),
   Unread([addresses |-> "unknown", negs |-> "unknown", lb |-> "missing"],
     With({"backendNeg"}, Row("backendService", "backend"))),
   Unread([addresses |-> "unknown", negs |-> "unknown", lb |-> "missing"],
     With({"urlPaths"}, Row("urlMap", "urlMap"))),
   Unread([addresses |-> "unknown", negs |-> "unknown", lb |-> "missing"],
     Row("forwardingRule", "fwd"))}

PscRows ==
  {Unread([attachments |-> "missing"], Row("serviceAttachment", "attachment")),
   With({"accepted"}, Row("endpointAttachment", "endpoint"))}

\* _findings
ServicesRows ==
  ApiRows \cup NetworkRows \cup IdentityRows \cup InvokerRows
    \cup SqlRows \cup AddressRows \cup LbRows \cup PscRows

\* _apply, in the order of the code.
ProjectCalls ==
  <<Late(Call({"apis"}, {"api"}, {})),
    Call({"vpc"}, {"vpc"}, {"apis"}),
    Call({"subnet"}, {"subnet"}, {"vpc"})>>

IdentityCalls ==
  <<Call({"runtimeSa"}, {"serviceAccount"}, {"apis"}),
    Set(Call({"runtimeRoles"}, {}, {"runtimeSa"})),
    Unless("project", Set(Call({"buildGrant"}, {"buildSA"}, {"apis"}))),
    Set(Call({"actAs"}, {"deployerActAs"}, {"runtimeSa"})),
    Call({"invokerSa"}, {"invokerSA"}, {}),
    Call({"buildRepo"}, {}, {"apis"})>>

RuleBeforeInstance ==
  <<Call({"dbAddress"}, {"dbAddress"}, {"subnet"}),
    Call({"dbRule"}, {"dbAddress"}, {"dbAddress", "sql", "vpc"}),
    Late(Call({"sql"}, {"sqlInstance"}, {"apis"})),
    Within({"sql"}, Call({"database"}, {"sqlDatabase"}, {})),
    Within({"sql"}, Call({"dbUser"}, {"sqlIamUser"}, {"runtimeSa"}))>>

\* While the instance is pending it has no pscServiceAttachmentLink, and no rule is made.
DatabaseCalls ==
  <<Spoils({"dbRule"}, Late(Call({"sql"}, {"sqlInstance"}, {"apis"}))),
    Call({"dbAddress"}, {"dbAddress"}, {"subnet"}),
    Call({"dbRule"}, {"dbAddress"}, {"dbAddress", "sql", "vpc"}),
    Within({"sql"}, Call({"database"}, {"sqlDatabase"}, {})),
    Within({"sql"}, Call({"dbUser"}, {"sqlIamUser"}, {"runtimeSa"}))>>

LbCalls ==
  <<Call({"neg"}, {"neg"}, {"apis"}),
    Call({"backend"}, {"backendService"}, {"apis"}),
    Set(Call({"backendNeg"}, {"backendService"}, {"backend", "neg"})),
    Call({"urlMap"}, {"urlMap"}, {"backend"}),
    Call({"urlPaths"}, {"urlMap"}, {"urlMap"}),
    Call({"httpProxy"}, {"urlMap"}, {"urlMap"}),
    Call({"lbAddress"}, {"lbAddress"}, {"subnet"}),
    Call({"fwd"}, {"forwardingRule"}, {"httpProxy", "lbAddress"})>>

\* A new endpoint has a new host, which the gateway's target server does not know.
PscCalls ==
  <<Call({"attachment"}, {"serviceAttachment"}, {"fwd", "subnet"}),
    Spoils({"targetServer"},
      Late(Call({"endpoint"}, {"endpointAttachment"}, {"attachment"})))>>

\* _accept_pending_consumers: the tenant is known once the endpoint exists.
AcceptCalls ==
  <<Within({"endpoint", "attachment"},
      Set(Call({"accepted"}, {"endpointAttachment", "serviceAttachment"}, {})))>>

ServicesCalls ==
  ProjectCalls \o IdentityCalls \o DatabaseCalls \o LbCalls \o PscCalls \o AcceptCalls

\* cmd_seed: the import of schema.sql empties the tables; a failed import ends it.  The
\* instance's grant on the bucket may fail unnoticed: the import needs it.
SeedCalls ==
  <<Call({"seedBucket"}, {}, {}),
    Within({"sql"}, Set(Call({"seedViewer"}, {}, {"seedBucket"}))),
    Spoils({"dbData"},
      Hard(Within({"sql"}, Set(Call({"database", "dbTables"}, {}, {"seedViewer"}))))),
    Hard(Within({"sql"}, Set(Call({"dbData"}, {}, {"dbTables"})))),
    Hard(Within({"sql"}, Set(Call({"dbGrants"}, {}, {"dbUser"}))))>>

\* check_service
RunRows ==
  {Unread([run |-> "missing"], Row("service", "runService")),
   Unread([run |-> "OK", runIam |-> "drift"],
     Under([runService |-> "OK"], Gone("drift", Row("serviceIam", "runInvoker"))))}

\* deploy_one
DeployRunCalls ==
  <<Hard(Set(Call({"runService"}, {},
      {"apis", "subnet", "runtimeSa", "buildGrant", "actAs"})))>>

\* reconcile_iam adds the invoker and removes stray accounts; allUsers it leaves.
RunIamCalls == <<Set(Call({"runInvoker"}, {}, {"runService", "invokerSa"}))>>
=============================================================================
