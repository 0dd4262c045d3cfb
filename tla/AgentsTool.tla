------------------------------ MODULE AgentsTool ------------------------------
(***************************************************************************)
(* agents/provision/provision_agents.py without the ACL documents (see     *)
(* AclSeed): the AI project's APIs, network, identities and buckets.  The  *)
(* run writes everything as soon as one row is not OK.                     *)
(***************************************************************************)
EXTENDS Cloud

AgentsListings ==
  {"aiApis", "aiProject", "aiRoles", "aiNetwork", "bucket", "bucketPolicy",
   "agentSas", "account", "acl"}

AiApiRows == {Unread([aiApis |-> "drift"], Lenient("pending", Row("service", "aiApis")))}

\* The rows main adds itself; without the project number the GEAP agent has none.
AgentRoleRows ==
  {Unread([aiProject |-> "OK", aiRoles |-> "drift"], Gone("drift", Row(r, r))) :
     r \in {"geapDnsPeer", "geapNetAdmin"}}
  \cup {Unread([aiProject |-> "drift", aiRoles |-> "drift"],
          Gone("drift", Row("aiBuildSA", "aiBuildGrant")))}

\* fetch_ai_network: a describe that fails is absence.
AiNetworkRows ==
  {Unread([aiNetwork |-> "missing"], Row(r, r)) :
     r \in {"aiVpc", "aiSubnet", "netAttach", "dnsRecord", "aiRepo"}}
  \cup {Unread([aiNetwork |-> "missing"], With({"pscAccept"}, Row("pscEndpoint", "pscRule")))}

\* compare_bucket: who may read it is only looked at when it exists.
BucketRows ==
  {Unread([bucket |-> "missing"], Row("bucket", "bucket")),
   Unread([bucket |-> "OK", bucketPolicy |-> "drift", aiProject |-> "OK"],
     Under([bucket |-> "OK"], Gone("drift", Row("geapBucket", "geapBucket"))))}

AgentSaRows ==
  {Unread([agentSas |-> "missing", aiRoles |-> "drift"],
     With({"agentRoles"}, Row("serviceAccount", "agentSas")))}

\* compare_grants
GrantRows ==
  {Unread([bucket |-> "OK", bucketPolicy |-> "OK"],
     Under([bucket |-> "OK"], Gone("drift", Row("bucketAccess", "agentBucket")))),
   Unread([agentSas |-> "drift", account |-> "OK"],
     Gone("drift", Row("deployerActAs", "agentActAs")))}

AclRows ==
  {Unread([acl |-> "missing"], Row(r, r)) : r \in {"aclDb", "aclSeeds"}}

AgentsRows ==
  AiApiRows \cup AgentRoleRows \cup AiNetworkRows \cup BucketRows
    \cup AgentSaRows \cup GrantRows \cup AclRows

\* _apply_infra
InfraCalls ==
  <<Late(Call({"aiApis"}, {"service"}, {})),
    Call({"bucket"}, {}, {"aiApis"}),
    Unless("aiProject", Within({"bucket"}, Set(Call({"geapBucket"}, {}, {"aiApis"})))),
    Unless("aiProject", Set(Call({"geapDnsPeer"}, {}, {"aiApis"}))),
    Unless("aiProject", Set(Call({"geapNetAdmin"}, {}, {"aiApis"})))>>

\* _apply_ai_network: what exists is left as it is.
AiNetworkCalls ==
  <<Call({"aiVpc"}, {}, {"aiApis"}),
    Call({"aiSubnet"}, {}, {"aiVpc"}),
    Call({"netAttach"}, {}, {"aiSubnet"}),
    Call({"pscAddr"}, {}, {"aiSubnet"}),
    Call({"pscRule"}, {}, {"pscAddr", "aiVpc"})>>

\* _ensure_apigee_accepts: a long-running operation that nobody waits for.
AcceptListCalls == <<Late(Set(Call({"pscAccept"}, {}, {})))>>

DnsCalls ==
  <<Call({"dnsZone"}, {}, {"aiApis", "aiVpc"}),
    Call({"dnsRecord"}, {}, {"dnsZone"}),
    Call({"aiRepo"}, {}, {"aiApis"})>>

\* _apply_build_sa
BuildSaCalls == <<Unless("aiProject", Set(Call({"aiBuildGrant"}, {}, {"aiApis"})))>>

\* _apply
AgentSaCalls ==
  <<Call({"agentSas"}, {}, {"aiApis"}),
    Set(Call({"agentRoles"}, {}, {"agentSas"})),
    Within({"bucket"}, Set(Call({"agentBucket"}, {}, {"agentSas"}))),
    Unless("account", Set(Call({"agentActAs"}, {}, {"agentSas"})))>>

\* _apply_acl gives up when there is no database, and the run says "done".
AclCalls ==
  <<Call({"aclDb"}, {}, {"aiApis"}),
    Within({"aclDb"}, Set(Call({"aclSeeds"}, {}, {})))>>

AgentsCalls ==
  InfraCalls \o AiNetworkCalls \o AcceptListCalls \o DnsCalls \o BuildSaCalls
    \o AgentSaCalls \o AclCalls
=============================================================================
