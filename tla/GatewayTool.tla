------------------------------ MODULE GatewayTool ------------------------------
(***************************************************************************)
(* apigee/provision/provision.py: `apigee` (the Apigee org), `secrets`     *)
(* (the apps' keys in Secret Manager) and `users` (end users of the Direct *)
(* view).  The two deploy accounts are one resource, and so are the        *)
(* agents' apps.  noRetiredApp is ok when the retired apps are gone.       *)
(***************************************************************************)
EXTENDS Cloud

\* fetch_deploy_sa, the fetch_* of REST listings and _telemetry_state.  The other REST
\* listings raise when they fail, which ends the run before it has done anything.
GatewayListings ==
  {"orgProject", "aiPolicy", "deploySa", "saPolicy", "account", "trace", "endpointHost"}

TelemetryRows ==
  {Unread([aiPolicy |-> "drift"], Gone("drift", Row("telemetryGrant", "telemetry")))}

\* compare_deploy_sa: one row, here one per problem it reports.  Whether the Apigee agent
\* may mint tokens cannot be told when the org's project number cannot be read.
DeploySaRows ==
  {Unread([deploySa |-> "missing"], Row("deploySA", "deploySa"))}
    \cup {Under([deploySa |-> "OK"], row) : row \in
           {Unread([deploySa |-> "OK", saPolicy |-> "drift", account |-> "OK"],
              Gone("drift", Row("deploySA", "saActAs"))),
            Unread([orgProject |-> "unknown", deploySa |-> "OK", saPolicy |-> "drift"],
              Gone("drift", Row("deploySA", "saMinter")))}}

TraceRows ==
  {Unread([trace |-> "unknown"], Gone("drift", Row("traceConfig", "traceConfig")))}

\* resolve_target_host: nothing is planned while the endpoint is not there, or has no host
\* yet.
TargetServerRows ==
  {Unread([endpointHost |-> "unknown"],
     Awaiting([endpoint |-> "unknown"],
       Under([endpoint |-> "unknown"], Row("targetServer", "targetServer"))))}

CollectorRows == {Row("dataCollector", "collector")}
ProductRows == {Row("apiProduct", "product")}
AppRows == {Row("app", "app")}
RetiredRows == {Row("app(retired)", "noRetiredApp")}

\* _findings
GatewayRows ==
  TelemetryRows \cup DeploySaRows \cup TraceRows \cup TargetServerRows
    \cup CollectorRows \cup ProductRows \cup AppRows \cup RetiredRows

\* _execute for an account: gcloud failures are not looked at.
DeploySaCalls ==
  <<For("missing", Call({"deploySa"}, {"deploySA"}, {})),
    Unless("account", Set(Call({"saActAs"}, {"deploySA"}, {"deploySa"}))),
    Unless("orgProject", Set(Call({"saMinter"}, {"deploySA"}, {"deploySa"})))>>

TelemetryCalls ==
  <<Set(Call({"telemetry"}, {"telemetryGrant"}, {"deploySa", "runtimeSa"}))>>

\* _execute for what the REST API makes: an error raises.  The type of a data collector
\* is immutable: its drift is MANUAL.
ResourceCalls ==
  <<Hard(Set(Call({"traceConfig"}, {"traceConfig"}, {}))),
    Hard(For("missing", Call({"targetServer"}, {"targetServer"}, {}))),
    Hard(For("drift", How("update", Call({"targetServer"}, {"targetServer"}, {})))),
    Hard(For("missing", Call({"collector"}, {"dataCollector"}, {})))>>

ProductsOnlyCreated == <<Hard(For("missing", Call({"product"}, {"apiProduct"}, {})))>>

\* _reconcile_product.  It passes over the proxies of a product that has no operation
\* configs left: such a product is odd.
ProductCalls ==
  <<Hard(For("missing", Call({"product"}, {"apiProduct"}, {}))),
    Hard(For("drift", How("update", Call({"product"}, {"apiProduct"}, {}))))>>

\* The developer is ensured first.  An app that is made again has another key; an update
\* adds products to the key and takes none away (an app with more of them is odd), and
\* writes nothing for an app that has no key.
AppCalls ==
  <<Hard(For("missing", Call({"developer"}, {"app"}, {}))),
    Spoils({"secretValue"},
      Hard(For("missing", Call({"app"}, {"app"}, {"developer", "product"})))),
    Hard(For("drift", How("update", Call({"app"}, {"app"}, {"product"})))),
    Hard(How("update", Call({"noRetiredApp"}, {"app(retired)"}, {})))>>

\* derive_plan sorts by _RANK: accounts before the grants to them, products before apps.
GatewayCalls ==
  DeploySaCalls \o TelemetryCalls \o ResourceCalls \o ProductCalls \o AppCalls

SecretListings == {"aiProject", "secrets", "secretPolicy", "secretValues"}

\* compare_secrets.  A value that cannot be compared, because there is none, or no key, or
\* it cannot be read, is not a problem; the GEAP agent's access is only checked when its project
\* number can be read (derive_secrets).
SecretRows ==
  {Unread([secrets |-> "missing", secretPolicy |-> "drift"],
     With({"secretAccess"}, Row("secret", "secret")))}
    \cup {Unread([secretValues |-> "OK", secrets |-> "OK"],
             Under([secret |-> "OK", app |-> "OK"], Gone("OK", Row("secret", "secretValue")))),
           Unread([aiProject |-> "OK", secretPolicy |-> "drift", secrets |-> "OK"],
             Under([secret |-> "OK"], Gone("drift", Row("secret", "secretGeap"))))}

\* _secrets_apply: all of it, whatever was found.  An app without a key gives no value, and
\* an accessor that does not exist is skipped.
SecretCalls ==
  <<Call({"secret"}, {}, {}),
    Within({"secret"}, Set(Call({"secretValue"}, {}, {"app"}))),
    Within({"secret"}, Set(Call({"secretAccess"}, {}, {"agentSas"}))),
    Unless("aiProject", Within({"secret"}, Set(Call({"secretGeap"}, {}, {}))))>>

\* compare_end_users
UserRows == {With({"endUserApp"}, Row("endUser", "endUser"))}

\* _apply_end_user: without a key the product is not attached.
UserCalls ==
  <<Hard(Call({"endUser"}, {"endUser"}, {})),
    Hard(Within({"endUser"}, Call({"endUserApp"}, {"endUser"}, {"product"}))),
    Hard(How("update", Call({"endUserApp"}, {"endUser"}, {"product"})))>>
=============================================================================
