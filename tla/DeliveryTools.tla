----------------------------- MODULE DeliveryTools -----------------------------
(***************************************************************************)
(* What is deployed on top: the supervisor's engine (deploy_agents.py; the *)
(* rollout itself is in Rollout), the BFF (frontend/deploy_frontend.py)    *)
(* and the analytics (analytics/provision_analytics.py).                   *)
(***************************************************************************)
EXTENDS Cloud

\* preflight_identity blocks on a missing account only; without the rest the create
\* fails.  Every deploy makes a new engine, which the BFF is not pinned to yet.
EngineCalls ==
  <<Spoils({"bffPin"}, Hard(Set(Call({"engine"}, {},
      {"aiApis", "agentSas", "agentActAs", "bucket", "agentBucket", "geapBucket",
       "secretValue", "secretGeap"}))))>>

\* compare_service and compare_env
BffRows ==
  {Row("service", "bffService"), Under([bffService |-> "OK"], Row("env", "bffPin"))}

\* cmd_deploy: service.yaml is rendered with the newest engine's id, and not applied
\* without one.
BffCalls ==
  <<Hard(Set(Call({"bffService", "bffPin"}, {},
      {"engine", "agentSas", "secretValue", "secretAccess", "aiRepo", "aiBuildGrant"})))>>

\* ensure_iap_access: failures are printed.
IapCalls == <<Set(Call({"bffIap"}, {}, {"bffService"}))>>

\* gather_state
AnalyticsListings == {"anApis", "metrics", "dashboards", "reports"}

AnApiRows == {Unread([anApis |-> "drift"], Lenient("pending", Row("service", "anApis")))}

\* Whether they exist, not what they are.
MetricRows == {Unread([metrics |-> "missing"], Lenient("wrong", Row("logMetric", "metrics")))}

ReportRows == {Unread([reports |-> "unknown"], Row("apigeeReport", "reports"))}

\* build_findings
AnalyticsRows ==
  AnApiRows \cup MetricRows \cup ReportRows
    \cup {Unread([dashboards |-> "missing"],
            [Row("dashboard", "dashboard") EXCEPT
               !.lenient = {<<"dashboard", "wrong">>, <<"dashboard", "odd">>}])}

ReportsMadeAnew ==
  <<Unless("anApis", Late(Call({"anApis"}, {"service"}, {}))),
    Call({"metrics"}, {"logMetric"}, {"anApis"}),
    Unless("dashboards", How("drop", Call({"dashboard"}, {}, {}))),
    How("add", Call({"dashboard"}, {}, {"anApis"})),
    How("drop", Call({"reports"}, {}, {})),
    Call({"reports"}, {}, {})>>

\* _apply.  The verb for a metric is chosen by the listing; dashboards of the title are
\* deleted, those that are listed, and one is created.
AnalyticsCalls ==
  <<Unless("anApis", Late(Call({"anApis"}, {"service"}, {}))),
    Call({"metrics"}, {"logMetric"}, {"anApis"}),
    Unless("metrics", How("update", Call({"metrics"}, {}, {"anApis"}))),
    Unless("dashboards", How("drop", Call({"dashboard"}, {}, {}))),
    How("add", Call({"dashboard"}, {}, {"anApis"})),
    Set(Call({"reports"}, {}, {}))>>
=============================================================================
