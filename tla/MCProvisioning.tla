---------------------------- MODULE MCProvisioning ----------------------------
(***************************************************************************)
(* Small campaigns for Provisioning.                                       *)
(***************************************************************************)
EXTENDS Provisioning

\* GETTING_STARTED.md
Documented ==
  <<"services", "seed", "run", "apigee", "agents", "secrets",
    "engines", "users", "frontend", "analytics">>

Fresh == [r \in Resource |-> IF r = "noRetiredApp" THEN "ok" ELSE "absent"]
Built == [r \in Resource |-> "ok"]

\* Almost everything before what it needs.
Shuffled ==
  <<"analytics", "users", "engines", "frontend", "secrets", "agents",
    "apigee", "run", "seed", "services">>

Campaign(order, mishaps, cloud) ==
  [order |-> order, mishaps |-> mishaps, cloud |-> cloud,
   documented |-> order = Documented]

SmallCampaigns ==
  {Campaign(Documented, 1, Fresh), Campaign(Documented, 1, Built),
   Campaign(Shuffled, 0, Fresh), Campaign(Shuffled, 1, Built),
   Campaign(<<"services">>, 2, Fresh), Campaign(<<"services", "seed">>, 2, Built),
   Campaign(<<"apigee", "secrets">>, 2, Built), Campaign(<<"analytics">>, 2, Fresh)}

\* For the first run on an empty cloud.
OneCampaign == {Campaign(<<"services">>, 1, Fresh)}
=============================================================================
