----------------------------- MODULE Provisioning -----------------------------
(***************************************************************************)
(* An operator runs the provisioning tools one after the other, over and   *)
(* over, on a cloud where listings cannot be read, calls are refused, runs *)
(* die, operations are late and other people change things.  How many such *)
(* mishaps a campaign meets is bounded.                                    *)
(***************************************************************************)
EXTENDS ServicesTool, GatewayTool, AgentsTool, DeliveryTools

CONSTANT Campaigns  \* what is run, how often something goes wrong, from which cloud

\* `gated`: a run without findings does nothing.  `passes`: how often a run looks again.
Tool ==
  [services |-> [rows |-> ServicesRows, calls |-> ServicesCalls,
                 listings |-> ServicesListings, gated |-> TRUE, passes |-> 3],
   seed     |-> [rows |-> {}, calls |-> SeedCalls,
                 listings |-> {}, gated |-> FALSE, passes |-> 1],
   run      |-> [rows |-> RunRows, calls |-> DeployRunCalls \o RunIamCalls,
                 listings |-> {}, gated |-> FALSE, passes |-> 1],
   apigee   |-> [rows |-> GatewayRows, calls |-> GatewayCalls,
                 listings |-> GatewayListings, gated |-> TRUE, passes |-> 1],
   agents   |-> [rows |-> AgentsRows, calls |-> AgentsCalls,
                 listings |-> AgentsListings, gated |-> TRUE, passes |-> 1],
   secrets  |-> [rows |-> SecretRows, calls |-> SecretCalls,
                 listings |-> SecretListings, gated |-> TRUE, passes |-> 1],
   engines  |-> [rows |-> {}, calls |-> EngineCalls,
                 listings |-> {}, gated |-> FALSE, passes |-> 1],
   users    |-> [rows |-> UserRows, calls |-> UserCalls,
                 listings |-> {}, gated |-> TRUE, passes |-> 1],
   frontend |-> [rows |-> BffRows, calls |-> BffCalls \o IapCalls,
                 listings |-> {}, gated |-> FALSE, passes |-> 1],
   analytics |-> [rows |-> AnalyticsRows, calls |-> AnalyticsCalls,
                 listings |-> AnalyticsListings, gated |-> FALSE, passes |-> 1]]

CallsOf == [t \in DOMAIN Tool |-> {Tool[t].calls[i] : i \in DOMAIN Tool[t].calls}]
Owned == [t \in DOMAIN Tool |-> UNION {call.makes : call \in CallsOf[t]}]
Resource == UNION {Owned[t] : t \in DOMAIN Tool}
MakersOf ==
  [r \in Resource |->
     {call \in UNION {CallsOf[t] : t \in DOMAIN Tool} : r \in call.makes}]

\* What refers to something else, and to what: the forwarding rule to the instance's
\* attachment, the target server to the endpoint's host, the secret to the app's key.
Refers == [dbRule |-> "sql", targetServer |-> "endpoint", secretValue |-> "app"]

\* What cannot be made, nor stay, without something that has nothing to be configured.
Rests == [fwd |-> "httpProxy", app |-> "developer", dnsRecord |-> "dnsZone"]

\* Nothing that is in order refers to what is not there, and nothing rests on it.
Consistent(cloud) ==
  /\ \A r \in DOMAIN Refers :
       cloud[r] # "pending" /\ (cloud[Refers[r]] = "absent" => cloud[r] # "ok")
  /\ \A r \in DOMAIN Rests :
       /\ cloud[Rests[r]] \in {"absent", "ok"}
       /\ cloud[r] # "absent" => cloud[Rests[r]] = "ok"

\* Any campaign, from any cloud that can be: nothing of that is half made or without what
\* it needs.
ASSUME CampaignsAssumption ==
  \A c \in Campaigns :
    /\ c.order \in Seq(DOMAIN Tool) /\ c.order # <<>> /\ c.mishaps \in Nat
    /\ c.cloud \in [Resource -> Status] /\ Consistent(c.cloud)
    /\ \A r \in Resource : c.cloud[r] = "keyless" => r \in {"app", "endUserApp"}

VARIABLES
  live,      \* the cloud
  campaign,  \* the campaign
  left,      \* how many mishaps it still has in store
  stage,     \* the next tool, or the one that runs
  rounds,    \* history: whether all tools have been run once
  running,   \* whether it runs
  unread,    \* the listings this run could not read
  found,     \* what it found: possibly no longer so
  pc,        \* the call it is about to issue
  pass       \* how often it has looked

vars == <<live, campaign, left, stage, rounds, running, unread, found, pc, pass>>

tool == campaign.order[stage]
Tools == {campaign.order[i] : i \in DOMAIN campaign.order}

\* main, cmd_apigee, ...: the first call after i that the findings call for.
NextCall(t, f, u, i) ==
  LET calls == Tool[t].calls
      later == {j \in DOMAIN calls : j > i /\ Triggered(calls[j], f, u)}
  IN IF later = {} THEN Len(calls) + 1 ELSE CHOOSE j \in later : \A k \in later : j <= k

Init ==
  /\ campaign \in Campaigns
  /\ live = campaign.cloud
  /\ left = campaign.mishaps
  /\ stage = 1 /\ rounds = FALSE /\ running = FALSE
  /\ unread = {} /\ found = {} /\ pc = 0 /\ pass = 0

Mishap == left > 0 /\ left' = left - 1

-----------------------------------------------------------------------------
(* A run.                                                                  *)

Reads(u) ==
  LET f == Findings(Tool[tool].rows, live, u)
  IN /\ unread' = u
     /\ found' = f
     /\ pass' = pass + 1
     /\ pc' = IF Tool[tool].gated /\ f = {} THEN Len(Tool[tool].calls) + 1
              ELSE NextCall(tool, f, u, 0)

Begin(u) ==
  /\ ~ running
  /\ running' = TRUE
  /\ Reads(u)
  /\ UNCHANGED <<live, campaign, stage, rounds>>

BeginSeeing == Begin({}) /\ UNCHANGED left
BeginBlind == Mishap /\ \E l \in Tool[tool].listings : Begin({l})

EndsRemembering ==
  /\ running' = FALSE
  /\ stage' = (stage % Len(campaign.order)) + 1
  /\ rounds' = (rounds \/ stage = Len(campaign.order))
  /\ pc' = 0 /\ pass' = 0
  /\ UNCHANGED <<campaign, unread, found>>

Ends ==
  /\ running' = FALSE
  /\ stage' = (stage % Len(campaign.order)) + 1
  /\ rounds' = (rounds \/ stage = Len(campaign.order))
  /\ unread' = {} /\ found' = {} /\ pc' = 0 /\ pass' = 0
  /\ UNCHANGED <<campaign>>

AtCall == running /\ pc <= Len(Tool[tool].calls)
ThisCall == Tool[tool].calls[pc]

GoesOn ==
  /\ pc' = NextCall(tool, found, unread, pc)
  /\ UNCHANGED <<campaign, stage, rounds, running, unread, found, pass>>

CallDone ==
  /\ AtCall /\ Possible(ThisCall, live)
  /\ live' = After(ThisCall, live)
  /\ GoesOn /\ UNCHANGED left

\* The operation has not got through by the time the tool goes on.
CallLate ==
  /\ AtCall /\ Possible(ThisCall, live) /\ ThisCall.late
  /\ Mishap
  /\ live' = AfterLate(ThisCall, live) /\ live' # live
  /\ GoesOn

Fails == IF ThisCall.hard THEN Ends ELSE GoesOn

\* What the call needs is not there.
CallImpossible ==
  /\ AtCall /\ ~ Possible(ThisCall, live)
  /\ Fails /\ UNCHANGED <<live, left>>

\* A quota, a permission, a timeout, a policy that somebody else is writing.
CallRefused ==
  /\ AtCall /\ Possible(ThisCall, live)
  /\ Mishap
  /\ Fails /\ UNCHANGED live

\* The process dies, or a request raises, between two calls.
Dies ==
  /\ AtCall
  /\ Mishap
  /\ Ends /\ UNCHANGED live

\* Nothing left to call.  The services tool looks again, until it finds nothing, or the
\* same as before, or has looked often enough; looking again it sees everything.
AtEnd == running /\ pc > Len(Tool[tool].calls)
Progress ==
  /\ found # {} /\ pass < Tool[tool].passes
  /\ Findings(Tool[tool].rows, live, {}) \notin {{}, found}

LookAgain ==
  /\ AtEnd /\ Progress
  /\ Reads({})
  /\ UNCHANGED <<live, campaign, left, stage, rounds, running>>

End ==
  /\ AtEnd /\ ~ Progress
  /\ Ends /\ UNCHANGED <<live, left>>

-----------------------------------------------------------------------------
(* The cloud.                                                              *)

\* An operation gets through, a propagation arrives.
Settle(r) ==
  /\ live[r] = "pending"
  /\ live' = [live EXCEPT ![r] = "ok"]
  /\ UNCHANGED <<campaign, left, stage, rounds, running, unread, found, pc, pass>>

Outside(changed) ==
  /\ ~ running
  /\ Mishap
  /\ live' = changed
  /\ UNCHANGED <<campaign, stage, rounds, running, unread, found, pc, pass>>

\* Resources that have a configuration; those that someone can bring into a state the tools
\* do not correct, by adding to a list or taking a product's operation configs away; those
\* with a key.
Configured ==
  {"subnet", "sql", "dbAddress", "lbAddress", "neg", "urlPaths", "fwd", "attachment",
   "runService", "targetServer", "collector", "product", "app", "noRetiredApp",
   "endUserApp", "traceConfig", "secretValue", "aiVpc", "aiSubnet", "pscRule",
   "dnsRecord", "aclSeeds", "metrics", "dashboard", "reports", "bffService"}
Skewable == {"runInvoker", "app", "dashboard", "product"}
Keyed == {"app", "endUserApp"}

Reconfigured(r) ==
  /\ r \in Configured \cap Owned[tool] /\ live[r] = "ok"
  /\ Outside([live EXCEPT ![r] = "wrong"])

Skewed(r) ==
  /\ r \in Skewable \cap Owned[tool] /\ live[r] = "ok"
  /\ Outside([live EXCEPT ![r] = "odd"])

KeyLost(r) ==
  /\ r \in Keyed \cap Owned[tool] /\ live[r] = "ok"
  /\ Outside([live EXCEPT ![r] = "keyless"])

\* What nothing needs can be deleted; the database and the endpoint even so.  Its parts
\* go with it, and what refers to it refers to nothing.
Deletable(r) ==
  \/ r \in {"sql", "endpoint"}
  \/ \A s \in Resource : live[s] # "absent" => \A call \in MakersOf[s] : r \notin call.needs

Deleted(r) ==
  /\ r \in Owned[tool] \ {"noRetiredApp", "urlPaths", "backendNeg", "bffPin"}
  /\ live[r] = "ok" /\ Deletable(r)
  /\ Outside([s \in Resource |->
       IF s = r \/ \E call \in MakersOf[s] : r \in call.within THEN "absent"
       ELSE IF live[s] = "ok" /\ \E call \in MakersOf[r] : s \in call.spoils THEN "wrong"
       ELSE live[s]])

RunStep ==
  \/ BeginSeeing \/ BeginBlind
  \/ CallDone \/ CallLate \/ CallImpossible \/ CallRefused \/ Dies
  \/ LookAgain \/ End

Next ==
  \/ RunStep
  \/ \E r \in Resource :
       Settle(r) \/ Reconfigured(r) \/ Skewed(r) \/ KeyLost(r) \/ Deleted(r)

\* The operator keeps running the tools, and what is pending gets through.
Fairness ==
  /\ WF_vars(BeginSeeing) /\ WF_vars(CallDone \/ CallImpossible) /\ WF_vars(LookAgain \/ End)
  /\ \A r \in Resource : WF_vars(Settle(r))

Spec == Init /\ [][Next]_vars /\ Fairness
-----------------------------------------------------------------------------
(* Properties.                                                             *)

Findable(t) == {<<row.kind, s>> : row \in Tool[t].rows, s \in {"missing", "drift", "unknown"}}

\* Every variable keeps its type; no tool is running means nothing is remembered.
TypeOK ==
  /\ live \in [Resource -> Status]
  /\ campaign \in Campaigns
  /\ left \in 0 .. campaign.mishaps
  /\ stage \in DOMAIN campaign.order
  /\ rounds \in BOOLEAN /\ running \in BOOLEAN
  /\ unread \subseteq Tool[tool].listings
  /\ found \subseteq Findable(tool)
  /\ pc \in 0 .. Len(Tool[tool].calls) + 1
  /\ pass \in 0 .. Tool[tool].passes
  /\ ~ running => unread = {} /\ found = {} /\ pc = 0 /\ pass = 0

\* Run once, in the order the documentation gives and with nothing going wrong, the
\* tools bring an empty cloud fully in order: no tool needs what a later one makes.
QuietCampaignSettles ==
  campaign.documented /\ rounds /\ stage = 1 /\ ~ running /\ left = campaign.mishaps =>
    \A r \in Resource : live[r] = "ok"

\* What no row is about, whatever could be read, and what goes unnoticed when a listing
\* could not be read.
NoRow ==
  {"dbRule", "buildRepo", "secretValue", "pscAddr", "bffIap", "metrics", "dashboard"}
Unnoticed ==
  [sql |-> {"database", "dbUser"}, databases |-> {"database"}, users |-> {"dbUser"},
   account |-> {"actAs", "saActAs", "agentActAs"},
   aiProject |-> {"secretGeap", "geapBucket", "geapDnsPeer", "geapNetAdmin"}]
EnoughWhenPending == {"apis", "aiApis", "anApis", "sql"}

\* A report without findings means that everything the tool is for is in order, except
\* what is listed here.
GreenMeansInOrder ==
  ~ running =>
    \A t \in {s \in Tools : Tool[s].rows # {}} :
      \A u \in {{}} \cup {{l} : l \in Tool[t].listings} :
        Findings(Tool[t].rows, live, u) = {} =>
          \A r \in Owned[t] :
            \/ live[r] = "ok"
            \/ live[r] = "pending" /\ r \in EnoughWhenPending
            \/ r \in NoRow \cup UNION {Unnoticed[l] : l \in u \cap DOMAIN Unnoticed}

\* What no run repairs: what is created but never updated; what is added to; a product whose
\* operation configs are gone (provision.py:629) and an app whose key is (745, 857): drift
\* at every run, and every run writes the same; a rule or a proxy that was not made when
\* the resource before it was; and what no row is about, of a tool that has no other reason
\* to write.
CreatedOnce ==
  {"subnet", "sql", "dbAddress", "lbAddress", "neg", "urlPaths", "fwd", "attachment",
   "collector", "aiVpc", "aiSubnet", "pscRule", "dnsRecord"}
Leftover(r) ==
  \/ live[r] = "wrong" /\ r \in CreatedOnce
  \/ live[r] = "odd" /\ r \in {"runInvoker", "app", "product"}
  \/ live[r] = "keyless"
  \/ r = "dbRule" /\ live["dbAddress"] # "absent"
  \/ r = "httpProxy" /\ live["urlMap"] = "ok" /\ live["urlPaths"] = "ok"
  \/ \E t \in DOMAIN Tool :
       r \in NoRow \cap Owned[t] /\ Tool[t].gated /\ Findings(Tool[t].rows, live, {}) = {}

\* What cannot be made for want of something else.
Wanting(r) ==
  \/ \A call \in MakersOf[r] : ~ Possible(call, live)
  \/ \E t \in DOMAIN Tool : \E row \in Tool[t].rows :
       row.lead = r /\ \E s \in DOMAIN row.under : live[s] \in {"absent", "keyless"}

\* However a campaign was disturbed, running the tools again and again brings everything
\* in order in the end, except leftovers and what is wanting because of one.
SettlesInTheEnd ==
  <>[](~ running /\ stage = 1 =>
         \A r \in UNION {Owned[t] : t \in Tools} :
           \/ live[r] = "ok"
           \/ Leftover(r)
           \/ Wanting(r) /\ \E s \in Resource : live[s] # "ok" /\ Leftover(s))

\* No run puts out of order what is in order, except what is replaced by design.
Promise ==
  INSTANCE Upkeep WITH
    Replaced <- {"dashboard", "dbData", "bffPin"},
    good <- {r \in Resource : live[r] = "ok"},
    busy <- running
NoRunDamages == Promise!Spec

\* A first run on an empty cloud that prints "converged" (provision_services.py:875) has
\* made the "consumer forwarding rule" that its docstring lists (13).
ConvergedReachesTheDatabase ==
  [][End /\ tool = "services" /\ ~ rounds /\ Findings(ServicesRows, live, {}) = {} =>
       live["dbRule"] = "ok"]_vars

=============================================================================
