-------------------------- MODULE ProvisioningProofs --------------------------
(***************************************************************************)
(* No run of a provisioning tool damages anything, for any campaign.       *)
(***************************************************************************)
EXTENDS Provisioning, SequenceTheorems, FiniteSetTheorems, TLAPS

Replaced == {"dashboard", "dbData", "bffPin"}

-----------------------------------------------------------------------------
(* What all calls have in common.                                          *)

\* A call that makes nothing but what its tool is for, and that can be issued at any time
\* without putting anything out of order that it does not replace by design.
Gentle(own, call) ==
  /\ call.makes \subseteq own
  /\ \/ call.how \in {"create", "update", "set"}
     \/ call.how \in {"add", "drop"} /\ call.makes = {"dashboard"}
  /\ call.late => call.makes \cap DOMAIN Refers = {}
  /\ \/ call.spoils \subseteq Replaced
     \/ call.how = "create" /\ \E s \in DOMAIN Refers : /\ call.spoils = {s}
                                                        /\ call.makes = {Refers[s]}
  /\ "dbRule" \in call.makes => "sql" \in call.needs
  /\ "secretValue" \in call.makes => "app" \in call.needs
  /\ "targetServer" \in call.makes =>
       call.kinds = {"targetServer"} /\ call.for \subseteq {"missing", "drift"}
  /\ {"sql", "endpoint", "app"} \cap call.makes # {} => call.within = {}
  /\ {"httpProxy", "developer", "dnsZone"} \cap call.makes # {} =>
       call.how = "create" /\ ~ call.late /\ call.within = {}
  /\ "fwd" \in call.makes => "httpProxy" \in call.needs
  /\ "app" \in call.makes => "developer" \in call.needs \/ call.how = "update"
  /\ "dnsRecord" \in call.makes => "dnsZone" \in call.needs

AllGentle(own, calls) ==
  (\E T : calls \in Seq(T)) /\ \A i \in DOMAIN calls : Gentle(own, calls[i])

LEMMA ConcatGentle ==
  ASSUME NEW own, NEW s, NEW t, AllGentle(own, s), AllGentle(own, t)
  PROVE  AllGentle(own, s \o t)
<1>1. PICK S, T : s \in Seq(S) /\ t \in Seq(T)
  BY DEF AllGentle
<1>2. s \in Seq(S \cup T) /\ t \in Seq(S \cup T)
  BY <1>1, SeqDef
<1>3. /\ s \o t \in Seq(S \cup T)
      /\ \A i \in DOMAIN (s \o t) : \/ i \in DOMAIN s /\ (s \o t)[i] = s[i]
                                    \/ i - Len(s) \in DOMAIN t /\ (s \o t)[i] = t[i - Len(s)]
  BY <1>2
<1> QED
  BY <1>3 DEF AllGentle

\* A list of gentle calls.
LEMMA ListsAreGentle ==
  ASSUME NEW own, NEW a, NEW b, NEW c, NEW d, NEW e, NEW f, NEW g, NEW h
  PROVE  /\ Gentle(own, a) =>
              AllGentle(own, <<a>>)
         /\ Gentle(own, a) /\ Gentle(own, b) =>
              AllGentle(own, <<a, b>>)
         /\ Gentle(own, a) /\ Gentle(own, b) /\ Gentle(own, c) =>
              AllGentle(own, <<a, b, c>>)
         /\ Gentle(own, a) /\ Gentle(own, b) /\ Gentle(own, c) /\ Gentle(own, d) =>
              AllGentle(own, <<a, b, c, d>>)
         /\ Gentle(own, a) /\ Gentle(own, b) /\ Gentle(own, c) /\ Gentle(own, d) /\ Gentle(own, e) =>
              AllGentle(own, <<a, b, c, d, e>>)
         /\ Gentle(own, a) /\ Gentle(own, b) /\ Gentle(own, c) /\ Gentle(own, d) /\ Gentle(own, e) /\ Gentle(own, f) =>
              AllGentle(own, <<a, b, c, d, e, f>>)
         /\ Gentle(own, a) /\ Gentle(own, b) /\ Gentle(own, c) /\ Gentle(own, d) /\ Gentle(own, e) /\ Gentle(own, f) /\ Gentle(own, g) /\ Gentle(own, h) =>
              AllGentle(own, <<a, b, c, d, e, f, g, h>>)
<1>1. ASSUME Gentle(own, a)
      PROVE  AllGentle(own, <<a>>)
  <2> DEFINE s == <<a>>
  <2>1. s \in Seq({a}) /\ DOMAIN s = 1 .. 1
    OBVIOUS
  <2>2. \A i \in 1 .. 1 : Gentle(own, s[i])
    BY <1>1
  <2> HIDE DEF s
  <2>3. AllGentle(own, s)
    BY <2>1, <2>2 DEF AllGentle
  <2> QED
    BY <2>3 DEF s
<1>2. ASSUME Gentle(own, a) /\ Gentle(own, b)
      PROVE  AllGentle(own, <<a, b>>)
  <2> DEFINE s == <<a, b>>
  <2>1. s \in Seq({a, b}) /\ DOMAIN s = 1 .. 2
    OBVIOUS
  <2>2. \A i \in 1 .. 2 : Gentle(own, s[i])
    BY <1>2
  <2> HIDE DEF s
  <2>3. AllGentle(own, s)
    BY <2>1, <2>2 DEF AllGentle
  <2> QED
    BY <2>3 DEF s
<1>3. ASSUME Gentle(own, a) /\ Gentle(own, b) /\ Gentle(own, c)
      PROVE  AllGentle(own, <<a, b, c>>)
  <2> DEFINE s == <<a, b, c>>
  <2>1. s \in Seq({a, b, c}) /\ DOMAIN s = 1 .. 3
    OBVIOUS
  <2>2. \A i \in 1 .. 3 : Gentle(own, s[i])
    BY <1>3
  <2> HIDE DEF s
  <2>3. AllGentle(own, s)
    BY <2>1, <2>2 DEF AllGentle
  <2> QED
    BY <2>3 DEF s
<1>4. ASSUME Gentle(own, a) /\ Gentle(own, b) /\ Gentle(own, c) /\ Gentle(own, d)
      PROVE  AllGentle(own, <<a, b, c, d>>)
  <2> DEFINE s == <<a, b, c, d>>
  <2>1. s \in Seq({a, b, c, d}) /\ DOMAIN s = 1 .. 4
    OBVIOUS
  <2>2. \A i \in 1 .. 4 : Gentle(own, s[i])
    BY <1>4
  <2> HIDE DEF s
  <2>3. AllGentle(own, s)
    BY <2>1, <2>2 DEF AllGentle
  <2> QED
    BY <2>3 DEF s
<1>5. ASSUME Gentle(own, a) /\ Gentle(own, b) /\ Gentle(own, c) /\ Gentle(own, d) /\ Gentle(own, e)
      PROVE  AllGentle(own, <<a, b, c, d, e>>)
  <2> DEFINE s == <<a, b, c, d, e>>
  <2>1. s \in Seq({a, b, c, d, e}) /\ DOMAIN s = 1 .. 5
    OBVIOUS
  <2>2. \A i \in 1 .. 5 : Gentle(own, s[i])
    BY <1>5
  <2> HIDE DEF s
  <2>3. AllGentle(own, s)
    BY <2>1, <2>2 DEF AllGentle
  <2> QED
    BY <2>3 DEF s
<1>6. ASSUME Gentle(own, a) /\ Gentle(own, b) /\ Gentle(own, c) /\ Gentle(own, d) /\ Gentle(own, e) /\ Gentle(own, f)
      PROVE  AllGentle(own, <<a, b, c, d, e, f>>)
  <2> DEFINE s == <<a, b, c, d, e, f>>
  <2>1. s \in Seq({a, b, c, d, e, f}) /\ DOMAIN s = 1 .. 6
    OBVIOUS
  <2>2. \A i \in 1 .. 6 : Gentle(own, s[i])
    BY <1>6
  <2> HIDE DEF s
  <2>3. AllGentle(own, s)
    BY <2>1, <2>2 DEF AllGentle
  <2> QED
    BY <2>3 DEF s
<1>7. ASSUME Gentle(own, a) /\ Gentle(own, b) /\ Gentle(own, c) /\ Gentle(own, d) /\ Gentle(own, e) /\ Gentle(own, f) /\ Gentle(own, g) /\ Gentle(own, h)
      PROVE  AllGentle(own, <<a, b, c, d, e, f, g, h>>)
  <2> DEFINE s == <<a, b, c, d, e, f, g, h>>
  <2>1. s \in Seq({a, b, c, d, e, f, g, h}) /\ DOMAIN s = 1 .. 8
    OBVIOUS
  <2>2. \A i \in 1 .. 8 : Gentle(own, s[i])
    BY <1>7
  <2> HIDE DEF s
  <2>3. AllGentle(own, s)
    BY <2>1, <2>2 DEF AllGentle
  <2> QED
    BY <2>3 DEF s
<1> QED
  BY <1>1, <1>2, <1>3, <1>4, <1>5, <1>6, <1>7

\* What is listed is called.
Members(s) == {s[i] : i \in DOMAIN s}

LEMMA MembersConcat ==
  ASSUME NEW own, NEW s, NEW t, AllGentle(own, s), AllGentle(own, t)
  PROVE  Members(s) \subseteq Members(s \o t) /\ Members(t) \subseteq Members(s \o t)
<1>1. PICK S, T : s \in Seq(S) /\ t \in Seq(T)
  BY DEF AllGentle
<1>2. s \in Seq(S \cup T) /\ t \in Seq(S \cup T)
  BY <1>1, SeqDef
<1>3. /\ \A i \in DOMAIN s : i \in DOMAIN (s \o t) /\ (s \o t)[i] = s[i]
      /\ \A i \in DOMAIN t : i + Len(s) \in DOMAIN (s \o t) /\ (s \o t)[i + Len(s)] = t[i]
  BY <1>2
<1> QED
  BY <1>3 DEF Members

\* What the tools are for.
ServicesOwn ==
  {"apis", "vpc", "subnet", "runtimeSa", "runtimeRoles", "buildGrant", "actAs", "invokerSa",
   "buildRepo", "sql", "dbAddress", "dbRule", "database", "dbUser", "neg", "backend",
   "backendNeg", "urlMap", "urlPaths", "httpProxy", "lbAddress", "fwd", "attachment",
   "endpoint", "accepted"}
SeedOwn == {"seedBucket", "seedViewer", "database", "dbTables", "dbData", "dbGrants"}
RunOwn == {"runService", "runInvoker"}
GatewayOwn ==
  {"deploySa", "saActAs", "saMinter", "telemetry", "traceConfig", "targetServer",
   "collector", "product", "developer", "app", "noRetiredApp"}
AgentsOwn ==
  {"aiApis", "bucket", "geapBucket", "geapDnsPeer", "geapNetAdmin", "aiVpc", "aiSubnet",
   "netAttach", "pscAddr", "pscRule", "pscAccept", "dnsZone", "dnsRecord", "aiRepo",
   "aiBuildGrant", "agentSas", "agentRoles", "agentBucket", "agentActAs", "aclDb",
   "aclSeeds"}
SecretOwn == {"secret", "secretValue", "secretAccess", "secretGeap"}
EngineOwn == {"engine"}
UserOwn == {"endUser", "endUserApp"}
BffOwn == {"bffService", "bffPin", "bffIap"}
AnalyticsOwn == {"anApis", "metrics", "dashboard", "reports"}

Own ==
  [services |-> ServicesOwn, seed |-> SeedOwn, run |-> RunOwn, apigee |-> GatewayOwn,
   agents |-> AgentsOwn, secrets |-> SecretOwn, engines |-> EngineOwn, users |-> UserOwn,
   frontend |-> BffOwn, analytics |-> AnalyticsOwn]

LEMMA ServicesGentle ==
  /\ AllGentle(ServicesOwn, ServicesCalls)
  /\ Members(DatabaseCalls) \cup Members(LbCalls) \subseteq Members(ServicesCalls)
  /\ Members(PscCalls) \subseteq Members(ServicesCalls)
<1>1. AllGentle(ServicesOwn, ProjectCalls)
  <2> DEFINE s == ProjectCalls
  <2>1. s = <<s[1], s[2], s[3]>>
    BY DEF ProjectCalls
  <2>2. Gentle(ServicesOwn, s[1]) /\ Gentle(ServicesOwn, s[2]) /\ Gentle(ServicesOwn, s[3])
    BY DEF ProjectCalls, Call, How, Set, Hard, Late, For, Unless, Within, Spoils, Gentle, Refers, Replaced, ServicesOwn
  <2> HIDE DEF s
  <2> QED
    BY <2>1, <2>2, ListsAreGentle DEF s
<1>2. AllGentle(ServicesOwn, IdentityCalls)
  <2> DEFINE s == IdentityCalls
  <2>1. s = <<s[1], s[2], s[3], s[4], s[5], s[6]>>
    BY DEF IdentityCalls
  <2>2. /\ Gentle(ServicesOwn, s[1]) /\ Gentle(ServicesOwn, s[2]) /\ Gentle(ServicesOwn, s[3]) /\ Gentle(ServicesOwn, s[4])
        /\ Gentle(ServicesOwn, s[5]) /\ Gentle(ServicesOwn, s[6])
    BY DEF IdentityCalls, Call, How, Set, Hard, Late, For, Unless, Within, Spoils, Gentle, Refers, Replaced, ServicesOwn
  <2> HIDE DEF s
  <2> QED
    BY <2>1, <2>2, ListsAreGentle DEF s
<1>3. AllGentle(ServicesOwn, DatabaseCalls)
  <2> DEFINE s == DatabaseCalls
  <2>1. s = <<s[1], s[2], s[3], s[4], s[5]>>
    BY DEF DatabaseCalls
  <2>2. /\ Gentle(ServicesOwn, s[1]) /\ Gentle(ServicesOwn, s[2]) /\ Gentle(ServicesOwn, s[3]) /\ Gentle(ServicesOwn, s[4])
        /\ Gentle(ServicesOwn, s[5])
    BY DEF DatabaseCalls, Call, How, Set, Hard, Late, For, Unless, Within, Spoils, Gentle, Refers, Replaced, ServicesOwn
  <2> HIDE DEF s
  <2> QED
    BY <2>1, <2>2, ListsAreGentle DEF s
<1>4. AllGentle(ServicesOwn, LbCalls)
  <2> DEFINE s == LbCalls
  <2>1. s = <<s[1], s[2], s[3], s[4], s[5], s[6], s[7], s[8]>>
    BY DEF LbCalls
  <2>2. /\ Gentle(ServicesOwn, s[1]) /\ Gentle(ServicesOwn, s[2]) /\ Gentle(ServicesOwn, s[3]) /\ Gentle(ServicesOwn, s[4])
        /\ Gentle(ServicesOwn, s[5]) /\ Gentle(ServicesOwn, s[6]) /\ Gentle(ServicesOwn, s[7]) /\ Gentle(ServicesOwn, s[8])
    BY DEF LbCalls, Call, How, Set, Hard, Late, For, Unless, Within, Spoils, Gentle, Refers, Replaced, ServicesOwn
  <2> HIDE DEF s
  <2> QED
    BY <2>1, <2>2, ListsAreGentle DEF s
<1>5. AllGentle(ServicesOwn, PscCalls)
  <2> DEFINE s == PscCalls
  <2>1. s = <<s[1], s[2]>>
    BY DEF PscCalls
  <2>2. Gentle(ServicesOwn, s[1]) /\ Gentle(ServicesOwn, s[2])
    BY DEF PscCalls, Call, How, Set, Hard, Late, For, Unless, Within, Spoils, Gentle, Refers, Replaced, ServicesOwn
  <2> HIDE DEF s
  <2> QED
    BY <2>1, <2>2, ListsAreGentle DEF s
<1>6. AllGentle(ServicesOwn, AcceptCalls)
  <2> DEFINE s == AcceptCalls
  <2>1. s = <<s[1]>>
    BY DEF AcceptCalls
  <2>2. Gentle(ServicesOwn, s[1])
    BY DEF AcceptCalls, Call, How, Set, Hard, Late, For, Unless, Within, Spoils, Gentle, Refers, Replaced, ServicesOwn
  <2> HIDE DEF s
  <2> QED
    BY <2>1, <2>2, ListsAreGentle DEF s
<1> QED
  <2> DEFINE two == ProjectCalls \o IdentityCalls
             three == two \o DatabaseCalls
             four == three \o LbCalls
             five == four \o PscCalls
  <2>1. AllGentle(ServicesOwn, two) /\ AllGentle(ServicesOwn, three) /\ AllGentle(ServicesOwn, four) /\ AllGentle(ServicesOwn, five)
    BY <1>1, <1>2, <1>3, <1>4, <1>5, ConcatGentle
  <2>2. Members(DatabaseCalls) \subseteq Members(three)
    BY <1>3, <2>1, MembersConcat
  <2>3. Members(three) \subseteq Members(four) /\ Members(LbCalls) \subseteq Members(four)
    BY <1>4, <2>1, MembersConcat
  <2>4. Members(four) \subseteq Members(five) /\ Members(PscCalls) \subseteq Members(five)
    BY <1>5, <2>1, MembersConcat
  <2>5. ServicesCalls = five \o AcceptCalls
    BY DEF ServicesCalls
  <2> HIDE DEF two, three, four, five
  <2>6. AllGentle(ServicesOwn, ServicesCalls) /\ Members(five) \subseteq Members(ServicesCalls)
    BY <1>6, <2>1, <2>5, ConcatGentle, MembersConcat
  <2> QED
    BY <2>2, <2>3, <2>4, <2>6

LEMMA SeedGentle == AllGentle(SeedOwn, SeedCalls)
<1>1. AllGentle(SeedOwn, SeedCalls)
  <2> DEFINE s == SeedCalls
  <2>1. s = <<s[1], s[2], s[3], s[4], s[5]>>
    BY DEF SeedCalls
  <2>2. /\ Gentle(SeedOwn, s[1]) /\ Gentle(SeedOwn, s[2]) /\ Gentle(SeedOwn, s[3]) /\ Gentle(SeedOwn, s[4])
        /\ Gentle(SeedOwn, s[5])
    BY DEF SeedCalls, Call, How, Set, Hard, Late, For, Unless, Within, Spoils, Gentle, Refers, Replaced, SeedOwn
  <2> HIDE DEF s
  <2> QED
    BY <2>1, <2>2, ListsAreGentle DEF s
<1> QED
  BY <1>1

LEMMA RunGentle == AllGentle(RunOwn, DeployRunCalls \o RunIamCalls)
<1>1. AllGentle(RunOwn, DeployRunCalls)
  <2> DEFINE s == DeployRunCalls
  <2>1. s = <<s[1]>>
    BY DEF DeployRunCalls
  <2>2. Gentle(RunOwn, s[1])
    BY DEF DeployRunCalls, Call, How, Set, Hard, Late, For, Unless, Within, Spoils, Gentle, Refers, Replaced, RunOwn
  <2> HIDE DEF s
  <2> QED
    BY <2>1, <2>2, ListsAreGentle DEF s
<1>2. AllGentle(RunOwn, RunIamCalls)
  <2> DEFINE s == RunIamCalls
  <2>1. s = <<s[1]>>
    BY DEF RunIamCalls
  <2>2. Gentle(RunOwn, s[1])
    BY DEF RunIamCalls, Call, How, Set, Hard, Late, For, Unless, Within, Spoils, Gentle, Refers, Replaced, RunOwn
  <2> HIDE DEF s
  <2> QED
    BY <2>1, <2>2, ListsAreGentle DEF s
<1> QED
  BY <1>1, <1>2, ConcatGentle

LEMMA GatewayGentle ==
  /\ AllGentle(GatewayOwn, GatewayCalls)
  /\ Members(ResourceCalls) \cup Members(AppCalls) \subseteq Members(GatewayCalls)
<1>1. AllGentle(GatewayOwn, DeploySaCalls)
  <2> DEFINE s == DeploySaCalls
  <2>1. s = <<s[1], s[2], s[3]>>
    BY DEF DeploySaCalls
  <2>2. Gentle(GatewayOwn, s[1]) /\ Gentle(GatewayOwn, s[2]) /\ Gentle(GatewayOwn, s[3])
    BY DEF DeploySaCalls, Call, How, Set, Hard, Late, For, Unless, Within, Spoils, Gentle, Refers, Replaced, GatewayOwn
  <2> HIDE DEF s
  <2> QED
    BY <2>1, <2>2, ListsAreGentle DEF s
<1>2. AllGentle(GatewayOwn, TelemetryCalls)
  <2> DEFINE s == TelemetryCalls
  <2>1. s = <<s[1]>>
    BY DEF TelemetryCalls
  <2>2. Gentle(GatewayOwn, s[1])
    BY DEF TelemetryCalls, Call, How, Set, Hard, Late, For, Unless, Within, Spoils, Gentle, Refers, Replaced, GatewayOwn
  <2> HIDE DEF s
  <2> QED
    BY <2>1, <2>2, ListsAreGentle DEF s
<1>3. AllGentle(GatewayOwn, ResourceCalls)
  <2> DEFINE s == ResourceCalls
  <2>1. s = <<s[1], s[2], s[3], s[4]>>
    BY DEF ResourceCalls
  <2>2. Gentle(GatewayOwn, s[1]) /\ Gentle(GatewayOwn, s[2]) /\ Gentle(GatewayOwn, s[3]) /\ Gentle(GatewayOwn, s[4])
    BY DEF ResourceCalls, Call, How, Set, Hard, Late, For, Unless, Within, Spoils, Gentle, Refers, Replaced, GatewayOwn
  <2> HIDE DEF s
  <2> QED
    BY <2>1, <2>2, ListsAreGentle DEF s
<1>4. AllGentle(GatewayOwn, ProductCalls)
  <2> DEFINE s == ProductCalls
  <2>1. s = <<s[1], s[2]>>
    BY DEF ProductCalls
  <2>2. Gentle(GatewayOwn, s[1]) /\ Gentle(GatewayOwn, s[2])
    BY DEF ProductCalls, Call, How, Set, Hard, Late, For, Unless, Within, Spoils, Gentle, Refers, Replaced, GatewayOwn
  <2> HIDE DEF s
  <2> QED
    BY <2>1, <2>2, ListsAreGentle DEF s
<1>5. AllGentle(GatewayOwn, AppCalls)
  <2> DEFINE s == AppCalls
  <2>1. s = <<s[1], s[2], s[3], s[4]>>
    BY DEF AppCalls
  <2>2. Gentle(GatewayOwn, s[1]) /\ Gentle(GatewayOwn, s[2]) /\ Gentle(GatewayOwn, s[3]) /\ Gentle(GatewayOwn, s[4])
    BY DEF AppCalls, Call, How, Set, Hard, Late, For, Unless, Within, Spoils, Gentle, Refers, Replaced, GatewayOwn
  <2> HIDE DEF s
  <2> QED
    BY <2>1, <2>2, ListsAreGentle DEF s
<1> QED
  <2> DEFINE two == DeploySaCalls \o TelemetryCalls
             three == two \o ResourceCalls
             four == three \o ProductCalls
  <2>1. AllGentle(GatewayOwn, two) /\ AllGentle(GatewayOwn, three) /\ AllGentle(GatewayOwn, four)
    BY <1>1, <1>2, <1>3, <1>4, ConcatGentle
  <2>2. Members(ResourceCalls) \subseteq Members(three)
    BY <1>3, <2>1, MembersConcat
  <2>3. Members(three) \subseteq Members(four)
    BY <1>4, <2>1, MembersConcat
  <2>4. GatewayCalls = four \o AppCalls
    BY DEF GatewayCalls
  <2> HIDE DEF two, three, four
  <2>5. /\ AllGentle(GatewayOwn, GatewayCalls)
        /\ Members(four) \subseteq Members(GatewayCalls)
        /\ Members(AppCalls) \subseteq Members(GatewayCalls)
    BY <1>5, <2>1, <2>4, ConcatGentle, MembersConcat
  <2> QED
    BY <2>2, <2>3, <2>5

LEMMA AgentsGentle ==
  /\ AllGentle(AgentsOwn, AgentsCalls)
  /\ Members(DnsCalls) \subseteq Members(AgentsCalls)
<1>1. AllGentle(AgentsOwn, InfraCalls)
  <2> DEFINE s == InfraCalls
  <2>1. s = <<s[1], s[2], s[3], s[4], s[5]>>
    BY DEF InfraCalls
  <2>2. /\ Gentle(AgentsOwn, s[1]) /\ Gentle(AgentsOwn, s[2]) /\ Gentle(AgentsOwn, s[3]) /\ Gentle(AgentsOwn, s[4])
        /\ Gentle(AgentsOwn, s[5])
    BY DEF InfraCalls, Call, How, Set, Hard, Late, For, Unless, Within, Spoils, Gentle, Refers, Replaced, AgentsOwn
  <2> HIDE DEF s
  <2> QED
    BY <2>1, <2>2, ListsAreGentle DEF s
<1>2. AllGentle(AgentsOwn, AiNetworkCalls)
  <2> DEFINE s == AiNetworkCalls
  <2>1. s = <<s[1], s[2], s[3], s[4], s[5]>>
    BY DEF AiNetworkCalls
  <2>2. /\ Gentle(AgentsOwn, s[1]) /\ Gentle(AgentsOwn, s[2]) /\ Gentle(AgentsOwn, s[3]) /\ Gentle(AgentsOwn, s[4])
        /\ Gentle(AgentsOwn, s[5])
    BY DEF AiNetworkCalls, Call, How, Set, Hard, Late, For, Unless, Within, Spoils, Gentle, Refers, Replaced, AgentsOwn
  <2> HIDE DEF s
  <2> QED
    BY <2>1, <2>2, ListsAreGentle DEF s
<1>3. AllGentle(AgentsOwn, AcceptListCalls)
  <2> DEFINE s == AcceptListCalls
  <2>1. s = <<s[1]>>
    BY DEF AcceptListCalls
  <2>2. Gentle(AgentsOwn, s[1])
    BY DEF AcceptListCalls, Call, How, Set, Hard, Late, For, Unless, Within, Spoils, Gentle, Refers, Replaced, AgentsOwn
  <2> HIDE DEF s
  <2> QED
    BY <2>1, <2>2, ListsAreGentle DEF s
<1>4. AllGentle(AgentsOwn, DnsCalls)
  <2> DEFINE s == DnsCalls
  <2>1. s = <<s[1], s[2], s[3]>>
    BY DEF DnsCalls
  <2>2. Gentle(AgentsOwn, s[1]) /\ Gentle(AgentsOwn, s[2]) /\ Gentle(AgentsOwn, s[3])
    BY DEF DnsCalls, Call, How, Set, Hard, Late, For, Unless, Within, Spoils, Gentle, Refers, Replaced, AgentsOwn
  <2> HIDE DEF s
  <2> QED
    BY <2>1, <2>2, ListsAreGentle DEF s
<1>5. AllGentle(AgentsOwn, BuildSaCalls)
  <2> DEFINE s == BuildSaCalls
  <2>1. s = <<s[1]>>
    BY DEF BuildSaCalls
  <2>2. Gentle(AgentsOwn, s[1])
    BY DEF BuildSaCalls, Call, How, Set, Hard, Late, For, Unless, Within, Spoils, Gentle, Refers, Replaced, AgentsOwn
  <2> HIDE DEF s
  <2> QED
    BY <2>1, <2>2, ListsAreGentle DEF s
<1>6. AllGentle(AgentsOwn, AgentSaCalls)
  <2> DEFINE s == AgentSaCalls
  <2>1. s = <<s[1], s[2], s[3], s[4]>>
    BY DEF AgentSaCalls
  <2>2. Gentle(AgentsOwn, s[1]) /\ Gentle(AgentsOwn, s[2]) /\ Gentle(AgentsOwn, s[3]) /\ Gentle(AgentsOwn, s[4])
    BY DEF AgentSaCalls, Call, How, Set, Hard, Late, For, Unless, Within, Spoils, Gentle, Refers, Replaced, AgentsOwn
  <2> HIDE DEF s
  <2> QED
    BY <2>1, <2>2, ListsAreGentle DEF s
<1>7. AllGentle(AgentsOwn, AclCalls)
  <2> DEFINE s == AclCalls
  <2>1. s = <<s[1], s[2]>>
    BY DEF AclCalls
  <2>2. Gentle(AgentsOwn, s[1]) /\ Gentle(AgentsOwn, s[2])
    BY DEF AclCalls, Call, How, Set, Hard, Late, For, Unless, Within, Spoils, Gentle, Refers, Replaced, AgentsOwn
  <2> HIDE DEF s
  <2> QED
    BY <2>1, <2>2, ListsAreGentle DEF s
<1> QED
  <2> DEFINE two == InfraCalls \o AiNetworkCalls
             three == two \o AcceptListCalls
             four == three \o DnsCalls
             five == four \o BuildSaCalls
             six == five \o AgentSaCalls
  <2>1. /\ AllGentle(AgentsOwn, two) /\ AllGentle(AgentsOwn, three)
        /\ AllGentle(AgentsOwn, four) /\ AllGentle(AgentsOwn, five)
        /\ AllGentle(AgentsOwn, six)
    BY <1>1, <1>2, <1>3, <1>4, <1>5, <1>6, ConcatGentle
  <2>2. Members(DnsCalls) \subseteq Members(four)
    BY <1>4, <2>1, MembersConcat
  <2>3. Members(four) \subseteq Members(five)
    BY <1>5, <2>1, MembersConcat
  <2>4. Members(five) \subseteq Members(six)
    BY <1>6, <2>1, MembersConcat
  <2>5. AgentsCalls = six \o AclCalls
    BY DEF AgentsCalls
  <2> HIDE DEF two, three, four, five, six
  <2>6. AllGentle(AgentsOwn, AgentsCalls) /\ Members(six) \subseteq Members(AgentsCalls)
    BY <1>7, <2>1, <2>5, ConcatGentle, MembersConcat
  <2> QED
    BY <2>2, <2>3, <2>4, <2>6

LEMMA SecretGentle == AllGentle(SecretOwn, SecretCalls)
<1>1. AllGentle(SecretOwn, SecretCalls)
  <2> DEFINE s == SecretCalls
  <2>1. s = <<s[1], s[2], s[3], s[4]>>
    BY DEF SecretCalls
  <2>2. Gentle(SecretOwn, s[1]) /\ Gentle(SecretOwn, s[2]) /\ Gentle(SecretOwn, s[3]) /\ Gentle(SecretOwn, s[4])
    BY DEF SecretCalls, Call, How, Set, Hard, Late, For, Unless, Within, Spoils, Gentle, Refers, Replaced, SecretOwn
  <2> HIDE DEF s
  <2> QED
    BY <2>1, <2>2, ListsAreGentle DEF s
<1> QED
  BY <1>1

LEMMA EngineGentle == AllGentle(EngineOwn, EngineCalls)
<1>1. AllGentle(EngineOwn, EngineCalls)
  <2> DEFINE s == EngineCalls
  <2>1. s = <<s[1]>>
    BY DEF EngineCalls
  <2>2. Gentle(EngineOwn, s[1])
    BY DEF EngineCalls, Call, How, Set, Hard, Late, For, Unless, Within, Spoils, Gentle, Refers, Replaced, EngineOwn
  <2> HIDE DEF s
  <2> QED
    BY <2>1, <2>2, ListsAreGentle DEF s
<1> QED
  BY <1>1

LEMMA UserGentle == AllGentle(UserOwn, UserCalls)
<1>1. AllGentle(UserOwn, UserCalls)
  <2> DEFINE s == UserCalls
  <2>1. s = <<s[1], s[2], s[3]>>
    BY DEF UserCalls
  <2>2. Gentle(UserOwn, s[1]) /\ Gentle(UserOwn, s[2]) /\ Gentle(UserOwn, s[3])
    BY DEF UserCalls, Call, How, Set, Hard, Late, For, Unless, Within, Spoils, Gentle, Refers, Replaced, UserOwn
  <2> HIDE DEF s
  <2> QED
    BY <2>1, <2>2, ListsAreGentle DEF s
<1> QED
  BY <1>1

LEMMA BffGentle == AllGentle(BffOwn, BffCalls \o IapCalls)
<1>1. AllGentle(BffOwn, BffCalls)
  <2> DEFINE s == BffCalls
  <2>1. s = <<s[1]>>
    BY DEF BffCalls
  <2>2. Gentle(BffOwn, s[1])
    BY DEF BffCalls, Call, How, Set, Hard, Late, For, Unless, Within, Spoils, Gentle, Refers, Replaced, BffOwn
  <2> HIDE DEF s
  <2> QED
    BY <2>1, <2>2, ListsAreGentle DEF s
<1>2. AllGentle(BffOwn, IapCalls)
  <2> DEFINE s == IapCalls
  <2>1. s = <<s[1]>>
    BY DEF IapCalls
  <2>2. Gentle(BffOwn, s[1])
    BY DEF IapCalls, Call, How, Set, Hard, Late, For, Unless, Within, Spoils, Gentle, Refers, Replaced, BffOwn
  <2> HIDE DEF s
  <2> QED
    BY <2>1, <2>2, ListsAreGentle DEF s
<1> QED
  BY <1>1, <1>2, ConcatGentle

LEMMA AnalyticsGentle == AllGentle(AnalyticsOwn, AnalyticsCalls)
<1>1. AllGentle(AnalyticsOwn, AnalyticsCalls)
  <2> DEFINE s == AnalyticsCalls
  <2>1. s = <<s[1], s[2], s[3], s[4], s[5], s[6]>>
    BY DEF AnalyticsCalls
  <2>2. /\ Gentle(AnalyticsOwn, s[1]) /\ Gentle(AnalyticsOwn, s[2]) /\ Gentle(AnalyticsOwn, s[3]) /\ Gentle(AnalyticsOwn, s[4])
        /\ Gentle(AnalyticsOwn, s[5]) /\ Gentle(AnalyticsOwn, s[6])
    BY DEF AnalyticsCalls, Call, How, Set, Hard, Late, For, Unless, Within, Spoils, Gentle, Refers, Replaced, AnalyticsOwn
  <2> HIDE DEF s
  <2> QED
    BY <2>1, <2>2, ListsAreGentle DEF s
<1> QED
  BY <1>1

-----------------------------------------------------------------------------
(* What all rows have in common.                                           *)

RowStatuses == {"OK", "missing", "drift", "unknown"}

\* A row has a status whatever is read, and nothing is planned for a target server that
\* has no endpoint.
Sane(row) ==
  /\ row.gone \in RowStatuses
  /\ \A l \in DOMAIN row.unread : row.unread[l] \in RowStatuses
  /\ \A r \in DOMAIN row.under : row.under[r] \in RowStatuses
  /\ \A r \in DOMAIN row.awaiting : row.awaiting[r] \in RowStatuses
  /\ row.kind = "targetServer" =>
       /\ \A l \in DOMAIN row.unread : row.unread[l] = "unknown"
       /\ DOMAIN row.under = {"endpoint"} /\ row.under["endpoint"] = "unknown"
       /\ \A r \in DOMAIN row.awaiting : row.awaiting[r] = "unknown"

AllSane(rows) == \A row \in rows : Sane(row)

LEMMA StatusOfRow ==
  ASSUME NEW row, Sane(row), NEW cloud, NEW u
  PROVE  /\ RowStatus(row, cloud, u) \in RowStatuses
         /\ row.kind = "targetServer" /\ RowStatus(row, cloud, u) \in {"missing", "drift"} =>
              cloud["endpoint"] # "absent"
<1> DEFINE blind == u \cap DOMAIN row.unread
           without == {r \in DOMAIN row.under : cloud[r] \in {"absent", "keyless"}}
           early == {r \in DOMAIN row.awaiting : cloud[r] = "pending"}
           off == {r \in {row.lead} \cup row.also :
                     cloud[r] # "ok" /\ <<r, cloud[r]>> \notin row.lenient}
<1>1. RowStatus(row, cloud, u) =
        IF blind # {} THEN row.unread[CHOOSE l \in blind : TRUE]
        ELSE IF without # {} THEN row.under[CHOOSE r \in without : TRUE]
        ELSE IF early # {} THEN row.awaiting[CHOOSE r \in early : TRUE]
        ELSE IF off = {} THEN "OK"
        ELSE IF cloud[row.lead] = "absent" THEN row.gone ELSE "drift"
  BY DEF RowStatus
<1>2. blind # {} => (CHOOSE l \in blind : TRUE) \in DOMAIN row.unread
  OBVIOUS
<1>3. without # {} => (CHOOSE r \in without : TRUE) \in DOMAIN row.under
  OBVIOUS
<1>4. row.kind = "targetServer" /\ cloud["endpoint"] = "absent" => without # {}
  BY DEF Sane
<1>5. early # {} => (CHOOSE r \in early : TRUE) \in DOMAIN row.awaiting
  OBVIOUS
<1> HIDE DEF blind, without, early, off
<1> QED
  BY <1>1, <1>2, <1>3, <1>4, <1>5 DEF Sane, RowStatuses

\* The rows about anything but the target server, however they are put together.
Plain(row) ==
  /\ DOMAIN row = {"kind", "lead", "also", "gone", "lenient", "unread", "under", "awaiting"}
  /\ row.kind # "targetServer"
  /\ Sane(row)

Statuses(f) == \A l \in DOMAIN f : f[l] \in RowStatuses

AllPlain(rows) == \A row \in rows : Plain(row)

LEMMA RowIsPlain ==
  ASSUME NEW kind, NEW lead, kind # "targetServer"
  PROVE  Plain(Row(kind, lead))
<1>1. DOMAIN <<>> = {}
  OBVIOUS
<1> QED
  BY <1>1 DEF Row, Plain, Sane, RowStatuses

LEMMA StaysPlain ==
  ASSUME NEW row, Plain(row)
  PROVE  /\ \A also : Plain(With(also, row))
         /\ \A status : Plain(Lenient(status, row))
         /\ \A lenient : Plain([row EXCEPT !.lenient = lenient])
         /\ \A status \in RowStatuses : Plain(Gone(status, row))
         /\ \A f : Statuses(f) => Plain(Unread(f, row)) /\ Plain(Under(f, row))
<1>1. \A also : Plain(With(also, row))
  BY DEF With, Plain, Sane
<1>2. \A status : Plain(Lenient(status, row))
  BY DEF Lenient, Plain, Sane
<1>3. \A status \in RowStatuses : Plain(Gone(status, row))
  BY DEF Gone, Plain, Sane
<1>4. ASSUME NEW f, Statuses(f) PROVE Plain(Unread(f, row)) /\ Plain(Under(f, row))
  BY <1>4 DEF Unread, Under, Plain, Sane, Statuses
<1>5. \A lenient : Plain([row EXCEPT !.lenient = lenient])
  BY DEF Plain, Sane
<1> QED
  BY <1>1, <1>2, <1>3, <1>4, <1>5

LEMMA ServicesPlain == AllPlain(ServicesRows)
<1>1. AllPlain(ApiRows)
  <2>1. Statuses([apis |-> "drift"])
    BY DEF Statuses, RowStatuses
  <2> QED
    BY <2>1, RowIsPlain, StaysPlain DEF ApiRows, AllPlain, RowStatuses
<1>2. AllPlain(NetworkRows)
  <2>1. Statuses([network |-> "unknown"])
    BY DEF Statuses, RowStatuses
  <2> QED
    BY <2>1, RowIsPlain, StaysPlain DEF NetworkRows, AllPlain, RowStatuses
<1>3. AllPlain(IdentityRows)
  <2>1. /\ Statuses([serviceAccounts |-> "missing", roles |-> "drift"])
         /\ Statuses([project |-> "drift", roles |-> "drift"])
         /\ Statuses([serviceAccounts |-> "drift", actAs |-> "drift", account |-> "OK"])
    BY DEF Statuses, RowStatuses
  <2> QED
    BY <2>1, RowIsPlain, StaysPlain DEF IdentityRows, AllPlain, RowStatuses
<1>4. AllPlain(InvokerRows)
  <2>1. Statuses([orgAccounts |-> "drift"])
    BY DEF Statuses, RowStatuses
  <2> QED
    BY <2>1, RowIsPlain, StaysPlain DEF InvokerRows, AllPlain, RowStatuses
<1>5. AllPlain(SqlRows)
  <2>1. /\ Statuses([sql |-> "missing"])
         /\ Statuses([sql |-> "OK", databases |-> "OK"])
         /\ Statuses([sql |-> "OK"])
         /\ Statuses([sql |-> "OK", users |-> "OK"])
    BY DEF Statuses, RowStatuses
  <2> QED
    BY <2>1, RowIsPlain, StaysPlain DEF SqlRows, AllPlain, RowStatuses
<1>6. AllPlain(AddressRows)
  <2>1. Statuses([addresses |-> "unknown"])
    BY DEF Statuses, RowStatuses
  <2> QED
    BY <2>1, RowIsPlain, StaysPlain DEF AddressRows, AllPlain, RowStatuses
<1>7. AllPlain(LbRows)
  <2>1. /\ Statuses([addresses |-> "unknown", negs |-> "unknown"])
         /\ Statuses([addresses |-> "unknown", negs |-> "unknown", lb |-> "missing"])
    BY DEF Statuses, RowStatuses
  <2> QED
    BY <2>1, RowIsPlain, StaysPlain DEF LbRows, AllPlain, RowStatuses
<1>8. AllPlain(PscRows)
  <2>1. Statuses([attachments |-> "missing"])
    BY DEF Statuses, RowStatuses
  <2> QED
    BY <2>1, RowIsPlain, StaysPlain DEF PscRows, AllPlain, RowStatuses
<1> QED
  BY <1>1, <1>2, <1>3, <1>4, <1>5, <1>6, <1>7, <1>8 DEF ServicesRows, AllPlain

LEMMA RunPlain == AllPlain(RunRows)
<1>1. /\ Statuses([run |-> "missing"])
       /\ Statuses([run |-> "OK", runIam |-> "drift"])
       /\ Statuses([runService |-> "OK"])
  BY DEF Statuses, RowStatuses
<1> QED
  BY <1>1, RowIsPlain, StaysPlain DEF RunRows, AllPlain, RowStatuses

LEMMA GatewayPlain == AllPlain(GatewayRows \ TargetServerRows)
<1>1. AllPlain(TelemetryRows)
  <2>1. Statuses([aiPolicy |-> "drift"])
    BY DEF Statuses, RowStatuses
  <2> QED
    BY <2>1, RowIsPlain, StaysPlain DEF TelemetryRows, AllPlain, RowStatuses
<1>2. AllPlain(DeploySaRows)
  <2>1. /\ Statuses([deploySa |-> "missing"])
         /\ Statuses([deploySa |-> "OK"])
         /\ Statuses([deploySa |-> "OK", saPolicy |-> "drift", account |-> "OK"])
         /\ Statuses([orgProject |-> "unknown", deploySa |-> "OK", saPolicy |-> "drift"])
    BY DEF Statuses, RowStatuses
  <2> QED
    BY <2>1, RowIsPlain, StaysPlain DEF DeploySaRows, AllPlain, RowStatuses
<1>3. AllPlain(TraceRows)
  <2>1. Statuses([trace |-> "unknown"])
    BY DEF Statuses, RowStatuses
  <2> QED
    BY <2>1, RowIsPlain, StaysPlain DEF TraceRows, AllPlain, RowStatuses
<1>4. AllPlain(CollectorRows)
  BY RowIsPlain, StaysPlain DEF CollectorRows, AllPlain, RowStatuses
<1>5. AllPlain(ProductRows)
  BY RowIsPlain, StaysPlain DEF ProductRows, AllPlain, RowStatuses
<1>6. AllPlain(AppRows)
  BY RowIsPlain, StaysPlain DEF AppRows, AllPlain, RowStatuses
<1>7. AllPlain(RetiredRows)
  BY RowIsPlain, StaysPlain DEF RetiredRows, AllPlain, RowStatuses
<1> QED
  BY <1>1, <1>2, <1>3, <1>4, <1>5, <1>6, <1>7 DEF GatewayRows, AllPlain

LEMMA AgentsPlain == AllPlain(AgentsRows)
<1>1. AllPlain(AiApiRows)
  <2>1. Statuses([aiApis |-> "drift"])
    BY DEF Statuses, RowStatuses
  <2> QED
    BY <2>1, RowIsPlain, StaysPlain DEF AiApiRows, AllPlain, RowStatuses
<1>2. AllPlain(AgentRoleRows)
  <2>1. /\ Statuses([aiProject |-> "OK", aiRoles |-> "drift"])
         /\ Statuses([aiProject |-> "drift", aiRoles |-> "drift"])
    BY DEF Statuses, RowStatuses
  <2> QED
    BY <2>1, RowIsPlain, StaysPlain DEF AgentRoleRows, AllPlain, RowStatuses
<1>3. AllPlain(AiNetworkRows)
  <2>1. Statuses([aiNetwork |-> "missing"])
    BY DEF Statuses, RowStatuses
  <2> QED
    BY <2>1, RowIsPlain, StaysPlain DEF AiNetworkRows, AllPlain, RowStatuses
<1>4. AllPlain(BucketRows)
  <2>1. /\ Statuses([bucket |-> "missing"])
         /\ Statuses([bucket |-> "OK", bucketPolicy |-> "drift", aiProject |-> "OK"])
         /\ Statuses([bucket |-> "OK"])
    BY DEF Statuses, RowStatuses
  <2> QED
    BY <2>1, RowIsPlain, StaysPlain DEF BucketRows, AllPlain, RowStatuses
<1>5. AllPlain(AgentSaRows)
  <2>1. Statuses([agentSas |-> "missing", aiRoles |-> "drift"])
    BY DEF Statuses, RowStatuses
  <2> QED
    BY <2>1, RowIsPlain, StaysPlain DEF AgentSaRows, AllPlain, RowStatuses
<1>6. AllPlain(GrantRows)
  <2>1. /\ Statuses([bucket |-> "OK", bucketPolicy |-> "OK"])
         /\ Statuses([bucket |-> "OK"])
         /\ Statuses([agentSas |-> "drift", account |-> "OK"])
    BY DEF Statuses, RowStatuses
  <2> QED
    BY <2>1, RowIsPlain, StaysPlain DEF GrantRows, AllPlain, RowStatuses
<1>7. AllPlain(AclRows)
  <2>1. Statuses([acl |-> "missing"])
    BY DEF Statuses, RowStatuses
  <2> QED
    BY <2>1, RowIsPlain, StaysPlain DEF AclRows, AllPlain, RowStatuses
<1> QED
  BY <1>1, <1>2, <1>3, <1>4, <1>5, <1>6, <1>7 DEF AgentsRows, AllPlain

LEMMA SecretPlain == AllPlain(SecretRows)
<1>1. /\ Statuses([secrets |-> "missing", secretPolicy |-> "drift"])
       /\ Statuses([secretValues |-> "OK", secrets |-> "OK"])
       /\ Statuses([secret |-> "OK", app |-> "OK"])
       /\ Statuses([aiProject |-> "OK", secretPolicy |-> "drift", secrets |-> "OK"])
       /\ Statuses([secret |-> "OK"])
  BY DEF Statuses, RowStatuses
<1> QED
  BY <1>1, RowIsPlain, StaysPlain DEF SecretRows, AllPlain, RowStatuses

LEMMA UserPlain == AllPlain(UserRows)
BY RowIsPlain, StaysPlain DEF UserRows, AllPlain, RowStatuses

LEMMA BffPlain == AllPlain(BffRows)
<1>1. Statuses([bffService |-> "OK"])
  BY DEF Statuses, RowStatuses
<1> QED
  BY <1>1, RowIsPlain, StaysPlain DEF BffRows, AllPlain, RowStatuses

LEMMA AnalyticsPlain == AllPlain(AnalyticsRows)
<1>1. AllPlain(AnApiRows)
  <2>1. Statuses([anApis |-> "drift"])
    BY DEF Statuses, RowStatuses
  <2> QED
    BY <2>1, RowIsPlain, StaysPlain DEF AnApiRows, AllPlain, RowStatuses
<1>2. AllPlain(MetricRows)
  <2>1. Statuses([metrics |-> "missing"])
    BY DEF Statuses, RowStatuses
  <2> QED
    BY <2>1, RowIsPlain, StaysPlain DEF MetricRows, AllPlain, RowStatuses
<1>3. AllPlain(ReportRows)
  <2>1. Statuses([reports |-> "unknown"])
    BY DEF Statuses, RowStatuses
  <2> QED
    BY <2>1, RowIsPlain, StaysPlain DEF ReportRows, AllPlain, RowStatuses
<1>4. Statuses([dashboards |-> "missing"])
  BY DEF Statuses, RowStatuses
<1>5. AllPlain({Unread([dashboards |-> "missing"],
                  [Row("dashboard", "dashboard") EXCEPT
                     !.lenient = {<<"dashboard", "wrong">>, <<"dashboard", "odd">>}])})
  BY <1>4, RowIsPlain, StaysPlain DEF AllPlain
<1> QED
  BY <1>1, <1>2, <1>3, <1>5 DEF AnalyticsRows, AllPlain

LEMMA TargetServerSane == AllSane(TargetServerRows)
<1> DEFINE plain == Row("targetServer", "targetServer")
           under == Under([endpoint |-> "unknown"], plain)
           row == Unread([endpointHost |-> "unknown"], Awaiting([endpoint |-> "unknown"], under))
<1>1. /\ row.gone = "missing"
      /\ row.unread = [endpointHost |-> "unknown"]
      /\ row.under = [endpoint |-> "unknown"]
      /\ row.awaiting = [endpoint |-> "unknown"]
  BY DEF Row, Unread, Under, Awaiting
<1>2. TargetServerRows = {row}
  BY DEF TargetServerRows
<1> HIDE DEF row
<1> QED
  BY <1>1, <1>2 DEF AllSane, Sane, RowStatuses

-----------------------------------------------------------------------------
(* The tools.                                                              *)

\* All tools are of one kind.
LEMMA ToolsAreGentle ==
  ASSUME NEW t \in DOMAIN Tool
  PROVE  /\ AllGentle(Own[t], Tool[t].calls) /\ AllSane(Tool[t].rows)
         /\ Tool[t].passes \in {1, 3}
<1>1. \A rows : AllPlain(rows) => AllSane(rows)
  BY DEF AllPlain, AllSane, Plain
<1>2. AllSane(GatewayRows)
  BY <1>1, GatewayPlain, TargetServerSane DEF AllSane
<1>3. AllSane({})
  BY DEF AllSane
<1>4. t \in {"services", "seed", "run", "apigee", "agents", "secrets", "engines",
            "users", "frontend", "analytics"}
  BY DEF Tool
<1>10. /\ Tool["services"].passes = 3 /\ Tool["seed"].passes = 1 /\ Tool["run"].passes = 1
       /\ Tool["apigee"].passes = 1 /\ Tool["agents"].passes = 1
       /\ Tool["secrets"].passes = 1 /\ Tool["engines"].passes = 1
       /\ Tool["users"].passes = 1 /\ Tool["frontend"].passes = 1
       /\ Tool["analytics"].passes = 1
  BY DEF Tool
<1>5. /\ AllGentle(Own["services"], Tool["services"].calls) /\ AllSane(Tool["services"].rows)
      /\ AllGentle(Own["seed"], Tool["seed"].calls) /\ AllSane(Tool["seed"].rows)
  BY <1>1, <1>3, ServicesGentle, ServicesPlain, SeedGentle DEF Tool, Own
<1>6. /\ AllGentle(Own["run"], Tool["run"].calls) /\ AllSane(Tool["run"].rows)
      /\ AllGentle(Own["apigee"], Tool["apigee"].calls) /\ AllSane(Tool["apigee"].rows)
  BY <1>1, <1>2, RunGentle, RunPlain, GatewayGentle DEF Tool, Own
<1>7. /\ AllGentle(Own["agents"], Tool["agents"].calls) /\ AllSane(Tool["agents"].rows)
      /\ AllGentle(Own["secrets"], Tool["secrets"].calls) /\ AllSane(Tool["secrets"].rows)
  BY <1>1, AgentsGentle, AgentsPlain, SecretGentle, SecretPlain DEF Tool, Own
<1>8. /\ AllGentle(Own["engines"], Tool["engines"].calls) /\ AllSane(Tool["engines"].rows)
      /\ AllGentle(Own["users"], Tool["users"].calls) /\ AllSane(Tool["users"].rows)
  BY <1>1, <1>3, EngineGentle, UserGentle, UserPlain DEF Tool, Own
<1>9. /\ AllGentle(Own["frontend"], Tool["frontend"].calls) /\ AllSane(Tool["frontend"].rows)
      /\ AllGentle(Own["analytics"], Tool["analytics"].calls) /\ AllSane(Tool["analytics"].rows)
  BY <1>1, BffGentle, BffPlain, AnalyticsGentle, AnalyticsPlain DEF Tool, Own
<1> QED
  BY <1>4, <1>5, <1>6, <1>7, <1>8, <1>9, <1>10

LEMMA CallsAreGentle ==
  ASSUME NEW t \in DOMAIN Tool, NEW i \in DOMAIN Tool[t].calls
  PROVE  /\ Gentle(Own[t], Tool[t].calls[i]) /\ Tool[t].calls[i] \in CallsOf[t]
         /\ Tool[t].calls[i].makes \subseteq Resource
  BY ToolsAreGentle DEF AllGentle, CallsOf, Owned, Resource

\* What the tools own, and what refers to what.
LEMMA Landmarks ==
  /\ {"dbRule", "targetServer", "secretValue", "sql", "endpoint", "app",
      "fwd", "dnsRecord", "httpProxy", "developer", "dnsZone"} \subseteq Resource
  /\ \A r \in DOMAIN Refers : \E call \in MakersOf[Refers[r]] : r \in call.spoils
  /\ \A r \in {"sql", "endpoint", "app", "httpProxy", "developer", "dnsZone"} :
       \A call \in MakersOf[r] : call.within = {}
  /\ \A r \in DOMAIN Rests : \E call \in MakersOf[r] : Rests[r] \in call.needs
  /\ \A r \in Resource : \A call \in MakersOf[r] :
       call.spoils \subseteq Replaced \cup DOMAIN Refers
<1>1. /\ {"services", "apigee", "agents", "secrets"} \subseteq DOMAIN Tool
      /\ Tool["services"].calls = ServicesCalls /\ Tool["apigee"].calls = GatewayCalls
      /\ Tool["agents"].calls = AgentsCalls /\ Tool["secrets"].calls = SecretCalls
  BY DEF Tool
<1>2. /\ CallsOf["services"] = Members(ServicesCalls)
      /\ CallsOf["agents"] = Members(AgentsCalls)
      /\ CallsOf["apigee"] = Members(GatewayCalls)
      /\ CallsOf["secrets"] = Members(SecretCalls)
  BY <1>1 DEF CallsOf, Members
<1> DEFINE all == UNION {CallsOf[t] : t \in DOMAIN Tool}
<1>3. \A call \in all : (\E own : Gentle(own, call)) /\ call.makes \subseteq Resource
  BY CallsAreGentle DEF CallsOf
<1>4. /\ Members(ServicesCalls) \cup Members(GatewayCalls) \subseteq all
      /\ Members(AgentsCalls) \cup Members(SecretCalls) \subseteq all
  BY <1>1, <1>2
<1>5. MakersOf = [r \in Resource |-> {call \in all : r \in call.makes}]
  BY DEF MakersOf
<1> HIDE DEF all
<1>6. \E call \in all : call.makes = {"sql"} /\ call.spoils = {"dbRule"}
  <2>1. DatabaseCalls[1] \in Members(DatabaseCalls)
    BY DEF DatabaseCalls, Members
  <2>2. DatabaseCalls[1].makes = {"sql"} /\ DatabaseCalls[1].spoils = {"dbRule"}
    BY DEF DatabaseCalls, Call, Late, Spoils
  <2> QED
    BY <2>1, <2>2, <1>4, ServicesGentle
<1>7. \E call \in all : call.makes = {"dbRule"}
  <2>1. DatabaseCalls[3] \in Members(DatabaseCalls)
    BY DEF DatabaseCalls, Members
  <2>2. DatabaseCalls[3].makes = {"dbRule"}
    BY DEF DatabaseCalls, Call
  <2> QED
    BY <2>1, <2>2, <1>4, ServicesGentle
<1>8. \E call \in all : call.makes = {"endpoint"} /\ call.spoils = {"targetServer"}
  <2>1. PscCalls[2] \in Members(PscCalls)
    BY DEF PscCalls, Members
  <2>2. PscCalls[2].makes = {"endpoint"} /\ PscCalls[2].spoils = {"targetServer"}
    BY DEF PscCalls, Call, Late, Spoils
  <2> QED
    BY <2>1, <2>2, <1>4, ServicesGentle
<1>9. \E call \in all : call.makes = {"targetServer"}
  <2>1. ResourceCalls[2] \in Members(ResourceCalls)
    BY DEF ResourceCalls, Members
  <2>2. ResourceCalls[2].makes = {"targetServer"}
    BY DEF ResourceCalls, Call, For, Hard
  <2> QED
    BY <2>1, <2>2, <1>4, GatewayGentle
<1>10. \E call \in all : call.makes = {"app"} /\ call.spoils = {"secretValue"}
  <2>1. AppCalls[2] \in Members(AppCalls)
    BY DEF AppCalls, Members
  <2>2. AppCalls[2].makes = {"app"} /\ AppCalls[2].spoils = {"secretValue"}
    BY DEF AppCalls, Call, For, Hard, Spoils
  <2> QED
    BY <2>1, <2>2, <1>4, GatewayGentle
<1>11. \E call \in all : call.makes = {"secretValue"}
  <2>1. SecretCalls[2] \in Members(SecretCalls)
    BY DEF SecretCalls, Members
  <2>2. SecretCalls[2].makes = {"secretValue"}
    BY DEF SecretCalls, Call, How, Set, Within
  <2> QED
    BY <2>1, <2>2, <1>4
<1>15. \E call \in all : call.makes = {"fwd"} /\ "httpProxy" \in call.needs
  <2>1. LbCalls[8] \in Members(LbCalls)
    BY DEF LbCalls, Members
  <2>2. LbCalls[8].makes = {"fwd"} /\ "httpProxy" \in LbCalls[8].needs
    BY DEF LbCalls, Call
  <2> QED
    BY <2>1, <2>2, <1>4, ServicesGentle
<1>16. \E call \in all : call.makes = {"httpProxy"}
  <2>1. LbCalls[6] \in Members(LbCalls)
    BY DEF LbCalls, Members
  <2>2. LbCalls[6].makes = {"httpProxy"}
    BY DEF LbCalls, Call
  <2> QED
    BY <2>1, <2>2, <1>4, ServicesGentle
<1>17. \E call \in all : call.makes = {"app"} /\ "developer" \in call.needs
  <2>1. AppCalls[2] \in Members(AppCalls)
    BY DEF AppCalls, Members
  <2>2. AppCalls[2].makes = {"app"} /\ "developer" \in AppCalls[2].needs
    BY DEF AppCalls, Call, For, Hard, Spoils
  <2> QED
    BY <2>1, <2>2, <1>4, GatewayGentle
<1>18. \E call \in all : call.makes = {"developer"}
  <2>1. AppCalls[1] \in Members(AppCalls)
    BY DEF AppCalls, Members
  <2>2. AppCalls[1].makes = {"developer"}
    BY DEF AppCalls, Call, For, Hard
  <2> QED
    BY <2>1, <2>2, <1>4, GatewayGentle
<1>19. \E call \in all : call.makes = {"dnsRecord"} /\ "dnsZone" \in call.needs
  <2>1. DnsCalls[2] \in Members(DnsCalls)
    BY DEF DnsCalls, Members
  <2>2. DnsCalls[2].makes = {"dnsRecord"} /\ "dnsZone" \in DnsCalls[2].needs
    BY DEF DnsCalls, Call
  <2> QED
    BY <2>1, <2>2, <1>4, AgentsGentle
<1>20. \E call \in all : call.makes = {"dnsZone"}
  <2>1. DnsCalls[1] \in Members(DnsCalls)
    BY DEF DnsCalls, Members
  <2>2. DnsCalls[1].makes = {"dnsZone"}
    BY DEF DnsCalls, Call
  <2> QED
    BY <2>1, <2>2, <1>4, AgentsGentle
<1>12. {"dbRule", "targetServer", "secretValue", "sql", "endpoint", "app",
        "fwd", "dnsRecord", "httpProxy", "developer", "dnsZone"} \subseteq Resource
  BY <1>3, <1>6, <1>7, <1>8, <1>9, <1>10, <1>11, <1>15, <1>16, <1>18, <1>19, <1>20
<1>13. ASSUME NEW r \in {"sql", "endpoint", "app", "httpProxy", "developer", "dnsZone"},
              NEW call \in MakersOf[r]
       PROVE  call.within = {}
  BY <1>3, <1>5, <1>12, <1>13 DEF Gentle
<1>21. ASSUME NEW r \in DOMAIN Rests PROVE \E call \in MakersOf[r] : Rests[r] \in call.needs
  <2>1. /\ r \in {"fwd", "app", "dnsRecord"}
        /\ Rests["fwd"] = "httpProxy" /\ Rests["app"] = "developer"
        /\ Rests["dnsRecord"] = "dnsZone"
    BY DEF Rests
  <2>2. \A s \in {"fwd", "app", "dnsRecord"} : MakersOf[s] = {call \in all : s \in call.makes}
    BY <1>5, <1>12
  <2>3. CASE r = "fwd"
    BY <1>15, <2>1, <2>2, <2>3
  <2>4. CASE r = "app"
    BY <1>17, <2>1, <2>2, <2>4
  <2>5. CASE r = "dnsRecord"
    BY <1>19, <2>1, <2>2, <2>5
  <2> QED
    BY <2>1, <2>3, <2>4, <2>5
<1>14. ASSUME NEW r \in DOMAIN Refers
       PROVE  \E call \in MakersOf[Refers[r]] : r \in call.spoils
  <2>1. /\ r \in {"dbRule", "targetServer", "secretValue"}
        /\ Refers["dbRule"] = "sql" /\ Refers["targetServer"] = "endpoint"
        /\ Refers["secretValue"] = "app"
    BY DEF Refers
  <2>2. \A s \in {"sql", "endpoint", "app"} : MakersOf[s] = {call \in all : s \in call.makes}
    BY <1>5, <1>12
  <2>3. CASE r = "dbRule"
    BY <1>6, <2>1, <2>2, <2>3
  <2>4. CASE r = "targetServer"
    BY <1>8, <2>1, <2>2, <2>4
  <2>5. CASE r = "secretValue"
    BY <1>10, <2>1, <2>2, <2>5
  <2> QED
    BY <2>1, <2>3, <2>4, <2>5
<1>22. ASSUME NEW r \in Resource, NEW call \in MakersOf[r]
       PROVE  call.spoils \subseteq Replaced \cup DOMAIN Refers
  BY <1>3, <1>5, <1>22 DEF Gentle
<1> QED
  BY <1>12, <1>13, <1>14, <1>21, <1>22

-----------------------------------------------------------------------------
(* One call.                                                               *)

\* What a call makes of a resource.
LEMMA BecomesWhat ==
  ASSUME NEW s \in Status, NEW how \in {"create", "update", "set", "add", "drop"}
  PROVE  /\ Becomes(how, s) \in Status
         /\ how # "drop" /\ s # "absent" => Becomes(how, s) # "absent"
         /\ s # "pending" => Becomes(how, s) # "pending"
         /\ how \in {"create", "update", "set"} /\ s = "ok" => Becomes(how, s) = "ok"
  BY DEF Becomes, Status

\* A gentle call on a consistent cloud: nothing disappears but the dashboard, nothing
\* goes out of order that is not replaced by design, and the cloud stays consistent.
LEMMA CallStep ==
  ASSUME NEW cloud \in [Resource -> Status], Consistent(cloud),
         NEW own, NEW call, Gentle(own, call), call.makes \subseteq Resource, Possible(call, cloud),
         "targetServer" \in call.makes => cloud["endpoint"] # "absent",
         NEW next,
         \/ next = After(call, cloud)
         \/ call.late /\ next = AfterLate(call, cloud)
  PROVE  /\ next \in [Resource -> Status] /\ Consistent(next)
         /\ \A r \in Resource : cloud[r] # "absent" /\ r # "dashboard" => next[r] # "absent"
         /\ \A r \in Resource : cloud[r] = "ok" /\ next[r] # "ok" => r \in Replaced
<1>1. call.how \in {"create", "update", "set", "add", "drop"}
  BY DEF Gentle
<1> DEFINE after == After(call, cloud)
<1>2. \A r \in Resource :
        after[r] = IF r \in call.makes THEN Becomes(call.how, cloud[r])
                   ELSE IF r \in call.spoils /\ cloud[r] # "absent" /\ Replaces(call, cloud)
                     THEN "wrong"
                   ELSE cloud[r]
  BY DEF After
<1>3. after \in [Resource -> Status]
  BY <1>1, BecomesWhat DEF After, Status
<1> HIDE DEF after
<1>4. \A r \in Resource : cloud[r] # "absent" /\ r # "dashboard" => after[r] # "absent"
  BY <1>1, <1>2, BecomesWhat DEF Gentle
<1>5. \A r \in Resource : cloud[r] # "pending" => after[r] # "pending"
  BY <1>1, <1>2, BecomesWhat
<1>6. ASSUME NEW r \in Resource, cloud[r] = "ok", after[r] # "ok"
      PROVE  r \in Replaced
  <2>1. CASE r \in call.makes
    BY <1>1, <1>2, <1>6, <2>1, BecomesWhat DEF Gentle, Replaced, Status
  <2>2. CASE r \notin call.makes
    <3>1. r \in call.spoils /\ Replaces(call, cloud)
      BY <1>2, <1>6, <2>2
    <3>2. ASSUME NEW s \in DOMAIN Refers, call.how = "create", call.spoils = {s},
                 call.makes = {Refers[s]}
          PROVE  FALSE
      BY <1>6, <3>1, <3>2 DEF Replaces, Consistent
    <3> QED
      BY <3>1, <3>2 DEF Gentle
  <2> QED
    BY <2>1, <2>2
<1>7. ASSUME NEW s \in DOMAIN Rests
      PROVE  /\ s \in Resource /\ Rests[s] \in Resource /\ Rests[s] \notin call.spoils
             /\ after[Rests[s]] \in {"absent", "ok"}
             /\ after[s] # "absent" => after[Rests[s]] = "ok"
  <2>1. /\ s \in Resource /\ Rests[s] \in Resource /\ Rests[s] # "dashboard"
        /\ Rests[s] \notin Replaced
    BY Landmarks DEF Rests, Replaced
  <2>2. Rests[s] \notin call.spoils
    <3>1. call.spoils \subseteq Replaced \/ call.spoils \subseteq DOMAIN Refers
      BY DEF Gentle
    <3>2. Rests[s] \notin DOMAIN Refers
      BY DEF Rests, Refers
    <3> QED
      BY <2>1, <3>1, <3>2
  <2>3. cloud[Rests[s]] \in {"absent", "ok"} /\ (cloud[s] # "absent" => cloud[Rests[s]] = "ok")
    BY DEF Consistent
  <2>4. Rests[s] \in call.makes => call.how = "create"
    BY DEF Gentle, Rests
  <2>5. after[Rests[s]] \in {"absent", "ok"}
    BY <1>2, <2>1, <2>2, <2>3, <2>4 DEF Becomes
  <2>6. ASSUME cloud[s] = "absent", after[s] # "absent" PROVE cloud[Rests[s]] = "ok"
    <3>1. s \in call.makes /\ Becomes(call.how, "absent") # "absent"
      BY <1>2, <2>1, <2>6
    <3>2. call.how # "update"
      BY <3>1 DEF Becomes
    <3>3. Rests[s] \in call.needs
      BY <3>1, <3>2 DEF Gentle, Rests
    <3> QED
      BY <2>3, <3>3 DEF Possible
  <2>7. cloud[Rests[s]] = "ok" => after[Rests[s]] = "ok"
    BY <1>4, <2>1, <2>5
  <2> QED
    BY <2>1, <2>2, <2>3, <2>5, <2>6, <2>7
<1>8. Consistent(after)
  <2> SUFFICES ASSUME NEW s \in DOMAIN Refers, after[Refers[s]] = "absent", after[s] = "ok"
               PROVE  FALSE
    <3>1. \A s \in DOMAIN Refers : after[s] # "pending"
      BY <1>5, Landmarks DEF Consistent, Refers
    <3> QED
      BY <1>7, <3>1 DEF Consistent
  <2>1. s \in Resource /\ Refers[s] \in Resource /\ Refers[s] # "dashboard"
    BY Landmarks DEF Refers
  <2>2. cloud[Refers[s]] = "absent"
    BY <1>4, <2>1
  <2>3. cloud[s] # "ok"
    BY <2>2 DEF Consistent
  <2>4. s \in call.makes
    BY <1>2, <2>1, <2>3
  <2> QED
    BY <2>2, <2>4 DEF Gentle, Possible, Refers
<1>9. CASE call.late /\ next = AfterLate(call, cloud)
  <2>1. \A r \in Resource :
          next[r] = IF r \in call.makes /\ after[r] # cloud[r] THEN "pending" ELSE after[r]
    BY <1>9 DEF AfterLate, after
  <2>2. next \in [Resource -> Status]
    BY <1>3, <1>9 DEF AfterLate, after, Status
  <2>3. \A r \in Resource : cloud[r] # "absent" /\ r # "dashboard" => next[r] # "absent"
    BY <1>4, <2>1
  <2>4. ASSUME NEW r \in Resource, cloud[r] = "ok", next[r] # "ok" PROVE r \in Replaced
    BY <1>6, <2>1, <2>4
  <2>5. \A s \in DOMAIN Refers : next[s] = after[s]
    BY <1>9, <2>1, Landmarks DEF Gentle, Refers
  <2>6. \A s \in DOMAIN Refers : next[Refers[s]] = "absent" => after[Refers[s]] = "absent"
    BY <2>1, Landmarks DEF Refers
  <2>7. ASSUME NEW s \in DOMAIN Rests
        PROVE  /\ next[Rests[s]] \in {"absent", "ok"}
               /\ next[s] # "absent" => next[Rests[s]] = "ok"
    <3>1. Rests[s] \notin call.makes
      BY <1>9 DEF Gentle, Rests
    <3>2. next[Rests[s]] = after[Rests[s]] /\ after[Rests[s]] = cloud[Rests[s]]
      BY <1>2, <1>7, <2>1, <3>1
    <3>3. next[s] # "absent" => after[s] # "absent" \/ cloud[s] # "absent"
      BY <1>7, <2>1, <3>1
    <3> QED
      BY <1>7, <3>2, <3>3 DEF Consistent
  <2>8. Consistent(next)
    BY <1>8, <2>5, <2>6, <2>7 DEF Consistent
  <2> QED
    BY <2>2, <2>3, <2>4, <2>8
<1>10. CASE next = After(call, cloud)
  BY <1>3, <1>4, <1>6, <1>8, <1>10 DEF after
<1> QED
  BY <1>9, <1>10

\* What someone deletes takes its parts along and leaves what refers to it out of order.
LEMMA DeletedStep ==
  ASSUME NEW cloud \in [Resource -> Status], Consistent(cloud), NEW r \in Resource,
         \/ r \in {"sql", "endpoint"}
         \/ \A s \in Resource : cloud[s] # "absent" => \A call \in MakersOf[s] : r \notin call.needs,
         NEW next,
         next = [s \in Resource |->
           IF s = r \/ \E call \in MakersOf[s] : r \in call.within THEN "absent"
           ELSE IF cloud[s] = "ok" /\ \E call \in MakersOf[r] : s \in call.spoils THEN "wrong"
           ELSE cloud[s]]
  PROVE  /\ next \in [Resource -> Status] /\ Consistent(next)
         /\ \A s \in Resource : next[s] = "ok" => cloud[s] = "ok"
<1>1. next \in [Resource -> Status]
  BY DEF Status
<1>2. \A s \in Resource : next[s] = "ok" => cloud[s] = "ok"
  OBVIOUS
<1>3. \A s \in Resource : cloud[s] # "pending" => next[s] # "pending"
  OBVIOUS
<1>4. ASSUME NEW s \in DOMAIN Refers, next[Refers[s]] = "absent" PROVE next[s] # "ok"
  <2>1. s \in Resource /\ Refers[s] \in {"sql", "endpoint", "app"} /\ Refers[s] \in Resource
    BY Landmarks DEF Refers
  <2>2. cloud[Refers[s]] = "absent" \/ Refers[s] = r
    BY <1>4, <2>1, Landmarks
  <2>3. CASE cloud[Refers[s]] = "absent"
    BY <1>2, <2>1, <2>3 DEF Consistent
  <2>4. CASE Refers[s] = r
    BY <2>1, <2>4, Landmarks
  <2> QED
    BY <2>2, <2>3, <2>4
<1>5. \A s \in DOMAIN Refers : s \in Resource
  BY Landmarks DEF Refers
<1>6. ASSUME NEW s \in DOMAIN Rests
      PROVE  /\ next[Rests[s]] \in {"absent", "ok"}
             /\ next[s] # "absent" => next[Rests[s]] = "ok"
  <2>1. /\ s \in Resource /\ Rests[s] \in Resource
        /\ Rests[s] \notin Replaced \cup DOMAIN Refers \cup {"sql", "endpoint"}
        /\ Rests[s] \in {"httpProxy", "developer", "dnsZone"}
    BY Landmarks DEF Rests, Refers, Replaced
  <2>2. next[Rests[s]] = IF Rests[s] = r THEN "absent" ELSE cloud[Rests[s]]
    <3>1. \A call \in MakersOf[Rests[s]] : call.within = {}
      BY <2>1, Landmarks
    <3>2. \A call \in MakersOf[r] : Rests[s] \notin call.spoils
      BY <2>1, Landmarks
    <3> QED
      BY <2>1, <3>1, <3>2
  <2>3. cloud[Rests[s]] \in {"absent", "ok"} /\ (cloud[s] # "absent" => cloud[Rests[s]] = "ok")
    BY DEF Consistent
  <2>4. next[s] # "absent" => cloud[s] # "absent"
    BY <2>1
  <2>5. cloud[s] # "absent" => Rests[s] # r
    BY <2>1, Landmarks
  <2> QED
    BY <2>2, <2>3, <2>4, <2>5
<1> QED
  BY <1>1, <1>2, <1>3, <1>4, <1>5, <1>6 DEF Consistent

-----------------------------------------------------------------------------
(* A run.                                                                  *)

\* A set of positions has a least one.
LEMMA LeastExists ==
  ASSUME NEW n \in Nat, NEW S \in SUBSET (1 .. n), S # {}
  PROVE  \E m \in S : \A h \in S : m <= h
<1> DEFINE UpTo(m) == {h \in S : h <= m}
           family == {UpTo(m) : m \in S}
<1>1. IsWellFoundedOn(StrictSubsetOrdering(S), FiniteSubsetsOf(S))
  BY FS_StrictSubsetOrderingWellFounded
<1>2. family \subseteq FiniteSubsetsOf(S) /\ family # {}
  <2>1. IsFiniteSet(1 .. n)
    BY FS_Interval
  <2>2. \A U \in SUBSET (1 .. n) : IsFiniteSet(U)
    BY <2>1, FS_Subset
  <2> QED
    BY <2>2 DEF FiniteSubsetsOf
<1>3. PICK least \in family : \A U \in family : <<U, least>> \notin StrictSubsetOrdering(S)
  BY <1>1, <1>2, WFMin
<1>4. PICK m \in S : least = UpTo(m)
  BY <1>3
<1>5. ASSUME NEW h \in S, h < m PROVE FALSE
  <2>1. UpTo(h) \subseteq UpTo(m) /\ m \in UpTo(m) /\ m \notin UpTo(h)
    <3>1. h \in Int /\ m \in Int /\ m <= m /\ ~ (m <= h)
      BY <1>5
    <3>2. \A x \in S : x <= h => x <= m
      BY <1>5
    <3> QED
      BY <3>1, <3>2
  <2>2. <<UpTo(h), least>> \in StrictSubsetOrdering(S)
    BY <1>4, <2>1 DEF StrictSubsetOrdering
  <2> QED
    BY <1>3, <2>2
<1>6. \A h \in S : m <= h
  <2>1. \A h \in S : h \in Int /\ m \in Int
    OBVIOUS
  <2> QED
    BY <1>5, <2>1
<1> QED
  BY <1>6

\* The next call is one that the findings call for, unless the run is at its end.
LEMMA NextCallIsCalledFor ==
  ASSUME NEW t \in DOMAIN Tool, NEW f, NEW u, NEW i
  PROVE  LET calls == Tool[t].calls
             n == NextCall(t, f, u, i)
         IN /\ Len(calls) \in Nat /\ DOMAIN calls = 1 .. Len(calls)
            /\ n \in 0 .. Len(calls) + 1
            /\ n <= Len(calls) => n \in DOMAIN calls /\ Triggered(calls[n], f, u)
<1> DEFINE calls == Tool[t].calls
           later == {j \in DOMAIN calls : j > i /\ Triggered(calls[j], f, u)}
<1>1. Len(calls) \in Nat /\ DOMAIN calls = 1 .. Len(calls)
  BY ToolsAreGentle DEF AllGentle
<1>2. NextCall(t, f, u, i) =
        IF later = {} THEN Len(calls) + 1 ELSE CHOOSE j \in later : \A k \in later : j <= k
  BY DEF NextCall
<1>3. later \in SUBSET (1 .. Len(calls))
  BY <1>1
<1>4. later # {} => \E j \in later : \A k \in later : j <= k
  <2> HIDE DEF later, calls
  <2> QED
    BY <1>1, <1>3, LeastExists
<1>5. later # {} => NextCall(t, f, u, i) \in later
  <2> HIDE DEF later, calls
  <2> QED
    BY <1>2, <1>4
<1>6. later = {} => NextCall(t, f, u, i) = Len(calls) + 1
  BY <1>2
<1>7. later # {} => NextCall(t, f, u, i) \in DOMAIN calls
                      /\ Triggered(calls[NextCall(t, f, u, i)], f, u)
  BY <1>5
<1> HIDE DEF later, calls
<1>8. /\ Len(calls) \in Nat /\ DOMAIN calls = 1 .. Len(calls)
      /\ NextCall(t, f, u, i) \in 0 .. Len(calls) + 1
      /\ NextCall(t, f, u, i) <= Len(calls) =>
           /\ NextCall(t, f, u, i) \in DOMAIN calls
           /\ Triggered(calls[NextCall(t, f, u, i)], f, u)
  BY <1>1, <1>6, <1>7
<1> QED
  BY <1>8 DEF calls

\* Nothing is known to be missing or adrift of a target server that has no endpoint.
FoundInv ==
  \A f \in found :
    f[1] = "targetServer" /\ f[2] \in {"missing", "drift"} => live["endpoint"] # "absent"

\* The call that is about to be issued is one that the findings call for.
PcInv ==
  AtCall => pc \in DOMAIN Tool[tool].calls /\ Triggered(ThisCall, found, unread)

ProvInv == TypeOK /\ Consistent(live) /\ FoundInv /\ PcInv

\* A tool of the campaign is one of the tools, and every stage has one.
LEMMA StageHasTool ==
  ASSUME TypeOK
  PROVE  /\ tool \in DOMAIN Tool
         /\ campaign.order \in Seq(DOMAIN Tool) /\ Len(campaign.order) \in Nat \ {0}
         /\ (stage % Len(campaign.order)) + 1 \in DOMAIN campaign.order
<1>1. campaign \in Campaigns /\ stage \in DOMAIN campaign.order
  BY DEF TypeOK
<1>2. campaign.order \in Seq(DOMAIN Tool) /\ campaign.order # <<>>
  BY <1>1, CampaignsAssumption
<1> DEFINE order == campaign.order
           tools == DOMAIN Tool
<1>3. order \in Seq(tools) /\ order # <<>> /\ stage \in DOMAIN order
  BY <1>1, <1>2
<1>4. tool = order[stage]
  BY DEF tool
<1> HIDE DEF order, tools
<1>5. Len(order) \in Nat /\ DOMAIN order = 1 .. Len(order) /\ Len(order) # 0
  BY <1>3
<1>6. order[stage] \in tools
  BY <1>3
<1>7. \A n \in Nat \ {0} : \A s \in Nat : (s % n) + 1 \in 1 .. n
  OBVIOUS
<1> QED
  BY <1>3, <1>4, <1>5, <1>6, <1>7 DEF order, tools

\* What a listing finds.
LEMMA FindingsAre ==
  ASSUME NEW t \in DOMAIN Tool, NEW cloud, NEW u
  PROVE  /\ Findings(Tool[t].rows, cloud, u) \subseteq Findable(t)
         /\ \A f \in Findings(Tool[t].rows, cloud, u) :
              f[1] = "targetServer" /\ f[2] \in {"missing", "drift"} =>
                cloud["endpoint"] # "absent"
<1> DEFINE rows == Tool[t].rows
<1>1. \A row \in rows : Sane(row)
  BY ToolsAreGentle DEF AllSane
<1> HIDE DEF rows
<1>2. SUFFICES ASSUME NEW f \in Findings(rows, cloud, u)
      PROVE  /\ \E row \in rows : \E s \in {"missing", "drift", "unknown"} :
                   f = <<row.kind, s>>
             /\ f[1] = "targetServer" /\ f[2] \in {"missing", "drift"} =>
                  cloud["endpoint"] # "absent"
  BY DEF rows, Findable
<1>3. PICK row \in rows : f = <<row.kind, RowStatus(row, cloud, u)>> /\ f[2] # "OK"
  BY DEF Findings
<1>4. /\ RowStatus(row, cloud, u) \in RowStatuses
      /\ row.kind = "targetServer" /\ RowStatus(row, cloud, u) \in {"missing", "drift"} =>
           cloud["endpoint"] # "absent"
  BY <1>1, StatusOfRow
<1>5. f[1] = row.kind /\ f[2] = RowStatus(row, cloud, u)
  BY <1>3
<1> QED
  BY <1>3, <1>4, <1>5 DEF RowStatuses

\* Looking at the cloud.
LEMMA ReadsStep ==
  ASSUME ProvInv, NEW u \in SUBSET Tool[tool].listings, Reads(u),
         pass < Tool[tool].passes, live' = live, campaign' = campaign, stage' = stage,
         left' \in 0 .. campaign.mishaps, rounds' = rounds, running' = TRUE
  PROVE  ProvInv'
<1>1. tool \in DOMAIN Tool /\ tool' = tool
  BY StageHasTool DEF ProvInv, tool
<1> DEFINE f == Findings(Tool[tool].rows, live, u)
<1>2. found' = f /\ unread' = u /\ pass' = pass + 1
  BY DEF Reads
<1>3. \/ pc' = Len(Tool[tool].calls) + 1
      \/ pc' = NextCall(tool, f, u, 0)
  BY DEF Reads
<1>4. /\ f \subseteq Findable(tool)
      /\ \A g \in f : g[1] = "targetServer" /\ g[2] \in {"missing", "drift"} =>
           live["endpoint"] # "absent"
  BY <1>1, FindingsAre
<1>5. /\ Len(Tool[tool].calls) \in Nat
      /\ DOMAIN Tool[tool].calls = 1 .. Len(Tool[tool].calls)
      /\ NextCall(tool, f, u, 0) \in 0 .. Len(Tool[tool].calls) + 1
      /\ NextCall(tool, f, u, 0) <= Len(Tool[tool].calls) =>
           /\ NextCall(tool, f, u, 0) \in DOMAIN Tool[tool].calls
           /\ Triggered(Tool[tool].calls[NextCall(tool, f, u, 0)], f, u)
  BY <1>1, NextCallIsCalledFor
<1> HIDE DEF f
<1>6. pass' \in 0 .. Tool[tool].passes
  BY <1>1, <1>2, ToolsAreGentle DEF ProvInv, TypeOK
<1>7. TypeOK'
  BY <1>1, <1>2, <1>3, <1>4, <1>5, <1>6 DEF ProvInv, TypeOK, tool
<1>8. FoundInv'
  BY <1>2, <1>4 DEF FoundInv
<1>9. PcInv'
  <2>1. pc' <= Len(Tool[tool].calls) => pc' = NextCall(tool, f, u, 0)
    BY <1>3, <1>5
  <2>2. AtCall' => pc' <= Len(Tool[tool].calls)
    BY <1>1 DEF AtCall
  <2>3. ThisCall' = Tool[tool].calls[pc']
    BY <1>1 DEF ThisCall
  <2> QED
    BY <1>1, <1>2, <1>5, <2>1, <2>2, <2>3 DEF PcInv
<1> QED
  BY <1>7, <1>8, <1>9 DEF ProvInv, Consistent

\* Going on to the next call, on a cloud from which nothing has disappeared.
LEMMA GoesOnStep ==
  ASSUME ProvInv, AtCall, GoesOn, live' \in [Resource -> Status], Consistent(live'),
         live["endpoint"] # "absent" => live'["endpoint"] # "absent",
         left' \in 0 .. campaign.mishaps
  PROVE  ProvInv'
<1>1. tool \in DOMAIN Tool /\ tool' = tool
  BY StageHasTool DEF ProvInv, GoesOn, tool
<1>2. /\ pc' = NextCall(tool, found, unread, pc)
      /\ UNCHANGED <<campaign, stage, rounds, running, unread, found, pass>>
  BY DEF GoesOn
<1>3. /\ Len(Tool[tool].calls) \in Nat
      /\ DOMAIN Tool[tool].calls = 1 .. Len(Tool[tool].calls)
      /\ pc' \in 0 .. Len(Tool[tool].calls) + 1
      /\ pc' <= Len(Tool[tool].calls) =>
           /\ pc' \in DOMAIN Tool[tool].calls
           /\ Triggered(Tool[tool].calls[pc'], found, unread)
  BY <1>1, <1>2, NextCallIsCalledFor
<1>4. running
  BY DEF AtCall
<1>5. TypeOK'
  BY <1>1, <1>2, <1>3, <1>4 DEF ProvInv, TypeOK, tool
<1>6. FoundInv'
  BY <1>2 DEF ProvInv, FoundInv
<1>7. PcInv'
  BY <1>1, <1>2, <1>3 DEF PcInv, AtCall, ThisCall
<1>8. Consistent(live)'
  BY DEF Consistent
<1> QED
  BY <1>5, <1>6, <1>7, <1>8 DEF ProvInv

\* The end of a run.
LEMMA EndsStep ==
  ASSUME ProvInv, Ends, live' = live, left' \in 0 .. campaign.mishaps
  PROVE  ProvInv'
<1>1. /\ running' = FALSE /\ stage' = (stage % Len(campaign.order)) + 1
      /\ rounds' = (rounds \/ stage = Len(campaign.order))
      /\ unread' = {} /\ found' = {} /\ pc' = 0 /\ pass' = 0 /\ campaign' = campaign
  BY DEF Ends
<1>2. /\ stage' \in DOMAIN campaign'.order /\ rounds' \in BOOLEAN
  BY <1>1, StageHasTool DEF ProvInv, TypeOK
<1>3. campaign' \in Campaigns /\ left' \in 0 .. campaign'.mishaps
  BY <1>1 DEF ProvInv, TypeOK
<1>4. tool' \in DOMAIN Tool
  <2> DEFINE order == campaign.order
             tools == DOMAIN Tool
  <2>1. order \in Seq(tools) /\ stage' \in DOMAIN order
    BY <1>1, <1>2, StageHasTool DEF ProvInv
  <2>2. tool' = order[stage']
    BY <1>1 DEF tool
  <2> HIDE DEF order, tools
  <2>3. order[stage'] \in tools
    BY <2>1
  <2> QED
    BY <2>2, <2>3 DEF tools
<1>5. /\ Len(Tool[tool'].calls) \in Nat /\ Tool[tool'].passes \in {1, 3}
  BY <1>4, NextCallIsCalledFor, ToolsAreGentle
<1>6. /\ pc' \in 0 .. Len(Tool[tool'].calls) + 1 /\ pass' \in 0 .. Tool[tool'].passes
  BY <1>1, <1>5
<1>7. TypeOK'
  <2>1. live' \in [Resource -> Status]
    BY DEF ProvInv, TypeOK
  <2>2. running' \in BOOLEAN
    BY <1>1
  <2>3. /\ unread' \subseteq Tool[tool'].listings
        /\ found' \subseteq Findable(tool')
    BY <1>1
  <2>4. ~ running' => unread' = {} /\ found' = {} /\ pc' = 0 /\ pass' = 0
    BY <1>1
  <2> QED
    BY <1>2, <1>3, <1>6, <2>1, <2>2, <2>3, <2>4, Zenon DEF TypeOK
<1>8. FoundInv' /\ PcInv' /\ Consistent(live)'
  BY <1>1 DEF ProvInv, FoundInv, PcInv, AtCall, Consistent
<1> QED
  BY <1>7, <1>8 DEF ProvInv

\* A call of a run: what it does, and what it cannot do.
LEMMA CallKeeps ==
  ASSUME ProvInv, AtCall, Possible(ThisCall, live),
         NEW next,
         \/ next = After(ThisCall, live)
         \/ ThisCall.late /\ next = AfterLate(ThisCall, live)
  PROVE  /\ next \in [Resource -> Status] /\ Consistent(next)
         /\ live["endpoint"] # "absent" => next["endpoint"] # "absent"
         /\ \A r \in Resource : live[r] = "ok" /\ next[r] # "ok" => r \in Replaced
<1>1. tool \in DOMAIN Tool /\ pc \in DOMAIN Tool[tool].calls
  BY StageHasTool DEF ProvInv, PcInv
<1>2. Gentle(Own[tool], ThisCall) /\ ThisCall.makes \subseteq Resource
  BY <1>1, CallsAreGentle DEF ThisCall
<1>3. "targetServer" \in ThisCall.makes => live["endpoint"] # "absent"
  <2> SUFFICES ASSUME "targetServer" \in ThisCall.makes PROVE live["endpoint"] # "absent"
    OBVIOUS
  <2>1. ThisCall.kinds = {"targetServer"} /\ ThisCall.for \subseteq {"missing", "drift"}
    BY <1>2 DEF Gentle
  <2>2. Triggered(ThisCall, found, unread)
    BY DEF ProvInv, PcInv
  <2>3. PICK f \in found : f[1] \in ThisCall.kinds /\ f[2] \in ThisCall.for
    BY <2>1, <2>2 DEF Triggered
  <2> QED
    BY <2>1, <2>3 DEF ProvInv, FoundInv
<1>4. live \in [Resource -> Status] /\ Consistent(live)
  BY DEF ProvInv, TypeOK
<1>5. /\ next \in [Resource -> Status] /\ Consistent(next)
      /\ \A r \in Resource : live[r] # "absent" /\ r # "dashboard" => next[r] # "absent"
      /\ \A r \in Resource : live[r] = "ok" /\ next[r] # "ok" => r \in Replaced
  BY <1>2, <1>3, <1>4, CallStep
<1>6. "endpoint" \in Resource /\ "endpoint" # "dashboard"
  BY Landmarks
<1> QED
  BY <1>5, <1>6

\* A mishap is one fewer.
LEMMA Mishaps ==
  ASSUME TypeOK
  PROVE  /\ left \in 0 .. campaign.mishaps
         /\ Mishap => left' \in 0 .. campaign.mishaps
<1>1. campaign.mishaps \in Nat /\ left \in 0 .. campaign.mishaps
  BY CampaignsAssumption DEF TypeOK
<1> QED
  BY <1>1 DEF Mishap

\* Someone else changes the cloud.
LEMMA OutsideStep ==
  ASSUME ProvInv, NEW changed \in [Resource -> Status], Consistent(changed), Outside(changed)
  PROVE  ProvInv'
<1>1. /\ live' = changed /\ ~ running /\ left' \in 0 .. campaign.mishaps
      /\ UNCHANGED <<campaign, stage, rounds, running, unread, found, pc, pass>>
  BY Mishaps DEF Outside, ProvInv
<1>2. TypeOK'
  BY <1>1 DEF ProvInv, TypeOK, tool
<1>3. FoundInv' /\ PcInv'
  BY <1>1 DEF ProvInv, TypeOK, FoundInv, PcInv, AtCall
<1>4. Consistent(live)'
  BY <1>1 DEF Consistent
<1> QED
  BY <1>2, <1>3, <1>4 DEF ProvInv

\* The steps of others: what becomes of the cloud.
LEMMA OthersKeep ==
  ASSUME ProvInv, NEW r \in Resource, Reconfigured(r) \/ Skewed(r) \/ KeyLost(r) \/ Deleted(r)
  PROVE  \E changed \in [Resource -> Status] :
           /\ Outside(changed) /\ Consistent(changed)
           /\ \A s \in Resource : changed[s] = "ok" => live[s] = "ok"
<1>1. live \in [Resource -> Status] /\ Consistent(live)
  BY DEF ProvInv, TypeOK
<1>2. ASSUME NEW s \in {"wrong", "odd", "keyless"}, live[r] = "ok",
             r \in Configured \cup Skewable \cup Keyed
      PROVE  LET changed == [live EXCEPT ![r] = s]
             IN /\ changed \in [Resource -> Status] /\ Consistent(changed)
                /\ \A q \in Resource : changed[q] = "ok" => live[q] = "ok"
  <2> DEFINE changed == [live EXCEPT ![r] = s]
  <2>1. /\ changed \in [Resource -> Status]
        /\ \A q \in Resource : changed[q] = IF q = r THEN s ELSE live[q]
    BY <1>1, <1>2 DEF Status
  <2>2. \A q \in DOMAIN Refers : q \in Resource /\ Refers[q] \in Resource
    BY Landmarks DEF Refers
  <2>3. \A q \in DOMAIN Rests : q \in Resource /\ Rests[q] \in Resource /\ Rests[q] # r
    BY <1>2, Landmarks DEF Rests, Configured, Skewable, Keyed
  <2> HIDE DEF changed
  <2>4. Consistent(changed)
    BY <1>1, <1>2, <2>1, <2>2, <2>3 DEF Consistent
  <2>5. \A q \in Resource : changed[q] = "ok" => live[q] = "ok"
    BY <1>2, <2>1
  <2> QED
    BY <2>1, <2>4, <2>5 DEF changed
<1>3. CASE Reconfigured(r)
  BY <1>2, <1>3 DEF Reconfigured
<1>4. CASE Skewed(r)
  BY <1>2, <1>4 DEF Skewed
<1>6. CASE KeyLost(r)
  BY <1>2, <1>6 DEF KeyLost
<1>5. CASE Deleted(r)
  <2> DEFINE changed == [s \in Resource |->
               IF s = r \/ \E call \in MakersOf[s] : r \in call.within THEN "absent"
               ELSE IF live[s] = "ok" /\ \E call \in MakersOf[r] : s \in call.spoils
                 THEN "wrong"
               ELSE live[s]]
  <2>1. Outside(changed)
    BY <1>5 DEF Deleted
  <2>2. /\ changed \in [Resource -> Status] /\ Consistent(changed)
        /\ \A s \in Resource : changed[s] = "ok" => live[s] = "ok"
    BY <1>1, <1>5, DeletedStep DEF Deleted, Deletable
  <2> HIDE DEF changed
  <2> QED
    BY <2>1, <2>2
<1> QED
  BY <1>3, <1>4, <1>5, <1>6

LEMMA ProvInit == Init => ProvInv
<1> SUFFICES ASSUME Init PROVE ProvInv
  OBVIOUS
<1>1. /\ campaign \in Campaigns /\ live = campaign.cloud /\ left = campaign.mishaps
      /\ stage = 1 /\ rounds = FALSE /\ running = FALSE
      /\ unread = {} /\ found = {} /\ pc = 0 /\ pass = 0
  BY DEF Init
<1>2. /\ campaign.order \in Seq(DOMAIN Tool) /\ campaign.order # <<>>
      /\ campaign.mishaps \in Nat /\ live \in [Resource -> Status] /\ Consistent(live)
  BY <1>1, CampaignsAssumption
<1>3. stage \in DOMAIN campaign.order /\ tool \in DOMAIN Tool
  <2> DEFINE order == campaign.order
             tools == DOMAIN Tool
  <2>1. order \in Seq(tools) /\ order # <<>>
    BY <1>2
  <2> HIDE DEF order, tools
  <2>2. 1 \in DOMAIN order /\ order[1] \in tools
    BY <2>1
  <2> QED
    BY <1>1, <2>2 DEF order, tools, tool
<1>4. Len(Tool[tool].calls) \in Nat /\ Tool[tool].passes \in {1, 3}
  BY <1>3, NextCallIsCalledFor, ToolsAreGentle
<1>5. pc \in 0 .. Len(Tool[tool].calls) + 1 /\ pass \in 0 .. Tool[tool].passes
  BY <1>1, <1>4
<1>6. left \in 0 .. campaign.mishaps
  BY <1>1, <1>2
<1>7. /\ unread \subseteq Tool[tool].listings
      /\ found \subseteq Findable(tool)
  BY <1>1
<1>8. TypeOK
  <2>1. running \in BOOLEAN /\ rounds \in BOOLEAN
    BY <1>1
  <2>2. ~ running => unread = {} /\ found = {} /\ pc = 0 /\ pass = 0
    BY <1>1
  <2> QED
    BY <1>1, <1>2, <1>3, <1>5, <1>6, <1>7, <2>1, <2>2, Zenon DEF TypeOK
<1> QED
  BY <1>1, <1>2, <1>8 DEF ProvInv, FoundInv, PcInv, AtCall

LEMMA ProvStep == ProvInv /\ [Next]_vars => ProvInv'
<1> SUFFICES ASSUME ProvInv, [Next]_vars PROVE ProvInv'
  OBVIOUS
<1>0. /\ tool \in DOMAIN Tool /\ Tool[tool].passes \in {1, 3}
      /\ left \in 0 .. campaign.mishaps /\ (Mishap => left' \in 0 .. campaign.mishaps)
      /\ live \in [Resource -> Status] /\ Consistent(live)
  BY StageHasTool, ToolsAreGentle, Mishaps DEF ProvInv, TypeOK
<1>1. CASE BeginSeeing
  <2>1. ~ running /\ Begin({}) /\ left' = left
    BY <1>1 DEF BeginSeeing, Begin
  <2>2. pass = 0
    BY <2>1 DEF ProvInv, TypeOK
  <2>3. Reads({}) /\ running' = TRUE /\ UNCHANGED <<live, campaign, stage, rounds>>
    BY <2>1 DEF Begin
  <2> QED
    BY <1>0, <2>1, <2>2, <2>3, ReadsStep
<1>2. CASE BeginBlind
  <2>1. PICK l \in Tool[tool].listings : Begin({l})
    BY <1>2 DEF BeginBlind
  <2>2. Mishap /\ ~ running /\ pass = 0
    BY <1>2, <2>1 DEF BeginBlind, Begin, ProvInv, TypeOK
  <2>3. Reads({l}) /\ running' = TRUE /\ UNCHANGED <<live, campaign, stage, rounds>>
    BY <2>1 DEF Begin
  <2> QED
    BY <1>0, <2>1, <2>2, <2>3, ReadsStep
<1>3. CASE CallDone
  <2>1. /\ AtCall /\ Possible(ThisCall, live) /\ live' = After(ThisCall, live)
        /\ GoesOn /\ left' \in 0 .. campaign.mishaps
    BY <1>0, <1>3 DEF CallDone
  <2>2. /\ live' \in [Resource -> Status] /\ Consistent(live')
        /\ live["endpoint"] # "absent" => live'["endpoint"] # "absent"
    BY <2>1, CallKeeps
  <2> QED
    BY <2>1, <2>2, GoesOnStep
<1>4. CASE CallLate
  <2>1. /\ AtCall /\ Possible(ThisCall, live) /\ ThisCall.late /\ Mishap
        /\ live' = AfterLate(ThisCall, live) /\ GoesOn
    BY <1>4 DEF CallLate
  <2> QED
    BY <1>0, <2>1, CallKeeps, GoesOnStep
<1>5. CASE CallImpossible \/ CallRefused
  <2>1. AtCall /\ Fails /\ live' = live /\ left' \in 0 .. campaign.mishaps
    BY <1>0, <1>5 DEF CallImpossible, CallRefused
  <2> QED
    BY <1>0, <2>1, GoesOnStep, EndsStep DEF Fails
<1>6. CASE Dies \/ End
  <2>1. Ends /\ live' = live /\ left' \in 0 .. campaign.mishaps
    BY <1>0, <1>6 DEF Dies, End
  <2> QED
    BY <2>1, EndsStep
<1>7. CASE LookAgain
  <2>1. /\ Reads({}) /\ pass < Tool[tool].passes /\ running
        /\ UNCHANGED <<live, campaign, left, stage, rounds, running>>
    BY <1>7 DEF LookAgain, AtEnd, Progress
  <2>2. running' = TRUE
    BY <2>1 DEF ProvInv, TypeOK
  <2> QED
    BY <1>0, <2>1, <2>2, ReadsStep
<1>8. ASSUME NEW r \in Resource, Settle(r) PROVE ProvInv'
  <2>1. /\ live[r] = "pending" /\ live' = [live EXCEPT ![r] = "ok"]
        /\ UNCHANGED <<campaign, left, stage, rounds, running, unread, found, pc, pass>>
    BY <1>8 DEF Settle
  <2>2. /\ live' \in [Resource -> Status] /\ live'[r] = "ok"
        /\ \A s \in Resource : live'[s] = "absent" => live[s] = "absent"
        /\ \A s \in Resource : s # r => live'[s] = live[s]
    BY <1>0, <2>1 DEF Status
  <2>3. Consistent(live')
    <3>1. r \notin DOMAIN Refers
      BY <1>0, <2>1 DEF Consistent
    <3>2. \A s \in DOMAIN Refers : s \in Resource /\ Refers[s] \in Resource
      BY Landmarks DEF Refers
    <3>3. \A s \in DOMAIN Refers : live'[s] = live[s]
      BY <2>2, <3>1, <3>2
    <3>4. \A s \in DOMAIN Rests : s \in Resource /\ Rests[s] \in Resource /\ Rests[s] # r
      <4>1. \A s \in DOMAIN Rests : s \in Resource /\ Rests[s] \in Resource
        BY Landmarks DEF Rests
      <4> QED
        BY <1>0, <2>1, <4>1 DEF Consistent
    <3>5. \A s \in DOMAIN Rests : /\ live'[Rests[s]] = live[Rests[s]]
                                  /\ live'[s] # "absent" => live[s] # "absent"
      BY <2>1, <2>2, <3>4
    <3> QED
      BY <1>0, <2>2, <3>2, <3>3, <3>5 DEF Consistent
  <2>4. TypeOK'
    BY <2>1, <2>2 DEF ProvInv, TypeOK, tool
  <2>5. FoundInv' /\ PcInv'
    BY <2>1, <2>2, Landmarks DEF ProvInv, FoundInv, PcInv, AtCall, ThisCall, tool
  <2> QED
    BY <2>3, <2>4, <2>5 DEF ProvInv, Consistent
<1>9. ASSUME NEW r \in Resource, Reconfigured(r) \/ Skewed(r) \/ KeyLost(r) \/ Deleted(r) PROVE ProvInv'
  BY <1>9, OthersKeep, OutsideStep
<1>10. CASE UNCHANGED vars
  BY <1>10 DEF vars, ProvInv, TypeOK, FoundInv, PcInv, AtCall, ThisCall, tool, Consistent
<1> QED
  BY <1>1, <1>2, <1>3, <1>4, <1>5, <1>6, <1>7, <1>8, <1>9, <1>10 DEF Next, RunStep

\* The variables keep their types for any campaign; no tool remembers anything of a run
\* that is over, whether it ended or died.
THEOREM TypeCorrect == Spec => []TypeOK
BY ProvInit, ProvStep, PTL DEF Spec, ProvInv

-----------------------------------------------------------------------------
(* The promise.                                                            *)

\* Every step of a run that changes the cloud is one the promise allows.
LEMMA RunStepKeepsPromise ==
  ASSUME ProvInv, RunStep
  PROVE  Promise!Next \/ UNCHANGED Promise!vars
<1> DEFINE good == {r \in Resource : live[r] = "ok"}
<1>1. CASE BeginSeeing \/ BeginBlind
  <2>1. ~ running /\ running' = TRUE /\ live' = live
    BY <1>1 DEF BeginSeeing, BeginBlind, Begin
  <2> QED
    BY <2>1 DEF Promise!Next, Promise!Begin
<1>2. CASE CallDone \/ CallLate
  <2>1. /\ AtCall /\ Possible(ThisCall, live) /\ running' = running
        /\ \/ live' = After(ThisCall, live)
           \/ ThisCall.late /\ live' = AfterLate(ThisCall, live)
    BY <1>2 DEF CallDone, CallLate, GoesOn
  <2>2. \A r \in Resource : live[r] = "ok" /\ live'[r] # "ok" => r \in Replaced
    BY <2>1, CallKeeps
  <2>3. good \ good' \subseteq Replaced /\ good' \subseteq Resource
    BY <2>2
  <2>4. running
    BY <2>1 DEF AtCall
  <2> QED
    BY <2>1, <2>3, <2>4 DEF Promise!Next, Promise!Work, Replaced
<1>3. CASE CallImpossible \/ CallRefused
  <2>1. AtCall /\ live' = live /\ (running' = running \/ running' = FALSE)
    BY <1>3 DEF CallImpossible, CallRefused, Fails, Ends, GoesOn
  <2>2. running
    BY <2>1 DEF AtCall
  <2> QED
    BY <2>1, <2>2 DEF Promise!Next, Promise!End, Promise!vars
<1>4. CASE Dies \/ End
  <2>1. running /\ running' = FALSE /\ live' = live
    BY <1>4 DEF Dies, End, Ends, AtCall, AtEnd
  <2> QED
    BY <2>1 DEF Promise!Next, Promise!End
<1>5. CASE LookAgain
  BY <1>5 DEF LookAgain, Promise!vars
<1> QED
  BY <1>1, <1>2, <1>3, <1>4, <1>5 DEF RunStep

\* However a campaign goes, whatever calls fail, come late or are refused and whatever
\* others change between the runs, no run of any tool puts out of order what is in order,
\* except the three things that are replaced by design.
THEOREM NoToolDamages == Spec => NoRunDamages
<1>1. Init => Promise!Init
  BY DEF Init, Promise!Init
<1>2. ProvInv /\ [Next]_vars => [Promise!Next]_(Promise!vars)
  <2> SUFFICES ASSUME ProvInv, [Next]_vars
               PROVE  Promise!Next \/ UNCHANGED Promise!vars
    OBVIOUS
  <2> DEFINE good == {r \in Resource : live[r] = "ok"}
  <2>1. ASSUME NEW r \in Resource, Settle(r) PROVE Promise!Next
    <3>1. live' = [live EXCEPT ![r] = "ok"] /\ running' = running
      BY <2>1 DEF Settle
    <3>2. good' = good \cup {r}
      BY <3>1 DEF ProvInv, TypeOK
    <3> QED
      BY <3>1, <3>2 DEF Promise!Next, Promise!Settle
  <2>2. ASSUME NEW r \in Resource, Reconfigured(r) \/ Skewed(r) \/ KeyLost(r) \/ Deleted(r)
        PROVE  Promise!Next
    <3>1. PICK changed \in [Resource -> Status] :
            /\ Outside(changed)
            /\ \A s \in Resource : changed[s] = "ok" => live[s] = "ok"
      BY <2>2, OthersKeep
    <3>2. ~ running /\ live' = changed /\ running' = running
      BY <3>1 DEF Outside
    <3>3. good' \subseteq good
      BY <3>1, <3>2
    <3> QED
      BY <3>2, <3>3 DEF Promise!Next, Promise!Damage
  <2>3. CASE UNCHANGED vars
    BY <2>3 DEF vars, Promise!vars
  <2> QED
    BY <2>1, <2>2, <2>3, RunStepKeepsPromise DEF Next
<1> QED
  BY <1>1, <1>2, ProvInit, ProvStep, PTL DEF Spec, NoRunDamages, Promise!Spec

-----------------------------------------------------------------------------
(* What the rows tell.                                                     *)

\* What a run can miss, and a report without findings.
AtMostOne(u) == \A l, m \in u : l = m
Green(rows, cloud, u) == \A row \in rows : RowStatus(row, cloud, u) = "OK"

\* A row that is OK tells that r is in order, or at worst `soft`, unless a listing it is
\* `quiet` about could not be read or a resource that it is `under` is absent or keyless.
Tells(row, r, quiet, under, soft) ==
  /\ r \in {row.lead} \cup row.also
  /\ \A l \in DOMAIN row.unread : row.unread[l] = "OK" => l \in quiet
  /\ \A x \in DOMAIN row.under : row.under[x] = "OK" => x \in under
  /\ \A x \in DOMAIN row.awaiting : row.awaiting[x] # "OK"
  /\ \A s : <<r, s>> \in row.lenient => s \in soft
  /\ row.gone # "OK"

\* A row that is not OK when one of the listings could not be read.
Loud(row, listings) == \A l \in listings : l \in DOMAIN row.unread /\ row.unread[l] # "OK"

LEMMA GreenRow ==
  ASSUME NEW row, NEW cloud, NEW u, AtMostOne(u), RowStatus(row, cloud, u) = "OK"
  PROVE  /\ \A listings : Loud(row, listings) => u \cap listings = {}
         /\ \A r, quiet, under, soft : Tells(row, r, quiet, under, soft) =>
              \/ u \cap quiet # {}
              \/ \E x \in under : cloud[x] \in {"absent", "keyless"}
              \/ cloud[r] = "ok" \/ cloud[r] \in soft
<1> DEFINE blind == u \cap DOMAIN row.unread
           without == {r \in DOMAIN row.under : cloud[r] \in {"absent", "keyless"}}
           early == {r \in DOMAIN row.awaiting : cloud[r] = "pending"}
           off == {r \in {row.lead} \cup row.also :
                     cloud[r] # "ok" /\ <<r, cloud[r]>> \notin row.lenient}
<1>1. RowStatus(row, cloud, u) =
        IF blind # {} THEN row.unread[CHOOSE l \in blind : TRUE]
        ELSE IF without # {} THEN row.under[CHOOSE r \in without : TRUE]
        ELSE IF early # {} THEN row.awaiting[CHOOSE r \in early : TRUE]
        ELSE IF off = {} THEN "OK"
        ELSE IF cloud[row.lead] = "absent" THEN row.gone ELSE "drift"
  BY DEF RowStatus
<1>2. ASSUME NEW l \in blind PROVE row.unread[l] = "OK"
  <2>1. (CHOOSE m \in blind : TRUE) \in blind
    BY <1>2
  <2>2. l = CHOOSE m \in blind : TRUE
    BY <1>2, <2>1 DEF AtMostOne
  <2> HIDE DEF blind
  <2> QED
    BY <1>1, <1>2, <2>2
<1>3. ASSUME blind = {}, row.gone # "OK"
      PROVE  \/ off = {}
             \/ \E x \in without : row.under[x] = "OK"
             \/ \E x \in early : row.awaiting[x] = "OK"
  <2>1. without # {} => (CHOOSE r \in without : TRUE) \in without
    OBVIOUS
  <2>2. early # {} => (CHOOSE r \in early : TRUE) \in early
    OBVIOUS
  <2> HIDE DEF blind, without, early, off
  <2> QED
    BY <1>1, <1>3, <2>1, <2>2
<1>4. ASSUME NEW r, NEW quiet, NEW under, NEW soft, Tells(row, r, quiet, under, soft),
             u \cap quiet = {}, \A x \in under : cloud[x] \notin {"absent", "keyless"}
      PROVE  cloud[r] = "ok" \/ cloud[r] \in soft
  <2>1. blind = {}
    BY <1>2, <1>4 DEF Tells
  <2>2. /\ row.gone # "OK"
        /\ ~ \E x \in without : row.under[x] = "OK"
        /\ ~ \E x \in early : row.awaiting[x] = "OK"
    BY <1>4 DEF Tells
  <2>3. off = {}
    BY <1>3, <2>1, <2>2
  <2>4. r \in {row.lead} \cup row.also /\ (<<r, cloud[r]>> \in row.lenient => cloud[r] \in soft)
    BY <1>4 DEF Tells
  <2> QED
    BY <2>3, <2>4
<1>5. ASSUME NEW listings, Loud(row, listings) PROVE u \cap listings = {}
  BY <1>2, <1>5 DEF Loud
<1> QED
  BY <1>4, <1>5

\* One of the rows tells it.
Told(rows, r, quiet, under, soft) == \E row \in rows : Tells(row, r, quiet, under, soft)

\* The rows, group by group.
LEMMA ApiTold ==
  Told(ApiRows, "apis", {}, {}, {"pending"})
<1> DEFINE row == Unread([apis |-> "drift"], Lenient("pending", Row("api", "apis")))
<1>1. row \in ApiRows
  BY DEF ApiRows
<1>2. Tells(row, "apis", {}, {}, {"pending"})
  BY DEF Tells, Row, Lenient, Unread
<1> HIDE DEF row
<1> QED
  BY <1>1, <1>2 DEF Told

LEMMA NetworkTold ==
  \A r \in {"vpc", "subnet"} : Told(NetworkRows, r, {}, {}, {})
<1> DEFINE row(r) == Unread([network |-> "unknown"], Row(r, r))
<1>1. \A r \in {"vpc", "subnet"} : row(r) \in NetworkRows
  BY DEF NetworkRows
<1>2. \A r \in {"vpc", "subnet"} : Tells(row(r), r, {}, {}, {})
  BY DEF Tells, Row, Unread
<1> HIDE DEF row
<1> QED
  BY <1>1, <1>2 DEF Told

LEMMA IdentityTold ==
  /\ Told(IdentityRows, "runtimeSa", {}, {}, {})
  /\ Told(IdentityRows, "runtimeRoles", {}, {}, {})
  /\ Told(IdentityRows, "buildGrant", {}, {}, {})
  /\ Told(IdentityRows, "actAs", {"account"}, {}, {})
<1> DEFINE runtime == Unread([serviceAccounts |-> "missing", roles |-> "drift"],
                        With({"runtimeRoles"}, Row("serviceAccount", "runtimeSa")))
           build == Unread([project |-> "drift", roles |-> "drift"],
                      Gone("drift", Row("buildSA", "buildGrant")))
           deployer == Unread([serviceAccounts |-> "drift", actAs |-> "drift", account |-> "OK"],
                         Gone("drift", Row("deployerActAs", "actAs")))
<1>1. /\ runtime \in IdentityRows
      /\ build \in IdentityRows
      /\ deployer \in IdentityRows
  BY DEF IdentityRows
<1>2. /\ Tells(runtime, "runtimeSa", {}, {}, {})
      /\ Tells(runtime, "runtimeRoles", {}, {}, {})
      /\ Tells(build, "buildGrant", {}, {}, {})
      /\ Tells(deployer, "actAs", {"account"}, {}, {})
  BY DEF Tells, Row, With, Gone, Unread
<1> HIDE DEF runtime, build, deployer
<1> QED
  BY <1>1, <1>2 DEF Told

LEMMA InvokerTold ==
  Told(InvokerRows, "invokerSa", {}, {}, {})
<1> DEFINE row == Unread([orgAccounts |-> "drift"], Row("invokerSA", "invokerSa"))
<1>1. row \in InvokerRows
  BY DEF InvokerRows
<1>2. Tells(row, "invokerSa", {}, {}, {})
  BY DEF Tells, Row, Unread
<1> HIDE DEF row
<1> QED
  BY <1>1, <1>2 DEF Told

LEMMA SqlTold ==
  /\ Told(SqlRows, "sql", {}, {}, {"pending"})
  /\ Told(SqlRows, "database", {"sql", "databases"}, {"sql"}, {})
  /\ Told(SqlRows, "dbUser", {"sql", "users"}, {"sql"}, {})
<1> DEFINE instance == Unread([sql |-> "missing"], Lenient("pending", Row("sqlInstance", "sql")))
           base == Unread([sql |-> "OK", databases |-> "OK"],
                     Under([sql |-> "OK"], Row("sqlDatabase", "database")))
           user == Unread([sql |-> "OK", users |-> "OK"],
                     Under([sql |-> "OK"], Row("sqlIamUser", "dbUser")))
<1>1. /\ instance \in SqlRows
      /\ base \in SqlRows
      /\ user \in SqlRows
  BY DEF SqlRows
<1>2. /\ Tells(instance, "sql", {}, {}, {"pending"})
      /\ Tells(base, "database", {"sql", "databases"}, {"sql"}, {})
      /\ Tells(user, "dbUser", {"sql", "users"}, {"sql"}, {})
  BY DEF Tells, Row, Lenient, Unread, Under
<1> HIDE DEF instance, base, user
<1> QED
  BY <1>1, <1>2 DEF Told

LEMMA AddressTold ==
  \A r \in {"dbAddress", "lbAddress"} : Told(AddressRows, r, {}, {}, {})
<1> DEFINE row(r) == Unread([addresses |-> "unknown"], Row(r, r))
<1>1. \A r \in {"dbAddress", "lbAddress"} : row(r) \in AddressRows
  BY DEF AddressRows
<1>2. \A r \in {"dbAddress", "lbAddress"} : Tells(row(r), r, {}, {}, {})
  BY DEF Tells, Row, Unread
<1> HIDE DEF row
<1> QED
  BY <1>1, <1>2 DEF Told

LEMMA LbTold ==
  /\ Told(LbRows, "neg", {}, {}, {})
  /\ Told(LbRows, "backend", {}, {}, {})
  /\ Told(LbRows, "backendNeg", {}, {}, {})
  /\ Told(LbRows, "urlMap", {}, {}, {})
  /\ Told(LbRows, "urlPaths", {}, {}, {})
  /\ Told(LbRows, "fwd", {}, {}, {})
<1> DEFINE group == Unread([addresses |-> "unknown", negs |-> "unknown"], Row("neg", "neg"))
           backend == Unread([addresses |-> "unknown", negs |-> "unknown", lb |-> "missing"],
                        With({"backendNeg"}, Row("backendService", "backend")))
           map == Unread([addresses |-> "unknown", negs |-> "unknown", lb |-> "missing"],
                    With({"urlPaths"}, Row("urlMap", "urlMap")))
           rule == Unread([addresses |-> "unknown", negs |-> "unknown", lb |-> "missing"],
                     Row("forwardingRule", "fwd"))
<1>1. /\ group \in LbRows
      /\ backend \in LbRows
      /\ map \in LbRows
      /\ rule \in LbRows
  BY DEF LbRows
<1>2. /\ Tells(group, "neg", {}, {}, {})
      /\ Tells(backend, "backend", {}, {}, {})
      /\ Tells(backend, "backendNeg", {}, {}, {})
      /\ Tells(map, "urlMap", {}, {}, {})
      /\ Tells(map, "urlPaths", {}, {}, {})
      /\ Tells(rule, "fwd", {}, {}, {})
  BY DEF Tells, Row, With, Unread
<1> HIDE DEF group, backend, map, rule
<1> QED
  BY <1>1, <1>2 DEF Told

LEMMA PscTold ==
  /\ Told(PscRows, "attachment", {}, {}, {})
  /\ Told(PscRows, "endpoint", {}, {}, {})
  /\ Told(PscRows, "accepted", {}, {}, {})
<1> DEFINE attachment == Unread([attachments |-> "missing"], Row("serviceAttachment", "attachment"))
           endpoint == With({"accepted"}, Row("endpointAttachment", "endpoint"))
<1>1. /\ attachment \in PscRows
      /\ endpoint \in PscRows
  BY DEF PscRows
<1>2. /\ Tells(attachment, "attachment", {}, {}, {})
      /\ Tells(endpoint, "endpoint", {}, {}, {})
      /\ Tells(endpoint, "accepted", {}, {}, {})
  BY DEF Tells, Row, With, Unread
<1> HIDE DEF attachment, endpoint
<1> QED
  BY <1>1, <1>2 DEF Told

LEMMA RunTold ==
  /\ Told(RunRows, "runService", {}, {}, {})
  /\ Told(RunRows, "runInvoker", {"run"}, {"runService"}, {})
<1> DEFINE service == Unread([run |-> "missing"], Row("service", "runService"))
           invoker == Unread([run |-> "OK", runIam |-> "drift"],
                        Under([runService |-> "OK"], Gone("drift", Row("serviceIam", "runInvoker"))))
<1>1. /\ service \in RunRows
      /\ invoker \in RunRows
  BY DEF RunRows
<1>2. /\ Tells(service, "runService", {}, {}, {})
      /\ Tells(invoker, "runInvoker", {"run"}, {"runService"}, {})
  BY DEF Tells, Row, Gone, Unread, Under
<1> HIDE DEF service, invoker
<1> QED
  BY <1>1, <1>2 DEF Told

LEMMA TelemetryTold ==
  Told(TelemetryRows, "telemetry", {}, {}, {})
<1> DEFINE row == Unread([aiPolicy |-> "drift"], Gone("drift", Row("telemetryGrant", "telemetry")))
<1>1. row \in TelemetryRows
  BY DEF TelemetryRows
<1>2. Tells(row, "telemetry", {}, {}, {})
  BY DEF Tells, Row, Gone, Unread
<1> HIDE DEF row
<1> QED
  BY <1>1, <1>2 DEF Told

LEMMA DeploySaTold ==
  /\ Told(DeploySaRows, "deploySa", {}, {}, {})
  /\ \E row \in DeploySaRows : Loud(row, {"deploySa"})
  /\ Told(DeploySaRows, "saActAs", {"deploySa", "account"}, {"deploySa"}, {})
  /\ Told(DeploySaRows, "saMinter", {"deploySa"}, {"deploySa"}, {})
<1> DEFINE account == Unread([deploySa |-> "missing"], Row("deploySA", "deploySa"))
           actAs == Under([deploySa |-> "OK"],
                      Unread([deploySa |-> "OK", saPolicy |-> "drift", account |-> "OK"],
                        Gone("drift", Row("deploySA", "saActAs"))))
           minter == Under([deploySa |-> "OK"],
                       Unread([orgProject |-> "unknown", deploySa |-> "OK", saPolicy |-> "drift"],
                         Gone("drift", Row("deploySA", "saMinter"))))
<1>1. /\ account \in DeploySaRows
      /\ actAs \in DeploySaRows
      /\ minter \in DeploySaRows
  BY DEF DeploySaRows
<1>2. /\ Tells(account, "deploySa", {}, {}, {})
      /\ Loud(account, {"deploySa"})
      /\ Tells(actAs, "saActAs", {"deploySa", "account"}, {"deploySa"}, {})
      /\ Tells(minter, "saMinter", {"deploySa"}, {"deploySa"}, {})
  BY DEF Tells, Loud, Row, Gone, Unread, Under
<1> HIDE DEF account, actAs, minter
<1> QED
  BY <1>1, <1>2 DEF Told

LEMMA TraceTold ==
  Told(TraceRows, "traceConfig", {}, {}, {})
<1> DEFINE row == Unread([trace |-> "unknown"], Gone("drift", Row("traceConfig", "traceConfig")))
<1>1. row \in TraceRows
  BY DEF TraceRows
<1>2. Tells(row, "traceConfig", {}, {}, {})
  BY DEF Tells, Row, Gone, Unread
<1> HIDE DEF row
<1> QED
  BY <1>1, <1>2 DEF Told

LEMMA TargetServerTold ==
  Told(TargetServerRows, "targetServer", {}, {}, {})
<1> DEFINE row == Unread([endpointHost |-> "unknown"],
                    Awaiting([endpoint |-> "unknown"],
                      Under([endpoint |-> "unknown"], Row("targetServer", "targetServer"))))
<1>1. row \in TargetServerRows
  BY DEF TargetServerRows
<1>2. Tells(row, "targetServer", {}, {}, {})
  BY DEF Tells, Row, Unread, Under, Awaiting
<1> HIDE DEF row
<1> QED
  BY <1>1, <1>2 DEF Told

LEMMA CollectorTold ==
  Told(CollectorRows, "collector", {}, {}, {})
<1> DEFINE row == Row("dataCollector", "collector")
<1>1. row \in CollectorRows
  BY DEF CollectorRows
<1>2. Tells(row, "collector", {}, {}, {})
  BY DEF Tells, Row
<1> HIDE DEF row
<1> QED
  BY <1>1, <1>2 DEF Told

LEMMA ProductTold ==
  Told(ProductRows, "product", {}, {}, {})
<1> DEFINE row == Row("apiProduct", "product")
<1>1. row \in ProductRows
  BY DEF ProductRows
<1>2. Tells(row, "product", {}, {}, {})
  BY DEF Tells, Row
<1> HIDE DEF row
<1> QED
  BY <1>1, <1>2 DEF Told

LEMMA AppTold ==
  Told(AppRows, "app", {}, {}, {})
<1> DEFINE row == Row("app", "app")
<1>1. row \in AppRows
  BY DEF AppRows
<1>2. Tells(row, "app", {}, {}, {})
  BY DEF Tells, Row
<1> HIDE DEF row
<1> QED
  BY <1>1, <1>2 DEF Told

LEMMA RetiredTold ==
  Told(RetiredRows, "noRetiredApp", {}, {}, {})
<1> DEFINE row == Row("app(retired)", "noRetiredApp")
<1>1. row \in RetiredRows
  BY DEF RetiredRows
<1>2. Tells(row, "noRetiredApp", {}, {}, {})
  BY DEF Tells, Row
<1> HIDE DEF row
<1> QED
  BY <1>1, <1>2 DEF Told

LEMMA SecretTold ==
  /\ Told(SecretRows, "secret", {}, {}, {})
  /\ Told(SecretRows, "secretAccess", {}, {}, {})
  /\ \E row \in SecretRows : Loud(row, {"secrets"})
  /\ Told(SecretRows, "secretGeap", {"aiProject", "secrets"}, {"secret"}, {})
<1> DEFINE secret == Unread([secrets |-> "missing", secretPolicy |-> "drift"],
                       With({"secretAccess"}, Row("secret", "secret")))
           geap == Unread([aiProject |-> "OK", secretPolicy |-> "drift", secrets |-> "OK"],
                     Under([secret |-> "OK"], Gone("drift", Row("secret", "secretGeap"))))
<1>1. /\ secret \in SecretRows
      /\ geap \in SecretRows
  BY DEF SecretRows
<1>2. /\ Tells(secret, "secret", {}, {}, {})
      /\ Tells(secret, "secretAccess", {}, {}, {})
      /\ Loud(secret, {"secrets"})
      /\ Tells(geap, "secretGeap", {"aiProject", "secrets"}, {"secret"}, {})
  BY DEF Tells, Loud, Row, With, Gone, Unread, Under
<1> HIDE DEF secret, geap
<1> QED
  BY <1>1, <1>2 DEF Told

LEMMA UserTold ==
  /\ Told(UserRows, "endUser", {}, {}, {})
  /\ Told(UserRows, "endUserApp", {}, {}, {})
<1> DEFINE row == With({"endUserApp"}, Row("endUser", "endUser"))
<1>1. row \in UserRows
  BY DEF UserRows
<1>2. /\ Tells(row, "endUser", {}, {}, {})
      /\ Tells(row, "endUserApp", {}, {}, {})
  BY DEF Tells, Row, With
<1> HIDE DEF row
<1> QED
  BY <1>1, <1>2 DEF Told

LEMMA BffTold ==
  /\ Told(BffRows, "bffService", {}, {}, {})
  /\ Told(BffRows, "bffPin", {}, {"bffService"}, {})
<1> DEFINE service == Row("service", "bffService")
           env == Under([bffService |-> "OK"], Row("env", "bffPin"))
<1>1. /\ service \in BffRows
      /\ env \in BffRows
  BY DEF BffRows
<1>2. /\ Tells(service, "bffService", {}, {}, {})
      /\ Tells(env, "bffPin", {}, {"bffService"}, {})
  BY DEF Tells, Row, Under
<1> HIDE DEF service, env
<1> QED
  BY <1>1, <1>2 DEF Told

LEMMA AnApiTold ==
  Told(AnApiRows, "anApis", {}, {}, {"pending"})
<1> DEFINE row == Unread([anApis |-> "drift"], Lenient("pending", Row("service", "anApis")))
<1>1. row \in AnApiRows
  BY DEF AnApiRows
<1>2. Tells(row, "anApis", {}, {}, {"pending"})
  BY DEF Tells, Row, Lenient, Unread
<1> HIDE DEF row
<1> QED
  BY <1>1, <1>2 DEF Told

LEMMA ReportTold ==
  Told(ReportRows, "reports", {}, {}, {})
<1> DEFINE row == Unread([reports |-> "unknown"], Row("apigeeReport", "reports"))
<1>1. row \in ReportRows
  BY DEF ReportRows
<1>2. Tells(row, "reports", {}, {}, {})
  BY DEF Tells, Row, Unread
<1> HIDE DEF row
<1> QED
  BY <1>1, <1>2 DEF Told

LEMMA AiApiTold ==
  Told(AiApiRows, "aiApis", {}, {}, {"pending"})
<1> DEFINE row == Unread([aiApis |-> "drift"], Lenient("pending", Row("service", "aiApis")))
<1>1. row \in AiApiRows
  BY DEF AiApiRows
<1>2. Tells(row, "aiApis", {}, {}, {"pending"})
  BY DEF Tells, Row, Lenient, Unread
<1> HIDE DEF row
<1> QED
  BY <1>1, <1>2 DEF Told

LEMMA AgentRoleTold ==
  /\ \A r \in {"geapDnsPeer", "geapNetAdmin"} : Told(AgentRoleRows, r, {"aiProject"}, {}, {})
  /\ Told(AgentRoleRows, "aiBuildGrant", {}, {}, {})
<1> DEFINE geap(r) == Unread([aiProject |-> "OK", aiRoles |-> "drift"], Gone("drift", Row(r, r)))
           build == Unread([aiProject |-> "drift", aiRoles |-> "drift"],
                      Gone("drift", Row("aiBuildSA", "aiBuildGrant")))
<1>1. /\ \A r \in {"geapDnsPeer", "geapNetAdmin"} : geap(r) \in AgentRoleRows
      /\ build \in AgentRoleRows
  BY DEF AgentRoleRows
<1>2. /\ \A r \in {"geapDnsPeer", "geapNetAdmin"} : Tells(geap(r), r, {"aiProject"}, {}, {})
      /\ Tells(build, "aiBuildGrant", {}, {}, {})
  BY DEF Tells, Row, Gone, Unread
<1> HIDE DEF geap, build
<1> QED
  BY <1>1, <1>2 DEF Told

LEMMA AiNetworkTold ==
  /\ \A r \in {"aiVpc", "aiSubnet", "netAttach", "dnsRecord", "aiRepo"} : Told(AiNetworkRows, r, {}, {}, {})
  /\ Told(AiNetworkRows, "pscRule", {}, {}, {})
  /\ Told(AiNetworkRows, "pscAccept", {}, {}, {})
<1> DEFINE row(r) == Unread([aiNetwork |-> "missing"], Row(r, r))
           rule == Unread([aiNetwork |-> "missing"], With({"pscAccept"}, Row("pscEndpoint", "pscRule")))
<1>1. /\ \A r \in {"aiVpc", "aiSubnet", "netAttach", "dnsRecord", "aiRepo"} : row(r) \in AiNetworkRows
      /\ rule \in AiNetworkRows
  BY DEF AiNetworkRows
<1>2. /\ \A r \in {"aiVpc", "aiSubnet", "netAttach", "dnsRecord", "aiRepo"} : Tells(row(r), r, {}, {}, {})
      /\ Tells(rule, "pscRule", {}, {}, {})
      /\ Tells(rule, "pscAccept", {}, {}, {})
  BY DEF Tells, Row, With, Unread
<1> HIDE DEF row, rule
<1> QED
  BY <1>1, <1>2 DEF Told

LEMMA BucketTold ==
  /\ Told(BucketRows, "bucket", {}, {}, {})
  /\ \E row \in BucketRows : Loud(row, {"bucket"})
  /\ Told(BucketRows, "geapBucket", {"bucket", "aiProject"}, {"bucket"}, {})
  /\ \E row \in BucketRows : Loud(row, {"bucketPolicy"})
<1> DEFINE bucket == Unread([bucket |-> "missing"], Row("bucket", "bucket"))
           geap == Unread([bucket |-> "OK", bucketPolicy |-> "drift", aiProject |-> "OK"],
                     Under([bucket |-> "OK"], Gone("drift", Row("geapBucket", "geapBucket"))))
<1>1. /\ bucket \in BucketRows
      /\ geap \in BucketRows
  BY DEF BucketRows
<1>2. /\ Tells(bucket, "bucket", {}, {}, {})
      /\ Loud(bucket, {"bucket"})
      /\ Tells(geap, "geapBucket", {"bucket", "aiProject"}, {"bucket"}, {})
      /\ Loud(geap, {"bucketPolicy"})
  BY DEF Tells, Loud, Row, Gone, Unread, Under
<1> HIDE DEF bucket, geap
<1> QED
  BY <1>1, <1>2 DEF Told

LEMMA AgentSaTold ==
  /\ Told(AgentSaRows, "agentSas", {}, {}, {})
  /\ Told(AgentSaRows, "agentRoles", {}, {}, {})
<1> DEFINE row == Unread([agentSas |-> "missing", aiRoles |-> "drift"],
                    With({"agentRoles"}, Row("serviceAccount", "agentSas")))
<1>1. row \in AgentSaRows
  BY DEF AgentSaRows
<1>2. /\ Tells(row, "agentSas", {}, {}, {})
      /\ Tells(row, "agentRoles", {}, {}, {})
  BY DEF Tells, Row, With, Unread
<1> HIDE DEF row
<1> QED
  BY <1>1, <1>2 DEF Told

LEMMA GrantTold ==
  /\ Told(GrantRows, "agentBucket", {"bucket", "bucketPolicy"}, {"bucket"}, {})
  /\ Told(GrantRows, "agentActAs", {"account"}, {}, {})
<1> DEFINE access == Unread([bucket |-> "OK", bucketPolicy |-> "OK"],
                       Under([bucket |-> "OK"], Gone("drift", Row("bucketAccess", "agentBucket"))))
           deployer == Unread([agentSas |-> "drift", account |-> "OK"],
                         Gone("drift", Row("deployerActAs", "agentActAs")))
<1>1. /\ access \in GrantRows
      /\ deployer \in GrantRows
  BY DEF GrantRows
<1>2. /\ Tells(access, "agentBucket", {"bucket", "bucketPolicy"}, {"bucket"}, {})
      /\ Tells(deployer, "agentActAs", {"account"}, {}, {})
  BY DEF Tells, Row, Gone, Unread, Under
<1> HIDE DEF access, deployer
<1> QED
  BY <1>1, <1>2 DEF Told

LEMMA AclTold ==
  \A r \in {"aclDb", "aclSeeds"} : Told(AclRows, r, {}, {}, {})
<1> DEFINE row(r) == Unread([acl |-> "missing"], Row(r, r))
<1>1. \A r \in {"aclDb", "aclSeeds"} : row(r) \in AclRows
  BY DEF AclRows
<1>2. \A r \in {"aclDb", "aclSeeds"} : Tells(row(r), r, {}, {}, {})
  BY DEF Tells, Row, Unread
<1> HIDE DEF row
<1> QED
  BY <1>1, <1>2 DEF Told

-----------------------------------------------------------------------------
(* What a report without findings says.                                    *)

LEMMA ToldAndGreen ==
  ASSUME NEW rows, NEW cloud, NEW u, AtMostOne(u), Green(rows, cloud, u),
         NEW r, NEW quiet, NEW under, NEW soft, Told(rows, r, quiet, under, soft)
  PROVE  \/ u \cap quiet # {}
         \/ \E x \in under : cloud[x] \in {"absent", "keyless"}
         \/ cloud[r] = "ok" \/ cloud[r] \in soft
BY GreenRow DEF Green, Told

LEMMA FirmAndGreen ==
  ASSUME NEW rows, NEW cloud, NEW u, AtMostOne(u), Green(rows, cloud, u),
         NEW r, Told(rows, r, {}, {}, {})
  PROVE  cloud[r] = "ok"
BY ToldAndGreen

LEMMA LoudAndGreen ==
  ASSUME NEW rows, NEW cloud, NEW u, AtMostOne(u), Green(rows, cloud, u),
         NEW listings, \E row \in rows : Loud(row, listings)
  PROVE  u \cap listings = {}
BY GreenRow DEF Green

\* What the property allows of a resource.
InOrder(cloud, u, r) ==
  \/ cloud[r] = "ok"
  \/ cloud[r] = "pending" /\ r \in EnoughWhenPending
  \/ r \in NoRow \cup UNION {Unnoticed[l] : l \in u \cap DOMAIN Unnoticed}

LEMMA Overlooked ==
  ASSUME NEW cloud, NEW u, NEW l \in u, NEW r,
         \/ l = "sql" /\ r \in {"database", "dbUser"}
         \/ l = "databases" /\ r = "database"
         \/ l = "users" /\ r = "dbUser"
         \/ l = "account" /\ r \in {"actAs", "saActAs", "agentActAs"}
         \/ l = "aiProject" /\ r \in {"secretGeap", "geapBucket", "geapDnsPeer", "geapNetAdmin"}
  PROVE  InOrder(cloud, u, r)
<1>1. l \in DOMAIN Unnoticed /\ r \in Unnoticed[l]
  BY DEF Unnoticed
<1> QED
  BY <1>1 DEF InOrder

LEMMA ServicesGreen ==
  ASSUME NEW cloud, NEW u, AtMostOne(u), Green(ServicesRows, cloud, u), Consistent(cloud),
         NEW r \in ServicesOwn
  PROVE  InOrder(cloud, u, r)
<1>1. /\ Green(ApiRows, cloud, u) /\ Green(NetworkRows, cloud, u)
      /\ Green(IdentityRows, cloud, u) /\ Green(InvokerRows, cloud, u)
      /\ Green(SqlRows, cloud, u) /\ Green(AddressRows, cloud, u)
      /\ Green(LbRows, cloud, u) /\ Green(PscRows, cloud, u)
  BY DEF Green, ServicesRows
<1>2. \A s \in {"vpc", "subnet"} : cloud[s] = "ok"
  BY <1>1, NetworkTold, FirmAndGreen
<1>3. \A s \in {"runtimeSa", "runtimeRoles", "buildGrant", "invokerSa"} : cloud[s] = "ok"
  BY <1>1, IdentityTold, InvokerTold, FirmAndGreen
<1>4. \A s \in {"dbAddress", "lbAddress", "attachment", "endpoint", "accepted"} :
        cloud[s] = "ok"
  BY <1>1, AddressTold, PscTold, FirmAndGreen
<1>5. \A s \in {"neg", "backend", "backendNeg", "urlMap", "urlPaths", "fwd"} :
        cloud[s] = "ok"
  BY <1>1, LbTold, FirmAndGreen
<1>6. cloud["httpProxy"] = "ok"
  BY <1>5 DEF Consistent, Rests
<1>7. cloud["apis"] \in {"ok", "pending"} /\ cloud["sql"] \in {"ok", "pending"}
  BY <1>1, ApiTold, SqlTold, ToldAndGreen
<1>8. cloud["actAs"] = "ok" \/ "account" \in u
  BY <1>1, IdentityTold, ToldAndGreen
<1>9. cloud["database"] = "ok" \/ "sql" \in u \/ "databases" \in u
  BY <1>1, <1>7, SqlTold, ToldAndGreen
<1>10. cloud["dbUser"] = "ok" \/ "sql" \in u \/ "users" \in u
  BY <1>1, <1>7, SqlTold, ToldAndGreen
<1>11. r \in {"dbRule", "buildRepo"} => InOrder(cloud, u, r)
  BY DEF InOrder, NoRow
<1>12. r \in {"apis", "sql"} => InOrder(cloud, u, r)
  BY <1>7 DEF InOrder, EnoughWhenPending
<1>13. r \in {"actAs", "database", "dbUser"} => InOrder(cloud, u, r)
  BY <1>8, <1>9, <1>10, Overlooked DEF InOrder
<1>14. r \in {"dbRule", "buildRepo", "apis", "sql", "actAs", "database", "dbUser"}
         \/ cloud[r] = "ok"
  BY <1>2, <1>3, <1>4, <1>5, <1>6 DEF ServicesOwn
<1> QED
  BY <1>11, <1>12, <1>13, <1>14 DEF InOrder

LEMMA RunGreen ==
  ASSUME NEW cloud, Green(RunRows, cloud, {}), NEW r \in RunOwn
  PROVE  InOrder(cloud, {}, r)
<1>1. AtMostOne({})
  BY DEF AtMostOne
<1>2. cloud["runService"] = "ok"
  BY <1>1, RunTold, FirmAndGreen
<1>3. cloud["runInvoker"] = "ok"
  BY <1>1, <1>2, RunTold, ToldAndGreen
<1> QED
  BY <1>2, <1>3 DEF RunOwn, InOrder

LEMMA GatewayGreen ==
  ASSUME NEW cloud, NEW u, AtMostOne(u), Green(GatewayRows, cloud, u), Consistent(cloud),
         NEW r \in GatewayOwn
  PROVE  InOrder(cloud, u, r)
<1>1. /\ Green(TelemetryRows, cloud, u) /\ Green(DeploySaRows, cloud, u)
      /\ Green(TraceRows, cloud, u) /\ Green(TargetServerRows, cloud, u)
      /\ Green(CollectorRows, cloud, u) /\ Green(ProductRows, cloud, u)
      /\ Green(AppRows, cloud, u) /\ Green(RetiredRows, cloud, u)
  BY DEF Green, GatewayRows
<1>2. \A s \in {"telemetry", "deploySa", "traceConfig", "targetServer"} : cloud[s] = "ok"
  BY <1>1, TelemetryTold, DeploySaTold, TraceTold, TargetServerTold, FirmAndGreen
<1>3. \A s \in {"collector", "product", "app", "noRetiredApp"} : cloud[s] = "ok"
  BY <1>1, CollectorTold, ProductTold, AppTold, RetiredTold, FirmAndGreen
<1>4. cloud["developer"] = "ok"
  BY <1>3 DEF Consistent, Rests
<1>5. "deploySa" \notin u
  BY <1>1, DeploySaTold, LoudAndGreen
<1>6. cloud["saMinter"] = "ok" /\ (cloud["saActAs"] = "ok" \/ "account" \in u)
  BY <1>1, <1>2, <1>5, DeploySaTold, ToldAndGreen
<1>7. r = "saActAs" => InOrder(cloud, u, r)
  BY <1>6, Overlooked DEF InOrder
<1>8. r = "saActAs" \/ cloud[r] = "ok"
  BY <1>2, <1>3, <1>4, <1>6 DEF GatewayOwn
<1> QED
  BY <1>7, <1>8 DEF InOrder

LEMMA AgentsGreen ==
  ASSUME NEW cloud, NEW u, AtMostOne(u), Green(AgentsRows, cloud, u), Consistent(cloud),
         NEW r \in AgentsOwn
  PROVE  InOrder(cloud, u, r)
<1>1. /\ Green(AiApiRows, cloud, u) /\ Green(AgentRoleRows, cloud, u)
      /\ Green(AiNetworkRows, cloud, u) /\ Green(BucketRows, cloud, u)
      /\ Green(AgentSaRows, cloud, u) /\ Green(GrantRows, cloud, u)
      /\ Green(AclRows, cloud, u)
  BY DEF Green, AgentsRows
<1>2. \A s \in {"aiVpc", "aiSubnet", "netAttach", "dnsRecord", "aiRepo"} : cloud[s] = "ok"
  BY <1>1, AiNetworkTold, FirmAndGreen
<1>3. \A s \in {"pscRule", "pscAccept", "aiBuildGrant", "bucket"} : cloud[s] = "ok"
  BY <1>1, AiNetworkTold, AgentRoleTold, BucketTold, FirmAndGreen
<1>4. \A s \in {"agentSas", "agentRoles", "aclDb", "aclSeeds"} : cloud[s] = "ok"
  BY <1>1, AgentSaTold, AclTold, FirmAndGreen
<1>5. cloud["dnsZone"] = "ok"
  BY <1>2 DEF Consistent, Rests
<1>6. "bucket" \notin u /\ "bucketPolicy" \notin u
  BY <1>1, BucketTold, LoudAndGreen
<1>7. cloud["agentBucket"] = "ok"
  BY <1>1, <1>3, <1>6, GrantTold, ToldAndGreen
<1>8. cloud["aiApis"] \in {"ok", "pending"}
  BY <1>1, AiApiTold, ToldAndGreen
<1>9. \A s \in {"geapDnsPeer", "geapNetAdmin"} : cloud[s] = "ok" \/ "aiProject" \in u
  BY <1>1, AgentRoleTold, ToldAndGreen
<1>10. cloud["geapBucket"] = "ok" \/ "aiProject" \in u
  BY <1>1, <1>3, <1>6, BucketTold, ToldAndGreen
<1>11. cloud["agentActAs"] = "ok" \/ "account" \in u
  BY <1>1, GrantTold, ToldAndGreen
<1>12. r \in {"geapDnsPeer", "geapNetAdmin", "geapBucket", "agentActAs"} => InOrder(cloud, u, r)
  BY <1>9, <1>10, <1>11, Overlooked DEF InOrder
<1>13. r \in {"aiApis", "pscAddr"} => InOrder(cloud, u, r)
  BY <1>8 DEF InOrder, EnoughWhenPending, NoRow
<1>14. r \in {"geapDnsPeer", "geapNetAdmin", "geapBucket", "agentActAs", "aiApis", "pscAddr"}
         \/ cloud[r] = "ok"
  BY <1>2, <1>3, <1>4, <1>5, <1>7 DEF AgentsOwn
<1> QED
  BY <1>12, <1>13, <1>14 DEF InOrder

LEMMA SecretGreen ==
  ASSUME NEW cloud, NEW u, AtMostOne(u), Green(SecretRows, cloud, u), NEW r \in SecretOwn
  PROVE  InOrder(cloud, u, r)
<1>1. cloud["secret"] = "ok" /\ cloud["secretAccess"] = "ok" /\ "secrets" \notin u
  BY SecretTold, FirmAndGreen, LoudAndGreen
<1>2. cloud["secretGeap"] = "ok" \/ "aiProject" \in u
  BY <1>1, SecretTold, ToldAndGreen
<1>3. r = "secretGeap" => InOrder(cloud, u, r)
  BY <1>2, Overlooked DEF InOrder
<1>4. r \in {"secret", "secretAccess", "secretValue"} => InOrder(cloud, u, r)
  BY <1>1 DEF InOrder, NoRow
<1> QED
  BY <1>3, <1>4 DEF SecretOwn

LEMMA DeliveryGreen ==
  ASSUME NEW cloud, NEW u, AtMostOne(u)
  PROVE  /\ Green(UserRows, cloud, u) => \A r \in UserOwn : InOrder(cloud, u, r)
         /\ Green(BffRows, cloud, u) => \A r \in BffOwn : InOrder(cloud, u, r)
         /\ Green(AnalyticsRows, cloud, u) => \A r \in AnalyticsOwn : InOrder(cloud, u, r)
<1>1. ASSUME Green(UserRows, cloud, u), NEW r \in UserOwn
      PROVE  InOrder(cloud, u, r)
  BY <1>1, UserTold, FirmAndGreen DEF UserOwn, InOrder
<1>2. ASSUME Green(BffRows, cloud, u), NEW r \in BffOwn
      PROVE  InOrder(cloud, u, r)
  <2>1. cloud["bffService"] = "ok"
    BY <1>2, BffTold, FirmAndGreen
  <2>2. cloud["bffPin"] = "ok"
    BY <1>2, <2>1, BffTold, ToldAndGreen
  <2> QED
    BY <2>1, <2>2 DEF BffOwn, InOrder, NoRow
<1>3. ASSUME Green(AnalyticsRows, cloud, u), NEW r \in AnalyticsOwn
      PROVE  InOrder(cloud, u, r)
  <2>1. Green(AnApiRows, cloud, u) /\ Green(ReportRows, cloud, u)
    BY <1>3 DEF Green, AnalyticsRows
  <2>2. cloud["reports"] = "ok"
    BY <2>1, ReportTold, FirmAndGreen
  <2>3. cloud["anApis"] \in {"ok", "pending"}
    BY <2>1, AnApiTold, ToldAndGreen
  <2> QED
    BY <2>2, <2>3 DEF AnalyticsOwn, InOrder, NoRow, EnoughWhenPending
<1> QED
  BY <1>1, <1>2, <1>3

\* A tool whose report has no findings has everything in order that it is for.
LEMMA GreenTool ==
  ASSUME NEW t \in DOMAIN Tool, Tool[t].rows # {},
         NEW u \in {{}} \cup {{l} : l \in Tool[t].listings},
         NEW cloud, Consistent(cloud), Findings(Tool[t].rows, cloud, u) = {}
  PROVE  \A r \in Owned[t] : InOrder(cloud, u, r)
<1>1. Green(Tool[t].rows, cloud, u)
  <2>1. ASSUME NEW row \in Tool[t].rows PROVE RowStatus(row, cloud, u) = "OK"
    <3> DEFINE f == <<row.kind, RowStatus(row, cloud, u)>>
    <3>1. f \notin Findings(Tool[t].rows, cloud, u)
      OBVIOUS
    <3>2. f \in {<<s.kind, RowStatus(s, cloud, u)>> : s \in Tool[t].rows}
      OBVIOUS
    <3>3. f[2] = "OK"
      BY <3>1, <3>2 DEF Findings
    <3> QED
      BY <3>3
  <2> QED
    BY <2>1 DEF Green
<1>2. AtMostOne(u)
  BY DEF AtMostOne
<1>3. \A r \in Owned[t] : r \in Own[t]
  <2>1. ASSUME NEW r \in Owned[t] PROVE r \in Own[t]
    <3>1. PICK i \in DOMAIN Tool[t].calls : r \in Tool[t].calls[i].makes
      BY <2>1 DEF Owned, CallsOf
    <3> QED
      BY <3>1, CallsAreGentle DEF Gentle
  <2> QED
    BY <2>1
<1>4. t \in {"services", "seed", "run", "apigee", "agents", "secrets", "engines",
            "users", "frontend", "analytics"}
  BY DEF Tool
<1>5. t \notin {"seed", "engines"}
  <2>1. Tool["seed"].rows = {} /\ Tool["engines"].rows = {}
    BY DEF Tool
  <2> QED
    BY <2>1
<1>6. CASE t = "services"
  <2>1. Green(ServicesRows, cloud, u) /\ Own[t] = ServicesOwn
    BY <1>1, <1>6 DEF Tool, Own
  <2> QED
    BY <1>2, <1>3, <2>1, ServicesGreen
<1>7. CASE t = "run"
  <2>1. Green(RunRows, cloud, u) /\ Own[t] = RunOwn
    BY <1>1, <1>7 DEF Tool, Own
  <2>2. Tool["run"].listings = {}
    BY DEF Tool
  <2>3. u = {}
    BY <1>7, <2>2
  <2> QED
    BY <1>3, <2>1, <2>3, RunGreen
<1>8. CASE t = "apigee"
  <2>1. Green(GatewayRows, cloud, u) /\ Own[t] = GatewayOwn
    BY <1>1, <1>8 DEF Tool, Own
  <2> QED
    BY <1>2, <1>3, <2>1, GatewayGreen
<1>9. CASE t = "agents"
  <2>1. Green(AgentsRows, cloud, u) /\ Own[t] = AgentsOwn
    BY <1>1, <1>9 DEF Tool, Own
  <2> QED
    BY <1>2, <1>3, <2>1, AgentsGreen
<1>10. CASE t = "secrets"
  <2>1. Green(SecretRows, cloud, u) /\ Own[t] = SecretOwn
    BY <1>1, <1>10 DEF Tool, Own
  <2> QED
    BY <1>2, <1>3, <2>1, SecretGreen
<1>11. CASE t = "users"
  <2>1. Green(UserRows, cloud, u) /\ Own[t] = UserOwn
    BY <1>1, <1>11 DEF Tool, Own
  <2> QED
    BY <1>2, <1>3, <2>1, DeliveryGreen
<1>12. CASE t = "frontend"
  <2>1. Green(BffRows, cloud, u) /\ Own[t] = BffOwn
    BY <1>1, <1>12 DEF Tool, Own
  <2> QED
    BY <1>2, <1>3, <2>1, DeliveryGreen
<1>13. CASE t = "analytics"
  <2>1. Green(AnalyticsRows, cloud, u) /\ Own[t] = AnalyticsOwn
    BY <1>1, <1>13 DEF Tool, Own
  <2> QED
    BY <1>2, <1>3, <2>1, DeliveryGreen
<1> QED
  BY <1>4, <1>5, <1>6, <1>7, <1>8, <1>9, <1>10, <1>11, <1>12, <1>13

\* Whatever has happened on the cloud, a report without findings means that everything
\* the tool is for is in order, except what the rows let pass.
THEOREM GreenIsInOrder == Spec => []GreenMeansInOrder
<1>1. ProvInv => GreenMeansInOrder
  <2> SUFFICES ASSUME ProvInv, ~ running,
                      NEW t \in {s \in Tools : Tool[s].rows # {}},
                      NEW u \in {{}} \cup {{l} : l \in Tool[t].listings},
                      Findings(Tool[t].rows, live, u) = {}, NEW r \in Owned[t]
               PROVE  InOrder(live, u, r)
    BY DEF GreenMeansInOrder, InOrder
  <2>1. t \in DOMAIN Tool
    <3>1. campaign.order \in Seq(DOMAIN Tool)
      BY CampaignsAssumption DEF ProvInv, TypeOK
    <3> DEFINE tools == DOMAIN Tool
    <3>2. campaign.order \in Seq(tools)
      BY <3>1
    <3> HIDE DEF tools
    <3>3. \A i \in DOMAIN campaign.order : campaign.order[i] \in tools
      BY <3>2
    <3> QED
      BY <3>3 DEF Tools, tools
  <2> QED
    BY <2>1, GreenTool DEF ProvInv
<1> QED
  BY <1>1, ProvInit, ProvStep, PTL DEF Spec

=============================================================================
