----------------------------- MODULE WebPolicy -----------------------------
(***************************************************************************)
(* webglass/policy.py: policy data in, one verdict out.  Evaluation is a    *)
(* function of the policy and the URL; it keeps no state.                   *)
(*                                                                         *)
(* A URL, a declared target and a policy are the parts the rules look at.   *)
(* What a host is (which range an address is in, which suffix a name has)   *)
(* is given by the constants: the Python library and the module's tables.   *)
(* A verdict names its layer and the rule of that layer; a hop's index has  *)
(* no effect on a decision and is left out.                                 *)
(***************************************************************************)
EXTENDS Integers, Sequences

CONSTANTS Address,             \* IP addresses, and what ipaddress says of them:
          Unmapped,            \* the IPv4 address inside, itself if there is none
          Loopback, LinkLocal, Unspecified, Multicast, Reserved, Private, Global,
          MetadataAddresses,
          Name,                \* host names, and which of the tables they are in:
          MetadataNames, LoopbackNames, PrivateNames,
          Dotted,              \* the names of more than one label
          NoHost, NoPort, AnyPort, NoScheme, NoData

ASSUME HostsAssumption ==
  /\ Unmapped \in [Address -> Address]
  /\ MetadataAddresses \subseteq Address
  /\ MetadataNames \subseteq Name
ASSUME NoneAssumption ==
  NoPort \notin Nat /\ AnyPort \notin Nat /\ AnyPort # NoPort /\ NoScheme \notin STRING

MandatoryDeniedSchemes ==
  {"file", "javascript", "data", "blob", "about", "chrome", "chrome-error",
   "chrome-extension", "chrome-search", "chrome-untrusted", "devtools", "edge",
   "filesystem", "moz-extension", "res", "resource", "view-source", "vbscript"}
DefaultAllowedSchemes == {"http", "https"}
DefaultMaxRedirects == 5

\* A literal address, an old numeric spelling of one, or a name.
Host == [kind : {"address", "legacy"}, of : Address] \cup [kind : {"name"}, of : Name]

Url == [shape : {"empty", "invalid", "illegal-host", "whole"},
        scheme : STRING, userinfo : BOOLEAN,
        host : Host \cup {NoHost}, port : Nat \cup {NoPort}]

Verdict(decision, layer, rule) == [decision |-> decision, layer |-> layer, rule |-> rule]
Deny(layer, rule) == Verdict("denied", layer, rule)
Allow(rule) == Verdict("allowed", "target", rule)
Allowed(verdict) == verdict.decision = "allowed"

-----------------------------------------------------------------------------
(***************************************************************************)
(* Classification of hosts: "public", or why it is not.  The first check    *)
(* that objects gives the reason.                                           *)
(***************************************************************************)
ClassifySingleAddress(a) ==
  CASE a \in Loopback -> "loopback"
    [] a \in LinkLocal \ Loopback -> "link-local"
    [] a \in (Unspecified \cup Multicast \cup Reserved) \ (Loopback \cup LinkLocal) ->
         "reserved"
    [] a \in Private \ (Loopback \cup LinkLocal \cup Unspecified \cup Multicast
                         \cup Reserved) -> "private"
    [] OTHER -> IF a \in Global THEN "public" ELSE "reserved"

ClassifyAddress(a) ==
  LET inner == ClassifySingleAddress(Unmapped[a])
  IN  IF {a, Unmapped[a]} \cap MetadataAddresses # {} THEN "metadata"
      ELSE IF inner # "public" THEN inner ELSE ClassifySingleAddress(a)

ClassifyHostname(n) ==
  CASE n \in MetadataNames -> "metadata"
    [] n \in LoopbackNames \ MetadataNames -> "loopback"
    [] n \in (PrivateNames \cup (Name \ Dotted)) \ (MetadataNames \cup LoopbackNames) ->
         "private-name"
    [] OTHER -> "public"

ClassOf(host) ==
  CASE host.kind = "address" -> ClassifyAddress(host.of)
    [] host.kind = "name" -> ClassifyHostname(host.of)
    [] OTHER -> "ambiguous-host"

-----------------------------------------------------------------------------
(***************************************************************************)
(* Declared targets.                                                       *)
(***************************************************************************)
DefaultPort(scheme) ==
  CASE scheme = "http" -> 80 [] scheme = "https" -> 443 [] OTHER -> NoPort

\* What a caller writes: an origin, or something that cannot be read as one.
TargetSpec == [origin : BOOLEAN, scheme : STRING \cup {NoScheme},
         host : Host, port : Int \cup {NoPort, AnyPort}]

TargetMalformed(spec) ==
  \/ ~spec.origin
  \/ spec.port \in Int /\ spec.port \notin 1..65535
  \/ spec.port = NoPort /\ spec.scheme # NoScheme /\ DefaultPort(spec.scheme) = NoPort

\* AnyPort among the ports stands for every port.
ParseTarget(spec) ==
  [scheme |-> spec.scheme,
   host |-> spec.host,
   ports |-> IF spec.port # NoPort THEN {spec.port}
             ELSE IF spec.scheme = NoScheme THEN {80, 443} ELSE {DefaultPort(spec.scheme)}]

EffectivePort(url) == IF url.port # NoPort THEN url.port ELSE DefaultPort(url.scheme)

Matches(target, url, allowed) ==
  /\ IF target.scheme = NoScheme THEN url.scheme \in allowed ELSE url.scheme = target.scheme
  /\ url.host = target.host
  /\ target.ports \cap {AnyPort, EffectivePort(url)} # {}

-----------------------------------------------------------------------------
(***************************************************************************)
(* Policies.  A key the data leaves out has its default there.             *)
(***************************************************************************)
Data == [wellformed : BOOLEAN,          \* readable, known keys, right types
         allowed : SUBSET STRING, denied : SUBSET STRING,
         targets : SUBSET TargetSpec, redirects : Int, bytes : Int]

\* The floor under every profile, however it was built.
Profile(allowed, denied, targets, redirects) ==
  [allowed |-> allowed, denied |-> denied \cup MandatoryDeniedSchemes,
   targets |-> targets, redirects |-> redirects]

DefaultProfile == Profile(DefaultAllowedSchemes, {}, {}, DefaultMaxRedirects)

WellFormed(data) ==
  /\ data.wellformed
  /\ data.allowed \cap (data.denied \cup MandatoryDeniedSchemes) = {}
  /\ \A spec \in data.targets :
       ~TargetMalformed(spec) /\ spec.scheme \in data.allowed \cup {NoScheme}
  /\ data.redirects >= 0 /\ data.bytes >= 1

FromData(data) ==
  Profile(data.allowed, data.denied, {ParseTarget(spec) : spec \in data.targets},
          data.redirects)

\* An evaluator: no policy, a policy, or malformed data that answers nothing.
BuildEvaluator(data) ==
  IF data = NoData THEN [blocked |-> FALSE, profile |-> DefaultProfile]
  ELSE IF WellFormed(data) THEN [blocked |-> FALSE, profile |-> FromData(data)]
  ELSE [blocked |-> TRUE, profile |-> DefaultProfile]

\* The command line refuses to run at all with malformed data.
PolicyLoads(data) == data # NoData => WellFormed(data)

\* A key press fires only under a policy that declares an app under test.
PressFires(profile) == profile.targets # {}

-----------------------------------------------------------------------------
(***************************************************************************)
(* Evaluation of one URL: the first rule that matches decides.             *)
(***************************************************************************)
Passes == "passes"

ShapeRule(url) ==
  CASE url.shape \in {"empty", "invalid"} -> "unparseable"
    [] url.shape \notin {"empty", "invalid"} /\ url.scheme = "" -> "missing-scheme"
    [] url.shape = "illegal-host" /\ url.scheme # "" -> "unparseable"
    [] OTHER -> Passes

SchemeRule(profile, url) ==
  CASE url.scheme \in profile.denied ->
         IF url.scheme \in {"file", "javascript", "data", "blob"} THEN url.scheme
         ELSE IF url.scheme \in MandatoryDeniedSchemes THEN "browser-internal" ELSE "profile"
    [] url.scheme \notin profile.denied \cup profile.allowed -> "not-allowed"
    [] OTHER -> Passes

Declared(profile, url) ==
  \E target \in profile.targets : Matches(target, url, profile.allowed)

CheckTarget(profile, url) ==
  LET class == ClassOf(url.host)
  IN  IF class = "metadata" THEN Deny("target", class)
      ELSE IF Declared(profile, url) THEN Allow("declared")
      ELSE IF class # "public" THEN Deny("target", class)
      ELSE Allow("public")

Evaluate(evaluator, url) ==
  LET profile == evaluator.profile
  IN  IF evaluator.blocked THEN Verdict("error", "policy", "malformed")
      ELSE IF ShapeRule(url) # Passes THEN Deny("url", ShapeRule(url))
      ELSE IF url.userinfo THEN Deny("url", "deny-userinfo")
      ELSE IF SchemeRule(profile, url) # Passes THEN Deny("scheme", SchemeRule(profile, url))
      ELSE IF url.host = NoHost THEN Deny("url", "missing-host")
      ELSE CheckTarget(profile, url)

\* The verdict on hop i of a chain (the requested URL is hop 1), on its own.
EvaluateHop(evaluator, urls, i) ==
  IF i - 1 > evaluator.profile.redirects THEN Deny("redirect", "depth-exceeded")
  ELSE Evaluate(evaluator, urls[i])

\* The verdicts on the hops that are examined: up to the first refusal.
EvaluateRedirectChain(evaluator, urls) ==
  [i \in {n \in DOMAIN urls : \A k \in 1..n - 1 : Allowed(EvaluateHop(evaluator, urls, k))} |->
     EvaluateHop(evaluator, urls, i)]

\* The URL again, now that its host is known to be at this address.
EvaluateResolved(evaluator, url, address) ==
  LET verdict == Evaluate(evaluator, url)
      class == ClassifyAddress(address)
  IN  IF ~Allowed(verdict) THEN verdict
      ELSE IF address \notin Address THEN Deny("resolved", "unparseable")
      ELSE IF class = "metadata" THEN Deny("resolved", class)
      ELSE IF verdict.rule = "declared" THEN Verdict("allowed", "resolved", "declared")
      ELSE IF class # "public" THEN Deny("resolved", class)
      ELSE Verdict("allowed", "resolved", "public")
=============================================================================
