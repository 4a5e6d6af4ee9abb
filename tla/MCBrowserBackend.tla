-------------------------- MODULE MCBrowserBackend --------------------------
(***************************************************************************)
(* Small instances of BrowserBackend for TLC: a web of a public site, an    *)
(* application under test on loopback and a metadata endpoint under two     *)
(* spellings, and invocations with no policy, with one that declares the    *)
(* application and the endpoint (in vain, but for the old numeric spelling  *)
(* of its address), and with one that does not load.                        *)
(***************************************************************************)
EXTENDS BrowserBackend, TLC

Addresses == {"loopback", "mapped", "imds"}
UnmappedOf == [a \in Addresses |-> IF a = "mapped" THEN "loopback" ELSE a]
Names == {"site", "app"}

Named(n) == [kind |-> "name", of |-> n]
At(a) == [kind |-> "address", of |-> a]
Number(a) == [kind |-> "legacy", of |-> a]
To(scheme, host, port) ==
  [shape |-> "whole", scheme |-> scheme, userinfo |-> FALSE, host |-> host, port |-> port]

Site == To("https", Named("site"), NoPort)
App == To("http", Named("app"), 8000)
Imds == To("http", At("imds"), NoPort)
Disguise == To("http", Number("imds"), NoPort)

ManyChains == {<<Site>>, <<Site, Imds>>, <<App, App, Site, App>>, <<Disguise>>}

Origin(scheme, host, port) ==
  [origin |-> TRUE, scheme |-> scheme, host |-> host, port |-> port]
Declaring ==
  [wellformed |-> TRUE, allowed |-> DefaultAllowedSchemes, denied |-> {"ftp"},
   targets |-> {Origin(NoScheme, Named("app"), 8000), Origin("http", At("imds"), AnyPort),
                Origin("http", Number("imds"), AnyPort)},
   redirects |-> 0, bytes |-> 1]
Contradictory == [Declaring EXCEPT !.allowed = {"http", "file"}]

AllPolicies == {NoData, Declaring, Contradictory}

TwoKeys == {<<"Tab", "Enter">>}
=============================================================================
