------------------------ MODULE BrowserBackendProofs ------------------------
(***************************************************************************)
(* Theorems about WebPolicy and BrowserBackend.                            *)
(*                                                                         *)
(* First what the rules of a policy promise about one URL, a resolved      *)
(* address and a chain of redirects, for any hosts, tables and policies.   *)
(* Then, for any number of processes, browsers and pages: types, that a    *)
(* launch reports its own browser, that no operation asks for or tells of  *)
(* a URL its policy does not admit, of which page the content it hands     *)
(* over is, and which page a process comes back to.                        *)
(***************************************************************************)
EXTENDS BrowserBackend, FiniteSetTheorems, SequenceTheorems, TLAPS

-----------------------------------------------------------------------------
(***************************************************************************)
(* The policy on one URL.                                                  *)
(***************************************************************************)
\* What an allowed URL has passed.  (evaluate)
LEMMA AllowedPasses ==
  ASSUME NEW evaluator, NEW url, Allowed(Evaluate(evaluator, url))
  PROVE  /\ ~evaluator.blocked
         /\ ~url.userinfo
         /\ SchemeRule(evaluator.profile, url) = Passes
         /\ url.host # NoHost
         /\ ClassOf(url.host) # "metadata"
         /\ Declared(evaluator.profile, url) \/ ClassOf(url.host) = "public"
BY DEF Allowed, Evaluate, Deny, Verdict, CheckTarget

LEMMA SchemePasses ==
  ASSUME NEW profile, NEW url, SchemeRule(profile, url) = Passes
  PROVE  url.scheme \in profile.allowed /\ url.scheme \notin profile.denied
BY DEF SchemeRule, Passes

LEMMA PublicHosts ==
  ASSUME NEW host, ClassOf(host) = "public"
  PROVE  host.kind # "legacy"
BY DEF ClassOf

\* A URL of a cloud-metadata address or name is allowed in one case only: it spells
\* the address as a number in the old way, and a declared target spells it so too.
\* (_check_target, rule 4)
THEOREM MetadataOnlyByDeclaredNumber ==
  \A evaluator, url :
    IsMetadata(url.host) /\ Allowed(Evaluate(evaluator, url)) =>
      url.host.kind = "legacy" /\ Declared(evaluator.profile, url)
BY AllowedPasses, PublicHosts DEF IsMetadata

LEMMA FloorUnderProfiles ==
  ASSUME NEW data
  PROVE  MandatoryDeniedSchemes \subseteq BuildEvaluator(data).profile.denied
BY DEF BuildEvaluator, DefaultProfile, FromData, Profile

\* No policy data makes an evaluator allow a mandatorily denied scheme.
\* (__post_init__, build_evaluator)
THEOREM MandatorySchemesDenied ==
  \A data, url :
    url.scheme \in MandatoryDeniedSchemes => ~Allowed(Evaluate(BuildEvaluator(data), url))
BY AllowedPasses, SchemePasses, FloorUnderProfiles

\* Malformed policy data allows nothing.  (blocked, build_evaluator)
THEOREM MalformedAllowsNothing ==
  \A data, url :
    ~PolicyLoads(data) => ~Allowed(Evaluate(BuildEvaluator(data), url))
BY AllowedPasses DEF PolicyLoads, BuildEvaluator

\* A host no target was declared for is allowed only when it is public, and an
\* old numeric spelling of an address never is.  (_classification_denial)
THEOREM UndeclaredStaysPublic ==
  \A evaluator, url :
    Allowed(Evaluate(evaluator, url)) /\ ~Declared(evaluator.profile, url) =>
      ClassOf(url.host) = "public" /\ url.host.kind # "legacy"
BY AllowedPasses, PublicHosts

LEMMA DeclaredByASpec ==
  ASSUME NEW data, data # NoData, WellFormed(data), NEW url,
         Declared(FromData(data), url)
  PROVE  \E spec \in data.targets :
           /\ ~TargetMalformed(spec)
           /\ Matches(ParseTarget(spec), url, data.allowed)
BY DEF WellFormed, Declared, FromData, Profile

LEMMA MatchesTheSpec ==
  ASSUME NEW spec, NEW url, NEW allowed, Matches(ParseTarget(spec), url, allowed)
  PROVE  /\ spec.host = url.host /\ spec.scheme \in {url.scheme, NoScheme}
         /\ \/ spec.port \in {AnyPort, EffectivePort(url)}
            \/ spec.port = NoPort /\ EffectivePort(url) = DefaultPort(url.scheme)
            \/ spec.port = NoPort /\ spec.scheme = NoScheme /\ EffectivePort(url) \in {80, 443}
<1> DEFINE target == ParseTarget(spec)
           effective == EffectivePort(url)
<1>1. target.scheme = spec.scheme /\ target.host = spec.host
  BY DEF ParseTarget
<1>2. target.host = url.host /\ target.scheme \in {url.scheme, NoScheme}
  BY DEF Matches
<1>3. target.ports \cap {AnyPort, effective} # {}
  BY DEF Matches
<1>4. CASE spec.port # NoPort
  BY <1>1, <1>2, <1>3, <1>4 DEF ParseTarget
<1>5. CASE spec.port = NoPort /\ spec.scheme = NoScheme
  <2>1. target.ports = {80, 443} BY <1>5 DEF ParseTarget
  <2>2. AnyPort \notin {80, 443} BY NoneAssumption
  <2>. QED BY <1>1, <1>2, <1>3, <1>5, <2>1, <2>2
<1>6. CASE spec.port = NoPort /\ spec.scheme # NoScheme
  <2>1. target.ports = {DefaultPort(spec.scheme)} BY <1>6 DEF ParseTarget
  <2>2. AnyPort # DefaultPort(spec.scheme) BY NoneAssumption DEF DefaultPort
  <2>3. spec.scheme = url.scheme BY <1>1, <1>2, <1>6
  <2>. QED BY <1>1, <1>2, <1>3, <1>6, <2>1, <2>2, <2>3
<1>. QED BY <1>4, <1>5, <1>6

\* What an evaluator allows its policy admits: it is intended in the words of
\* `Intended`, or a metadata address in the spelling the policy declares.  The order
\* of the rules, the parsing of targets and the defaults add nothing else.
\* (evaluate, build_evaluator)
THEOREM AllowedIsAdmitted ==
  ASSUME NEW data, NEW url, PolicyLoads(data),
         Allowed(Evaluate(BuildEvaluator(data), url))
  PROVE  Admits(data, url)
<1> DEFINE profile == BuildEvaluator(data).profile
<1>1. /\ ~url.userinfo /\ url.host # NoHost
      /\ IsMetadata(url.host) => url.host.kind = "legacy" /\ Declared(profile, url)
      /\ Declared(profile, url) \/ ClassOf(url.host) = "public"
      /\ url.scheme \in profile.allowed /\ url.scheme \notin profile.denied
  BY AllowedPasses, SchemePasses, MetadataOnlyByDeclaredNumber
<1>2. CASE data = NoData
  <2>1. profile = Profile({"http", "https"}, {}, {}, DefaultMaxRedirects)
    BY <1>2 DEF BuildEvaluator, DefaultProfile, DefaultAllowedSchemes
  <2>2. url.scheme \in {"http", "https"} \ MandatoryDeniedSchemes
    BY <1>1, <2>1 DEF Profile
  <2>3. ~Declared(profile, url) BY <2>1 DEF Declared, Profile
  <2>4. url.host.kind # "legacy" /\ ClassOf(url.host) = "public"
    BY <1>1, <2>3, PublicHosts
  <2>. QED BY <1>1, <1>2, <2>2, <2>3, <2>4 DEF Intended, Admits
<1>3. CASE data # NoData
  <2>0. WellFormed(data) /\ profile = FromData(data)
    BY <1>3 DEF PolicyLoads, BuildEvaluator
  <2>2. url.scheme \in (data.allowed \ data.denied) \ MandatoryDeniedSchemes
    BY <1>1, <2>0 DEF FromData, Profile
  <2>3. CASE ~Declared(profile, url)
    <3>1. ClassOf(url.host) = "public" /\ ~IsMetadata(url.host) BY <1>1, <2>3
    <3>2. url.host.kind # "legacy" BY <3>1, PublicHosts
    <3>. QED BY <1>1, <1>3, <2>2, <3>1, <3>2 DEF Intended, Admits
  <2>4. CASE Declared(profile, url)
    <3>1. PICK spec \in data.targets : Matches(ParseTarget(spec), url, data.allowed)
      BY <1>3, <2>0, <2>4, DeclaredByASpec
    <3>2. DeclaredBy(data, url) BY <3>1, MatchesTheSpec DEF DeclaredBy
    <3>3. CASE IsMetadata(url.host)
      BY <1>1, <1>3, <3>2, <3>3 DEF DisguisedMetadata, Admits
    <3>4. CASE ~IsMetadata(url.host)
      BY <1>1, <1>3, <2>2, <3>2, <3>4 DEF Intended, Admits
    <3>. QED BY <3>3, <3>4
  <2>. QED BY <2>3, <2>4
<1>. QED BY <1>2, <1>3

\* A resolved address only narrows what the URL was allowed for: never to a
\* metadata endpoint, and to a host that is not public only if it was declared.
\* (evaluate_resolved)
THEOREM ResolvingOnlyNarrows ==
  \A evaluator, url, address :
    Allowed(EvaluateResolved(evaluator, url, address)) =>
      /\ Allowed(Evaluate(evaluator, url))
      /\ ClassifyAddress(address) # "metadata"
      /\ ClassifyAddress(address) = "public" \/ Evaluate(evaluator, url).rule = "declared"
BY DEF EvaluateResolved, Allowed, Deny, Verdict

-----------------------------------------------------------------------------
(***************************************************************************)
(* The policy on a chain of redirects.                                     *)
(***************************************************************************)
\* Every set of naturals has a least element, from the well-foundedness of
\* strict inclusion of finite sets.
LEMMA LeastExists ==
  ASSUME NEW T, T \subseteq Nat, T # {}
  PROVE  \E x \in T : \A y \in T : x <= y
<1> DEFINE Upto == {0..n : n \in T}
<1>1. Upto \subseteq FiniteSubsetsOf(Nat)
  <2>1. ASSUME NEW n \in T PROVE 0..n \in SUBSET Nat /\ IsFiniteSet(0..n)
    BY FS_Interval
  <2>. QED BY <2>1 DEF FiniteSubsetsOf
<1>2. \E U \in Upto : \A V \in Upto : ~(<<V, U>> \in StrictSubsetOrdering(Nat))
  <2>1. Upto # {} OBVIOUS
  <2>2. IsWellFoundedOn(StrictSubsetOrdering(Nat), FiniteSubsetsOf(Nat))
    BY FS_StrictSubsetOrderingWellFounded
  <2>. HIDE DEF Upto
  <2>. QED BY <1>1, <2>1, <2>2, WFMin, Zenon
<1>3. PICK x \in T : \A y \in T : ~(<<0..y, 0..x>> \in StrictSubsetOrdering(Nat))
  BY <1>2
<1>4. ASSUME NEW y \in T, y < x PROVE FALSE
  <2> HIDE DEF Upto
  <2>1. x \in 0..x /\ x \notin 0..y /\ 0..y \in SUBSET Nat /\ 0..x \in SUBSET Nat BY <1>4
  <2>2. 0..y \subseteq 0..x BY <1>4
  <2>3. <<0..y, 0..x>> \in StrictSubsetOrdering(Nat)
    <3> DEFINE A == 0..y  B == 0..x
    <3>1. A \in SUBSET Nat /\ B \in SUBSET Nat /\ A \subseteq B /\ A # B BY <2>1, <2>2
    <3> HIDE DEF A, B
    <3>2. <<A, B>> \in StrictSubsetOrdering(Nat) BY <3>1 DEF StrictSubsetOrdering
    <3>. QED BY <3>2 DEF A, B
  <2>. QED BY <2>3, <1>3
<1>. QED BY <1>4

\* A chain none of whose verdicts is a refusal was examined to its end: each of
\* its URLs is allowed on its own, and it has no more redirects than the profile
\* allows.  (evaluate_redirect_chain, which stops at the first refusal)
THEOREM ChainAllowedWhole ==
  ASSUME NEW evaluator, NEW S, NEW urls \in Seq(S),
         evaluator.profile.redirects \in Nat,
         \A i \in DOMAIN EvaluateRedirectChain(evaluator, urls) :
           Allowed(EvaluateRedirectChain(evaluator, urls)[i])
  PROVE  /\ \A i \in DOMAIN urls : Allowed(Evaluate(evaluator, urls[i]))
         /\ Len(urls) - 1 <= evaluator.profile.redirects
<1> DEFINE hop(i) == EvaluateHop(evaluator, urls, i)
           refused == {i \in DOMAIN urls : ~Allowed(hop(i))}
           examined == {n \in DOMAIN urls : \A k \in 1..n - 1 : Allowed(hop(k))}
<1>0. DOMAIN urls = 1..Len(urls) /\ Len(urls) \in Nat
  BY LenProperties
<1>1. \A i \in examined : Allowed(hop(i))
  BY DEF EvaluateRedirectChain
<1> HIDE DEF hop
<1>2. refused = {}
  <2>1. SUFFICES ASSUME refused # {} PROVE FALSE
    OBVIOUS
  <2>2. refused \subseteq Nat BY <1>0
  <2>3. PICK n \in refused : \A m \in refused : n <= m
    <3> HIDE DEF refused
    <3>. QED BY <2>1, <2>2, LeastExists
  <2>4. ASSUME NEW k \in 1..n - 1 PROVE Allowed(hop(k))
    BY <1>0, <2>3
  <2>5. n \in examined BY <2>4
  <2>. QED BY <1>1, <2>5
<1>3. ASSUME NEW i \in DOMAIN urls
      PROVE  Allowed(Evaluate(evaluator, urls[i])) /\ i - 1 <= evaluator.profile.redirects
  <2>1. Allowed(hop(i)) BY <1>2
  <2>2. ~Allowed(Deny("redirect", "depth-exceeded")) BY DEF Allowed, Deny, Verdict
  <2>3. i \in Nat BY <1>0
  <2>. QED BY <2>1, <2>2, <2>3 DEF hop, EvaluateHop
<1>4. CASE Len(urls) = 0 BY <1>3, <1>4
<1>5. CASE Len(urls) # 0
  <2>1. Len(urls) \in DOMAIN urls BY <1>0, <1>5
  <2>. QED BY <1>3, <2>1
<1>. QED BY <1>4, <1>5

-----------------------------------------------------------------------------
(***************************************************************************)
(* Types.  Fine says of one process, and of how many pages there are, that *)
(* its connection and its stage agree.                                     *)
(***************************************************************************)
Spot == Url \cup {Blank, ErrorPage}
Page == [of : Browser, open : BOOLEAN, at : Spot, going : Seq(Spot),
         by : Proc \cup {NoProc}]
Connection == [browser : Browser, page : Nat, url : Spot, moved : BOOLEAN] \cup {NoConn}
Operation == [kind : {"none", "open", "live", "screenshot", "press"}, url : Spot,
              limit : Limits \cup {NoLimit}, keys : Seq(STRING)]
Outcome == {"none", "succeeded", "failed", "previewed", "denied", "blocked"}
Process ==
  [pc : {"off", "idle", "polling", "attach", "adopt", "drive", "navigating",
         "landed", "reading"},
   policy : Policies \cup {NoData}, spawned : Browser \cup {NoBrowser},
   conn : Connection, driver : BOOLEAN, op : Operation,
   chain : Seq(Spot), rest : Seq(STRING), result : Outcome]

\* The stages at which a process operates on the page of its connection.
Connects == {"adopt", "drive", "navigating", "landed", "reading"}

Fine(r, n) ==
  /\ r.driver <=> (r.conn # NoConn \/ r.pc = "attach")
  /\ r.pc = "attach" => r.conn = NoConn
  /\ r.pc \in Connects => r.conn # NoConn
  /\ r.conn # NoConn => r.conn.page \in 1..n /\ r.conn.browser \in Browser
  /\ r.pc = "polling" => r.spawned \in Browser

Typed ==
  /\ portFile \in Browser \cup {NoBrowser}
  /\ browser \in [Browser -> {"unborn", "starting", "up", "hung", "dead"}]
  /\ page \in Seq(Page) /\ Len(page) <= MaxPages
  /\ session \in [endpoint : Browser, pid : Browser] \cup {NoSession}
  /\ proc \in [Proc -> Process] /\ \A p \in Proc : Fine(proc[p], Len(page))
  /\ working \in 0..Len(page)

LEMMA UrlsAreSpots == Urls \subseteq Spot /\ \A chain \in Web : chain \in Seq(Spot) \ {<<>>}
<1>1. ASSUME NEW chain \in Web PROVE chain \in Seq(Spot) \ {<<>>} /\ chain[1] \in Spot
  <2>1. chain \in Seq(Url) /\ chain # <<>> BY WebAssumption
  <2>2. chain \in Seq(Spot) BY <2>1, SeqMonotonic DEF Spot
  <2>3. 1 \in 1..Len(chain) BY <2>1, EmptySeq
  <2>. QED BY <2>1, <2>2, <2>3, ElementOfSeq
<1>. QED BY <1>1 DEF Urls

LEMMA OpsAreOperations == Ops \subseteq Operation
<1>. SUFFICES ASSUME NEW op \in Ops PROVE op \in Operation
  OBVIOUS
<1>1. Blank \in Spot /\ <<>> \in Seq(STRING) BY DEF Spot
<1>2. CASE op \in [kind : {"open"}, url : Urls, limit : Limits, keys : {<<>>}]
  <2>1. op.url \in Spot BY <1>2, UrlsAreSpots
  <2>. QED BY <1>1, <1>2, <2>1 DEF Operation
<1>3. CASE op \in [kind : {"live", "screenshot"}, url : {Blank}, limit : {NoLimit},
                   keys : {<<>>}]
  BY <1>1, <1>3 DEF Operation
<1>4. CASE op \in [kind : {"press"}, url : {Blank}, limit : {NoLimit}, keys : Keys]
  <2>1. op.keys \in Seq(STRING) BY <1>4, KeysAssumption
  <2>. QED BY <1>1, <1>4, <2>1 DEF Operation
<1>. QED BY <1>2, <1>3, <1>4 DEF Ops

LEMMA NoOpIsAnOperation == NoOp \in Operation
<1>1. Blank \in Spot BY DEF Spot
<1>2. <<>> \in Seq(STRING) OBVIOUS
<1>. QED BY <1>1, <1>2 DEF NoOp, Operation

LEMMA FreshIsFine == Fresh \in Process /\ \A n \in Nat : Fine(Fresh, n)
<1>1. <<>> \in Seq(STRING) /\ <<>> \in Seq(Spot) OBVIOUS
<1>2. NoConn \in Connection BY DEF Connection
<1>3. Fresh \in Process BY <1>1, <1>2, NoOpIsAnOperation DEF Fresh, Process, Outcome
<1>. QED BY <1>3 DEF Fresh, Fine, Connects

\* What a process hears changes the URL and the mark of its connection at most.
LEMMA HeardIsAConnection ==
  ASSUME Typed, NEW p \in Proc, proc[p].conn # NoConn
  PROVE  /\ Heard(p) \in Connection /\ Heard(p) # NoConn
         /\ Heard(p).browser = proc[p].conn.browser /\ Heard(p).page = proc[p].conn.page
         /\ Alive(proc[p].conn.page) => /\ Heard(p).url = page[proc[p].conn.page].at
                                       /\ Heard(p).moved = FALSE
         /\ ~Alive(proc[p].conn.page) => Heard(p) = proc[p].conn
<1>. DEFINE conn == proc[p].conn
<1>1. proc[p] \in Process /\ Fine(proc[p], Len(page)) BY DEF Typed
<1>2. conn \in [browser : Browser, page : Nat, url : Spot, moved : BOOLEAN]
  BY <1>1 DEF Process, Connection
<1>3. page[conn.page] \in Page
  BY <1>1, LenProperties, ElementOfSeq DEF Fine, Typed
<1>4. page[conn.page].at \in Spot BY <1>3 DEF Page
<1>5. CASE Alive(conn.page)
  <2>1. Heard(p) = [conn EXCEPT !.url = page[conn.page].at, !.moved = FALSE]
    BY <1>5 DEF Heard
  <2>2. Heard(p) \in [browser : Browser, page : Nat, url : Spot, moved : BOOLEAN]
    BY <1>2, <1>4, <2>1
  <2>3. Heard(p) # NoConn BY <2>2, BackendAssumption DEF NoConn
  <2>4. /\ Heard(p).browser = conn.browser /\ Heard(p).page = conn.page
        /\ Heard(p).url = page[conn.page].at /\ Heard(p).moved = FALSE
    BY <1>2, <2>1
  <2>. QED BY <1>5, <2>2, <2>3, <2>4 DEF Connection
<1>6. CASE ~Alive(conn.page)
  BY <1>2, <1>6 DEF Heard, Connection
<1>. QED BY <1>5, <1>6

LEMMA FinishIsFine ==
  ASSUME Typed, NEW p \in Proc, NEW state \in Outcome, proc[p].pc \in Connects
  PROVE  Finish(p, state) \in Process /\ Fine(Finish(p, state), Len(page))
<1>1. NoOp \in Operation BY NoOpIsAnOperation
<1>2. proc[p] \in Process /\ Fine(proc[p], Len(page)) BY DEF Typed
<1>3. <<>> \in Seq(Spot) /\ <<>> \in Seq(STRING) OBVIOUS
<1>4. /\ Heard(p) \in Connection /\ Heard(p) # NoConn
      /\ Heard(p).browser = proc[p].conn.browser /\ Heard(p).page = proc[p].conn.page
  BY <1>2, HeardIsAConnection DEF Fine
<1>5. Finish(p, state) \in Process BY <1>1, <1>2, <1>3, <1>4 DEF Finish, Process
<1>. QED BY <1>2, <1>4, <1>5 DEF Finish, Process, Fine, Connects

\* What becomes of a process when a page shows another document: only the stage
\* and the mark of one that is connected to the page.
LEMMA MovesOne ==
  ASSUME Typed, NEW i \in DOMAIN page, NEW by, Moves(i, by), NEW q \in Proc
  PROVE  /\ proc'[q] \in Process
         /\ proc[q].conn.page # i => proc'[q] = proc[q]
         /\ \/ proc'[q] = proc[q]
            \/ /\ q = by /\ proc[q].pc = "navigating"
               /\ proc'[q] = [proc[q] EXCEPT !.pc = "landed", !.conn.moved = FALSE]
            \/ proc'[q] = [proc[q] EXCEPT !.conn.moved = TRUE]
         /\ proc[q].conn.page = i =>
              /\ proc[q].conn # NoConn /\ proc'[q].conn # NoConn
              /\ (q = by /\ proc[q].pc = "navigating") \/ proc'[q].conn.moved
         /\ proc'[q].conn = NoConn <=> proc[q].conn = NoConn
         /\ proc'[q].conn = [proc[q].conn EXCEPT !.moved = proc'[q].conn.moved]
         /\ \/ proc'[q].pc = proc[q].pc
            \/ /\ q = by /\ proc[q].pc = "navigating" /\ proc'[q].pc = "landed"
               /\ proc[q].conn.page = i
         /\ proc'[q] = [proc[q] EXCEPT !.pc = proc'[q].pc, !.conn = proc'[q].conn]
<1>. DEFINE r == proc[q]
<1>1. r \in Process /\ Fine(r, Len(page)) BY DEF Typed
<1>2. i \in Nat /\ i # 0 BY LenProperties DEF Typed
<1>3. /\ r.conn \in Connection
      /\ r.conn = [r.conn EXCEPT !.moved = r.conn.moved]
      /\ r = [r EXCEPT !.pc = r.pc, !.conn = r.conn]
  BY <1>1 DEF Process, Connection, NoConn
<1>4. CASE r.conn.page # i
  <2>1. proc'[q] = r BY <1>4 DEF Moves
  <2>. QED BY <1>1, <1>3, <1>4, <2>1
<1>5. CASE r.conn.page = i
  <2>1. r.conn # NoConn BY <1>2, <1>5 DEF NoConn
  <2>2. r.conn \in [browser : Browser, page : Nat, url : Spot, moved : BOOLEAN]
    BY <1>3, <2>1 DEF Connection
  <2>. DEFINE c(m) == [r.conn EXCEPT !.moved = m]
  <2>3. ASSUME NEW m \in BOOLEAN
        PROVE  c(m) \in Connection /\ c(m) # NoConn /\ c(m).moved = m
               /\ c(m) = [r.conn EXCEPT !.moved = c(m).moved]
    BY <2>2, BackendAssumption DEF Connection, NoConn
  <2>4. CASE q = by /\ r.pc = "navigating"
    <3>1. proc'[q] = [r EXCEPT !.pc = "landed", !.conn.moved = FALSE]
      BY <1>5, <2>4 DEF Moves
    <3>2. proc'[q] = [r EXCEPT !.pc = "landed", !.conn = c(FALSE)] BY <1>1, <3>1 DEF Process
    <3>3. proc'[q].pc = "landed" /\ proc'[q].conn = c(FALSE)
      BY <1>1, <3>2 DEF Process
    <3>4. proc'[q] \in Process BY <1>1, <2>3, <3>2 DEF Process
    <3>. HIDE DEF c
    <3>5. c(FALSE) = [r.conn EXCEPT !.moved = c(FALSE).moved] BY <2>3
    <3>. QED BY <1>5, <2>1, <2>3, <2>4, <3>1, <3>2, <3>3, <3>4, <3>5
  <2>5. CASE ~(q = by /\ r.pc = "navigating")
    <3>1. proc'[q] = [r EXCEPT !.conn.moved = TRUE]
      BY <1>5, <2>5 DEF Moves
    <3>2. proc'[q] = [r EXCEPT !.conn = c(TRUE)] BY <1>1, <3>1 DEF Process
    <3>3. proc'[q].pc = r.pc /\ proc'[q].conn = c(TRUE)
      BY <1>1, <3>2 DEF Process
    <3>4. proc'[q] \in Process BY <1>1, <2>3, <3>2 DEF Process
    <3>5. proc'[q] = [r EXCEPT !.pc = r.pc, !.conn = c(TRUE)] BY <1>1, <3>2 DEF Process
    <3>. HIDE DEF c
    <3>6. c(TRUE) = [r.conn EXCEPT !.moved = c(TRUE).moved] BY <2>3
    <3>. QED BY <1>5, <2>1, <2>3, <2>5, <3>1, <3>3, <3>4, <3>5, <3>6
  <2>. QED BY <2>4, <2>5
<1>. QED BY <1>4, <1>5

LEMMA MovesTyped ==
  ASSUME Typed, NEW i \in DOMAIN page, NEW by, Moves(i, by)
  PROVE  proc' \in [Proc -> Process] /\ \A q \in Proc : Fine(proc'[q], Len(page))
<1>1. ASSUME NEW q \in Proc PROVE proc'[q] \in Process /\ Fine(proc'[q], Len(page))
  <2>. DEFINE r == proc[q]  n == proc'[q]
  <2>1. r \in Process /\ Fine(r, Len(page)) BY DEF Typed
  <2>2. /\ n \in Process
        /\ (n.conn = NoConn) <=> (r.conn = NoConn)
        /\ n.conn = [r.conn EXCEPT !.moved = n.conn.moved]
        /\ n.pc = r.pc \/ (r.pc = "navigating" /\ n.pc = "landed")
        /\ n = [r EXCEPT !.pc = n.pc, !.conn = n.conn]
    BY MovesOne
  <2>3. r.conn \in Connection BY <2>1 DEF Process
  <2>4. n.conn.page = r.conn.page /\ n.conn.browser = r.conn.browser
    BY <2>2, <2>3 DEF Connection, NoConn
  <2>5. n.driver = r.driver /\ n.spawned = r.spawned BY <2>1, <2>2 DEF Process
  <2>6. n.conn # NoConn => n.conn.page \in 1..Len(page) /\ n.conn.browser \in Browser
    BY <2>1, <2>2, <2>4 DEF Fine
  <2>7. /\ n.pc = "attach" => n.conn = NoConn
        /\ n.pc \in Connects => n.conn # NoConn
        /\ n.pc = "polling" => n.spawned \in Browser
    BY <2>1, <2>2, <2>5 DEF Fine, Connects
  <2>8. n.pc = "attach" <=> r.pc = "attach" BY <2>2
  <2>9. n.driver <=> (n.conn # NoConn \/ n.pc = "attach") BY <2>1, <2>2, <2>5, <2>8 DEF Fine
  <2>. QED BY <2>2, <2>6, <2>7, <2>9 DEF Fine
<1>2. proc' = [q \in Proc |-> proc'[q]] BY DEF Moves
<1>. QED BY <1>1, <1>2

\* A step that rewrites one process, and may add pages.
LEMMA OneProcess ==
  ASSUME Typed, NEW p \in Proc, NEW r \in Process, Fine(r, Len(page')),
         proc' = [proc EXCEPT ![p] = r],
         page' \in Seq(Page), Len(page') >= Len(page)
  PROVE  proc' \in [Proc -> Process] /\ \A q \in Proc : Fine(proc'[q], Len(page'))
<1>1. proc' \in [Proc -> Process] BY DEF Typed
<1>2. Len(page) \in Nat /\ Len(page') \in Nat BY LenProperties DEF Typed
<1>3. ASSUME NEW q \in Proc PROVE Fine(proc'[q], Len(page'))
  <2>1. CASE q = p BY <2>1 DEF Typed
  <2>2. CASE q # p
    <3>1. proc'[q] = proc[q] /\ Fine(proc[q], Len(page)) BY <2>2 DEF Typed
    <3>. QED BY <3>1, <1>2 DEF Fine
  <2>. QED BY <2>1, <2>2
<1>. QED BY <1>1, <1>3

\* The end of a browser: its pages are closed, and none is added or removed.
LEMMA DyingKeepsPages ==
  ASSUME Typed, NEW b \in Browser, NEW closed, Dies(b, closed)
  PROVE  /\ browser' = [browser EXCEPT ![b] = "dead"]
         /\ page' \in Seq(Page) /\ Len(page') = Len(page)
         /\ working' \in 0..Len(page')
<1>1. DOMAIN page = 1..Len(page) /\ Len(page) \in Nat /\ page \in [1..Len(page) -> Page]
  BY LenProperties DEF Typed
<1>2. \A i \in DOMAIN page : Closed(i) \in Page
  <2>1. Blank \in Spot /\ <<>> \in Seq(Spot) BY DEF Spot
  <2>2. ASSUME NEW i \in DOMAIN page PROVE page[i] \in Page BY <1>1
  <2>. QED BY <2>1, <2>2 DEF Closed, Page
<1>3. page' \in [1..Len(page) -> Page]
  <2>1. \A i \in DOMAIN page : page[i] \in Page BY <1>1
  <2>2. page' = [i \in DOMAIN page |->
                  IF i \in PagesOf(b) \cup closed THEN Closed(i) ELSE page[i]]
    BY DEF Dies
  <2>3. ASSUME NEW i \in DOMAIN page
        PROVE  (IF i \in PagesOf(b) \cup closed THEN Closed(i) ELSE page[i]) \in Page
    BY <1>2, <2>1
  <2>. QED BY <1>1, <2>2, <2>3
<1>4. page' \in Seq(Page) /\ Len(page') = Len(page)
  <2>1. page' \in Seq(Page) BY <1>1, <1>3, SeqDef
  <2>2. DOMAIN page' = 1..Len(page') /\ Len(page') \in Nat BY <2>1, LenProperties
  <2>. QED BY <1>1, <1>3, <2>1, <2>2
<1>. QED BY <1>4 DEF Dies, Typed

\* A step that touches neither browsers nor pages, and one process at most.
LEMMA OnlyAProcess ==
  ASSUME Typed, NEW p \in Proc, NEW r \in Process, Fine(r, Len(page)),
         proc' = [proc EXCEPT ![p] = r],
         UNCHANGED <<browser, page>>,
         portFile' \in Browser \cup {NoBrowser},
         session' \in [endpoint : Browser, pid : Browser] \cup {NoSession},
         working' \in 0..Len(page)
  PROVE  Typed'
<1>1. page' = page /\ page' \in Seq(Page) /\ Len(page') <= MaxPages /\ Len(page') >= Len(page)
  BY LenProperties DEF Typed
<1>2. proc' \in [Proc -> Process] /\ \A q \in Proc : Fine(proc'[q], Len(page'))
  BY <1>1, OneProcess
<1>. QED BY <1>1, <1>2 DEF Typed

LEMMA ObservedIsAPage ==
  ASSUME Typed, NEW p \in Proc, NEW state, Observed(p, state),
         proc[p].pc \in Connects
  PROVE  working' \in 0..Len(page)
<1>1. proc[p] \in Process /\ Fine(proc[p], Len(page)) BY DEF Typed
<1>2. proc[p].conn.page \in 1..Len(page) BY <1>1 DEF Fine
<1>3. Len(page) \in Nat BY LenProperties DEF Typed
<1>. QED BY <1>2, <1>3 DEF Observed, Typed

LEMMA LaunchTyped ==
  ASSUME Typed, NEW p \in Proc, Launch(p)
  PROVE  Typed'
<1>. USE LenProperties
<1>0. proc[p] \in Process /\ Fine(proc[p], Len(page)) /\ working \in 0..Len(page) BY DEF Typed
<1>i. [proc[p] EXCEPT !.pc = "idle", !.spawned = NoBrowser] \in Process
  BY <1>0 DEF Process
<1>j. proc[p].pc = "polling" =>
        Fine([proc[p] EXCEPT !.pc = "idle", !.spawned = NoBrowser], Len(page))
  BY <1>0 DEF Process, Fine, Connects
<1>k. BackToIdle(p) =>
        proc' = [proc EXCEPT ![p] = [proc[p] EXCEPT !.pc = "idle", !.spawned = NoBrowser]]
  BY DEF BackToIdle, Typed
<1>1. CASE Spawn(p)
  <2>1. Newborn \in Browser BY <1>1 DEF Spawn, Newborn, Unborn
  <2>2. [proc[p] EXCEPT !.pc = "polling", !.spawned = Newborn] \in Process
    BY <1>0, <2>1 DEF Process
  <2>3. Fine([proc[p] EXCEPT !.pc = "polling", !.spawned = Newborn], Len(page))
    BY <1>0, <1>1, <2>1 DEF Process, Fine, Connects, Spawn
  <2>4. proc' = [proc EXCEPT ![p] = [proc[p] EXCEPT !.pc = "polling", !.spawned = Newborn]]
    BY <1>1 DEF Spawn, Typed
  <2>5. page' = page /\ page' \in Seq(Page) /\ Len(page') >= Len(page)
    BY <1>1 DEF Spawn, Typed
  <2>6. proc' \in [Proc -> Process] /\ \A q \in Proc : Fine(proc'[q], Len(page'))
    BY <2>2, <2>3, <2>4, <2>5, OneProcess
  <2>. QED BY <1>1, <2>1, <2>5, <2>6 DEF Spawn, Typed
<1>2. CASE PollEndpoint(p)
  <2>1. session' \in [endpoint : Browser, pid : Browser]
    BY <1>0, <1>2 DEF PollEndpoint, Fine, Typed
  <2>. QED BY <1>0, <1>2, <1>i, <1>j, <1>k, <2>1, OnlyAProcess DEF PollEndpoint, Typed
<1>3. CASE PollExited(p)
  BY <1>0, <1>3, <1>i, <1>j, <1>k, OnlyAProcess DEF PollExited, Typed
<1>4. CASE LaunchTimeout(p)
  <2>1. proc[p].spawned \in Browser BY <1>0, <1>4 DEF LaunchTimeout, Fine
  <2>2. /\ browser' = [browser EXCEPT ![proc[p].spawned] = "dead"]
        /\ page' \in Seq(Page) /\ Len(page') = Len(page)
        /\ working' \in 0..Len(page')
    BY <1>4, <2>1, DyingKeepsPages DEF LaunchTimeout
  <2>3. Len(page') >= Len(page) BY <2>2 DEF Typed
  <2>4. Fine([proc[p] EXCEPT !.pc = "idle", !.spawned = NoBrowser], Len(page'))
    BY <1>4, <1>j, <2>2 DEF LaunchTimeout
  <2>5. proc' = [proc EXCEPT ![p] = [proc[p] EXCEPT !.pc = "idle", !.spawned = NoBrowser]]
    BY <1>4, <1>k DEF LaunchTimeout
  <2>6. proc' \in [Proc -> Process] /\ \A q \in Proc : Fine(proc'[q], Len(page'))
    BY <1>i, <2>2, <2>3, <2>4, <2>5, OneProcess
  <2>. QED BY <1>4, <2>1, <2>2, <2>6 DEF LaunchTimeout, Typed
<1>. QED BY <1>1, <1>2, <1>3, <1>4 DEF Launch

LEMMA AttachTyped ==
  ASSUME Typed, NEW p \in Proc, Attach(p)
  PROVE  Typed'
<1>. DEFINE b == session.endpoint
            i == IF Adoptable(b) = {} THEN Len(page) + 1 ELSE Oldest(Adoptable(b))
            c == Connected(b, i, page'[i].at)
            r == [proc[p] EXCEPT !.pc = "adopt", !.conn = c]
<1>1. /\ proc[p] \in Process /\ Fine(proc[p], Len(page)) /\ proc[p].pc = "attach"
      /\ b \in Browser
  BY DEF Attach, Typed
<1>2. Len(page) \in Nat /\ DOMAIN page = 1..Len(page) /\ MaxPages \in Nat
  BY LenProperties, BackendAssumption DEF Typed
<1>3. /\ page' \in Seq(Page) /\ Len(page') \in Nat /\ Len(page') >= Len(page)
      /\ Len(page') <= MaxPages
      /\ i \in 1..Len(page')
  <2>1. CASE Adoptable(b) = {}
    <3>1. <<>> \in Seq(Spot) /\ Blank \in Spot BY DEF Spot
    <3>2. NewPage(b) \in Page BY <1>1, <3>1 DEF NewPage, Page
    <3>3. page' = Append(page, NewPage(b)) /\ Len(page) < MaxPages /\ i = Len(page) + 1
      BY <2>1 DEF Attach
    <3>4. page' \in Seq(Page) /\ Len(page') = Len(page) + 1
      BY <3>2, <3>3, AppendProperties DEF Typed
    <3>. QED BY <1>2, <3>3, <3>4
  <2>2. CASE Adoptable(b) # {}
    <3>1. Adoptable(b) \subseteq 1..Len(page) BY <1>2 DEF Adoptable, PagesOf
    <3>2. PICK j \in Adoptable(b) : \A k \in Adoptable(b) : j <= k
      BY <1>2, <2>2, <3>1, LeastExists
    <3>3. Oldest(Adoptable(b)) \in Adoptable(b) BY <3>2 DEF Oldest
    <3>4. page' = page /\ i = Oldest(Adoptable(b)) BY <2>2 DEF Attach
    <3>. QED BY <1>2, <3>1, <3>3, <3>4 DEF Typed
  <2>. QED BY <2>1, <2>2
<1>. HIDE DEF i
<1>c. c \in Connection /\ c # NoConn /\ c.page = i /\ c.browser = b
  <2>1. page'[i] \in Page BY <1>3, ElementOfSeq
  <2>2. page'[i].at \in Spot BY <2>1 DEF Page
  <2>. QED BY <1>1, <1>3, <2>2, BackendAssumption DEF Connected, Connection, NoConn
<1>. HIDE DEF c
<1>4. r \in Process BY <1>1, <1>c DEF Process
<1>5. Fine(r, Len(page')) BY <1>1, <1>3, <1>c DEF Fine, Process, Connects
<1>6. proc' = [proc EXCEPT ![p] = r]
  <2>1. proc' = [proc EXCEPT ![p].pc = "adopt", ![p].conn = c]
    BY DEF Attach, i, c
  <2>. QED BY <2>1 DEF Typed
<1>. HIDE DEF r
<1>7. proc' \in [Proc -> Process] /\ \A q \in Proc : Fine(proc'[q], Len(page'))
  BY <1>3, <1>4, <1>5, <1>6, OneProcess
<1>8. UNCHANGED <<portFile, browser, session, working>> BY DEF Attach
<1>9. working' \in 0..Len(page') BY <1>2, <1>3, <1>8 DEF Typed
<1>. QED BY <1>3, <1>7, <1>8, <1>9 DEF Typed

\* A step of one process, and of one page at most.
LEMMA OnePage ==
  ASSUME Typed, NEW i \in DOMAIN page, NEW q \in Page, page' = [page EXCEPT ![i] = q]
  PROVE  page' \in Seq(Page) /\ Len(page') = Len(page)
<1>1. page \in Seq(Page) /\ i \in 1..Len(page) BY LenProperties DEF Typed
<1>. QED BY <1>1, ExceptSeq

LEMMA NavigationTyped ==
  ASSUME Typed, NEW p \in Proc,
         \/ \E chain \in Web : Goto(p, chain)
         \/ \E left \in Web \cup {<<>>, <<ErrorPage>>} : NavigationFails(p, left)
  PROVE  Typed'
<1>. DEFINE i == proc[p].conn.page
<1>0. /\ proc[p] \in Process /\ Fine(proc[p], Len(page))
      /\ proc[p].pc \in Connects
  BY DEF Typed, Goto, Drives, NavigationFails, Connects
<1>1. Len(page) \in Nat /\ DOMAIN page = 1..Len(page) /\ page \in [1..Len(page) -> Page]
  BY LenProperties DEF Typed
<1>2. i \in DOMAIN page /\ page[i] \in Page BY <1>0, <1>1 DEF Fine
<1>3. \E chain \in Seq(Spot), by \in Proc \cup {NoProc} : \E r \in Process :
        /\ page' = [page EXCEPT ![i].going = chain, ![i].by = by]
        /\ Fine(r, Len(page))
        /\ proc' = [proc EXCEPT ![p] = r]
        /\ UNCHANGED <<portFile, browser, session, working>>
  <2>1. ASSUME NEW chain \in Web, Goto(p, chain)
        PROVE  \E r \in Process :
                 /\ chain \in Seq(Spot)
                 /\ page' = [page EXCEPT ![i].going = chain, ![i].by = p]
                 /\ Fine(r, Len(page))
                 /\ proc' = [proc EXCEPT ![p] = r]
                 /\ UNCHANGED <<portFile, browser, session, working>>
    <3>. DEFINE r == [proc[p] EXCEPT !.pc = "navigating", !.chain = chain]
    <3>1. chain \in Seq(Spot) BY UrlsAreSpots
    <3>2. r \in Process BY <1>0, <3>1 DEF Process
    <3>3. Fine(r, Len(page)) BY <1>0, <2>1 DEF Fine, Process, Goto, Drives, Connects
    <3>4. proc' = [proc EXCEPT ![p] = r] BY <2>1 DEF Goto, Typed
    <3>. QED BY <2>1, <3>1, <3>2, <3>3, <3>4 DEF Goto
  <2>2. ASSUME NEW left \in Web \cup {<<>>, <<ErrorPage>>}, NavigationFails(p, left)
        PROVE  /\ left \in Seq(Spot)
               /\ \E by \in Proc \cup {NoProc} :
                    page' = [page EXCEPT ![i].going = left, ![i].by = by]
               /\ Finish(p, "failed") \in Process
               /\ Fine(Finish(p, "failed"), Len(page))
               /\ proc' = [proc EXCEPT ![p] = Finish(p, "failed")]
               /\ UNCHANGED <<portFile, browser, session, working>>
    <3>1. "failed" \in Outcome BY DEF Outcome
    <3>2. <<ErrorPage>> \in Seq(Spot) /\ <<>> \in Seq(Spot)
      <4>1. ErrorPage \in Spot BY DEF Spot
      <4>. QED BY <4>1
    <3>3. left \in Seq(Spot) BY <3>2, UrlsAreSpots
    <3>. DEFINE by == IF page[i].by = p THEN NoProc ELSE page[i].by
    <3>4. by \in Proc \cup {NoProc} BY <1>2 DEF Page
    <3>5. page' = [page EXCEPT ![i].going = left, ![i].by = by]
      BY <1>1, <1>2, <2>2 DEF NavigationFails, Page
    <3>. HIDE DEF by
    <3>. QED BY <1>0, <2>2, <3>1, <3>3, <3>4, <3>5, FinishIsFine DEF NavigationFails
  <2>. QED BY <2>1, <2>2
<1>4. PICK chain \in Seq(Spot), by \in Proc \cup {NoProc} : \E r \in Process :
        /\ page' = [page EXCEPT ![i].going = chain, ![i].by = by]
        /\ Fine(r, Len(page))
        /\ proc' = [proc EXCEPT ![p] = r]
        /\ UNCHANGED <<portFile, browser, session, working>>
  BY <1>3
<1>5. page' \in Seq(Page) /\ Len(page') = Len(page)
  <2>. DEFINE q == [page[i] EXCEPT !.going = chain, !.by = by]
  <2>1. q \in Page BY <1>2 DEF Page
  <2>2. page' = [page EXCEPT ![i] = q] BY <1>1, <1>2, <1>4
  <2>. QED BY <1>2, <2>1, <2>2, OnePage
<1>6. proc' \in [Proc -> Process] /\ \A q \in Proc : Fine(proc'[q], Len(page'))
  <2>1. PICK r \in Process : Fine(r, Len(page)) /\ proc' = [proc EXCEPT ![p] = r] BY <1>4
  <2>2. Len(page') >= Len(page) /\ Fine(r, Len(page')) BY <1>1, <2>1, <1>5
  <2>. QED BY <2>1, <1>5, <2>2, OneProcess
<1>. QED BY <1>4, <1>5, <1>6 DEF Typed

LEMMA OperateTyped ==
  ASSUME Typed, NEW p \in Proc, Operate(p)
  PROVE  Typed'
<1>0. proc[p] \in Process /\ Fine(proc[p], Len(page)) /\ working \in 0..Len(page)
  BY DEF Typed
<1>o. {"failed", "succeeded"} \subseteq Outcome /\ \A chain : CheckNavigation(p, chain) \in Outcome
  BY DEF Outcome, CheckNavigation
<1>r. ASSUME NEW r \in Process, Fine(r, Len(page)), proc' = [proc EXCEPT ![p] = r],
             UNCHANGED <<portFile, browser, page, session, working>>
      PROVE  Typed'
  BY <1>0, <1>r, OnlyAProcess DEF Typed
<1>1. CASE AttachFails(p)
  <2>. DEFINE r == [Fresh EXCEPT !.pc = "idle", !.policy = proc[p].policy, !.result = "failed"]
  <2>1. r \in Process BY <1>0, FreshIsFine DEF Process, Outcome
  <2>2. Fine(r, Len(page)) BY FreshIsFine DEF Process, Fine, Fresh, Connects
  <2>. QED BY <1>1, <1>r, <2>1, <2>2 DEF AttachFails
<1>2. CASE CallFails(p)
  <2>1. proc[p].pc \in Connects BY <1>2 DEF CallFails, Drives, Connects
  <2>. QED BY <1>2, <1>o, <1>r, <2>1, FinishIsFine DEF CallFails
<1>3. ASSUME NEW state \in Outcome, proc[p].pc \in Connects,
             proc' = [proc EXCEPT ![p] = Finish(p, state)], Observed(p, state),
             UNCHANGED <<portFile, browser, page, session>>
      PROVE  Typed'
  <2>1. working' \in 0..Len(page) BY <1>3, ObservedIsAPage
  <2>. QED BY <1>3, <2>1, FinishIsFine, OnlyAProcess DEF Typed
<1>4. CASE Adopted(p)
  <2>. DEFINE r == [proc[p] EXCEPT !.pc = "drive", !.conn = Heard(p)]
  <2>1. proc[p].conn # NoConn BY <1>0, <1>4 DEF Adopted, Fine, Connects
  <2>2. /\ Heard(p) \in Connection /\ Heard(p) # NoConn
        /\ Heard(p).browser = proc[p].conn.browser /\ Heard(p).page = proc[p].conn.page
    BY <2>1, HeardIsAConnection
  <2>3. r \in Process BY <1>0, <2>2 DEF Process
  <2>4. Fine(r, Len(page)) BY <1>0, <1>4, <2>1, <2>2 DEF Fine, Process, Connects, Adopted
  <2>5. proc' = [proc EXCEPT ![p] = r] BY <1>4 DEF Adopted, Typed
  <2>. QED BY <1>4, <1>r, <2>3, <2>4, <2>5 DEF Adopted
<1>5. CASE Navigated(p)
  <2>. DEFINE r == [proc[p] EXCEPT !.pc = "reading"]
  <2>1. r \in Process BY <1>0 DEF Process
  <2>2. Fine(r, Len(page)) BY <1>0, <1>5 DEF Fine, Process, Connects, Navigated
  <2>3. proc' = [proc EXCEPT ![p] = r] BY <1>5 DEF Navigated, Typed
  <2>. QED BY <1>5, <1>r, <2>1, <2>2, <2>3 DEF Navigated
<1>6. CASE ReadUrl(p)
  <2>. DEFINE r == [proc[p] EXCEPT !.pc = "reading", !.chain = <<proc[p].conn.url>>]
  <2>1. proc[p].conn.url \in Spot BY <1>0 DEF Process, Connection, NoConn, Spot
  <2>2. <<proc[p].conn.url>> \in Seq(Spot) BY <2>1
  <2>3. r \in Process BY <1>0, <2>2 DEF Process
  <2>4. Fine(r, Len(page)) BY <1>0, <1>6 DEF Fine, Process, Connects, ReadUrl, Drives
  <2>5. proc' = [proc EXCEPT ![p] = r] BY <1>6 DEF ReadUrl, Typed
  <2>. QED BY <1>6, <1>r, <2>3, <2>4, <2>5 DEF ReadUrl
<1>7. CASE Reads(p) BY <1>3, <1>7, <1>o DEF Reads, Connects
<1>8. CASE Screenshot(p) BY <1>3, <1>8, <1>o DEF Screenshot, Drives, Connects
<1>9. CASE Pressed(p) BY <1>3, <1>9, <1>o DEF Pressed, Drives, Connects
<1>10. CASE PressKey(p)
  <2>. DEFINE r == [proc[p] EXCEPT !.rest = Tail(proc[p].rest)]
  <2>1. proc[p].rest \in Seq(STRING) /\ proc[p].rest # <<>>
    BY <1>0, <1>10 DEF Process, PressKey
  <2>2. Tail(proc[p].rest) \in Seq(STRING) BY <2>1, HeadTailProperties
  <2>3. r \in Process BY <1>0, <2>2 DEF Process
  <2>4. Fine(r, Len(page)) BY <1>0 DEF Fine, Process
  <2>5. proc' = [proc EXCEPT ![p] = r] BY <1>10 DEF PressKey, Typed
  <2>. QED BY <1>10, <1>r, <2>3, <2>4, <2>5 DEF PressKey
<1>. QED
  BY <1>1, <1>2, <1>4, <1>5, <1>6, <1>7, <1>8, <1>9, <1>10, AttachTyped, NavigationTyped
  DEF Operate

LEMMA EndSessionTyped ==
  ASSUME Typed, NEW p \in Proc, NEW left, EndSession(p, left)
  PROVE  Typed'
<1>. DEFINE r == [proc[p] EXCEPT !.conn = NoConn, !.driver = FALSE]
<1>0. proc[p] \in Process /\ Fine(proc[p], Len(page)) /\ proc[p].pc = "idle"
  BY DEF Typed, EndSession
<1>1. session \in [endpoint : Browser, pid : Browser] BY DEF Typed, EndSession
<1>2. /\ browser' = [browser EXCEPT ![session.pid] = "dead"]
      /\ page' \in Seq(Page) /\ Len(page') = Len(page)
      /\ working' \in 0..Len(page')
  BY <1>1, DyingKeepsPages DEF EndSession
<1>3. r \in Process BY <1>0 DEF Process, Connection
<1>4. Fine(r, Len(page')) BY <1>0 DEF Fine, Process, Connects
<1>5. proc' = [proc EXCEPT ![p] = r] BY DEF EndSession, Typed
<1>6. Len(page') >= Len(page) BY <1>2 DEF Typed
<1>7. proc' \in [Proc -> Process] /\ \A q \in Proc : Fine(proc'[q], Len(page'))
  BY <1>2, <1>3, <1>4, <1>5, <1>6, OneProcess
<1>. QED BY <1>1, <1>2, <1>7 DEF EndSession, Typed

LEMMA InvocationTyped ==
  ASSUME Typed, NEW p \in Proc,
         \/ Exit(p) \/ Crash(p)
         \/ \E data \in Policies : StartProcess(p, data)
         \/ \E op \in Ops : Begin(p, op)
  PROVE  Typed'
<1>0. /\ proc[p] \in Process /\ Fine(proc[p], Len(page)) /\ Len(page) \in Nat
      /\ working \in 0..Len(page)
  BY LenProperties DEF Typed
<1>1. CASE Exit(p) BY <1>0, <1>1, FreshIsFine, OnlyAProcess DEF Exit, Typed
<1>2. CASE Crash(p) BY <1>0, <1>2, FreshIsFine, OnlyAProcess DEF Crash, Typed
<1>3. ASSUME NEW data \in Policies, StartProcess(p, data) PROVE Typed'
  <2>. DEFINE r == [Fresh EXCEPT !.pc = "idle", !.policy = data]
  <2>1. r \in Process BY FreshIsFine DEF Process
  <2>2. Fine(r, Len(page)) BY <1>0, FreshIsFine DEF Process, Fine, Fresh, Connects
  <2>. QED BY <1>0, <1>3, <2>1, <2>2, OnlyAProcess DEF StartProcess, Typed
<1>4. ASSUME NEW op \in Ops, Begin(p, op) PROVE Typed'
  <2>. DEFINE on == [proc[p] EXCEPT !.pc = IF proc[p].conn = NoConn THEN "attach" ELSE "drive",
                                    !.driver = TRUE, !.op = op, !.rest = op.keys,
                                    !.result = "none"]
              off == [proc[p] EXCEPT !.result =
                        IF op.kind = "press" THEN "previewed" ELSE "denied"]
  <2>1. op \in Operation BY OpsAreOperations
  <2>2. op.keys \in Seq(STRING) BY <2>1 DEF Operation
  <2>3. on \in Process BY <1>0, <2>1, <2>2 DEF Process, Outcome
  <2>4. off \in Process BY <1>0 DEF Process, Outcome
  <2>5. Fine(on, Len(page)) /\ Fine(off, Len(page))
    BY <1>0, <1>4 DEF Fine, Process, Begin, Connects
  <2>6. proc' = [proc EXCEPT ![p] = on] \/ proc' = [proc EXCEPT ![p] = off]
    BY <1>4 DEF Begin, Typed
  <2>. HIDE DEF on, off
  <2>7. UNCHANGED <<portFile, browser, page, session, working>> BY <1>4 DEF Begin
  <2>. QED BY <1>0, <2>3, <2>4, <2>5, <2>6, <2>7, OnlyAProcess DEF Typed
<1>. QED BY <1>1, <1>2, <1>3, <1>4

LEMMA BrowserTyped ==
  ASSUME Typed, NEW b \in Browser, BrowserReports(b) \/ BrowserHangs(b) \/ BrowserDies(b)
  PROVE  Typed'
<1>1. CASE BrowserReports(b) BY <1>1 DEF BrowserReports, Typed
<1>2. CASE BrowserHangs(b) BY <1>2 DEF BrowserHangs, Typed
<1>3. CASE BrowserDies(b)
  <2>1. /\ browser' = [browser EXCEPT ![b] = "dead"]
        /\ page' \in Seq(Page) /\ Len(page') = Len(page)
        /\ working' \in 0..Len(page')
    BY <1>3, DyingKeepsPages DEF BrowserDies
  <2>. QED BY <1>3, <2>1 DEF BrowserDies, Typed
<1>. QED BY <1>1, <1>2, <1>3

LEMMA PageTyped ==
  ASSUME Typed, NEW i, Commit(i) \/ \E url \in Urls : Wander(i, url)
  PROVE  Typed'
<1>1. Len(page) \in Nat /\ DOMAIN page = 1..Len(page) /\ page \in [1..Len(page) -> Page]
  BY LenProperties DEF Typed
<1>2. CASE Commit(i)
  <2>. DEFINE last == page[i].going[Len(page[i].going)]
              q == [page[i] EXCEPT !.at = last, !.going = <<>>, !.by = NoProc]
  <2>1. i \in DOMAIN page /\ page[i] \in Page BY <1>1, <1>2 DEF Commit
  <2>2. page[i].going \in Seq(Spot) /\ page[i].going # <<>> BY <1>2, <2>1 DEF Commit, Page
  <2>3. Len(page[i].going) \in 1..Len(page[i].going) BY <2>2, EmptySeq, LenProperties
  <2>4. last \in Spot BY <2>2, <2>3, ElementOfSeq
  <2>5. <<>> \in Seq(Spot) OBVIOUS
  <2>6. q \in Page BY <2>1, <2>4, <2>5 DEF Page
  <2>7. page' = [page EXCEPT ![i] = q] BY <1>1, <1>2, <2>1 DEF Commit
  <2>. HIDE DEF q
  <2>8. page' \in Seq(Page) /\ Len(page') = Len(page) BY <2>1, <2>6, <2>7, OnePage
  <2>9. proc' \in [Proc -> Process] /\ \A p \in Proc : Fine(proc'[p], Len(page))
    BY <1>2, <2>1, MovesTyped DEF Commit
  <2>. QED BY <1>2, <2>8, <2>9 DEF Commit, Typed
<1>3. ASSUME NEW url \in Urls, Wander(i, url) PROVE Typed'
  <2>1. i \in DOMAIN page /\ page[i] \in Page BY <1>1, <1>3 DEF Wander
  <2>2. [page[i] EXCEPT !.at = url] \in Page BY <2>1, UrlsAreSpots DEF Page
  <2>3. page' = [page EXCEPT ![i] = [page[i] EXCEPT !.at = url]]
    BY <1>1, <1>3, <2>1 DEF Wander
  <2>4. page' \in Seq(Page) /\ Len(page') = Len(page) BY <2>1, <2>2, <2>3, OnePage
  <2>5. proc' \in [Proc -> Process] /\ \A p \in Proc : Fine(proc'[p], Len(page))
    BY <1>3, <2>1, MovesTyped DEF Wander
  <2>. QED BY <1>3, <2>4, <2>5 DEF Wander, Typed
<1>. QED BY <1>2, <1>3

LEMMA NextTyped ==
  ASSUME Typed, [Next]_vars
  PROVE  Typed'
<1>1. CASE UNCHANGED vars BY <1>1 DEF Typed, vars
<1>2. CASE Next
  BY <1>2, LaunchTyped, OperateTyped, InvocationTyped, EndSessionTyped, BrowserTyped,
     PageTyped DEF Next
<1>. QED BY <1>1, <1>2

LEMMA InitTyped == Init => Typed
<1>1. <<>> \in Seq(Page) /\ Len(<<>>) = 0 OBVIOUS
<1>2. MaxPages \in Nat BY BackendAssumption
<1>. QED BY <1>1, <1>2, FreshIsFine DEF Init, Typed

LEMMA AlwaysTyped == Spec => []Typed
BY InitTyped, NextTyped, PTL DEF Spec

\* A driver runs for a connection of its process, or for one that is being
\* made, and never for nothing; the rest is types.
THEOREM TypeCorrect == Spec => []TypeOK
<1>1. Typed => TypeOK BY DEF Typed, TypeOK, Process, Fine
<1>. QED BY <1>1, AlwaysTyped, PTL

-----------------------------------------------------------------------------
(***************************************************************************)
(* Launching.  The record's lock lets one process poll at a time; while no  *)
(* launch was cut short, a browser that is still starting is the one the    *)
(* polling process spawned, so that no other can write the port file.       *)
(***************************************************************************)
Polling(p) == proc[p].pc = "polling"

OnePolls ==
  /\ \A p \in Proc : Polling(p) => session = NoSession
  /\ \A p, q \in Proc : Polling(p) /\ Polling(q) => p = q

PortIsReported == portFile # NoBrowser => browser[portFile] \in {"up", "hung", "dead"}

NoStranger ==
  ~cutShort =>
    /\ session.endpoint = session.pid
    /\ \A p \in Proc : Polling(p) => portFile \in {NoBrowser, proc[p].spawned}
    /\ \A b \in Browser :
         browser[b] = "starting" => \E p \in Proc : Polling(p) /\ proc[p].spawned = b

LaunchInv == OnePolls /\ PortIsReported /\ NoStranger

\* A step in which no process starts or stops polling, no browser starts and
\* the port file is kept or removed.
LEMMA NoLaunch ==
  ASSUME Typed, LaunchInv,
         \A p \in Proc : Polling(p)' => Polling(p) /\ proc'[p].spawned = proc[p].spawned,
         \A p \in Proc : Polling(p) => Polling(p)' \/ cutShort',
         \A b \in Browser : browser'[b] = browser[b] \/ browser'[b] \in {"hung", "dead"},
         portFile' \in {portFile, NoBrowser},
         session' = session \/ (session' = NoSession),
         cutShort => cutShort'
  PROVE  LaunchInv'
<1>1. OnePolls' BY DEF LaunchInv, OnePolls, Polling
<1>2. PortIsReported' BY DEF LaunchInv, PortIsReported, Typed
<1>3. NoStranger'
  <2>. SUFFICES ASSUME ~cutShort' PROVE NoStranger'
    BY DEF NoStranger
  <2>1. (session.endpoint = session.pid)' BY DEF LaunchInv, NoStranger, NoSession
  <2>2. \A p \in Proc : Polling(p)' => portFile' \in {NoBrowser, proc'[p].spawned}
    BY DEF LaunchInv, NoStranger, Polling
  <2>3. ASSUME NEW b \in Browser, browser'[b] = "starting"
        PROVE  \E p \in Proc : Polling(p)' /\ proc'[p].spawned = b
    <3>1. PICK p \in Proc : Polling(p) /\ proc[p].spawned = b
      BY <2>3 DEF LaunchInv, NoStranger
    <3>. QED BY <3>1 DEF Polling
  <2>. QED BY <2>1, <2>2, <2>3 DEF NoStranger, Polling
<1>. QED BY <1>1, <1>2, <1>3 DEF LaunchInv

LEMMA LaunchKeepsInv ==
  ASSUME Typed, LaunchInv, NEW p \in Proc, Launch(p)
  PROVE  LaunchInv'
<1>0. proc[p] \in Process /\ Fine(proc[p], Len(page)) BY DEF Typed
<1>1. CASE Spawn(p)
  <2>1. Newborn \in Browser /\ browser[Newborn] = "unborn"
    BY <1>1 DEF Spawn, Newborn, Unborn
  <2>2. \A q \in Proc : ~Polling(q) BY <1>1 DEF Spawn, Polling
  <2>3. /\ \A q \in Proc : Polling(q)' <=> q = p
        /\ proc'[p].spawned = Newborn
    BY <1>0, <1>1, <2>2 DEF Spawn, Polling, Typed, Process
  <2>4. \A b \in Browser : browser'[b] = IF b = Newborn THEN "starting" ELSE browser[b]
    BY <1>1 DEF Spawn, Typed
  <2>5. OnePolls' BY <1>1, <2>3 DEF OnePolls, Spawn
  <2>6. PortIsReported' BY <1>1 DEF PortIsReported, Spawn
  <2>7. NoStranger' BY <1>1, <2>2, <2>3, <2>4 DEF NoStranger, LaunchInv, Spawn
  <2>. QED BY <2>5, <2>6, <2>7 DEF LaunchInv
<1>2. ASSUME BackToIdle(p), Polling(p)
      PROVE  \A q \in Proc : ~Polling(q)'
  <2>1. proc'[p].pc = "idle" BY <1>0, <1>2 DEF BackToIdle, Typed, Process
  <2>2. \A q \in Proc : q # p => proc'[q] = proc[q] BY <1>2 DEF BackToIdle, Typed
  <2>. QED BY <1>2, <2>1, <2>2 DEF LaunchInv, OnePolls, Polling
<1>3. ASSUME NEW b \in Browser, browser[b] = "starting", ~cutShort, Polling(p)
      PROVE  proc[p].spawned = b
  BY <1>3 DEF LaunchInv, NoStranger, OnePolls
<1>4. CASE PollEndpoint(p)
  <2>1. \A q \in Proc : ~Polling(q)' BY <1>2, <1>4 DEF PollEndpoint, Polling
  <2>2. UNCHANGED <<browser, portFile, cutShort>> BY <1>4 DEF PollEndpoint
  <2>3. OnePolls' BY <2>1 DEF OnePolls
  <2>4. PortIsReported' BY <2>2 DEF PortIsReported, LaunchInv
  <2>5. ASSUME ~cutShort PROVE portFile = proc[p].spawned
    BY <1>4, <2>5 DEF PollEndpoint, LaunchInv, NoStranger, Polling
  <2>6. ASSUME ~cutShort, NEW b \in Browser PROVE browser[b] # "starting"
    BY <1>3, <1>4, <2>5, <2>6 DEF PollEndpoint, LaunchInv, PortIsReported, Polling
  <2>7. session' = [endpoint |-> portFile, pid |-> proc[p].spawned]
    BY <1>4 DEF PollEndpoint
  <2>8. NoStranger' BY <2>1, <2>2, <2>5, <2>6, <2>7 DEF NoStranger
  <2>. QED BY <2>3, <2>4, <2>8 DEF LaunchInv
<1>5. CASE PollExited(p)
  <2>1. \A q \in Proc : ~Polling(q)' BY <1>2, <1>5 DEF PollExited, Polling
  <2>2. UNCHANGED <<browser, portFile, session, cutShort>> BY <1>5 DEF PollExited
  <2>3. OnePolls' /\ PortIsReported' BY <2>1, <2>2 DEF OnePolls, PortIsReported, LaunchInv
  <2>4. ASSUME ~cutShort, NEW b \in Browser PROVE browser[b] # "starting"
    BY <1>3, <1>5, <2>4 DEF PollExited, Polling
  <2>5. NoStranger' BY <2>1, <2>2, <2>4 DEF NoStranger, LaunchInv
  <2>. QED BY <2>3, <2>5 DEF LaunchInv
<1>6. CASE LaunchTimeout(p)
  <2>1. \A q \in Proc : ~Polling(q)' BY <1>2, <1>6 DEF LaunchTimeout, Polling
  <2>2. UNCHANGED <<portFile, session, cutShort>> BY <1>6 DEF LaunchTimeout
  <2>3. \A b \in Browser :
          browser'[b] = IF b = proc[p].spawned THEN "dead" ELSE browser[b]
    BY <1>6 DEF LaunchTimeout, Dies, Typed
  <2>4. OnePolls' BY <2>1 DEF OnePolls
  <2>5. PortIsReported' BY <2>2, <2>3 DEF PortIsReported, LaunchInv, Typed
  <2>6. ASSUME ~cutShort, NEW b \in Browser PROVE browser'[b] # "starting"
    BY <1>3, <1>6, <2>3, <2>6 DEF LaunchTimeout, Polling
  <2>7. NoStranger' BY <2>1, <2>2, <2>6 DEF NoStranger, LaunchInv
  <2>. QED BY <2>4, <2>5, <2>7 DEF LaunchInv
<1>. QED BY <1>1, <1>4, <1>5, <1>6 DEF Launch

\* A process that is not polling, and that goes on to do something else.
LEMMA NotPolling ==
  ASSUME Typed, NEW p \in Proc, NEW r, ~Polling(p), r.pc # "polling",
         proc' = [proc EXCEPT ![p] = r]
  PROVE  /\ \A q \in Proc : Polling(q)' => Polling(q) /\ proc'[q].spawned = proc[q].spawned
         /\ \A q \in Proc : Polling(q) => Polling(q)'
BY DEF Typed, Polling

LEMMA OperateKeepsInv ==
  ASSUME Typed, LaunchInv, NEW p \in Proc,
         Operate(p) \/ \E op \in Ops : Begin(p, op)
  PROVE  LaunchInv'
<1>0. proc[p] \in Process BY DEF Typed
<1>f. \A state : Finish(p, state).pc # "polling"
  BY <1>0 DEF Finish, Process
<1>1. UNCHANGED <<portFile, browser, session, cutShort>>
  BY DEF Operate, Attach, Adopted, AttachFails, CallFails, Navigated, ReadUrl, Reads,
         Screenshot, PressKey, Pressed, Goto, NavigationFails, Begin
<1>2. ~Polling(p)
  BY DEF Polling, Operate, Attach, Adopted, AttachFails, CallFails, Navigated, ReadUrl,
         Reads, Screenshot, PressKey, Pressed, Goto, NavigationFails, Begin, Drives
<1>3. \E r : r.pc # "polling" /\ proc' = [proc EXCEPT ![p] = r]
  <2>1. ASSUME NEW pc, pc # "polling", NEW conn, NEW chain,
               proc' = [proc EXCEPT ![p].pc = pc, ![p].conn = conn, ![p].chain = chain]
        PROVE  \E r : r.pc # "polling" /\ proc' = [proc EXCEPT ![p] = r]
    <3>. DEFINE r == [proc[p] EXCEPT !.pc = pc, !.conn = conn, !.chain = chain]
    <3>1. proc' = [proc EXCEPT ![p] = r] BY <2>1 DEF Typed
    <3>2. r.pc # "polling" BY <1>0, <2>1 DEF Process
    <3>. QED BY <3>1, <3>2
  <2>2. CASE Attach(p) \/ Adopted(p)
    <3>1. ASSUME NEW c, NEW pc \in {"adopt", "drive"},
                 proc' = [proc EXCEPT ![p].pc = pc, ![p].conn = c]
          PROVE  \E r : r.pc # "polling" /\ proc' = [proc EXCEPT ![p] = r]
      <4>1. proc' = [proc EXCEPT ![p].pc = pc, ![p].conn = c, ![p].chain = proc[p].chain]
        BY <1>0, <3>1 DEF Process, Typed
      <4>. QED BY <2>1, <4>1
    <3>. QED BY <2>2, <3>1 DEF Attach, Adopted
  <2>3. CASE AttachFails(p)
    <3>1. [Fresh EXCEPT !.pc = "idle", !.policy = proc[p].policy,
                        !.result = "failed"].pc # "polling"
      BY DEF Fresh
    <3>. QED BY <2>3, <3>1 DEF AttachFails
  <2>4. CASE CallFails(p) \/ Reads(p) BY <1>f, <2>4 DEF CallFails, Reads
  <2>10. CASE Navigated(p)
    <3>1. proc' = [proc EXCEPT ![p].pc = "reading", ![p].conn = proc[p].conn,
                               ![p].chain = proc[p].chain]
      BY <1>0, <2>10 DEF Navigated, Process, Typed
    <3>. QED BY <2>1, <3>1
  <2>11. CASE ReadUrl(p)
    <3>1. proc' = [proc EXCEPT ![p].pc = "reading", ![p].conn = proc[p].conn,
                               ![p].chain = <<proc[p].conn.url>>]
      BY <1>0, <2>11 DEF ReadUrl, Process, Typed
    <3>. QED BY <2>1, <3>1
  <2>5. CASE Screenshot(p) \/ Pressed(p) BY <1>f, <2>5 DEF Screenshot, Pressed
  <2>6. CASE PressKey(p)
    <3>1. proc' = [proc EXCEPT ![p] = [proc[p] EXCEPT !.rest = Tail(proc[p].rest)]]
      BY <2>6 DEF PressKey, Typed
    <3>2. [proc[p] EXCEPT !.rest = Tail(proc[p].rest)].pc # "polling"
      BY <1>0, <2>6 DEF Process, PressKey, Drives
    <3>. QED BY <3>1, <3>2
  <2>7. ASSUME NEW chain, Goto(p, chain)
        PROVE  \E r : r.pc # "polling" /\ proc' = [proc EXCEPT ![p] = r]
    <3>1. proc' = [proc EXCEPT ![p] = [proc[p] EXCEPT !.pc = "navigating", !.chain = chain]]
      BY <2>7 DEF Goto, Typed
    <3>2. [proc[p] EXCEPT !.pc = "navigating", !.chain = chain].pc # "polling"
      BY <1>0 DEF Process
    <3>. QED BY <3>1, <3>2
  <2>8. ASSUME NEW left, NavigationFails(p, left)
        PROVE  \E r : r.pc # "polling" /\ proc' = [proc EXCEPT ![p] = r]
    BY <1>f, <2>8 DEF NavigationFails
  <2>9. ASSUME NEW op, Begin(p, op)
        PROVE  \E r : r.pc # "polling" /\ proc' = [proc EXCEPT ![p] = r]
    <3>. DEFINE on == [proc[p] EXCEPT !.pc = IF proc[p].conn = NoConn THEN "attach" ELSE "drive",
                                      !.driver = TRUE, !.op = op, !.rest = op.keys,
                                      !.result = "none"]
                off == [proc[p] EXCEPT !.result =
                          IF op.kind = "press" THEN "previewed" ELSE "denied"]
    <3>1. proc' = [proc EXCEPT ![p] = on] \/ proc' = [proc EXCEPT ![p] = off]
      BY <2>9 DEF Begin, Typed
    <3>2. on.pc # "polling" /\ off.pc # "polling" BY <1>0, <2>9 DEF Process, Begin
    <3>. QED BY <3>1, <3>2
  <2>. QED
    BY <2>2, <2>3, <2>4, <2>5, <2>6, <2>7, <2>8, <2>9, <2>10, <2>11 DEF Operate
<1>4. PICK r : r.pc # "polling" /\ proc' = [proc EXCEPT ![p] = r] BY <1>3
<1>. QED BY <1>1, <1>2, <1>4, NotPolling, NoLaunch

LEMMA OthersKeepInv ==
  ASSUME Typed, LaunchInv,
         \/ \E p \in Proc : \/ Exit(p) \/ Crash(p)
                            \/ \E data \in Policies : StartProcess(p, data)
                            \/ \E left : EndSession(p, left)
         \/ \E i : Commit(i) \/ (\E url \in Urls : Wander(i, url))
         \/ \E b \in Browser : BrowserReports(b) \/ BrowserHangs(b) \/ BrowserDies(b)
  PROVE  LaunchInv'
<1>1. ASSUME NEW p \in Proc, Exit(p) \/ \E data \in Policies : StartProcess(p, data)
      PROVE  LaunchInv'
  <2>1. \E r : r.pc # "polling" /\ proc' = [proc EXCEPT ![p] = r]
    BY <1>1 DEF Exit, StartProcess, Fresh
  <2>2. ~Polling(p) /\ UNCHANGED <<portFile, browser, session, cutShort>>
    BY <1>1 DEF Exit, StartProcess, Polling
  <2>. QED BY <2>1, <2>2, NotPolling, NoLaunch
<1>2. ASSUME NEW p \in Proc, Crash(p) PROVE LaunchInv'
  <2>1. UNCHANGED <<portFile, browser, session>> /\ proc' = [proc EXCEPT ![p] = Fresh]
    BY <1>2 DEF Crash
  <2>2. cutShort' = (cutShort \/ Polling(p)) BY <1>2 DEF Crash, Polling
  <2>3. \A q \in Proc : Polling(q)' => Polling(q) /\ proc'[q].spawned = proc[q].spawned
    BY <2>1 DEF Polling, Typed, Fresh
  <2>4. \A q \in Proc : Polling(q) => Polling(q)' \/ cutShort'
    BY <2>1, <2>2 DEF Polling, Typed
  <2>. QED BY <2>1, <2>2, <2>3, <2>4, NoLaunch
<1>3. ASSUME NEW p \in Proc, NEW left, EndSession(p, left) PROVE LaunchInv'
  <2>1. session' = NoSession /\ portFile' \in {portFile, NoBrowser} /\ UNCHANGED cutShort
    BY <1>3 DEF EndSession
  <2>2. \A b \in Browser : browser'[b] = browser[b] \/ browser'[b] = "dead"
    BY <1>3 DEF EndSession, Dies, Typed
  <2>3. \A q \in Proc : ~Polling(q) BY <1>3 DEF EndSession, LaunchInv, OnePolls
  <2>4. \A q \in Proc : ~Polling(q)'
    <3>1. proc' = [proc EXCEPT ![p] = [proc[p] EXCEPT !.conn = NoConn, !.driver = FALSE]]
      BY <1>3 DEF EndSession, Typed
    <3>2. [proc[p] EXCEPT !.conn = NoConn, !.driver = FALSE].pc = proc[p].pc
      BY DEF Typed, Process
    <3>. QED BY <2>3, <3>1, <3>2 DEF Polling, Typed
  <2>. QED BY <2>1, <2>2, <2>3, <2>4, NoLaunch
<1>4. ASSUME NEW i, Commit(i) \/ \E url \in Urls : Wander(i, url) PROVE LaunchInv'
  <2>1. UNCHANGED <<portFile, browser, session, cutShort>> BY <1>4 DEF Commit, Wander
  <2>2. i \in DOMAIN page /\ \E by : Moves(i, by) BY <1>4 DEF Commit, Wander
  <2>3. ASSUME NEW q \in Proc
        PROVE  (Polling(q)' <=> Polling(q)) /\ proc'[q].spawned = proc[q].spawned
    <3>1. proc[q] \in Process BY DEF Typed
    <3>2. /\ proc'[q].pc = proc[q].pc \/ (proc[q].pc = "navigating" /\ proc'[q].pc = "landed")
          /\ proc'[q] = [proc[q] EXCEPT !.pc = proc'[q].pc, !.conn = proc'[q].conn]
      BY <2>2, MovesOne
    <3>3. proc'[q].spawned = proc[q].spawned BY <3>1, <3>2 DEF Process
    <3>. QED BY <3>2, <3>3 DEF Polling
  <2>. QED BY <2>1, <2>3, NoLaunch
<1>5. ASSUME NEW b \in Browser, BrowserHangs(b) \/ BrowserDies(b) PROVE LaunchInv'
  <2>1. UNCHANGED <<portFile, session, proc, cutShort>> BY <1>5 DEF BrowserHangs, BrowserDies
  <2>2. \A c \in Browser : browser'[c] = browser[c] \/ browser'[c] \in {"hung", "dead"}
    BY <1>5 DEF BrowserHangs, BrowserDies, Dies, Typed
  <2>. QED BY <2>1, <2>2, NoLaunch DEF Polling
<1>6. ASSUME NEW b \in Browser, BrowserReports(b) PROVE LaunchInv'
  <2>1. UNCHANGED <<session, proc, cutShort>> /\ portFile' = b BY <1>6 DEF BrowserReports
  <2>2. \A c \in Browser : browser'[c] = IF c = b THEN "up" ELSE browser[c]
    BY <1>6 DEF BrowserReports, Typed
  <2>3. OnePolls' BY <2>1 DEF LaunchInv, OnePolls, Polling
  <2>4. PortIsReported' BY <2>1, <2>2 DEF PortIsReported
  <2>5. ASSUME ~cutShort, NEW p \in Proc, Polling(p) PROVE proc[p].spawned = b
    BY <1>6, <2>5 DEF BrowserReports, LaunchInv, NoStranger, OnePolls
  <2>6. NoStranger' BY <2>1, <2>2, <2>5 DEF LaunchInv, NoStranger, Polling
  <2>. QED BY <2>3, <2>4, <2>6 DEF LaunchInv
<1>. QED BY <1>1, <1>2, <1>3, <1>4, <1>5, <1>6

LEMMA InitLaunch == Init => LaunchInv
BY DEF Init, LaunchInv, OnePolls, PortIsReported, NoStranger, Polling, Fresh, NoSession

LEMMA NextLaunch ==
  ASSUME Typed, LaunchInv, [Next]_vars
  PROVE  LaunchInv'
<1>1. CASE UNCHANGED vars
  BY <1>1 DEF vars, LaunchInv, OnePolls, PortIsReported, NoStranger, Polling
<1>2. CASE Next
  BY <1>2, LaunchKeepsInv, OperateKeepsInv, OthersKeepInv DEF Next
<1>. QED BY <1>1, <1>2

\* The endpoint a launch writes into the record is that of the browser it
\* spawned, as long as no earlier launch in the directory was cut short.
THEOREM LaunchesReportTheirOwn == Spec => []LaunchReportsItsOwn
<1>1. LaunchInv => LaunchReportsItsOwn BY DEF LaunchInv, NoStranger, LaunchReportsItsOwn
<1>. QED BY <1>1, InitLaunch, NextLaunch, AlwaysTyped, PTL DEF Spec

-----------------------------------------------------------------------------
(***************************************************************************)
(* Policy.  An open that is under way was allowed by the policy of its      *)
(* process, which loaded, and no operation under way has a result yet.      *)
(***************************************************************************)
Underway == Connects \cup {"attach"}

Kept(r) ==
  /\ PolicyLoads(r.policy)
  /\ r.pc \in {"navigating", "landed"} => r.op.kind = "open"
  /\ r.pc = "reading" => r.op.kind \in {"open", "live"}
  /\ r.pc \in Underway => r.result = "none"
  /\ r.pc \in Underway /\ r.op.kind = "open" =>
       Allowed(Evaluate(BuildEvaluator(r.policy), r.op.url))

PolicyInv == \A p \in Proc : Kept(proc[p])

\* The steps with which an operation succeeds.
Succeeds(p) ==
  \/ Reads(p) /\ CheckNavigation(p, proc[p].chain) = "succeeded"
  \/ Screenshot(p)
  \/ Pressed(p)

\* A step of process p that leaves it as r.
StepTo(p, r) ==
  /\ proc' = [proc EXCEPT ![p] = r]
  /\ Kept(r)
  /\ r.result = "succeeded" => r.result = proc[p].result \/ Succeeds(p)

LEMMA Finishes ==
  ASSUME Typed, PolicyInv, NEW p \in Proc, NEW state,
         proc' = [proc EXCEPT ![p] = Finish(p, state)], state = "succeeded" => Succeeds(p)
  PROVE  \E r : StepTo(p, r)
<1>1. proc[p] \in Process /\ Kept(proc[p]) BY DEF Typed, PolicyInv
<1>2. Kept(Finish(p, state)) /\ Finish(p, state).result = state
  BY <1>1 DEF Kept, Finish, Process, Underway, Connects
<1>. QED BY <1>2 DEF StepTo

LEMMA StepsOfProcesses ==
  ASSUME Typed, PolicyInv, Next
  PROVE  \/ \A p \in Proc : Kept(proc'[p]) /\ proc'[p].result = proc[p].result
         \/ \E p \in Proc : \E r : StepTo(p, r)
<1>1. ASSUME NEW p \in Proc, Launch(p) PROVE \E r : StepTo(p, r)
  <2>0. proc[p] \in Process /\ Kept(proc[p]) BY DEF Typed, PolicyInv
  <2>1. CASE Spawn(p)
    <3>. DEFINE r == [proc[p] EXCEPT !.pc = "polling", !.spawned = Newborn]
    <3>1. proc' = [proc EXCEPT ![p] = r] BY <2>1 DEF Spawn, Typed
    <3>2. Kept(r) /\ r.result = proc[p].result BY <2>0 DEF Kept, Process, Underway, Connects
    <3>. QED BY <3>1, <3>2 DEF StepTo
  <2>2. CASE BackToIdle(p)
    <3>. DEFINE r == [proc[p] EXCEPT !.pc = "idle", !.spawned = NoBrowser]
    <3>1. proc' = [proc EXCEPT ![p] = r] BY <2>2 DEF BackToIdle, Typed
    <3>2. Kept(r) /\ r.result = proc[p].result BY <2>0 DEF Kept, Process, Underway, Connects
    <3>. QED BY <3>1, <3>2 DEF StepTo
  <2>. QED BY <1>1, <2>1, <2>2 DEF Launch, PollEndpoint, PollExited, LaunchTimeout
<1>2. ASSUME NEW p \in Proc, Operate(p) PROVE \E r : StepTo(p, r)
  <2>0. proc[p] \in Process /\ Kept(proc[p]) BY DEF Typed, PolicyInv
  <2>a. ASSUME NEW pc \in {"adopt", "drive"}, NEW c, proc[p].pc \in {"attach", "adopt"},
               proc' = [proc EXCEPT ![p].pc = pc, ![p].conn = c]
        PROVE  \E r : StepTo(p, r)
    <3>. DEFINE r == [proc[p] EXCEPT !.pc = pc, !.conn = c]
    <3>1. proc' = [proc EXCEPT ![p] = r] BY <2>a DEF Typed
    <3>2. Kept(r) /\ r.result = proc[p].result
      BY <2>0, <2>a DEF Kept, Process, Underway, Connects
    <3>. QED BY <3>1, <3>2 DEF StepTo
  <2>1. CASE Attach(p) \/ Adopted(p) BY <2>a, <2>1 DEF Attach, Adopted
  <2>2. CASE AttachFails(p)
    <3>. DEFINE r == [Fresh EXCEPT !.pc = "idle", !.policy = proc[p].policy,
                                   !.result = "failed"]
    <3>1. Kept(r) /\ r.result = "failed" BY <2>0 DEF Kept, Fresh, Underway, Connects
    <3>2. proc' = [proc EXCEPT ![p] = r] BY <2>2 DEF AttachFails
    <3>. QED BY <3>1, <3>2 DEF StepTo
  <2>3. CASE CallFails(p)
    <3>1. proc' = [proc EXCEPT ![p] = Finish(p, "failed")] BY <2>3 DEF CallFails
    <3>2. "failed" # "succeeded" OBVIOUS
    <3>. QED BY <3>1, <3>2, Finishes
  <2>4. CASE Navigated(p)
    <3>. DEFINE r == [proc[p] EXCEPT !.pc = "reading"]
    <3>1. proc' = [proc EXCEPT ![p] = r] BY <2>4 DEF Navigated, Typed
    <3>2. Kept(r) /\ r.result = proc[p].result
      BY <2>0, <2>4 DEF Kept, Process, Navigated, Underway, Connects
    <3>. QED BY <3>1, <3>2 DEF StepTo
  <2>5. CASE ReadUrl(p)
    <3>. DEFINE r == [proc[p] EXCEPT !.pc = "reading", !.chain = <<proc[p].conn.url>>]
    <3>1. proc' = [proc EXCEPT ![p] = r] BY <2>5 DEF ReadUrl, Typed
    <3>2. Kept(r) /\ r.result = proc[p].result
      BY <2>0, <2>5 DEF Kept, Process, ReadUrl, Drives, Underway, Connects
    <3>. QED BY <3>1, <3>2 DEF StepTo
  <2>11. CASE Reads(p) BY <2>11, Finishes DEF Reads, Succeeds
  <2>6. CASE Screenshot(p) BY <2>6, Finishes DEF Screenshot, Succeeds
  <2>7. CASE Pressed(p) BY <2>7, Finishes DEF Pressed, Succeeds
  <2>8. CASE PressKey(p)
    <3>. DEFINE r == [proc[p] EXCEPT !.rest = Tail(proc[p].rest)]
    <3>1. proc' = [proc EXCEPT ![p] = r] BY <2>8 DEF PressKey, Typed
    <3>2. Kept(r) /\ r.result = proc[p].result BY <2>0 DEF Kept, Process
    <3>. QED BY <3>1, <3>2 DEF StepTo
  <2>9. ASSUME NEW chain, Goto(p, chain) PROVE \E r : StepTo(p, r)
    <3>. DEFINE r == [proc[p] EXCEPT !.pc = "navigating", !.chain = chain]
    <3>1. proc' = [proc EXCEPT ![p] = r] BY <2>9 DEF Goto, Typed
    <3>2. Kept(r) /\ r.result = proc[p].result
      BY <2>0, <2>9 DEF Kept, Process, Goto, Drives, Underway, Connects
    <3>. QED BY <3>1, <3>2 DEF StepTo
  <2>10. ASSUME NEW left, NavigationFails(p, left) PROVE \E r : StepTo(p, r)
    <3>1. proc' = [proc EXCEPT ![p] = Finish(p, "failed")] BY <2>10 DEF NavigationFails
    <3>2. "failed" # "succeeded" OBVIOUS
    <3>. QED BY <3>1, <3>2, Finishes
  <2>. QED
    BY <1>2, <2>1, <2>2, <2>3, <2>4, <2>5, <2>6, <2>7, <2>8, <2>9, <2>10, <2>11
    DEF Operate
<1>3. ASSUME NEW p \in Proc, Exit(p) \/ Crash(p) PROVE \E r : StepTo(p, r)
  <2>1. Kept(Fresh) /\ Fresh.result # "succeeded"
    BY DEF Kept, Fresh, PolicyLoads, Underway, Connects
  <2>. QED BY <1>3, <2>1 DEF Exit, Crash, StepTo
<1>4. ASSUME NEW p \in Proc, NEW data, StartProcess(p, data) PROVE \E r : StepTo(p, r)
  <2>. DEFINE r == [Fresh EXCEPT !.pc = "idle", !.policy = data]
  <2>1. Kept(r) /\ r.result # "succeeded" BY <1>4 DEF Kept, Fresh, StartProcess, Underway, Connects
  <2>. QED BY <1>4, <2>1 DEF StartProcess, StepTo
<1>5. ASSUME NEW p \in Proc, NEW op \in Ops, Begin(p, op) PROVE \E r : StepTo(p, r)
  <2>. DEFINE on == [proc[p] EXCEPT !.pc = IF proc[p].conn = NoConn THEN "attach" ELSE "drive",
                                    !.driver = TRUE, !.op = op, !.rest = op.keys,
                                    !.result = "none"]
              off == [proc[p] EXCEPT !.result =
                        IF op.kind = "press" THEN "previewed" ELSE "denied"]
  <2>0. proc[p] \in Process /\ Kept(proc[p]) /\ proc[p].pc = "idle"
    BY <1>5 DEF Typed, PolicyInv, Begin
  <2>1. CASE GoesOn(p, op)
    <3>1. proc' = [proc EXCEPT ![p] = on] BY <1>5, <2>1 DEF Begin, Typed
    <3>2. op.kind = "open" => Allowed(Evaluate(BuildEvaluator(proc[p].policy), op.url))
      BY <2>1 DEF GoesOn, Evaluator
    <3>3. /\ on.policy = proc[p].policy /\ on.op = op /\ on.pc \in {"attach", "drive"}
          /\ on.result = "none"
      BY <2>0 DEF Process
    <3>. HIDE DEF on
    <3>4. Kept(on) BY <2>0, <3>2, <3>3 DEF Kept
    <3>. QED BY <3>1, <3>3, <3>4 DEF StepTo
  <2>2. CASE ~GoesOn(p, op)
    <3>1. proc' = [proc EXCEPT ![p] = off] BY <1>5, <2>2 DEF Begin, Typed
    <3>2. off.policy = proc[p].policy /\ off.pc = "idle" /\ off.result # "succeeded"
      BY <2>0 DEF Process
    <3>. HIDE DEF off
    <3>3. Kept(off) BY <2>0, <3>2 DEF Kept, Underway, Connects
    <3>. QED BY <3>1, <3>2, <3>3 DEF StepTo
  <2>. QED BY <2>1, <2>2
<1>6. ASSUME NEW p \in Proc, NEW left, EndSession(p, left) PROVE \E r : StepTo(p, r)
  <2>. DEFINE r == [proc[p] EXCEPT !.conn = NoConn, !.driver = FALSE]
  <2>1. proc' = [proc EXCEPT ![p] = r] BY <1>6 DEF EndSession, Typed
  <2>2. Kept(r) /\ r.result = proc[p].result BY DEF Kept, Process, Typed, PolicyInv
  <2>. QED BY <2>1, <2>2 DEF StepTo
<1>7. ASSUME NEW b \in Browser, BrowserReports(b) \/ BrowserHangs(b) \/ BrowserDies(b)
      PROVE  \A p \in Proc : Kept(proc'[p]) /\ proc'[p].result = proc[p].result
  BY <1>7 DEF BrowserReports, BrowserHangs, BrowserDies, PolicyInv
<1>8. ASSUME NEW i, Commit(i) \/ \E url \in Urls : Wander(i, url), NEW q \in Proc
      PROVE  Kept(proc'[q]) /\ proc'[q].result = proc[q].result
  <2>0. proc[q] \in Process /\ Kept(proc[q]) BY DEF Typed, PolicyInv
  <2>1. i \in DOMAIN page /\ \E by : Moves(i, by) BY <1>8 DEF Commit, Wander
  <2>2. /\ proc'[q].pc = proc[q].pc \/ (proc[q].pc = "navigating" /\ proc'[q].pc = "landed")
        /\ proc'[q] = [proc[q] EXCEPT !.pc = proc'[q].pc, !.conn = proc'[q].conn]
    BY <2>1, MovesOne
  <2>3. /\ proc'[q].policy = proc[q].policy /\ proc'[q].op = proc[q].op
        /\ proc'[q].result = proc[q].result
    BY <2>0, <2>2 DEF Process
  <2>. QED BY <2>0, <2>2, <2>3 DEF Kept, Underway, Connects
<1>. QED BY <1>1, <1>2, <1>3, <1>4, <1>5, <1>6, <1>7, <1>8 DEF Next

LEMMA InitPolicy == Init => PolicyInv
BY DEF Init, PolicyInv, Kept, Fresh, PolicyLoads, Underway, Connects

LEMMA NextPolicy ==
  ASSUME Typed, PolicyInv, [Next]_vars
  PROVE  PolicyInv'
<1>1. CASE UNCHANGED proc BY <1>1 DEF PolicyInv, Kept
<1>2. ASSUME NEW p \in Proc, NEW r, StepTo(p, r) PROVE PolicyInv'
  BY <1>2 DEF PolicyInv, Typed, StepTo, Kept
<1>3. ASSUME \A p \in Proc : Kept(proc'[p]) PROVE PolicyInv'
  BY <1>3 DEF PolicyInv, Kept
<1>. QED BY <1>1, <1>2, <1>3, StepsOfProcesses DEF vars

LEMMA RedirectsAreCounted ==
  ASSUME NEW data \in Policies \cup {NoData}, PolicyLoads(data)
  PROVE  BuildEvaluator(data).profile.redirects \in Nat
<1>1. CASE data = NoData
  BY <1>1 DEF BuildEvaluator, DefaultProfile, Profile, DefaultMaxRedirects
<1>2. CASE data # NoData
  <2>1. data.redirects \in Int BY <1>2, PoliciesAssumption DEF Data
  <2>. QED BY <1>2, <2>1 DEF BuildEvaluator, PolicyLoads, WellFormed, FromData, Profile
<1>. QED BY <1>1, <1>2

LEMMA ChainUrlsIsASequence ==
  ASSUME NEW S, NEW chain \in Seq(S)
  PROVE  \E T : ChainUrls(chain) \in Seq(T)
<1>. DEFINE moves == {i \in DOMAIN chain : i = 1 \/ chain[i] # chain[i - 1]}
            n == Cardinality(moves)
            nth(k) == CHOOSE i \in moves : Cardinality({j \in moves : j <= i}) = k
            T == {ChainUrls(chain)[k] : k \in 1..n}
<1>1. n \in Nat
  <2>1. DOMAIN chain = 1..Len(chain) /\ Len(chain) \in Nat BY LenProperties
  <2>2. IsFiniteSet(1..Len(chain)) BY <2>1, FS_Interval
  <2>3. IsFiniteSet(moves) BY <2>1, <2>2, FS_Subset
  <2>. QED BY <2>3, FS_CardinalityType
<1>2. ChainUrls(chain) = [k \in 1..n |-> chain[nth(k)]] BY DEF ChainUrls
<1>. HIDE DEF n, nth
<1>3. ChainUrls(chain) \in [1..n -> T] BY <1>2
<1>. QED BY <1>1, <1>3, SeqDef

\* Where a chain ends is among the URLs that are told of it.
LEMMA LastIsTold ==
  ASSUME NEW S, NEW chain \in Seq(S), chain # <<>>
  PROVE  \E k \in DOMAIN ChainUrls(chain) : ChainUrls(chain)[k] = chain[Len(chain)]
<1>. DEFINE moves == {i \in DOMAIN chain : i = 1 \/ chain[i] # chain[i - 1]}
            n == Cardinality(moves)
            upto(i) == {j \in moves : j <= i}
            nth(k) == CHOOSE i \in moves : Cardinality(upto(i)) = k
<1>1. DOMAIN chain = 1..Len(chain) /\ Len(chain) \in Nat /\ 1 \in DOMAIN chain
  BY LenProperties, EmptySeq
<1>2. IsFiniteSet(moves) /\ 1 \in moves /\ moves \subseteq 1..Len(chain)
  <2>1. IsFiniteSet(1..Len(chain)) BY <1>1, FS_Interval
  <2>. QED BY <1>1, <2>1, FS_Subset
<1>3. PICK m \in moves : \A i \in moves : i <= m
  <2>. DEFINE T == {Len(chain) - i : i \in moves}
  <2>1. T \subseteq Nat /\ T # {} BY <1>1, <1>2
  <2>. HIDE DEF T
  <2>2. PICK x \in T : \A y \in T : x <= y BY <2>1, LeastExists
  <2>. USE DEF T
  <2>3. PICK m \in moves : x = Len(chain) - m OBVIOUS
  <2>4. ASSUME NEW i \in moves PROVE i <= m
    <3>1. Len(chain) - m <= Len(chain) - i BY <2>2, <2>3
    <3>. HIDE DEF moves
    <3>2. i \in Nat /\ m \in Nat BY <1>2
    <3>. QED BY <1>1, <3>1, <3>2
  <2>. QED BY <2>4
<1>4. chain[Len(chain)] = chain[m]
  <2>. DEFINE T == {j \in m..Len(chain) : chain[j] # chain[m]}
  <2>1. SUFFICES ASSUME T # {} PROVE FALSE
    <3>1. Len(chain) \in m..Len(chain) BY <1>1, <1>2
    <3>. QED BY <3>1
  <2>2. T \subseteq Nat BY <1>1, <1>2
  <2>3. PICK j \in T : \A k \in T : j <= k
    <3>. HIDE DEF T
    <3>. QED BY <2>1, <2>2, LeastExists
  <2>4. j \in Nat /\ m \in Nat /\ j > m /\ m >= 1 /\ j <= Len(chain) BY <1>1, <1>2, <2>3
  <2>5. j - 1 \in m..Len(chain) /\ j - 1 \notin T BY <1>1, <2>3, <2>4
  <2>6. chain[j] # chain[j - 1] BY <2>3, <2>5
  <2>7. j \in moves BY <1>1, <2>4, <2>6
  <2>8. j <= m
    <3>. HIDE DEF moves, T
    <3>. QED BY <1>3, <2>7
  <2>. HIDE DEF moves, T
  <2>. QED BY <2>4, <2>8
<1>5. n \in Nat /\ n >= 1
  <2>1. n \in Nat BY <1>2, FS_CardinalityType
  <2>2. n # 0 BY <1>2, FS_EmptySet
  <2>. QED BY <2>1, <2>2
<1>6. upto(m) = moves BY <1>3
<1>7. ASSUME NEW i \in moves, Cardinality(upto(i)) = n PROVE i = m
  <2>1. upto(i) \subseteq moves OBVIOUS
  <2>2. upto(i) = moves
    <3>. HIDE DEF moves, upto
    <3>. QED BY <1>2, <1>7, <2>1, FS_Subset
  <2>3. m \in upto(i) BY <2>2
  <2>4. i \in Nat /\ m \in Nat /\ m <= i /\ i <= m BY <1>2, <1>3, <2>3
  <2>. QED BY <2>4
<1>8. nth(n) = m BY <1>6, <1>7
<1>9. ChainUrls(chain) = [k \in 1..n |-> chain[nth(k)]] BY DEF ChainUrls
<1>. HIDE DEF n, nth
<1>10. n \in 1..n BY <1>5
<1>. QED BY <1>4, <1>8, <1>9, <1>10

-----------------------------------------------------------------------------
(***************************************************************************)
(* Where the page of a connection is.  While it has not moved on, a         *)
(* navigation's page is where its chain ends, and any other page where its  *)
(* process last heard it was.                                               *)
(***************************************************************************)
OfNavigation(r) == r.pc = "landed" \/ (r.pc = "reading" /\ r.op.kind = "open")

\* Of process p, its record r and its page g.
Place(p, r, g) ==
  /\ r.pc = "navigating" => r.chain # <<>> /\ (g.by = p => g.going = r.chain)
  /\ OfNavigation(r) =>
       r.chain # <<>> /\ (g.open /\ ~r.conn.moved => g.at = r.chain[Len(r.chain)])
  /\ r.pc = "reading" /\ r.op.kind = "live" => r.chain = <<r.conn.url>>
  /\ r.conn # NoConn /\ r.pc # "navigating" /\ ~OfNavigation(r) /\ g.open /\ ~r.conn.moved =>
       r.conn.url = g.at

PlaceInv == \A p \in Proc : Place(p, proc[p], page[proc[p].conn.page])

\* A page that a step of another process, or of a browser, does not take elsewhere.
Steady(p, g, h) ==
  /\ h.open => g.open /\ h.at = g.at
  /\ h.by = p => g.by = p /\ h.going = g.going

LEMMA PlaceSteady ==
  ASSUME NEW p, NEW r, NEW g, NEW h, Place(p, r, g), Steady(p, g, h)
  PROVE  Place(p, r, h)
BY DEF Place, Steady, OfNavigation

LEMMA PlaceUnconnected ==
  ASSUME NEW p, NEW r, NEW g, r.conn = NoConn, r.pc \notin Connects
  PROVE  Place(p, r, g)
BY DEF Place, OfNavigation, Connects

\* A step that keeps the connection of a process that waits for no navigation.
LEMMA PlaceStays ==
  ASSUME NEW p, NEW r, NEW g, NEW n, NEW h, Place(p, r, g), Steady(p, g, h),
         n.conn = r.conn, r.pc # "navigating", ~OfNavigation(r),
         n.pc \notin {"navigating", "landed"},
         n.pc = "reading" => n.op.kind = "live" /\ n.chain = <<n.conn.url>>
  PROVE  Place(p, n, h)
BY DEF Place, Steady, OfNavigation

\* A call on the connection of p returns.
LEMMA PlaceHeard ==
  ASSUME Typed, NEW p \in Proc, proc[p].conn # NoConn, NEW n, NEW h,
         Place(p, proc[p], page[proc[p].conn.page]), Steady(p, page[proc[p].conn.page], h),
         n.conn = Heard(p), n.pc \in {"idle", "drive"}
  PROVE  Place(p, n, h)
<1>1. h.open => Alive(proc[p].conn.page) /\ h.at = page[proc[p].conn.page].at
  BY DEF Steady, Alive
<1>2. h.open => n.conn.url = h.at BY <1>1, HeardIsAConnection
<1>. QED BY <1>2 DEF Place, OfNavigation

LEMMA MovesPlace ==
  ASSUME Typed, PlaceInv, NEW i, Commit(i) \/ \E url \in Urls : Wander(i, url)
  PROVE  PlaceInv'
<1>0. i \in DOMAIN page /\ page[i] \in Page
  BY LenProperties, ElementOfSeq DEF Commit, Wander, Typed
<1>. SUFFICES ASSUME NEW q \in Proc PROVE Place(q, proc'[q], page'[proc'[q].conn.page])
  BY DEF PlaceInv, Place, OfNavigation
<1>. DEFINE r == proc[q]  n == proc'[q]  g == page[i]  h == page'[i]
<1>1. r \in Process /\ Fine(r, Len(page)) /\ Place(q, r, page[r.conn.page])
  BY DEF Typed, PlaceInv
<1>2. PICK by : Moves(i, by) /\ (Commit(i) => by = page[i].by) /\ (~Commit(i) => by = NoProc)
  BY DEF Commit, Wander
<1>3. /\ r.conn.page # i => n = r
      /\ r.conn.page = i => r.conn # NoConn /\ n.conn # NoConn
      /\ \/ n = r
         \/ /\ q = by /\ r.pc = "navigating"
            /\ n = [r EXCEPT !.pc = "landed", !.conn.moved = FALSE]
         \/ n = [r EXCEPT !.conn.moved = TRUE]
      /\ r.conn.page = i => (q = by /\ r.pc = "navigating") \/ n.conn.moved
      /\ n.conn = [r.conn EXCEPT !.moved = n.conn.moved]
      /\ \/ n.pc = r.pc
         \/ q = by /\ r.pc = "navigating" /\ n.pc = "landed" /\ r.conn.page = i
      /\ n = [r EXCEPT !.pc = n.pc, !.conn = n.conn]
  BY <1>0, <1>2, MovesOne
<1>4. r.conn \in Connection /\ n.conn.page = r.conn.page /\ n.conn.url = r.conn.url
  BY <1>1, <1>3 DEF Process, Connection, NoConn
<1>5. n.op = r.op /\ n.chain = r.chain BY <1>1, <1>3 DEF Process
<1>6. CASE r.conn.page # i
  <2>1. page'[r.conn.page] = page[r.conn.page] \/ r.conn.page \notin DOMAIN page
    BY <1>6 DEF Commit, Wander
  <2>2. CASE r.conn.page \in DOMAIN page
    BY <1>1, <1>3, <1>6, <2>1, <2>2
  <2>3. CASE r.conn.page \notin DOMAIN page
    <3>1. r.conn = NoConn /\ r.pc \notin Connects
      BY <1>1, <2>3, LenProperties DEF Fine, Typed
    <3>. QED BY <1>3, <1>6, <3>1, PlaceUnconnected
  <2>. QED BY <2>2, <2>3
<1>7. CASE r.conn.page = i /\ n.conn.moved /\ n.pc = r.pc
  <2>1. h.by = q => g.by = q /\ h.going = g.going
    <3>1. CASE Commit(i)
      <4>1. h.by = NoProc BY <1>0, <3>1 DEF Commit, Page
      <4>. QED BY <4>1, BackendAssumption
    <3>2. CASE ~Commit(i)
      <4>1. PICK url \in Urls : page' = [page EXCEPT ![i].at = url] BY <3>2 DEF Wander
      <4>. QED BY <1>0, <4>1 DEF Page
    <3>. QED BY <3>1, <3>2
  <2>2. Place(q, r, g) BY <1>1, <1>7
  <2>3. OfNavigation(n) <=> OfNavigation(r) BY <1>5, <1>7 DEF OfNavigation
  <2>. HIDE DEF n, r, g, h
  <2>4. Place(q, n, h) BY <1>4, <1>5, <1>7, <2>1, <2>2, <2>3 DEF Place
  <2>. QED BY <1>4, <1>7, <2>4 DEF n, r, h
<1>8. CASE r.conn.page = i /\ q = by /\ r.pc = "navigating" /\ n.pc = "landed"
  <2>1. Commit(i) /\ g.by = q BY <1>2, <1>8, BackendAssumption
  <2>2. r.chain # <<>> /\ g.going = r.chain BY <1>1, <1>8, <2>1 DEF Place
  <2>3. h.at = g.going[Len(g.going)] BY <1>0, <2>1 DEF Commit, Page
  <2>. HIDE DEF n, r, g, h
  <2>4. Place(q, n, h) BY <1>5, <1>8, <2>2, <2>3 DEF Place, OfNavigation
  <2>. QED BY <1>4, <1>8, <2>4 DEF n, r, h
<1>9. CASE r.conn.page = i /\ n.pc = r.pc /\ ~n.conn.moved
  <2>1. r.pc = "navigating" /\ q = by BY <1>3, <1>9
  <2>2. n = r \/ n.pc = "landed" \/ n.conn.moved
    <3>1. n = [r EXCEPT !.pc = "landed", !.conn.moved = FALSE] => n.pc = "landed"
      BY <1>1 DEF Process
    <3>2. n = [r EXCEPT !.conn.moved = TRUE] => n.conn.moved
      BY <1>1, <1>3, <1>9 DEF Process, Connection, NoConn
    <3>. QED BY <1>3, <3>1, <3>2
  <2>3. n # r
    <3>1. n = [r EXCEPT !.pc = "landed", !.conn.moved = FALSE]
      BY <1>2, <1>9, <2>1 DEF Moves
    <3>. QED BY <1>1, <2>1, <3>1 DEF Process
  <2>. QED BY <1>9, <2>1, <2>2, <2>3
<1>. QED BY <1>3, <1>6, <1>7, <1>8, <1>9

LEMMA SteadyDying ==
  ASSUME Typed, NEW b, NEW closed, Dies(b, closed), NEW q \in Proc, NEW i \in DOMAIN page
  PROVE  Steady(q, page[i], page'[i])
<1>1. page[i] \in Page BY LenProperties, ElementOfSeq DEF Typed
<1>2. page'[i] = IF i \in PagesOf(b) \cup closed THEN Closed(i) ELSE page[i] BY DEF Dies
<1>3. ~Closed(i).open /\ Closed(i).by = NoProc BY <1>1 DEF Closed, Page
<1>. QED BY <1>2, <1>3, BackendAssumption DEF Steady

LEMMA SteadyNavigating ==
  ASSUME Typed, NEW p \in Proc, NEW q \in Proc, NEW i \in DOMAIN page,
         \/ q # p /\ \E chain : Goto(p, chain)
         \/ q # p /\ \E left : NavigationFails(p, left)
  PROVE  Steady(q, page[i], page'[i])
<1>. DEFINE k == proc[p].conn.page
<1>1. page[i] \in Page BY LenProperties, ElementOfSeq DEF Typed
<1>2. ASSUME NEW chain, Goto(p, chain) PROVE Steady(q, page[i], page'[i])
  <2>1. page' = [page EXCEPT ![k].going = chain, ![k].by = p] BY <1>2 DEF Goto
  <2>2. CASE i = k
    <3>1. page'[i] = [page[i] EXCEPT !.going = chain, !.by = p] BY <2>1, <2>2
    <3>. QED BY <1>1, <3>1 DEF Page, Steady
  <2>3. CASE i # k BY <2>1, <2>3 DEF Steady
  <2>. QED BY <2>2, <2>3
<1>3. ASSUME NEW left, NavigationFails(p, left) PROVE Steady(q, page[i], page'[i])
  <2>1. /\ page' = [page EXCEPT ![k].going = left, ![k].by = IF @ = p THEN NoProc ELSE @]
        /\ page[k].by # p => left = page[k].going
    BY <1>3 DEF NavigationFails
  <2>2. CASE i = k
    <3>1. page'[i] = [page[i] EXCEPT !.going = left,
                                     !.by = IF page[i].by = p THEN NoProc ELSE page[i].by]
      BY <1>1, <2>1, <2>2 DEF Page
    <3>. QED BY <1>1, <2>1, <2>2, <3>1, BackendAssumption DEF Page, Steady
  <2>3. CASE i # k BY <2>1, <2>3 DEF Steady
  <2>. QED BY <2>2, <2>3
<1>. QED BY <1>2, <1>3

\* A step of process p.
LEMMA OneProcessPlace ==
  ASSUME Typed, PlaceInv, NEW p \in Proc, NEW r, proc' = [proc EXCEPT ![p] = r],
         Place(p, r, page'[r.conn.page]),
         \A q \in Proc \ {p} : \A i \in DOMAIN page : Steady(q, page[i], page'[i])
  PROVE  PlaceInv'
<1>1. ASSUME NEW q \in Proc PROVE Place(q, proc'[q], page'[proc'[q].conn.page])
  <2>1. CASE q = p BY <2>1 DEF Typed
  <2>2. CASE q # p
    <3>1. proc'[q] = proc[q] /\ Fine(proc[q], Len(page)) BY <2>2 DEF Typed
    <3>2. CASE proc[q].conn = NoConn
      <4>1. proc[q].pc \notin Connects BY <3>1, <3>2 DEF Fine
      <4>. QED BY <3>1, <3>2, <4>1, PlaceUnconnected
    <3>3. CASE proc[q].conn # NoConn
      <4>1. proc[q].conn.page \in DOMAIN page BY <3>1, <3>3, LenProperties DEF Fine, Typed
      <4>2. Place(q, proc[q], page[proc[q].conn.page]) BY DEF PlaceInv
      <4>3. Steady(q, page[proc[q].conn.page], page'[proc[q].conn.page]) BY <2>2, <4>1
      <4>. QED BY <3>1, <4>2, <4>3, PlaceSteady
    <3>. QED BY <3>2, <3>3
  <2>. QED BY <2>1, <2>2
<1>. QED BY <1>1 DEF PlaceInv, Place, OfNavigation

\* A step that changes only the pages, and takes none of them elsewhere.
LEMMA NoProcessPlace ==
  ASSUME Typed, PlaceInv, UNCHANGED proc,
         \A q \in Proc : \A i \in DOMAIN page : Steady(q, page[i], page'[i])
  PROVE  PlaceInv'
<1>1. ASSUME NEW q \in Proc PROVE Place(q, proc[q], page'[proc[q].conn.page])
  <2>1. Fine(proc[q], Len(page)) BY DEF Typed
  <2>2. CASE proc[q].conn = NoConn
    <3>1. proc[q].pc \notin Connects BY <2>1, <2>2 DEF Fine
    <3>. QED BY <2>2, <3>1, PlaceUnconnected
  <2>3. CASE proc[q].conn # NoConn
    <3>1. proc[q].conn.page \in DOMAIN page BY <2>1, <2>3, LenProperties DEF Fine, Typed
    <3>2. Place(q, proc[q], page[proc[q].conn.page]) BY DEF PlaceInv
    <3>. QED BY <3>1, <3>2, PlaceSteady
  <2>. QED BY <2>2, <2>3
<1>. QED BY <1>1 DEF PlaceInv, Place, OfNavigation

LEMMA OperatePlace ==
  ASSUME Typed, PolicyInv, PlaceInv, NEW p \in Proc, Operate(p)
  PROVE  PlaceInv'
<1>. DEFINE r == proc[p]  i == r.conn.page
<1>0. /\ r \in Process /\ Fine(r, Len(page)) /\ Kept(r) /\ Place(p, r, page[i])
      /\ r.pc \in Connects => r.conn # NoConn /\ i \in DOMAIN page /\ page[i] \in Page
  <2>1. r.pc \in Connects => i \in 1..Len(page) BY DEF Typed, Fine
  <2>. QED BY <2>1, LenProperties, ElementOfSeq DEF Typed, Fine, PolicyInv, PlaceInv
<1>1. \A q \in Proc : \A g : Steady(q, g, g) BY DEF Steady
<1>2. ASSUME NEW n, proc' = [proc EXCEPT ![p] = n], page' = page, Place(p, n, page[n.conn.page])
      PROVE  PlaceInv'
  <2>1. Place(p, n, page'[n.conn.page]) BY <1>2
  <2>2. \A q \in Proc : \A k \in DOMAIN page : Steady(q, page[k], page'[k]) BY <1>1, <1>2
  <2>. QED BY <1>2, <2>1, <2>2, OneProcessPlace
<1>3. ASSUME NEW state, r.pc \in Connects, proc' = [proc EXCEPT ![p] = Finish(p, state)],
             page' = page
      PROVE  PlaceInv'
  <2>1. Finish(p, state).conn = Heard(p) /\ Finish(p, state).pc = "idle"
    BY <1>0 DEF Finish, Process
  <2>2. Heard(p).page = i BY <1>0, <1>3, HeardIsAConnection
  <2>3. Place(p, Finish(p, state), page[i]) BY <1>0, <1>1, <1>3, <2>1, PlaceHeard
  <2>. QED BY <1>2, <1>3, <2>1, <2>2, <2>3
<1>4. CASE Attach(p)
  <2>. DEFINE b == session.endpoint
              k == IF Adoptable(b) = {} THEN Len(page) + 1 ELSE Oldest(Adoptable(b))
              c == Connected(b, k, page'[k].at)
              n == [r EXCEPT !.pc = "adopt", !.conn = c]
  <2>1. proc' = [proc EXCEPT ![p] = n] BY <1>4 DEF Attach, Typed
  <2>2. n.pc = "adopt" /\ n.conn = c BY <1>0 DEF Process
  <2>3. c.page = k /\ c.url = page'[k].at BY DEF Connected
  <2>. HIDE DEF n, c
  <2>4. Place(p, n, page'[n.conn.page]) BY <2>2, <2>3 DEF Place, OfNavigation
  <2>5. ASSUME NEW q \in Proc, NEW x \in DOMAIN page PROVE Steady(q, page[x], page'[x])
    <3>1. x \in 1..Len(page) BY LenProperties DEF Typed
    <3>2. page' = page \/ page' = Append(page, NewPage(session.endpoint)) BY <1>4 DEF Attach
    <3>3. page'[x] = page[x] BY <3>1, <3>2, AppendProperties DEF Typed
    <3>. QED BY <1>1, <3>3
  <2>. QED BY <2>1, <2>4, <2>5, OneProcessPlace
<1>5. CASE Adopted(p)
  <2>. DEFINE n == [r EXCEPT !.pc = "drive", !.conn = Heard(p)]
  <2>1. proc' = [proc EXCEPT ![p] = n] /\ page' = page BY <1>5 DEF Adopted, Typed
  <2>2. n.pc = "drive" /\ n.conn = Heard(p) BY <1>0 DEF Process
  <2>3. r.conn # NoConn BY <1>0, <1>5 DEF Adopted, Connects
  <2>4. Heard(p).page = i BY <2>3, HeardIsAConnection
  <2>. HIDE DEF n
  <2>5. Place(p, n, page[i]) BY <1>0, <1>1, <2>2, <2>3, PlaceHeard
  <2>. QED BY <1>2, <2>1, <2>2, <2>4, <2>5
<1>6. CASE AttachFails(p)
  <2>. DEFINE n == [Fresh EXCEPT !.pc = "idle", !.policy = proc[p].policy, !.result = "failed"]
  <2>1. proc' = [proc EXCEPT ![p] = n] /\ page' = page BY <1>6 DEF AttachFails
  <2>2. n.conn = NoConn /\ n.pc \notin Connects BY DEF Fresh, Connects
  <2>. HIDE DEF n
  <2>. QED BY <1>2, <2>1, <2>2, PlaceUnconnected
<1>7. CASE CallFails(p)
  <2>1. r.pc \in Connects BY <1>7 DEF CallFails, Drives, Connects
  <2>. QED BY <1>3, <1>7, <2>1 DEF CallFails
<1>8. CASE Reads(p) \/ Screenshot(p) \/ Pressed(p)
  <2>1. r.pc \in Connects BY <1>8 DEF Reads, Screenshot, Pressed, Drives, Connects
  <2>. QED BY <1>3, <1>8, <2>1 DEF Reads, Screenshot, Pressed
<1>9. CASE Navigated(p)
  <2>. DEFINE n == [r EXCEPT !.pc = "reading"]
  <2>1. proc' = [proc EXCEPT ![p] = n] /\ page' = page BY <1>9 DEF Navigated, Typed
  <2>2. n.pc = "reading" /\ n.conn = r.conn /\ n.chain = r.chain /\ n.op = r.op
    BY <1>0 DEF Process
  <2>3. r.pc = "landed" /\ r.op.kind = "open" BY <1>0, <1>9 DEF Navigated, Kept
  <2>. HIDE DEF n
  <2>4. Place(p, n, page[i]) BY <1>0, <2>2, <2>3 DEF Place, OfNavigation
  <2>. QED BY <1>2, <2>1, <2>2, <2>4
<1>10. CASE ReadUrl(p)
  <2>. DEFINE n == [r EXCEPT !.pc = "reading", !.chain = <<r.conn.url>>]
  <2>1. proc' = [proc EXCEPT ![p] = n] /\ page' = page BY <1>10 DEF ReadUrl, Typed
  <2>2. n.pc = "reading" /\ n.conn = r.conn /\ n.op = r.op /\ n.chain = <<r.conn.url>>
    BY <1>0 DEF Process
  <2>3. r.pc = "drive" /\ r.op.kind = "live" BY <1>10 DEF ReadUrl, Drives
  <2>. HIDE DEF n
  <2>4. Place(p, n, page[i])
    BY <1>0, <1>1, <2>2, <2>3, PlaceStays DEF OfNavigation
  <2>. QED BY <1>2, <2>1, <2>2, <2>4
<1>11. CASE PressKey(p)
  <2>. DEFINE n == [r EXCEPT !.rest = Tail(r.rest)]
  <2>1. proc' = [proc EXCEPT ![p] = n] /\ page' = page BY <1>11 DEF PressKey, Typed
  <2>2. n.pc = r.pc /\ n.conn = r.conn BY <1>0 DEF Process
  <2>3. r.pc = "drive" BY <1>11 DEF PressKey, Drives
  <2>. HIDE DEF n
  <2>4. Place(p, n, page[i]) BY <1>0, <1>1, <2>2, <2>3, PlaceStays DEF OfNavigation
  <2>. QED BY <1>2, <2>1, <2>2, <2>4
<1>12. ASSUME NEW chain \in Web, Goto(p, chain) PROVE PlaceInv'
  <2>. DEFINE n == [r EXCEPT !.pc = "navigating", !.chain = chain]
  <2>1. proc' = [proc EXCEPT ![p] = n] BY <1>12 DEF Goto, Typed
  <2>2. n.pc = "navigating" /\ n.conn = r.conn /\ n.chain = chain BY <1>0 DEF Process
  <2>3. i \in DOMAIN page /\ page[i] \in Page
    BY <1>0, <1>12 DEF Goto, Drives, Connects
  <2>4. page'[i].going = chain BY <1>12, <2>3 DEF Goto, Page
  <2>5. chain # <<>> BY UrlsAreSpots
  <2>. HIDE DEF n
  <2>6. Place(p, n, page'[n.conn.page]) BY <2>2, <2>4, <2>5 DEF Place, OfNavigation
  <2>7. \A q \in Proc \ {p} : \A k \in DOMAIN page : Steady(q, page[k], page'[k])
    BY <1>12, SteadyNavigating
  <2>. QED BY <2>1, <2>6, <2>7, OneProcessPlace
<1>13. ASSUME NEW left, NavigationFails(p, left) PROVE PlaceInv'
  <2>. DEFINE n == Finish(p, "failed")
  <2>1. proc' = [proc EXCEPT ![p] = n] BY <1>13 DEF NavigationFails
  <2>2. r.pc \in Connects BY <1>13 DEF NavigationFails, Connects
  <2>3. n.conn = Heard(p) /\ n.pc = "idle" BY <1>0 DEF Finish, Process
  <2>4. Heard(p).page = i BY <1>0, <2>2, HeardIsAConnection
  <2>5. Steady(p, page[i], page'[i])
    <3>1. page' = [page EXCEPT ![i].going = left, ![i].by = IF @ = p THEN NoProc ELSE @]
      BY <1>13 DEF NavigationFails
    <3>2. page'[i] = [page[i] EXCEPT !.going = left,
                                     !.by = IF page[i].by = p THEN NoProc ELSE page[i].by]
      BY <1>0, <2>2, <3>1 DEF Page
    <3>3. page'[i].by # p BY <1>0, <2>2, <3>2, BackendAssumption DEF Page
    <3>4. page'[i].open = page[i].open /\ page'[i].at = page[i].at
      BY <1>0, <2>2, <3>2 DEF Page
    <3>. QED BY <3>3, <3>4 DEF Steady
  <2>. HIDE DEF n
  <2>6. Place(p, n, page'[i]) BY <1>0, <2>2, <2>3, <2>5, PlaceHeard
  <2>7. \A q \in Proc \ {p} : \A k \in DOMAIN page : Steady(q, page[k], page'[k])
    BY <1>13, SteadyNavigating
  <2>. QED BY <2>1, <2>3, <2>4, <2>6, <2>7, OneProcessPlace
<1>. QED
  BY <1>4, <1>5, <1>6, <1>7, <1>8, <1>9, <1>10, <1>11, <1>12, <1>13 DEF Operate

LEMMA NextPlace ==
  ASSUME Typed, PolicyInv, PlaceInv, [Next]_vars
  PROVE  PlaceInv'
<1>1. \A q \in Proc : \A g : Steady(q, g, g) BY DEF Steady
<1>2. ASSUME UNCHANGED <<proc, page>> PROVE PlaceInv'
  BY <1>2, <1>1, NoProcessPlace
<1>3. ASSUME NEW p \in Proc, NEW n, proc' = [proc EXCEPT ![p] = n],
             \A q \in Proc : \A i \in DOMAIN page : Steady(q, page[i], page'[i]),
             n.conn = proc[p].conn, proc[p].pc \in {"idle", "polling"},
             n.pc \in {"idle", "polling", "attach", "drive"}
      PROVE  PlaceInv'
  <2>1. Fine(proc[p], Len(page)) /\ Place(p, proc[p], page[proc[p].conn.page])
    BY DEF Typed, PlaceInv
  <2>2. Place(p, n, page'[n.conn.page])
    <3>1. CASE proc[p].conn = NoConn BY <1>3, <3>1 DEF Place, OfNavigation
    <3>2. CASE proc[p].conn # NoConn
      <4>1. proc[p].conn.page \in DOMAIN page BY <2>1, <3>2, LenProperties DEF Fine, Typed
      <4>2. Steady(p, page[proc[p].conn.page], page'[proc[p].conn.page]) BY <1>3, <4>1
      <4>. QED BY <1>3, <2>1, <4>2, PlaceStays DEF OfNavigation
    <3>. QED BY <3>1, <3>2
  <2>. QED BY <1>3, <2>2, OneProcessPlace
<1>4. ASSUME NEW p \in Proc, NEW n, proc' = [proc EXCEPT ![p] = n],
             \A q \in Proc : \A i \in DOMAIN page : Steady(q, page[i], page'[i]),
             n.conn = NoConn, n.pc \in {"off", "idle"}
      PROVE  PlaceInv'
  <2>1. Place(p, n, page'[n.conn.page]) BY <1>4, PlaceUnconnected DEF Connects
  <2>. QED BY <1>4, <2>1, OneProcessPlace
<1>5. ASSUME NEW p \in Proc, Launch(p) PROVE PlaceInv'
  <2>0. proc[p] \in Process BY DEF Typed
  <2>1. CASE Spawn(p)
    <3>. DEFINE n == [proc[p] EXCEPT !.pc = "polling", !.spawned = Newborn]
    <3>1. proc' = [proc EXCEPT ![p] = n] /\ page' = page /\ proc[p].pc = "idle"
      BY <2>1 DEF Spawn, Typed
    <3>2. n.conn = proc[p].conn /\ n.pc = "polling" BY <2>0 DEF Process
    <3>. HIDE DEF n
    <3>. QED BY <1>1, <1>3, <3>1, <3>2
  <2>2. ASSUME BackToIdle(p), proc[p].pc = "polling",
               \A q \in Proc : \A i \in DOMAIN page : Steady(q, page[i], page'[i])
        PROVE  PlaceInv'
    <3>. DEFINE n == [proc[p] EXCEPT !.pc = "idle", !.spawned = NoBrowser]
    <3>1. proc' = [proc EXCEPT ![p] = n] BY <2>2 DEF BackToIdle, Typed
    <3>2. n.conn = proc[p].conn /\ n.pc = "idle" BY <2>0 DEF Process
    <3>. HIDE DEF n
    <3>. QED BY <1>3, <2>2, <3>1, <3>2
  <2>3. CASE PollEndpoint(p) BY <1>1, <2>2, <2>3 DEF PollEndpoint
  <2>4. CASE PollExited(p) BY <1>1, <2>2, <2>4 DEF PollExited
  <2>5. CASE LaunchTimeout(p)
    <3>1. \A q \in Proc : \A i \in DOMAIN page : Steady(q, page[i], page'[i])
      BY <2>5, SteadyDying DEF LaunchTimeout
    <3>. QED BY <2>2, <2>5, <3>1 DEF LaunchTimeout
  <2>. QED BY <1>5, <2>1, <2>3, <2>4, <2>5 DEF Launch
<1>6. ASSUME NEW p \in Proc, Exit(p) \/ Crash(p) PROVE PlaceInv'
  <2>1. proc' = [proc EXCEPT ![p] = Fresh] /\ page' = page BY <1>6 DEF Exit, Crash
  <2>2. Fresh.conn = NoConn /\ Fresh.pc = "off" BY DEF Fresh
  <2>. QED BY <1>1, <1>4, <2>1, <2>2
<1>7. ASSUME NEW p \in Proc, NEW data, StartProcess(p, data) PROVE PlaceInv'
  <2>. DEFINE n == [Fresh EXCEPT !.pc = "idle", !.policy = data]
  <2>1. proc' = [proc EXCEPT ![p] = n] /\ page' = page BY <1>7 DEF StartProcess
  <2>2. n.conn = NoConn /\ n.pc = "idle" BY DEF Fresh
  <2>. HIDE DEF n
  <2>. QED BY <1>1, <1>4, <2>1, <2>2
<1>8. ASSUME NEW p \in Proc, NEW op, Begin(p, op) PROVE PlaceInv'
  <2>. DEFINE on == [proc[p] EXCEPT !.pc = IF proc[p].conn = NoConn THEN "attach" ELSE "drive",
                                    !.driver = TRUE, !.op = op, !.rest = op.keys,
                                    !.result = "none"]
              off == [proc[p] EXCEPT !.result =
                        IF op.kind = "press" THEN "previewed" ELSE "denied"]
  <2>1. proc[p] \in Process /\ proc[p].pc = "idle" /\ page' = page BY <1>8 DEF Typed, Begin
  <2>2. proc' = [proc EXCEPT ![p] = on] \/ proc' = [proc EXCEPT ![p] = off]
    BY <1>8 DEF Begin, Typed
  <2>3. /\ on.conn = proc[p].conn /\ on.pc \in {"attach", "drive"}
        /\ off.conn = proc[p].conn /\ off.pc = "idle"
    BY <2>1 DEF Process
  <2>. HIDE DEF on, off
  <2>. QED BY <1>1, <1>3, <2>1, <2>2, <2>3
<1>9. ASSUME NEW p \in Proc, NEW left, EndSession(p, left) PROVE PlaceInv'
  <2>. DEFINE n == [proc[p] EXCEPT !.conn = NoConn, !.driver = FALSE]
  <2>1. proc' = [proc EXCEPT ![p] = n] /\ proc[p].pc = "idle" BY <1>9 DEF EndSession, Typed
  <2>2. n.conn = NoConn /\ n.pc = "idle" BY <2>1 DEF Process, Typed
  <2>3. \A q \in Proc : \A i \in DOMAIN page : Steady(q, page[i], page'[i])
    BY <1>9, SteadyDying DEF EndSession
  <2>. HIDE DEF n
  <2>. QED BY <1>4, <2>1, <2>2, <2>3
<1>10. ASSUME NEW b \in Browser, BrowserReports(b) \/ BrowserHangs(b) PROVE PlaceInv'
  BY <1>2, <1>10 DEF BrowserReports, BrowserHangs
<1>11. ASSUME NEW b \in Browser, BrowserDies(b) PROVE PlaceInv'
  <2>1. \A q \in Proc : \A i \in DOMAIN page : Steady(q, page[i], page'[i])
    BY <1>11, SteadyDying DEF BrowserDies
  <2>. QED BY <1>11, <2>1, NoProcessPlace DEF BrowserDies
<1>12. CASE UNCHANGED vars BY <1>2, <1>12 DEF vars
<1>. QED
  BY <1>5, <1>6, <1>7, <1>8, <1>9, <1>10, <1>11, <1>12, OperatePlace, MovesPlace DEF Next

LEMMA InitPlace == Init => PlaceInv
BY PlaceUnconnected DEF Init, PlaceInv, Fresh, Connects

\* A read that succeeds tells of nothing but what the policy of its process admits,
\* and so is the place of the page, if it has not moved.
LEMMA SuccessIsAdmitted ==
  ASSUME Typed, PolicyInv, PlaceInv, NEW p \in Proc, Reads(p),
         CheckNavigation(p, proc[p].chain) = "succeeded"
  PROVE  LET told == ChainUrls(proc[p].chain)
             conn == proc[p].conn
         IN  /\ \A i \in DOMAIN told : Admits(proc[p].policy, told[i])
             /\ Len(told) - 1 <= Evaluator(p).profile.redirects
             /\ Alive(conn.page) /\ ~conn.moved => Admits(proc[p].policy, page[conn.page].at)
<1>. DEFINE r == proc[p]
            data == r.policy
            evaluator == BuildEvaluator(data)
            told == ChainUrls(r.chain)
            at == page[r.conn.page].at
<1>0. /\ r \in Process /\ Fine(r, Len(page)) /\ Kept(r)
      /\ Place(p, r, page[r.conn.page]) /\ PolicyLoads(data)
      /\ data \in Policies \cup {NoData} /\ Evaluator(p) = evaluator /\ r.pc = "reading"
  BY DEF Typed, PolicyInv, PlaceInv, Kept, Process, Evaluator, Reads
<1>1. evaluator.profile.redirects \in Nat BY <1>0, RedirectsAreCounted
<1>2. r.chain \in Seq(Spot) BY <1>0 DEF Process
<1>3. r.chain # <<>>
      /\ (Alive(r.conn.page) /\ ~r.conn.moved => at = r.chain[Len(r.chain)])
  <2>1. CASE r.op.kind = "open" BY <1>0, <2>1 DEF Place, OfNavigation, Alive
  <2>2. CASE r.op.kind = "live"
    <3>1. r.conn # NoConn BY <1>0 DEF Fine, Connects
    <3>2. r.chain = <<r.conn.url>> BY <1>0, <2>2 DEF Place
    <3>3. Alive(r.conn.page) /\ ~r.conn.moved => r.conn.url = at
      BY <1>0, <2>2, <3>1 DEF Place, OfNavigation, Alive
    <3>. QED BY <3>2, <3>3
  <2>. QED BY <1>0, <2>1, <2>2 DEF Kept
<1>4. PICK T : told \in Seq(T) BY <1>2, ChainUrlsIsASequence
<1>5. PICK k \in DOMAIN told : told[k] = r.chain[Len(r.chain)] BY <1>2, <1>3, LastIsTold
<1>. HIDE DEF told
<1>6. \A i \in DOMAIN EvaluateRedirectChain(evaluator, told) :
        Allowed(EvaluateRedirectChain(evaluator, told)[i])
  BY <1>0 DEF CheckNavigation, told
<1>7. /\ \A i \in DOMAIN told : Allowed(Evaluate(evaluator, told[i]))
      /\ Len(told) - 1 <= evaluator.profile.redirects
  BY <1>1, <1>4, <1>6, ChainAllowedWhole
<1>8. \A i \in DOMAIN told : Admits(data, told[i])
  BY <1>0, <1>7, AllowedIsAdmitted
<1>. QED BY <1>0, <1>3, <1>5, <1>7, <1>8 DEF told

\* No process asks the browser for a URL its policy does not admit, or says that an
\* open or a live read succeeded which went through one or was redirected more often
\* than the policy allows; and the page it read was at a URL the policy admits,
\* unless the page had moved since its process heard where it was.
THEOREM OnlyAdmittedIsReported == Spec => ReportsOnlyWhatPolicyIntends
<1>1. ASSUME Typed, PolicyInv, PlaceInv, Next PROVE ReportsWhatPolicyIntends
  <2>1. ASSUME NEW p \in Proc, proc[p].pc = "navigating"
        PROVE  Admits(proc[p].policy, proc[p].op.url)
    BY <1>1, <2>1, AllowedIsAdmitted DEF PolicyInv, Kept, Underway, Connects
  <2>2. ASSUME NEW p \in Proc, proc[p].pc = "reading", proc'[p].result = "succeeded"
        PROVE  Reads(p) /\ CheckNavigation(p, proc[p].chain) = "succeeded"
    <3>1. proc[p].result = "none"
      BY <1>1, <2>2 DEF PolicyInv, Kept, Underway, Connects
    <3>2. PICK q \in Proc : \E r : StepTo(q, r) BY <1>1, <2>2, <3>1, StepsOfProcesses
    <3>3. Succeeds(p) BY <1>1, <2>2, <3>1, <3>2 DEF StepTo, Typed
    <3>. QED BY <2>2, <3>3 DEF Succeeds, Screenshot, Pressed, Drives
  <2>. QED BY <1>1, <2>1, <2>2, SuccessIsAdmitted DEF ReportsWhatPolicyIntends
<1>2. Typed /\ PolicyInv /\ PlaceInv /\ [Next]_vars => PlaceInv' BY NextPlace
<1>. QED BY <1>1, <1>2, InitPolicy, InitPlace, NextPolicy, AlwaysTyped, PTL
  DEF Spec, ReportsOnlyWhatPolicyIntends

-----------------------------------------------------------------------------
(***************************************************************************)
(* The page a process comes back to.  A page at about:blank is to a        *)
(* connecting process no page at all, so that a web that leads there can   *)
(* take the page last observed from the next process; the theorem is about *)
(* every other web.                                                        *)
(***************************************************************************)
LeadsNowhere == \E chain \in Web : \E k \in DOMAIN chain : chain[k] = Blank

Live(i) == page[i].open /\ page[i].at # Blank

Goings == Web \cup {<<>>, <<ErrorPage>>}

WorkInv ==
  /\ \A i \in DOMAIN page : page[i].going \in Goings
  /\ working # 0 => Live(working)
  /\ second \/ \A i, j \in DOMAIN page :
       Live(i) /\ Live(j) /\ page[i].of = page[j].of => i = j

\* A step on which no page comes to life.
LEMMA NoneComesToLife ==
  ASSUME Typed, WorkInv, second' = second,
         \A i \in DOMAIN page' : page'[i].going \in Goings,
         \A i \in DOMAIN page' : Live(i)' =>
           i \in DOMAIN page /\ Live(i) /\ page'[i].of = page[i].of,
         working' # 0 => Live(working)'
  PROVE  WorkInv'
<1>1. second' \/ \A i, j \in DOMAIN page' :
        Live(i)' /\ Live(j)' /\ page'[i].of = page'[j].of => i = j
  BY DEF WorkInv
<1>. QED BY <1>1 DEF WorkInv, Live

LEMMA PagesStay ==
  ASSUME Typed, WorkInv, UNCHANGED <<page, second, working>>
  PROVE  WorkInv'
BY DEF WorkInv, Live

LEMMA DyingKeepsWork ==
  ASSUME Typed, WorkInv, NEW b, NEW closed, Dies(b, closed), UNCHANGED second
  PROVE  WorkInv'
<1>. DEFINE going == PagesOf(b) \cup closed
<1>1. page' = [i \in DOMAIN page |-> IF i \in going THEN Closed(i) ELSE page[i]]
      /\ working' = (IF working \in going THEN 0 ELSE working)
  BY DEF Dies
<1>2. page \in Seq(Page) /\ DOMAIN page = 1..Len(page) /\ Len(page) \in Nat
      /\ working \in 0..Len(page)
  BY LenProperties DEF Typed
<1>. HIDE DEF going
<1>3. ASSUME NEW i \in DOMAIN page
      PROVE  /\ page[i] \in Page
             /\ Closed(i).going = <<>> /\ ~ Closed(i).open /\ Closed(i).of = page[i].of
  <2>1. page[i] \in Page BY <1>2
  <2>. QED BY <2>1 DEF Closed, Page
<1>4. DOMAIN page' = DOMAIN page BY <1>1
<1>5. ASSUME NEW i \in DOMAIN page'
      PROVE  /\ page'[i].going \in Goings
             /\ Live(i)' => Live(i) /\ i \notin going /\ page'[i].of = page[i].of
             /\ Live(i) /\ i \notin going => Live(i)'
  <2>1. CASE i \in going
    <3>1. page'[i] = Closed(i) BY <1>1, <1>4, <2>1
    <3>. QED BY <1>3, <1>4, <2>1, <3>1 DEF Live, Goings
  <2>2. CASE i \notin going
    <3>1. page'[i] = page[i] BY <1>1, <1>4, <2>2
    <3>. QED BY <1>4, <2>2, <3>1 DEF Live, WorkInv
  <2>. QED BY <2>1, <2>2
<1>6. ASSUME working' # 0 PROVE Live(working)'
  <2>1. working' = working /\ working \notin going /\ working # 0 BY <1>1, <1>6
  <2>2. working \in DOMAIN page' BY <1>2, <1>4, <2>1
  <2>3. Live(working) BY <2>1 DEF WorkInv
  <2>4. page'[working].open /\ page'[working].at # Blank BY <1>5, <2>1, <2>2, <2>3 DEF Live
  <2>. QED BY <2>1, <2>4 DEF Live
<1>. QED BY <1>4, <1>5, <1>6, NoneComesToLife

\* A step that sets off a navigation, or leaves one to go on.
LEMMA GoingKeepsWork ==
  ASSUME Typed, WorkInv, NEW i \in DOMAIN page, NEW going \in Goings, NEW by,
         page' = [page EXCEPT ![i].going = going, ![i].by = by],
         UNCHANGED <<working, second>>
  PROVE  WorkInv'
<1>1. page \in Seq(Page) /\ DOMAIN page = 1..Len(page) /\ working \in 0..Len(page)
      /\ Len(page) \in Nat
  BY LenProperties DEF Typed
<1>2. DOMAIN page' = DOMAIN page OBVIOUS
<1>3. ASSUME NEW j \in DOMAIN page
      PROVE  /\ page'[j].open = page[j].open /\ page'[j].at = page[j].at
             /\ page'[j].of = page[j].of /\ page'[j].going \in Goings
  <2>1. page[j] \in Page BY <1>1
  <2>2. CASE j = i
    <3>1. page'[j] = [page[j] EXCEPT !.going = going, !.by = by] BY <2>2
    <3>. QED BY <2>1, <3>1 DEF Page
  <2>3. CASE j # i
    <3>1. page'[j] = page[j] BY <2>3
    <3>. QED BY <3>1 DEF WorkInv
  <2>. QED BY <2>2, <2>3
<1>4. \A j \in DOMAIN page : Live(j)' <=> Live(j) BY <1>3 DEF Live
<1>5. ASSUME working' # 0 PROVE Live(working)'
  <2>1. working' = working /\ working \in DOMAIN page BY <1>1, <1>5
  <2>2. page'[working].open /\ page'[working].at # Blank
    BY <1>3, <1>5, <2>1 DEF WorkInv, Live
  <2>. QED BY <2>1, <2>2 DEF Live
<1>. QED BY <1>2, <1>3, <1>4, <1>5, NoneComesToLife

LEMMA AttachKeepsWork ==
  ASSUME Typed, WorkInv, NEW p \in Proc, Attach(p)
  PROVE  WorkInv'
<1>. DEFINE b == session.endpoint
<1>1. UNCHANGED <<working, second>> BY DEF Attach
<1>2. page \in Seq(Page) /\ DOMAIN page = 1..Len(page) /\ Len(page) \in Nat
      /\ working \in 0..Len(page)
  BY LenProperties DEF Typed
<1>3. CASE page' = page
  BY <1>1, <1>3, PagesStay DEF WorkInv
<1>4. CASE page' = Append(page, NewPage(b))
  <2>1. /\ DOMAIN page' = 1..Len(page) + 1 /\ page'[Len(page) + 1] = NewPage(b)
        /\ \A i \in 1..Len(page) : page'[i] = page[i]
    BY <1>2, <1>4
  <2>2. NewPage(b).at = Blank /\ NewPage(b).going = <<>> BY DEF NewPage
  <2>3. ASSUME NEW i \in DOMAIN page'
        PROVE  /\ page'[i].going \in Goings
               /\ Live(i)' => i \in DOMAIN page /\ Live(i) /\ page'[i].of = page[i].of
    <3>1. CASE i = Len(page) + 1 BY <2>1, <2>2, <3>1 DEF Live, Goings
    <3>2. CASE i # Len(page) + 1
      <4>1. i \in DOMAIN page /\ page'[i] = page[i] BY <1>2, <2>1, <3>2
      <4>. QED BY <4>1 DEF Live, WorkInv
    <3>. QED BY <3>1, <3>2
  <2>4. ASSUME working' # 0 PROVE Live(working)'
    <3>1. working' = working /\ working \in 1..Len(page) BY <1>1, <1>2, <2>4
    <3>2. page'[working] = page[working] BY <2>1, <3>1
    <3>. QED BY <2>4, <3>1, <3>2 DEF WorkInv, Live
  <2>. QED BY <1>1, <2>3, <2>4, NoneComesToLife
<1>. QED BY <1>3, <1>4 DEF Attach

\* A navigation that commits may bring a page to life; if another page of the
\* browser was alive, that is noted.
LEMMA CommitKeepsWork ==
  ASSUME ~ LeadsNowhere, Typed, WorkInv, NEW i, Commit(i)
  PROVE  WorkInv'
<1>1. page \in Seq(Page) /\ DOMAIN page = 1..Len(page) /\ Len(page) \in Nat
      /\ working \in 0..Len(page)
  BY LenProperties DEF Typed
<1>. DEFINE last == page[i].going[Len(page[i].going)]
<1>2. i \in DOMAIN page /\ page[i] \in Page /\ page[i].going # <<>>
  BY <1>1 DEF Commit
<1>3. last # Blank
  <2>1. page[i].going \in Web \cup {<<ErrorPage>>} BY <1>2 DEF WorkInv, Goings
  <2>2. CASE page[i].going \in Web
    <3>1. page[i].going \in Seq(Spot) BY <2>2, UrlsAreSpots
    <3>2. Len(page[i].going) \in DOMAIN page[i].going
      BY <1>2, <3>1, EmptySeq, LenProperties
    <3>. QED BY <2>2, <3>2 DEF LeadsNowhere
  <2>3. CASE page[i].going = <<ErrorPage>>
    <3>1. ErrorPage # Blank BY DEF ErrorPage, Blank, Nowhere
    <3>2. last = ErrorPage BY <2>3
    <3>. QED BY <3>1, <3>2
  <2>. QED BY <2>1, <2>2, <2>3
<1>4. /\ page' = [page EXCEPT ![i].at = last, ![i].going = <<>>, ![i].by = NoProc]
      /\ second' = (second \/ Adoptable(page[i].of) \ {i} # {})
      /\ working' = working
  BY DEF Commit
<1>. HIDE DEF last
<1>5. DOMAIN page' = DOMAIN page BY <1>4
<1>6. ASSUME NEW j \in DOMAIN page
      PROVE  /\ page'[j].of = page[j].of /\ page'[j].going \in Goings
             /\ j # i => page'[j] = page[j]
             /\ Live(j) => page'[j].open /\ page'[j].at # Blank
  <2>1. page[j] \in Page BY <1>1
  <2>2. CASE j = i
    <3>1. page'[j] = [page[j] EXCEPT !.at = last, !.going = <<>>, !.by = NoProc]
      BY <1>4, <2>2
    <3>. QED BY <1>3, <2>1, <2>2, <3>1 DEF Page, Goings, Live
  <2>3. CASE j # i
    <3>1. page'[j] = page[j] BY <1>4, <2>3
    <3>. QED BY <2>3, <3>1 DEF WorkInv, Live
  <2>. QED BY <2>2, <2>3
<1>7. ASSUME working' # 0 PROVE Live(working)'
  <2>1. working' = working /\ working \in DOMAIN page BY <1>1, <1>4, <1>7
  <2>2. Live(working) BY <1>7, <2>1 DEF WorkInv
  <2>3. page'[working].open /\ page'[working].at # Blank BY <1>6, <2>1, <2>2
  <2>. QED BY <2>1, <2>3 DEF Live
<1>8. ASSUME ~ second', NEW j \in DOMAIN page', NEW k \in DOMAIN page',
             Live(j)', Live(k)', page'[j].of = page'[k].of
      PROVE  j = k
  <2>1. ~ second /\ Adoptable(page[i].of) \subseteq {i} BY <1>4, <1>8
  <2>2. \A x \in DOMAIN page : x # i /\ Live(x) => page[x].of # page[i].of
    BY <2>1 DEF Adoptable, PagesOf, Live
  <2>3. \A x \in DOMAIN page : x # i /\ page'[x].open /\ page'[x].at # Blank => Live(x)
    BY <1>6 DEF Live
  <2>4. page'[j].open /\ page'[j].at # Blank /\ page'[k].open /\ page'[k].at # Blank
    BY <1>8 DEF Live
  <2>5. j \in DOMAIN page /\ k \in DOMAIN page /\ page[j].of = page[k].of
    BY <1>5, <1>6, <1>8
  <2>6. (j # i => Live(j)) /\ (k # i => Live(k)) BY <2>3, <2>4, <2>5
  <2>7. CASE j = i \/ k = i BY <1>2, <2>2, <2>5, <2>6, <2>7
  <2>8. CASE j # i /\ k # i BY <2>1, <2>5, <2>6, <2>8 DEF WorkInv
  <2>. QED BY <2>7, <2>8
<1>9. second' \/ \A j, k \in DOMAIN page' :
        Live(j)' /\ Live(k)' /\ page'[j].of = page'[k].of => j = k
  BY <1>8
<1>. QED BY <1>5, <1>6, <1>7, <1>9 DEF WorkInv, Live

LEMMA WanderKeepsWork ==
  ASSUME ~ LeadsNowhere, Typed, WorkInv, NEW i, NEW url \in Urls, Wander(i, url)
  PROVE  WorkInv'
<1>1. page \in Seq(Page) /\ DOMAIN page = 1..Len(page) /\ Len(page) \in Nat
      /\ working \in 0..Len(page)
  BY LenProperties DEF Typed
<1>2. url # Blank
  <2>1. PICK chain \in Web : url = chain[1] BY DEF Urls
  <2>2. chain \in Seq(Spot) /\ chain # <<>> BY UrlsAreSpots
  <2>3. 1 \in DOMAIN chain BY <2>2, EmptySeq, LenProperties
  <2>. QED BY <2>1, <2>3 DEF LeadsNowhere
<1>3. /\ i \in DOMAIN page /\ Live(i)
      /\ page' = [page EXCEPT ![i].at = url] /\ UNCHANGED <<working, second>>
  BY DEF Wander, Live, Alive
<1>4. DOMAIN page' = DOMAIN page BY <1>3
<1>5. ASSUME NEW j \in DOMAIN page
      PROVE  /\ page'[j].of = page[j].of /\ page'[j].going \in Goings
             /\ page'[j].open = page[j].open
             /\ (page'[j].at # Blank) <=> (page[j].at # Blank)
  <2>1. page[j] \in Page BY <1>1
  <2>2. CASE j = i
    <3>1. page'[j] = [page[j] EXCEPT !.at = url] BY <1>3, <2>2
    <3>. QED BY <1>2, <1>3, <2>1, <2>2, <3>1 DEF Page, WorkInv, Live
  <2>3. CASE j # i
    <3>1. page'[j] = page[j] BY <1>3, <2>3
    <3>. QED BY <3>1 DEF WorkInv
  <2>. QED BY <2>2, <2>3
<1>6. \A j \in DOMAIN page : Live(j)' <=> Live(j) BY <1>5 DEF Live
<1>7. ASSUME working' # 0 PROVE Live(working)'
  <2>1. working' = working /\ working \in DOMAIN page BY <1>1, <1>3, <1>7
  <2>2. page'[working].open /\ page'[working].at # Blank
    BY <1>5, <1>7, <2>1 DEF WorkInv, Live
  <2>. QED BY <2>1, <2>2 DEF Live
<1>. QED BY <1>3, <1>4, <1>5, <1>6, <1>7, NoneComesToLife

LEMMA OperateKeepsWork ==
  ASSUME Typed, WorkInv, NEW p \in Proc, Operate(p)
  PROVE  WorkInv'
<1>1. CASE Attach(p) BY <1>1, AttachKeepsWork
<1>2. CASE Adopted(p) \/ AttachFails(p) \/ CallFails(p) \/ Navigated(p) \/ ReadUrl(p)
             \/ PressKey(p)
  <2>1. UNCHANGED <<page, second, working>>
    BY <1>2 DEF Adopted, AttachFails, CallFails, Navigated, ReadUrl, PressKey
  <2>. QED BY <2>1, PagesStay DEF WorkInv
<1>3. ASSUME NEW state, Observed(p, state), UNCHANGED <<page, second>>
      PROVE  WorkInv'
  <2>1. working' # 0 => Live(working') BY <1>3 DEF Observed, WorkInv, Live, Alive
  <2>. QED BY <1>3, <2>1 DEF WorkInv, Live
<1>4. CASE Reads(p) BY <1>3, <1>4 DEF Reads
<1>5. CASE Screenshot(p) \/ Pressed(p) BY <1>3, <1>5 DEF Screenshot, Pressed
<1>6. proc[p].pc \in Connects => proc[p].conn.page \in DOMAIN page
  BY LenProperties DEF Typed, Fine
<1>7. ASSUME NEW chain \in Web, Goto(p, chain) PROVE WorkInv'
  BY <1>6, <1>7, GoingKeepsWork DEF Goto, Drives, Goings, Connects
<1>8. ASSUME NEW left \in Web \cup {<<>>, <<ErrorPage>>}, NavigationFails(p, left)
      PROVE  WorkInv'
  <2>. DEFINE i == proc[p].conn.page
  <2>1. i \in DOMAIN page BY <1>6, <1>8 DEF NavigationFails, Connects
  <2>2. page[i] \in Page BY <2>1, LenProperties, ElementOfSeq DEF Typed
  <2>3. \E by : page' = [page EXCEPT ![i].going = left, ![i].by = by]
    <3>1. page' = [page EXCEPT ![i].going = left, ![i].by = IF @ = p THEN NoProc ELSE @]
      BY <1>8 DEF NavigationFails
    <3>2. page' = [page EXCEPT ![i].going = left,
                               ![i].by = IF page[i].by = p THEN NoProc ELSE page[i].by]
      BY <2>1, <2>2, <3>1 DEF Page
    <3>. QED BY <3>2
  <2>4. UNCHANGED <<working, second>> BY <1>8 DEF NavigationFails
  <2>. QED BY <1>8, <2>1, <2>3, <2>4, GoingKeepsWork DEF Goings
<1>. QED BY <1>1, <1>2, <1>4, <1>5, <1>7, <1>8 DEF Operate

LEMMA NextWork ==
  ASSUME ~ LeadsNowhere, Typed, WorkInv, [Next]_vars
  PROVE  WorkInv'
<1>1. ASSUME UNCHANGED <<page, second, working>> PROVE WorkInv'
  BY <1>1, PagesStay DEF WorkInv
<1>2. ASSUME NEW p \in Proc, Launch(p) PROVE WorkInv'
  <2>1. CASE LaunchTimeout(p) BY <2>1, DyingKeepsWork DEF LaunchTimeout
  <2>2. CASE Spawn(p) \/ PollEndpoint(p) \/ PollExited(p)
    BY <1>1, <2>2 DEF Spawn, PollEndpoint, PollExited
  <2>. QED BY <1>2, <2>1, <2>2 DEF Launch
<1>3. ASSUME NEW p \in Proc,
             \/ Exit(p) \/ Crash(p)
             \/ \E data \in Policies : StartProcess(p, data)
             \/ \E op \in Ops : Begin(p, op)
      PROVE  WorkInv'
  BY <1>1, <1>3 DEF Exit, Crash, StartProcess, Begin
<1>4. ASSUME NEW p \in Proc, NEW left, EndSession(p, left) PROVE WorkInv'
  BY <1>4, DyingKeepsWork DEF EndSession
<1>5. ASSUME NEW b \in Browser, BrowserReports(b) \/ BrowserHangs(b) \/ BrowserDies(b)
      PROVE  WorkInv'
  <2>1. CASE BrowserReports(b) \/ BrowserHangs(b)
    BY <1>1, <2>1 DEF BrowserReports, BrowserHangs
  <2>2. CASE BrowserDies(b) BY <2>2, DyingKeepsWork DEF BrowserDies
  <2>. QED BY <1>5, <2>1, <2>2
<1>6. CASE UNCHANGED vars BY <1>1, <1>6 DEF vars
<1>. QED
  BY <1>2, <1>3, <1>4, <1>5, <1>6, OperateKeepsWork, CommitKeepsWork, WanderKeepsWork DEF Next

\* Who gets a connection gets it by attaching.
LEMMA ConnectsByAttaching ==
  ASSUME Typed, Next, NEW p \in Proc, proc[p].conn = NoConn, proc'[p].conn # NoConn
  PROVE  Attach(p)
<1>1. proc \in [Proc -> Process] BY DEF Typed
<1>2. \A q \in Proc : proc[q].pc \in Connects => proc[q].conn # NoConn
  BY DEF Typed, Fine
<1>3. Fresh.conn = NoConn BY DEF Fresh
<1>4. ASSUME NEW q \in Proc, Launch(q) PROVE FALSE
  <2>1. proc'[p].conn = proc[p].conn
    <3>1. CASE Spawn(q) BY <1>1, <3>1 DEF Spawn, Process
    <3>2. CASE BackToIdle(q) BY <1>1, <3>2 DEF BackToIdle, Process
    <3>. QED BY <1>4, <3>1, <3>2 DEF Launch, PollEndpoint, PollExited, LaunchTimeout
  <2>. QED BY <2>1
<1>5. ASSUME NEW q \in Proc, Operate(q), ~ Attach(p) PROVE FALSE
  <2>1. CASE Attach(q)
    <3>1. q # p BY <1>5, <2>1
    <3>2. proc'[p] = proc[p] BY <1>1, <2>1, <3>1 DEF Attach
    <3>. QED BY <3>2
  <2>2. CASE AttachFails(q)
    <3>1. [Fresh EXCEPT !.pc = "idle", !.policy = proc[q].policy,
                        !.result = "failed"].conn = NoConn
      BY DEF Fresh
    <3>. QED BY <1>1, <2>2, <3>1 DEF AttachFails
  <2>3. ASSUME NEW r, proc' = [proc EXCEPT ![q] = r], proc[q].pc \in Connects PROVE FALSE
    <3>1. q # p BY <1>2, <2>3
    <3>2. proc'[p] = proc[p] BY <1>1, <2>3, <3>1
    <3>. QED BY <3>2
  <2>4. proc[q].pc \in Connects \/ Attach(q) \/ AttachFails(q)
    BY <1>5 DEF Operate, Adopted, CallFails, Navigated, ReadUrl, Reads, Screenshot, PressKey,
                Pressed, Goto, NavigationFails, Drives, Connects
  <2>5. CASE Adopted(q) /\ proc[q].pc \in Connects
    BY <1>1, <1>2, <2>5 DEF Adopted, Process
  <2>6. CASE \/ CallFails(q) \/ Reads(q) \/ Screenshot(q) \/ Pressed(q)
             \/ \E left \in Web \cup {<<>>, <<ErrorPage>>} : NavigationFails(q, left)
    BY <2>1, <2>2, <2>3, <2>4, <2>6
    DEF CallFails, Reads, Screenshot, Pressed, NavigationFails
  <2>7. CASE PressKey(q) \/ Navigated(q) \/ ReadUrl(q)
    <3>1. proc[q].pc \in Connects
      BY <2>7 DEF PressKey, Navigated, ReadUrl, Drives, Connects
    <3>2. q # p BY <1>2, <3>1
    <3>3. proc'[p] = proc[p] BY <1>1, <2>7, <3>2 DEF PressKey, Navigated, ReadUrl
    <3>. QED BY <3>3
  <2>8. ASSUME NEW chain \in Web, Goto(q, chain) PROVE FALSE
    BY <1>1, <2>8 DEF Goto, Process
  <2>. QED BY <1>5, <2>1, <2>2, <2>4, <2>5, <2>6, <2>7, <2>8 DEF Operate, Adopted, Connects
<1>6. ASSUME NEW q \in Proc, Exit(q) \/ Crash(q) PROVE FALSE
  BY <1>1, <1>3, <1>6 DEF Exit, Crash
<1>7. ASSUME NEW q \in Proc, NEW data \in Policies, StartProcess(q, data) PROVE FALSE
  <2>1. [Fresh EXCEPT !.pc = "idle", !.policy = data].conn = NoConn BY DEF Fresh
  <2>. QED BY <1>1, <1>7, <2>1 DEF StartProcess
<1>8. ASSUME NEW q \in Proc, NEW op \in Ops, Begin(q, op) PROVE FALSE
  BY <1>1, <1>8 DEF Begin, Process
<1>9. ASSUME NEW q \in Proc, NEW left, EndSession(q, left) PROVE FALSE
  BY <1>1, <1>9 DEF EndSession, Process
<1>10. ASSUME UNCHANGED proc PROVE FALSE BY <1>10
<1>11. ASSUME NEW i, Commit(i) \/ \E url \in Urls : Wander(i, url) PROVE FALSE
  <2>1. i \in DOMAIN page /\ \E by : Moves(i, by) BY <1>11 DEF Commit, Wander
  <2>. QED BY <2>1, MovesOne
<1>. QED
  BY <1>4, <1>5, <1>6, <1>7, <1>8, <1>9, <1>10, <1>11
  DEF Next, BrowserReports, BrowserHangs, BrowserDies

\* Unless a second page of the browser came to life, a process that connects to
\* it takes up the page last observed or driven there, whoever launched the
\* browser, opened the page and went (the pages that attach takes up, about:blank
\* left out).
THEOREM TakesUpWorkingPage == ASSUME ~ LeadsNowhere PROVE Spec => ReattachesToWorkingPage
<1>1. ASSUME Typed, WorkInv, Next, ~ second PROVE Reattaches
  <2>. SUFFICES ASSUME NEW p \in Proc, proc[p].conn = NoConn, proc'[p].conn # NoConn,
                       working # 0, page[working].of = proc'[p].conn.browser
                PROVE  proc'[p].conn.page = working
    BY DEF Reattaches
  <2>1. Attach(p) BY <1>1, ConnectsByAttaching
  <2>. DEFINE b == session.endpoint
              fresh == Adoptable(b) = {}
              i == IF fresh THEN Len(page) + 1 ELSE Oldest(Adoptable(b))
              conn == Connected(b, i, page'[i].at)
  <2>2. proc'[p].conn.browser = b /\ proc'[p].conn.page = i
    <3>1. proc[p] \in Process /\ proc \in [Proc -> Process] BY <1>1 DEF Typed
    <3>2. proc' = [proc EXCEPT ![p].pc = "adopt", ![p].conn = conn] BY <2>1 DEF Attach
    <3>3. conn.browser = b /\ conn.page = i BY DEF Connected
    <3>. HIDE DEF conn
    <3>4. proc'[p].conn = conn BY <3>1, <3>2 DEF Process
    <3>. QED BY <3>3, <3>4
  <2>3. page[working].of = b BY <2>2
  <2>4. working \in DOMAIN page /\ Live(working)
    BY <1>1, LenProperties DEF WorkInv, Typed
  <2>5. Adoptable(b) = {working}
    <3>1. working \in Adoptable(b) BY <2>3, <2>4 DEF Adoptable, PagesOf, Live
    <3>2. ASSUME NEW j \in Adoptable(b) PROVE j = working
      BY <1>1, <2>3, <2>4 DEF Adoptable, PagesOf, Live, WorkInv
    <3>. QED BY <3>1, <3>2
  <2>6. Oldest({working}) = working
    <3>1. working <= working BY <1>1, LenProperties DEF Typed
    <3>. QED BY <3>1 DEF Oldest
  <2>. QED BY <2>2, <2>5, <2>6
<1>2. Init => WorkInv BY DEF Init, WorkInv
<1>. QED BY <1>1, <1>2, NextWork, AlwaysTyped, PTL DEF Spec, ReattachesToWorkingPage

=============================================================================
