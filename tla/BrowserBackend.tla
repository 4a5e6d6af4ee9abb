--------------------------- MODULE BrowserBackend ---------------------------
(***************************************************************************)
(* One browser session and the processes that drive it: a browser launched  *)
(* detached from its launcher, connections to it that processes keep and    *)
(* lose (webglass/adapters/playwright.py), and the service's policy checks  *)
(* around each operation (webglass/service.py, WebPolicy).                  *)
(*                                                                         *)
(* Browsers and pages are their own actors: a browser reports its endpoint  *)
(* when it is ready, a navigation commits when the server answers, a page   *)
(* may navigate itself, a browser may die or stop to answer.  A process may *)
(* die anywhere.  A process hears of its page only while it waits for a     *)
(* call to return; page.url is what it heard last.                          *)
(***************************************************************************)
EXTENDS WebPolicy, FiniteSets

CONSTANTS Proc, NoProc,
          Browser, NoBrowser,  \* the browser processes ever spawned
          Web,                 \* where a navigation may lead, by the URL asked for
          Policies,            \* the policy data invocations come with
          Keys,                \* the key sequences that may be pressed
          Limits, NoLimit,     \* an operation's own limit on redirects
          MaxPages, MaxOps, MaxWander   \* bounds

Urls == {chain[1] : chain \in Web}

ASSUME WebAssumption == Web \subseteq Seq(Url) \ {<<>>}
ASSUME PoliciesAssumption == Policies \subseteq Data \cup {NoData}
ASSUME KeysAssumption == Keys \subseteq Seq(STRING)
ASSUME BackendAssumption ==
  /\ MaxPages \in Nat /\ MaxOps \in Nat /\ MaxWander \in Nat
  /\ NoBrowser \notin Browser /\ NoProc \notin Proc
  /\ Limits \subseteq Nat \cup {NoLimit}

VARIABLES portFile,  \* the browser DevToolsActivePort is of
          browser,   \* "unborn", "starting", "up", "hung" or "dead"
          page,      \* every page there was, oldest first
          session,   \* the stored record: its endpoint and its process
          proc,      \* the processes
          ops,       \* how many operations were begun
          wanders,   \* how often a page navigated itself
          working,   \* the page last observed or driven; 0 for none
          cutShort,  \* whether a process died while it launched a browser
          second     \* whether a second page of a browser left about:blank

vars == <<portFile, browser, page, session, proc, ops, wanders,
          working, cutShort, second>>

Nowhere(scheme) == [shape |-> "whole", scheme |-> scheme, userinfo |-> FALSE,
                    host |-> NoHost, port |-> NoPort]
Blank == Nowhere("about")
ErrorPage == Nowhere("chrome-error")

NoSession == [endpoint |-> NoBrowser, pid |-> NoBrowser]
NoConn == [browser |-> NoBrowser, page |-> 0, url |-> Blank, moved |-> FALSE]
NoOp == [kind |-> "none", url |-> Blank, limit |-> NoLimit, keys |-> <<>>]

\* conn.url is where the process last heard its page is, conn.moved whether the
\* page has left the place since (the code does not keep this).
Fresh == [pc |-> "off", policy |-> NoData, spawned |-> NoBrowser, conn |-> NoConn,
          driver |-> FALSE, op |-> NoOp, chain |-> <<>>, rest |-> <<>>,
          result |-> "none"]

Init ==
  /\ portFile = NoBrowser
  /\ browser = [b \in Browser |-> "unborn"]
  /\ page = <<>>
  /\ session = NoSession
  /\ proc = [p \in Proc |-> Fresh]
  /\ ops = 0
  /\ wanders = 0
  /\ working = 0
  /\ cutShort = FALSE
  /\ second = FALSE

Evaluator(p) == BuildEvaluator(proc[p].policy)

-----------------------------------------------------------------------------
(***************************************************************************)
(* Launching.  The record's lock keeps launches of one session apart, and   *)
(* the death of a process lets go of it.                                    *)
(***************************************************************************)
Unborn == {b \in Browser : browser[b] = "unborn"}
Newborn == CHOOSE b \in Unborn : TRUE

\* An invocation starts, unless its policy data does not load.
StartProcess(p, data) ==
  /\ proc[p].pc = "off" /\ ops < MaxOps
  /\ PolicyLoads(data)
  /\ proc' = [proc EXCEPT ![p] = [Fresh EXCEPT !.pc = "idle", !.policy = data]]
  /\ UNCHANGED <<portFile, browser, page, session, ops, wanders, working,
                 cutShort, second>>

\* Mutant: the file a killed browser left behind stays.
SpawnWithoutUnlink(p) ==
  /\ proc[p].pc = "idle" /\ session = NoSession /\ Unborn # {} /\ ops < MaxOps
  /\ \A q \in Proc : proc[q].pc # "polling"
  /\ browser' = [browser EXCEPT ![Newborn] = "starting"]
  /\ ops' = ops + 1
  /\ proc' = [proc EXCEPT ![p].pc = "polling", ![p].spawned = Newborn]
  /\ UNCHANGED <<portFile, page, session, wanders, working, cutShort, second>>

\* The profile directory is prepared, an old report removed from it, and a
\* browser spawned.
Spawn(p) ==
  /\ proc[p].pc = "idle" /\ session = NoSession /\ Unborn # {} /\ ops < MaxOps
  /\ \A q \in Proc : proc[q].pc # "polling"
  /\ portFile' = NoBrowser
  /\ browser' = [browser EXCEPT ![Newborn] = "starting"]
  /\ ops' = ops + 1
  /\ proc' = [proc EXCEPT ![p].pc = "polling", ![p].spawned = Newborn]
  /\ UNCHANGED <<page, session, wanders, working, cutShort, second>>

BackToIdle(p) == proc' = [proc EXCEPT ![p].pc = "idle", ![p].spawned = NoBrowser]

\* A browser goes with its pages; closed are pages closed before.
PagesOf(b) == {i \in DOMAIN page : page[i].of = b}
Closed(i) == [page[i] EXCEPT !.open = FALSE, !.at = Blank, !.going = <<>>, !.by = NoProc]
Dies(b, closed) ==
  LET going == PagesOf(b) \cup closed
  IN  /\ browser' = [browser EXCEPT ![b] = "dead"]
      /\ page' = [i \in DOMAIN page |-> IF i \in going THEN Closed(i) ELSE page[i]]
      /\ working' = IF working \in going THEN 0 ELSE working

\* A poll that finds an endpoint; create then writes the record.
PollEndpoint(p) ==
  /\ proc[p].pc = "polling" /\ portFile # NoBrowser
  /\ session' = [endpoint |-> portFile, pid |-> proc[p].spawned]
  /\ BackToIdle(p)
  /\ UNCHANGED <<portFile, browser, page, ops, wanders, working, cutShort, second>>

PollExited(p) ==
  /\ proc[p].pc = "polling" /\ portFile = NoBrowser
  /\ browser[proc[p].spawned] = "dead"
  /\ BackToIdle(p)
  /\ UNCHANGED <<portFile, browser, page, session, ops, wanders, working,
                 cutShort, second>>

\* Mutant: a launch that is not answered is waited for.
NeverTimesOut(p) == FALSE /\ UNCHANGED vars

LaunchTimeout(p) ==
  /\ proc[p].pc = "polling"
  /\ Dies(proc[p].spawned, {})
  /\ BackToIdle(p)
  /\ UNCHANGED <<portFile, session, ops, wanders, cutShort, second>>

\* Of the browser: it reports its endpoint, or it goes.
BrowserReports(b) ==
  /\ browser[b] = "starting"
  /\ browser' = [browser EXCEPT ![b] = "up"]
  /\ portFile' = b
  /\ UNCHANGED <<page, session, proc, ops, wanders, working, cutShort, second>>

\* The browser, or a page of it that never lets go of its thread, no longer
\* answers.
BrowserHangs(b) ==
  /\ browser[b] = "up"
  /\ browser' = [browser EXCEPT ![b] = "hung"]
  /\ UNCHANGED <<portFile, page, session, proc, ops, wanders, working, cutShort, second>>

BrowserDies(b) ==
  /\ browser[b] \in {"starting", "up", "hung"}
  /\ Dies(b, {})
  /\ UNCHANGED <<portFile, session, proc, ops, wanders, cutShort, second>>

-----------------------------------------------------------------------------
(***************************************************************************)
(* Connections and pages.                                                  *)
(***************************************************************************)
Alive(i) == page[i].open

\* Mutant: the filter the wrong way round.
BlankOnly(b) == {i \in PagesOf(b) : page[i].open /\ page[i].at = Blank}

\* The pages of a browser that a connecting process may take for its own.
Adoptable(b) == {i \in PagesOf(b) : page[i].open /\ page[i].at # Blank}

NewPage(b) == [of |-> b, open |-> TRUE, at |-> Blank, going |-> <<>>, by |-> NoProc]

Oldest(S) == CHOOSE i \in S : \A j \in S : i <= j

Connected(b, i, url) == [browser |-> b, page |-> i, url |-> url, moved |-> FALSE]

\* The connection, when a call on it has returned.
Heard(p) ==
  LET conn == proc[p].conn
  IN  IF Alive(conn.page) THEN [conn EXCEPT !.url = page[conn.page].at, !.moved = FALSE]
      ELSE conn

Finish(p, state) ==
  [proc[p] EXCEPT !.pc = "idle", !.conn = Heard(p), !.op = NoOp, !.chain = <<>>,
                  !.rest = <<>>, !.result = state]

\* Whether the operation may go on to the browser.
GoesOn(p, op) ==
  CASE op.kind = "open" -> Allowed(Evaluate(Evaluator(p), op.url))
    [] op.kind = "press" -> PressFires(Evaluator(p).profile)
    [] OTHER -> TRUE

\* The lease keeps nobody out: every invocation of the command line has the same
\* holder name, and a lease may run out while an operation goes on.
Begin(p, op) ==
  /\ proc[p].pc = "idle" /\ session # NoSession /\ ops < MaxOps
  /\ ops' = ops + 1
  /\ proc' = [proc EXCEPT ![p] =
       IF GoesOn(p, op)
       THEN [@ EXCEPT !.pc = IF proc[p].conn = NoConn THEN "attach" ELSE "drive",
                      !.driver = TRUE, !.op = op, !.rest = op.keys, !.result = "none"]
       ELSE [@ EXCEPT !.result = IF op.kind = "press" THEN "previewed" ELSE "denied"]]
  /\ UNCHANGED <<portFile, browser, page, session, wanders, working, cutShort, second>>

\* The process connects, and finds its page or asks for a new one.
Attach(p) ==
  LET b == session.endpoint
      fresh == Adoptable(b) = {}
      i == IF fresh THEN Len(page) + 1 ELSE Oldest(Adoptable(b))
  IN  /\ proc[p].pc = "attach" /\ session # NoSession /\ browser[b] = "up"
      /\ fresh => Len(page) < MaxPages
      /\ page' = IF fresh THEN Append(page, NewPage(b)) ELSE page
      /\ proc' = [proc EXCEPT ![p].pc = "adopt",
                              ![p].conn = Connected(b, i, page'[i].at)]
      /\ UNCHANGED <<portFile, browser, session, ops, wanders, working,
                     cutShort, second>>

\* A call without a deadline returns: the browser answers, or it is gone.
Answers(p) == browser[proc[p].conn.browser] # "hung" \/ ~Alive(proc[p].conn.page)

\* The new page and the route are there.
Adopted(p) ==
  /\ proc[p].pc = "adopt" /\ Alive(proc[p].conn.page) /\ Answers(p)
  /\ proc' = [proc EXCEPT ![p].pc = "drive", ![p].conn = Heard(p)]
  /\ UNCHANGED <<portFile, browser, page, session, ops, wanders, working,
                 cutShort, second>>

\* Mutant: a driver that has no connection is left running.
AttachFailsHalfOpen(p) ==
  /\ proc[p].pc = "attach" \/ (proc[p].pc = "adopt" /\ Answers(p))
  /\ proc' = [proc EXCEPT ![p] =
       [Fresh EXCEPT !.pc = "idle", !.policy = proc[p].policy, !.driver = TRUE, !.result = "failed"]]
  /\ UNCHANGED <<portFile, browser, page, session, ops, wanders, working, cutShort, second>>

\* The record or its browser is gone, or does not answer in time, or the page is
\* gone: the driver that was started is stopped again and nothing is kept.
AttachFails(p) ==
  /\ proc[p].pc = "attach" \/ (proc[p].pc = "adopt" /\ Answers(p))
  /\ proc' = [proc EXCEPT ![p] =
       [Fresh EXCEPT !.pc = "idle", !.policy = proc[p].policy, !.result = "failed"]]
  /\ UNCHANGED <<portFile, browser, page, session, ops, wanders, working,
                 cutShort, second>>

-----------------------------------------------------------------------------
(***************************************************************************)
(* Operations, on the page the process is connected to.                    *)
(***************************************************************************)
Drives(p, kind) == proc[p].pc = "drive" /\ proc[p].op.kind = kind

\* A call raises: the page or its browser is gone, a screenshot takes too long, a
\* key has no such name, a response cannot be had.  The connection is kept.
CallFails(p) ==
  /\ \/ Drives(p, "open") /\ ~Alive(proc[p].conn.page)
     \/ Drives(p, "screenshot")
     \/ Drives(p, "press") /\ proc[p].rest # <<>> /\ Answers(p)
     \/ proc[p].pc = "reading" /\ proc[p].op.kind = "open" /\ Answers(p)
  /\ proc' = [proc EXCEPT ![p] = Finish(p, "failed")]
  /\ UNCHANGED <<portFile, browser, page, session, ops, wanders, working,
                 cutShort, second>>

\* A navigation takes the place of one that is under way on the page.
Goto(p, chain) ==
  LET i == proc[p].conn.page
  IN  /\ Drives(p, "open") /\ Alive(i) /\ chain \in Web /\ chain[1] = proc[p].op.url
      /\ page' = [page EXCEPT ![i].going = chain, ![i].by = p]
      /\ proc' = [proc EXCEPT ![p].pc = "navigating", ![p].chain = chain]
      /\ UNCHANGED <<portFile, browser, session, ops, wanders, working, cutShort, second>>

\* Page i shows another document: the one process `by` waits for has come, and to
\* every other process connected to it the page has moved.
Moves(i, by) ==
  proc' = [q \in Proc |->
    IF proc[q].conn.page # i THEN proc[q]
    ELSE IF q = by /\ proc[q].pc = "navigating"
    THEN [proc[q] EXCEPT !.pc = "landed", !.conn.moved = FALSE]
    ELSE [proc[q] EXCEPT !.conn.moved = TRUE]]

\* A navigation under way commits, whoever is still there to see it.
Commit(i) ==
  /\ i \in DOMAIN page /\ Alive(i) /\ page[i].going # <<>>
  /\ page' = [page EXCEPT ![i].at = page[i].going[Len(page[i].going)], ![i].going = <<>>,
                          ![i].by = NoProc]
  /\ Moves(i, page[i].by)
  /\ second' = (second \/ Adoptable(page[i].of) \ {i} # {})
  /\ UNCHANGED <<portFile, browser, session, ops, wanders, working, cutShort>>

\* A page's own script navigates it.
Wander(i, url) ==
  /\ i \in DOMAIN page /\ Alive(i) /\ page[i].at \notin {Blank, ErrorPage, url}
  /\ wanders < MaxWander /\ wanders' = wanders + 1
  /\ page' = [page EXCEPT ![i].at = url]
  /\ Moves(i, NoProc)
  /\ UNCHANGED <<portFile, browser, session, ops, working, cutShort, second>>

\* A chain without the hops that lead to the URL they are of.
ChainUrls(chain) ==
  LET moves == {i \in DOMAIN chain : i = 1 \/ chain[i] # chain[i - 1]}
      nth(k) == CHOOSE i \in moves : Cardinality({j \in moves : j <= i}) = k
  IN  [k \in 1..Cardinality(moves) |-> chain[nth(k)]]

\* Mutant: only where the chain ends is looked at.
CheckLastHop(p, chain) ==
  IF Allowed(Evaluate(Evaluator(p), chain[Len(chain)])) THEN "succeeded" ELSE "denied"

\* What becomes of an open the browser followed along this chain, and of a live
\* read, whose chain is the one URL.
CheckNavigation(p, chain) ==
  LET urls == ChainUrls(chain)
      verdicts == EvaluateRedirectChain(Evaluator(p), urls)
      limit == proc[p].op.limit
  IN  IF limit # NoLimit /\ Len(urls) - 1 > limit THEN "blocked"
      ELSE IF \A i \in DOMAIN verdicts : Allowed(verdicts[i]) THEN "succeeded"
      ELSE "denied"

\* What the operation leaves on the page is what a later process comes back to;
\* about:blank holds nothing.
Observed(p, state) ==
  LET i == proc[p].conn.page
  IN  working' = IF state = "succeeded" /\ Alive(i) /\ page[i].at # Blank THEN i ELSE working

\* goto returns, and the page is given time to settle.
Navigated(p) ==
  /\ proc[p].pc = "landed"
  /\ proc' = [proc EXCEPT ![p].pc = "reading"]
  /\ UNCHANGED <<portFile, browser, page, session, ops, wanders, working,
                 cutShort, second>>

\* goto raises.  No answer in time: what was under way goes on.  An error, or
\* another navigation came between: nothing comes of it, or an error page does.
NavigationFails(p, left) ==
  LET i == proc[p].conn.page
  IN  /\ proc[p].pc \in {"navigating", "landed"}
      /\ left \in IF page[i].by = p THEN {page[i].going, <<>>, <<ErrorPage>>}
                  ELSE {page[i].going}
      /\ page' = [page EXCEPT ![i].going = left, ![i].by = IF @ = p THEN NoProc ELSE @]
      /\ proc' = [proc EXCEPT ![p] = Finish(p, "failed")]
      /\ UNCHANGED <<portFile, browser, session, ops, wanders, working, cutShort, second>>

\* A live read looks up page.url, without a call.
ReadUrl(p) ==
  /\ Drives(p, "live")
  /\ proc' = [proc EXCEPT ![p].pc = "reading", ![p].chain = <<proc[p].conn.url>>]
  /\ UNCHANGED <<portFile, browser, page, session, ops, wanders, working,
                 cutShort, second>>

\* The responses and the page's content, as it stands now; of a page that is gone
\* it is empty.  What is judged is the chain, not the page.
Reads(p) ==
  LET state == CheckNavigation(p, proc[p].chain)
  IN  /\ proc[p].pc = "reading" /\ Answers(p)
      /\ proc' = [proc EXCEPT ![p] = Finish(p, state)]
      /\ Observed(p, state)
      /\ UNCHANGED <<portFile, browser, page, session, ops, wanders, cutShort, second>>

Screenshot(p) ==
  /\ Drives(p, "screenshot") /\ Alive(proc[p].conn.page) /\ Answers(p)
  /\ proc' = [proc EXCEPT ![p] = Finish(p, "succeeded")]
  /\ Observed(p, "succeeded")
  /\ UNCHANGED <<portFile, browser, page, session, ops, wanders, cutShort, second>>

PressKey(p) ==
  /\ Drives(p, "press") /\ proc[p].rest # <<>>
  /\ Alive(proc[p].conn.page) /\ Answers(p)
  /\ proc' = [proc EXCEPT ![p].rest = Tail(@)]
  /\ UNCHANGED <<portFile, browser, page, session, ops, wanders, working,
                 cutShort, second>>

\* The last key is down, and the page, if it is there, is given time to settle.
Pressed(p) ==
  /\ Drives(p, "press") /\ proc[p].rest = <<>>
  /\ proc' = [proc EXCEPT ![p] = Finish(p, "succeeded")]
  /\ Observed(p, "succeeded")
  /\ UNCHANGED <<portFile, browser, page, session, ops, wanders, cutShort, second>>

-----------------------------------------------------------------------------
(***************************************************************************)
(* Ends: of the session, of a process.                                     *)
(***************************************************************************)
\* The store stops the recorded process and may fail to remove its directory;
\* the process that closes drops its connection, others keep theirs.
EndSession(p, left) ==
  /\ proc[p].pc = "idle" /\ session # NoSession
  /\ left \in {portFile, NoBrowser}
  /\ portFile' = left
  /\ Dies(session.pid, {proc[p].conn.page} \ {0})
  /\ session' = NoSession
  /\ proc' = [proc EXCEPT ![p].conn = NoConn, ![p].driver = FALSE]
  /\ UNCHANGED <<ops, wanders, cutShort, second>>

\* The end of a process, of its own accord or not, drops its connection.
Exit(p) ==
  /\ proc[p].pc = "idle"
  /\ proc' = [proc EXCEPT ![p] = Fresh]
  /\ UNCHANGED <<portFile, browser, page, session, ops, wanders, working,
                 cutShort, second>>

Crash(p) ==
  /\ proc[p].pc \notin {"off", "idle"}
  /\ proc' = [proc EXCEPT ![p] = Fresh]
  /\ cutShort' = (cutShort \/ proc[p].pc = "polling")
  /\ UNCHANGED <<portFile, browser, page, session, ops, wanders, working, second>>

-----------------------------------------------------------------------------
Ops ==
  [kind : {"open"}, url : Urls, limit : Limits, keys : {<<>>}]
    \cup [kind : {"live", "screenshot"}, url : {Blank}, limit : {NoLimit}, keys : {<<>>}]
    \cup [kind : {"press"}, url : {Blank}, limit : {NoLimit}, keys : Keys]

Launch(p) ==
  Spawn(p) \/ PollEndpoint(p) \/ PollExited(p) \/ LaunchTimeout(p)

\* How an operation that reached the browser goes on.
Operate(p) ==
  \/ Attach(p) \/ Adopted(p) \/ AttachFails(p) \/ CallFails(p)
  \/ Navigated(p) \/ ReadUrl(p) \/ Reads(p)
  \/ Screenshot(p) \/ PressKey(p) \/ Pressed(p)
  \/ \E chain \in Web : Goto(p, chain)
  \/ \E left \in Web \cup {<<>>, <<ErrorPage>>} : NavigationFails(p, left)

Next ==
  \/ \E p \in Proc :
       \/ Launch(p) \/ Operate(p) \/ Exit(p) \/ Crash(p)
       \/ \E data \in Policies : StartProcess(p, data)
       \/ \E op \in Ops : Begin(p, op)
       \/ \E left \in Browser \cup {NoBrowser} : EndSession(p, left)
  \/ \E b \in Browser : BrowserReports(b) \/ BrowserHangs(b) \/ BrowserDies(b)
  \/ \E i \in 1..MaxPages : Commit(i) \/ (\E url \in Urls : Wander(i, url))

Spec == Init /\ [][Next]_vars

\* A process that is running goes on.  Polling, connecting, navigating and taking
\* a screenshot have deadlines: Operate is enabled whatever the browser does.  A
\* new page, a key, a response and the content have none: of these, nothing is
\* assumed while the browser does not answer.
FairSpec ==
  Spec /\ \A p \in Proc :
            WF_vars(Operate(p) \/ PollEndpoint(p) \/ PollExited(p) \/ LaunchTimeout(p))

-----------------------------------------------------------------------------
(***************************************************************************)
(* Properties.                                                             *)
(***************************************************************************)
TypeOK ==
  /\ portFile \in Browser \cup {NoBrowser}
  /\ browser \in [Browser -> {"unborn", "starting", "up", "hung", "dead"}]
  /\ session \in [endpoint : Browser, pid : Browser] \cup {NoSession}
  /\ \A p \in Proc :
       /\ proc[p].pc \in {"off", "idle", "polling", "attach", "adopt", "drive",
                           "navigating", "landed", "reading"}
       \* Nothing half open is kept: a driver runs for a connection, or for
       \* one that is being made.
       /\ proc[p].driver <=> (proc[p].conn # NoConn \/ proc[p].pc = "attach")
  /\ working \in 0..Len(page) /\ Len(page) <= MaxPages

\* A launch reports the endpoint of the browser it spawned and no other, as
\* long as no earlier launch in the directory was cut short.
LaunchReportsItsOwn == ~cutShort => session.endpoint = session.pid

\* A target of the policy data that names this URL, and one that names its host.
DeclaredBy(data, url) ==
  \E spec \in data.targets :
    /\ spec.host = url.host /\ spec.scheme \in {url.scheme, NoScheme}
    /\ \/ spec.port \in {AnyPort, EffectivePort(url)}
       \/ spec.port = NoPort /\ EffectivePort(url) = DefaultPort(url.scheme)
       \/ spec.port = NoPort /\ spec.scheme = NoScheme /\ EffectivePort(url) \in {80, 443}

\* A metadata endpoint, however its address is spelled.
IsMetadata(host) ==
  ClassOf(host) = "metadata" \/ (host.kind = "legacy" /\ ClassifyAddress(host.of) = "metadata")

\* What a policy says in its own words, whatever the order of the rules.
Intended(data, url) ==
  /\ PolicyLoads(data)
  /\ url.scheme \in (IF data = NoData THEN {"http", "https"}
                    ELSE data.allowed \ data.denied) \ MandatoryDeniedSchemes
  /\ ~url.userinfo
  /\ url.host # NoHost /\ ~IsMetadata(url.host)
  /\ \/ url.host.kind # "legacy" /\ ClassOf(url.host) = "public"
     \/ data # NoData /\ DeclaredBy(data, url)

\* What the code allows besides: the old numeric spelling of a metadata address,
\* to a policy with a target that spells it in the same way.
DisguisedMetadata(data, url) ==
  url.host.kind = "legacy" /\ IsMetadata(url.host) /\ data # NoData /\ DeclaredBy(data, url)

Admits(data, url) == Intended(data, url) \/ DisguisedMetadata(data, url)

\* A process asks the browser for no URL its policy does not admit.  It says that
\* an open or a live read succeeded only if the policy admits every URL it tells
\* of, with no more redirects than the policy allows.  The content it hands over
\* is then of a page the policy admits, unless the page moved: since the
\* navigation committed, or, for a live read, since the process last heard of it.
ReportsWhatPolicyIntends ==
  \A p \in Proc :
    LET data == proc[p].policy
        told == ChainUrls(proc[p].chain)
        conn == proc[p].conn
    IN  /\ proc[p].pc = "navigating" => Admits(data, proc[p].op.url)
        /\ proc[p].pc = "reading" /\ proc'[p].result = "succeeded" =>
             /\ \A i \in DOMAIN told : Admits(data, told[i])
             /\ Len(told) - 1 <= Evaluator(p).profile.redirects
             /\ Alive(conn.page) /\ ~conn.moved => Admits(data, page[conn.page].at)

ReportsOnlyWhatPolicyIntends == [][ReportsWhatPolicyIntends]_vars

\* A connecting process takes up the page last observed, while it is there.
Reattaches ==
  \A p \in Proc :
    proc[p].conn = NoConn /\ proc'[p].conn # NoConn /\ working # 0 =>
      \/ proc'[p].conn.page = working
      \/ page[working].of # proc'[p].conn.browser

\* ... as long as no other page of the browser came to life.
ReattachesToWorkingPage == [][second \/ Reattaches]_vars

\* A process is in a call that has no deadline, and nobody answers.
Waits(p) ==
  /\ \/ proc[p].pc \in {"adopt", "reading"}
     \/ Drives(p, "press") /\ proc[p].rest # <<>>
  /\ ~Answers(p)

\* Every operation and every launch ends, however the server, the pages or another
\* process behaves, unless it is left waiting for a browser that hangs; when that
\* browser dies, it ends.
OperationsEnd ==
  \A p \in Proc : []<>(proc[p].pc \in {"off", "idle"} \/ Waits(p))
=============================================================================
