-------------------------- MODULE OperationService --------------------------
(***************************************************************************)
(* WebGlassService.execute (src/webglass/service.py): the operations of    *)
(* one service object, executed by threads of their own, with the budget   *)
(* ledgers, the snapshot registry and the browser sessions they share.     *)
(*                                                                         *)
(* An operation is a sequence of phases (Plan): resolving a reference,     *)
(* navigating, reading the live page, projecting a snapshot, and so on.    *)
(* A phase goes through stages; every use of something shared (the clock,  *)
(* the cancellation handle, a session, a ledger, the registry) is a step.  *)
(* What a policy, an argument or a page decides is chosen freely.  An      *)
(* optional value of the code is a set of at most one element.             *)
(***************************************************************************)
EXTENDS Integers, Sequences, FiniteSets

CONSTANTS
  Op,          \* operations, each executed once
  Scope,       \* (caller, task, workspace) and limits: what a ledger is kept for
  Holder, NoHolder, \* lease holders "<caller>:<task>", and none
  HolderOf,    \* the holder of a scope
  Limit,       \* Limit[scope][dimension], optional
  Assigned,    \* the ways operations are given scopes: subset of [Op -> Scope]
  Sid, NoSid,  \* stored sessions; NoSid: an unstored one the operation mints
  Kinds,       \* the kinds of operation that come: DOMAIN Plan
  Guards,      \* how operations come: [timeout, handle], both optional in the code
  Sizes,       \* sizes of documents and payloads
  MaxRetained, \* DEFAULT_SNAPSHOT_RETENTION
  LeaseTTL,    \* DEFAULT_LEASE_TTL_SECONDS
  MaxTime      \* bound of the clock

Dimension ==
  {"requests", "transferred_bytes", "browser_seconds", "artifact_bytes", "estimated_tokens"}

\* The kinds of operation, by the way their target is given, and their phases.
\* "read" stands for page read, inspect, extract and links; a "shot" captures
\* a session, a URL or the session of a retained snapshot.
Plan ==
  [search    |-> <<"search">>,
   open      |-> <<"navigate">>,
   follow    |-> <<"resolve", "navigate">>,
   read      |-> <<"resolve", "project">>,
   read_url  |-> <<"navigate", "project">>,
   read_live |-> <<"observe", "project">>,
   shot      |-> <<"capture">>,
   shot_url  |-> <<"navigate", "capture">>,
   shot_ref  |-> <<"resolve", "capture">>,
   press     |-> <<"press">>]

References == {"follow", "read", "shot_ref"}       \* name a snapshot
Navigates == {"open", "follow", "read_url", "shot_url"}
Live == {"read_live", "shot"}     \* of a session that is named
InSession == Navigates \cup Live \cup {"press"} \* may name a session

ASSUME ServiceAssumption ==
  /\ IsFiniteSet(Op)
  /\ NoSid \notin Sid
  /\ Limit \in [Scope -> [Dimension -> SUBSET Nat]]
  /\ HolderOf \in [Scope -> Holder] /\ NoHolder \notin Holder
  /\ Assigned \subseteq [Op -> Scope]
  /\ Kinds \subseteq DOMAIN Plan
  /\ Guards \subseteq [timeout : SUBSET Nat, handle : BOOLEAN]
  /\ Sizes \subseteq Nat
  /\ MaxRetained \in Nat \ {0}
  /\ LeaseTTL \in Nat \ {0}
  /\ MaxTime \in Nat

VARIABLES
  clock,      \* wall-clock time
  session,    \* the stored sessions: whether active, and the lease
  ledger,     \* what every scope has spent
  retained,   \* the snapshot registry, oldest first
  run         \* every operation's progress

vars == <<clock, session, ledger, retained, run>>

Phases == {"resolve", "search", "navigate", "observe", "project", "capture", "press"}
\* "halted" stands for failed, denied, blocked and previewed.
Finals == {"succeeded", "halted", "cancelled", "timed_out"}
Stages ==
  Finals \cup Dimension \cup
  {"new", "preflight", "resolving", "attaching", "leasing", "reserving", "ready", "calling",
   "checking", "projecting", "storing"}

Session == [active : BOOLEAN, holder : Holder \cup {NoHolder}, until : Nat]
Entry == [id : Op, sid : Sid \cup {NoSid}]
Run ==
  [stage    : Stages,
   kind     : DOMAIN Plan,
   plan     : Seq(Phases),          \* the phases left, the current one first
   scope    : Scope,
   sid      : Sid \cup {NoSid},
   ref      : SUBSET Op,            \* the snapshot it names, by the operation that took it
   deadline : SUBSET Nat,
   handle   : BOOLEAN,              \* it can be cancelled
   cancelled : BOOLEAN,             \* its handle is set
   now      : Nat,                  \* the latest clock reading
   since    : SUBSET Nat,           \* the reading it leased the session with
   owed     : [Dimension -> Nat],   \* to be charged next
   used     : [Dimension -> Nat],   \* what it really consumed
   late     : Nat,                  \* backend calls begun cancelled or past the deadline
   cut      : BOOLEAN]              \* the last call came back cancelled or past it

Nothing == [d \in Dimension |-> 0]
NewRun(sc) ==
  [stage |-> "new", kind |-> "search", plan |-> <<>>, scope |-> sc, sid |-> NoSid, ref |-> {},
   deadline |-> {}, handle |-> FALSE, cancelled |-> FALSE, now |-> 0, since |-> {},
   owed |-> Nothing, used |-> Nothing, late |-> 0, cut |-> FALSE]

TypeOK ==
  /\ clock \in Nat
  /\ session \in [Sid -> Session]
  /\ ledger \in [Scope -> [Dimension -> Nat]]
  /\ retained \in Seq(Entry)
  /\ run \in [Op -> Run]

Init ==
  /\ clock = 0
  /\ session = [s \in Sid |-> [active |-> TRUE, holder |-> NoHolder, until |-> 0]]
  /\ ledger = [sc \in Scope |-> Nothing]
  /\ retained = <<>>
  /\ \E scopeOf \in Assigned : run = [o \in Op |-> NewRun(scopeOf[o])]

At(o, stage) == run[o].stage = stage
Phase(o) == Head(run[o].plan)
Becomes(o, r) == run' = [run EXCEPT ![o] = r]
Goes(o, stage) == run' = [run EXCEPT ![o].stage = stage]
Fits(sc, d, spent) == \A limit \in Limit[sc][d] : spent <= limit

-----------------------------------------------------------------------------
(* execute and _preflight *)

\* Where a phase begins.
FirstStage(r, phase) ==
  CASE phase = "resolve" -> "resolving"
    [] phase = "search"  -> "reserving"
    [] phase = "project" -> "projecting"
    [] phase = "navigate" /\ r.sid = NoSid -> "reserving"
    [] phase \in {"capture", "press"} /\ (r.sid = NoSid \/ r.kind = "shot_ref") -> "ready"
    [] OTHER -> "attaching"

\* The result is built: of the run, only what it consumed is still of interest.
Ended(r, lifecycle) ==
  [NewRun(r.scope) EXCEPT !.stage = lifecycle, !.used = r.used, !.cut = r.cut]

\* After the current phase: the next one, or the handler returns.
PhaseOver(r) ==
  IF Len(r.plan) = 1 THEN Ended(r, "succeeded")
  ELSE [r EXCEPT !.plan = Tail(@), !.stage = FirstStage(r, Head(Tail(r.plan)))]

\* The run begins and its deadline is fixed.
Execute(o, kind, sid, ref, guard) ==
  /\ At(o, "new")
  /\ sid # NoSid => kind \in InSession
  /\ kind \in Live => sid # NoSid
  /\ ref # {} <=> kind \in References
  /\ o \notin ref
  /\ Becomes(o, [run[o] EXCEPT !.stage = "preflight", !.kind = kind, !.plan = Plan[kind],
                               !.sid = sid, !.ref = ref,
                               !.handle = guard.handle,
                               !.deadline = {clock + t : t \in guard.timeout}])
  /\ UNCHANGED <<clock, session, ledger, retained>>

Ends(o, lifecycle) == Becomes(o, Ended(run[o], lifecycle))

Interrupted(o) == run[o].cancelled \/ \E t \in run[o].deadline : clock >= t

\* _step: cancellation comes first, then the deadline.
StepHalts(o) ==
  /\ At(o, "preflight") \/ At(o, "browser_seconds")
  /\ Interrupted(o)
  /\ Ends(o, IF run[o].cancelled THEN "cancelled" ELSE "timed_out")
  /\ UNCHANGED <<clock, session, ledger, retained>>

\* An unsupported kind, an argument or an adapter that is missing; a cache mode
\* or an effect class that is refused, after the first step boundary.
HaltsBeforeWork(o) ==
  /\ At(o, "preflight")
  /\ Ends(o, "halted")
  /\ UNCHANGED <<clock, session, ledger, retained>>

Dispatches(o) ==
  /\ At(o, "preflight")
  /\ ~Interrupted(o)
  /\ Goes(o, FirstStage(run[o], Phase(o)))
  /\ UNCHANGED <<clock, session, ledger, retained>>

-----------------------------------------------------------------------------
(* References *)

Evicted(entries) ==
  IF Len(entries) > MaxRetained THEN Tail(entries) ELSE entries

\* The registry is asked for the snapshot; a capture takes its session.
Resolve(o) ==
  /\ At(o, "resolving")
  /\ \E i \in 1 .. Len(retained) :
       /\ retained[i].id \in run[o].ref
       /\ Becomes(o, PhaseOver(IF run[o].kind = "shot_ref"
                                 THEN [run[o] EXCEPT !.sid = retained[i].sid] ELSE run[o]))
  /\ UNCHANGED <<clock, session, ledger, retained>>

\* Never retained, evicted, or a reference that is stale or names nothing: there
\* is no fetching behind a reference.
ResolveFails(o) ==
  /\ At(o, "resolving")
  /\ Ends(o, "halted")
  /\ UNCHANGED <<clock, session, ledger, retained>>

-----------------------------------------------------------------------------
(* Session and lease: _require_session *)

Attach(o) ==
  /\ At(o, "attaching")
  /\ session[run[o].sid].active
  /\ Becomes(o, [run[o] EXCEPT !.stage = "leasing", !.now = clock])
  /\ UNCHANGED <<clock, session, ledger, retained>>

NotActive(o) ==
  /\ At(o, "attaching")
  /\ ~session[run[o].sid].active
  /\ Ends(o, "halted")
  /\ UNCHANGED <<clock, session, ledger, retained>>

\* Wrong: a lease is taken from another holder that still has it.
RefusedIfEnded(s, holder, now) == ~session[s].active

LeaseRefused(s, holder, now) ==
  \/ ~session[s].active
  \/ session[s].holder \notin {NoHolder, holder} /\ session[s].until > now

TakeLease(o) ==
  LET s == run[o].sid
      holder == HolderOf[run[o].scope]
      now == run[o].now
  IN  /\ At(o, "leasing")
      /\ ~LeaseRefused(s, holder, now)
      /\ session' = [session EXCEPT ![s].holder = holder, ![s].until = now + LeaseTTL]
      /\ Becomes(o, [run[o] EXCEPT !.since = {now},
                       !.stage = IF Phase(o) = "navigate" THEN "reserving" ELSE "ready"])
      /\ UNCHANGED <<clock, ledger, retained>>

LeaseFails(o) ==
  /\ At(o, "leasing")
  /\ LeaseRefused(run[o].sid, HolderOf[run[o].scope], run[o].now)
  /\ Ends(o, "halted")
  /\ UNCHANGED <<clock, session, ledger, retained>>

-----------------------------------------------------------------------------
(* Budgets *)

\* A denied URL, or a policy that cannot be evaluated: nothing is reserved.
PolicyRefuses(o) ==
  /\ At(o, "reserving")
  /\ Phase(o) = "navigate"
  /\ Ends(o, "halted")
  /\ UNCHANGED <<clock, session, ledger, retained>>

Requests == {"search", "navigate"}   \* the phases that issue a request

\* The run is handed to the backend, without another look at the step boundary.
Issued(o) ==
  [run[o] EXCEPT !.stage = "calling", !.now = clock,
     !.late = IF Interrupted(o) THEN @ + 1 ELSE @,
     !.used["requests"] = IF Phase(o) \in Requests THEN @ + 1 ELSE @]

\* Wrong: room for one more is looked for with the wrong comparison.
ReserveOneTooMany(o) ==
  LET sc == run[o].scope IN
  /\ At(o, "reserving")
  /\ Fits(sc, "requests", ledger[sc]["requests"])
  /\ ledger' = [ledger EXCEPT ![sc]["requests"] = @ + 1]
  /\ Becomes(o, Issued(o))
  /\ UNCHANGED <<clock, session, retained>>

\* BudgetLedger.reserve: one request, if there is room for it; it is issued.
Reserve(o) ==
  LET sc == run[o].scope IN
  /\ At(o, "reserving")
  /\ Fits(sc, "requests", ledger[sc]["requests"] + 1)
  /\ ledger' = [ledger EXCEPT ![sc]["requests"] = @ + 1]
  /\ Becomes(o, Issued(o))
  /\ UNCHANGED <<clock, session, retained>>

ReserveRefused(o) ==
  LET sc == run[o].scope IN
  /\ At(o, "reserving")
  /\ ~Fits(sc, "requests", ledger[sc]["requests"] + 1)
  /\ Ends(o, "halted")
  /\ UNCHANGED <<clock, session, ledger, retained>>

\* The amounts ns are consumed and are to be charged.
Consumes(r, ns) ==
  [r EXCEPT !.owed = [d \in Dimension |-> IF d \in DOMAIN ns THEN ns[d] ELSE r.owed[d]],
            !.used = [d \in Dimension |-> IF d \in DOMAIN ns THEN r.used[d] + ns[d] ELSE r.used[d]]]

\* Wrong: the tokens of what a lens shows are forgotten.
AfterChargeNoTokens(r, d) ==
  LET phase == Head(r.plan) IN
  CASE d = "browser_seconds" /\ phase \in {"navigate", "observe"} -> [r EXCEPT !.stage = "checking"]
    [] d = "browser_seconds" /\ phase = "capture" -> [r EXCEPT !.stage = "storing"]
    [] d = "browser_seconds" /\ phase = "search" -> [r EXCEPT !.stage = "transferred_bytes"]
    [] d = "artifact_bytes" -> [r EXCEPT !.stage = "transferred_bytes"]
    [] OTHER -> PhaseOver(r)

\* What follows the charge of a dimension, which is also the name of its stage.
AfterCharge(r, d) ==
  LET phase == Head(r.plan) IN
  CASE d = "browser_seconds" /\ phase \in {"navigate", "observe"} -> [r EXCEPT !.stage = "checking"]
    [] d = "browser_seconds" /\ phase = "capture" -> [r EXCEPT !.stage = "storing"]
    [] d = "browser_seconds" /\ phase = "search" -> [r EXCEPT !.stage = "transferred_bytes"]
    [] d = "artifact_bytes" -> [r EXCEPT !.stage = "transferred_bytes"]
    [] d = "transferred_bytes" /\ phase # "capture" -> [r EXCEPT !.stage = "estimated_tokens"]
    [] OTHER -> PhaseOver(r)

\* Wrong: a charge that crosses the limit does not halt the operation.
ChargeAndGoOn(o, d) ==
  LET r == run[o]
      spent == ledger[r.scope][d] + r.owed[d]
      paid == [r EXCEPT !.owed[d] = 0]
  IN  /\ At(o, d) /\ d # "requests"
      /\ d = "browser_seconds" => ~Interrupted(o)
      /\ ledger' = [ledger EXCEPT ![r.scope][d] = spent]
      /\ Becomes(o, AfterCharge(paid, d))
      /\ UNCHANGED <<clock, session, retained>>

\* Wrong: the handler forgets the step boundary after the backend.
ChargeWithoutStep(o, d) ==
  LET r == run[o]
      n == r.owed[d]
      spent == ledger[r.scope][d] + n
      paid == [r EXCEPT !.owed[d] = 0]
  IN  /\ At(o, d) /\ d # "requests"
      /\ ledger' = [ledger EXCEPT ![r.scope][d] = spent]
      /\ Becomes(o, IF n = 0 \/ Fits(r.scope, d, spent) THEN AfterCharge(paid, d)
                     ELSE Ended(paid, "halted"))
      /\ UNCHANGED <<clock, session, retained>>

\* BudgetLedger.charge: recorded even when it crosses the limit, and then the
\* operation halts.  An amount of zero is not charged.  The step boundary after a
\* backend call comes before the charge of its seconds.
Charge(o, d) ==
  LET r == run[o]
      n == r.owed[d]
      spent == ledger[r.scope][d] + n
      paid == [r EXCEPT !.owed[d] = 0]
  IN  /\ At(o, d) /\ d # "requests"
      /\ d = "browser_seconds" => ~Interrupted(o)
      /\ ledger' = [ledger EXCEPT ![r.scope][d] = spent]
      /\ Becomes(o, IF n = 0 \/ Fits(r.scope, d, spent) THEN AfterCharge(paid, d)
                     ELSE Ended(paid, "halted"))
      /\ UNCHANGED <<clock, session, retained>>

-----------------------------------------------------------------------------
(* The backend *)

\* A call that issues no request.
Call(o) ==
  /\ At(o, "ready")
  /\ Becomes(o, Issued(o))
  /\ UNCHANGED <<clock, session, ledger, retained>>

\* Wrong: the seconds are taken the other way round.
BackendReturnsBefore(o) ==
  /\ At(o, "calling")
  /\ \E bytes, tokens \in IF Phase(o) = "search" THEN Sizes ELSE {0} :
       Becomes(o, [Consumes(run[o], [browser_seconds |-> run[o].now - clock,
                                     transferred_bytes |-> bytes, estimated_tokens |-> tokens])
                     EXCEPT !.stage = "browser_seconds", !.cut = Interrupted(o)])
  /\ UNCHANGED <<clock, session, ledger, retained>>

\* It came back; what a search found is shown.
BackendReturns(o) ==
  /\ At(o, "calling")
  /\ \E bytes, tokens \in IF Phase(o) = "search" THEN Sizes ELSE {0} :
       Becomes(o, [Consumes(run[o], [browser_seconds |-> clock - run[o].now,
                                     transferred_bytes |-> bytes, estimated_tokens |-> tokens])
                     EXCEPT !.stage = "browser_seconds", !.cut = Interrupted(o)])
  /\ UNCHANGED <<clock, session, ledger, retained>>

BackendRaises(o) ==
  /\ At(o, "calling")
  /\ Ends(o, "halted")
  /\ UNCHANGED <<clock, session, ledger, retained>>

\* A hop or the live URL was refused, the page was out of reach or too large.
PageRefused(o) ==
  /\ At(o, "checking")
  /\ Ends(o, "halted")
  /\ UNCHANGED <<clock, session, ledger, retained>>

\* Bytes and tokens of something the caller is shown.
Shows(o, r) ==
  \E bytes, tokens \in Sizes :
    Becomes(o, [Consumes(r, [transferred_bytes |-> bytes, estimated_tokens |-> tokens])
                  EXCEPT !.stage = "transferred_bytes"])

\* The snapshot is retained, unless the cache mode is no-store, before what it
\* costs is charged.
Retain(o) ==
  /\ At(o, "checking")
  /\ \E kept \in {<<>>, <<[id |-> o, sid |-> run[o].sid]>>} :
       retained' = Evicted(retained \o kept)
  /\ Shows(o, run[o])
  /\ UNCHANGED <<clock, session, ledger>>

\* A lens projects the snapshot the operation took or resolved.
Project(o) ==
  /\ At(o, "projecting")
  /\ Shows(o, run[o])
  /\ UNCHANGED <<clock, session, ledger, retained>>

\* A stale cursor, an unknown lens, a missing query, an unsupported selector.
ProjectFails(o) ==
  /\ At(o, "projecting")
  /\ Ends(o, "halted")
  /\ UNCHANGED <<clock, session, ledger, retained>>

StoreArtifact(o) ==
  /\ At(o, "storing")
  /\ \E size \in Sizes :
       Becomes(o, [Consumes(run[o], [artifact_bytes |-> size, transferred_bytes |-> size])
                     EXCEPT !.stage = "artifact_bytes"])
  /\ UNCHANGED <<clock, session, ledger, retained>>

\* The copy at the caller's path could not be written.
ArtifactWriteFails(o) ==
  /\ At(o, "storing")
  /\ Ends(o, "halted")
  /\ UNCHANGED <<clock, session, ledger, retained>>

-----------------------------------------------------------------------------
(* Around the operations *)

\* CancellationToken.cancel.  A handle that is set before the operation begins is
\* as one set right after.
Cancel(o) ==
  /\ run[o].handle /\ ~run[o].cancelled
  /\ run' = [run EXCEPT ![o].cancelled = TRUE]
  /\ UNCHANGED <<clock, session, ledger, retained>>

\* `session close` or a sweep, by anybody.
SessionEnds(s) ==
  /\ session[s].active
  /\ session' = [session EXCEPT ![s] = [active |-> FALSE, holder |-> NoHolder, until |-> 0]]
  /\ UNCHANGED <<clock, ledger, retained, run>>

Tick ==
  /\ clock < MaxTime
  /\ clock' = clock + 1
  /\ UNCHANGED <<session, ledger, retained, run>>

Begins(o) ==
  \/ \E kind \in Kinds, sid \in Sid \cup {NoSid}, ref \in {{}} \cup {{q} : q \in Op},
        guard \in Guards : Execute(o, kind, sid, ref, guard)
  \/ StepHalts(o) \/ HaltsBeforeWork(o) \/ Dispatches(o)

Prepares(o) ==
  \/ Resolve(o) \/ ResolveFails(o) \/ Attach(o) \/ NotActive(o)
  \/ TakeLease(o) \/ LeaseFails(o)
  \/ PolicyRefuses(o) \/ Reserve(o) \/ ReserveRefused(o)

Works(o) ==
  \/ Call(o) \/ BackendReturns(o) \/ BackendRaises(o)
  \/ PageRefused(o) \/ Retain(o) \/ Project(o) \/ ProjectFails(o)
  \/ StoreArtifact(o) \/ ArtifactWriteFails(o)
  \/ \E d \in Dimension : Charge(o, d)

Next ==
  \/ \E o \in Op : Begins(o) \/ Prepares(o) \/ Works(o) \/ Cancel(o)
  \/ \E s \in Sid : SessionEnds(s)
  \/ Tick

Spec == Init /\ [][Next]_vars

-----------------------------------------------------------------------------
(* Properties *)

Of(sc) == {o \in Op : run[o].scope = sc}
Succeeded(sc) == {o \in Of(sc) : At(o, "succeeded")}

\* The sum of the amounts of some operations: each has as many units as its amount.
Units(amount, ops) == UNION {{o} \X (1 .. amount[o]) : o \in ops}
Total(amount, ops) == Cardinality(Units(amount, ops))
TotalUsed(ops, d) == Total([o \in Op |-> run[o].used[d]], ops)

\* However operations of a scope interleave, and whatever becomes of them, no
\* more requests are issued than the scope was given.  (BudgetLedger.reserve)
RequestsWithinBudget ==
  \A sc \in Scope : Fits(sc, "requests", TotalUsed(Of(sc), "requests"))

\* Exhaustion is never a success: what the succeeded operations of a scope
\* consumed together is within every limit.  A single operation may cross one,
\* but then it does not succeed.  (BudgetLedger.charge, _halt_budget)
SuccessesFitBudget ==
  \A sc \in Scope, d \in Dimension : Fits(sc, d, TotalUsed(Succeeded(sc), d))

\* The ledger holds all that succeeded operations consumed, and nothing that no
\* operation consumed: nothing is charged twice or lost.  (_charge, _charge_observation)
LedgerMatchesUse ==
  \A sc \in Scope, d \in Dimension :
    /\ ledger[sc][d] >= TotalUsed(Succeeded(sc), d)
    /\ ledger[sc][d] <= TotalUsed(Of(sc), d)

\* An operation that was cancelled or out of time when its last backend call
\* came back does not succeed; a deadline reached exactly is missed.  (_step)
NoSuccessWhenCut == \A o \in Op : At(o, "succeeded") => ~run[o].cut

\* Once cancelled or out of time, an operation starts at most the one backend
\* call it had already decided on.  (_step after every backend interaction)
AtMostOneLateCall == \A o \in Op : run[o].late <= 1

Drives(o, s) == At(o, "calling") /\ run[o].sid = s
TwoTasksDrive(o, q) ==
  /\ HolderOf[run[o].scope] # HolderOf[run[q].scope]
  /\ \E s \in Sid : Drives(o, s) /\ Drives(q, s)
RanOut(o) == \E t \in run[o].since : clock >= t + LeaseTTL
Unleased(o) == run[o].since = {}

\* No other operation is of this one's task.
Alone(o) == \A p \in Op \ {o} : HolderOf[run[p].scope] # HolderOf[run[o].scope]

\* Two tasks of one operation each drive one stored session at once only after a
\* lease ran out under its operation, or where one of them captures a retained
\* snapshot's session.  A second operation of the same task may renew the lease
\* with an older clock reading, which shortens it.  (_require_session,
\* _lease_holder)
TasksKeepApart ==
  \A o, q \in Op :
    TwoTasksDrive(o, q) /\ Alone(o) /\ Alone(q) => \E r \in {o, q} : RanOut(r) \/ Unleased(r)

\* "one caller's two concurrent tasks must not drive the same live browser
\* session at once", while their leases last.  A capture by reference takes
\* none.  (_lease_holder, _screenshot_session)
TasksNeverShare ==
  \A o, q \in Op : TwoTasksDrive(o, q) => \E r \in {o, q} : RanOut(r)

=============================================================================
