---------------------------- MODULE SessionFlow ----------------------------
(***************************************************************************)
(* What a command-line invocation does about its browser session, from     *)
(* provisioning (src/webglass/cli/_factory.py) through the operation       *)
(* (src/webglass/service.py) to the end of a throwaway session, with       *)
(* several invocations at work on one store.                               *)
(*                                                                         *)
(* Every call of the store is one step and follows SessionRecord; waiting  *)
(* for the lock shows as a clock reading that is old when it is used.      *)
(* What an invocation holds in its hands between two calls (the candidates *)
(* it listed, the records it is going to sweep) is in inv.  All leases are *)
(* taken under the one name of the command line.                           *)
(***************************************************************************)
EXTENDS SessionRecord

CONSTANTS
  Sid, NoSid, \* session ids, and none
  Proc,       \* places for invocations, one at a time in each
  Cli,        \* "cli:cli", the lease holder of every invocation
  Flow,       \* values of WEBGLASS_SESSION_OWNER
  Anonymous,  \* the owner token minted for one throwaway session
  NoToken,    \* the empty owner token
  Unborn,     \* owner of an id not minted yet
  TTL,        \* _EPHEMERAL_SESSION_TTL_SECONDS
  TTLs,       \* lifetimes `session create` is asked for
  MinTTL,     \* a bound below all of them
  ReuseLimit, \* REUSE_CANDIDATE_LIMIT
  Openings,   \* the kinds of invocation that come: OpeningKinds
  Breaks,     \* how they may be cut short: BreakKinds
  MaxTime, MaxGeneration   \* bounds of the clock and of the counter

OpeningKinds == {"anonymous", "flow", "given", "create", "clean"}
BreakKinds == {"kill", "interrupt"}

ASSUME FlowAssumption ==
  /\ Cli \in Holder
  /\ NoSid \notin Sid
  /\ Anonymous \notin Flow \cup {NoToken}
  /\ NoToken \notin Flow
  /\ Unborn \notin Flow \cup {Anonymous, NoToken}
  /\ TTL \in Nat /\ TTLs \subseteq Nat /\ MinTTL \in Nat
  /\ \A ttl \in TTLs \cup {TTL} : MinTTL <= ttl
  /\ ReuseLimit \in Nat
  /\ Openings \subseteq OpeningKinds /\ Breaks \subseteq BreakKinds
  /\ MaxTime \in Nat /\ MaxGeneration \in Nat

VARIABLES
  clock,    \* wall-clock time
  rec,      \* the record of every session
  owner,    \* its owner token
  inv,      \* what every invocation is doing
  stamped,  \* generations stamped on snapshots taken in the session
  lost      \* throwaway sessions whose invocation ended early, and how

vars == <<clock, rec, owner, inv, stamped, lost>>

Token == Flow \cup {Anonymous, NoToken}
Candidate == [sid : Sid, used : Nat]
Verbs == {"page", "create", "clean"}
Stages ==
  {"away", "matching", "bumping", "creating", "provisioned", "sweeping",
   "attaching", "leasing", "connecting", "recording", "observing", "leaving", "releasing"}

Invocation ==
  [verb  : Verbs,
   stage : Stages,
   token : Token,             \* the flow, Anonymous, or NoToken with --session-id
   host  : SUBSET Host,       \* the host of its URL
   sid   : Sid \cup {NoSid},  \* the session it works in
   now   : Nat,               \* its latest clock reading
   since : Nat,               \* the reading its session was created or leased with
   ttl   : Nat,               \* the lifetime it asks for
   cands : SUBSET Candidate,  \* reuse candidates as listed
   todo  : SUBSET Sid,        \* records its sweep has yet to visit
   before: SUBSET Nat]        \* generations stamped before it reused the session

Away ==
  [verb |-> "page", stage |-> "away", token |-> NoToken, host |-> {}, sid |-> NoSid,
   now |-> 0, since |-> 0, ttl |-> 0, cands |-> {}, todo |-> {}, before |-> {}]

TypeOK ==
  /\ clock \in Nat
  /\ rec \in [Sid -> Record]
  /\ owner \in [Sid -> Token \cup {Unborn}]
  /\ inv \in [Proc -> Invocation]
  /\ stamped \in [Sid -> SUBSET Nat]
  /\ lost \in [Sid -> {"no", "killed", "interrupted"}]

Init ==
  /\ clock = 0
  /\ rec = [s \in Sid |-> NoRecord]
  /\ owner = [s \in Sid |-> Unborn]
  /\ inv = [p \in Proc |-> Away]
  /\ stamped = [s \in Sid |-> {}]
  /\ lost = [s \in Sid |-> "no"]

At(p, stage) == inv[p].stage = stage
Ends(p) == inv' = [inv EXCEPT ![p] = Away]
Owns(p) == inv[p].token = Anonymous   \* ephemeral: it closes its session on the way out
Goes(p, stage) == inv' = [inv EXCEPT ![p].stage = stage]

\* The operation is over; what is left is a throwaway session to close.
Finishes(p) ==
  inv' = [inv EXCEPT ![p] = [Away EXCEPT !.stage = "leaving", !.sid = inv[p].sid,
                                         !.token = inv[p].token]]
Stored == {s \in Sid : rec[s].status # "absent"}

-----------------------------------------------------------------------------
(* Provisioning: find_reusable_session and ephemeral_session *)

\* Wrong: every session in the store is the flow's.
MineAnybodys(token) == Stored

\* The sessions this flow opened itself.
Mine(token) == {s \in Stored : owner[s] = token}

\* The most recently used of them, as many as are examined.
MostRecent(ss) ==
  {t \in SUBSET ss :
     /\ Cardinality(t) = IF Cardinality(ss) < ReuseLimit THEN Cardinality(ss) ELSE ReuseLimit
     /\ \A s \in t, r \in ss \ t : rec[s].last_used_at >= rec[r].last_used_at}

\* What the listed record must show: alive, and known to have been at the host.
Continues(r, now, host) ==
  /\ r.status = "active" /\ r.expires_at > now
  /\ r.tracked /\ host \cap r.hosts # {}

\* A page verb without --session-id, outside any flow.
OpenAnonymously(p, host) ==
  /\ At(p, "away")
  /\ inv' = [inv EXCEPT ![p] =
       [Away EXCEPT !.stage = "creating", !.token = Anonymous, !.host = host,
                    !.now = clock, !.ttl = TTL]]
  /\ UNCHANGED <<clock, rec, owner, stamped, lost>>

\* The same in a flow: the store is listed and candidates are picked.
OpenInFlow(p, f, host) ==
  /\ At(p, "away")
  /\ \A s \in Sid : rec[s].generation < MaxGeneration
  /\ \E recent \in MostRecent(Mine(f)) :
       inv' = [inv EXCEPT ![p] =
         [Away EXCEPT !.stage = "matching", !.token = f, !.host = host, !.now = clock, !.ttl = TTL,
                      !.cands = {[sid |-> s, used |-> rec[s].last_used_at] :
                                   s \in {t \in recent : Continues(rec[t], clock, host)}}]]
  /\ UNCHANGED <<clock, rec, owner, stamped, lost>>

\* The candidate used last, as listed, comes first.
TriesNext(p, c) ==
  /\ At(p, "matching")
  /\ c \in inv[p].cands
  /\ \A d \in inv[p].cands : c.used >= d.used

Grants(s, now) == rec[s].status = "active" /\ ~LeaseRefused(rec[s], Cli, now)
WritesLease(s, now) == rec' = [rec EXCEPT ![s] = Leased(rec[s], Cli, now)]

\* The candidate's lease is taken with the reading made before the listing.
Continue(p, c) ==
  /\ TriesNext(p, c)
  /\ Grants(c.sid, inv[p].now)
  /\ WritesLease(c.sid, inv[p].now)
  /\ inv' = [inv EXCEPT ![p].stage = "bumping", ![p].sid = c.sid,
                        ![p].since = inv[p].now, ![p].cands = {}]
  /\ UNCHANGED <<clock, owner, stamped, lost>>

\* It ended or was purged since the listing.
PassOver(p, c) ==
  /\ TriesNext(p, c)
  /\ ~Grants(c.sid, inv[p].now)
  /\ inv' = [inv EXCEPT ![p].cands = @ \ {c}]
  /\ UNCHANGED <<clock, rec, owner, stamped, lost>>

NothingToContinue(p) ==
  /\ At(p, "matching") /\ inv[p].cands = {}
  /\ inv' = [inv EXCEPT ![p].stage = "creating", ![p].now = clock]
  /\ UNCHANGED <<clock, rec, owner, stamped, lost>>

\* Wrong: the generation is left as it is.
NoBump(p) ==
  /\ At(p, "bumping")
  /\ Readable(rec[inv[p].sid])
  /\ inv' = [inv EXCEPT ![p].stage = "provisioned", ![p].now = 0,
                        ![p].before = stamped[inv[p].sid]]
  /\ UNCHANGED <<clock, rec, owner, stamped, lost>>

\* bump_generation on the session that is continued.
Bump(p) ==
  /\ At(p, "bumping")
  /\ Readable(rec[inv[p].sid])
  /\ rec' = [rec EXCEPT ![inv[p].sid].generation = @ + 1]
  /\ inv' = [inv EXCEPT ![p].stage = "provisioned", ![p].now = 0,
                        ![p].before = stamped[inv[p].sid]]
  /\ UNCHANGED <<clock, owner, stamped, lost>>

\* Its KeyError, when the record was purged after the lease, is not caught.
BumpFails(p) ==
  /\ At(p, "bumping")
  /\ ~Readable(rec[inv[p].sid])
  /\ Ends(p)
  /\ UNCHANGED <<clock, rec, owner, stamped, lost>>

\* The record of a browser launched for this invocation.  The clock was read
\* before the launch.  `session create` goes on to lease what it made.
Create(p, s) ==
  /\ At(p, "creating")
  /\ owner[s] = Unborn
  /\ rec' = [rec EXCEPT ![s] = NewRecord(inv[p].now, inv[p].ttl, TRUE, NoPid)]
  /\ owner' = [owner EXCEPT ![s] = inv[p].token]
  /\ inv' = [inv EXCEPT ![p].sid = s, ![p].since = inv[p].now, ![p].ttl = 0,
                        ![p].stage = IF inv[p].verb = "create" THEN "leasing" ELSE "provisioned"]
  /\ UNCHANGED <<clock, stamped, lost>>

\* The launcher failed and left nothing.
CreateFails(p) ==
  /\ At(p, "creating")
  /\ Ends(p)
  /\ UNCHANGED <<clock, rec, owner, stamped, lost>>

-----------------------------------------------------------------------------
(* The sweep: inside provisioning, ahead of `session create`, as `session clean` *)

StartSweep(p) ==
  /\ At(p, "provisioned")
  /\ inv' = [inv EXCEPT ![p].stage = "sweeping", ![p].now = clock, ![p].todo = Stored]
  /\ UNCHANGED <<clock, rec, owner, stamped, lost>>

\* Wrong: a session nobody has leased is taken for abandoned.
SweptUnleased(r, now) ==
  IF r.status = "active" /\ ~LeaseIsLive(r, now) THEN Ended(r, "expired")
  ELSE IF Purges(r, now, NoFilter) THEN NoRecord ELSE r

\* What an unfiltered sweep leaves of a record.
Swept(r, now) ==
  IF Expires(r, now, NoFilter) THEN Ended(r, "expired")
  ELSE IF DropsLease(r, now, NoFilter) THEN Unleased(r)
  ELSE IF Purges(r, now, NoFilter) THEN NoRecord ELSE r

SweepOne(p, s) ==
  /\ At(p, "sweeping")
  /\ s \in inv[p].todo
  /\ rec' = [rec EXCEPT ![s] = Swept(rec[s], inv[p].now)]
  /\ inv' = [inv EXCEPT ![p].todo = @ \ {s}]
  /\ UNCHANGED <<clock, owner, stamped, lost>>

\* An opportunistic sweep may run out of its time budget anywhere.
EndSweep(p) ==
  /\ At(p, "sweeping")
  /\ \/ inv[p].verb = "clean" /\ inv[p].todo = {} /\ Ends(p)
     \/ /\ inv[p].verb = "create"
        /\ inv' = [inv EXCEPT ![p].stage = "creating", ![p].now = clock, ![p].todo = {}]
     \/ /\ inv[p].verb = "page"
        /\ inv' = [inv EXCEPT ![p].stage = "attaching", ![p].now = 0, ![p].todo = {}]
  /\ UNCHANGED <<clock, rec, owner, stamped, lost>>

Clean(p) ==
  /\ At(p, "away")
  /\ inv' = [inv EXCEPT ![p] = [Away EXCEPT !.verb = "clean", !.stage = "sweeping",
                                            !.now = clock, !.todo = Stored]]
  /\ UNCHANGED <<clock, rec, owner, stamped, lost>>

-----------------------------------------------------------------------------
(* The operation in its session: the service *)

\* A page verb with --session-id: the caller owns the session's lifetime.
OpenGiven(p, s, host) ==
  /\ At(p, "away")
  /\ owner[s] # Unborn
  /\ inv' = [inv EXCEPT ![p] = [Away EXCEPT !.stage = "attaching", !.host = host, !.sid = s]]
  /\ UNCHANGED <<clock, rec, owner, stamped, lost>>

\* _require_session: the record is active, and the clock is read.
Attach(p) ==
  /\ At(p, "attaching")
  /\ rec[inv[p].sid].status = "active"
  /\ inv' = [inv EXCEPT ![p].stage = "leasing", ![p].now = clock]
  /\ UNCHANGED <<clock, rec, owner, stamped, lost>>

\* Its lease is taken, or renewed.
TakeLease(p) ==
  /\ At(p, "leasing")
  /\ Grants(inv[p].sid, inv[p].now)
  /\ WritesLease(inv[p].sid, inv[p].now)
  /\ inv' = [inv EXCEPT ![p].since = inv[p].now,
                        ![p].stage = IF inv[p].verb = "create" THEN "releasing" ELSE "connecting"]
  /\ UNCHANGED <<clock, owner, stamped, lost>>

\* The session ended meanwhile: the operation halts, or `session create` ends.
LeaseFails(p) ==
  /\ At(p, "leasing")
  /\ ~Grants(inv[p].sid, inv[p].now)
  /\ IF inv[p].verb = "create" THEN Ends(p) ELSE Finishes(p)
  /\ UNCHANGED <<clock, rec, owner, stamped, lost>>

\* The endpoint is there and the browser navigates.
Connect(p) ==
  /\ At(p, "connecting")
  /\ rec[inv[p].sid].status = "active" /\ rec[inv[p].sid].endpoint
  /\ Goes(p, "recording")
  /\ UNCHANGED <<clock, rec, owner, stamped, lost>>

\* An inactive session, policy, a budget, a dead endpoint: nothing was visited.
Halt(p) ==
  /\ \/ At(p, "attaching") /\ rec[inv[p].sid].status # "active"
     \/ At(p, "connecting")
  /\ Finishes(p)
  /\ UNCHANGED <<clock, rec, owner, stamped, lost>>

\* The hosts reached are recorded before anything else can halt the operation.
RecordHosts(p) ==
  LET s == inv[p].sid IN
  /\ At(p, "recording")
  /\ IF Readable(rec[s]) /\ rec[s].tracked
       THEN \E m \in Merges(rec[s], inv[p].host) :
              rec' = [rec EXCEPT ![s] = WithHosts(rec[s], m, inv[p].host)]
       ELSE UNCHANGED rec
  /\ Goes(p, "observing")
  /\ UNCHANGED <<clock, owner, stamped, lost>>

\* The snapshot carries the session's generation as it is now.
Observe(p) ==
  /\ At(p, "observing")
  /\ stamped' = [stamped EXCEPT ![inv[p].sid] = @ \cup {rec[inv[p].sid].generation}]
  /\ Finishes(p)
  /\ UNCHANGED <<clock, rec, owner, lost>>

\* A hop was refused, the page was unreachable or too large, time was up.
HaltAfterNavigation(p) ==
  /\ At(p, "observing")
  /\ Finishes(p)
  /\ UNCHANGED <<clock, rec, owner, stamped, lost>>

-----------------------------------------------------------------------------
(* Ending *)

\* Wrong: the throwaway session is left to the sweep.
LeaveOpen(p) ==
  /\ At(p, "leaving")
  /\ Ends(p)
  /\ UNCHANGED <<clock, rec, owner, stamped, lost>>

\* A throwaway session is closed whatever became of the operation.
Leave(p) ==
  LET s == inv[p].sid IN
  /\ At(p, "leaving")
  /\ rec' = IF Owns(p) /\ Readable(rec[s])
              THEN [rec EXCEPT ![s] = Ended(rec[s], "closed")] ELSE rec
  /\ Ends(p)
  /\ UNCHANGED <<clock, owner, stamped, lost>>

\* `session create` sweeps first.  Its session is made, leased and released in
\* one invocation.
CreateSession(p, ttl) ==
  /\ At(p, "away")
  /\ inv' = [inv EXCEPT ![p] = [Away EXCEPT !.verb = "create", !.stage = "sweeping",
                                            !.now = clock, !.todo = Stored, !.ttl = ttl]]
  /\ UNCHANGED <<clock, rec, owner, stamped, lost>>

Release(p) ==
  LET s == inv[p].sid IN
  /\ At(p, "releasing")
  /\ rec' = IF Readable(rec[s]) /\ rec[s].lease.holder = Cli
              THEN [rec EXCEPT ![s] = Unleased(rec[s])] ELSE rec
  /\ Ends(p)
  /\ UNCHANGED <<clock, owner, stamped, lost>>

\* `session close` on any active session.
CloseSession(s) ==
  /\ rec[s].status = "active"
  /\ rec' = [rec EXCEPT ![s] = Ended(rec[s], "closed")]
  /\ UNCHANGED <<clock, owner, inv, stamped, lost>>

LosesSession(p, how) ==
  lost' = IF Owns(p) /\ inv[p].sid # NoSid THEN [lost EXCEPT ![inv[p].sid] = how] ELSE lost

\* The process is killed: nothing of it runs any more.
Killed(p) ==
  /\ ~At(p, "away")
  /\ Ends(p)
  /\ LosesSession(p, "killed")
  /\ UNCHANGED <<clock, rec, owner, stamped>>

\* Ctrl-C.  Once the session was handed out its throwaway is still closed; the
\* sweep before that runs outside the try.
Interrupted(p) ==
  /\ ~At(p, "away")
  /\ IF inv[p].stage \in {"attaching", "leasing", "connecting", "recording", "observing"}
        /\ inv[p].verb = "page"
       THEN Finishes(p) /\ UNCHANGED lost
       ELSE Ends(p) /\ LosesSession(p, "interrupted")
  /\ UNCHANGED <<clock, rec, owner, stamped>>

Tick ==
  /\ clock < MaxTime
  /\ clock' = clock + 1
  /\ UNCHANGED <<rec, owner, inv, stamped, lost>>

Opens(p) ==
  \/ \E h \in Host :
       \/ "anonymous" \in Openings /\ OpenAnonymously(p, {h})
       \/ "flow" \in Openings /\ \E f \in Flow : OpenInFlow(p, f, {h})
       \/ "given" \in Openings /\ \E s \in Sid : OpenGiven(p, s, {h})
  \/ "create" \in Openings /\ \E ttl \in TTLs : CreateSession(p, ttl)
  \/ "clean" \in Openings /\ Clean(p)

Provisions(p) ==
  \/ \E c \in inv[p].cands : Continue(p, c) \/ PassOver(p, c)
  \/ NothingToContinue(p) \/ Bump(p) \/ BumpFails(p)
  \/ \E s \in Sid : Create(p, s) \/ SweepOne(p, s)
  \/ CreateFails(p) \/ StartSweep(p) \/ EndSweep(p)

Operates(p) ==
  \/ Attach(p) \/ TakeLease(p) \/ LeaseFails(p) \/ Connect(p) \/ Halt(p)
  \/ RecordHosts(p) \/ Observe(p) \/ HaltAfterNavigation(p)
  \/ Leave(p) \/ Release(p)
  \/ "kill" \in Breaks /\ Killed(p)
  \/ "interrupt" \in Breaks /\ Interrupted(p)

Next ==
  \/ \E p \in Proc : Opens(p) \/ Provisions(p) \/ Operates(p)
  \/ \E s \in Sid : CloseSession(s)
  \/ Tick

Spec == Init /\ [][Next]_vars

-----------------------------------------------------------------------------
(* Properties *)

\* The session invocation p was provisioned with or attached to, until it leaves.
Uses(p, s) ==
  /\ inv[p].verb = "page" /\ inv[p].sid = s
  /\ \/ inv[p].stage \in {"connecting", "recording", "observing"}
     \/ /\ inv[p].token # NoToken
        /\ inv[p].stage \in {"bumping", "provisioned", "sweeping", "attaching", "leasing"}

\* No sweep, its own or another invocation's, with a reading of any age, ends a
\* session an invocation is about to use or using, before the session's life
\* since that invocation made or leased it is over; only `session close` does.
\* Nothing here rests on the lease: a fresh throwaway has none, and a
\* `session create` releases the one its own session got from somebody else.
\* (ephemeral_session, sweep_session_store, _clean_one_unlocked, _slid_expiry)
SweepSparesInUse ==
  [][\A p \in Proc, s \in Sid :
       Uses(p, s) /\ rec[s].status = "active" /\ rec'[s].status \notin {"active", "closed"}
         => clock >= inv[p].since + MinTTL]_vars

Leaks(s) ==
  /\ owner[s] = Anonymous /\ rec[s].status = "active"
  /\ \A p \in Proc : ~(inv[p].sid = s /\ Owns(p))

\* A throwaway session does not outlive its invocation, whatever halts the
\* operation, unless the invocation itself was cut short before it could close
\* it.  (ephemeral_session)
ThrowawayEnds == \A s \in Sid : Leaks(s) => lost[s] # "no"

\* Two invocations that were provisioned with one session belong to one flow:
\* no anonymous session is handed out twice and no flow gets another's.
\* (find_reusable_session)
NotShared ==
  \A p, q \in Proc :
    /\ p # q
    /\ inv[p].sid # NoSid /\ inv[p].sid = inv[q].sid
    /\ inv[p].token # NoToken /\ inv[q].token # NoToken
    => inv[p].token = inv[q].token /\ inv[p].token \in Flow

\* While its record exists, a session that is continued is at a generation above
\* every snapshot taken in it before: references from then do not fit any
\* snapshot taken from now on.  (ephemeral_session, _session_generation)
ReferencesGoStale ==
  \A p \in Proc : \A g \in inv[p].before :
    Readable(rec[inv[p].sid]) => rec[inv[p].sid].generation > g
=============================================================================
