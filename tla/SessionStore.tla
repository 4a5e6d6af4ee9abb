---------------------------- MODULE SessionStore ----------------------------
(***************************************************************************)
(* FileSessionStore (src/webglass/adapters/session_store.py) shared by     *)
(* several operating-system processes.                                     *)
(*                                                                         *)
(* A call has two moments a reader of the code must keep apart: the caller *)
(* reads its clock and only then does the call wait for the session's      *)
(* lock, so an operation works with a `now` that other operations may have *)
(* overtaken.  What happens under the lock is one step, except where a     *)
(* browser is launched or killed: that happens before the record is        *)
(* written, and a process can die in between.                              *)
(*                                                                         *)
(* Here the lock is what flock promises while the lock file stays in       *)
(* place: at most one process is inside per session.  StoreLocking models  *)
(* the lock file itself.                                                   *)
(***************************************************************************)
EXTENDS SessionRecord

CONSTANTS
  Sid, NoSid, \* session ids, and none
  Proc,       \* processes calling the store, each one call at a time
  HolderOf,   \* the lease holder string each process uses
  Free, Stranger, Foreign,  \* pids of nobody, of another program of this user, of another user
  TTLs,       \* session lifetimes callers ask for
  Filters,    \* the filters `session clean` is called with
  CreateModes,\* how create() gets a browser: "launch", "adopt" an endpoint, "bare"
  Legacy,     \* sessions written before hosts were tracked
  Faults,     \* which faults may happen
  MaxTime, MaxFaults, MaxGeneration   \* bounds of the clock and of the counters

ASSUME StoreAssumption ==
  /\ HolderOf \in [Proc -> Holder]
  /\ {Free, Stranger, Foreign} \cap Sid = {}
  /\ NoSid \notin Sid
  /\ Free \notin {Stranger, Foreign} /\ Stranger # Foreign
  /\ TTLs \subseteq Nat
  /\ NoFilter \in Filters /\ Filters \subseteq Filter
  /\ CreateModes \subseteq {"launch", "adopt", "bare"}
  /\ Legacy \subseteq Sid
  /\ Faults \subseteq {"crash_after_launch", "crash_after_kill",
                       "browser_exit", "pid_reuse", "corruption"}
  /\ MaxTime \in Nat /\ MaxFaults \in Nat /\ MaxGeneration \in Nat

VARIABLES
  clock,    \* wall-clock time
  rec,      \* the record file of every session
  os,       \* what runs at every pid: a session's browser, something else, nothing
  profile,  \* sessions whose profile directory exists
  op,       \* what every process is doing
  grant,    \* the expiry each process was told with its latest LeaseGrant, 0 for none
  visited,  \* hosts whose navigation was reported for the session's current record
  faults    \* faults so far

vars == <<clock, rec, os, profile, op, grant, visited, faults>>

Verbs == {"create", "acquire", "release", "close", "bump", "navigated", "clean"}
Stages == {"idle", "waiting", "sweeping", "launched", "reaping"}

Op == [verb : Verbs, stage : Stages, sid : Sid \cup {NoSid}, now : Nat,
       pid : Pid \cup {NoPid}, todo : SUBSET Sid, filter : Filter]

Idle == [verb |-> "clean", stage |-> "idle", sid |-> NoSid, now |-> 0,
         pid |-> NoPid, todo |-> {}, filter |-> NoFilter]

TypeOK ==
  /\ clock \in Nat
  /\ rec \in [Sid -> Record]
  /\ os \in [Pid -> Sid \cup {Free, Stranger, Foreign}]
  /\ profile \subseteq Sid
  /\ op \in [Proc -> Op]
  /\ grant \in [Proc -> [Sid -> Nat]]
  /\ visited \in [Sid -> SUBSET Host]
  /\ faults \in Nat

\* A record an older webglass left behind: alive, no host set, no browser known.
LegacyRecord == [NewRecord(0, 1, TRUE, NoPid) EXCEPT !.tracked = FALSE]

Init ==
  /\ clock = 0
  /\ rec = [s \in Sid |-> IF s \in Legacy THEN LegacyRecord ELSE NoRecord]
  /\ os = [q \in Pid |-> Free]
  /\ profile = {}
  /\ op = [p \in Proc |-> Idle]
  /\ grant = [p \in Proc |-> [s \in Sid |-> 0]]
  /\ visited = [s \in Sid |-> {}]
  /\ faults = 0

-----------------------------------------------------------------------------
(* Calls and the lock *)

\* Process p holds session s's lock across a step: its browser was started or
\* stopped and the record is not written yet.
Inside(p, s) == op[p].stage \in {"launched", "reaping"} /\ op[p].sid = s
Unlocked(s) == \A p \in Proc : ~Inside(p, s)

\* The caller reads its clock and calls verb v on session s.
Call(p, v, s) ==
  /\ op[p].stage = "idle"
  /\ v # "clean"
  /\ v = "bump" => rec[s].generation < MaxGeneration
  /\ op' = [op EXCEPT ![p] = [Idle EXCEPT !.verb = v, !.stage = "waiting",
                                          !.sid = s, !.now = clock]]
  /\ UNCHANGED <<clock, rec, os, profile, grant, visited, faults>>

\* Process p, waiting for its turn in verb v, holds the lock of session s.
Turn(p, v, s) ==
  /\ op[p].stage = "waiting" /\ op[p].verb = v /\ op[p].sid = s
  /\ Unlocked(s)

Return(p) == op' = [op EXCEPT ![p] = Idle]

\* The call ends without having changed anything: an unknown or unreadable
\* session, an id that is taken, a refusal.
NoEffect(p) ==
  /\ Return(p)
  /\ UNCHANGED <<clock, rec, os, profile, grant, visited, faults>>

\* The call writes r and ends.
Write(p, s, r) ==
  /\ rec' = [rec EXCEPT ![s] = r]
  /\ Return(p)
  /\ UNCHANGED <<clock, os, profile, faults>>

-----------------------------------------------------------------------------
(* create *)

CreateRefused(p, s) ==
  /\ Turn(p, "create", s) /\ rec[s].status # "absent"
  /\ NoEffect(p)

\* The launcher starts a browser on a fresh profile directory.
CreateLaunches(p, s, q) ==
  /\ Turn(p, "create", s) /\ rec[s].status = "absent"
  /\ "launch" \in CreateModes
  /\ os[q] = Free
  /\ os' = [os EXCEPT ![q] = s]
  /\ profile' = profile \cup {s}
  /\ op' = [op EXCEPT ![p].stage = "launched", ![p].pid = q]
  /\ UNCHANGED <<clock, rec, grant, visited, faults>>

\* A launcher that fails leaves no profile directory and no record.
CreateLaunchFails(p, s) ==
  /\ Turn(p, "create", s) /\ rec[s].status = "absent"
  /\ "launch" \in CreateModes
  /\ profile' = profile \ {s}
  /\ Return(p)
  /\ UNCHANGED <<clock, rec, os, grant, visited, faults>>

\* The record of the launched browser is written, dated at the caller's now.
CreateWrites(p, s) ==
  /\ op[p].stage = "launched" /\ op[p].sid = s
  /\ \E ttl \in TTLs : Write(p, s, NewRecord(op[p].now, ttl, TRUE, op[p].pid))
  /\ visited' = [visited EXCEPT ![s] = {}]
  /\ UNCHANGED grant

\* An endpoint handed in by the caller, or a store with no launcher.
CreateWithoutLaunch(p, s) ==
  /\ Turn(p, "create", s) /\ rec[s].status = "absent"
  /\ \E ttl \in TTLs, mode \in CreateModes \ {"launch"} :
       Write(p, s, NewRecord(op[p].now, ttl, mode = "adopt", NoPid))
  /\ visited' = [visited EXCEPT ![s] = {}]
  /\ UNCHANGED grant

-----------------------------------------------------------------------------
(* acquire_lease, release_lease, bump_generation, record_navigated_urls *)

\* _require_unlocked raises, and record_navigated_urls returns None.
CallFails(p, s) ==
  /\ \E v \in {"acquire", "release", "close", "bump", "navigated"} : Turn(p, v, s)
  /\ ~Readable(rec[s])
  /\ NoEffect(p)

\* Wrong: an ended session can be leased.
AcquireGrantedEnded(p, s) ==
  /\ Turn(p, "acquire", s) /\ Readable(rec[s])
  /\ ~LeaseRefused(rec[s], HolderOf[p], op[p].now)
  /\ Write(p, s, Leased(rec[s], HolderOf[p], op[p].now))
  /\ grant' = [grant EXCEPT ![p][s] = op[p].now + LeaseTTL]
  /\ UNCHANGED visited

AcquireGranted(p, s) ==
  /\ Turn(p, "acquire", s) /\ rec[s].status = "active"
  /\ ~LeaseRefused(rec[s], HolderOf[p], op[p].now)
  /\ Write(p, s, Leased(rec[s], HolderOf[p], op[p].now))
  /\ grant' = [grant EXCEPT ![p][s] = op[p].now + LeaseTTL]
  /\ UNCHANGED visited

AcquireRefused(p, s) ==
  /\ Turn(p, "acquire", s) /\ Readable(rec[s])
  /\ \/ rec[s].status # "active"
     \/ LeaseRefused(rec[s], HolderOf[p], op[p].now)
  /\ NoEffect(p)

\* Only the holder's own lease is cleared; either way the caller is done with it.
Release(p, s) ==
  /\ Turn(p, "release", s) /\ Readable(rec[s])
  /\ Write(p, s, IF rec[s].lease.holder = HolderOf[p] THEN Unleased(rec[s]) ELSE rec[s])
  /\ grant' = [grant EXCEPT ![p][s] = 0]
  /\ UNCHANGED visited

BumpGeneration(p, s) ==
  /\ Turn(p, "bump", s) /\ Readable(rec[s])
  /\ Write(p, s, [rec[s] EXCEPT !.generation = rec[s].generation + 1])
  /\ UNCHANGED <<grant, visited>>

\* The hosts of one navigation, whatever the session's status by now.
RecordNavigated(p, s, hs) ==
  /\ Turn(p, "navigated", s) /\ Readable(rec[s]) /\ rec[s].tracked
  /\ \E m \in Merges(rec[s], hs) : Write(p, s, WithHosts(rec[s], m, hs))
  /\ visited' = [visited EXCEPT ![s] = visited[s] \cup hs]
  /\ UNCHANGED grant

\* A record that was never tracked stays untracked; a URL without a host adds nothing.
NothingNavigated(p, s) ==
  /\ Turn(p, "navigated", s) /\ Readable(rec[s])
  /\ NoEffect(p)

-----------------------------------------------------------------------------
(* Stopping a browser: close, and the sweep's job 1 *)

\* The recorded pid is signalled unless it answers as another user's process.
Signalled(r) == r.pid # NoPid /\ os[r.pid] # Foreign

\* _reap_browser under the lock of s: the process goes, the profile goes.
StopsBrowser(p, s) ==
  /\ os' = IF Signalled(rec[s]) THEN [os EXCEPT ![rec[s].pid] = Free] ELSE os
  /\ profile' = profile \ {s}
  /\ op' = [op EXCEPT ![p].stage = "reaping", ![p].sid = s]
  /\ UNCHANGED <<clock, rec, grant, visited, faults>>

CloseKills(p, s) ==
  /\ Turn(p, "close", s) /\ rec[s].status = "active"
  /\ StopsBrowser(p, s)

\* Wrong: the browser of an active session may be left running.
CloseWritesOnly(p, s) ==
  /\ op[p].verb = "close"
  /\ Inside(p, s) \/ (Turn(p, "close", s) /\ Readable(rec[s]))
  /\ Write(p, s, Ended(rec[s], "closed"))
  /\ grant' = [q \in Proc |-> [grant[q] EXCEPT ![s] = 0]]
  /\ UNCHANGED visited

\* The record is written as closed.  Whoever holds a lease on it is not asked.
CloseWrites(p, s) ==
  /\ op[p].verb = "close"
  /\ \/ Inside(p, s)
     \/ Turn(p, "close", s) /\ rec[s].status \in EndedStatus
  /\ Write(p, s, Ended(rec[s], "closed"))
  /\ grant' = [q \in Proc |-> [grant[q] EXCEPT ![s] = 0]]
  /\ UNCHANGED visited

\* A sweep reads its clock and lists the record files.
StartSweep(p, f) ==
  /\ op[p].stage = "idle"
  /\ op' = [op EXCEPT ![p] =
              [Idle EXCEPT !.stage = "sweeping", !.now = clock, !.filter = f,
                           !.todo = {s \in Sid : rec[s].status # "absent"}]]
  /\ UNCHANGED <<clock, rec, os, profile, grant, visited, faults>>

\* A sweep starts anywhere in its list and may run out of its time budget
\* between any two records.
Visits(p, s) ==
  /\ op[p].stage = "sweeping" /\ s \in op[p].todo
  /\ Unlocked(s)

SweptPast(p, s) == op' = [op EXCEPT ![p].stage = "sweeping", ![p].sid = NoSid,
                                    ![p].todo = op[p].todo \ {s}]

SweepSkips(p, s) ==
  /\ Visits(p, s)
  /\ ~Expires(rec[s], op[p].now, op[p].filter)
  /\ ~DropsLease(rec[s], op[p].now, op[p].filter)
  /\ ~Purges(rec[s], op[p].now, op[p].filter)
  /\ SweptPast(p, s)
  /\ UNCHANGED <<clock, rec, os, profile, grant, visited, faults>>

SweepDropsLease(p, s) ==
  /\ Visits(p, s)
  /\ DropsLease(rec[s], op[p].now, op[p].filter)
  /\ rec' = [rec EXCEPT ![s] = Unleased(rec[s])]
  /\ SweptPast(p, s)
  /\ UNCHANGED <<clock, os, profile, grant, visited, faults>>

SweepPurges(p, s) ==
  /\ Visits(p, s)
  /\ Purges(rec[s], op[p].now, op[p].filter)
  /\ rec' = [rec EXCEPT ![s] = NoRecord]
  /\ profile' = profile \ {s}
  /\ SweptPast(p, s)
  /\ UNCHANGED <<clock, os, grant, visited, faults>>

SweepKills(p, s) ==
  /\ Visits(p, s)
  /\ Expires(rec[s], op[p].now, op[p].filter)
  /\ StopsBrowser(p, s)

\* Wrong: the browser is gone and the record is not written.
SweepExpiresUnwritten(p, s) ==
  /\ op[p].verb = "clean" /\ Inside(p, s)
  /\ SweptPast(p, s)
  /\ UNCHANGED <<clock, rec, os, profile, grant, visited, faults>>

SweepExpires(p, s) ==
  /\ op[p].verb = "clean" /\ Inside(p, s)
  /\ rec' = [rec EXCEPT ![s] = Ended(rec[s], "expired")]
  /\ SweptPast(p, s)
  /\ UNCHANGED <<clock, os, profile, grant, visited, faults>>

StopSweep(p) ==
  /\ op[p].stage = "sweeping"
  /\ NoEffect(p)

-----------------------------------------------------------------------------
(* Time and faults *)

Tick ==
  /\ clock < MaxTime
  /\ clock' = clock + 1
  /\ UNCHANGED <<rec, os, profile, op, grant, visited, faults>>

Fault(kind) == kind \in Faults /\ faults < MaxFaults /\ faults' = faults + 1

\* A process dies, or its write fails, between a launch or a kill and the
\* write of the record.  The kernel gives its lock back.
Dies(p) ==
  /\ \/ op[p].stage = "launched" /\ Fault("crash_after_launch")
     \/ op[p].stage = "reaping" /\ Fault("crash_after_kill")
  /\ Return(p)
  /\ UNCHANGED <<clock, rec, os, profile, grant, visited>>

BrowserExits(q) ==
  /\ os[q] \in Sid /\ Fault("browser_exit")
  /\ os' = [os EXCEPT ![q] = Free]
  /\ UNCHANGED <<clock, rec, profile, op, grant, visited>>

PidReused(q) ==
  /\ os[q] = Free /\ Fault("pid_reuse")
  /\ \E other \in {Stranger, Foreign} : os' = [os EXCEPT ![q] = other]
  /\ UNCHANGED <<clock, rec, profile, op, grant, visited>>

\* The record file is damaged while nobody works on it.
Corrupts(s) ==
  /\ Readable(rec[s]) /\ Unlocked(s) /\ Fault("corruption")
  /\ rec' = [rec EXCEPT ![s] = CorruptRecord]
  /\ UNCHANGED <<clock, os, profile, op, grant, visited>>

-----------------------------------------------------------------------------

\* What process p does on its own once it has called.
Works(p) ==
  \/ \E s \in Sid :
       \/ CreateRefused(p, s) \/ CreateLaunchFails(p, s) \/ CreateWrites(p, s)
       \/ CreateWithoutLaunch(p, s)
       \/ \E q \in Pid : CreateLaunches(p, s, q)
       \/ CallFails(p, s)
       \/ AcquireGranted(p, s) \/ AcquireRefused(p, s) \/ Release(p, s)
       \/ BumpGeneration(p, s) \/ NothingNavigated(p, s)
       \/ \E hs \in SUBSET Host \ {{}} : RecordNavigated(p, s, hs)
       \/ CloseKills(p, s) \/ CloseWrites(p, s)
       \/ SweepSkips(p, s) \/ SweepDropsLease(p, s) \/ SweepPurges(p, s)
       \/ SweepKills(p, s) \/ SweepExpires(p, s)
  \/ StopSweep(p)

Next ==
  \/ \E p \in Proc : Works(p)
  \/ \E p \in Proc, v \in Verbs, s \in Sid : Call(p, v, s)
  \/ \E p \in Proc, f \in Filters : StartSweep(p, f)
  \/ Tick
  \/ \E p \in Proc : Dies(p)
  \/ \E q \in Pid : BrowserExits(q) \/ PidReused(q)
  \/ \E s \in Sid : Corrupts(s)

Spec == Init /\ [][Next]_vars

\* A sweep working on session s.
SweepVisits(p, s) ==
  \/ SweepSkips(p, s) \/ SweepDropsLease(p, s) \/ SweepPurges(p, s) \/ SweepKills(p, s)

\* A process that has called goes on.  Opportunistic sweeps and `session clean`
\* come again and again, without a filter, and because each starts at a random
\* place of its list no record is passed over for ever.
Fairness ==
  /\ \A p \in Proc : WF_vars(Works(p))
  /\ SF_vars(\E p \in Proc : StartSweep(p, NoFilter))
  /\ \A s \in Sid :
       SF_vars(\E p \in Proc : op[p].filter = NoFilter /\ SweepVisits(p, s))

FairSpec == Spec /\ Fairness

-----------------------------------------------------------------------------
(* Properties *)

\* Process p was granted a lease on s and, by the clock, still has it.
HoldsGrant(p, s) == grant[p][s] > clock

\* A grant is kept: until the time the LeaseGrant names, the session stays
\* active and its record goes on naming this holder, whatever sweeps, other
\* acquirers and late writers do.  (acquire_lease, clean; only a release by the
\* grantee or a close takes it back.)
GrantHonoured ==
  \A p \in Proc, s \in Sid : HoldsGrant(p, s) =>
    /\ rec[s].status = "active"
    /\ rec[s].lease.holder = HolderOf[p]
    /\ rec[s].lease.expires_at >= grant[p][s]

\* Two processes never both have an unexpired grant on one session: the second
\* of two concurrent attaches is refused.  (acquire_lease)
OneProcessAttached ==
  \A p, q \in Proc, s \in Sid : HoldsGrant(p, s) /\ HoldsGrant(q, s) => p = q

\* No browser outlives its session: once a record is written as expired or
\* closed, the browser launched for it is gone, however the processes that
\* ended it died or raced.  (close, _clean_one_unlocked, _reap_browser)
EndedHasNoBrowser ==
  \A s \in Sid, q \in Pid : rec[s].status \in EndedStatus => os[q] # s

\* A browser nobody can reach: it runs and no record names its pid, nor is the
\* process that launched it about to write one.
Orphan(q) ==
  /\ os[q] \in Sid
  /\ ~(rec[os[q]].status = "active" /\ rec[os[q]].pid = q)
  /\ ~\E p \in Proc : op[p].stage = "launched" /\ op[p].pid = q

\* A running browser can always be found again through its session's record.
\* (create, close, clean)
NoOrphanBrowser == \A q \in Pid : ~Orphan(q)

\* A tracked record names every host navigated since it was created, or says
\* that it does not, and never holds more than the cap.  (record_navigated_urls)
HostsAccountedFor ==
  \A s \in Sid : Readable(rec[s]) /\ rec[s].tracked =>
    /\ visited[s] \subseteq rec[s].hosts \/ rec[s].truncated
    /\ rec[s].hosts \subseteq visited[s]
    /\ Cardinality(rec[s].hosts) <= MaxHosts

\* A browser under an unexpired grant is stopped by a close of its session and
\* by nothing else; a sweep with an old clock reading spares it.  (clean)
GrantedBrowserStoppedByCloseOnly ==
  [][\A s \in Sid, q \in Pid :
       /\ os[q] = s /\ os'[q] # s
       /\ \E p \in Proc : HoldsGrant(p, s)
       => \E p \in Proc : op'[p].verb = "close" /\ op'[p].sid = s]_vars

\* Using a session never shortens its life: a late acquirer with an older clock
\* reading leaves the expiry a newer one wrote.  (_slid_expiry)
UseNeverShortensLife ==
  [][\A s \in Sid : rec[s].status = "active" /\ rec'[s].status = "active"
       => rec'[s].expires_at >= rec[s].expires_at]_vars

\* A session past its expiry that nobody has leased.
Overdue(s) ==
  /\ rec[s].status = "active" /\ rec[s].expires_at <= clock
  /\ ~LeaseIsLive(rec[s], clock)

\* An abandoned session is eventually reaped, or taken up again: no crashed
\* caller keeps a browser alive for ever.  (clean, sweep_session_store)
OverdueEnds == \A s \in Sid : Overdue(s) ~> ~Overdue(s)

\* The store implements the abstract leased session: what a caller sees of a
\* record by the wall clock is one of its steps.  (FileSessionStore)
Phase(r) ==
  CASE r.status = "active" -> "open"
    [] r.status \in EndedStatus -> "ended"
    [] OTHER -> "none"

HolderAt(r, now) == IF LeaseIsLive(r, now) THEN r.lease.holder ELSE NoHolder

Abstract == INSTANCE LeasedSession WITH
  phase <- [s \in Sid |-> Phase(rec[s])],
  holder <- [s \in Sid |-> HolderAt(rec[s], clock)]

ImplementsLeasedSession == Abstract!Spec

-----------------------------------------------------------------------------
(* What the documentation says and the code does not do *)

\* "A crashed caller leaves no orphaned browser process past lease expiry": a
\* browser no record leads to is stopped in the end.  It is not when its
\* launcher died before the record was written.  (create, clean)
OrphanReaped == \A q \in Pid : Orphan(q) ~> ~Orphan(q)
=============================================================================
