------------------------- MODULE SessionStoreProofs -------------------------
(***************************************************************************)
(* Proofs about SessionStore, for any number of processes, sessions and    *)
(* pids and without its bounds.                                            *)
(*                                                                         *)
(* TypeOK is inductive.  Nearly everything else rests on LockInv, which    *)
(* says what a process knows while it is inside a session: nobody else is, *)
(* the record is still the one it acted on, and a sweep that is stopping a *)
(* browser has seen no live lease.  GrantHonoured is inductive over it     *)
(* once holders have names of their own.  Accounted ties every running     *)
(* browser to its record or its launcher, for the two browser invariants;  *)
(* Bound ties every record to a running browser, which tells whose a       *)
(* signalled pid is; AllTell says of each record what it owes its hosts.   *)
(***************************************************************************)
EXTENDS SessionStore, SessionRecordProofs, FiniteSetTheorems

-----------------------------------------------------------------------------
(* Types of the initial values *)

LEMMA LegacyRecordType == LegacyRecord \in Record
<1>1. NewRecord(0, 1, TRUE, NoPid) \in Record
  BY NewRecordType
<1>2. QED
  BY <1>1 DEF LegacyRecord, Record

LEMMA IdleType == Idle \in Op
  BY StoreAssumption, RecordAssumption DEF Idle, Op, Verbs, Stages, NoFilter, Filter

-----------------------------------------------------------------------------
(* Types of the variables *)

LEMMA TypeInit == Init => TypeOK
  BY NoRecordType, LegacyRecordType, IdleType DEF Init, TypeOK

LEMMA ReturnType ==
  ASSUME TypeOK, NEW p \in Proc, Return(p)
  PROVE  op' \in [Proc -> Op]
  BY IdleType DEF TypeOK, Return

LEMMA WriteType ==
  ASSUME TypeOK, NEW p \in Proc, NEW s \in Sid, NEW r \in Record, Write(p, s, r)
  PROVE  /\ op' \in [Proc -> Op] /\ rec' \in [Sid -> Record]
         /\ clock' \in Nat /\ os' \in [Pid -> Sid \cup {Free, Stranger, Foreign}]
         /\ profile' \subseteq Sid /\ faults' \in Nat
  BY ReturnType DEF TypeOK, Write

LEMMA NoEffectType ==
  ASSUME TypeOK, NEW p \in Proc, NoEffect(p)
  PROVE  TypeOK'
  BY ReturnType DEF TypeOK, NoEffect

LEMMA SweptPastType ==
  ASSUME TypeOK, NEW p \in Proc, NEW s \in Sid, SweptPast(p, s)
  PROVE  op' \in [Proc -> Op]
<1>1. op' = [op EXCEPT ![p] = [op[p] EXCEPT !.stage = "sweeping", !.sid = NoSid,
                                            !.todo = op[p].todo \ {s}]]
  BY DEF TypeOK, SweptPast, Op
<1>2. [op[p] EXCEPT !.stage = "sweeping", !.sid = NoSid, !.todo = op[p].todo \ {s}] \in Op
  BY DEF TypeOK, Op, Stages
<1>3. QED
  BY <1>1, <1>2 DEF TypeOK

LEMMA StopsBrowserType ==
  ASSUME TypeOK, NEW p \in Proc, NEW s \in Sid, StopsBrowser(p, s)
  PROVE  TypeOK'
<1>1. op' \in [Proc -> Op]
  <2>1. op' = [op EXCEPT ![p] = [op[p] EXCEPT !.stage = "reaping", !.sid = s]]
    BY DEF TypeOK, StopsBrowser, Op
  <2>2. [op[p] EXCEPT !.stage = "reaping", !.sid = s] \in Op
    BY DEF TypeOK, Op, Stages
  <2>3. QED
    BY <2>1, <2>2 DEF TypeOK
<1>2. os' \in [Pid -> Sid \cup {Free, Stranger, Foreign}]
  BY DEF TypeOK, StopsBrowser
<1>3. QED
  BY <1>1, <1>2 DEF TypeOK, StopsBrowser

LEMMA WorksType ==
  ASSUME TypeOK, NEW p \in Proc, Works(p)
  PROVE  TypeOK'
<1>1. CASE StopSweep(p)
  BY <1>1, NoEffectType DEF StopSweep
<1>2. ASSUME NEW s \in Sid,
             \/ CreateRefused(p, s) \/ CallFails(p, s)
             \/ AcquireRefused(p, s) \/ NothingNavigated(p, s)
      PROVE  TypeOK'
  BY <1>2, NoEffectType DEF CreateRefused, CallFails, AcquireRefused, NothingNavigated
<1>3. ASSUME NEW s \in Sid, CreateLaunchFails(p, s)
      PROVE  TypeOK'
  BY <1>3, ReturnType DEF CreateLaunchFails, TypeOK
<1>4. ASSUME NEW s \in Sid, NEW q \in Pid, CreateLaunches(p, s, q)
      PROVE  TypeOK'
  <2>1. op' \in [Proc -> Op]
    <3>1. op' = [op EXCEPT ![p] = [op[p] EXCEPT !.stage = "launched", !.pid = q]]
      BY <1>4 DEF TypeOK, CreateLaunches, Op
    <3>2. [op[p] EXCEPT !.stage = "launched", !.pid = q] \in Op
      BY DEF TypeOK, Op, Stages
    <3>3. QED
      BY <3>1, <3>2 DEF TypeOK
  <2>2. QED
    BY <1>4, <2>1 DEF TypeOK, CreateLaunches
<1>5. ASSUME NEW s \in Sid, CreateWrites(p, s)
      PROVE  TypeOK'
  <2>1. PICK ttl \in TTLs : Write(p, s, NewRecord(op[p].now, ttl, TRUE, op[p].pid))
    BY <1>5 DEF CreateWrites
  <2>2. NewRecord(op[p].now, ttl, TRUE, op[p].pid) \in Record
    BY NewRecordType, StoreAssumption DEF TypeOK, Op
  <2>3. QED
    BY <1>5, <2>1, <2>2, WriteType DEF TypeOK, CreateWrites
<1>6. ASSUME NEW s \in Sid, CreateWithoutLaunch(p, s)
      PROVE  TypeOK'
  <2>1. PICK ttl \in TTLs, mode \in CreateModes \ {"launch"} :
          Write(p, s, NewRecord(op[p].now, ttl, mode = "adopt", NoPid))
    BY <1>6 DEF CreateWithoutLaunch
  <2>2. NewRecord(op[p].now, ttl, mode = "adopt", NoPid) \in Record
    BY NewRecordType, StoreAssumption DEF TypeOK, Op
  <2>3. QED
    BY <1>6, <2>1, <2>2, WriteType DEF TypeOK, CreateWithoutLaunch
<1>7. ASSUME NEW s \in Sid, AcquireGranted(p, s)
      PROVE  TypeOK'
  <2>1. Leased(rec[s], HolderOf[p], op[p].now) \in Record
    BY LeasedType, StoreAssumption DEF TypeOK, Op
  <2>2. op[p].now + LeaseTTL \in Nat
    BY RecordAssumption DEF TypeOK, Op
  <2>3. grant' \in [Proc -> [Sid -> Nat]]
    BY <1>7, <2>2 DEF AcquireGranted, TypeOK
  <2>4. QED
    BY <1>7, <2>1, <2>3, WriteType DEF TypeOK, AcquireGranted
<1>8. ASSUME NEW s \in Sid, Release(p, s)
      PROVE  TypeOK'
  <2>1. Unleased(rec[s]) \in Record /\ rec[s] \in Record
    BY UnleasedType DEF TypeOK
  <2>2. grant' \in [Proc -> [Sid -> Nat]]
    BY <1>8 DEF Release, TypeOK
  <2>3. QED
    BY <1>8, <2>1, <2>2, WriteType DEF TypeOK, Release
<1>9. ASSUME NEW s \in Sid, BumpGeneration(p, s)
      PROVE  TypeOK'
  <2>1. [rec[s] EXCEPT !.generation = rec[s].generation + 1] \in Record
    BY BumpType DEF TypeOK
  <2>2. QED
    BY <1>9, <2>1, WriteType DEF TypeOK, BumpGeneration
<1>10. ASSUME NEW s \in Sid, NEW hs \in SUBSET Host \ {{}}, RecordNavigated(p, s, hs)
       PROVE  TypeOK'
  <2>1. PICK m \in Merges(rec[s], hs) : Write(p, s, WithHosts(rec[s], m, hs))
    BY <1>10 DEF RecordNavigated
  <2>2. WithHosts(rec[s], m, hs) \in Record
    BY WithHostsType DEF TypeOK
  <2>3. QED
    BY <1>10, <2>1, <2>2, WriteType DEF TypeOK, RecordNavigated
<1>11. ASSUME NEW s \in Sid, CloseKills(p, s) \/ SweepKills(p, s)
       PROVE  TypeOK'
  BY <1>11, StopsBrowserType DEF CloseKills, SweepKills
<1>12. ASSUME NEW s \in Sid, CloseWrites(p, s)
       PROVE  TypeOK'
  <2>1. Ended(rec[s], "closed") \in Record
    BY EndedType DEF TypeOK, EndedStatus
  <2>2. grant' \in [Proc -> [Sid -> Nat]]
    BY <1>12 DEF CloseWrites, TypeOK
  <2>3. QED
    BY <1>12, <2>1, <2>2, WriteType DEF TypeOK, CloseWrites
<1>13. ASSUME NEW s \in Sid, SweepSkips(p, s)
       PROVE  TypeOK'
  BY <1>13, SweptPastType DEF TypeOK, SweepSkips
<1>14. ASSUME NEW s \in Sid, SweepDropsLease(p, s)
       PROVE  TypeOK'
  BY <1>14, SweptPastType, UnleasedType DEF TypeOK, SweepDropsLease
<1>15. ASSUME NEW s \in Sid, SweepPurges(p, s)
       PROVE  TypeOK'
  BY <1>15, SweptPastType, NoRecordType DEF TypeOK, SweepPurges
<1>16. ASSUME NEW s \in Sid, SweepExpires(p, s)
       PROVE  TypeOK'
  BY <1>16, SweptPastType, EndedType DEF TypeOK, SweepExpires, EndedStatus
<1>17. QED
  BY <1>1, <1>2, <1>3, <1>4, <1>5, <1>6, <1>7, <1>8, <1>9, <1>10, <1>11, <1>12,
     <1>13, <1>14, <1>15, <1>16 DEF Works

LEMMA TypeStep == TypeOK /\ [Next]_vars => TypeOK'
<1> SUFFICES ASSUME TypeOK, [Next]_vars PROVE TypeOK'
  OBVIOUS
<1>1. CASE \E p \in Proc : Works(p)
  BY <1>1, WorksType
<1>2. ASSUME NEW p \in Proc, NEW v \in Verbs, NEW s \in Sid, Call(p, v, s)
      PROVE  TypeOK'
  <2>1. [Idle EXCEPT !.verb = v, !.stage = "waiting", !.sid = s, !.now = clock] \in Op
    BY IdleType DEF Op, Stages, TypeOK
  <2>2. QED
    BY <1>2, <2>1 DEF TypeOK, Call
<1>3. ASSUME NEW p \in Proc, NEW f \in Filters, StartSweep(p, f)
      PROVE  TypeOK'
  <2> DEFINE todo == {s \in Sid : rec[s].status # "absent"}
  <2>1. [Idle EXCEPT !.stage = "sweeping", !.now = clock, !.filter = f, !.todo = todo] \in Op
    BY IdleType, StoreAssumption DEF Op, Stages, TypeOK
  <2>2. QED
    BY <1>3, <2>1 DEF TypeOK, StartSweep
<1>4. CASE Tick
  BY <1>4 DEF Tick, TypeOK
<1>5. ASSUME NEW p \in Proc, Dies(p)
      PROVE  TypeOK'
  BY <1>5, ReturnType DEF Dies, Fault, TypeOK
<1>6. ASSUME NEW q \in Pid, BrowserExits(q) \/ PidReused(q)
      PROVE  TypeOK'
  BY <1>6 DEF BrowserExits, PidReused, Fault, TypeOK
<1>7. ASSUME NEW s \in Sid, Corrupts(s)
      PROVE  TypeOK'
  BY <1>7, NoRecordType DEF Corrupts, Fault, TypeOK
<1>8. CASE UNCHANGED vars
  BY <1>8 DEF vars, TypeOK
<1>9. QED
  BY <1>1, <1>2, <1>3, <1>4, <1>5, <1>6, <1>7, <1>8 DEF Next

\* Every variable keeps to its type, whatever the faults.  (FileSessionStore)
THEOREM TypeCorrect == Spec => []TypeOK
<1>1. Init => TypeOK
  BY TypeInit
<1>2. TypeOK /\ [Next]_vars => TypeOK'
  BY TypeStep
<1>3. QED
  BY <1>1, <1>2, PTL DEF Spec

-----------------------------------------------------------------------------
(* The lock *)

\* What a stage says about a call: the clock reading is not ahead of the
\* clock, and only its own verbs get a call into a stage.
Staged ==
  \A p \in Proc :
    /\ op[p].now <= clock
    /\ op[p].stage = "waiting" => op[p].verb # "clean"
    /\ op[p].stage = "sweeping" => op[p].verb = "clean"
    /\ op[p].stage = "launched" => op[p].verb = "create" /\ op[p].pid \in Pid
    /\ op[p].stage = "reaping" => op[p].verb \in {"close", "clean"}

\* One process inside a session at a time.
Exclusive == \A p, q \in Proc, s \in Sid : Inside(p, s) /\ Inside(q, s) => p = q

\* Between a launch or a kill and the write of the record, the record is the
\* one the process decided on.
RecordInside ==
  \A p \in Proc, s \in Sid : Inside(p, s) =>
    /\ op[p].stage = "launched" => rec[s].status = "absent"
    /\ op[p].stage = "reaping" => rec[s].status = "active"
    /\ op[p].stage = "reaping" /\ op[p].verb = "clean" => ~LeaseIsLive(rec[s], op[p].now)

LockInv == Staged /\ Exclusive /\ RecordInside

\* What a working process does to its own entry of op.
Others(p) == \A q \in Proc \ {p} : op'[q] = op[q]
Leaves(p) == Others(p) /\ op'[p].stage = "idle" /\ op'[p].now = 0
Sweeps(p) ==
  /\ Others(p)
  /\ op'[p].stage = "sweeping" /\ op'[p].verb = "clean" /\ op'[p].now = op[p].now
Launches(p) ==
  /\ Others(p) /\ UNCHANGED rec
  /\ op'[p].stage = "launched" /\ op'[p].verb = "create" /\ op'[p].now = op[p].now
  /\ op'[p].pid \in Pid
  /\ op'[p].sid \in Sid /\ Unlocked(op'[p].sid) /\ rec[op'[p].sid].status = "absent"
Kills(p) ==
  /\ Others(p) /\ UNCHANGED rec
  /\ op'[p].stage = "reaping" /\ op'[p].verb \in {"close", "clean"} /\ op'[p].now = op[p].now
  /\ op'[p].sid \in Sid /\ Unlocked(op'[p].sid) /\ rec[op'[p].sid].status = "active"
  /\ op'[p].verb = "clean" => ~LeaseIsLive(rec[op'[p].sid], op'[p].now)

\* The entries of op the actions write, field by field.
LEMMA ReturnOp ==
  ASSUME TypeOK, NEW p \in Proc, Return(p)
  PROVE  Leaves(p)
  BY DEF TypeOK, Return, Leaves, Others, Idle

LEMMA SweptPastOp ==
  ASSUME TypeOK, NEW p \in Proc, NEW s \in Sid, SweptPast(p, s), op[p].verb = "clean"
  PROVE  Sweeps(p)
<1>1. op' = [op EXCEPT ![p] = [op[p] EXCEPT !.stage = "sweeping", !.sid = NoSid,
                                            !.todo = op[p].todo \ {s}]]
  BY DEF TypeOK, SweptPast, Op
<1>2. op'[p] = [op[p] EXCEPT !.stage = "sweeping", !.sid = NoSid, !.todo = op[p].todo \ {s}]
  BY <1>1 DEF TypeOK
<1>3. op[p] \in Op
  BY DEF TypeOK
<1>4. QED
  BY <1>1, <1>2, <1>3 DEF TypeOK, Sweeps, Others, Op

LEMMA LaunchedOp ==
  ASSUME TypeOK, NEW p \in Proc, NEW s \in Sid, NEW q \in Pid, CreateLaunches(p, s, q)
  PROVE  Launches(p) /\ op'[p].sid = s /\ op'[p].pid = q
<1>1. op' = [op EXCEPT ![p] = [op[p] EXCEPT !.stage = "launched", !.pid = q]]
  BY DEF TypeOK, CreateLaunches, Op
<1>2. op'[p] = [op[p] EXCEPT !.stage = "launched", !.pid = q]
  BY <1>1 DEF TypeOK
<1>3. op[p] \in Op
  BY DEF TypeOK
<1>4. op'[p].stage = "launched" /\ op'[p].pid = q /\ op'[p].verb = op[p].verb
      /\ op'[p].now = op[p].now /\ op'[p].sid = op[p].sid
  BY <1>2, <1>3 DEF Op
<1>5. Others(p)
  BY <1>1 DEF Others, TypeOK
<1>6. QED
  BY <1>4, <1>5 DEF Launches, CreateLaunches, Turn

LEMMA StopsBrowserOp ==
  ASSUME TypeOK, NEW p \in Proc, NEW s \in Sid, StopsBrowser(p, s)
  PROVE  /\ Others(p) /\ UNCHANGED rec
         /\ op'[p].stage = "reaping" /\ op'[p].sid = s
         /\ op'[p].verb = op[p].verb /\ op'[p].now = op[p].now
<1>1. op' = [op EXCEPT ![p] = [op[p] EXCEPT !.stage = "reaping", !.sid = s]]
  BY DEF TypeOK, StopsBrowser, Op
<1>2. op'[p] = [op[p] EXCEPT !.stage = "reaping", !.sid = s]
  BY <1>1 DEF TypeOK
<1>3. op[p] \in Op
  BY DEF TypeOK
<1>4. QED
  BY <1>1, <1>2, <1>3 DEF TypeOK, StopsBrowser, Others, Op

\* A working process leaves its call, goes on sweeping, or goes inside.
LEMMA WorksOp ==
  ASSUME TypeOK, Staged, NEW p \in Proc, Works(p)
  PROVE  clock' = clock /\ (Leaves(p) \/ Sweeps(p) \/ Launches(p) \/ Kills(p))
<1>1. CASE StopSweep(p)
  BY <1>1, ReturnOp DEF StopSweep, NoEffect
<1>2. ASSUME NEW s \in Sid,
             \/ CreateRefused(p, s) \/ CallFails(p, s)
             \/ AcquireRefused(p, s) \/ NothingNavigated(p, s)
      PROVE  clock' = clock /\ Leaves(p)
  BY <1>2, ReturnOp DEF CreateRefused, CallFails, AcquireRefused, NothingNavigated, NoEffect
<1>3. ASSUME NEW s \in Sid,
             \/ CreateLaunchFails(p, s) \/ CreateWrites(p, s) \/ CreateWithoutLaunch(p, s)
             \/ AcquireGranted(p, s) \/ Release(p, s) \/ BumpGeneration(p, s)
             \/ CloseWrites(p, s) \/ \E hs \in SUBSET Host \ {{}} : RecordNavigated(p, s, hs)
      PROVE  clock' = clock /\ Leaves(p)
  BY <1>3, ReturnOp DEF CreateLaunchFails, CreateWrites, CreateWithoutLaunch, AcquireGranted,
                        Release, BumpGeneration, RecordNavigated, CloseWrites, Write
<1>4. ASSUME NEW s \in Sid, NEW q \in Pid, CreateLaunches(p, s, q)
      PROVE  clock' = clock /\ Launches(p)
  BY <1>4, LaunchedOp DEF CreateLaunches
<1>5. ASSUME NEW s \in Sid, CloseKills(p, s)
      PROVE  clock' = clock /\ Kills(p)
  BY <1>5, StopsBrowserOp DEF CloseKills, Turn, StopsBrowser, Kills
<1>6. ASSUME NEW s \in Sid, SweepKills(p, s)
      PROVE  clock' = clock /\ Kills(p)
  BY <1>6, StopsBrowserOp DEF SweepKills, Visits, Expires, StopsBrowser, Kills, Staged
<1>7. ASSUME NEW s \in Sid,
             SweepSkips(p, s) \/ SweepDropsLease(p, s) \/ SweepPurges(p, s) \/ SweepExpires(p, s)
      PROVE  clock' = clock /\ Sweeps(p)
  BY <1>7, SweptPastOp DEF SweepSkips, SweepDropsLease, SweepPurges, SweepExpires, Visits, Staged
<1>8. QED
  BY <1>1, <1>2, <1>3, <1>4, <1>5, <1>6, <1>7 DEF Works

\* Only a process that has the lock of a session writes its record.
LEMMA WorksRec ==
  ASSUME TypeOK, NEW p \in Proc, Works(p), NEW s \in Sid, rec'[s] # rec[s]
  PROVE  Unlocked(s) \/ Inside(p, s)
<1>1. ASSUME NEW t \in Sid, NEW r, rec' = [rec EXCEPT ![t] = r], Unlocked(t) \/ Inside(p, t)
      PROVE  Unlocked(s) \/ Inside(p, s)
  <2>1. t = s
    BY <1>1 DEF TypeOK
  <2>2. QED
    BY <1>1, <2>1
<1>2. CASE StopSweep(p)
  BY <1>2 DEF StopSweep, NoEffect
<1>3. ASSUME NEW t \in Sid,
             \/ CreateRefused(p, t) \/ CallFails(p, t) \/ AcquireRefused(p, t)
             \/ NothingNavigated(p, t)
             \/ CreateLaunchFails(p, t) \/ SweepSkips(p, t)
             \/ CloseKills(p, t) \/ SweepKills(p, t)
             \/ \E q \in Pid : CreateLaunches(p, t, q)
      PROVE  FALSE
  BY <1>3 DEF CreateRefused, CallFails, AcquireRefused, NothingNavigated, NoEffect, CreateLaunchFails,
              SweepSkips, CloseKills, SweepKills, StopsBrowser, CreateLaunches
<1>4. ASSUME NEW t \in Sid,
             \/ CreateWithoutLaunch(p, t) \/ AcquireGranted(p, t) \/ Release(p, t) \/ BumpGeneration(p, t)
             \/ \E hs \in SUBSET Host \ {{}} : RecordNavigated(p, t, hs)
      PROVE  Unlocked(s) \/ Inside(p, s)
  <2>1. Unlocked(t) /\ \E r : rec' = [rec EXCEPT ![t] = r]
    BY <1>4 DEF CreateWithoutLaunch, AcquireGranted, Release, BumpGeneration, RecordNavigated, Turn, Write
  <2>2. QED
    BY <1>1, <2>1
<1>5. ASSUME NEW t \in Sid, CreateWrites(p, t)
      PROVE  Unlocked(s) \/ Inside(p, s)
  <2>1. Inside(p, t) /\ \E r : rec' = [rec EXCEPT ![t] = r]
    BY <1>5 DEF CreateWrites, Write, Inside
  <2>2. QED
    BY <1>1, <2>1
<1>6. ASSUME NEW t \in Sid, CloseWrites(p, t)
      PROVE  Unlocked(s) \/ Inside(p, s)
  <2>1. (Unlocked(t) \/ Inside(p, t)) /\ \E r : rec' = [rec EXCEPT ![t] = r]
    BY <1>6 DEF CloseWrites, Turn, Write
  <2>2. QED
    BY <1>1, <2>1
<1>7. ASSUME NEW t \in Sid, SweepDropsLease(p, t) \/ SweepPurges(p, t) \/ SweepExpires(p, t)
      PROVE  Unlocked(s) \/ Inside(p, s)
  <2>1. (Unlocked(t) \/ Inside(p, t)) /\ \E r : rec' = [rec EXCEPT ![t] = r]
    BY <1>7 DEF SweepDropsLease, SweepPurges, SweepExpires, Visits
  <2>2. QED
    BY <1>1, <2>1
<1>8. QED
  BY <1>2, <1>3, <1>4, <1>5, <1>6, <1>7 DEF Works

\* The other steps: a call, the start of a sweep, a death, and what happens
\* outside the processes.
Begins(p) ==
  /\ Others(p) /\ UNCHANGED rec
  /\ op'[p].now = clock
  /\ \/ op'[p].stage = "waiting" /\ op'[p].verb # "clean"
     \/ op'[p].stage = "sweeping" /\ op'[p].verb = "clean"

LEMMA CallOp ==
  ASSUME TypeOK, NEW p \in Proc, NEW v \in Verbs, NEW s \in Sid, Call(p, v, s)
  PROVE  Begins(p)
<1>1. op'[p] = [Idle EXCEPT !.verb = v, !.stage = "waiting", !.sid = s, !.now = clock]
  BY DEF TypeOK, Call
<1>2. op'[p].stage = "waiting" /\ op'[p].verb = v /\ op'[p].now = clock
  BY <1>1 DEF Idle
<1>3. QED
  BY <1>2 DEF TypeOK, Call, Begins, Others

LEMMA StartSweepOp ==
  ASSUME TypeOK, NEW p \in Proc, NEW f \in Filters, StartSweep(p, f)
  PROVE  Begins(p)
<1> DEFINE todo == {s \in Sid : rec[s].status # "absent"}
<1>1. op'[p] = [Idle EXCEPT !.stage = "sweeping", !.now = clock, !.filter = f, !.todo = todo]
  BY DEF TypeOK, StartSweep
<1> HIDE DEF todo
<1>2. op'[p].stage = "sweeping" /\ op'[p].verb = "clean" /\ op'[p].now = clock
  BY <1>1 DEF Idle
<1>3. QED
  BY <1>2 DEF TypeOK, StartSweep, Begins, Others

LEMMA StepKinds ==
  ASSUME TypeOK, Next
  PROVE  \/ \E p \in Proc : Works(p)
         \/ clock' = clock /\ \E p \in Proc : Begins(p)
         \/ clock' = clock /\ UNCHANGED rec /\ \E p \in Proc : Leaves(p)
         \/ Tick
         \/ UNCHANGED <<clock, op, rec>>
         \/ UNCHANGED <<clock, op>> /\ \E s \in Sid : Corrupts(s)
<1>1. ASSUME NEW p \in Proc, NEW v \in Verbs, NEW s \in Sid, Call(p, v, s)
      PROVE  clock' = clock /\ Begins(p)
  BY <1>1, CallOp DEF Call
<1>2. ASSUME NEW p \in Proc, NEW f \in Filters, StartSweep(p, f)
      PROVE  clock' = clock /\ Begins(p)
  BY <1>2, StartSweepOp DEF StartSweep
<1>3. ASSUME NEW q \in Pid, BrowserExits(q) \/ PidReused(q)
      PROVE  UNCHANGED <<clock, op, rec>>
  BY <1>3 DEF BrowserExits, PidReused
<1>4. ASSUME NEW p \in Proc, Dies(p)
      PROVE  clock' = clock /\ UNCHANGED rec /\ Leaves(p)
  BY <1>4, ReturnOp DEF Dies
<1>5. ASSUME NEW s \in Sid, Corrupts(s)
      PROVE  UNCHANGED <<clock, op>>
  BY <1>5 DEF Corrupts
<1>6. QED
  BY <1>1, <1>2, <1>3, <1>4, <1>5 DEF Next

LEMMA LockInit == Init => LockInv
  BY DEF Init, LockInv, Staged, Exclusive, RecordInside, Inside, Idle

LEMMA StagedStep ==
  ASSUME TypeOK, Staged, Next
  PROVE  Staged'
<1>0. clock \in Nat /\ \A p \in Proc : op[p].now \in Nat
  BY DEF TypeOK, Op
<1>1. ASSUME NEW q \in Proc, clock' = clock,
             Leaves(q) \/ Sweeps(q) \/ Launches(q) \/ Kills(q) \/ Begins(q)
      PROVE  Staged'
  BY <1>0, <1>1 DEF Leaves, Sweeps, Launches, Kills, Begins, Others, Staged
<1>2. CASE Tick
  BY <1>0, <1>2 DEF Tick, Staged
<1>3. CASE UNCHANGED <<clock, op>>
  BY <1>3 DEF Staged
<1>4. QED
  BY <1>1, <1>2, <1>3, StepKinds, WorksOp

LEMMA ExclusiveStep ==
  ASSUME TypeOK, Staged, Exclusive, Next
  PROVE  Exclusive'
<1>1. ASSUME NEW q \in Proc, Leaves(q) \/ Sweeps(q) \/ Begins(q)
      PROVE  Exclusive'
  BY <1>1 DEF Leaves, Sweeps, Begins, Others, Exclusive, Inside
<1>2. ASSUME NEW q \in Proc, Launches(q) \/ Kills(q)
      PROVE  Exclusive'
  BY <1>2 DEF Launches, Kills, Others, Unlocked, Exclusive, Inside
<1>3. CASE UNCHANGED op
  BY <1>3 DEF Exclusive, Inside
<1>4. QED
  BY <1>1, <1>2, <1>3, StepKinds, WorksOp DEF Tick

LEMMA RecordInsideStep ==
  ASSUME TypeOK, LockInv, Next
  PROVE  RecordInside'
<1> SUFFICES ASSUME NEW p \in Proc, NEW s \in Sid, Inside(p, s)'
             PROVE  /\ op'[p].stage = "launched" => rec'[s].status = "absent"
                    /\ op'[p].stage = "reaping" => rec'[s].status = "active"
                    /\ op'[p].stage = "reaping" /\ op'[p].verb = "clean"
                         => ~LeaseIsLive(rec'[s], op'[p].now)
  BY DEF RecordInside, LeaseIsLive
<1> USE DEF LockInv
<1>1. ASSUME op'[p] = op[p], rec'[s] = rec[s]
      PROVE  /\ op'[p].stage = "launched" => rec'[s].status = "absent"
             /\ op'[p].stage = "reaping" => rec'[s].status = "active"
             /\ op'[p].stage = "reaping" /\ op'[p].verb = "clean"
                  => ~LeaseIsLive(rec'[s], op'[p].now)
  <2>1. Inside(p, s)
    BY <1>1 DEF Inside
  <2>2. QED
    BY <1>1, <2>1 DEF RecordInside
<1>2. ASSUME NEW q \in Proc, Works(q), q # p
      PROVE  op'[p] = op[p] /\ rec'[s] = rec[s]
  <2>1. op'[p] = op[p]
    BY <1>2, WorksOp DEF Leaves, Sweeps, Launches, Kills, Others
  <2>2. Inside(p, s)
    BY <2>1 DEF Inside
  <2>3. rec'[s] = rec[s]
    BY <1>2, <2>2, WorksRec DEF Unlocked, Exclusive
  <2>4. QED
    BY <2>1, <2>3
<1>3. ASSUME Works(p)
      PROVE  /\ op'[p].stage = "launched" => rec'[s].status = "absent"
             /\ op'[p].stage = "reaping" => rec'[s].status = "active"
             /\ op'[p].stage = "reaping" /\ op'[p].verb = "clean"
                  => ~LeaseIsLive(rec'[s], op'[p].now)
  BY <1>3, WorksOp DEF Leaves, Sweeps, Launches, Kills, Inside
<1>4. ASSUME NEW q \in Proc, Begins(q) \/ Leaves(q), UNCHANGED rec
      PROVE  op'[p] = op[p] /\ rec'[s] = rec[s]
  BY <1>4 DEF Begins, Leaves, Others, Inside
<1>5. ASSUME NEW t \in Sid, Corrupts(t), UNCHANGED op
      PROVE  op'[p] = op[p] /\ rec'[s] = rec[s]
  <2>1. Inside(p, s)
    BY <1>5 DEF Inside
  <2>2. t # s
    BY <1>5, <2>1 DEF Corrupts, Unlocked
  <2>3. QED
    BY <1>5, <2>2 DEF Corrupts, TypeOK
<1>6. CASE \E q \in Proc : Works(q)
  BY <1>1, <1>2, <1>3, <1>6
<1>7. CASE Tick \/ UNCHANGED <<op, rec>>
  BY <1>1, <1>7 DEF Tick
<1>8. QED
  BY <1>1, <1>4, <1>5, <1>6, <1>7, StepKinds DEF Begins

LEMMA LockStep == TypeOK /\ LockInv /\ [Next]_vars => LockInv'
<1>1. ASSUME TypeOK, LockInv, Next
      PROVE  LockInv'
  BY <1>1, StagedStep, ExclusiveStep, RecordInsideStep DEF LockInv
<1>2. ASSUME LockInv, UNCHANGED vars
      PROVE  LockInv'
  BY <1>2 DEF LockInv, Staged, Exclusive, RecordInside, Inside, vars
<1>3. QED
  BY <1>1, <1>2

\* What a process read under the lock still holds when it writes, although it
\* started or stopped a browser in between, and others may have died there.
\* (create, close, _clean_one_unlocked)
THEOREM LockRespected == Spec => []LockInv
<1>1. Init => LockInv
  BY LockInit
<1>2. TypeOK /\ LockInv /\ [Next]_vars => LockInv'
  BY LockStep
<1>3. QED
  BY <1>1, <1>2, TypeCorrect, PTL DEF Spec

-----------------------------------------------------------------------------
(* Grants *)

\* No two processes take leases under one name.
OwnHolders == \A p, q \in Proc : HolderOf[p] = HolderOf[q] => p = q

\* What GrantHonoured promises process p on session s.
Kept(p, s) ==
  /\ rec[s].status = "active"
  /\ rec[s].lease.holder = HolderOf[p]
  /\ rec[s].lease.expires_at >= grant[p][s]

LEMMA GrantWorks ==
  ASSUME OwnHolders, TypeOK, LockInv, GrantHonoured, NEW q \in Proc, Works(q),
         NEW p \in Proc, NEW s \in Sid, HoldsGrant(p, s)'
  PROVE  Kept(p, s)'
<1> USE DEF LockInv
<1>1. /\ HoldsGrant(p, s) => Kept(p, s)
      /\ clock' = clock
      /\ rec[s] \in Record /\ rec[s].lease.expires_at \in Nat
      /\ grant[p][s] \in Nat /\ clock \in Nat /\ op[q].now \in Nat /\ op[q].now <= clock
      /\ HolderOf[p] # NoHolder
  BY WorksOp, StoreAssumption, RecordAssumption
     DEF GrantHonoured, Kept, TypeOK, Op, Record, Lease, Staged
<1>2. ASSUME grant'[p][s] = grant[p][s], rec'[s] = rec[s]
      PROVE  Kept(p, s)'
  BY <1>1, <1>2 DEF Kept, HoldsGrant
<1>3. ASSUME grant'[p][s] = grant[p][s]
      PROVE  Kept(p, s)
  BY <1>1, <1>3 DEF HoldsGrant
<1>4. CASE StopSweep(q)
  BY <1>2, <1>4 DEF StopSweep, NoEffect
<1>5. ASSUME NEW t \in Sid,
             \/ CreateRefused(q, t) \/ CallFails(q, t) \/ AcquireRefused(q, t)
             \/ NothingNavigated(q, t)
             \/ CreateLaunchFails(q, t) \/ SweepSkips(q, t)
             \/ CloseKills(q, t) \/ SweepKills(q, t)
             \/ \E b \in Pid : CreateLaunches(q, t, b)
      PROVE  Kept(p, s)'
  BY <1>2, <1>5 DEF CreateRefused, CallFails, AcquireRefused, NothingNavigated, NoEffect, CreateLaunchFails,
                    SweepSkips, CloseKills, SweepKills, StopsBrowser, CreateLaunches
<1>6. ASSUME NEW t \in Sid, NEW r, rec' = [rec EXCEPT ![t] = r], grant'[p][s] = grant[p][s],
             t = s => /\ r.status = "active"
                      /\ r.lease = rec[s].lease
      PROVE  Kept(p, s)'
  <2>1. CASE t = s
    BY <1>3, <1>6, <2>1 DEF Kept, TypeOK
  <2>2. CASE t # s
    BY <1>2, <1>6, <2>2 DEF TypeOK
  <2>3. QED
    BY <2>1, <2>2
<1>7. ASSUME NEW t \in Sid, CreateWrites(q, t) \/ CreateWithoutLaunch(q, t)
      PROVE  Kept(p, s)'
  <2>1. rec[t].status = "absent"
    BY <1>7 DEF CreateWrites, CreateWithoutLaunch, RecordInside, Inside
  <2>2. grant' = grant /\ \E r : rec' = [rec EXCEPT ![t] = r]
    BY <1>7 DEF CreateWrites, CreateWithoutLaunch, Write
  <2>3. t # s
    BY <1>3, <2>1, <2>2 DEF Kept
  <2>4. QED
    BY <1>6, <2>2, <2>3
<1>8. ASSUME NEW t \in Sid, AcquireGranted(q, t)
      PROVE  Kept(p, s)'
  <2>1. rec' = [rec EXCEPT ![t] = Leased(rec[t], HolderOf[q], op[q].now)]
        /\ grant' = [grant EXCEPT ![q][t] = op[q].now + LeaseTTL]
    BY <1>8 DEF AcquireGranted, Write
  <2>2. CASE t # s
    BY <1>2, <2>1, <2>2 DEF TypeOK
  <2>3. CASE t = s /\ p = q
    <3>1. Leased(rec[s], HolderOf[q], op[q].now).status = rec[s].status
          /\ Leased(rec[s], HolderOf[q], op[q].now).lease
               = [holder |-> HolderOf[q], expires_at |-> op[q].now + LeaseTTL]
      BY <1>1 DEF Leased, Record
    <3>2. grant'[p][s] = op[q].now + LeaseTTL
      BY <2>1, <2>3 DEF TypeOK
    <3>3. op[q].now + LeaseTTL \in Nat
      BY <1>1, RecordAssumption
    <3>4. QED
      BY <1>8, <2>1, <2>3, <3>1, <3>2, <3>3 DEF Kept, AcquireGranted, TypeOK
  <2>4. CASE t = s /\ p # q
    <3>1. grant'[p][s] = grant[p][s]
      BY <2>1, <2>4 DEF TypeOK
    <3>2. Kept(p, s) /\ grant[p][s] > clock
      BY <1>1, <1>3, <3>1 DEF HoldsGrant
    <3>3. LeaseRefused(rec[s], HolderOf[q], op[q].now)
      BY <1>1, <2>4, <3>2 DEF Kept, LeaseRefused, LeaseIsLive, OwnHolders
    <3>4. QED
      BY <1>8, <2>4, <3>3 DEF AcquireGranted
  <2>5. QED
    BY <2>2, <2>3, <2>4
<1>9. ASSUME NEW t \in Sid, Release(q, t)
      PROVE  Kept(p, s)'
  <2>1. grant' = [grant EXCEPT ![q][t] = 0]
    BY <1>9 DEF Release
  <2>2. ~(t = s /\ p = q)
    BY <1>1, <2>1 DEF HoldsGrant, TypeOK
  <2>3. grant'[p][s] = grant[p][s]
    BY <2>1, <2>2 DEF TypeOK
  <2>4. t = s => rec[s].lease.holder # HolderOf[q]
    BY <1>3, <2>2, <2>3 DEF Kept, OwnHolders
  <2>5. t = s => rec' = [rec EXCEPT ![s] = rec[s]]
    BY <1>9, <2>4 DEF Release, Write
  <2>6. t # s => rec'[s] = rec[s]
    BY <1>9 DEF Release, Write, TypeOK
  <2>7. QED
    BY <1>2, <2>3, <2>5, <2>6 DEF TypeOK
<1>10. ASSUME NEW t \in Sid, BumpGeneration(q, t)
       PROVE  Kept(p, s)'
  <2> DEFINE r == [rec[t] EXCEPT !.generation = rec[t].generation + 1]
  <2>1. rec' = [rec EXCEPT ![t] = r] /\ grant' = grant
    BY <1>10 DEF BumpGeneration, Write
  <2>2. t = s => r.status = "active" /\ r.lease = rec[s].lease
    BY <1>1, <1>3, <2>1 DEF Kept, Record
  <2>3. QED
    BY <1>6, <2>1, <2>2
<1>11. ASSUME NEW t \in Sid, NEW hs \in SUBSET Host \ {{}}, RecordNavigated(q, t, hs)
       PROVE  Kept(p, s)'
  <2>1. PICK m \in Merges(rec[t], hs) : Write(q, t, WithHosts(rec[t], m, hs))
    BY <1>11 DEF RecordNavigated
  <2>2. rec' = [rec EXCEPT ![t] = WithHosts(rec[t], m, hs)] /\ grant' = grant
    BY <1>11, <2>1 DEF RecordNavigated, Write
  <2>3. t = s => WithHosts(rec[t], m, hs).status = "active" /\ WithHosts(rec[t], m, hs).lease = rec[s].lease
    BY <1>1, <1>3, <2>2 DEF Kept, Record, WithHosts
  <2>4. QED
    BY <1>6, <2>2, <2>3
<1>12. ASSUME NEW t \in Sid, CloseWrites(q, t)
       PROVE  Kept(p, s)'
  <2>1. t # s
    BY <1>1, <1>12 DEF CloseWrites, HoldsGrant, TypeOK
  <2>2. rec'[s] = rec[s] /\ grant'[p][s] = grant[p][s]
    BY <1>12, <2>1 DEF CloseWrites, Write, TypeOK
  <2>3. QED
    BY <1>2, <2>2
<1>13. ASSUME NEW t \in Sid, SweepDropsLease(q, t) \/ SweepPurges(q, t) \/ SweepExpires(q, t)
       PROVE  Kept(p, s)'
  <2>1. grant' = grant /\ \E r : rec' = [rec EXCEPT ![t] = r]
    BY <1>13 DEF SweepDropsLease, SweepPurges, SweepExpires
  <2>2. Kept(p, s) /\ grant[p][s] > clock
    BY <1>1, <1>3, <2>1 DEF HoldsGrant
  <2>3. rec[s].status = "active" /\ LeaseIsLive(rec[s], op[q].now)
    BY <1>1, <2>2 DEF Kept, LeaseIsLive
  <2>4. ~(SweepDropsLease(q, s) \/ SweepPurges(q, s) \/ SweepExpires(q, s))
    <3>1. ~SweepDropsLease(q, s)
      BY <1>1, <2>3 DEF SweepDropsLease, DropsLease, DeadLease, LeaseIsLive
    <3>2. ~SweepPurges(q, s)
      BY <2>3 DEF SweepPurges, Purges, EndedStatus
    <3>3. ~SweepExpires(q, s)
      BY <2>3 DEF SweepExpires, Inside, RecordInside
    <3>4. QED
      BY <3>1, <3>2, <3>3
  <2>5. t # s
    BY <1>13, <2>4
  <2>6. QED
    BY <1>6, <2>1, <2>5
<1>14. QED
  BY <1>4, <1>5, <1>7, <1>8, <1>9, <1>10, <1>11, <1>12, <1>13 DEF Works

LEMMA GrantStep ==
  ASSUME OwnHolders, "corruption" \notin Faults
  PROVE  TypeOK /\ LockInv /\ GrantHonoured /\ [Next]_vars => GrantHonoured'
<1> SUFFICES ASSUME TypeOK, LockInv, GrantHonoured, [Next]_vars,
                    NEW p \in Proc, NEW s \in Sid, HoldsGrant(p, s)'
             PROVE  Kept(p, s)'
  BY DEF GrantHonoured, Kept
<1>1. CASE \E q \in Proc : Works(q)
  BY <1>1, GrantWorks
<1>2. ASSUME UNCHANGED <<rec, grant>>, clock' \in Nat, clock' >= clock
      PROVE  Kept(p, s)'
  BY <1>2 DEF GrantHonoured, Kept, HoldsGrant, TypeOK
<1>3. CASE \E q \in Proc, v \in Verbs, t \in Sid : Call(q, v, t)
  BY <1>2, <1>3 DEF Call, TypeOK
<1>4. CASE \E q \in Proc, f \in Filters : StartSweep(q, f)
  BY <1>2, <1>4 DEF StartSweep, TypeOK
<1>5. CASE Tick
  BY <1>2, <1>5 DEF Tick, TypeOK
<1>6. CASE \E q \in Proc : Dies(q)
  BY <1>2, <1>6 DEF Dies, TypeOK
<1>7. CASE \E q \in Pid : BrowserExits(q) \/ PidReused(q)
  BY <1>2, <1>7 DEF BrowserExits, PidReused, TypeOK
<1>8. CASE \E t \in Sid : Corrupts(t)
  BY <1>8 DEF Corrupts, Fault
<1>9. CASE UNCHANGED vars
  BY <1>2, <1>9 DEF vars, TypeOK
<1>10. QED
  BY <1>1, <1>3, <1>4, <1>5, <1>6, <1>7, <1>8, <1>9 DEF Next

\* Until it expires, is released or its session is closed, a granted lease is on
\* the record of an active session: no sweep, acquirer or late writer takes it
\* away, provided holders have names of their own and no record is damaged.
\* (acquire_lease, release_lease, clean)
THEOREM GrantsHonoured ==
  ASSUME OwnHolders, "corruption" \notin Faults
  PROVE  Spec => []GrantHonoured
<1>1. Init => GrantHonoured
  BY DEF Init, GrantHonoured, HoldsGrant
<1>2. TypeOK /\ LockInv /\ GrantHonoured /\ [Next]_vars => GrantHonoured'
  BY GrantStep
<1>3. QED
  BY <1>1, <1>2, TypeCorrect, LockRespected, PTL DEF Spec

\* Under the same provisos no two processes are attached to one session.
\* (acquire_lease)
THEOREM AttachedAlone ==
  ASSUME OwnHolders, "corruption" \notin Faults
  PROVE  Spec => []OneProcessAttached
<1>1. GrantHonoured => OneProcessAttached
  BY DEF GrantHonoured, OneProcessAttached, OwnHolders
<1>2. QED
  BY <1>1, GrantsHonoured, PTL

-----------------------------------------------------------------------------
(* Browsers *)

\* Every running browser belongs to the record of an active session or to the
\* process inside that is about to write one.
Accounted ==
  /\ \A s \in Sid : rec[s].status # "corrupt"
  /\ \A q \in Pid, s \in Sid : os[q] = s =>
       /\ Unlocked(s) => rec[s].status = "active" /\ rec[s].pid = q
       /\ \A p \in Proc : Inside(p, s) => op[p].stage = "launched" /\ op[p].pid = q

LEMMA AccountedImplies == TypeOK /\ LockInv /\ Accounted => NoOrphanBrowser /\ EndedHasNoBrowser
<1> SUFFICES ASSUME TypeOK, LockInv, Accounted
             PROVE  NoOrphanBrowser /\ EndedHasNoBrowser
  OBVIOUS
<1>1. ASSUME NEW q \in Pid, os[q] \in Sid
      PROVE  ~Orphan(q)
  <2>1. CASE Unlocked(os[q])
    BY <1>1, <2>1 DEF Accounted, Orphan
  <2>2. CASE ~Unlocked(os[q])
    BY <1>1, <2>2 DEF Accounted, Orphan, Unlocked
  <2>3. QED
    BY <2>1, <2>2
<1>2. ASSUME NEW s \in Sid, NEW q \in Pid, rec[s].status \in EndedStatus, os[q] = s
      PROVE  FALSE
  <2>1. CASE Unlocked(s)
    BY <1>2, <2>1 DEF Accounted, EndedStatus
  <2>2. CASE ~Unlocked(s)
    BY <1>2, <2>2 DEF Accounted, Unlocked, LockInv, RecordInside, EndedStatus
  <2>3. QED
    BY <2>1, <2>2
<1>3. QED
  BY <1>1, <1>2 DEF NoOrphanBrowser, EndedHasNoBrowser, Orphan

\* A step that neither takes nor gives back a lock over a launch or a kill.
Outside(p) ==
  /\ Others(p)
  /\ op[p].stage \notin {"launched", "reaping"}
  /\ op'[p].stage \notin {"launched", "reaping"}

LEMMA OutsideLocks ==
  ASSUME NEW p \in Proc, Outside(p), NEW s \in Sid
  PROVE  /\ Unlocked(s)' <=> Unlocked(s)
         /\ \A q \in Proc : Inside(q, s)' => Inside(q, s) /\ op'[q] = op[q]
  BY DEF Outside, Others, Unlocked, Inside

LEMMA AccountedQuiet ==
  ASSUME TypeOK, Accounted, NEW p \in Proc, Outside(p), UNCHANGED os,
         \A s \in Sid : rec'[s] # rec[s] =>
           /\ Unlocked(s) /\ rec'[s].status # "corrupt"
           /\ rec[s].status = "active" => rec'[s].status = "active" /\ rec'[s].pid = rec[s].pid
  PROVE  Accounted'
<1>1. ASSUME NEW s \in Sid
      PROVE  rec'[s].status # "corrupt"
  BY DEF Accounted
<1>2. ASSUME NEW q \in Pid, NEW s \in Sid, os[q] = s
      PROVE  /\ Unlocked(s)' => rec'[s].status = "active" /\ rec'[s].pid = q
             /\ \A b \in Proc : Inside(b, s)' => op'[b].stage = "launched" /\ op'[b].pid = q
  BY <1>2, OutsideLocks DEF Accounted
<1>3. QED
  BY <1>1, <1>2 DEF Accounted

\* A write that leaves an active record active and its browser where it is.
Spares(r, w) ==
  /\ w.status # "corrupt"
  /\ r.status = "active" => w.status = "active" /\ w.pid = r.pid

LEMMA AccountedWorks ==
  ASSUME TypeOK, LockInv, Accounted, NEW p \in Proc, Works(p)
  PROVE  Accounted'
<1> USE DEF LockInv
<1>1. ASSUME op[p].stage \in {"waiting", "sweeping"}, Leaves(p) \/ Sweeps(p), UNCHANGED <<rec, os>>
      PROVE  Accounted'
  BY <1>1, AccountedQuiet DEF Leaves, Sweeps, Outside
<1>2. ASSUME NEW t \in Sid, NEW r, Outside(p), rec' = [rec EXCEPT ![t] = r],
             UNCHANGED os, Unlocked(t), Spares(rec[t], r)
      PROVE  Accounted'
  BY <1>2, AccountedQuiet DEF Spares, TypeOK
<1>3. ASSUME StopSweep(p) \/ \E t \in Sid :
               \/ CreateRefused(p, t) \/ CallFails(p, t) \/ AcquireRefused(p, t)
               \/ NothingNavigated(p, t) \/ CreateLaunchFails(p, t) \/ SweepSkips(p, t)
      PROVE  Accounted'
  <2>1. UNCHANGED <<rec, os>> /\ op[p].stage \in {"waiting", "sweeping"}
    BY <1>3 DEF StopSweep, CreateRefused, CallFails, AcquireRefused, NothingNavigated, NoEffect,
                CreateLaunchFails, SweepSkips, Turn, Visits
  <2>2. Leaves(p) \/ Sweeps(p)
    BY <1>3, ReturnOp, SweptPastOp
       DEF StopSweep, CreateRefused, CallFails, AcquireRefused, NothingNavigated, NoEffect,
           CreateLaunchFails, SweepSkips, Visits, Staged
  <2>3. QED
    BY <1>1, <2>1, <2>2
<1>4. ASSUME NEW t \in Sid, CreateWithoutLaunch(p, t)
      PROVE  Accounted'
  <2>1. PICK ttl \in TTLs, mode \in CreateModes \ {"launch"} :
          Write(p, t, NewRecord(op[p].now, ttl, mode = "adopt", NoPid))
    BY <1>4 DEF CreateWithoutLaunch
  <2> DEFINE r == NewRecord(op[p].now, ttl, mode = "adopt", NoPid)
  <2>2. /\ rec' = [rec EXCEPT ![t] = r] /\ UNCHANGED os /\ Outside(p)
        /\ Unlocked(t) /\ rec[t].status = "absent"
    BY <1>4, <2>1, ReturnOp DEF CreateWithoutLaunch, Turn, Write, Leaves, Outside
  <2>3. Spares(rec[t], r)
    BY <2>2 DEF NewRecord, Spares
  <2> HIDE DEF r
  <2>4. QED
    BY <1>2, <2>2, <2>3
<1>5. ASSUME NEW t \in Sid, AcquireGranted(p, t)
      PROVE  Accounted'
  <2>1. rec[t] \in Record
    BY DEF TypeOK
  <2> DEFINE r == Leased(rec[t], HolderOf[p], op[p].now)
  <2>2. r.status = rec[t].status /\ r.pid = rec[t].pid
    BY <2>1 DEF Leased, Record
  <2>3. /\ rec' = [rec EXCEPT ![t] = r] /\ UNCHANGED os /\ Outside(p)
        /\ Unlocked(t) /\ rec[t].status # "corrupt"
    BY <1>5, ReturnOp DEF AcquireGranted, Turn, Write, Leaves, Outside
  <2> HIDE DEF r
  <2>4. Spares(rec[t], r)
    BY <2>2, <2>3 DEF Spares
  <2>5. QED
    BY <1>2, <2>3, <2>4
<1>6. ASSUME NEW t \in Sid, Release(p, t)
      PROVE  Accounted'
  <2> DEFINE r == IF rec[t].lease.holder = HolderOf[p] THEN Unleased(rec[t]) ELSE rec[t]
  <2>1. rec[t] \in Record
    BY DEF TypeOK
  <2>2. r.status = rec[t].status /\ r.pid = rec[t].pid
    BY <2>1 DEF Unleased, Record
  <2>3. /\ rec' = [rec EXCEPT ![t] = r] /\ UNCHANGED os /\ Outside(p)
        /\ Unlocked(t) /\ rec[t].status # "corrupt"
    BY <1>6, ReturnOp DEF Release, Turn, Write, Leaves, Outside, Accounted
  <2> HIDE DEF r
  <2>4. Spares(rec[t], r)
    BY <2>2, <2>3 DEF Spares
  <2>5. QED
    BY <1>2, <2>3, <2>4
<1>7. ASSUME NEW t \in Sid, BumpGeneration(p, t)
      PROVE  Accounted'
  <2> DEFINE r == [rec[t] EXCEPT !.generation = rec[t].generation + 1]
  <2>1. rec[t] \in Record
    BY DEF TypeOK
  <2>2. r.status = rec[t].status /\ r.pid = rec[t].pid
    BY <2>1 DEF Record
  <2>3. /\ rec' = [rec EXCEPT ![t] = r] /\ UNCHANGED os /\ Outside(p)
        /\ Unlocked(t) /\ rec[t].status # "corrupt"
    BY <1>7, ReturnOp DEF BumpGeneration, Turn, Write, Leaves, Outside, Accounted
  <2> HIDE DEF r
  <2>4. Spares(rec[t], r)
    BY <2>2, <2>3 DEF Spares
  <2>5. QED
    BY <1>2, <2>3, <2>4
<1>8. ASSUME NEW t \in Sid, NEW hs \in SUBSET Host \ {{}}, RecordNavigated(p, t, hs)
      PROVE  Accounted'
  <2>1. PICK m \in Merges(rec[t], hs) : Write(p, t, WithHosts(rec[t], m, hs))
    BY <1>8 DEF RecordNavigated
  <2>2. rec[t] \in Record
    BY DEF TypeOK
  <2> DEFINE r == WithHosts(rec[t], m, hs)
  <2>3. r.status = rec[t].status /\ r.pid = rec[t].pid
    BY <2>2 DEF WithHosts, Record
  <2>4. /\ rec' = [rec EXCEPT ![t] = r] /\ UNCHANGED os /\ Outside(p)
        /\ Unlocked(t) /\ rec[t].status # "corrupt"
    BY <1>8, <2>1, ReturnOp DEF RecordNavigated, Turn, Write, Leaves, Outside, Accounted
  <2> HIDE DEF r
  <2>5. Spares(rec[t], r)
    BY <2>3, <2>4 DEF Spares
  <2>6. QED
    BY <1>2, <2>4, <2>5
<1>9. ASSUME NEW t \in Sid, SweepDropsLease(p, t)
      PROVE  Accounted'
  <2>1. rec[t] \in Record
    BY DEF TypeOK
  <2> DEFINE r == Unleased(rec[t])
  <2>2. r.status = rec[t].status /\ r.pid = rec[t].pid
    BY <2>1 DEF Unleased, Record
  <2>3. /\ rec' = [rec EXCEPT ![t] = r] /\ UNCHANGED os /\ Outside(p)
        /\ Unlocked(t) /\ rec[t].status # "corrupt"
    BY <1>9, SweptPastOp DEF SweepDropsLease, Visits, Sweeps, Outside, Accounted, Staged
  <2> HIDE DEF r
  <2>4. Spares(rec[t], r)
    BY <2>2, <2>3 DEF Spares
  <2>5. QED
    BY <1>2, <2>3, <2>4
<1>10. ASSUME NEW t \in Sid, SweepPurges(p, t)
       PROVE  Accounted'
  <2>1. rec[t].status # "active"
    BY <1>10 DEF SweepPurges, Purges, EndedStatus
  <2>2. NoRecord.status = "absent"
    BY DEF NoRecord
  <2>3. /\ rec' = [rec EXCEPT ![t] = NoRecord] /\ UNCHANGED os /\ Outside(p)
        /\ Unlocked(t)
    BY <1>10, SweptPastOp DEF SweepPurges, Visits, Sweeps, Outside, Staged
  <2>4. Spares(rec[t], NoRecord)
    BY <2>1, <2>2 DEF Spares
  <2>5. QED
    BY <1>2, <2>3, <2>4
<1>11. ASSUME NEW t \in Sid, NEW q \in Pid, CreateLaunches(p, t, q)
       PROVE  Accounted'
  <2>1. /\ Launches(p) /\ op'[p].sid = t /\ op'[p].pid = q
        /\ rec' = rec /\ os' = [os EXCEPT ![q] = t]
        /\ Unlocked(t) /\ rec[t].status = "absent" /\ op[p].stage = "waiting"
    BY <1>11, LaunchedOp DEF CreateLaunches, Turn
  <2>2. \A b \in Pid : os[b] # t
    BY <2>1 DEF Accounted
  <2>3. ASSUME NEW b \in Pid, NEW s \in Sid, os'[b] = s
        PROVE  /\ Unlocked(s)' => rec'[s].status = "active" /\ rec'[s].pid = b
               /\ \A c \in Proc : Inside(c, s)' => op'[c].stage = "launched" /\ op'[c].pid = b
    <3>1. CASE s = t
      <4>1. b = q
        BY <2>1, <2>2, <2>3, <3>1 DEF TypeOK
      <4>2. Inside(p, s)' /\ \A c \in Proc : Inside(c, s)' => c = p
        BY <2>1, <3>1 DEF Launches, Others, Inside, Unlocked
      <4>3. QED
        BY <2>1, <4>1, <4>2 DEF Launches, Unlocked
    <3>2. CASE s # t
      <4>1. os[b] = s
        BY <2>1, <2>3, <3>2 DEF TypeOK
      <4>2. \A c \in Proc : Inside(c, s)' => Inside(c, s) /\ op'[c] = op[c]
        BY <2>1, <3>2 DEF Launches, Others, Inside
      <4>3. Unlocked(s)' => Unlocked(s)
        BY <2>1 DEF Launches, Others, Inside, Unlocked
      <4>4. QED
        BY <2>1, <4>1, <4>2, <4>3 DEF Accounted
    <3>3. QED
      BY <3>1, <3>2
  <2>4. QED
    BY <2>1, <2>3 DEF Accounted
<1>12. ASSUME NEW t \in Sid, NEW r, Inside(p, t), Leaves(p) \/ Sweeps(p), UNCHANGED os,
              rec' = [rec EXCEPT ![t] = r], r.status # "corrupt",
              \A q \in Pid : os[q] = t => r.status = "active" /\ r.pid = q
       PROVE  Accounted'
  <2>1. \A c \in Proc, s \in Sid : Inside(c, s)' <=> Inside(c, s) /\ s # t
    BY <1>12 DEF Exclusive, Inside, Leaves, Sweeps, Others
  <2>2. \A c \in Proc, s \in Sid : Inside(c, s)' => op'[c] = op[c]
    BY <1>12, <2>1 DEF Inside, Leaves, Sweeps, Others
  <2>3. \A s \in Sid : s # t => (Unlocked(s)' <=> Unlocked(s)) /\ rec'[s] = rec[s]
    BY <1>12, <2>1 DEF Unlocked, TypeOK
  <2>4. \A s \in Sid : rec'[s].status # "corrupt"
    BY <1>12 DEF TypeOK, Accounted
  <2>5. QED
    BY <1>12, <2>1, <2>2, <2>3, <2>4 DEF Accounted, TypeOK
<1>13. ASSUME NEW t \in Sid, CreateWrites(p, t)
       PROVE  Accounted'
  <2>1. PICK ttl \in TTLs : Write(p, t, NewRecord(op[p].now, ttl, TRUE, op[p].pid))
    BY <1>13 DEF CreateWrites
  <2>2. Inside(p, t)
    BY <1>13 DEF CreateWrites, Inside
  <2>3. \A q \in Pid : os[q] = t => op[p].pid = q
    BY <2>2 DEF Accounted
  <2> DEFINE r == NewRecord(op[p].now, ttl, TRUE, op[p].pid)
  <2>4. rec' = [rec EXCEPT ![t] = r] /\ UNCHANGED os /\ Leaves(p)
    BY <2>1, ReturnOp DEF Write
  <2>5. r.status = "active" /\ r.pid = op[p].pid
    BY DEF NewRecord
  <2> HIDE DEF r
  <2>6. QED
    BY <1>12, <2>2, <2>3, <2>4, <2>5
<1>14. ASSUME NEW t \in Sid, CloseWrites(p, t) \/ SweepExpires(p, t)
       PROVE  Accounted'
  <2>1. PICK st \in EndedStatus : rec' = [rec EXCEPT ![t] = Ended(rec[t], st)]
    BY <1>14 DEF CloseWrites, SweepExpires, Write, EndedStatus
  <2>2. Ended(rec[t], st).status = st /\ st # "corrupt"
    <3>1. rec[t] \in Record
      BY DEF TypeOK
    <3>2. QED
      BY <3>1 DEF Ended, Record, EndedStatus
  <2> DEFINE r == Ended(rec[t], st)
  <2> HIDE DEF r
  <2>0. rec' = [rec EXCEPT ![t] = r] /\ r.status # "corrupt"
    BY <2>1, <2>2 DEF r
  <2>3. UNCHANGED os /\ (Leaves(p) \/ Sweeps(p))
    BY <1>14, ReturnOp, SweptPastOp DEF CloseWrites, SweepExpires, Write
  <2>4. CASE Inside(p, t)
    <3>1. op[p].stage = "reaping"
      BY <1>14, <2>4 DEF CloseWrites, SweepExpires, Inside, Turn, Staged
    <3>2. \A q \in Pid : os[q] # t
      BY <2>4, <3>1 DEF Accounted
    <3>3. QED
      BY <1>12, <2>0, <2>3, <2>4, <3>2
  <2>5. CASE ~Inside(p, t)
    <3>1. op[p].stage = "waiting" /\ Unlocked(t) /\ rec[t].status # "active"
      BY <1>14, <2>5 DEF CloseWrites, SweepExpires, Turn, EndedStatus
    <3>2. Outside(p) /\ Spares(rec[t], r)
      BY <2>0, <2>3, <3>1 DEF Outside, Leaves, Sweeps, Spares
    <3>3. QED
      BY <1>2, <2>0, <2>3, <3>1, <3>2
  <2>6. QED
    BY <2>4, <2>5
<1>15. ASSUME NEW t \in Sid, CloseKills(p, t) \/ SweepKills(p, t)
       PROVE  Accounted'
  <2>1. /\ Unlocked(t) /\ rec[t].status = "active" /\ StopsBrowser(p, t)
        /\ op[p].stage \in {"waiting", "sweeping"}
    BY <1>15 DEF CloseKills, SweepKills, Turn, Visits, Expires
  <2>2. /\ Others(p) /\ rec' = rec /\ op'[p].stage = "reaping" /\ op'[p].sid = t
    BY <2>1, StopsBrowserOp
  <2>3. \A q \in Pid : os'[q] # t
    <3>1. ASSUME NEW q \in Pid, os[q] = t
          PROVE  os'[q] = Free
      <4>1. rec[t].pid = q /\ q # NoPid
        BY <2>1, <3>1, RecordAssumption DEF Accounted
      <4>2. Signalled(rec[t])
        BY <3>1, <4>1, StoreAssumption DEF Signalled
      <4>3. QED
        BY <2>1, <4>1, <4>2 DEF StopsBrowser, TypeOK
    <3>2. ASSUME NEW q \in Pid, os[q] # t
          PROVE  os'[q] # t
      BY <2>1, <3>2, StoreAssumption DEF StopsBrowser, TypeOK
    <3>3. QED
      BY <3>1, <3>2, StoreAssumption
  <2>4. \A q \in Pid, s \in Sid : os'[q] = s => os[q] = s
    BY <2>1, StoreAssumption DEF StopsBrowser, TypeOK
  <2>5. ASSUME NEW s \in Sid, s # t
        PROVE  /\ Unlocked(s)' => Unlocked(s)
               /\ \A c \in Proc : Inside(c, s)' => Inside(c, s) /\ op'[c] = op[c]
    BY <2>1, <2>2, <2>5 DEF Others, Inside, Unlocked
  <2>6. QED
    BY <2>2, <2>3, <2>4, <2>5 DEF Accounted
<1>16. QED
  BY <1>3, <1>4, <1>5, <1>6, <1>7, <1>8, <1>9, <1>10, <1>11, <1>13, <1>14, <1>15 DEF Works

LEMMA AccountedStep ==
  ASSUME Faults \cap {"corruption", "crash_after_launch"} = {}
  PROVE  TypeOK /\ LockInv /\ Accounted /\ [Next]_vars => Accounted'
<1> SUFFICES ASSUME TypeOK, LockInv, Accounted, [Next]_vars
             PROVE  Accounted'
  OBVIOUS
<1>1. CASE \E p \in Proc : Works(p)
  BY <1>1, AccountedWorks
<1>2. ASSUME NEW p \in Proc, Begins(p), op[p].stage = "idle", UNCHANGED os
      PROVE  Accounted'
  BY <1>2, AccountedQuiet DEF Begins, Outside
<1>3. CASE \E p \in Proc, v \in Verbs, s \in Sid : Call(p, v, s)
  BY <1>2, <1>3, CallOp DEF Call
<1>4. CASE \E p \in Proc, f \in Filters : StartSweep(p, f)
  BY <1>2, <1>4, StartSweepOp DEF StartSweep
<1>5. CASE UNCHANGED <<rec, op, os>>
  BY <1>5 DEF Accounted, Unlocked, Inside
<1>6. ASSUME NEW p \in Proc, Dies(p)
      PROVE  Accounted'
  <2>1. op[p].stage = "reaping" /\ Leaves(p) /\ UNCHANGED <<rec, os>>
    BY <1>6, ReturnOp DEF Dies, Fault
  <2>2. \A c \in Proc, s \in Sid : Inside(c, s)' => Inside(c, s) /\ op'[c] = op[c]
    BY <2>1 DEF Leaves, Others, Inside
  <2>3. ASSUME NEW s \in Sid, ~Unlocked(s), Unlocked(s)'
        PROVE  \A q \in Pid : os[q] # s
    <3>1. Inside(p, s)
      BY <2>1, <2>3 DEF Leaves, Others, Unlocked, Inside
    <3>2. QED
      BY <2>1, <3>1 DEF Accounted
  <2>4. QED
    BY <2>1, <2>2, <2>3 DEF Accounted
<1>7. ASSUME NEW q \in Pid, BrowserExits(q) \/ PidReused(q)
      PROVE  Accounted'
  <2>1. UNCHANGED <<rec, op>> /\ \E x \in {Free, Stranger, Foreign} : os' = [os EXCEPT ![q] = x]
    BY <1>7 DEF BrowserExits, PidReused
  <2>2. \A b \in Pid, s \in Sid : os'[b] = s => os[b] = s
    BY <2>1, StoreAssumption DEF TypeOK
  <2>3. QED
    BY <2>1, <2>2 DEF Accounted, Unlocked, Inside
<1>8. CASE \E s \in Sid : Corrupts(s)
  BY <1>8 DEF Corrupts, Fault
<1>9. QED
  BY <1>1, <1>3, <1>4, <1>5, <1>6, <1>7, <1>8 DEF Next, Tick, vars

LEMMA AccountedInit == Init => Accounted
  BY StoreAssumption DEF Init, Accounted, NoRecord, LegacyRecord, NewRecord

\* If no record is damaged and no launcher dies before it writes, every running
\* browser can be found through its record, and none runs for an ended session,
\* even when processes die between killing a browser and writing so.
\* (create, close, _clean_one_unlocked, _reap_browser)
THEOREM BrowsersAccountedFor ==
  ASSUME Faults \cap {"corruption", "crash_after_launch"} = {}
  PROVE  Spec => [](NoOrphanBrowser /\ EndedHasNoBrowser)
<1>1. Init => Accounted
  BY AccountedInit
<1>2. TypeOK /\ LockInv /\ Accounted /\ [Next]_vars => Accounted'
  BY AccountedStep
<1>3. TypeOK /\ LockInv /\ Accounted => NoOrphanBrowser /\ EndedHasNoBrowser
  BY AccountedImplies
<1>4. QED
  BY <1>1, <1>2, <1>3, TypeCorrect, LockRespected, PTL DEF Spec

\* Under the same provisos no browser runs for a session that ended.
\* (close, _clean_one_unlocked, _reap_browser)
THEOREM EndedSessionsHaveNoBrowser ==
  ASSUME Faults \cap {"corruption", "crash_after_launch"} = {}
  PROVE  Spec => []EndedHasNoBrowser
  BY BrowsersAccountedFor, PTL

-----------------------------------------------------------------------------
(* Lifetimes *)

LEMMA LifeWorks ==
  ASSUME TypeOK, LockInv, NEW p \in Proc, Works(p), NEW s \in Sid,
         rec[s].status = "active", rec'[s].status = "active"
  PROVE  rec'[s].expires_at >= rec[s].expires_at
<1> USE DEF LockInv
<1>1. rec[s] \in Record /\ rec[s].expires_at \in Nat
  BY DEF TypeOK, Record
<1>2. CASE rec'[s] = rec[s]
  BY <1>1, <1>2
<1>3. ASSUME NEW t \in Sid, NEW r, rec' = [rec EXCEPT ![t] = r],
             t = s => r.status # "active" \/ r.expires_at >= rec[s].expires_at
      PROVE  rec'[s].expires_at >= rec[s].expires_at
  BY <1>1, <1>3 DEF TypeOK
<1>4. CASE UNCHANGED rec
  BY <1>2, <1>4
<1>5. ASSUME StopSweep(p) \/ \E t \in Sid :
               \/ CreateRefused(p, t) \/ CallFails(p, t) \/ AcquireRefused(p, t)
               \/ NothingNavigated(p, t)
               \/ CreateLaunchFails(p, t) \/ SweepSkips(p, t)
               \/ CloseKills(p, t) \/ SweepKills(p, t)
               \/ \E q \in Pid : CreateLaunches(p, t, q)
      PROVE  UNCHANGED rec
  BY <1>5 DEF StopSweep, CreateRefused, CallFails, AcquireRefused, NothingNavigated, NoEffect,
              CreateLaunchFails, SweepSkips, CloseKills, SweepKills, StopsBrowser, CreateLaunches
<1>6. ASSUME NEW t \in Sid, CreateWrites(p, t) \/ CreateWithoutLaunch(p, t)
      PROVE  rec'[s].expires_at >= rec[s].expires_at
  <2>1. rec[t].status = "absent" /\ \E r : rec' = [rec EXCEPT ![t] = r]
    BY <1>6 DEF CreateWrites, CreateWithoutLaunch, Write, RecordInside, Inside
  <2>2. t # s
    BY <2>1
  <2>3. QED
    BY <1>3, <2>1, <2>2
<1>7. ASSUME NEW t \in Sid, AcquireGranted(p, t)
      PROVE  rec'[s].expires_at >= rec[s].expires_at
  <2> DEFINE r == Leased(rec[t], HolderOf[p], op[p].now)
  <2>1. op[p].now \in Nat /\ rec[t] \in Record
    BY DEF TypeOK, Op
  <2>2. r.expires_at = SlidExpiry(rec[t], op[p].now)
    BY <2>1 DEF Leased, Record
  <2>3. r.expires_at >= rec[t].expires_at
    BY <2>1, <2>2, SlidExpiryType
  <2>4. rec' = [rec EXCEPT ![t] = r]
    BY <1>7 DEF AcquireGranted, Write
  <2> HIDE DEF r
  <2>5. QED
    BY <1>3, <2>3, <2>4
<1>8. ASSUME NEW t \in Sid, NEW r, rec' = [rec EXCEPT ![t] = r], r.expires_at = rec[t].expires_at
      PROVE  rec'[s].expires_at >= rec[s].expires_at
  BY <1>1, <1>8 DEF TypeOK
<1>9. ASSUME NEW t \in Sid, Release(p, t) \/ SweepDropsLease(p, t)
      PROVE  rec'[s].expires_at >= rec[s].expires_at
  <2>1. rec[t] \in Record
    BY DEF TypeOK
  <2>2. Unleased(rec[t]).expires_at = rec[t].expires_at
    BY <2>1 DEF Unleased, Record
  <2>3. rec' = [rec EXCEPT ![t] = Unleased(rec[t])] \/ rec' = [rec EXCEPT ![t] = rec[t]]
    BY <1>9 DEF Release, SweepDropsLease, Write
  <2>4. QED
    BY <1>8, <2>2, <2>3
<1>10. ASSUME NEW t \in Sid, BumpGeneration(p, t)
       PROVE  rec'[s].expires_at >= rec[s].expires_at
  <2> DEFINE r == [rec[t] EXCEPT !.generation = rec[t].generation + 1]
  <2>1. rec[t] \in Record
    BY DEF TypeOK
  <2>2. r.expires_at = rec[t].expires_at
    BY <2>1 DEF Record
  <2>3. rec' = [rec EXCEPT ![t] = r]
    BY <1>10 DEF BumpGeneration, Write
  <2> HIDE DEF r
  <2>4. QED
    BY <1>8, <2>2, <2>3
<1>11. ASSUME NEW t \in Sid, NEW hs \in SUBSET Host \ {{}}, RecordNavigated(p, t, hs)
       PROVE  rec'[s].expires_at >= rec[s].expires_at
  <2>1. PICK m \in Merges(rec[t], hs) : Write(p, t, WithHosts(rec[t], m, hs))
    BY <1>11 DEF RecordNavigated
  <2> DEFINE r == WithHosts(rec[t], m, hs)
  <2>2. rec[t] \in Record
    BY DEF TypeOK
  <2>3. r.expires_at = rec[t].expires_at
    BY <2>2 DEF WithHosts, Record
  <2>4. rec' = [rec EXCEPT ![t] = r]
    BY <2>1 DEF Write
  <2> HIDE DEF r
  <2>5. QED
    BY <1>8, <2>3, <2>4
<1>12. ASSUME NEW t \in Sid, CloseWrites(p, t) \/ SweepExpires(p, t)
       PROVE  rec'[s].expires_at >= rec[s].expires_at
  <2>1. PICK st \in EndedStatus : rec' = [rec EXCEPT ![t] = Ended(rec[t], st)]
    BY <1>12 DEF CloseWrites, SweepExpires, Write, EndedStatus
  <2> DEFINE r == Ended(rec[t], st)
  <2>2. rec[t] \in Record
    BY DEF TypeOK
  <2>3. r.expires_at = rec[t].expires_at
    BY <2>2 DEF Ended, Record
  <2> HIDE DEF r
  <2>4. rec' = [rec EXCEPT ![t] = r]
    BY <2>1 DEF r
  <2>5. QED
    BY <1>8, <2>3, <2>4
<1>13. ASSUME NEW t \in Sid, SweepPurges(p, t)
       PROVE  rec'[s].expires_at >= rec[s].expires_at
  <2>1. rec' = [rec EXCEPT ![t] = NoRecord] /\ NoRecord.status = "absent"
    BY <1>13 DEF SweepPurges, NoRecord
  <2>2. t # s
    BY <2>1 DEF TypeOK
  <2>3. QED
    BY <1>3, <2>1, <2>2
<1>14. QED
  BY <1>4, <1>5, <1>6, <1>7, <1>9, <1>10, <1>11, <1>12, <1>13 DEF Works

\* While a session stays active its expiry never moves back, however old the
\* clock reading of a caller that got its turn late.  (_slid_expiry)
THEOREM LifeNeverShortened == Spec => UseNeverShortensLife
<1> DEFINE NotShortened == \A s \in Sid : rec[s].status = "active" /\ rec'[s].status = "active"
                     => rec'[s].expires_at >= rec[s].expires_at
<1>1. ASSUME TypeOK, LockInv, [Next]_vars
      PROVE  NotShortened
  <2>1. ASSUME NEW s \in Sid, rec'[s] = rec[s]
        PROVE  rec'[s].expires_at >= rec[s].expires_at
    BY <1>1, <2>1 DEF TypeOK, Record
  <2>2. CASE \E p \in Proc : Works(p)
    BY <1>1, <2>2, LifeWorks
  <2>3. ASSUME NEW t \in Sid, Corrupts(t), NEW s \in Sid, rec'[s].status = "active"
        PROVE  rec'[s] = rec[s]
    BY <1>1, <2>3 DEF Corrupts, CorruptRecord, NoRecord, TypeOK
  <2>4. CASE UNCHANGED rec
    BY <2>1, <2>4
  <2>5. CASE \E t \in Sid : Corrupts(t)
    BY <2>1, <2>3, <2>5
  <2>6. CASE Next /\ ~\E p \in Proc : Works(p)
    BY <1>1, <2>4, <2>5, <2>6, StepKinds DEF Tick, Begins
  <2>7. QED
    BY <1>1, <2>2, <2>4, <2>6 DEF vars
<1>2. TypeOK /\ LockInv /\ [Next]_vars => [NotShortened]_vars
  BY <1>1
<1> HIDE DEF NotShortened
<1>3. Spec => [][NotShortened]_vars
  BY <1>2, TypeCorrect, LockRespected, PTL DEF Spec
<1>4. QED
  BY <1>3 DEF NotShortened, UseNeverShortensLife

-----------------------------------------------------------------------------
(* Hosts *)

\* What HostsAccountedFor says of one session.
Tells(r, v) ==
  Readable(r) /\ r.tracked =>
    /\ v \subseteq r.hosts \/ r.truncated
    /\ r.hosts \subseteq v
    /\ Cardinality(r.hosts) <= MaxHosts

\* A record that can be read after a write could be read before and names the
\* same hosts.
SameHosts(r, w) ==
  Readable(w) =>
    /\ Readable(r)
    /\ w.tracked = r.tracked /\ w.hosts = r.hosts /\ w.truncated = r.truncated

LEMMA SameHostsTell ==
  ASSUME NEW r, NEW w, NEW v, Tells(r, v), SameHosts(r, w)
  PROVE  Tells(w, v)
  BY DEF Tells, SameHosts

LEMMA WritesKeepHosts ==
  ASSUME NEW r \in Record
  PROVE  /\ SameHosts(r, r) /\ SameHosts(r, Unleased(r)) /\ SameHosts(r, NoRecord)
         /\ SameHosts(r, CorruptRecord)
         /\ SameHosts(r, [r EXCEPT !.generation = r.generation + 1])
         /\ \A h \in Holder, now \in Nat : SameHosts(r, Leased(r, h, now))
         /\ Readable(r) => \A st \in EndedStatus : SameHosts(r, Ended(r, st))
<1>1. SameHosts(r, r) /\ SameHosts(r, Unleased(r))
  BY DEF SameHosts, Readable, Unleased, Record
<1>2. SameHosts(r, NoRecord) /\ SameHosts(r, CorruptRecord)
  BY DEF SameHosts, Readable, NoRecord, CorruptRecord
<1>3. SameHosts(r, [r EXCEPT !.generation = r.generation + 1])
  BY DEF SameHosts, Readable, Record
<1>4. \A h \in Holder, now \in Nat : SameHosts(r, Leased(r, h, now))
  BY DEF SameHosts, Readable, Leased, Record
<1>5. Readable(r) => \A st \in EndedStatus : SameHosts(r, Ended(r, st))
  BY DEF SameHosts, Readable, Ended, Record, EndedStatus
<1>6. QED
  BY <1>1, <1>2, <1>3, <1>4, <1>5

LEMMA NewTells ==
  ASSUME NEW now, NEW ttl, NEW endpoint, NEW pid
  PROVE  Tells(NewRecord(now, ttl, endpoint, pid), {})
<1>1. Cardinality({}) = 0
  BY FS_EmptySet
<1>2. QED
  BY <1>1, RecordAssumption DEF Tells, NewRecord

LEMMA MergedTells ==
  ASSUME NEW r \in Record, NEW v \in SUBSET Host, NEW hs \in SUBSET Host,
         NEW m \in Merges(r, hs), Readable(r), r.tracked, Tells(r, v)
  PROVE  Tells(WithHosts(r, m, hs), v \cup hs)
<1> DEFINE w == WithHosts(r, m, hs)
<1>1. /\ m \subseteq r.hosts \cup hs /\ r.hosts \subseteq m /\ Cardinality(m) <= MaxHosts
  BY DEF Merges
<1>2. w.hosts = m /\ w.truncated = (r.truncated \/ m # r.hosts \cup hs)
  BY DEF WithHosts, Record
<1>3. r.hosts \subseteq v /\ (v \subseteq r.hosts \/ r.truncated)
  BY DEF Tells
<1>4. w.truncated \/ v \cup hs \subseteq w.hosts
  <2>1. CASE m = r.hosts \cup hs /\ ~r.truncated
    BY <1>2, <1>3, <2>1
  <2>2. CASE m # r.hosts \cup hs \/ r.truncated
    BY <1>2, <2>2
  <2>3. QED
    BY <2>1, <2>2
<1>5. w.hosts \subseteq v \cup hs
  BY <1>1, <1>2, <1>3
<1>6. QED
  BY <1>1, <1>2, <1>4, <1>5 DEF Tells

AllTell == \A s \in Sid : Tells(rec[s], visited[s])

LEMMA TellWorks ==
  ASSUME TypeOK, LockInv, AllTell, NEW p \in Proc, Works(p)
  PROVE  AllTell'
<1>0. /\ rec \in [Sid -> Record] /\ visited \in [Sid -> SUBSET Host]
      /\ op[p] \in Op /\ HolderOf[p] \in Holder
  BY StoreAssumption DEF TypeOK
<1>1. ASSUME UNCHANGED <<rec, visited>>
      PROVE  AllTell'
  BY <1>1 DEF AllTell
<1>2. ASSUME NEW t \in Sid, NEW r, rec' = [rec EXCEPT ![t] = r], SameHosts(rec[t], r),
             UNCHANGED visited
      PROVE  AllTell'
  BY <1>0, <1>2, SameHostsTell DEF AllTell
<1>3. CASE StopSweep(p) \/ \E t \in Sid :
               \/ CreateRefused(p, t) \/ CallFails(p, t) \/ AcquireRefused(p, t)
               \/ NothingNavigated(p, t)
               \/ CreateLaunchFails(p, t) \/ SweepSkips(p, t)
               \/ CloseKills(p, t) \/ SweepKills(p, t)
               \/ \E q \in Pid : CreateLaunches(p, t, q)
  <2>1. UNCHANGED <<rec, visited>>
    BY <1>3
    DEF StopSweep, CreateRefused, CallFails, AcquireRefused, NothingNavigated, NoEffect,
        CreateLaunchFails, SweepSkips, CloseKills, SweepKills, StopsBrowser, CreateLaunches
  <2>2. QED
    BY <1>1, <2>1
<1>4. ASSUME NEW t \in Sid, CreateWrites(p, t) \/ CreateWithoutLaunch(p, t)
      PROVE  AllTell'
  <2>1. \E now, ttl, endpoint, pid : rec' = [rec EXCEPT ![t] = NewRecord(now, ttl, endpoint, pid)]
    <3>1. CASE CreateWrites(p, t)
      <4>1. PICK ttl \in TTLs : Write(p, t, NewRecord(op[p].now, ttl, TRUE, op[p].pid))
        BY <3>1 DEF CreateWrites
      <4>2. rec' = [rec EXCEPT ![t] = NewRecord(op[p].now, ttl, TRUE, op[p].pid)]
        BY <4>1 DEF Write
      <4>3. QED
        BY <4>2
    <3>2. CASE CreateWithoutLaunch(p, t)
      <4>1. PICK ttl \in TTLs, mode \in CreateModes \ {"launch"} :
              Write(p, t, NewRecord(op[p].now, ttl, mode = "adopt", NoPid))
        BY <3>2 DEF CreateWithoutLaunch
      <4>2. rec' = [rec EXCEPT ![t] = NewRecord(op[p].now, ttl, mode = "adopt", NoPid)]
        BY <4>1 DEF Write
      <4>3. QED
        BY <4>2
    <3>3. QED
      BY <1>4, <3>1, <3>2
  <2>2. visited' = [visited EXCEPT ![t] = {}]
    BY <1>4 DEF CreateWrites, CreateWithoutLaunch
  <2>3. QED
    BY <1>0, <2>1, <2>2, NewTells DEF AllTell
<1>5. ASSUME NEW t \in Sid, AcquireGranted(p, t)
      PROVE  AllTell'
  <2>1. SameHosts(rec[t], Leased(rec[t], HolderOf[p], op[p].now))
    BY <1>0, WritesKeepHosts DEF Op
  <2>2. QED
    BY <1>2, <1>5, <2>1 DEF AcquireGranted, Write
<1>6. ASSUME NEW t \in Sid, Release(p, t) \/ SweepDropsLease(p, t)
      PROVE  AllTell'
  <2>1. SameHosts(rec[t], Unleased(rec[t])) /\ SameHosts(rec[t], rec[t])
    BY <1>0, WritesKeepHosts
  <2>2. /\ UNCHANGED visited
        /\ \/ rec' = [rec EXCEPT ![t] = Unleased(rec[t])]
           \/ rec' = [rec EXCEPT ![t] = rec[t]]
    BY <1>6 DEF Release, SweepDropsLease, Write
  <2>3. QED
    BY <1>2, <2>1, <2>2
<1>7. ASSUME NEW t \in Sid, BumpGeneration(p, t)
      PROVE  AllTell'
  <2>1. SameHosts(rec[t], [rec[t] EXCEPT !.generation = rec[t].generation + 1])
    BY <1>0, WritesKeepHosts
  <2>2. QED
    BY <1>2, <1>7, <2>1 DEF BumpGeneration, Write
<1>8. ASSUME NEW t \in Sid, NEW hs \in SUBSET Host \ {{}}, RecordNavigated(p, t, hs)
      PROVE  AllTell'
  <2>1. PICK m \in Merges(rec[t], hs) : Write(p, t, WithHosts(rec[t], m, hs))
    BY <1>8 DEF RecordNavigated
  <2>2. /\ Readable(rec[t]) /\ rec[t].tracked
        /\ visited' = [visited EXCEPT ![t] = visited[t] \cup hs]
    BY <1>8 DEF RecordNavigated
  <2>3. Tells(WithHosts(rec[t], m, hs), visited[t] \cup hs)
    BY <1>0, <2>2, MergedTells DEF AllTell
  <2>4. rec' = [rec EXCEPT ![t] = WithHosts(rec[t], m, hs)]
    BY <2>1 DEF Write
  <2>5. QED
    BY <1>0, <2>2, <2>3, <2>4 DEF AllTell
<1>9. ASSUME NEW t \in Sid, CloseWrites(p, t) \/ SweepExpires(p, t)
      PROVE  AllTell'
  <2>1. PICK st \in EndedStatus : rec' = [rec EXCEPT ![t] = Ended(rec[t], st)]
    BY <1>9 DEF CloseWrites, SweepExpires, Write, EndedStatus
  <2>2. Readable(rec[t])
    <3>1. CASE Inside(p, t)
      BY <1>9, <3>1 DEF LockInv, Staged, RecordInside, Inside, CloseWrites, SweepExpires, Turn,
                        Readable
    <3>2. CASE ~Inside(p, t)
      BY <1>9, <3>2 DEF CloseWrites, SweepExpires, Readable, EndedStatus
    <3>3. QED
      BY <3>1, <3>2
  <2>3. SameHosts(rec[t], Ended(rec[t], st))
    BY <1>0, <2>2, WritesKeepHosts
  <2>4. UNCHANGED visited
    BY <1>9 DEF CloseWrites, SweepExpires
  <2>5. QED
    BY <1>2, <2>1, <2>3, <2>4
<1>10. ASSUME NEW t \in Sid, SweepPurges(p, t)
      PROVE  AllTell'
  BY <1>0, <1>2, <1>10, WritesKeepHosts DEF SweepPurges
<1>11. QED
  BY <1>3, <1>4, <1>5, <1>6, <1>7, <1>8, <1>9, <1>10 DEF Works

\* Whatever merges, ends and faults a record goes through, a tracked one names
\* every host its session has been at since it was made or says that it does
\* not.  (record_navigated_urls, _merge_hosts)
THEOREM HostsAreAccountedFor == Spec => []HostsAccountedFor
<1>1. Init => AllTell
  BY StoreAssumption
  DEF Init, AllTell, Tells, Readable, NoRecord, LegacyRecord, NewRecord
<1>2. TypeOK /\ LockInv /\ AllTell /\ [Next]_vars => AllTell'
  <2> SUFFICES ASSUME TypeOK, LockInv, AllTell, [Next]_vars
               PROVE  AllTell'
    OBVIOUS
  <2>1. CASE \E p \in Proc : Works(p)
    BY <2>1, TellWorks
  <2>2. CASE UNCHANGED <<rec, visited>>
    BY <2>2 DEF AllTell
  <2>3. ASSUME NEW t \in Sid, Corrupts(t)
        PROVE  AllTell'
    <3>1. SameHosts(rec[t], CorruptRecord)
      BY WritesKeepHosts DEF TypeOK
    <3>2. rec' = [rec EXCEPT ![t] = CorruptRecord] /\ UNCHANGED visited
      BY <2>3 DEF Corrupts
    <3>3. QED
      BY <3>1, <3>2, SameHostsTell DEF AllTell, TypeOK
  <2>4. QED
    BY <2>1, <2>2, <2>3
    DEF Next, vars, Call, StartSweep, Tick, Dies, BrowserExits, PidReused
<1>3. AllTell => HostsAccountedFor
  BY DEF AllTell, Tells, HostsAccountedFor
<1>4. QED
  BY <1>1, <1>2, <1>3, TypeCorrect, LockRespected, PTL DEF Spec

-----------------------------------------------------------------------------
(* Who is signalled *)

\* The browser at the pid an active record names is the session's own, and so
\* is the one a process inside has just launched.  Between a kill and its write
\* the session is locked and nothing is said of it.
Bound ==
  /\ \A s \in Sid : rec[s].status = "active" /\ rec[s].pid # NoPid /\ Unlocked(s) =>
       os[rec[s].pid] = s
  /\ \A p \in Proc, s \in Sid : Inside(p, s) /\ op[p].stage = "launched" =>
       os[op[p].pid] = s

\* A write that makes no session active and gives it no pid.
Binds(r, w) ==
  w.status = "active" /\ w.pid # NoPid => r.status = "active" /\ r.pid = w.pid

\* Steps that leave the processes of the system and the locks alone.
Plain(p) ==
  /\ Outside(p) /\ UNCHANGED os
  /\ \/ UNCHANGED rec
     \/ \E t \in Sid : \E r : Unlocked(t) /\ rec' = [rec EXCEPT ![t] = r] /\ Binds(rec[t], r)

LEMMA PlainBinds ==
  ASSUME TypeOK, Bound, NEW p \in Proc, Plain(p)
  PROVE  Bound'
<1>1. ASSUME NEW s \in Sid, rec'[s].status = "active", rec'[s].pid # NoPid, Unlocked(s)'
      PROVE  os'[rec'[s].pid] = s
  <2>1. Binds(rec[s], rec'[s])
    BY DEF Plain, Binds, TypeOK
  <2>2. Unlocked(s)
    BY <1>1, OutsideLocks DEF Plain
  <2>3. QED
    BY <1>1, <2>1, <2>2 DEF Binds, Bound, Plain
<1>2. ASSUME NEW b \in Proc, NEW s \in Sid, Inside(b, s)', op'[b].stage = "launched"
      PROVE  os'[op'[b].pid] = s
  BY <1>2, OutsideLocks DEF Plain, Bound
<1>3. QED
  BY <1>1, <1>2 DEF Bound

LEMMA WritesBind ==
  ASSUME NEW r \in Record
  PROVE  /\ Binds(r, r) /\ Binds(r, Unleased(r)) /\ Binds(r, NoRecord)
         /\ Binds(r, [r EXCEPT !.generation = r.generation + 1])
         /\ \A h \in Holder, now \in Nat : Binds(r, Leased(r, h, now))
         /\ \A st \in EndedStatus : Binds(r, Ended(r, st))
         /\ \A m, hs \in SUBSET Host : Binds(r, WithHosts(r, m, hs))
<1>1. Binds(r, r) /\ Binds(r, Unleased(r))
  BY DEF Binds, Unleased, Record
<1>2. Binds(r, NoRecord)
  BY DEF Binds, NoRecord
<1>3. Binds(r, [r EXCEPT !.generation = r.generation + 1])
  BY DEF Binds, Record
<1>4. \A h \in Holder, now \in Nat : Binds(r, Leased(r, h, now))
  BY DEF Binds, Leased, Record
<1>5. \A st \in EndedStatus : Binds(r, Ended(r, st))
  BY DEF Binds, Ended, Record, EndedStatus
<1>6. \A m, hs \in SUBSET Host : Binds(r, WithHosts(r, m, hs))
  BY DEF Binds, WithHosts, Record
<1>7. QED
  BY <1>1, <1>2, <1>3, <1>4, <1>5, <1>6

\* The actions that neither launch, nor kill, nor write what follows on that.
LEMMA PlainWorks ==
  ASSUME TypeOK, LockInv, NEW p \in Proc, NEW t \in Sid,
         \/ StopSweep(p) \/ CreateRefused(p, t) \/ CallFails(p, t) \/ AcquireRefused(p, t)
         \/ NothingNavigated(p, t) \/ CreateLaunchFails(p, t) \/ SweepSkips(p, t)
         \/ CreateWithoutLaunch(p, t) \/ AcquireGranted(p, t) \/ Release(p, t)
         \/ BumpGeneration(p, t)
         \/ \E hs \in SUBSET Host \ {{}} : RecordNavigated(p, t, hs)
         \/ SweepDropsLease(p, t) \/ SweepPurges(p, t)
  PROVE  Plain(p)
<1> USE DEF LockInv
<1>0. rec[t] \in Record /\ op[p] \in Op /\ HolderOf[p] \in Holder
  BY StoreAssumption DEF TypeOK
<1>1. ASSUME op[p].stage \in {"waiting", "sweeping"}, Leaves(p) \/ Sweeps(p)
      PROVE  Outside(p)
  BY <1>1 DEF Leaves, Sweeps, Outside
<1>2. CASE \/ StopSweep(p) \/ CreateRefused(p, t) \/ CallFails(p, t) \/ AcquireRefused(p, t)
           \/ NothingNavigated(p, t) \/ CreateLaunchFails(p, t) \/ SweepSkips(p, t)
  <2>1. UNCHANGED <<rec, os>> /\ op[p].stage \in {"waiting", "sweeping"}
    BY <1>2 DEF StopSweep, CreateRefused, CallFails, AcquireRefused, NothingNavigated, NoEffect,
                CreateLaunchFails, SweepSkips, Turn, Visits
  <2>2. Leaves(p) \/ Sweeps(p)
    BY <1>2, ReturnOp, SweptPastOp
       DEF StopSweep, CreateRefused, CallFails, AcquireRefused, NothingNavigated, NoEffect,
           CreateLaunchFails, SweepSkips, Visits, Staged
  <2>3. QED
    BY <1>1, <2>1, <2>2 DEF Plain
<1>3. ASSUME NEW r, Write(p, t, r), op[p].stage = "waiting", Unlocked(t), Binds(rec[t], r)
      PROVE  Plain(p)
  <2>1. Leaves(p)
    BY <1>3, ReturnOp DEF Write
  <2>2. UNCHANGED os /\ rec' = [rec EXCEPT ![t] = r]
    BY <1>3 DEF Write
  <2>3. QED
    BY <1>1, <1>3, <2>1, <2>2 DEF Plain
<1>4. CASE CreateWithoutLaunch(p, t)
  <2>1. PICK ttl \in TTLs, mode \in CreateModes \ {"launch"} :
          Write(p, t, NewRecord(op[p].now, ttl, mode = "adopt", NoPid))
    BY <1>4 DEF CreateWithoutLaunch
  <2>2. Binds(rec[t], NewRecord(op[p].now, ttl, mode = "adopt", NoPid))
    BY DEF Binds, NewRecord
  <2>3. QED
    BY <1>3, <1>4, <2>1, <2>2 DEF CreateWithoutLaunch, Turn
<1>5. CASE AcquireGranted(p, t)
  <2>1. Binds(rec[t], Leased(rec[t], HolderOf[p], op[p].now))
    BY <1>0, WritesBind DEF Op
  <2>2. QED
    BY <1>3, <1>5, <2>1 DEF AcquireGranted, Turn
<1>6. CASE Release(p, t)
  <2>1. Binds(rec[t], IF rec[t].lease.holder = HolderOf[p] THEN Unleased(rec[t]) ELSE rec[t])
    BY <1>0, WritesBind
  <2>2. QED
    BY <1>3, <1>6, <2>1 DEF Release, Turn
<1>7. CASE BumpGeneration(p, t)
  <2>1. Binds(rec[t], [rec[t] EXCEPT !.generation = rec[t].generation + 1])
    BY <1>0, WritesBind
  <2>2. QED
    BY <1>3, <1>7, <2>1 DEF BumpGeneration, Turn
<1>8. ASSUME NEW hs \in SUBSET Host \ {{}}, RecordNavigated(p, t, hs)
      PROVE  Plain(p)
  <2>1. PICK m \in Merges(rec[t], hs) : Write(p, t, WithHosts(rec[t], m, hs))
    BY <1>8 DEF RecordNavigated
  <2>2. m \in SUBSET Host
    BY <1>0 DEF Merges, Record
  <2>3. Binds(rec[t], WithHosts(rec[t], m, hs))
    BY <1>0, <2>2, WritesBind
  <2>4. QED
    BY <1>3, <1>8, <2>1, <2>3 DEF RecordNavigated, Turn
<1>9. CASE SweepDropsLease(p, t) \/ SweepPurges(p, t)
  <2>1. Sweeps(p) /\ op[p].stage = "sweeping" /\ Unlocked(t) /\ UNCHANGED os
    BY <1>9, SweptPastOp DEF SweepDropsLease, SweepPurges, Visits, Staged
  <2>2. Binds(rec[t], Unleased(rec[t])) /\ Binds(rec[t], NoRecord)
    BY <1>0, WritesBind
  <2>3. \E r : rec' = [rec EXCEPT ![t] = r] /\ Binds(rec[t], r)
    BY <1>9, <2>2 DEF SweepDropsLease, SweepPurges
  <2>4. QED
    BY <1>1, <2>1, <2>3 DEF Plain
<1>10. QED
  BY <1>2, <1>4, <1>5, <1>6, <1>7, <1>8, <1>9

\* After the kill of t only sessions other than t are spoken of, and no other
\* record or launcher names the pid that was signalled.
LEMMA KillBinds ==
  ASSUME TypeOK, LockInv, Bound, NEW p \in Proc, NEW t \in Sid,
         op[p].stage \in {"waiting", "sweeping"}, Unlocked(t), rec[t].status = "active",
         StopsBrowser(p, t)
  PROVE  Bound'
<1>1. Others(p) /\ UNCHANGED rec /\ op'[p].stage = "reaping" /\ op'[p].sid = t
  BY StopsBrowserOp
<1>2. ASSUME NEW q \in Pid, os[q] # t
      PROVE  os'[q] = os[q]
  <2>1. CASE Signalled(rec[t])
    <3>1. rec[t].pid # q
      BY <1>2, <2>1 DEF Bound, Signalled
    <3>2. QED
      BY <2>1, <3>1 DEF StopsBrowser, TypeOK
  <2>2. CASE ~Signalled(rec[t])
    BY <2>2 DEF StopsBrowser
  <2>3. QED
    BY <2>1, <2>2
<1>3. ASSUME NEW s \in Sid, rec'[s].status = "active", rec'[s].pid # NoPid, Unlocked(s)'
      PROVE  os'[rec'[s].pid] = s
  <2>1. s # t
    BY <1>1, <1>3 DEF Unlocked, Inside
  <2>2. Unlocked(s)
    <3>1. ~Inside(p, s)
      BY DEF Inside
    <3>2. QED
      BY <1>1, <1>3, <3>1 DEF Unlocked, Inside, Others
  <2>3. rec[s].pid \in Pid /\ os[rec[s].pid] = s
    BY <1>1, <1>3, <2>2 DEF Bound, TypeOK, Record
  <2>4. QED
    BY <1>1, <1>2, <2>1, <2>3
<1>4. ASSUME NEW b \in Proc, NEW s \in Sid, Inside(b, s)', op'[b].stage = "launched"
      PROVE  os'[op'[b].pid] = s
  <2>1. b # p
    BY <1>1, <1>4
  <2>2. op'[b] = op[b] /\ Inside(b, s)
    BY <1>1, <1>4, <2>1 DEF Others, Inside
  <2>3. s # t
    BY <2>2 DEF Unlocked
  <2>4. op[b].pid \in Pid /\ os[op[b].pid] = s
    BY <1>4, <2>2 DEF Bound, LockInv, Staged
  <2>5. QED
    BY <1>2, <2>2, <2>3, <2>4
<1>5. QED
  BY <1>3, <1>4 DEF Bound

LEMMA BoundWorks ==
  ASSUME TypeOK, LockInv, Bound, NEW p \in Proc, Works(p)
  PROVE  Bound'
<1> USE DEF LockInv
<1>1. ASSUME NEW t \in Sid, Plain(p)
      PROVE  Bound'
  BY <1>1, PlainBinds
<1>2. ASSUME NEW t \in Sid, NEW q \in Pid, CreateLaunches(p, t, q)
      PROVE  Bound'
  <2>1. /\ Launches(p) /\ op'[p].sid = t /\ op'[p].pid = q
        /\ rec' = rec /\ os' = [os EXCEPT ![q] = t] /\ os[q] = Free
        /\ Unlocked(t) /\ rec[t].status = "absent"
    BY <1>2, LaunchedOp DEF CreateLaunches, Turn
  <2>2. ASSUME NEW b \in Pid, os[b] \in Sid
        PROVE  os'[b] = os[b]
    BY <2>1, <2>2, StoreAssumption DEF TypeOK
  <2>3. os'[q] = t
    BY <2>1 DEF TypeOK
  <2>4. \A c \in Proc, s \in Sid : s # t => (Inside(c, s)' <=> Inside(c, s))
    BY <1>2, <2>1 DEF Launches, Others, Inside, CreateLaunches, Turn
  <2>5. ASSUME NEW s \in Sid, rec'[s].status = "active", rec'[s].pid # NoPid, Unlocked(s)'
        PROVE  os'[rec'[s].pid] = s
    <3>1. s # t
      BY <2>1, <2>5
    <3>2. Unlocked(s)
      BY <2>4, <2>5, <3>1 DEF Unlocked
    <3>3. rec[s].pid \in Pid /\ os[rec[s].pid] = s
      BY <2>1, <2>5, <3>2 DEF Bound, TypeOK, Record
    <3>4. QED
      BY <2>1, <2>2, <3>3
  <2>6. ASSUME NEW b \in Proc, NEW s \in Sid, Inside(b, s)', op'[b].stage = "launched"
        PROVE  os'[op'[b].pid] = s
    <3>1. CASE b = p
      BY <2>1, <2>3, <2>6, <3>1 DEF Inside
    <3>2. CASE b # p
      <4>1. op'[b] = op[b] /\ Inside(b, s)
        BY <2>1, <2>6, <3>2 DEF Launches, Others, Inside
      <4>2. op[b].pid \in Pid /\ os[op[b].pid] = s
        BY <2>6, <4>1 DEF Bound, Staged
      <4>3. QED
        BY <2>2, <4>1, <4>2
    <3>3. QED
      BY <3>1, <3>2
  <2>7. QED
    BY <2>5, <2>6 DEF Bound
<1>3. ASSUME NEW t \in Sid, NEW r, Inside(p, t), Leaves(p) \/ Sweeps(p), UNCHANGED os,
             rec' = [rec EXCEPT ![t] = r],
             r.status = "active" /\ r.pid # NoPid => os[r.pid] = t
      PROVE  Bound'
  <2>1. \A c \in Proc, s \in Sid : Inside(c, s)' <=> Inside(c, s) /\ s # t
    BY <1>3 DEF Exclusive, Inside, Leaves, Sweeps, Others
  <2>2. \A c \in Proc, s \in Sid : Inside(c, s)' => op'[c] = op[c]
    BY <1>3, <2>1 DEF Inside, Leaves, Sweeps, Others
  <2>3. \A s \in Sid : s # t => (Unlocked(s)' <=> Unlocked(s)) /\ rec'[s] = rec[s]
    BY <1>3, <2>1 DEF Unlocked, TypeOK
  <2>4. rec'[t] = r
    BY <1>3 DEF TypeOK
  <2>5. QED
    BY <1>3, <2>1, <2>2, <2>3, <2>4 DEF Bound
<1>4. ASSUME NEW t \in Sid, CreateWrites(p, t)
      PROVE  Bound'
  <2>1. PICK ttl \in TTLs : Write(p, t, NewRecord(op[p].now, ttl, TRUE, op[p].pid))
    BY <1>4 DEF CreateWrites
  <2>2. Inside(p, t) /\ os[op[p].pid] = t
    BY <1>4 DEF CreateWrites, Inside, Bound
  <2> DEFINE r == NewRecord(op[p].now, ttl, TRUE, op[p].pid)
  <2>3. rec' = [rec EXCEPT ![t] = r] /\ UNCHANGED os /\ Leaves(p)
    BY <2>1, ReturnOp DEF Write
  <2>4. r.pid = op[p].pid
    BY DEF NewRecord
  <2> HIDE DEF r
  <2>5. QED
    BY <1>3, <2>2, <2>3, <2>4
<1>5. ASSUME NEW t \in Sid, CloseWrites(p, t) \/ SweepExpires(p, t)
      PROVE  Bound'
  <2>0. rec[t] \in Record
    BY DEF TypeOK
  <2>1. PICK st \in EndedStatus : rec' = [rec EXCEPT ![t] = Ended(rec[t], st)]
    BY <1>5 DEF CloseWrites, SweepExpires, Write, EndedStatus
  <2>2. Ended(rec[t], st).status # "active" /\ Binds(rec[t], Ended(rec[t], st))
    BY <2>0, WritesBind DEF Ended, Record, EndedStatus
  <2>3. UNCHANGED os /\ (Leaves(p) \/ Sweeps(p))
    BY <1>5, ReturnOp, SweptPastOp DEF CloseWrites, SweepExpires, Write
  <2>4. CASE Inside(p, t)
    BY <1>3, <2>1, <2>2, <2>3, <2>4
  <2>5. CASE ~Inside(p, t)
    <3>1. op[p].stage = "waiting" /\ Unlocked(t)
      BY <1>5, <2>5 DEF CloseWrites, SweepExpires, Turn
    <3>2. Outside(p)
      BY <2>3, <3>1 DEF Outside, Leaves, Sweeps
    <3>3. Plain(p)
      BY <2>1, <2>2, <2>3, <3>1, <3>2 DEF Plain
    <3>4. QED
      BY <1>1, <3>3
  <2>6. QED
    BY <2>4, <2>5
<1>6. ASSUME NEW t \in Sid, CloseKills(p, t) \/ SweepKills(p, t)
      PROVE  Bound'
  <2>1. /\ op[p].stage \in {"waiting", "sweeping"} /\ Unlocked(t)
        /\ rec[t].status = "active" /\ StopsBrowser(p, t)
    BY <1>6 DEF CloseKills, SweepKills, Turn, Visits, Expires
  <2>2. QED
    BY <2>1, KillBinds
<1>7. ASSUME StopSweep(p)
      PROVE  Bound'
  <2>1. Outside(p) /\ UNCHANGED <<os, rec>>
    BY <1>7, ReturnOp DEF StopSweep, NoEffect, Leaves, Outside
  <2>2. QED
    BY <2>1, PlainBinds DEF Plain
<1>8. QED
  BY <1>1, <1>2, <1>4, <1>5, <1>6, <1>7, PlainWorks DEF Works

\* The faults that take a pid from its session without the store's doing.
PidsStay == Faults \cap {"browser_exit", "crash_after_kill", "corruption"} = {}

LEMMA BoundStep ==
  ASSUME PidsStay
  PROVE  TypeOK /\ LockInv /\ Bound /\ [Next]_vars => Bound'
<1> SUFFICES ASSUME TypeOK, LockInv, Bound, [Next]_vars
             PROVE  Bound'
  OBVIOUS
<1>1. CASE \E p \in Proc : Works(p)
  BY <1>1, BoundWorks
<1>2. ASSUME NEW p \in Proc, Begins(p), op[p].stage = "idle", UNCHANGED os
      PROVE  Bound'
  BY <1>2, PlainBinds DEF Begins, Outside, Plain
<1>3. CASE \E p \in Proc, v \in Verbs, s \in Sid : Call(p, v, s)
  BY <1>2, <1>3, CallOp DEF Call
<1>4. CASE \E p \in Proc, f \in Filters : StartSweep(p, f)
  BY <1>2, <1>4, StartSweepOp DEF StartSweep
<1>5. CASE UNCHANGED <<rec, op, os>>
  BY <1>5 DEF Bound, Unlocked, Inside
<1>6. ASSUME NEW p \in Proc, Dies(p)
      PROVE  Bound'
  <2>1. op[p].stage = "launched" /\ Leaves(p) /\ UNCHANGED <<rec, os>>
    BY <1>6, ReturnOp DEF Dies, Fault, PidsStay
  <2>2. \A c \in Proc, s \in Sid : Inside(c, s)' => Inside(c, s) /\ op'[c] = op[c]
    BY <2>1 DEF Leaves, Others, Inside
  <2>3. ASSUME NEW s \in Sid, ~Unlocked(s), Unlocked(s)'
        PROVE  rec[s].status = "absent"
    <3>1. Inside(p, s)
      BY <2>1, <2>3 DEF Leaves, Others, Unlocked, Inside
    <3>2. QED
      BY <2>1, <3>1 DEF LockInv, RecordInside
  <2>4. QED
    BY <2>1, <2>2, <2>3 DEF Bound
<1>7. ASSUME NEW q \in Pid, BrowserExits(q) \/ PidReused(q)
      PROVE  Bound'
  <2>1. UNCHANGED <<rec, op>> /\ os[q] = Free /\ \E x : os' = [os EXCEPT ![q] = x]
    BY <1>7 DEF BrowserExits, PidReused, Fault, PidsStay
  <2>2. \A b \in Pid : os[b] \in Sid => os'[b] = os[b]
    BY <2>1, StoreAssumption DEF TypeOK
  <2>3. ASSUME NEW s \in Sid, rec[s].status = "active", rec[s].pid # NoPid, Unlocked(s)
        PROVE  os'[rec[s].pid] = s
    <3>1. rec[s].pid \in Pid /\ os[rec[s].pid] = s
      BY <2>3 DEF Bound, TypeOK, Record
    <3>2. QED
      BY <2>2, <3>1
  <2>4. ASSUME NEW p \in Proc, NEW s \in Sid, Inside(p, s), op[p].stage = "launched"
        PROVE  os'[op[p].pid] = s
    <3>1. op[p].pid \in Pid /\ os[op[p].pid] = s
      BY <2>4 DEF Bound, LockInv, Staged
    <3>2. QED
      BY <2>2, <3>1
  <2>5. QED
    BY <2>1, <2>3, <2>4 DEF Bound, Unlocked, Inside
<1>8. CASE \E s \in Sid : Corrupts(s)
  BY <1>8 DEF Corrupts, Fault, PidsStay
<1>9. QED
  BY <1>1, <1>3, <1>4, <1>5, <1>6, <1>7, <1>8 DEF Next, Tick, vars

\* A browser is stopped by the close or the sweep of its own session, and the
\* sweep has seen no live lease by a clock reading of the past.
LEMMA StopsOwn ==
  ASSUME TypeOK, LockInv, GrantHonoured, Bound, PidsStay, [Next]_vars,
         NEW s \in Sid, NEW q \in Pid, NEW h \in Proc,
         os[q] = s, os'[q] # s, HoldsGrant(h, s)
  PROVE  \E p \in Proc : op'[p].verb = "close" /\ op'[p].sid = s
<1>1. ASSUME NEW p \in Proc, NEW t \in Sid, Unlocked(t), rec[t].status = "active",
             StopsBrowser(p, t)
      PROVE  t = s
  <2>1. rec[t].pid = q /\ q # NoPid
    BY <1>1, RecordAssumption DEF StopsBrowser, Signalled, TypeOK
  <2>2. QED
    BY <1>1, <2>1 DEF Bound
<1>2. ASSUME NEW p \in Proc, NEW t \in Sid, CloseKills(p, t)
      PROVE  \E b \in Proc : op'[b].verb = "close" /\ op'[b].sid = s
  <2>1. t = s
    BY <1>1, <1>2 DEF CloseKills, Turn
  <2>2. op'[p].verb = "close" /\ op'[p].sid = t
    BY <1>2, StopsBrowserOp DEF CloseKills, Turn
  <2>3. QED
    BY <2>1, <2>2
<1>3. ASSUME NEW p \in Proc, NEW t \in Sid, SweepKills(p, t)
      PROVE  FALSE
  <2>1. t = s
    BY <1>1, <1>3 DEF SweepKills, Visits, Expires
  <2>2. ~LeaseIsLive(rec[s], op[p].now)
    BY <1>3, <2>1 DEF SweepKills, Expires
  <2>3. /\ rec[s].lease.holder = HolderOf[h] /\ HolderOf[h] \in Holder
        /\ rec[s].lease.expires_at >= grant[h][s]
    BY StoreAssumption DEF GrantHonoured
  <2>4. /\ grant[h][s] \in Nat /\ clock \in Nat /\ op[p].now \in Nat
        /\ grant[h][s] > clock /\ op[p].now <= clock /\ rec[s] \in Record
    BY DEF TypeOK, HoldsGrant, LockInv, Staged, Op
  <2>5. LeaseIsLive(rec[s], op[p].now)
    BY <2>3, <2>4, RecordAssumption DEF LeaseIsLive, Record, Lease
  <2>6. QED
    BY <2>2, <2>5
<1>4. ASSUME NEW p \in Proc, NEW t \in Sid, NEW b \in Pid, CreateLaunches(p, t, b)
      PROVE  FALSE
  BY <1>4, StoreAssumption DEF CreateLaunches, TypeOK
<1>5. ASSUME NEW b \in Pid, BrowserExits(b) \/ PidReused(b)
      PROVE  FALSE
  <2>1. os[b] = Free /\ \E x : os' = [os EXCEPT ![b] = x]
    BY <1>5 DEF BrowserExits, PidReused, Fault, PidsStay
  <2>2. QED
    BY <2>1, StoreAssumption DEF TypeOK
<1>6. ASSUME NEW p \in Proc, NEW t \in Sid,
             \/ StopSweep(p) \/ CreateRefused(p, t) \/ CallFails(p, t) \/ AcquireRefused(p, t)
             \/ NothingNavigated(p, t) \/ CreateLaunchFails(p, t) \/ SweepSkips(p, t)
             \/ CreateWithoutLaunch(p, t) \/ AcquireGranted(p, t) \/ Release(p, t)
             \/ BumpGeneration(p, t)
             \/ \E hs \in SUBSET Host \ {{}} : RecordNavigated(p, t, hs)
             \/ SweepDropsLease(p, t) \/ SweepPurges(p, t)
      PROVE  FALSE
  BY <1>6, PlainWorks DEF Plain
<1>7. ASSUME NEW p \in Proc, NEW t \in Sid,
             CreateWrites(p, t) \/ CloseWrites(p, t) \/ SweepExpires(p, t)
      PROVE  FALSE
  BY <1>7 DEF CreateWrites, CloseWrites, SweepExpires, Write
<1>8. CASE \E p \in Proc : Works(p)
  BY <1>2, <1>3, <1>4, <1>6, <1>7, <1>8 DEF Works
<1>9. CASE UNCHANGED os
  BY <1>9
<1>10. QED
  BY <1>5, <1>8, <1>9 DEF Next, Call, StartSweep, Tick, Dies, Corrupts, vars

\* A browser under an unexpired grant is stopped by a close of its session and
\* by nothing else, also while pids are reused and launchers die, as long as
\* no pid goes to another session behind a record's back.
\* (acquire_lease, close, clean, _reap_browser)
THEOREM GrantedBrowsersStopOnClose ==
  ASSUME OwnHolders, PidsStay
  PROVE  Spec => GrantedBrowserStoppedByCloseOnly
<1>1. Init => Bound
  BY StoreAssumption DEF Init, Bound, NoRecord, LegacyRecord, NewRecord, Inside, Idle
<1>2. TypeOK /\ LockInv /\ Bound /\ [Next]_vars => Bound'
  BY BoundStep
<1>3. "corruption" \notin Faults
  BY DEF PidsStay
<1>4. Spec => []GrantHonoured
  BY <1>3, GrantsHonoured
<1>5. TypeOK /\ LockInv /\ GrantHonoured /\ Bound /\ [Next]_vars =>
        [\A s \in Sid, q \in Pid :
           /\ os[q] = s /\ os'[q] # s
           /\ \E p \in Proc : HoldsGrant(p, s)
           => \E p \in Proc : op'[p].verb = "close" /\ op'[p].sid = s]_vars
  BY StopsOwn
<1>6. QED
  BY <1>1, <1>2, <1>4, <1>5, TypeCorrect, LockRespected, PTL
     DEF Spec, GrantedBrowserStoppedByCloseOnly

-----------------------------------------------------------------------------
(***************************************************************************)
(* FileSessionStore, whatever its processes do and however many there are, *)
(* implements LeasedSession: each of its steps is, by the wall clock, a    *)
(* step of the abstract session or no step at all.                         *)
(*                                                                         *)
(* What is not obvious is the time a step judges by.  A caller's now may   *)
(* be older than the clock; a lease that is over at the older time is over *)
(* now, so a sweep ends only sessions nobody holds, and a caller that      *)
(* waited too long for the lock is granted a lease that is already over,   *)
(* which the abstract session sees as its holder's time running out.       *)
(***************************************************************************)
\* Only a record that can be read carries a lease.
LeasesReadable == \A s \in Sid : ~Readable(rec[s]) => rec[s].lease.holder = NoHolder

LEMMA PlainRecords ==
  /\ NoRecord.lease.holder = NoHolder /\ NoRecord.status = "absent"
  /\ CorruptRecord.lease.holder = NoHolder /\ CorruptRecord.status = "corrupt"
  /\ LegacyRecord.lease.holder = NoHolder /\ LegacyRecord.status = "active"
  BY DEF NoRecord, CorruptRecord, LegacyRecord, NewRecord, NoLease

LEMMA NewRecordFields ==
  ASSUME NEW now, NEW ttl, NEW endpoint, NEW pid
  PROVE  /\ NewRecord(now, ttl, endpoint, pid).status = "active"
         /\ NewRecord(now, ttl, endpoint, pid).lease.holder = NoHolder
  BY DEF NewRecord, NoLease

LEMMA LeasedFields ==
  ASSUME NEW r \in Record, NEW h, NEW now
  PROVE  /\ Leased(r, h, now).status = r.status
         /\ Leased(r, h, now).lease.holder = h
         /\ Leased(r, h, now).lease.expires_at = now + LeaseTTL
  BY DEF Leased, Record

LEMMA UnleasedFields ==
  ASSUME NEW r \in Record
  PROVE  Unleased(r).status = r.status /\ Unleased(r).lease.holder = NoHolder
  BY DEF Unleased, NoLease, Record

LEMMA EndedFields ==
  ASSUME NEW r \in Record, NEW st \in EndedStatus
  PROVE  Ended(r, st).status = st /\ Ended(r, st).lease.holder = NoHolder
  BY DEF Ended, NoLease, Record, EndedStatus

-----------------------------------------------------------------------------
(* What a step writes *)

\* A working process leaves every record, or writes one of these to the one it
\* has locked.
Created(p, t, r) == rec[t].status = "absent" /\ r.status = "active" /\ r.lease.holder = NoHolder
Granted(p, t, r) ==
  /\ rec[t].status = "active" /\ ~LeaseRefused(rec[t], HolderOf[p], op[p].now)
  /\ r = Leased(rec[t], HolderOf[p], op[p].now)
Dropped(p, t, r) == Readable(rec[t]) /\ r.status = rec[t].status /\ r.lease.holder = NoHolder
Touched(p, t, r) == Readable(rec[t]) /\ r.status = rec[t].status /\ r.lease = rec[t].lease
Closed(p, t, r) == Readable(rec[t]) /\ r.status = "closed" /\ r.lease.holder = NoHolder
Expired(p, t, r) ==
  /\ rec[t].status = "active" /\ ~LeaseIsLive(rec[t], op[p].now)
  /\ r.status = "expired" /\ r.lease.holder = NoHolder
Purged(p, t, r) ==
  /\ rec[t].status \in EndedStatus \cup {"corrupt"}
  /\ rec[t].status \in EndedStatus => ~LeaseIsLive(rec[t], op[p].now)
  /\ r = NoRecord

Writes(p, t, r) ==
  /\ rec' = [rec EXCEPT ![t] = r]
  /\ \/ Created(p, t, r) \/ Granted(p, t, r) \/ Dropped(p, t, r) \/ Touched(p, t, r)
     \/ Closed(p, t, r) \/ Expired(p, t, r) \/ Purged(p, t, r)

LEMMA WorksWrites ==
  ASSUME TypeOK, LockInv, NEW p \in Proc, Works(p)
  PROVE  UNCHANGED rec \/ \E t \in Sid : \E r : Writes(p, t, r)
<1> USE DEF LockInv
<1>0. \A t \in Sid : rec[t] \in Record
  BY DEF TypeOK
<1>1. ASSUME StopSweep(p) \/ \E t \in Sid :
               \/ CreateRefused(p, t) \/ CallFails(p, t) \/ AcquireRefused(p, t)
               \/ NothingNavigated(p, t)
               \/ CreateLaunchFails(p, t) \/ SweepSkips(p, t)
               \/ CloseKills(p, t) \/ SweepKills(p, t)
               \/ \E q \in Pid : CreateLaunches(p, t, q)
      PROVE  UNCHANGED rec
  BY <1>1 DEF StopSweep, CreateRefused, CallFails, AcquireRefused, NothingNavigated, NoEffect,
              CreateLaunchFails, SweepSkips, CloseKills, SweepKills, StopsBrowser, CreateLaunches
<1>2. ASSUME NEW t \in Sid, CreateWrites(p, t) \/ CreateWithoutLaunch(p, t)
      PROVE  \E r : Writes(p, t, r)
  <2>1. rec[t].status = "absent"
    BY <1>2 DEF CreateWrites, CreateWithoutLaunch, RecordInside, Inside
  <2>2. ASSUME NEW now, NEW ttl, NEW endpoint, NEW pid,
               Write(p, t, NewRecord(now, ttl, endpoint, pid))
        PROVE  Writes(p, t, NewRecord(now, ttl, endpoint, pid))
    BY <2>1, <2>2, NewRecordFields DEF Write, Writes, Created
  <2>3. CASE CreateWrites(p, t)
    <3>1. PICK ttl \in TTLs : Write(p, t, NewRecord(op[p].now, ttl, TRUE, op[p].pid))
      BY <2>3 DEF CreateWrites
    <3>2. QED
      BY <2>2, <3>1
  <2>4. CASE CreateWithoutLaunch(p, t)
    <3>1. PICK ttl \in TTLs, mode \in CreateModes \ {"launch"} :
            Write(p, t, NewRecord(op[p].now, ttl, mode = "adopt", NoPid))
      BY <2>4 DEF CreateWithoutLaunch
    <3>2. QED
      BY <2>2, <3>1
  <2>5. QED
    BY <1>2, <2>3, <2>4
<1>3. ASSUME NEW t \in Sid, AcquireGranted(p, t)
      PROVE  \E r : Writes(p, t, r)
  BY <1>3 DEF AcquireGranted, Write, Writes, Granted
<1>4. ASSUME NEW t \in Sid, Release(p, t)
      PROVE  \E r : Writes(p, t, r)
  <2>1. rec' = [rec EXCEPT ![t] = Unleased(rec[t])] \/ rec' = [rec EXCEPT ![t] = rec[t]]
    BY <1>4 DEF Release, Write
  <2>2. Dropped(p, t, Unleased(rec[t])) /\ Touched(p, t, rec[t])
    BY <1>0, <1>4, UnleasedFields DEF Release, Dropped, Touched
  <2>3. QED
    BY <2>1, <2>2 DEF Writes
<1>5. ASSUME NEW t \in Sid, BumpGeneration(p, t)
      PROVE  \E r : Writes(p, t, r)
  <2> DEFINE r == [rec[t] EXCEPT !.generation = rec[t].generation + 1]
  <2>1. rec' = [rec EXCEPT ![t] = r]
    BY <1>5 DEF BumpGeneration, Write
  <2>2. Touched(p, t, r)
    BY <1>0, <1>5 DEF BumpGeneration, Touched, Record
  <2> HIDE DEF r
  <2>3. QED
    BY <2>1, <2>2 DEF Writes
<1>6. ASSUME NEW t \in Sid, NEW hs \in SUBSET Host \ {{}}, RecordNavigated(p, t, hs)
      PROVE  \E r : Writes(p, t, r)
  <2>1. PICK m \in Merges(rec[t], hs) : Write(p, t, WithHosts(rec[t], m, hs))
    BY <1>6 DEF RecordNavigated
  <2> DEFINE r == WithHosts(rec[t], m, hs)
  <2>2. rec' = [rec EXCEPT ![t] = r]
    BY <2>1 DEF Write
  <2>3. Touched(p, t, r)
    BY <1>0, <1>6 DEF RecordNavigated, Touched, WithHosts, Record
  <2> HIDE DEF r
  <2>4. QED
    BY <2>2, <2>3 DEF Writes
<1>7. ASSUME NEW t \in Sid, CloseWrites(p, t)
      PROVE  \E r : Writes(p, t, r)
  <2>1. rec' = [rec EXCEPT ![t] = Ended(rec[t], "closed")]
    BY <1>7 DEF CloseWrites, Write
  <2>2. Readable(rec[t])
    BY <1>7 DEF CloseWrites, Inside, Staged, RecordInside, EndedStatus, Readable
  <2>3. Closed(p, t, Ended(rec[t], "closed"))
    BY <1>0, <2>2, EndedFields DEF Closed, EndedStatus
  <2>4. QED
    BY <2>1, <2>3 DEF Writes
<1>8. ASSUME NEW t \in Sid, SweepDropsLease(p, t)
      PROVE  \E r : Writes(p, t, r)
  <2>1. rec' = [rec EXCEPT ![t] = Unleased(rec[t])]
    BY <1>8 DEF SweepDropsLease
  <2>2. Dropped(p, t, Unleased(rec[t]))
    BY <1>0, <1>8, UnleasedFields DEF SweepDropsLease, DropsLease, DeadLease, Dropped, Readable
  <2>3. QED
    BY <2>1, <2>2 DEF Writes
<1>9. ASSUME NEW t \in Sid, SweepPurges(p, t)
      PROVE  \E r : Writes(p, t, r)
  <2>1. rec' = [rec EXCEPT ![t] = NoRecord]
    BY <1>9 DEF SweepPurges
  <2>2. Purged(p, t, NoRecord)
    BY <1>9 DEF SweepPurges, Purges, Purged, EndedStatus
  <2>3. QED
    BY <2>1, <2>2 DEF Writes
<1>10. ASSUME NEW t \in Sid, SweepExpires(p, t)
       PROVE  \E r : Writes(p, t, r)
  <2>1. rec' = [rec EXCEPT ![t] = Ended(rec[t], "expired")]
    BY <1>10 DEF SweepExpires
  <2>2. rec[t].status = "active" /\ ~LeaseIsLive(rec[t], op[p].now)
    BY <1>10 DEF SweepExpires, Inside, Staged, RecordInside
  <2>3. Expired(p, t, Ended(rec[t], "expired"))
    BY <1>0, <2>2, EndedFields DEF Expired, EndedStatus
  <2>4. QED
    BY <2>1, <2>3 DEF Writes
<1>11. QED
  BY <1>1, <1>2, <1>3, <1>4, <1>5, <1>6, <1>7, <1>8, <1>9, <1>10 DEF Works

LEMMA LeasesReadableStep ==
  TypeOK /\ LockInv /\ LeasesReadable /\ [Next]_vars => LeasesReadable'
<1> SUFFICES ASSUME TypeOK, LockInv, LeasesReadable, [Next]_vars
             PROVE  LeasesReadable'
  OBVIOUS
<1>1. CASE UNCHANGED rec
  BY <1>1 DEF LeasesReadable
<1>2. ASSUME NEW t \in Sid, NEW r, rec' = [rec EXCEPT ![t] = r],
             ~Readable(r) => r.lease.holder = NoHolder
      PROVE  LeasesReadable'
  BY <1>2 DEF LeasesReadable, TypeOK
<1>3. ASSUME NEW p \in Proc, NEW t \in Sid, NEW r, Writes(p, t, r)
      PROVE  ~Readable(r) => r.lease.holder = NoHolder
  <2>1. rec[t] \in Record
    BY DEF TypeOK
  <2>2. CASE Granted(p, t, r)
    BY <2>1, <2>2, LeasedFields DEF Granted, Readable
  <2>3. CASE ~Granted(p, t, r)
    BY <1>3, <2>3, PlainRecords
       DEF Writes, Created, Dropped, Touched, Closed, Expired, Purged, Readable
  <2>4. QED
    BY <2>2, <2>3
<1>4. ASSUME NEW p \in Proc, NEW t \in Sid, NEW r, Writes(p, t, r)
      PROVE  LeasesReadable'
  BY <1>2, <1>3, <1>4 DEF Writes
<1>5. CASE \E p \in Proc : Works(p)
  BY <1>1, <1>4, <1>5, WorksWrites
<1>6. CASE \E t \in Sid : Corrupts(t)
  BY <1>2, <1>6, PlainRecords DEF Corrupts
<1>7. QED
  BY <1>1, <1>5, <1>6, StepKinds DEF vars, Tick, Begins

LEMMA LeasesReadableInit == Init => LeasesReadable
  BY PlainRecords DEF Init, LeasesReadable

-----------------------------------------------------------------------------
(* The mapping *)

phaseOf == [s \in Sid |-> Phase(rec[s])]
holderOf == [s \in Sid |-> HolderAt(rec[s], clock)]

LEMMA MappedWrite ==
  ASSUME TypeOK, NEW t \in Sid, NEW r, rec' = [rec EXCEPT ![t] = r], clock' = clock
  PROVE  /\ phaseOf' = [phaseOf EXCEPT ![t] = Phase(r)]
         /\ holderOf' = [holderOf EXCEPT ![t] = HolderAt(r, clock)]
<1>1. phaseOf' = [s \in Sid |-> Phase(rec'[s])]
  BY DEF phaseOf, Phase
<1>2. holderOf' = [s \in Sid |-> HolderAt(rec'[s], clock)]
  BY DEF holderOf, HolderAt, LeaseIsLive
<1>3. QED
  BY <1>1, <1>2 DEF phaseOf, holderOf, TypeOK

LEMMA MappedTick ==
  ASSUME TypeOK, Tick
  PROVE  Abstract!Next
<1> DEFINE over == {s \in Sid : ~LeaseIsLive(rec[s], clock')}
<1>1. ASSUME NEW s \in Sid
      PROVE  HolderAt(rec'[s], clock') = IF s \in over THEN NoHolder ELSE HolderAt(rec[s], clock)
  BY DEF Tick, HolderAt, LeaseIsLive, TypeOK, Record, Lease
<1>2. Abstract!Lapse(over)
  BY <1>1 DEF Abstract!Lapse, Tick, Phase
<1>3. over \in SUBSET Sid
  OBVIOUS
<1>4. QED
  BY <1>2, <1>3 DEF Abstract!Next

LEMMA MappedWorks ==
  ASSUME TypeOK, LockInv, LeasesReadable, NEW p \in Proc, clock' = clock,
         NEW t \in Sid, NEW r, Writes(p, t, r)
  PROVE  Abstract!Next \/ (phaseOf' = phaseOf /\ holderOf' = holderOf)
<1>1. /\ phaseOf' = [phaseOf EXCEPT ![t] = Phase(r)]
      /\ holderOf' = [holderOf EXCEPT ![t] = HolderAt(r, clock)]
  BY MappedWrite DEF Writes
<1>2. /\ phaseOf[t] = Phase(rec[t]) /\ holderOf[t] = HolderAt(rec[t], clock)
      /\ phaseOf \in [Sid -> {"none", "open", "ended"}] /\ DOMAIN holderOf = Sid
  BY DEF phaseOf, holderOf, Phase
<1>3. /\ op[p].now \in Nat /\ clock \in Nat /\ op[p].now <= clock
      /\ rec[t] \in Record /\ rec[t].lease.expires_at \in Nat
      /\ HolderOf[p] \in Holder
  BY StoreAssumption DEF TypeOK, Op, Record, Lease, LockInv, Staged
<1>4. ~LeaseIsLive(rec[t], op[p].now) => HolderAt(rec[t], clock) = NoHolder
  BY <1>3 DEF LeaseIsLive, HolderAt
<1>5. r.lease.holder = NoHolder => HolderAt(r, clock) = NoHolder
  BY DEF HolderAt, LeaseIsLive
<1>6. ASSUME Phase(r) = Phase(rec[t]), HolderAt(r, clock) = HolderAt(rec[t], clock)
      PROVE  phaseOf' = phaseOf /\ holderOf' = holderOf
  BY <1>1, <1>2, <1>6 DEF phaseOf, holderOf
<1>7. ASSUME Phase(r) = Phase(rec[t]), HolderAt(r, clock) = NoHolder
      PROVE  Abstract!Lapse({t})
  BY <1>1, <1>2, <1>7 DEF Abstract!Lapse, phaseOf, holderOf
<1>8. CASE Created(p, t, r)
  <2>1. Phase(rec[t]) = "none" /\ Phase(r) = "open"
    BY <1>8 DEF Created, Phase, EndedStatus
  <2>2. HolderAt(rec[t], clock) = NoHolder /\ HolderAt(r, clock) = NoHolder
    BY <1>5, <1>8 DEF Created, LeasesReadable, Readable, HolderAt, LeaseIsLive
  <2>3. Abstract!Open(t)
    BY <1>1, <1>2, <2>1, <2>2 DEF Abstract!Open, phaseOf, holderOf
  <2>4. QED
    BY <2>3 DEF Abstract!Next
<1>9. CASE Granted(p, t, r)
  <2>1. Phase(rec[t]) = "open" /\ Phase(r) = "open" /\ r.lease.holder = HolderOf[p]
    <3>1. /\ Leased(rec[t], HolderOf[p], op[p].now).status = rec[t].status
          /\ Leased(rec[t], HolderOf[p], op[p].now).lease.holder = HolderOf[p]
      BY <1>3, LeasedFields
    <3>2. rec[t].status = "active" /\ r.status = "active" /\ r.lease.holder = HolderOf[p]
      BY <1>9, <3>1 DEF Granted
    <3>3. QED
      BY <3>2 DEF Phase, EndedStatus
  <2>2. HolderAt(rec[t], clock) \in {NoHolder, HolderOf[p]}
    BY <1>3, <1>9 DEF Granted, LeaseRefused, LeaseIsLive, HolderAt
  <2>3. CASE LeaseIsLive(r, clock)
    <3>1. HolderAt(r, clock) = HolderOf[p]
      BY <2>1, <2>3 DEF HolderAt
    <3>2. phaseOf' = phaseOf
      BY <1>1, <1>2, <2>1 DEF phaseOf
    <3>3. Abstract!Take(t, HolderOf[p])
      BY <1>1, <1>2, <2>1, <2>2, <3>1, <3>2 DEF Abstract!Take, phaseOf, holderOf
    <3>4. QED
      BY <1>3, <3>3 DEF Abstract!Next
  <2>4. CASE ~LeaseIsLive(r, clock)
    <3>1. Abstract!Lapse({t})
      BY <1>7, <2>1, <2>4 DEF HolderAt
    <3>2. QED
      BY <3>1 DEF Abstract!Next
  <2>5. QED
    BY <2>3, <2>4
<1>10. CASE Dropped(p, t, r)
  <2>1. Abstract!Lapse({t})
    BY <1>5, <1>7, <1>10 DEF Dropped, Phase
  <2>2. QED
    BY <2>1 DEF Abstract!Next
<1>11. CASE Touched(p, t, r)
  BY <1>6, <1>11 DEF Touched, Phase, HolderAt, LeaseIsLive
<1>12. CASE Closed(p, t, r)
  <2>1. Phase(rec[t]) \in {"open", "ended"} /\ Phase(r) = "ended"
    BY <1>3, <1>12 DEF Closed, Phase, Readable, EndedStatus, Record, Status
  <2>2. Abstract!Close(t)
    BY <1>1, <1>2, <1>5, <1>12, <2>1 DEF Closed, Abstract!Close, phaseOf, holderOf
  <2>3. QED
    BY <2>2 DEF Abstract!Next
<1>13. CASE Expired(p, t, r)
  <2>1. Phase(rec[t]) = "open" /\ Phase(r) = "ended"
    BY <1>13 DEF Expired, Phase, EndedStatus
  <2>2. HolderAt(rec[t], clock) = NoHolder /\ HolderAt(r, clock) = NoHolder
    BY <1>4, <1>5, <1>13 DEF Expired
  <2>3. holderOf' = holderOf
    BY <1>1, <1>2, <2>2 DEF holderOf
  <2>4. Abstract!EndIdle(t)
    BY <1>1, <1>2, <2>1, <2>2, <2>3 DEF Abstract!EndIdle, phaseOf, holderOf
  <2>5. QED
    BY <2>4 DEF Abstract!Next
<1>14. CASE Purged(p, t, r)
  <2>1. Phase(r) = "none" /\ HolderAt(r, clock) = NoHolder
    BY <1>5, <1>14, PlainRecords DEF Purged, Phase, EndedStatus
  <2>2. HolderAt(rec[t], clock) = NoHolder
    BY <1>4, <1>14 DEF Purged, LeasesReadable, Readable, HolderAt, LeaseIsLive
  <2>3. holderOf' = holderOf
    BY <1>1, <1>2, <2>1, <2>2 DEF holderOf
  <2>4. CASE rec[t].status = "corrupt"
    BY <1>6, <2>1, <2>2, <2>4 DEF Phase, EndedStatus
  <2>5. CASE rec[t].status \in EndedStatus
    <3>1. Phase(rec[t]) = "ended"
      BY <2>5 DEF Phase, EndedStatus
    <3>2. Abstract!Forget(t)
      BY <1>1, <1>2, <2>1, <2>3, <3>1 DEF Abstract!Forget, phaseOf, holderOf
    <3>3. QED
      BY <3>2 DEF Abstract!Next
  <2>6. QED
    BY <1>14, <2>4, <2>5 DEF Purged
<1>15. QED
  BY <1>8, <1>9, <1>10, <1>11, <1>12, <1>13, <1>14 DEF Writes

\* As long as no record is damaged, FileSessionStore implements the abstract
\* leased session: one holder at a time, taken away only by release, expiry or
\* close, and housekeeping ends idle sessions only.  (FileSessionStore)
THEOREM StoreImplementsLeasedSession ==
  ASSUME "corruption" \notin Faults
  PROVE  Spec => ImplementsLeasedSession
<1>1. Init => Abstract!Init
  <2> SUFFICES ASSUME Init PROVE Abstract!Init
    OBVIOUS
  <2>1. ASSUME NEW s \in Sid
        PROVE  Phase(rec[s]) \in {"none", "open"} /\ HolderAt(rec[s], clock) = NoHolder
    BY <2>1, PlainRecords DEF Init, Phase, EndedStatus, HolderAt, LeaseIsLive
  <2>2. QED
    BY <2>1 DEF Abstract!Init
<1>2. TypeOK /\ LockInv /\ LeasesReadable /\ [Next]_vars => [Abstract!Next]_(Abstract!leasedVars)
  <2> SUFFICES ASSUME TypeOK, LockInv, LeasesReadable, [Next]_vars
               PROVE  Abstract!Next \/ (phaseOf' = phaseOf /\ holderOf' = holderOf)
    BY DEF Abstract!leasedVars, phaseOf, holderOf
  <2>1. CASE UNCHANGED <<rec, clock>>
    BY <2>1 DEF phaseOf, holderOf, Phase, HolderAt, LeaseIsLive
  <2>2. CASE \E p \in Proc : Works(p)
    BY <2>1, <2>2, MappedWorks, WorksWrites, WorksOp DEF LockInv
  <2>3. CASE Tick
    BY <2>3, MappedTick
  <2>4. CASE \E t \in Sid : Corrupts(t)
    BY <2>4 DEF Corrupts, Fault
  <2>5. QED
    BY <2>1, <2>2, <2>3, <2>4, StepKinds DEF vars, Begins
<1>3. Spec => Abstract!Spec
  BY <1>1, <1>2, LeasesReadableInit, LeasesReadableStep, TypeCorrect, LockRespected, PTL
     DEF Spec, Abstract!Spec
<1>4. QED
  BY <1>3 DEF ImplementsLeasedSession
=============================================================================
