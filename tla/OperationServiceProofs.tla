----------------------- MODULE OperationServiceProofs -----------------------
(***************************************************************************)
(* Proofs about OperationService, for any number of operations, scopes and *)
(* sessions, any limits, and without the bound of its clock but for Tick.  *)
(*                                                                         *)
(* Most of what is needed of an operation is a predicate on its own record *)
(* (Sound): every step keeps it for the record it writes, and the passing  *)
(* of time for all of them.  Leases relate the record to a session, and    *)
(* two operations of one session to each other.                            *)
(*                                                                         *)
(* Budgets are sums over all operations.  What an operation still owes the *)
(* budget of each dimension follows from the phase it is in; Balanced adds *)
(* up what each has paid, operation by operation, and a step is accounted  *)
(* for by what the one operation it runs pays in it (Pays).                *)
(***************************************************************************)
EXTENDS OperationService, SequenceTheorems, FiniteSetTheorems, TLAPS

-----------------------------------------------------------------------------
(* What holds of one run *)

Working == Stages \ (Finals \cup {"new"})
Halts == {"halted", "cancelled", "timed_out"}

InterruptedRun(r, now) == r.cancelled \/ \E t \in r.deadline : now >= t

\* The run has a phase, its clock reading is past, and a reference is the first
\* thing it resolves.
Shaped(r, now) ==
  /\ r.stage \in Working => r.plan # <<>>
  /\ r.now <= now
  /\ \A i \in 2 .. Len(r.plan) : r.plan[i] # "resolve"

\* It takes a lease after resolving references, with a reading that is past.
LeasedOne(r, now) ==
  /\ r.stage \in {"new", "preflight", "resolving"} => r.since = {}
  /\ \A t \in r.since : t <= now

\* A call that began too late is the last one.
LateOnce(r, now) ==
  r.late # 0 => r.late = 1 /\ InterruptedRun(r, now) /\ r.stage \in {"calling", "browser_seconds"}

\* A call that came back too late is followed by the step boundary that halts.
CutShort(r, now) ==
  r.cut => r.stage \in Halts \/ (r.stage = "browser_seconds" /\ InterruptedRun(r, now))

Sound(r, now) == Shaped(r, now) /\ LeasedOne(r, now) /\ LateOnce(r, now) /\ CutShort(r, now)

RunsSound == \A o \in Op : Sound(run[o], clock)

-----------------------------------------------------------------------------
(* Records *)

\* The plans: one phase, or two of which the second resolves nothing.
LEMMA PlanType ==
  ASSUME NEW kind \in DOMAIN Plan
  PROVE  /\ Plan[kind] \in Seq(Phases) /\ Plan[kind] # <<>>
         /\ \A i \in 2 .. Len(Plan[kind]) : Plan[kind][i] # "resolve"
<1>1. ASSUME NEW p \in Phases
      PROVE  /\ <<p>> \in Seq(Phases) /\ <<p>> # <<>>
             /\ \A i \in 2 .. Len(<<p>>) : <<p>>[i] # "resolve"
  OBVIOUS
<1>2. ASSUME NEW p \in Phases, NEW q \in Phases \ {"resolve"}
      PROVE  /\ <<p, q>> \in Seq(Phases) /\ <<p, q>> # <<>>
             /\ \A i \in 2 .. Len(<<p, q>>) : <<p, q>>[i] # "resolve"
  OBVIOUS
<1>3. \/ \E p \in Phases : Plan[kind] = <<p>>
      \/ \E p \in Phases, q \in Phases \ {"resolve"} : Plan[kind] = <<p, q>>
  BY DEF Plan, Phases
<1>4. QED
  BY <1>1, <1>2, <1>3

LEMMA NewRunSound ==
  ASSUME NEW sc \in Scope, NEW now \in Nat
  PROVE  NewRun(sc) \in Run /\ Sound(NewRun(sc), now)
<1>1. <<>> \in Seq(Phases) /\ Len(<<>>) = 0
  OBVIOUS
<1>2. "search" \in DOMAIN Plan /\ "new" \in Stages \ Working
  BY DEF Plan, Stages, Working
<1>3. Nothing \in [Dimension -> Nat]
  BY DEF Nothing
<1>4. NewRun(sc) \in Run
  BY <1>1, <1>2, <1>3 DEF NewRun, Run
<1>5. Sound(NewRun(sc), now)
  BY <1>1, <1>2 DEF NewRun, Sound, Shaped, LeasedOne, LateOnce, CutShort
<1>6. QED
  BY <1>4, <1>5

\* The result of a run is sound unless it succeeds in spite of being cut.
LEMMA EndedSound ==
  ASSUME NEW r \in Run, NEW now \in Nat, NEW lifecycle \in Finals,
         lifecycle = "succeeded" => ~r.cut
  PROVE  /\ Ended(r, lifecycle) \in Run /\ Sound(Ended(r, lifecycle), now)
         /\ Ended(r, lifecycle).since = {} /\ Ended(r, lifecycle).scope = r.scope
<1> DEFINE e == Ended(r, lifecycle)
<1>1. r.scope \in Scope /\ r.used \in [Dimension -> Nat] /\ r.cut \in BOOLEAN
  BY DEF Run
<1>2. NewRun(r.scope) \in Run
  BY <1>1, NewRunSound
<1>3. e \in Run
  BY <1>1, <1>2 DEF Ended, Run, Stages
<1>4. /\ e.stage = lifecycle /\ e.plan = <<>> /\ e.now = 0 /\ e.since = {} /\ e.late = 0
      /\ e.cut = r.cut /\ e.scope = r.scope
  BY DEF Ended, NewRun
<1>5. lifecycle \notin Working
  BY DEF Working
<1>6. lifecycle \in Halts \/ ~r.cut
  BY DEF Finals, Halts
<1>7. Sound(e, now)
  BY <1>4, <1>5, <1>6 DEF Sound, Shaped, LeasedOne, LateOnce, CutShort
<1>8. QED
  BY <1>3, <1>4, <1>7

\* Between a phase's call and the one before it, a run is neither late nor cut.
LEMMA OnTime ==
  ASSUME NEW r \in Run, NEW now \in Nat, Sound(r, now), r.stage \in Working
  PROVE  /\ r.plan # <<>>
         /\ r.stage # "browser_seconds" => ~r.cut
         /\ r.stage \notin {"calling", "browser_seconds"} => r.late = 0
         /\ r.stage = "browser_seconds" /\ ~InterruptedRun(r, now) => r.late = 0 /\ ~r.cut
  BY DEF Sound, Shaped, LateOnce, CutShort, Working, Stages, Finals, Halts

\* A run that is on time may go to any stage of its phase.
LEMMA StageSound ==
  ASSUME NEW r \in Run, NEW now \in Nat, Sound(r, now),
         r.plan # <<>>, ~r.cut, r.late = 0,
         NEW stage \in Stages, stage \in {"new", "preflight", "resolving"} => r.since = {}
  PROVE  LET g == [r EXCEPT !.stage = stage]
         IN  /\ g \in Run /\ Sound(g, now) /\ g.since = r.since
             /\ g.sid = r.sid /\ g.scope = r.scope
<1> DEFINE g == [r EXCEPT !.stage = stage]
<1>1. g \in Run
  BY DEF Run
<1>2. /\ g.stage = stage /\ g.plan = r.plan /\ g.now = r.now /\ g.since = r.since
      /\ g.late = r.late /\ g.cut = r.cut /\ g.sid = r.sid /\ g.scope = r.scope
  BY DEF Run
<1>3. Shaped(g, now)
  BY <1>2 DEF Sound, Shaped
<1>4. LeasedOne(g, now)
  BY <1>2 DEF Sound, LeasedOne
<1>5. LateOnce(g, now) /\ CutShort(g, now)
  BY <1>2 DEF LateOnce, CutShort
<1>6. QED
  BY <1>1, <1>2, <1>3, <1>4, <1>5 DEF Sound

LEMMA FirstStageType ==
  ASSUME NEW r, NEW phase
  PROVE  /\ FirstStage(r, phase) \in Working \ {"preflight"}
         /\ FirstStage(r, phase) = "resolving" => phase = "resolve"
  BY DEF FirstStage, Working, Stages, Finals

LEMMA PhaseOverSound ==
  ASSUME NEW r \in Run, NEW now \in Nat, Sound(r, now), r.plan # <<>>, ~r.cut, r.late = 0
  PROVE  LET g == PhaseOver(r)
         IN  /\ g \in Run /\ Sound(g, now) /\ g.scope = r.scope
             /\ g.since = {} \/ (g.since = r.since /\ g.sid = r.sid)
<1>1. CASE Len(r.plan) = 1
  <2>1. "succeeded" \in Finals
    BY DEF Finals
  <2>2. QED
    BY <1>1, <2>1, EndedSound DEF PhaseOver
<1>2. CASE Len(r.plan) # 1
  <2> DEFINE g == PhaseOver(r)
             next == FirstStage(r, Head(Tail(r.plan)))
  <2>1. r.plan \in Seq(Phases)
    BY DEF Run
  <2>2. /\ Tail(r.plan) \in Seq(Phases) /\ Len(Tail(r.plan)) = Len(r.plan) - 1
        /\ \A i \in 1 .. Len(Tail(r.plan)) : Tail(r.plan)[i] = r.plan[i + 1]
    BY <2>1, HeadTailProperties
  <2> DEFINE n == Len(r.plan)
             m == Len(Tail(r.plan))
  <2>3. n \in Nat \ {0} /\ n # 1 /\ m = n - 1
    <3>1. n \in Nat \ {0}
      BY <2>1, EmptySeq, Zenon
    <3>2. QED
      BY <1>2, <2>2, <3>1
  <2>4. n \in Nat /\ n >= 2 /\ m >= 1 /\ m # 0
    <3> HIDE DEF n, m
    <3>1. QED
      BY <2>3
  <2>5. Tail(r.plan) # <<>>
    <3>1. Len(<<>>) = 0
      BY EmptySeq, Zenon
    <3>2. QED
      BY <2>4, <3>1, Zenon
  <2>6. \A i \in 1 .. Len(Tail(r.plan)) : Tail(r.plan)[i] # "resolve"
    <3>1. \A i \in 2 .. Len(r.plan) : r.plan[i] # "resolve"
      BY DEF Sound, Shaped
    <3>2. QED
      BY <2>2, <2>3, <2>4, <3>1
  <2>7. Head(Tail(r.plan)) # "resolve"
    BY <2>2, <2>4, <2>5, <2>6
  <2>8. next \in Stages /\ next \notin {"new", "preflight", "resolving"}
    BY <2>7, FirstStageType DEF Working
  <2>9. g = [r EXCEPT !.plan = Tail(r.plan), !.stage = next]
    BY <1>2 DEF PhaseOver
  <2>10. g \in Run
    BY <2>2, <2>8, <2>9 DEF Run
  <2>11. /\ g.stage = next /\ g.plan = Tail(r.plan) /\ g.now = r.now /\ g.since = r.since
        /\ g.late = r.late /\ g.cut = r.cut /\ g.sid = r.sid /\ g.scope = r.scope
    BY <2>9 DEF Run
  <2>12. Shaped(g, now)
    BY <2>2, <2>5, <2>6, <2>11 DEF Sound, Shaped
  <2>13. LeasedOne(g, now) /\ LateOnce(g, now) /\ CutShort(g, now)
    BY <2>8, <2>11 DEF Sound, LeasedOne, LateOnce, CutShort
  <2>14. QED
    BY <2>10, <2>11, <2>12, <2>13 DEF Sound
<1>3. QED
  BY <1>1, <1>2

\* Charges change nothing of what Sound is about.
LEMMA ConsumesSound ==
  ASSUME NEW r \in Run, NEW now \in Nat, Sound(r, now),
         NEW ns, \A d \in DOMAIN ns : ns[d] \in Nat
  PROVE  LET g == Consumes(r, ns)
         IN  /\ g \in Run /\ Sound(g, now)
             /\ g.stage = r.stage /\ g.plan = r.plan /\ g.now = r.now /\ g.since = r.since
             /\ g.late = r.late /\ g.cut = r.cut /\ g.sid = r.sid /\ g.scope = r.scope
             /\ g.cancelled = r.cancelled /\ g.deadline = r.deadline
<1> DEFINE owed == [d \in Dimension |-> IF d \in DOMAIN ns THEN ns[d] ELSE r.owed[d]]
           used == [d \in Dimension |-> IF d \in DOMAIN ns THEN r.used[d] + ns[d] ELSE r.used[d]]
           g == Consumes(r, ns)
<1>1. r.owed \in [Dimension -> Nat] /\ r.used \in [Dimension -> Nat]
  BY DEF Run
<1>2. owed \in [Dimension -> Nat] /\ used \in [Dimension -> Nat]
  BY <1>1
<1>3. g = [r EXCEPT !.owed = owed, !.used = used]
  BY DEF Consumes
<1> HIDE DEF owed, used, g
<1>4. g \in Run
  BY <1>2, <1>3 DEF Run
<1>5. /\ g.stage = r.stage /\ g.plan = r.plan /\ g.now = r.now /\ g.since = r.since
      /\ g.late = r.late /\ g.cut = r.cut /\ g.sid = r.sid /\ g.scope = r.scope
      /\ g.cancelled = r.cancelled /\ g.deadline = r.deadline
  BY <1>3 DEF Run
<1>6. Sound(g, now)
  BY <1>5 DEF Sound, Shaped, LeasedOne, LateOnce, CutShort, InterruptedRun
<1>7. QED
  BY <1>4, <1>5, <1>6 DEF g

LEMMA PaidSound ==
  ASSUME NEW r \in Run, NEW now \in Nat, Sound(r, now), NEW d \in Dimension
  PROVE  LET g == [r EXCEPT !.owed[d] = 0]
         IN  /\ g \in Run /\ Sound(g, now)
             /\ g.plan = r.plan /\ g.since = r.since
             /\ g.late = r.late /\ g.cut = r.cut /\ g.sid = r.sid /\ g.scope = r.scope
<1> DEFINE g == [r EXCEPT !.owed[d] = 0]
<1>1. [r.owed EXCEPT ![d] = 0] \in [Dimension -> Nat]
  BY DEF Run
<1>2. g \in Run
  BY <1>1 DEF Run
<1>3. /\ g.stage = r.stage /\ g.plan = r.plan /\ g.now = r.now /\ g.since = r.since
      /\ g.late = r.late /\ g.cut = r.cut /\ g.sid = r.sid /\ g.scope = r.scope
      /\ g.cancelled = r.cancelled /\ g.deadline = r.deadline
  BY DEF Run
<1>4. Sound(g, now)
  BY <1>3 DEF Sound, Shaped, LeasedOne, LateOnce, CutShort, InterruptedRun
<1>5. QED
  BY <1>2, <1>3, <1>4

LEMMA AfterChargeSound ==
  ASSUME NEW r \in Run, NEW now \in Nat, Sound(r, now), r.plan # <<>>, ~r.cut, r.late = 0,
         NEW d \in Dimension
  PROVE  LET g == AfterCharge(r, d)
         IN  /\ g \in Run /\ Sound(g, now) /\ g.scope = r.scope
             /\ g.since = {} \/ (g.since = r.since /\ g.sid = r.sid)
<1> DEFINE next == {"checking", "storing", "transferred_bytes", "estimated_tokens"}
<1>1. \/ AfterCharge(r, d) = PhaseOver(r)
      \/ \E stage \in next : AfterCharge(r, d) = [r EXCEPT !.stage = stage]
  BY DEF AfterCharge
<1>2. next \subseteq Stages /\ next \cap {"new", "preflight", "resolving"} = {}
  BY DEF Stages, Dimension
<1>3. ASSUME NEW stage \in next, AfterCharge(r, d) = [r EXCEPT !.stage = stage]
      PROVE  LET g == AfterCharge(r, d)
             IN  /\ g \in Run /\ Sound(g, now) /\ g.scope = r.scope
                 /\ g.since = r.since /\ g.sid = r.sid
  <2>1. stage \in Stages /\ stage \notin {"new", "preflight", "resolving"}
    BY <1>2
  <2>2. QED
    BY <1>3, <2>1, StageSound
<1>4. CASE AfterCharge(r, d) = PhaseOver(r)
  BY <1>4, PhaseOverSound
<1>5. QED
  BY <1>1, <1>3, <1>4

-----------------------------------------------------------------------------
(* Steps *)

\* What a step other than the taking of a lease writes of a run.
Keeps(o, r) ==
  /\ r.scope = run[o].scope
  /\ r.since = {} \/ (r.since = run[o].since /\ r.sid = run[o].sid)

Writes(o) == \E r \in Run : Becomes(o, r) /\ Sound(r, clock) /\ Keeps(o, r)

Here == TypeOK /\ RunsSound

LEMMA HereFacts ==
  ASSUME Here, NEW o \in Op
  PROVE  /\ run[o] \in Run /\ Sound(run[o], clock) /\ clock \in Nat
         /\ Interrupted(o) <=> InterruptedRun(run[o], clock)
  BY DEF Here, TypeOK, RunsSound, Interrupted, InterruptedRun

LEMMA EndsWrites ==
  ASSUME Here, NEW o \in Op, NEW lifecycle \in Finals, lifecycle # "succeeded",
         Ends(o, lifecycle)
  PROVE  Writes(o)
  BY HereFacts, EndedSound DEF Ends, Writes, Keeps

LEMMA HaltWrites ==
  ASSUME Here, NEW o \in Op, Ends(o, "halted")
  PROVE  Writes(o)
  BY EndsWrites DEF Finals

LEMMA GoesWrites ==
  ASSUME Here, NEW o \in Op, run[o].stage \in Working \ {"calling", "browser_seconds"},
         NEW stage \in Stages,
         stage \in {"new", "preflight", "resolving"} => run[o].since = {}, Goes(o, stage)
  PROVE  Writes(o)
<1> DEFINE r == [run[o] EXCEPT !.stage = stage]
<1>1. /\ run[o] \in Run /\ Sound(run[o], clock) /\ clock \in Nat
      /\ run[o].plan # <<>> /\ ~run[o].cut /\ run[o].late = 0
  BY HereFacts, OnTime
<1>2. r \in Run /\ Sound(r, clock) /\ Keeps(o, r)
  BY <1>1, StageSound DEF Keeps
<1>3. Becomes(o, r)
  BY DEF Goes, Becomes
<1>4. QED
  BY <1>2, <1>3 DEF Writes

LEMMA ExecuteWrites ==
  ASSUME Here, NEW o \in Op, NEW kind \in Kinds, NEW sid \in Sid \cup {NoSid},
         NEW ref \in SUBSET Op, NEW guard \in Guards, Execute(o, kind, sid, ref, guard)
  PROVE  Writes(o)
<1> DEFINE due == {clock + t : t \in guard.timeout}
           r == [run[o] EXCEPT !.stage = "preflight", !.kind = kind, !.plan = Plan[kind],
                               !.sid = sid, !.ref = ref, !.handle = guard.handle,
                               !.deadline = due]
<1>1. run[o] \in Run /\ Sound(run[o], clock) /\ clock \in Nat /\ run[o].stage = "new"
  BY HereFacts DEF Execute, At
<1>2. kind \in DOMAIN Plan /\ guard.timeout \in SUBSET Nat /\ guard.handle \in BOOLEAN
  BY ServiceAssumption
<1>3. /\ Plan[kind] \in Seq(Phases) /\ Plan[kind] # <<>>
      /\ \A i \in 2 .. Len(Plan[kind]) : Plan[kind][i] # "resolve"
  BY <1>2, PlanType
<1>4. due \in SUBSET Nat
  BY <1>1, <1>2
<1> HIDE DEF due
<1>5. r \in Run
  BY <1>1, <1>2, <1>3, <1>4 DEF Run, Stages
<1>6. run[o].since = {} /\ run[o].late = 0 /\ ~run[o].cut /\ run[o].now <= clock
  BY <1>1 DEF Sound, Shaped, LeasedOne, LateOnce, CutShort, Halts, Run
<1>7. /\ r.stage = "preflight" /\ r.plan = Plan[kind] /\ r.now = run[o].now /\ r.since = {}
      /\ r.late = 0 /\ ~r.cut /\ r.scope = run[o].scope
  BY <1>1, <1>6 DEF Run
<1>8. Sound(r, clock)
  BY <1>3, <1>6, <1>7 DEF Sound, Shaped, LeasedOne, LateOnce, CutShort
<1>9. Becomes(o, r)
  BY DEF Execute, due
<1>10. QED
  BY <1>5, <1>7, <1>8, <1>9 DEF Writes, Keeps

LEMMA DispatchesWrites ==
  ASSUME Here, NEW o \in Op, Dispatches(o)
  PROVE  Writes(o)
<1>1. run[o].stage = "preflight" /\ Goes(o, FirstStage(run[o], Phase(o)))
  BY DEF Dispatches, At
<1>2. run[o].since = {}
  BY <1>1, HereFacts DEF Sound, LeasedOne
<1>3. FirstStage(run[o], Phase(o)) \in Stages
  BY FirstStageType DEF Working
<1>4. run[o].stage \in Working \ {"calling", "browser_seconds"}
  BY <1>1 DEF Working, Stages, Finals
<1>5. QED
  BY <1>1, <1>2, <1>3, <1>4, GoesWrites

LEMMA ResolveWrites ==
  ASSUME Here, NEW o \in Op, Resolve(o)
  PROVE  Writes(o)
<1>1. PICK i \in 1 .. Len(retained) :
        Becomes(o, PhaseOver(IF run[o].kind = "shot_ref"
                               THEN [run[o] EXCEPT !.sid = retained[i].sid] ELSE run[o]))
  BY DEF Resolve
<1> DEFINE q == IF run[o].kind = "shot_ref" THEN [run[o] EXCEPT !.sid = retained[i].sid] ELSE run[o]
<1>2. /\ run[o] \in Run /\ Sound(run[o], clock) /\ clock \in Nat
      /\ run[o].stage = "resolving" /\ run[o].stage \in Working
  BY HereFacts DEF Resolve, At, Working, Stages, Finals
<1>3. run[o].plan # <<>> /\ ~run[o].cut /\ run[o].late = 0
  BY <1>2, OnTime
<1>4. run[o].since = {}
  BY <1>2 DEF Sound, LeasedOne
<1>5. retained[i].sid \in Sid \cup {NoSid}
  <2>1. retained \in Seq(Entry)
    BY DEF Here, TypeOK
  <2>2. retained[i] \in Entry
    BY <2>1, ElementOfSeq
  <2>3. QED
    BY <2>2 DEF Entry
<1>6. q \in Run
  BY <1>2, <1>5 DEF Run
<1>7. /\ q.stage = run[o].stage /\ q.plan = run[o].plan /\ q.now = run[o].now
      /\ q.since = {} /\ q.late = 0 /\ ~q.cut /\ q.scope = run[o].scope
  BY <1>2, <1>3, <1>4 DEF Run
<1>8. Sound(q, clock)
  BY <1>2, <1>7 DEF Sound, Shaped, LeasedOne, LateOnce, CutShort
<1>9. PhaseOver(q) \in Run /\ Sound(PhaseOver(q), clock) /\ Keeps(o, PhaseOver(q))
  BY <1>2, <1>3, <1>6, <1>7, <1>8, PhaseOverSound DEF Keeps
<1>10. QED
  BY <1>1, <1>9 DEF Writes

LEMMA AttachWrites ==
  ASSUME Here, NEW o \in Op, Attach(o)
  PROVE  Writes(o)
<1> DEFINE r == [run[o] EXCEPT !.stage = "leasing", !.now = clock]
<1>1. /\ run[o] \in Run /\ Sound(run[o], clock) /\ clock \in Nat
      /\ run[o].stage \in Working \ {"calling", "browser_seconds"}
  BY HereFacts DEF Attach, At, Working, Stages, Finals
<1>2. run[o].plan # <<>> /\ ~run[o].cut /\ run[o].late = 0
  BY <1>1, OnTime
<1>3. r \in Run
  BY <1>1 DEF Run, Stages
<1>4. /\ r.stage = "leasing" /\ r.plan = run[o].plan /\ r.now = clock /\ r.since = run[o].since
      /\ r.late = 0 /\ ~r.cut /\ r.scope = run[o].scope /\ r.sid = run[o].sid
  BY <1>1, <1>2 DEF Run
<1>5. Sound(r, clock)
  BY <1>1, <1>2, <1>4 DEF Sound, Shaped, LeasedOne, LateOnce, CutShort
<1>6. QED
  BY <1>3, <1>4, <1>5 DEF Attach, Writes, Keeps

\* A call is begun by a run that is on time so far.
LEMMA IssuedWrites ==
  ASSUME Here, NEW o \in Op, run[o].stage \in {"reserving", "ready"}, Becomes(o, Issued(o))
  PROVE  Writes(o)
<1> DEFINE late == IF Interrupted(o) THEN run[o].late + 1 ELSE run[o].late
           n == IF Phase(o) \in Requests THEN run[o].used["requests"] + 1
                ELSE run[o].used["requests"]
           used == [run[o].used EXCEPT !["requests"] = n]
           r == [run[o] EXCEPT !.stage = "calling", !.now = clock, !.late = late, !.used = used]
<1>1. /\ run[o] \in Run /\ Sound(run[o], clock) /\ clock \in Nat
      /\ run[o].stage \in Working \ {"calling", "browser_seconds"}
      /\ Interrupted(o) <=> InterruptedRun(run[o], clock)
  BY HereFacts DEF Working, Stages, Finals
<1>2. run[o].plan # <<>> /\ ~run[o].cut /\ run[o].late = 0
  BY <1>1, OnTime
<1>3. late \in {0, 1} /\ (late # 0 => late = 1 /\ InterruptedRun(run[o], clock))
  BY <1>1, <1>2
<1>4. used \in [Dimension -> Nat]
  <2>1. run[o].used \in [Dimension -> Nat] /\ "requests" \in Dimension
    BY <1>1 DEF Run, Dimension
  <2>2. n \in Nat
    BY <2>1
  <2> HIDE DEF n
  <2>3. QED
    BY <2>1, <2>2
<1>5. Issued(o) = r
  BY DEF Issued
<1> HIDE DEF late, used
<1>6. late \in Nat
  BY <1>3
<1>7. r \in Run
  BY <1>1, <1>4, <1>6 DEF Run, Stages
<1>8. /\ r.stage = "calling" /\ r.plan = run[o].plan /\ r.now = clock /\ r.since = run[o].since
      /\ r.late = late /\ ~r.cut /\ r.scope = run[o].scope /\ r.sid = run[o].sid
      /\ r.cancelled = run[o].cancelled /\ r.deadline = run[o].deadline
  BY <1>1, <1>2 DEF Run
<1>9. Sound(r, clock)
  BY <1>1, <1>2, <1>3, <1>8 DEF Sound, Shaped, LeasedOne, LateOnce, CutShort, InterruptedRun
<1>10. QED
  BY <1>5, <1>7, <1>8, <1>9 DEF Writes, Keeps

LEMMA BackendReturnsWrites ==
  ASSUME Here, NEW o \in Op, BackendReturns(o)
  PROVE  Writes(o)
<1>1. PICK bytes \in Sizes \cup {0}, tokens \in Sizes \cup {0} :
        Becomes(o, [Consumes(run[o], [browser_seconds |-> clock - run[o].now,
                                      transferred_bytes |-> bytes, estimated_tokens |-> tokens])
                      EXCEPT !.stage = "browser_seconds", !.cut = Interrupted(o)])
  BY DEF BackendReturns
<1> DEFINE ns == [browser_seconds |-> clock - run[o].now,
                  transferred_bytes |-> bytes, estimated_tokens |-> tokens]
           q == Consumes(run[o], ns)
           r == [q EXCEPT !.stage = "browser_seconds", !.cut = Interrupted(o)]
<1>2. /\ run[o] \in Run /\ Sound(run[o], clock) /\ clock \in Nat
      /\ run[o].stage = "calling" /\ run[o].stage \in Working
      /\ Interrupted(o) <=> InterruptedRun(run[o], clock)
      /\ Interrupted(o) \in BOOLEAN
  BY HereFacts DEF BackendReturns, At, Working, Stages, Finals, Interrupted, Run
<1>3. run[o].plan # <<>>
  BY <1>2, OnTime
<1>4. clock - run[o].now \in Nat
  <2>1. run[o].now \in Nat /\ run[o].now <= clock
    BY <1>2 DEF Run, Sound, Shaped
  <2>2. QED
    BY <1>2, <2>1
<1>5. bytes \in Nat /\ tokens \in Nat
  BY ServiceAssumption
<1>6. \A d \in DOMAIN ns : ns[d] \in Nat
  BY <1>4, <1>5
<1> HIDE DEF ns
<1>7. /\ q \in Run /\ Sound(q, clock)
      /\ q.stage = run[o].stage /\ q.plan = run[o].plan /\ q.now = run[o].now
      /\ q.since = run[o].since /\ q.late = run[o].late /\ q.cut = run[o].cut
      /\ q.sid = run[o].sid /\ q.scope = run[o].scope
      /\ q.cancelled = run[o].cancelled /\ q.deadline = run[o].deadline
  BY <1>2, <1>6, ConsumesSound
<1> HIDE DEF q
<1>8. r \in Run
  BY <1>2, <1>7 DEF Run, Stages, Dimension
<1>9. /\ r.stage = "browser_seconds" /\ r.plan = q.plan /\ r.now = q.now /\ r.since = q.since
      /\ r.late = q.late /\ r.cut = Interrupted(o) /\ r.sid = q.sid /\ r.scope = q.scope
      /\ r.cancelled = q.cancelled /\ r.deadline = q.deadline
  BY <1>7 DEF Run
<1>10. Sound(r, clock)
  BY <1>2, <1>3, <1>7, <1>9 DEF Sound, Shaped, LeasedOne, LateOnce, CutShort, InterruptedRun
<1>11. Keeps(o, r)
  BY <1>7, <1>9 DEF Keeps
<1>12. Becomes(o, r)
  BY <1>1 DEF q, ns
<1>13. QED
  BY <1>8, <1>10, <1>11, <1>12 DEF Writes

\* What is shown or stored is consumed by a run that is on time.
LEMMA OwesWrites ==
  ASSUME Here, NEW o \in Op, run[o].stage \in {"checking", "projecting", "storing"},
         NEW ns, \A d \in DOMAIN ns : ns[d] \in Nat,
         NEW stage \in Dimension,
         Becomes(o, [Consumes(run[o], ns) EXCEPT !.stage = stage])
  PROVE  Writes(o)
<1> DEFINE q == Consumes(run[o], ns)
           r == [q EXCEPT !.stage = stage]
<1>1. /\ run[o] \in Run /\ Sound(run[o], clock) /\ clock \in Nat
      /\ run[o].stage \in Working \ {"calling", "browser_seconds"}
  BY HereFacts DEF Working, Stages, Finals
<1>2. run[o].plan # <<>> /\ ~run[o].cut /\ run[o].late = 0
  BY <1>1, OnTime
<1>3. /\ q \in Run /\ Sound(q, clock) /\ q.plan = run[o].plan /\ q.since = run[o].since
      /\ q.late = run[o].late /\ q.cut = run[o].cut
      /\ q.sid = run[o].sid /\ q.scope = run[o].scope
  BY <1>1, ConsumesSound
<1> HIDE DEF q
<1>4. stage \in Stages /\ stage \notin {"new", "preflight", "resolving"}
  BY DEF Stages, Dimension
<1>5. /\ r \in Run /\ Sound(r, clock) /\ r.since = q.since /\ r.sid = q.sid /\ r.scope = q.scope
  BY <1>1, <1>2, <1>3, <1>4, StageSound
<1>6. Becomes(o, r)
  BY DEF q
<1>7. QED
  BY <1>3, <1>5, <1>6 DEF Writes, Keeps

LEMMA ShowsWrites ==
  ASSUME Here, NEW o \in Op, run[o].stage \in {"checking", "projecting"}, Shows(o, run[o])
  PROVE  Writes(o)
<1>1. PICK bytes \in Sizes, tokens \in Sizes :
        Becomes(o, [Consumes(run[o], [transferred_bytes |-> bytes, estimated_tokens |-> tokens])
                      EXCEPT !.stage = "transferred_bytes"])
  BY DEF Shows
<1> DEFINE ns == [transferred_bytes |-> bytes, estimated_tokens |-> tokens]
<1>2. bytes \in Nat /\ tokens \in Nat
  BY ServiceAssumption
<1>3. \A d \in DOMAIN ns : ns[d] \in Nat
  BY <1>2
<1>4. Becomes(o, [Consumes(run[o], ns) EXCEPT !.stage = "transferred_bytes"])
  BY <1>1
<1>5. "transferred_bytes" \in Dimension
  BY DEF Dimension
<1> HIDE DEF ns
<1>6. QED
  BY <1>3, <1>4, <1>5, OwesWrites

LEMMA StoreArtifactWrites ==
  ASSUME Here, NEW o \in Op, StoreArtifact(o)
  PROVE  Writes(o)
<1>1. PICK size \in Sizes :
        Becomes(o, [Consumes(run[o], [artifact_bytes |-> size, transferred_bytes |-> size])
                      EXCEPT !.stage = "artifact_bytes"])
  BY DEF StoreArtifact
<1> DEFINE ns == [artifact_bytes |-> size, transferred_bytes |-> size]
<1>2. size \in Nat
  BY ServiceAssumption
<1>3. \A d \in DOMAIN ns : ns[d] \in Nat
  BY <1>2
<1>4. Becomes(o, [Consumes(run[o], ns) EXCEPT !.stage = "artifact_bytes"])
  BY <1>1
<1>5. "artifact_bytes" \in Dimension /\ run[o].stage = "storing"
  BY DEF Dimension, StoreArtifact, At
<1> HIDE DEF ns
<1>6. QED
  BY <1>3, <1>4, <1>5, OwesWrites

LEMMA ChargeWrites ==
  ASSUME Here, NEW o \in Op, NEW d \in Dimension, Charge(o, d)
  PROVE  Writes(o)
<1> DEFINE paid == [run[o] EXCEPT !.owed[d] = 0]
<1>1. /\ run[o] \in Run /\ Sound(run[o], clock) /\ clock \in Nat
      /\ run[o].stage = d /\ d # "requests" /\ run[o].stage \in Working
      /\ d = "browser_seconds" => ~InterruptedRun(run[o], clock)
  BY HereFacts DEF Charge, At, Working, Stages, Finals, Dimension
<1>2. d # "calling"
  BY DEF Dimension
<1>3. run[o].plan # <<>> /\ ~run[o].cut /\ run[o].late = 0
  BY <1>1, <1>2, OnTime
<1>4. /\ paid \in Run /\ Sound(paid, clock)
      /\ paid.plan = run[o].plan /\ paid.since = run[o].since
      /\ paid.late = run[o].late /\ paid.cut = run[o].cut
      /\ paid.sid = run[o].sid /\ paid.scope = run[o].scope
  BY <1>1, PaidSound
<1>5. \/ Becomes(o, AfterCharge(paid, d))
      \/ Becomes(o, Ended(paid, "halted"))
  BY DEF Charge
<1> HIDE DEF paid
<1>6. /\ AfterCharge(paid, d) \in Run /\ Sound(AfterCharge(paid, d), clock)
      /\ Keeps(o, AfterCharge(paid, d))
  BY <1>1, <1>3, <1>4, AfterChargeSound DEF Keeps
<1>7. "halted" \in Finals
  BY DEF Finals
<1>8. /\ Ended(paid, "halted") \in Run /\ Sound(Ended(paid, "halted"), clock)
      /\ Keeps(o, Ended(paid, "halted"))
  BY <1>1, <1>4, <1>7, EndedSound DEF Keeps
<1>9. QED
  BY <1>5, <1>6, <1>8 DEF Writes

LEMMA CancelWrites ==
  ASSUME Here, NEW o \in Op, Cancel(o)
  PROVE  Writes(o)
<1> DEFINE r == [run[o] EXCEPT !.cancelled = TRUE]
<1>1. run[o] \in Run /\ Sound(run[o], clock) /\ clock \in Nat
  BY HereFacts
<1>2. r \in Run
  BY <1>1 DEF Run
<1>3. /\ r.stage = run[o].stage /\ r.plan = run[o].plan /\ r.now = run[o].now
      /\ r.since = run[o].since /\ r.late = run[o].late /\ r.cut = run[o].cut
      /\ r.sid = run[o].sid /\ r.scope = run[o].scope /\ r.cancelled
  BY <1>1 DEF Run
<1>4. Sound(r, clock)
  BY <1>1, <1>3 DEF Sound, Shaped, LeasedOne, LateOnce, CutShort, InterruptedRun
<1>5. Becomes(o, r)
  BY DEF Cancel, Becomes
<1>6. QED
  BY <1>2, <1>3, <1>4, <1>5 DEF Writes, Keeps

LEMMA TakeLeaseWrites ==
  ASSUME Here, NEW o \in Op, TakeLease(o)
  PROVE  \E r \in Run :
           /\ Becomes(o, r) /\ Sound(r, clock) /\ r.scope = run[o].scope
           /\ r.sid = run[o].sid /\ r.since = {run[o].now}
<1> DEFINE stage == IF Phase(o) = "navigate" THEN "reserving" ELSE "ready"
           r == [run[o] EXCEPT !.since = {run[o].now}, !.stage = stage]
<1>1. /\ run[o] \in Run /\ Sound(run[o], clock) /\ clock \in Nat
      /\ run[o].stage \in Working \ {"calling", "browser_seconds"}
  BY HereFacts DEF TakeLease, At, Working, Stages, Finals
<1>2. run[o].plan # <<>> /\ ~run[o].cut /\ run[o].late = 0
  BY <1>1, OnTime
<1>3. {run[o].now} \in SUBSET Nat /\ run[o].now <= clock
  BY <1>1 DEF Run, Sound, Shaped
<1>4. stage \in Stages /\ stage \notin {"new", "preflight", "resolving"}
  BY DEF Stages
<1> HIDE DEF stage
<1>5. r \in Run
  BY <1>1, <1>3, <1>4 DEF Run
<1>6. /\ r.stage = stage /\ r.plan = run[o].plan /\ r.now = run[o].now
      /\ r.since = {run[o].now} /\ r.late = 0 /\ ~r.cut
      /\ r.sid = run[o].sid /\ r.scope = run[o].scope
  BY <1>1, <1>2 DEF Run
<1>7. Sound(r, clock)
  BY <1>1, <1>2, <1>3, <1>4, <1>6 DEF Sound, Shaped, LeasedOne, LateOnce, CutShort
<1>8. Becomes(o, r)
  BY DEF TakeLease, stage
<1>9. QED
  BY <1>5, <1>6, <1>7, <1>8

LEMMA EvictedType ==
  ASSUME NEW entries \in Seq(Entry)
  PROVE  Evicted(entries) \in Seq(Entry)
<1>1. CASE Len(entries) > MaxRetained
  <2>1. Len(entries) \in Nat /\ MaxRetained \in Nat
    BY ServiceAssumption, LenProperties
  <2>2. Len(entries) # 0
    BY <1>1, <2>1
  <2>3. entries # <<>>
    BY <2>2, EmptySeq
  <2>4. QED
    BY <1>1, <2>3, HeadTailProperties DEF Evicted
<1>2. CASE ~(Len(entries) > MaxRetained)
  BY <1>2 DEF Evicted
<1>3. QED
  BY <1>1, <1>2

LEMMA RetainType ==
  ASSUME Here, NEW o \in Op, Retain(o)
  PROVE  retained' \in Seq(Entry)
<1>1. PICK kept \in {<<>>, <<[id |-> o, sid |-> run[o].sid]>>} :
        retained' = Evicted(retained \o kept)
  BY DEF Retain
<1>2. retained \in Seq(Entry) /\ run[o].sid \in Sid \cup {NoSid}
  BY HereFacts DEF Here, TypeOK, Run
<1>3. [id |-> o, sid |-> run[o].sid] \in Entry
  BY <1>2 DEF Entry
<1>4. kept \in Seq(Entry)
  <2>1. ASSUME NEW e \in Entry
        PROVE  <<e>> \in Seq(Entry)
    OBVIOUS
  <2>2. <<>> \in Seq(Entry)
    OBVIOUS
  <2>3. QED
    BY <1>3, <2>1, <2>2
<1>5. retained \o kept \in Seq(Entry)
  BY <1>2, <1>4, ConcatProperties
<1>6. QED
  BY <1>1, <1>5, EvictedType

\* What a step adds to a ledger is a number.
LEMMA LedgerType ==
  ASSUME Here, NEW o \in Op, NEW d \in Dimension, NEW n \in Nat,
         ledger' = [ledger EXCEPT ![run[o].scope][d] = ledger[run[o].scope][d] + n]
  PROVE  ledger' \in [Scope -> [Dimension -> Nat]]
<1>1. run[o].scope \in Scope /\ ledger \in [Scope -> [Dimension -> Nat]]
  BY HereFacts DEF Here, TypeOK, Run
<1>2. ledger[run[o].scope][d] + n \in Nat
  BY <1>1
<1>3. QED
  BY <1>1, <1>2

Passive ==
  /\ UNCHANGED <<clock, session>>
  /\ ledger' \in [Scope -> [Dimension -> Nat]]
  /\ retained' \in Seq(Entry)

LEMMA PassiveIfUnchanged ==
  ASSUME Here, UNCHANGED <<clock, session, ledger, retained>>
  PROVE  Passive
  BY DEF Here, TypeOK, Passive

\* Every step of an operation but the taking of a lease.
LEMMA OperationStep ==
  ASSUME Here, NEW o \in Op, Begins(o) \/ Prepares(o) \/ Works(o) \/ Cancel(o)
  PROVE  TakeLease(o) \/ (Writes(o) /\ Passive)
<1>1. CASE Begins(o)
  <2>1. CASE \E kind \in Kinds, sid \in Sid \cup {NoSid}, ref \in {{}} \cup {{q} : q \in Op},
               guard \in Guards : Execute(o, kind, sid, ref, guard)
    <3>1. PICK kind \in Kinds, sid \in Sid \cup {NoSid}, ref \in {{}} \cup {{q} : q \in Op},
               guard \in Guards : Execute(o, kind, sid, ref, guard)
      BY <2>1
    <3>2. ref \in SUBSET Op
      OBVIOUS
    <3>3. UNCHANGED <<clock, session, ledger, retained>>
      BY <3>1 DEF Execute
    <3>4. QED
      BY <3>1, <3>2, <3>3, ExecuteWrites, PassiveIfUnchanged
  <2>2. CASE StepHalts(o)
    <3>1. \/ Ends(o, "cancelled") \/ Ends(o, "timed_out")
      BY <2>2 DEF StepHalts
    <3>2. UNCHANGED <<clock, session, ledger, retained>>
      BY <2>2 DEF StepHalts
    <3>3. QED
      BY <3>1, <3>2, EndsWrites, PassiveIfUnchanged DEF Finals
  <2>3. CASE HaltsBeforeWork(o)
    BY <2>3, HaltWrites, PassiveIfUnchanged DEF HaltsBeforeWork
  <2>4. CASE Dispatches(o)
    <3>1. UNCHANGED <<clock, session, ledger, retained>>
      BY <2>4 DEF Dispatches
    <3>2. QED
      BY <2>4, <3>1, DispatchesWrites, PassiveIfUnchanged
  <2>5. QED
    BY <1>1, <2>1, <2>2, <2>3, <2>4 DEF Begins
<1>2. CASE Prepares(o) /\ ~TakeLease(o)
  <2>1. CASE Resolve(o)
    <3>1. UNCHANGED <<clock, session, ledger, retained>>
      BY <2>1 DEF Resolve
    <3>2. QED
      BY <2>1, <3>1, ResolveWrites, PassiveIfUnchanged
  <2>2. CASE Attach(o)
    <3>1. UNCHANGED <<clock, session, ledger, retained>>
      BY <2>2 DEF Attach
    <3>2. QED
      BY <2>2, <3>1, AttachWrites, PassiveIfUnchanged
  <2>3. CASE Reserve(o)
    <3>1. /\ run[o].stage = "reserving" /\ Becomes(o, Issued(o))
          /\ UNCHANGED <<clock, session, retained>>
      BY <2>3 DEF Reserve, At
    <3>2. ledger' = [ledger EXCEPT ![run[o].scope]["requests"]
                                     = ledger[run[o].scope]["requests"] + 1]
      BY <2>3 DEF Reserve
    <3>3. "requests" \in Dimension /\ 1 \in Nat
      BY DEF Dimension
    <3>4. ledger' \in [Scope -> [Dimension -> Nat]]
      BY <3>2, <3>3, LedgerType
    <3>5. QED
      BY <3>1, <3>4, IssuedWrites DEF Passive, Here, TypeOK
  <2>4. CASE \/ ResolveFails(o) \/ NotActive(o) \/ LeaseFails(o)
             \/ PolicyRefuses(o) \/ ReserveRefused(o)
    <3>1. Ends(o, "halted") /\ UNCHANGED <<clock, session, ledger, retained>>
      BY <2>4 DEF ResolveFails, NotActive, LeaseFails, PolicyRefuses, ReserveRefused
    <3>2. QED
      BY <3>1, HaltWrites, PassiveIfUnchanged
  <2>5. QED
    BY <1>2, <2>1, <2>2, <2>3, <2>4 DEF Prepares
<1>3. CASE Works(o)
  <2>1. CASE Call(o)
    <3>1. /\ run[o].stage = "ready" /\ Becomes(o, Issued(o))
          /\ UNCHANGED <<clock, session, ledger, retained>>
      BY <2>1 DEF Call, At
    <3>2. QED
      BY <3>1, IssuedWrites, PassiveIfUnchanged
  <2>2. CASE BackendReturns(o)
    <3>1. UNCHANGED <<clock, session, ledger, retained>>
      BY <2>2 DEF BackendReturns
    <3>2. QED
      BY <2>2, <3>1, BackendReturnsWrites, PassiveIfUnchanged
  <2>3. CASE BackendRaises(o) \/ PageRefused(o) \/ ProjectFails(o) \/ ArtifactWriteFails(o)
    <3>1. Ends(o, "halted") /\ UNCHANGED <<clock, session, ledger, retained>>
      BY <2>3 DEF BackendRaises, PageRefused, ProjectFails, ArtifactWriteFails
    <3>2. QED
      BY <3>1, HaltWrites, PassiveIfUnchanged
  <2>4. CASE Retain(o)
    <3>1. /\ run[o].stage = "checking" /\ Shows(o, run[o])
          /\ UNCHANGED <<clock, session, ledger>>
      BY <2>4 DEF Retain, At
    <3>2. Writes(o)
      BY <3>1, ShowsWrites
    <3>3. retained' \in Seq(Entry)
      BY <2>4, RetainType
    <3>4. QED
      BY <3>1, <3>2, <3>3 DEF Passive, Here, TypeOK
  <2>5. CASE Project(o)
    <3>1. /\ run[o].stage = "projecting" /\ Shows(o, run[o])
          /\ UNCHANGED <<clock, session, ledger, retained>>
      BY <2>5 DEF Project, At
    <3>2. QED
      BY <3>1, ShowsWrites, PassiveIfUnchanged
  <2>6. CASE StoreArtifact(o)
    <3>1. UNCHANGED <<clock, session, ledger, retained>>
      BY <2>6 DEF StoreArtifact
    <3>2. QED
      BY <2>6, <3>1, StoreArtifactWrites, PassiveIfUnchanged
  <2>7. ASSUME NEW d \in Dimension, Charge(o, d)
        PROVE  Writes(o) /\ Passive
    <3>1. UNCHANGED <<clock, session, retained>>
      BY <2>7 DEF Charge
    <3>2. ledger' = [ledger EXCEPT ![run[o].scope][d] = ledger[run[o].scope][d] + run[o].owed[d]]
      BY <2>7 DEF Charge
    <3>3. run[o].owed[d] \in Nat
      BY HereFacts DEF Run
    <3>4. ledger' \in [Scope -> [Dimension -> Nat]]
      BY <3>2, <3>3, LedgerType
    <3>5. QED
      BY <2>7, <3>1, <3>4, ChargeWrites DEF Passive, Here, TypeOK
  <2>8. QED
    BY <1>3, <2>1, <2>2, <2>3, <2>4, <2>5, <2>6, <2>7 DEF Works
<1>4. CASE Cancel(o)
  <2>1. UNCHANGED <<clock, session, ledger, retained>>
    BY <1>4 DEF Cancel
  <2>2. QED
    BY <1>4, <2>1, CancelWrites, PassiveIfUnchanged
<1>5. QED
  BY <1>1, <1>2, <1>3, <1>4

-----------------------------------------------------------------------------
(* Leases *)

\* While a session is active, a lease on it stands until it ran out, unless
\* another operation of the task renewed it.
LeaseStands(o) ==
  LET s == run[o].sid IN
  \A t \in run[o].since :
    s \in Sid /\ session[s].active /\ Alone(o) /\ ~RanOut(o) =>
      session[s].holder = HolderOf[run[o].scope] /\ session[s].until >= t + LeaseTTL

\* Of two tasks that both leased a session, one did after the other's lease.
LeasedApart(o, q) ==
  /\ run[o].sid \in Sid /\ run[o].sid = run[q].sid
  /\ run[o].since # {} /\ run[q].since # {}
  /\ HolderOf[run[o].scope] # HolderOf[run[q].scope]
  /\ Alone(o) /\ Alone(q)
  => RanOut(o) \/ RanOut(q)

Inv ==
  /\ Here
  /\ \A o \in Op : LeaseStands(o)
  /\ \A o, q \in Op : LeasedApart(o, q)

\* What the steps do to the runs, as far as leases are concerned.
ScopesStay == \A p \in Op : run'[p].scope = run[p].scope
LeasesStay(p) ==
  run'[p].since = {} \/ (run'[p].since = run[p].since /\ run'[p].sid = run[p].sid)

LEMMA WritesTyped ==
  ASSUME Here, NEW o \in Op, NEW r \in Run, Becomes(o, r), Sound(r, clock), UNCHANGED clock,
         r.scope = run[o].scope
  PROVE  /\ run' \in [Op -> Run] /\ RunsSound' /\ ScopesStay
         /\ run'[o] = r /\ \A p \in Op \ {o} : run'[p] = run[p]
  BY DEF Here, TypeOK, Becomes, RunsSound, ScopesStay

LEMMA AloneStays ==
  ASSUME ScopesStay, NEW o \in Op
  PROVE  Alone(o)' <=> Alone(o)
  BY DEF ScopesStay, Alone

\* Steps that take no lease, and may end sessions or pass time.
LEMMA LeasesKept ==
  ASSUME Inv, ScopesStay, \A p \in Op : LeasesStay(p),
         session \in [Sid -> Session], clock \in Nat, clock' \in Nat, clock' >= clock,
         \A p \in Op : run[p].since \in SUBSET Nat,
         \A s \in Sid : session'[s] = session[s] \/ ~session'[s].active
  PROVE  (\A o \in Op : LeaseStands(o))' /\ (\A o, q \in Op : LeasedApart(o, q))'
<1>1. LeaseTTL \in Nat
  BY ServiceAssumption
<1>2. ASSUME NEW o \in Op, run'[o].since # {}, RanOut(o)
      PROVE  RanOut(o)'
  BY <1>1, <1>2 DEF LeasesStay, RanOut
<1>3. ASSUME NEW o \in Op
      PROVE  LeaseStands(o)'
  BY <1>2, <1>3, AloneStays DEF Inv, LeaseStands, LeasesStay, ScopesStay
<1>4. ASSUME NEW o \in Op, NEW q \in Op
      PROVE  LeasedApart(o, q)'
  BY <1>2, AloneStays DEF Inv, LeasedApart, LeasesStay, ScopesStay
<1>5. QED
  BY <1>3, <1>4

LEMMA LeaseTaken ==
  ASSUME Inv, NEW o \in Op, TakeLease(o)
  PROVE  Inv'
<1> DEFINE s == run[o].sid
           h == HolderOf[run[o].scope]
           now == run[o].now
<1>1. PICK r \in Run : /\ Becomes(o, r) /\ Sound(r, clock) /\ r.scope = run[o].scope
                       /\ r.sid = s /\ r.since = {now}
  BY TakeLeaseWrites DEF Inv
<1>2. /\ session' = [session EXCEPT ![s].holder = h, ![s].until = now + LeaseTTL]
      /\ session[s].active /\ (session[s].holder \in {NoHolder, h} \/ ~(session[s].until > now))
      /\ UNCHANGED <<clock, ledger, retained>>
  BY DEF TakeLease, LeaseRefused
<1>3. /\ run' \in [Op -> Run] /\ RunsSound' /\ ScopesStay
      /\ run'[o] = r /\ \A p \in Op \ {o} : run'[p] = run[p]
  BY <1>1, <1>2, WritesTyped DEF Inv
<1>4. /\ run[o] \in Run /\ now \in Nat /\ now <= clock /\ clock \in Nat /\ LeaseTTL \in Nat
      /\ h \in Holder /\ h # NoHolder /\ session \in [Sid -> Session]
  BY HereFacts, ServiceAssumption DEF Inv, Here, TypeOK, Run, Sound, Shaped
<1>5. session' \in [Sid -> Session]
  <2>1. now + LeaseTTL \in Nat
    BY <1>4
  <2> HIDE DEF s, h, now
  <2>2. QED
    BY <1>2, <1>4, <2>1 DEF Session
<1>6. Here'
  BY <1>2, <1>3, <1>5 DEF Inv, Here, TypeOK
<1>7. /\ s \in Sid => /\ session'[s].holder = h /\ session'[s].until = now + LeaseTTL
                       /\ session'[s].active
      /\ \A x \in Sid \ {s} : session'[x] = session[x]
  <2> HIDE DEF s, h, now
  <2>1. QED
    BY <1>2, <1>4 DEF Session
<1>8. \A p \in Op : Alone(p)' <=> Alone(p)
  BY <1>3, AloneStays
\* Another task's lease on the session had run out.
<1>9. ASSUME NEW p \in Op \ {o}, run[p].since # {}, run[p].sid = s, s \in Sid, Alone(p)
      PROVE  RanOut(p)
  <2>1. PICK t \in run[p].since : TRUE
    BY <1>9
  <2>2. t \in Nat
    BY HereFacts DEF Inv, Run
  <2>3. HolderOf[run[p].scope] # h
    BY <1>9 DEF Alone
  <2>4. HolderOf[run[p].scope] \in Holder
    BY HereFacts, ServiceAssumption DEF Inv, Run
  <2>5. HolderOf[run[p].scope] # NoHolder
    BY <2>4, ServiceAssumption
  <2>6. session[s].until \in Nat
    BY <1>4, <1>9 DEF Session
  <2>7. SUFFICES ASSUME ~RanOut(p)
                 PROVE  FALSE
    OBVIOUS
  <2>8. session[s].holder = HolderOf[run[p].scope] /\ session[s].until >= t + LeaseTTL
    BY <1>2, <1>9, <2>1, <2>7 DEF Inv, LeaseStands
  <2>9. session[s].until <= now
    BY <1>2, <1>4, <2>3, <2>5, <2>6, <2>8
  <2>10. clock >= t + LeaseTTL
    BY <1>4, <2>2, <2>6, <2>8, <2>9
  <2>11. QED
    BY <2>1, <2>7, <2>10 DEF RanOut
<1>10. \A p \in Op \ {o} : RanOut(p)' <=> RanOut(p)
  BY <1>2, <1>3 DEF RanOut
<1>11. ASSUME NEW p \in Op
       PROVE  LeaseStands(p)'
  <2>1. CASE p = o
    BY <1>1, <1>3, <1>4, <1>7, <2>1 DEF LeaseStands
  <2>2. CASE p # o /\ run[p].sid = s
    BY <1>3, <1>8, <1>9, <1>10, <2>2 DEF LeaseStands
  <2>3. CASE p # o /\ run[p].sid # s
    BY <1>3, <1>7, <1>8, <1>10, <2>3 DEF Inv, LeaseStands
  <2>4. QED
    BY <2>1, <2>2, <2>3
<1>12. ASSUME NEW p \in Op, NEW q \in Op
       PROVE  LeasedApart(p, q)'
  <2>1. CASE p = o /\ q = o
    BY <2>1 DEF LeasedApart
  <2>2. CASE p = o /\ q # o
    BY <1>1, <1>3, <1>8, <1>9, <1>10, <2>2 DEF LeasedApart
  <2>3. CASE p # o /\ q = o
    BY <1>1, <1>3, <1>8, <1>9, <1>10, <2>3 DEF LeasedApart
  <2>4. CASE p # o /\ q # o
    BY <1>3, <1>8, <1>10, <2>4 DEF Inv, LeasedApart
  <2>5. QED
    BY <2>1, <2>2, <2>3, <2>4
<1>13. QED
  BY <1>6, <1>11, <1>12 DEF Inv

-----------------------------------------------------------------------------
(* The invariant *)

LEMMA InitInv == Init => Inv
<1> SUFFICES ASSUME Init
             PROVE  Inv
  OBVIOUS
<1>1. PICK scopeOf \in [Op -> Scope] : run = [o \in Op |-> NewRun(scopeOf[o])]
  BY ServiceAssumption DEF Init
<1>2. clock = 0 /\ clock \in Nat
  BY DEF Init
<1>3. run \in [Op -> Run] /\ RunsSound
  BY <1>1, <1>2, NewRunSound DEF RunsSound
<1>4. session \in [Sid -> Session]
  BY DEF Init, Session
<1>5. ledger \in [Scope -> [Dimension -> Nat]]
  BY DEF Init, Nothing
<1>6. retained \in Seq(Entry)
  BY DEF Init
<1>7. \A o \in Op : run[o].since = {}
  BY <1>1 DEF NewRun
<1>8. QED
  BY <1>2, <1>3, <1>4, <1>5, <1>6, <1>7 DEF Inv, Here, TypeOK, LeaseStands, LeasedApart

\* What is sound of a run stays so as time passes.
LEMMA SoundLater ==
  ASSUME NEW r \in Run, NEW now \in Nat, Sound(r, now)
  PROVE  Sound(r, now + 1)
<1>1. r.now \in Nat /\ r.since \in SUBSET Nat /\ r.deadline \in SUBSET Nat
  BY DEF Run
<1>2. InterruptedRun(r, now) => InterruptedRun(r, now + 1)
  BY <1>1 DEF InterruptedRun
<1>3. QED
  BY <1>1, <1>2 DEF Sound, Shaped, LeasedOne, LateOnce, CutShort

LEMMA NextInv == Inv /\ [Next]_vars => Inv'
<1> SUFFICES ASSUME Inv, [Next]_vars
             PROVE  Inv'
  OBVIOUS
<1>1. /\ Here /\ clock \in Nat /\ session \in [Sid -> Session] /\ run \in [Op -> Run]
      /\ \A p \in Op : run[p].since \in SUBSET Nat
  BY DEF Inv, Here, TypeOK, Run
<1>2. ASSUME NEW o \in Op, Begins(o) \/ Prepares(o) \/ Works(o) \/ Cancel(o)
      PROVE  Inv'
  <2>1. CASE TakeLease(o)
    BY <2>1, LeaseTaken
  <2>2. CASE Writes(o) /\ Passive
    <3>1. PICK r \in Run : Becomes(o, r) /\ Sound(r, clock) /\ Keeps(o, r)
      BY <2>2 DEF Writes
    <3>2. /\ UNCHANGED <<clock, session>> /\ ledger' \in [Scope -> [Dimension -> Nat]]
          /\ retained' \in Seq(Entry)
      BY <2>2 DEF Passive
    <3>3. /\ run' \in [Op -> Run] /\ RunsSound' /\ ScopesStay
          /\ run'[o] = r /\ \A p \in Op \ {o} : run'[p] = run[p]
      BY <1>1, <3>1, <3>2, WritesTyped DEF Keeps
    <3>4. \A p \in Op : LeasesStay(p)
      BY <3>1, <3>3 DEF Keeps, LeasesStay
    <3>5. Here'
      BY <1>1, <3>2, <3>3 DEF Here, TypeOK
    <3>6. clock' \in Nat /\ clock' >= clock /\ \A s \in Sid : session'[s] = session[s]
      BY <1>1, <3>2
    <3>7. QED
      BY <1>1, <3>3, <3>4, <3>5, <3>6, LeasesKept DEF Inv
  <2>3. QED
    BY <1>1, <1>2, <2>1, <2>2, OperationStep
<1>3. ASSUME NEW s \in Sid, SessionEnds(s)
      PROVE  Inv'
  <2>1. /\ session' = [session EXCEPT ![s] = [active |-> FALSE, holder |-> NoHolder, until |-> 0]]
        /\ UNCHANGED <<clock, ledger, retained, run>>
    BY <1>3 DEF SessionEnds
  <2>2. session' \in [Sid -> Session] /\ \A x \in Sid : session'[x] = session[x] \/ ~session'[x].active
    BY <1>1, <2>1 DEF Session
  <2>3. Here'
    BY <1>1, <2>1, <2>2 DEF Here, TypeOK, RunsSound
  <2>4. ScopesStay /\ \A p \in Op : LeasesStay(p)
    BY <2>1 DEF ScopesStay, LeasesStay
  <2>5. clock' \in Nat /\ clock' >= clock
    BY <1>1, <2>1
  <2>6. QED
    BY <1>1, <2>2, <2>3, <2>4, <2>5, LeasesKept DEF Inv
<1>4. CASE Tick
  <2>1. clock' = clock + 1 /\ UNCHANGED <<session, ledger, retained, run>>
    BY <1>4 DEF Tick
  <2>2. clock' \in Nat /\ clock' >= clock
    BY <1>1, <2>1
  <2>3. RunsSound'
    BY <1>1, <2>1, SoundLater DEF Here, RunsSound
  <2>4. Here'
    BY <1>1, <2>1, <2>2, <2>3 DEF Here, TypeOK
  <2>5. ScopesStay /\ (\A p \in Op : LeasesStay(p)) /\ \A s \in Sid : session'[s] = session[s]
    BY <2>1 DEF ScopesStay, LeasesStay
  <2>6. QED
    BY <1>1, <2>2, <2>4, <2>5, LeasesKept DEF Inv
<1>5. CASE UNCHANGED vars
  BY <1>5 DEF vars, Inv, Here, TypeOK, RunsSound, LeaseStands, LeasedApart, RanOut, Alone
<1>6. QED
  BY <1>2, <1>3, <1>4, <1>5 DEF Next

LEMMA InvHolds == Spec => []Inv
  BY InitInv, NextInv, PTL DEF Spec

-----------------------------------------------------------------------------
(* Theorems *)

\* Whatever the operations and their limits, the registry, the ledgers, the
\* sessions and the runs have their types.  (WebGlassService.execute)
THEOREM OperationTypeCorrect == Spec => []TypeOK
<1>1. Inv => TypeOK
  BY DEF Inv, Here
<1>2. QED
  BY <1>1, InvHolds, PTL

\* However many operations there are, one that is cancelled or out of time begins
\* at most the backend call it had decided on.  (_step)
THEOREM OneLateCall == Spec => []AtMostOneLateCall
<1>1. Inv => AtMostOneLateCall
  <2> SUFFICES ASSUME Inv, NEW o \in Op
               PROVE  run[o].late <= 1
    BY DEF AtMostOneLateCall
  <2>1. run[o] \in Run /\ LateOnce(run[o], clock)
    BY HereFacts DEF Inv, Sound
  <2>2. run[o].late \in Nat
    BY <2>1 DEF Run
  <2>3. QED
    BY <2>1, <2>2 DEF LateOnce
<1>2. QED
  BY <1>1, InvHolds, PTL

\* An operation whose last call came back cancelled or past its deadline never
\* succeeds.  (_step before the charge of the call's seconds)
THEOREM CutNeverSucceeds == Spec => []NoSuccessWhenCut
<1>1. Inv => NoSuccessWhenCut
  <2> SUFFICES ASSUME Inv, NEW o \in Op, run[o].stage = "succeeded"
               PROVE  ~run[o].cut
    BY DEF NoSuccessWhenCut, At
  <2>1. CutShort(run[o], clock)
    BY HereFacts DEF Inv, Sound
  <2>2. QED
    BY <2>1 DEF CutShort, Halts
<1>2. QED
  BY <1>1, InvHolds, PTL

\* For any number of tasks and sessions: two tasks of one operation each drive
\* a session at once only when a lease ran out or one took none.
\* (_require_session, _lease_holder)
THEOREM TasksApart == Spec => []TasksKeepApart
<1>1. Inv => TasksKeepApart
  <2> SUFFICES ASSUME Inv, NEW o \in Op, NEW q \in Op,
                      TwoTasksDrive(o, q), Alone(o), Alone(q)
               PROVE  \E r \in {o, q} : RanOut(r) \/ Unleased(r)
    BY DEF TasksKeepApart
  <2>1. LeasedApart(o, q)
    BY DEF Inv
  <2>2. /\ HolderOf[run[o].scope] # HolderOf[run[q].scope]
        /\ run[o].sid \in Sid /\ run[o].sid = run[q].sid
    BY DEF TwoTasksDrive, Drives
  <2>3. QED
    BY <2>1, <2>2 DEF LeasedApart, Unleased
<1>2. QED
  BY <1>1, InvHolds, PTL

-----------------------------------------------------------------------------
(* Sums *)

LEMMA UnitsFinite ==
  ASSUME NEW S, IsFiniteSet(S), NEW f \in [S -> Nat]
  PROVE  IsFiniteSet(Units(f, S))
<1> DEFINE of == [x \in S |-> {x} \X (1 .. f[x])]
           all == {of[x] : x \in S}
<1>1. of \in Surjection(S, all)
  BY DEF Surjection
<1>2. IsFiniteSet(all)
  BY <1>1, FS_Surjection
<1>3. ASSUME NEW x \in S
      PROVE  IsFiniteSet(of[x])
  <2>1. f[x] \in Int /\ 1 \in Int
    OBVIOUS
  <2>2. IsFiniteSet({x}) /\ IsFiniteSet(1 .. f[x])
    <3> HIDE DEF of, all
    <3> QED
      BY <2>1, FS_Singleton, FS_Interval
  <2>3. IsFiniteSet({x} \X (1 .. f[x]))
    BY <2>2, FS_Product
  <2>4. QED
    BY <2>3
<1>4. IsFiniteSet(UNION all)
  <2> HIDE DEF of
  <2>1. \A T \in all : IsFiniteSet(T)
    BY <1>3
  <2>2. QED
    BY <1>2, <2>1, FS_UNION
<1>5. UNION all = Units(f, S)
  BY DEF Units
<1>6. QED
  BY <1>4, <1>5

\* More operations, or more of each, have no smaller sum.
LEMMA TotalGrows ==
  ASSUME NEW T, IsFiniteSet(T), NEW S \in SUBSET T,
         NEW f \in [T -> Nat], NEW g \in [T -> Nat], \A x \in S : f[x] <= g[x]
  PROVE  /\ Total(f, S) \in Nat /\ Total(g, T) \in Nat
         /\ Total(f, S) <= Total(g, T)
<1>1. Units(f, S) \subseteq Units(g, T)
  BY DEF Units
<1>2. IsFiniteSet(Units(g, T))
  BY UnitsFinite
<1>3. QED
  BY <1>1, <1>2, FS_Subset, FS_CardinalityType DEF Total

LEMMA TotalSame ==
  ASSUME NEW S, NEW f, NEW g, \A x \in S : f[x] = g[x]
  PROVE  Total(f, S) = Total(g, S)
  BY DEF Total, Units

LEMMA TotalRises ==
  ASSUME NEW S, IsFiniteSet(S), NEW x \in S, NEW n \in Nat,
         NEW f \in [S -> Nat], NEW g \in [S -> Nat],
         g[x] = f[x] + n, \A y \in S \ {x} : g[y] = f[y]
  PROVE  Total(g, S) = Total(f, S) + n
<1> DEFINE more == {x} \X (f[x] + 1 .. f[x] + n)
<1>1. Units(g, S) = Units(f, S) \cup more
  <2>1. {x} \X (1 .. g[x]) = ({x} \X (1 .. f[x])) \cup more
    BY f[x] \in Nat
  <2>2. QED
    BY <2>1 DEF Units
<1>2. Units(f, S) \cap more = {}
  <2>1. f[x] \in Nat
    OBVIOUS
  <2>2. QED
    BY <2>1 DEF Units
<1>3. IsFiniteSet(more) /\ Cardinality(more) = n
  <2>1. IsFiniteSet({x}) /\ Cardinality({x}) = 1
    BY FS_Singleton
  <2>2. f[x] + 1 \in Int /\ f[x] + n \in Int
    OBVIOUS
  <2>3. /\ IsFiniteSet(f[x] + 1 .. f[x] + n)
        /\ Cardinality(f[x] + 1 .. f[x] + n) = n
    <3>1. /\ IsFiniteSet(f[x] + 1 .. f[x] + n)
          /\ Cardinality(f[x] + 1 .. f[x] + n) =
               IF f[x] + 1 > f[x] + n THEN 0 ELSE (f[x] + n) - (f[x] + 1) + 1
      BY <2>2, FS_Interval
    <3>2. QED
      BY <3>1, f[x] \in Nat
  <2> DEFINE raise == f[x] + 1 .. f[x] + n
  <2>4. /\ IsFiniteSet({x} \X raise)
        /\ Cardinality({x} \X raise) = Cardinality({x}) * Cardinality(raise)
    <3> HIDE DEF raise
    <3> QED
      BY <2>1, <2>3, FS_Product DEF raise
  <2>5. QED
    BY <2>1, <2>3, <2>4
<1>4. IsFiniteSet(Units(f, S)) /\ Cardinality(Units(f, S)) \in Nat
  BY UnitsFinite, FS_CardinalityType
<1> HIDE DEF more
<1>5. Cardinality(Units(f, S) \cup more) =
        Cardinality(Units(f, S)) + Cardinality(more) - Cardinality(Units(f, S) \cap more)
  BY <1>3, <1>4, FS_Union
<1>6. Cardinality(Units(f, S) \cap more) = 0
  BY <1>2, FS_EmptySet
<1>7. QED
  BY <1>1, <1>3, <1>4, <1>5, <1>6 DEF Total

LEMMA TotalOfNothing ==
  ASSUME NEW S, NEW f, \A x \in S : f[x] = 0
  PROVE  Total(f, S) = 0
<1>1. Units(f, S) = {}
  BY DEF Units
<1>2. QED
  BY <1>1, FS_EmptySet DEF Total

-----------------------------------------------------------------------------
(* Budgets *)

\* What a run still has to be charged, by its stage and its phase.
MayOwe(r) ==
  CASE r.stage = "browser_seconds" ->
         IF Head(r.plan) = "search"
         THEN {"browser_seconds", "transferred_bytes", "estimated_tokens"}
         ELSE {"browser_seconds"}
    [] r.stage = "artifact_bytes" -> {"artifact_bytes", "transferred_bytes"}
    [] r.stage = "transferred_bytes" ->
         IF Head(r.plan) = "capture" THEN {"transferred_bytes"}
         ELSE {"transferred_bytes", "estimated_tokens"}
    [] r.stage = "estimated_tokens" -> {"estimated_tokens"}
    [] OTHER -> {}

\* Which phases a stage is met in.
PhaseFits(r) ==
  /\ r.stage \in {"checking", "projecting"} => Head(r.plan) # "capture"
  /\ r.stage = "reserving" => Head(r.plan) \in Requests
  /\ r.stage = "ready" => Head(r.plan) \notin Requests
  /\ r.stage \in {"attaching", "leasing"} => Head(r.plan) # "search"

Owes(r) == PhaseFits(r) /\ \A d \in Dimension \ MayOwe(r) : r.owed[d] = 0

Unhalted(sc) == {o \in Of(sc) : run[o].stage \notin Halts}

Part(paid, d) == [o \in Op |-> paid[o][d]]

\* The ledger is what the operations paid into it: all of what an operation
\* consumed but what it owes, and some of it when it was halted.  Operations
\* that were not halted fit the limits.
Balanced(paid) ==
  /\ paid \in [Op -> [Dimension -> Nat]]
  /\ \A sc \in Scope, d \in Dimension :
       /\ ledger[sc][d] = Total(Part(paid, d), Of(sc))
       /\ Fits(sc, d, Total(Part(paid, d), Unhalted(sc)))
  /\ \A sc \in Scope : Fits(sc, "requests", ledger[sc]["requests"])
  /\ \A o \in Op, d \in Dimension :
       /\ paid[o][d] <= run[o].used[d]
       /\ run[o].stage \notin Halts => paid[o][d] + run[o].owed[d] = run[o].used[d]
       /\ d = "requests" => paid[o][d] = run[o].used[d]

BudgetInv ==
  /\ \E paid \in [Op -> [Dimension -> Nat]] : Balanced(paid)
  /\ \A o \in Op : Owes(run[o])

\* A step of an operation writes the record r and pays into its scope's ledger.
Pays(o, r, pay) ==
  /\ pay \in [Dimension -> Nat]
  /\ r.scope = run[o].scope /\ Owes(r)
  /\ run[o].stage \in Halts => r.stage \in Halts
  /\ ledger' = [ledger EXCEPT ![run[o].scope] =
                  [d \in Dimension |-> ledger[run[o].scope][d] + pay[d]]]
  /\ \A d \in Dimension :
       /\ run[o].used[d] <= r.used[d]
       /\ run[o].stage \in Halts => pay[d] = 0
       /\ pay[d] + run[o].used[d] <= r.used[d] + run[o].owed[d]
       /\ r.stage \notin Halts =>
            pay[d] + run[o].used[d] + r.owed[d] = r.used[d] + run[o].owed[d]
       /\ d = "requests" => r.used[d] = run[o].used[d] + pay[d]
       /\ pay[d] # 0 /\ (d = "requests" \/ r.stage \notin Halts) =>
            Fits(run[o].scope, d, ledger[run[o].scope][d] + pay[d])

LEMMA PaysBalanced ==
  ASSUME TypeOK, NEW paid \in [Op -> [Dimension -> Nat]], Balanced(paid),
         NEW o \in Op, NEW r \in Run, Becomes(o, r), NEW pay, Pays(o, r, pay)
  PROVE  \E q \in [Op -> [Dimension -> Nat]] : Balanced(q)'
<1> DEFINE sc == run[o].scope
           q == [paid EXCEPT ![o] = [d \in Dimension |-> paid[o][d] + pay[d]]]
<1>1. /\ run \in [Op -> Run] /\ run' = [run EXCEPT ![o] = r]
      /\ ledger \in [Scope -> [Dimension -> Nat]] /\ pay \in [Dimension -> Nat]
      /\ sc \in Scope /\ r.scope = sc
      /\ run'[o] = r /\ \A p \in Op \ {o} : run'[p] = run[p]
  BY DEF TypeOK, Becomes, Pays, Run
<1>2. /\ q \in [Op -> [Dimension -> Nat]]
      /\ \A d \in Dimension : q[o][d] = paid[o][d] + pay[d]
      /\ \A p \in Op \ {o} : q[p] = paid[p]
  BY <1>1
<1> HIDE DEF q
<1>3. \A x \in Scope : Of(x)' = Of(x) /\ Of(x) \subseteq Op /\ IsFiniteSet(Of(x))
  <2>1. \A p \in Op : run'[p].scope = run[p].scope
    BY <1>1
  <2>2. \A x \in Scope : Of(x)' = Of(x) /\ Of(x) \in SUBSET Op
    BY <2>1 DEF Of
  <2>3. IsFiniteSet(Op)
    BY ServiceAssumption
  <2>4. QED
    BY <2>2, <2>3, FS_Subset
<1>4. \A d \in Dimension :
        /\ Part(q, d) \in [Op -> Nat] /\ Part(paid, d) \in [Op -> Nat]
        /\ Part(q, d)[o] = Part(paid, d)[o] + pay[d]
        /\ \A p \in Op \ {o} : Part(q, d)[p] = Part(paid, d)[p]
  BY <1>1, <1>2 DEF Part
<1>5. ASSUME NEW x \in Scope, NEW d \in Dimension
      PROVE  ledger'[x][d] = Total(Part(q, d), Of(x))
  <2>1. ledger[x][d] = Total(Part(paid, d), Of(x))
    BY DEF Balanced
  <2>2. CASE x = sc
    <3>1. ledger'[x][d] = ledger[x][d] + pay[d]
      BY <1>1, <2>2 DEF Pays
    <3>2. o \in Of(x)
      BY <2>2 DEF Of
    <3>3. Total(Part(q, d), Of(x)) = Total(Part(paid, d), Of(x)) + pay[d]
      <4> DEFINE f == [p \in Of(x) |-> Part(paid, d)[p]]
                 g == [p \in Of(x) |-> Part(q, d)[p]]
      <4>1. f \in [Of(x) -> Nat] /\ g \in [Of(x) -> Nat] /\ pay[d] \in Nat
        BY <1>1, <1>3, <1>4
      <4>2. g[o] = f[o] + pay[d] /\ \A y \in Of(x) \ {o} : g[y] = f[y]
        BY <1>3, <1>4, <3>2
      <4>3. Total(f, Of(x)) = Total(Part(paid, d), Of(x))
        BY TotalSame
      <4>4. Total(g, Of(x)) = Total(Part(q, d), Of(x))
        BY TotalSame
      <4> HIDE DEF f, g
      <4>5. IsFiniteSet(Of(x))
        BY <1>3
      <4>6. Total(g, Of(x)) = Total(f, Of(x)) + pay[d]
        BY <3>2, <4>1, <4>2, <4>5, TotalRises
      <4>7. QED
        BY <4>3, <4>4, <4>6
    <3>4. QED
      BY <2>1, <3>1, <3>3
  <2>3. CASE x # sc
    <3>1. ledger'[x][d] = ledger[x][d]
      BY <1>1, <2>3 DEF Pays
    <3>2. o \notin Of(x)
      BY <2>3 DEF Of
    <3>3. \A p \in Of(x) : Part(paid, d)[p] = Part(q, d)[p]
      BY <1>3, <1>4, <3>2
    <3>4. Total(Part(q, d), Of(x)) = Total(Part(paid, d), Of(x))
      BY <3>3, TotalSame
    <3>5. QED
      BY <2>1, <3>1, <3>4
  <2>4. QED
    BY <2>2, <2>3
<1>6. ASSUME NEW x \in Scope, NEW d \in Dimension
      PROVE  Fits(x, d, Total(Part(q, d), Unhalted(x)'))
  <2>1. /\ Unhalted(x) \in SUBSET Of(x) /\ Unhalted(x)' \in SUBSET Of(x)
        /\ Unhalted(x)' \subseteq Unhalted(x)
    <3>1. run[o].stage \in Halts => run'[o].stage \in Halts
      BY <1>1 DEF Pays
    <3>2. QED
      BY <1>1, <1>3, <3>1 DEF Unhalted
  <2>2. /\ IsFiniteSet(Unhalted(x)) /\ IsFiniteSet(Of(x))
        /\ Of(x) \subseteq Op
    BY <1>3, <2>1, FS_Subset
  <2>3. Limit[x][d] \in SUBSET Nat
    BY ServiceAssumption
  <2>4. CASE o \in Unhalted(x)' /\ pay[d] # 0
    <3>1. x = sc /\ r.stage \notin Halts
      BY <1>1, <1>3, <2>4 DEF Unhalted, Of
    <3>2. Fits(x, d, ledger[x][d] + pay[d]) /\ ledger'[x][d] = ledger[x][d] + pay[d]
      BY <1>1, <2>4, <3>1 DEF Pays
    <3> DEFINE g == [p \in Of(x) |-> Part(q, d)[p]]
    <3>3. g \in [Of(x) -> Nat]
      BY <1>4, <2>2
    <3>4. Total(g, Of(x)) = Total(Part(q, d), Of(x))
      BY TotalSame
    <3>5. Total(g, Unhalted(x)') = Total(Part(q, d), Unhalted(x)')
      BY <2>1, TotalSame
    <3> HIDE DEF g
    <3> DEFINE S == Unhalted(x)'
    <3>6. S \in SUBSET Of(x)
      BY <2>1
    <3>7. \A y \in S : g[y] <= g[y]
      BY <3>3, <3>6
    <3> HIDE DEF S
    <3>8. /\ Total(g, S) \in Nat /\ Total(g, Of(x)) \in Nat
          /\ Total(g, S) <= Total(g, Of(x))
      BY <2>2, <3>3, <3>6, <3>7, TotalGrows
    <3>9. QED
      BY <1>5, <2>3, <3>2, <3>4, <3>5, <3>8 DEF Fits, S
  <2>5. CASE ~(o \in Unhalted(x)' /\ pay[d] # 0)
    <3> DEFINE S == Unhalted(x)'
               f == [p \in Of(x) |-> Part(q, d)[p]]
               g == [p \in Of(x) |-> Part(paid, d)[p]]
               fT == [p \in Unhalted(x) |-> Part(q, d)[p]]
               gT == [p \in Unhalted(x) |-> Part(paid, d)[p]]
    <3>1. fT \in [Unhalted(x) -> Nat] /\ gT \in [Unhalted(x) -> Nat]
      BY <1>4, <2>1, <2>2
    <3>2. \A p \in S : fT[p] = gT[p] /\ fT[p] \in Nat
      <4>1. ASSUME pay[d] = 0, NEW p \in Op
            PROVE  Part(q, d)[p] = Part(paid, d)[p]
        <5>1. Part(paid, d)[p] \in Nat /\ Part(paid, d)[o] \in Nat
          BY <1>4
        <5>2. QED
          BY <1>4, <4>1, <5>1
      <4>2. QED
        BY <1>4, <2>1, <2>2, <2>5, <4>1
    <3>3. Total(fT, S) = Total(Part(q, d), S)
      BY <2>1, TotalSame
    <3>4. Total(gT, Unhalted(x)) = Total(Part(paid, d), Unhalted(x))
      BY TotalSame
    <3>5. S \in SUBSET Unhalted(x)
      BY <2>1
    <3> HIDE DEF S, fT, gT
    <3>6. \A y \in S : fT[y] <= gT[y]
      BY <3>2
    <3>7. /\ Total(fT, S) \in Nat /\ Total(gT, Unhalted(x)) \in Nat
          /\ Total(fT, S) <= Total(gT, Unhalted(x))
      BY <2>2, <3>1, <3>5, <3>6, TotalGrows
    <3>8. Fits(x, d, Total(Part(paid, d), Unhalted(x)))
      BY DEF Balanced
    <3>9. QED
      BY <2>3, <3>3, <3>4, <3>7, <3>8 DEF Fits, S
  <2>6. QED
    BY <2>4, <2>5
<1>7. ASSUME NEW x \in Scope
      PROVE  Fits(x, "requests", ledger'[x]["requests"])
  <2>1. Fits(x, "requests", ledger[x]["requests"]) /\ "requests" \in Dimension
    BY DEF Balanced, Dimension
  <2>2. QED
    BY <1>1, <2>1 DEF Pays
<1>8. ASSUME NEW p \in Op, NEW d \in Dimension
      PROVE  /\ q[p][d] <= run'[p].used[d]
             /\ run'[p].stage \notin Halts => q[p][d] + run'[p].owed[d] = run'[p].used[d]
             /\ d = "requests" => q[p][d] = run'[p].used[d]
  <2>1. /\ paid[p][d] <= run[p].used[d]
        /\ run[p].stage \notin Halts => paid[p][d] + run[p].owed[d] = run[p].used[d]
        /\ d = "requests" => paid[p][d] = run[p].used[d]
    BY DEF Balanced
  <2>2. /\ run[p].used[d] \in Nat /\ run[p].owed[d] \in Nat
        /\ r.used[d] \in Nat /\ r.owed[d] \in Nat /\ pay[d] \in Nat /\ paid[p][d] \in Nat
    <3>1. run[p] \in Run
      BY <1>1
    <3>2. /\ run[p].used \in [Dimension -> Nat] /\ run[p].owed \in [Dimension -> Nat]
          /\ r.used \in [Dimension -> Nat] /\ r.owed \in [Dimension -> Nat]
      BY <3>1 DEF Run
    <3>3. paid[p] \in [Dimension -> Nat] /\ pay \in [Dimension -> Nat]
      BY <1>1
    <3>4. QED
      BY <3>2, <3>3
  <2>3. CASE p # o
    BY <1>1, <1>2, <2>1, <2>3
  <2>4. CASE p = o
    <3>1. q[p][d] = paid[p][d] + pay[d] /\ run'[p] = r
      BY <1>1, <1>2, <2>4
    <3>2. /\ run[p].used[d] <= r.used[d]
          /\ run[p].stage \in Halts => pay[d] = 0
          /\ pay[d] + run[p].used[d] <= r.used[d] + run[p].owed[d]
          /\ r.stage \notin Halts =>
               pay[d] + run[p].used[d] + r.owed[d] = r.used[d] + run[p].owed[d]
          /\ d = "requests" => r.used[d] = run[p].used[d] + pay[d]
          /\ run[p].stage \in Halts => r.stage \in Halts
      BY <2>4 DEF Pays
    <3>3. paid[p][d] + pay[d] <= r.used[d]
      BY <2>1, <2>2, <3>2
    <3>4. ASSUME r.stage \notin Halts
          PROVE  paid[p][d] + pay[d] + r.owed[d] = r.used[d]
      <4>1. paid[p][d] + run[p].owed[d] = run[p].used[d]
        BY <2>1, <3>2, <3>4
      <4>2. pay[d] + run[p].used[d] + r.owed[d] = r.used[d] + run[p].owed[d]
        BY <3>2, <3>4
      <4> DEFINE a == paid[p][d]
                 b == run[p].owed[d]
                 c == run[p].used[d]
                 n == pay[d]
                 m == r.owed[d]
                 u == r.used[d]
      <4>3. /\ a \in Nat /\ b \in Nat /\ c \in Nat /\ n \in Nat /\ m \in Nat /\ u \in Nat
            /\ a + b = c /\ n + c + m = u + b
        BY <2>2, <4>1, <4>2
      <4> HIDE DEF a, b, c, n, m, u
      <4>4. a + n + m = u
        BY <4>3
      <4>5. QED
        BY <4>4 DEF a, n, m, u
    <3>5. d = "requests" => paid[p][d] + pay[d] = r.used[d]
      BY <2>1, <2>2, <3>2
    <3>6. QED
      BY <3>1, <3>3, <3>4, <3>5
  <2>5. QED
    BY <2>3, <2>4
<1>9. Balanced(q)'
  BY <1>2, <1>3, <1>5, <1>6, <1>7, <1>8 DEF Balanced
<1>10. QED
  BY <1>2, <1>9

LEMMA OwesNothing ==
  ASSUME NEW r \in Run, Owes(r), r.stage \notin Dimension
  PROVE  r.owed = Nothing
<1>1. MayOwe(r) = {}
  BY DEF MayOwe, Dimension
<1>2. r.owed \in [Dimension -> Nat]
  BY DEF Run
<1>3. QED
  BY <1>1, <1>2 DEF Owes, Nothing

LEMMA NothingOwed ==
  ASSUME NEW r, r.owed = Nothing, PhaseFits(r)
  PROVE  Owes(r)
  BY DEF Owes, Nothing

\* A step that pays nothing and consumes nothing.
LEMMA PaysNothing ==
  ASSUME Here, NEW o \in Op, NEW r, r.scope = run[o].scope, r.used = run[o].used,
         r.owed = run[o].owed \/ r.stage \in Halts,
         run[o].stage \in Halts => r.stage \in Halts, Owes(r), UNCHANGED ledger
  PROVE  \E pay : Pays(o, r, pay)
<1>1. /\ run[o].used \in [Dimension -> Nat] /\ run[o].owed \in [Dimension -> Nat]
      /\ run[o].scope \in Scope /\ ledger \in [Scope -> [Dimension -> Nat]]
  BY HereFacts DEF Here, TypeOK, Run
<1>2. Nothing \in [Dimension -> Nat] /\ \A d \in Dimension : Nothing[d] = 0
  BY DEF Nothing
<1>3. ledger' = [ledger EXCEPT ![run[o].scope] =
                   [d \in Dimension |-> ledger[run[o].scope][d] + Nothing[d]]]
  <2>1. \A d \in Dimension : ledger[run[o].scope][d] + Nothing[d] = ledger[run[o].scope][d]
    BY <1>1, <1>2
  <2>2. [d \in Dimension |-> ledger[run[o].scope][d] + Nothing[d]] = ledger[run[o].scope]
    BY <1>1, <2>1
  <2>3. QED
    BY <1>1, <2>2
<1>4. \A d \in Dimension :
        /\ run[o].used[d] <= r.used[d]
        /\ Nothing[d] + run[o].used[d] <= r.used[d] + run[o].owed[d]
        /\ r.stage \notin Halts =>
             Nothing[d] + run[o].used[d] + r.owed[d] = r.used[d] + run[o].owed[d]
        /\ r.used[d] = run[o].used[d] + Nothing[d]
  BY <1>1, <1>2
<1>5. Pays(o, r, Nothing)
  BY <1>2, <1>3, <1>4 DEF Pays
<1>6. QED
  BY <1>5

LEMMA HaltPays ==
  ASSUME Here, NEW o \in Op, NEW lifecycle \in Halts, UNCHANGED ledger
  PROVE  \E pay : Pays(o, Ended(run[o], lifecycle), pay)
<1> DEFINE r == Ended(run[o], lifecycle)
<1>1. /\ r.scope = run[o].scope /\ r.used = run[o].used /\ r.owed = Nothing
      /\ r.stage = lifecycle
  BY DEF Ended, NewRun
<1>2. PhaseFits(r)
  BY <1>1 DEF PhaseFits, Halts
<1> HIDE DEF r
<1>3. Owes(r)
  BY <1>1, <1>2, NothingOwed
<1>4. \E pay : Pays(o, r, pay)
  BY <1>1, <1>3, PaysNothing
<1>5. QED
  BY <1>4 DEF r

LEMMA FirstStageFits ==
  ASSUME NEW r \in Run, NEW plan \in Seq(Phases), plan # <<>>
  PROVE  PhaseFits([r EXCEPT !.plan = plan, !.stage = FirstStage(r, Head(plan))])
<1> DEFINE stage == FirstStage(r, Head(plan))
           g == [r EXCEPT !.plan = plan, !.stage = stage]
<1>1. g.plan = plan /\ g.stage = stage
  BY DEF Run
<1>2. Head(plan) \in Phases
  BY HeadTailProperties
<1>3. /\ stage # "checking" /\ stage # "leasing"
      /\ stage = "projecting" => Head(plan) = "project"
      /\ stage = "reserving" => Head(plan) \in {"search", "navigate"}
      /\ stage = "ready" => Head(plan) \in {"capture", "press"}
      /\ stage = "attaching" => Head(plan) # "search"
  BY DEF FirstStage
<1> HIDE DEF stage, g
<1>4. PhaseFits(g)
  BY <1>1, <1>3 DEF PhaseFits, Requests
<1>5. QED
  BY <1>4 DEF g, stage

\* When all is charged a run goes on to its next phase, or succeeds.
LEMMA PhaseOverOwes ==
  ASSUME NEW r \in Run, r.plan # <<>>, r.owed = Nothing
  PROVE  LET g == PhaseOver(r)
         IN  /\ g.scope = r.scope /\ g.used = r.used /\ g.owed = r.owed
             /\ g.stage \notin Halts /\ Owes(g)
<1> DEFINE g == PhaseOver(r)
<1>1. CASE Len(r.plan) = 1
  <2>1. g = Ended(r, "succeeded")
    BY <1>1 DEF PhaseOver
  <2>2. g.scope = r.scope /\ g.used = r.used /\ g.owed = Nothing /\ g.stage = "succeeded"
    BY <2>1 DEF Ended, NewRun
  <2> HIDE DEF g
  <2>3. PhaseFits(g) /\ g.stage \notin Halts
    BY <2>2 DEF PhaseFits, Halts
  <2>4. Owes(g)
    BY <2>2, <2>3, NothingOwed
  <2>5. QED
    BY <2>2, <2>3, <2>4 DEF g
<1>2. CASE Len(r.plan) # 1
  <2> DEFINE rest == Tail(r.plan)
             stage == FirstStage(r, Head(rest))
  <2>1. r.plan \in Seq(Phases)
    BY DEF Run
  <2>2. rest \in Seq(Phases) /\ Len(rest) = Len(r.plan) - 1 /\ Len(r.plan) \in Nat
    BY <2>1, HeadTailProperties, LenProperties
  <2>3. Len(rest) # 0
    BY <1>2, <2>2
  <2>4. rest # <<>>
    BY <2>3, EmptySeq
  <2>5. g = [r EXCEPT !.plan = rest, !.stage = stage]
    BY <1>2 DEF PhaseOver
  <2>6. g.scope = r.scope /\ g.used = r.used /\ g.owed = r.owed /\ g.stage = stage
    BY <2>5 DEF Run
  <2>7. stage \in Working \ {"preflight"}
    BY FirstStageType
  <2>8. stage \notin Halts
    BY <2>7 DEF Working, Finals, Halts
  <2>9. PhaseFits(g)
    BY <2>2, <2>4, <2>5, FirstStageFits
  <2> HIDE DEF g
  <2>10. Owes(g)
    BY <2>6, <2>9, NothingOwed
  <2>11. QED
    BY <2>6, <2>8, <2>10 DEF g
<1>3. QED
  BY <1>1, <1>2

LEMMA AtWork ==
  ASSUME Here, NEW o \in Op, Owes(run[o])
  PROVE  /\ run[o] \in Run /\ PhaseFits(run[o])
         /\ run[o].stage \in Working => run[o].plan # <<>>
         /\ run[o].stage \notin Dimension => run[o].owed = Nothing
         /\ run[o].stage \in Working => run[o].stage \notin Halts
  BY HereFacts, OnTime, OwesNothing DEF Owes, Working, Finals, Halts

\* A step before the backend is called.
LEMMA BeforeCallPays ==
  ASSUME Here, NEW o \in Op, Owes(run[o]), UNCHANGED ledger,
         \/ \E kind \in Kinds, sid \in Sid \cup {NoSid}, ref \in SUBSET Op, guard \in Guards :
              Execute(o, kind, sid, ref, guard)
         \/ Dispatches(o) \/ Resolve(o) \/ Attach(o) \/ TakeLease(o) \/ Call(o)
  PROVE  \E r, pay : Becomes(o, r) /\ Pays(o, r, pay)
<1>1. run[o] \in Run /\ PhaseFits(run[o])
  BY AtWork
<1>2. ASSUME NEW kind \in Kinds, NEW sid \in Sid \cup {NoSid}, NEW ref \in SUBSET Op,
             NEW guard \in Guards, Execute(o, kind, sid, ref, guard)
      PROVE  \E r, pay : Becomes(o, r) /\ Pays(o, r, pay)
  <2> DEFINE due == {clock + t : t \in guard.timeout}
             r == [run[o] EXCEPT !.stage = "preflight", !.kind = kind, !.plan = Plan[kind],
                                 !.sid = sid, !.ref = ref, !.handle = guard.handle,
                                 !.deadline = due]
  <2>1. Becomes(o, r) /\ run[o].stage = "new"
    BY <1>2 DEF Execute, At
  <2>2. run[o].owed = Nothing
    BY <2>1, AtWork DEF Dimension
  <2>3. /\ r.scope = run[o].scope /\ r.used = run[o].used /\ r.owed = run[o].owed
        /\ r.stage = "preflight"
    BY <1>1 DEF Run
  <2> HIDE DEF r
  <2>4. PhaseFits(r) /\ run[o].stage \notin Halts
    BY <2>1, <2>3 DEF PhaseFits, Halts
  <2>5. Owes(r)
    BY <2>2, <2>3, <2>4, NothingOwed
  <2>6. \E pay : Pays(o, r, pay)
    BY <2>3, <2>4, <2>5, PaysNothing
  <2>7. QED
    BY <2>1, <2>6
<1>3. CASE Dispatches(o)
  <2> DEFINE r == [run[o] EXCEPT !.stage = FirstStage(run[o], Phase(o))]
  <2>1. Becomes(o, r) /\ run[o].stage = "preflight"
    BY <1>3 DEF Dispatches, Goes, Becomes, At
  <2>2. run[o].owed = Nothing /\ run[o].plan # <<>> /\ run[o].stage \notin Halts
    BY <2>1, AtWork DEF Dimension, Working, Stages, Finals
  <2>3. run[o].plan \in Seq(Phases)
    BY <1>1 DEF Run
  <2>4. r = [run[o] EXCEPT !.plan = run[o].plan, !.stage = FirstStage(run[o], Phase(o))]
    BY <1>1 DEF Run
  <2>5. PhaseFits(r)
    BY <1>1, <2>2, <2>3, <2>4, FirstStageFits DEF Phase
  <2>6. r.scope = run[o].scope /\ r.used = run[o].used /\ r.owed = run[o].owed
    BY <1>1 DEF Run
  <2> HIDE DEF r
  <2>7. Owes(r)
    BY <2>2, <2>5, <2>6, NothingOwed
  <2>8. \E pay : Pays(o, r, pay)
    BY <2>2, <2>6, <2>7, PaysNothing
  <2>9. QED
    BY <2>1, <2>8
<1>4. CASE Resolve(o)
  <2>1. PICK i \in 1 .. Len(retained) :
          Becomes(o, PhaseOver(IF run[o].kind = "shot_ref"
                                 THEN [run[o] EXCEPT !.sid = retained[i].sid] ELSE run[o]))
    BY <1>4 DEF Resolve
  <2> DEFINE q == IF run[o].kind = "shot_ref" THEN [run[o] EXCEPT !.sid = retained[i].sid]
                  ELSE run[o]
             r == PhaseOver(q)
  <2>2. /\ run[o].owed = Nothing /\ run[o].plan # <<>> /\ run[o].stage \notin Halts
    BY <1>4, AtWork DEF Resolve, At, Dimension, Working, Stages, Finals
  <2>3. retained[i].sid \in Sid \cup {NoSid}
    <3>1. retained \in Seq(Entry)
      BY DEF Here, TypeOK
    <3>2. retained[i] \in Entry
      BY <3>1, ElementOfSeq
    <3>3. QED
      BY <3>2 DEF Entry
  <2>4. /\ q \in Run /\ q.plan = run[o].plan /\ q.owed = run[o].owed
        /\ q.used = run[o].used /\ q.scope = run[o].scope
    BY <1>1, <2>3 DEF Run
  <2> HIDE DEF q
  <2>5. /\ r.scope = q.scope /\ r.used = q.used /\ r.owed = q.owed
        /\ r.stage \notin Halts /\ Owes(r)
    BY <2>2, <2>4, PhaseOverOwes
  <2> HIDE DEF r
  <2>6. \E pay : Pays(o, r, pay)
    BY <2>2, <2>4, <2>5, PaysNothing
  <2>7. QED
    BY <2>1, <2>6 DEF q, r
<1>5. CASE Attach(o)
  <2> DEFINE r == [run[o] EXCEPT !.stage = "leasing", !.now = clock]
  <2>1. Becomes(o, r) /\ run[o].stage = "attaching"
    BY <1>5 DEF Attach, At
  <2>2. run[o].owed = Nothing /\ run[o].stage \notin Halts
    BY <2>1, AtWork DEF Dimension, Working, Stages, Finals
  <2>3. /\ r.scope = run[o].scope /\ r.used = run[o].used /\ r.owed = run[o].owed
        /\ r.stage = "leasing" /\ r.plan = run[o].plan
    BY <1>1 DEF Run
  <2> HIDE DEF r
  <2>4. PhaseFits(r)
    BY <1>1, <2>1, <2>3 DEF PhaseFits
  <2>5. Owes(r)
    BY <2>2, <2>3, <2>4, NothingOwed
  <2>6. \E pay : Pays(o, r, pay)
    BY <2>2, <2>3, <2>5, PaysNothing
  <2>7. QED
    BY <2>1, <2>6
<1>6. CASE TakeLease(o)
  <2> DEFINE stage == IF Phase(o) = "navigate" THEN "reserving" ELSE "ready"
             r == [run[o] EXCEPT !.since = {run[o].now}, !.stage = stage]
  <2>1. Becomes(o, r) /\ run[o].stage = "leasing"
    BY <1>6 DEF TakeLease, At
  <2>2. run[o].owed = Nothing /\ run[o].stage \notin Halts
    BY <2>1, AtWork DEF Dimension, Working, Stages, Finals
  <2>3. /\ r.scope = run[o].scope /\ r.used = run[o].used /\ r.owed = run[o].owed
        /\ r.stage = stage /\ r.plan = run[o].plan
    BY <1>1 DEF Run
  <2> HIDE DEF r
  <2>4. PhaseFits(r)
    BY <1>1, <2>1, <2>3 DEF PhaseFits, Phase, Requests
  <2>5. Owes(r)
    BY <2>2, <2>3, <2>4, NothingOwed
  <2>6. \E pay : Pays(o, r, pay)
    BY <2>2, <2>3, <2>5, PaysNothing
  <2>7. QED
    BY <2>1, <2>6
<1>7. CASE Call(o)
  <2> DEFINE r == Issued(o)
  <2>1. Becomes(o, r) /\ run[o].stage = "ready"
    BY <1>7 DEF Call, At
  <2>2. run[o].owed = Nothing /\ run[o].stage \notin Halts
    BY <2>1, AtWork DEF Dimension, Working, Stages, Finals
  <2>3. Phase(o) \notin Requests
    BY <1>1, <2>1 DEF PhaseFits, Phase
  <2>4. /\ r.scope = run[o].scope /\ r.owed = run[o].owed
        /\ r.stage = "calling" /\ r.plan = run[o].plan
        /\ r.used = [run[o].used EXCEPT !["requests"] = @]
    BY <1>1, <2>3 DEF Run, Issued
  <2>5. r.used = run[o].used
    BY <1>1, <2>4 DEF Run
  <2> HIDE DEF r
  <2>6. PhaseFits(r)
    BY <2>4 DEF PhaseFits
  <2>7. Owes(r)
    BY <2>2, <2>4, <2>6, NothingOwed
  <2>8. \E pay : Pays(o, r, pay)
    BY <2>2, <2>4, <2>5, <2>7, PaysNothing
  <2>9. QED
    BY <2>1, <2>8
<1>8. QED
  BY <1>2, <1>3, <1>4, <1>5, <1>6, <1>7

\* The request is in the ledger before it is issued.
LEMMA ReservePays ==
  ASSUME Here, NEW o \in Op, Owes(run[o]), Reserve(o)
  PROVE  \E r, pay : Becomes(o, r) /\ Pays(o, r, pay)
<1> DEFINE sc == run[o].scope
           r == Issued(o)
           pay == [d \in Dimension |-> IF d = "requests" THEN 1 ELSE 0]
<1>1. /\ Becomes(o, r) /\ run[o].stage = "reserving"
      /\ Fits(sc, "requests", ledger[sc]["requests"] + 1)
      /\ ledger' = [ledger EXCEPT ![sc]["requests"] = @ + 1]
  BY DEF Reserve, At
<1>2. /\ run[o] \in Run /\ PhaseFits(run[o]) /\ run[o].owed = Nothing
      /\ run[o].stage \notin Halts
  BY <1>1, AtWork DEF Dimension, Working, Stages, Finals
<1>3. /\ sc \in Scope /\ ledger \in [Scope -> [Dimension -> Nat]] /\ "requests" \in Dimension
      /\ run[o].used \in [Dimension -> Nat]
  BY <1>2 DEF Here, TypeOK, Run, Dimension
<1>4. Phase(o) \in Requests
  BY <1>1, <1>2 DEF PhaseFits, Phase
<1>5. /\ r.scope = sc /\ r.owed = run[o].owed /\ r.stage = "calling"
      /\ r.used = [run[o].used EXCEPT !["requests"] = @ + 1]
  BY <1>2, <1>4 DEF Run, Issued
<1> HIDE DEF r
<1>6. Owes(r)
  <2>1. PhaseFits(r)
    BY <1>5 DEF PhaseFits
  <2>2. QED
    BY <1>2, <1>5, <2>1, NothingOwed
<1>7. ledger' = [ledger EXCEPT ![sc] = [d \in Dimension |-> ledger[sc][d] + pay[d]]]
  <2>1. \A d \in Dimension :
          [ledger[sc] EXCEPT !["requests"] = @ + 1][d] = ledger[sc][d] + pay[d]
    BY <1>3
  <2>2. [ledger[sc] EXCEPT !["requests"] = @ + 1] = [d \in Dimension |-> ledger[sc][d] + pay[d]]
    BY <1>3, <2>1
  <2>3. ledger' = [ledger EXCEPT ![sc] = [ledger[sc] EXCEPT !["requests"] = @ + 1]]
    BY <1>1, <1>3
  <2>4. QED
    BY <2>2, <2>3
<1>8. \A d \in Dimension : r.used[d] = run[o].used[d] + pay[d] /\ pay[d] \in Nat
  BY <1>3, <1>5
<1>9. \A d \in Dimension :
        /\ run[o].used[d] <= r.used[d]
        /\ pay[d] + run[o].used[d] <= r.used[d] + run[o].owed[d]
        /\ pay[d] + run[o].used[d] + r.owed[d] = r.used[d] + run[o].owed[d]
  <2>1. \A d \in Dimension : r.owed[d] = 0 /\ run[o].owed[d] = 0 /\ run[o].used[d] \in Nat
    BY <1>2, <1>3, <1>5 DEF Nothing
  <2>2. QED
    BY <1>8, <2>1
<1>10. \A d \in Dimension : pay[d] # 0 => Fits(sc, d, ledger[sc][d] + pay[d])
  BY <1>1
<1>11. pay \in [Dimension -> Nat]
  OBVIOUS
<1> HIDE DEF pay
<1>12. Pays(o, r, pay)
  BY <1>2, <1>5, <1>6, <1>7, <1>8, <1>9, <1>10, <1>11 DEF Pays
<1>13. QED
  BY <1>1, <1>12

\* What is consumed is owed.
LEMMA ConsumesPays ==
  ASSUME Here, NEW o \in Op, run[o].owed = Nothing, run[o].stage \notin Halts,
         NEW ns, \A d \in DOMAIN ns : ns[d] \in Nat, "requests" \notin DOMAIN ns,
         NEW r, r.scope = run[o].scope, r.stage \notin Halts, PhaseFits(r),
         r.owed = Consumes(run[o], ns).owed, r.used = Consumes(run[o], ns).used,
         \A d \in DOMAIN ns \ MayOwe(r) : ns[d] = 0,
         UNCHANGED ledger
  PROVE  \E pay : Pays(o, r, pay)
<1>1. /\ run[o] \in Run /\ run[o].used \in [Dimension -> Nat]
      /\ run[o].scope \in Scope /\ ledger \in [Scope -> [Dimension -> Nat]]
  BY HereFacts DEF Here, TypeOK, Run
<1>2. \A d \in Dimension : Nothing[d] = 0
  BY DEF Nothing
<1>3. \A d \in Dimension :
        /\ r.owed[d] = IF d \in DOMAIN ns THEN ns[d] ELSE 0
        /\ r.used[d] = IF d \in DOMAIN ns THEN run[o].used[d] + ns[d] ELSE run[o].used[d]
  BY <1>1, <1>2 DEF Run, Consumes
<1>4. \A d \in Dimension :
        /\ run[o].used[d] <= r.used[d]
        /\ Nothing[d] + run[o].used[d] <= r.used[d] + run[o].owed[d]
        /\ Nothing[d] + run[o].used[d] + r.owed[d] = r.used[d] + run[o].owed[d]
        /\ d = "requests" => r.used[d] = run[o].used[d] + Nothing[d]
  <2> SUFFICES ASSUME NEW d \in Dimension
               PROVE  /\ run[o].used[d] <= r.used[d]
                      /\ Nothing[d] + run[o].used[d] <= r.used[d] + run[o].owed[d]
                      /\ Nothing[d] + run[o].used[d] + r.owed[d] = r.used[d] + run[o].owed[d]
                      /\ d = "requests" => r.used[d] = run[o].used[d] + Nothing[d]
    OBVIOUS
  <2>1. run[o].used[d] \in Nat /\ Nothing[d] = 0 /\ run[o].owed[d] = 0
    BY <1>1, <1>2
  <2>2. CASE d \in DOMAIN ns
    BY <1>3, <2>1, <2>2
  <2>3. CASE d \notin DOMAIN ns
    BY <1>3, <2>1, <2>3
  <2>4. QED
    BY <2>2, <2>3
<1>5. Owes(r)
  BY <1>3 DEF Owes
<1>6. ledger' = [ledger EXCEPT ![run[o].scope] =
                   [d \in Dimension |-> ledger[run[o].scope][d] + Nothing[d]]]
  <2>1. \A d \in Dimension : ledger[run[o].scope][d] + Nothing[d] = ledger[run[o].scope][d]
    BY <1>1, <1>2
  <2>2. [d \in Dimension |-> ledger[run[o].scope][d] + Nothing[d]] = ledger[run[o].scope]
    BY <1>1, <2>1
  <2>3. QED
    BY <1>1, <2>2
<1>7. Nothing \in [Dimension -> Nat]
  BY DEF Nothing
<1>8. Pays(o, r, Nothing)
  BY <1>2, <1>4, <1>5, <1>6, <1>7 DEF Pays
<1>9. QED
  BY <1>8

LEMMA BackendReturnsPays ==
  ASSUME Here, NEW o \in Op, Owes(run[o]), BackendReturns(o)
  PROVE  \E r, pay : Becomes(o, r) /\ Pays(o, r, pay)
<1>1. PICK bytes \in IF Phase(o) = "search" THEN Sizes ELSE {0},
           tokens \in IF Phase(o) = "search" THEN Sizes ELSE {0} :
        Becomes(o, [Consumes(run[o], [browser_seconds |-> clock - run[o].now,
                                      transferred_bytes |-> bytes, estimated_tokens |-> tokens])
                      EXCEPT !.stage = "browser_seconds", !.cut = Interrupted(o)])
  BY DEF BackendReturns
<1> DEFINE ns == [browser_seconds |-> clock - run[o].now,
                  transferred_bytes |-> bytes, estimated_tokens |-> tokens]
           q == Consumes(run[o], ns)
           r == [q EXCEPT !.stage = "browser_seconds", !.cut = Interrupted(o)]
<1>2. run[o].stage = "calling" /\ UNCHANGED ledger
  BY DEF BackendReturns, At
<1>3. /\ run[o] \in Run /\ Sound(run[o], clock) /\ clock \in Nat
      /\ run[o].owed = Nothing /\ run[o].stage \notin Halts
  BY <1>2, HereFacts, AtWork DEF Dimension, Working, Stages, Finals
<1>4. clock - run[o].now \in Nat /\ bytes \in Nat /\ tokens \in Nat
  BY <1>3, ServiceAssumption DEF Sound, Shaped, Run
<1>5. /\ \A d \in DOMAIN ns : ns[d] \in Nat
      /\ DOMAIN ns = {"browser_seconds", "transferred_bytes", "estimated_tokens"}
      /\ ns["transferred_bytes"] = bytes /\ ns["estimated_tokens"] = tokens
  BY <1>4
<1> HIDE DEF ns
<1>6. q \in Run /\ q.plan = run[o].plan /\ q.scope = run[o].scope
  BY <1>3, <1>5, ConsumesSound
<1> HIDE DEF q
<1>7. /\ r.owed = q.owed /\ r.used = q.used /\ r.scope = run[o].scope
      /\ r.stage = "browser_seconds" /\ r.plan = run[o].plan
  BY <1>6 DEF Run
<1> HIDE DEF r
<1>8. PhaseFits(r) /\ r.stage \notin Halts
  BY <1>7 DEF PhaseFits, Halts
<1>9. \A d \in DOMAIN ns \ MayOwe(r) : ns[d] = 0
  <2>1. CASE Phase(o) = "search"
    BY <1>5, <1>7, <2>1 DEF MayOwe, Phase
  <2>2. CASE Phase(o) # "search"
    <3>1. bytes = 0 /\ tokens = 0
      BY <2>2
    <3>2. "browser_seconds" \in MayOwe(r)
      BY <1>7 DEF MayOwe
    <3>3. QED
      BY <1>5, <3>1, <3>2
  <2>3. QED
    BY <2>1, <2>2
<1>10. r.owed = Consumes(run[o], ns).owed /\ r.used = Consumes(run[o], ns).used
  BY <1>7 DEF q
<1>11. "requests" \notin DOMAIN ns
  BY <1>5
<1>12. \E pay : Pays(o, r, pay)
  BY <1>2, <1>3, <1>5, <1>7, <1>8, <1>9, <1>10, <1>11, ConsumesPays
<1>13. Becomes(o, r)
  BY <1>1 DEF r, q, ns
<1>14. QED
  BY <1>12, <1>13

LEMMA ShowsPays ==
  ASSUME Here, NEW o \in Op, Owes(run[o]), run[o].stage \in {"checking", "projecting"},
         Shows(o, run[o]), UNCHANGED ledger
  PROVE  \E r, pay : Becomes(o, r) /\ Pays(o, r, pay)
<1>1. PICK bytes \in Sizes, tokens \in Sizes :
        Becomes(o, [Consumes(run[o], [transferred_bytes |-> bytes, estimated_tokens |-> tokens])
                      EXCEPT !.stage = "transferred_bytes"])
  BY DEF Shows
<1> DEFINE ns == [transferred_bytes |-> bytes, estimated_tokens |-> tokens]
           q == Consumes(run[o], ns)
           r == [q EXCEPT !.stage = "transferred_bytes"]
<1>2. /\ run[o] \in Run /\ Sound(run[o], clock) /\ clock \in Nat /\ PhaseFits(run[o])
      /\ run[o].owed = Nothing /\ run[o].stage \notin Halts
  BY HereFacts, AtWork DEF Dimension, Working, Stages, Finals
<1>3. bytes \in Nat /\ tokens \in Nat
  BY ServiceAssumption
<1>4. /\ \A d \in DOMAIN ns : ns[d] \in Nat
      /\ DOMAIN ns = {"transferred_bytes", "estimated_tokens"}
  BY <1>3
<1> HIDE DEF ns
<1>5. q \in Run /\ q.plan = run[o].plan /\ q.scope = run[o].scope
  BY <1>2, <1>4, ConsumesSound
<1> HIDE DEF q
<1>6. /\ r.owed = q.owed /\ r.used = q.used /\ r.scope = run[o].scope
      /\ r.stage = "transferred_bytes" /\ r.plan = run[o].plan
  BY <1>5 DEF Run
<1> HIDE DEF r
<1>7. PhaseFits(r) /\ r.stage \notin Halts
  BY <1>6 DEF PhaseFits, Halts
<1>8. DOMAIN ns \ MayOwe(r) = {}
  BY <1>2, <1>4, <1>6 DEF MayOwe, PhaseFits
<1>9. r.owed = Consumes(run[o], ns).owed /\ r.used = Consumes(run[o], ns).used
  BY <1>6 DEF q
<1>10. "requests" \notin DOMAIN ns
  BY <1>4
<1>11. \E pay : Pays(o, r, pay)
  BY <1>2, <1>4, <1>6, <1>7, <1>8, <1>9, <1>10, ConsumesPays
<1>12. Becomes(o, r)
  BY <1>1 DEF r, q, ns
<1>13. QED
  BY <1>11, <1>12

LEMMA StoreArtifactPays ==
  ASSUME Here, NEW o \in Op, Owes(run[o]), StoreArtifact(o)
  PROVE  \E r, pay : Becomes(o, r) /\ Pays(o, r, pay)
<1>1. PICK size \in Sizes :
        Becomes(o, [Consumes(run[o], [artifact_bytes |-> size, transferred_bytes |-> size])
                      EXCEPT !.stage = "artifact_bytes"])
  BY DEF StoreArtifact
<1> DEFINE ns == [artifact_bytes |-> size, transferred_bytes |-> size]
           q == Consumes(run[o], ns)
           r == [q EXCEPT !.stage = "artifact_bytes"]
<1>2. run[o].stage = "storing" /\ UNCHANGED ledger
  BY DEF StoreArtifact, At
<1>3. /\ run[o] \in Run /\ Sound(run[o], clock) /\ clock \in Nat
      /\ run[o].owed = Nothing /\ run[o].stage \notin Halts
  BY <1>2, HereFacts, AtWork DEF Dimension, Working, Stages, Finals
<1>4. size \in Nat
  BY ServiceAssumption
<1>5. /\ \A d \in DOMAIN ns : ns[d] \in Nat
      /\ DOMAIN ns = {"artifact_bytes", "transferred_bytes"}
  BY <1>4
<1> HIDE DEF ns
<1>6. q \in Run /\ q.scope = run[o].scope
  BY <1>3, <1>5, ConsumesSound
<1> HIDE DEF q
<1>7. /\ r.owed = q.owed /\ r.used = q.used /\ r.scope = run[o].scope
      /\ r.stage = "artifact_bytes"
  BY <1>6 DEF Run
<1> HIDE DEF r
<1>8. PhaseFits(r) /\ r.stage \notin Halts
  BY <1>7 DEF PhaseFits, Halts
<1>9. DOMAIN ns \ MayOwe(r) = {}
  BY <1>5, <1>7 DEF MayOwe
<1>10. r.owed = Consumes(run[o], ns).owed /\ r.used = Consumes(run[o], ns).used
  BY <1>7 DEF q
<1>11. "requests" \notin DOMAIN ns
  BY <1>5
<1>12. \E pay : Pays(o, r, pay)
  BY <1>2, <1>3, <1>5, <1>7, <1>8, <1>9, <1>10, <1>11, ConsumesPays
<1>13. Becomes(o, r)
  BY <1>1 DEF r, q, ns
<1>14. QED
  BY <1>12, <1>13

\* A charge takes the dimension off what is owed, and the stage that follows
\* allows for the rest.
LEMMA AfterChargeOwes ==
  ASSUME NEW r \in Run, NEW d \in Dimension \ {"requests"}, r.stage = d, r.plan # <<>>, Owes(r)
  PROVE  LET p == [r EXCEPT !.owed[d] = 0]
             g == AfterCharge(p, d)
         IN  /\ g.scope = r.scope /\ g.used = r.used /\ g.owed = p.owed
             /\ g.stage \notin Halts /\ Owes(g)
<1> DEFINE phase == Head(r.plan)
           p == [r EXCEPT !.owed[d] = 0]
           g == AfterCharge(p, d)
<1>1. [r.owed EXCEPT ![d] = 0] \in [Dimension -> Nat]
  BY DEF Run
<1>2. /\ p \in Run /\ p.owed = [r.owed EXCEPT ![d] = 0]
      /\ p.plan = r.plan /\ p.used = r.used /\ p.scope = r.scope /\ p.stage = d
  BY <1>1 DEF Run
<1>3. \A x \in Dimension \ (MayOwe(r) \ {d}) : p.owed[x] = 0
  <2>1. \A x \in Dimension : p.owed[x] = IF x = d THEN 0 ELSE r.owed[x]
    BY <1>2 DEF Run
  <2>2. QED
    BY <2>1 DEF Owes
<1>4. ASSUME NEW stage \in {"checking", "storing", "transferred_bytes", "estimated_tokens"},
             g = [p EXCEPT !.stage = stage],
             stage = "checking" => phase # "capture",
             \A h : h.stage = stage /\ h.plan = r.plan => MayOwe(r) \ {d} \subseteq MayOwe(h)
      PROVE  /\ g.scope = r.scope /\ g.used = r.used /\ g.owed = p.owed
             /\ g.stage \notin Halts /\ Owes(g)
  <2>1. /\ g.scope = r.scope /\ g.used = r.used /\ g.owed = p.owed
        /\ g.stage = stage /\ g.plan = r.plan
    BY <1>2, <1>4 DEF Run
  <2> HIDE DEF g
  <2>2. stage \notin Halts /\ PhaseFits(g)
    BY <1>4, <2>1 DEF Halts, PhaseFits
  <2>3. MayOwe(r) \ {d} \subseteq MayOwe(g)
    BY <1>4, <2>1
  <2>4. \A x \in Dimension \ MayOwe(g) : g.owed[x] = 0
    BY <1>3, <2>1, <2>3
  <2>5. QED
    BY <2>1, <2>2, <2>4 DEF Owes
<1>5. ASSUME g = PhaseOver(p), MayOwe(r) \ {d} = {}
      PROVE  /\ g.scope = r.scope /\ g.used = r.used /\ g.owed = p.owed
             /\ g.stage \notin Halts /\ Owes(g)
  <2>1. p.owed = Nothing
    BY <1>1, <1>2, <1>3, <1>5 DEF Nothing
  <2>2. QED
    BY <1>2, <1>5, <2>1, PhaseOverOwes
<1>6. CASE d = "browser_seconds" /\ phase \in {"navigate", "observe"}
  <2>1. g = [p EXCEPT !.stage = "checking"]
    BY <1>2, <1>6 DEF AfterCharge
  <2>2. MayOwe(r) \ {d} = {}
    BY <1>6 DEF MayOwe
  <2>3. QED
    BY <1>4, <1>6, <2>1, <2>2
<1>7. CASE d = "browser_seconds" /\ phase = "capture"
  <2>1. g = [p EXCEPT !.stage = "storing"]
    BY <1>2, <1>7 DEF AfterCharge
  <2>2. MayOwe(r) \ {d} = {}
    BY <1>7 DEF MayOwe
  <2>3. QED
    BY <1>4, <2>1, <2>2
<1>8. CASE d = "browser_seconds" /\ phase = "search"
  <2>1. g = [p EXCEPT !.stage = "transferred_bytes"]
    BY <1>2, <1>8 DEF AfterCharge
  <2>2. \A h : h.stage = "transferred_bytes" /\ h.plan = r.plan => MayOwe(r) \ {d} \subseteq MayOwe(h)
    BY <1>8 DEF MayOwe
  <2>3. QED
    BY <1>4, <2>1, <2>2
<1>9. CASE d = "artifact_bytes"
  <2>1. g = [p EXCEPT !.stage = "transferred_bytes"]
    BY <1>2, <1>9 DEF AfterCharge
  <2>2. \A h : h.stage = "transferred_bytes" /\ h.plan = r.plan => MayOwe(r) \ {d} \subseteq MayOwe(h)
    BY <1>9 DEF MayOwe
  <2>3. QED
    BY <1>4, <2>1, <2>2
<1>10. CASE d = "transferred_bytes" /\ phase # "capture"
  <2>1. g = [p EXCEPT !.stage = "estimated_tokens"]
    BY <1>2, <1>10 DEF AfterCharge
  <2>2. \A h : h.stage = "estimated_tokens" /\ h.plan = r.plan => MayOwe(r) \ {d} \subseteq MayOwe(h)
    BY <1>10 DEF MayOwe
  <2>3. QED
    BY <1>4, <2>1, <2>2
<1>11. CASE \/ d = "browser_seconds" /\ phase \notin {"navigate", "observe", "capture", "search"}
            \/ d = "transferred_bytes" /\ phase = "capture"
            \/ d = "estimated_tokens"
  <2>1. g = PhaseOver(p)
    BY <1>2, <1>11 DEF AfterCharge
  <2>2. MayOwe(r) \ {d} = {}
    BY <1>11 DEF MayOwe
  <2>3. QED
    BY <1>5, <2>1, <2>2
<1>12. QED
  BY <1>6, <1>7, <1>8, <1>9, <1>10, <1>11 DEF Dimension

LEMMA ChargePays ==
  ASSUME Here, NEW o \in Op, Owes(run[o]), NEW d \in Dimension, Charge(o, d)
  PROVE  \E r, pay : Becomes(o, r) /\ Pays(o, r, pay)
<1> DEFINE sc == run[o].scope
           n == run[o].owed[d]
           p == [run[o] EXCEPT !.owed[d] = 0]
           fits == n = 0 \/ Fits(sc, d, ledger[sc][d] + n)
           r == IF fits THEN AfterCharge(p, d) ELSE Ended(p, "halted")
           pay == [x \in Dimension |-> IF x = d THEN n ELSE 0]
<1>1. /\ Becomes(o, r) /\ run[o].stage = d /\ d # "requests"
      /\ ledger' = [ledger EXCEPT ![sc][d] = ledger[sc][d] + n]
  BY DEF Charge, At
<1>2. d \notin Halts /\ d \in Working
  BY DEF Dimension, Halts, Working, Stages, Finals
<1>3. run[o] \in Run /\ run[o].plan # <<>>
  BY <1>1, <1>2, AtWork
<1>4. /\ sc \in Scope /\ ledger \in [Scope -> [Dimension -> Nat]]
      /\ run[o].used \in [Dimension -> Nat] /\ run[o].owed \in [Dimension -> Nat] /\ n \in Nat
  BY <1>3 DEF Here, TypeOK, Run
<1>5. pay \in [Dimension -> Nat]
  BY <1>4
<1>6. ledger' = [ledger EXCEPT ![sc] = [x \in Dimension |-> ledger[sc][x] + pay[x]]]
  <2>1. \A x \in Dimension :
          [ledger[sc] EXCEPT ![d] = ledger[sc][d] + n][x] = ledger[sc][x] + pay[x]
    BY <1>4
  <2>2. [ledger[sc] EXCEPT ![d] = ledger[sc][d] + n]
          = [x \in Dimension |-> ledger[sc][x] + pay[x]]
    BY <1>4, <2>1
  <2>3. ledger' = [ledger EXCEPT ![sc] = [ledger[sc] EXCEPT ![d] = ledger[sc][d] + n]]
    BY <1>1, <1>4
  <2>4. QED
    BY <2>2, <2>3
<1>7. /\ p.scope = sc /\ p.used = run[o].used
      /\ \A x \in Dimension : p.owed[x] = IF x = d THEN 0 ELSE run[o].owed[x]
  BY <1>3, <1>4 DEF Run
<1>8. r.scope = sc /\ r.used = run[o].used /\ Owes(r) /\ (r.stage \notin Halts => r.owed = p.owed)
      /\ (r.stage \notin Halts => fits)
  <2>1. CASE fits
    <3>1. r = AfterCharge(p, d)
      BY <2>1
    <3>2. d \in Dimension \ {"requests"}
      BY <1>1
    <3> DEFINE g == AfterCharge(p, d)
    <3>3. /\ g.scope = run[o].scope /\ g.used = run[o].used /\ g.owed = p.owed
          /\ g.stage \notin Halts /\ Owes(g)
      <4> HIDE DEF r, fits, pay, n
      <4> QED
        BY <1>1, <1>3, <3>2, AfterChargeOwes
    <3>4. QED
      BY <2>1, <3>1, <3>3
  <2>2. CASE ~fits
    <3>1. r = Ended(p, "halted")
      BY <2>2
    <3>2. r.scope = p.scope /\ r.used = p.used /\ r.owed = Nothing /\ r.stage = "halted"
      BY <3>1 DEF Ended, NewRun
    <3> HIDE DEF r, fits, p
    <3>3. PhaseFits(r) /\ r.stage \in Halts
      BY <3>2 DEF PhaseFits, Halts
    <3>4. QED
      BY <1>7, <3>2, <3>3, NothingOwed
  <2>3. QED
    BY <2>1, <2>2
<1>9. \A x \in Dimension : pay[x] = IF x = d THEN n ELSE 0
  OBVIOUS
<1> HIDE DEF r, pay, p
<1>10. ASSUME NEW x \in Dimension
       PROVE  /\ run[o].used[x] <= r.used[x]
              /\ pay[x] + run[o].used[x] <= r.used[x] + run[o].owed[x]
              /\ r.stage \notin Halts =>
                   pay[x] + run[o].used[x] + r.owed[x] = r.used[x] + run[o].owed[x]
              /\ x = "requests" => r.used[x] = run[o].used[x] + pay[x]
  <2>1. run[o].used[x] \in Nat /\ run[o].owed[x] \in Nat /\ r.used[x] = run[o].used[x]
    BY <1>4, <1>8
  <2>2. CASE x = d
    BY <1>1, <1>7, <1>8, <1>9, <2>1, <2>2
  <2>3. CASE x # d
    BY <1>7, <1>8, <1>9, <2>1, <2>3
  <2>4. QED
    BY <2>2, <2>3
<1>11. ASSUME NEW x \in Dimension, pay[x] # 0, x = "requests" \/ r.stage \notin Halts
       PROVE  Fits(sc, x, ledger[sc][x] + pay[x])
  BY <1>1, <1>8, <1>9, <1>11
<1>12. Pays(o, r, pay)
  BY <1>1, <1>2, <1>5, <1>6, <1>8, <1>10, <1>11 DEF Pays
<1>13. QED
  BY <1>1, <1>12

LEMMA CancelPays ==
  ASSUME Here, NEW o \in Op, Owes(run[o]), Cancel(o)
  PROVE  \E r, pay : Becomes(o, r) /\ Pays(o, r, pay)
<1> DEFINE r == [run[o] EXCEPT !.cancelled = TRUE]
<1>1. run[o] \in Run /\ Becomes(o, r) /\ UNCHANGED ledger
  BY HereFacts DEF Cancel, Becomes
<1>2. /\ r.scope = run[o].scope /\ r.used = run[o].used /\ r.owed = run[o].owed
      /\ r.stage = run[o].stage /\ r.plan = run[o].plan
  BY <1>1 DEF Run
<1> HIDE DEF r
<1>3. Owes(r)
  BY <1>2 DEF Owes, PhaseFits, MayOwe
<1>4. \E pay : Pays(o, r, pay)
  BY <1>1, <1>2, <1>3, PaysNothing
<1>5. QED
  BY <1>1, <1>4

LEMMA OperationPays ==
  ASSUME Here, NEW o \in Op, Owes(run[o]), Begins(o) \/ Prepares(o) \/ Works(o) \/ Cancel(o)
  PROVE  \E r, pay : Becomes(o, r) /\ Pays(o, r, pay)
<1>1. ASSUME NEW lifecycle \in Halts, Ends(o, lifecycle), UNCHANGED ledger
      PROVE  \E r, pay : Becomes(o, r) /\ Pays(o, r, pay)
  BY <1>1, HaltPays DEF Ends
<1>2. {"halted", "cancelled", "timed_out"} = Halts
  BY DEF Halts
<1>3. CASE Begins(o)
  <2>1. CASE \E kind \in Kinds, sid \in Sid \cup {NoSid}, ref \in {{}} \cup {{q} : q \in Op},
               guard \in Guards : Execute(o, kind, sid, ref, guard)
    <3>1. PICK kind \in Kinds, sid \in Sid \cup {NoSid}, ref \in {{}} \cup {{q} : q \in Op},
               guard \in Guards : Execute(o, kind, sid, ref, guard)
      BY <2>1
    <3>2. ref \in SUBSET Op
      OBVIOUS
    <3>3. UNCHANGED ledger
      BY <3>1 DEF Execute
    <3>4. QED
      BY <3>1, <3>2, <3>3, BeforeCallPays
  <2>2. CASE StepHalts(o)
    <3>1. (Ends(o, "cancelled") \/ Ends(o, "timed_out")) /\ UNCHANGED ledger
      BY <2>2 DEF StepHalts
    <3>2. QED
      BY <1>1, <1>2, <3>1
  <2>3. CASE HaltsBeforeWork(o)
    BY <1>1, <1>2, <2>3 DEF HaltsBeforeWork
  <2>4. CASE Dispatches(o)
    <3>1. UNCHANGED ledger
      BY <2>4 DEF Dispatches
    <3>2. QED
      BY <2>4, <3>1, BeforeCallPays
  <2>5. QED
    BY <1>3, <2>1, <2>2, <2>3, <2>4 DEF Begins
<1>4. CASE Prepares(o)
  <2>1. CASE Resolve(o) \/ Attach(o) \/ TakeLease(o)
    <3>1. UNCHANGED ledger
      BY <2>1 DEF Resolve, Attach, TakeLease
    <3>2. QED
      BY <2>1, <3>1, BeforeCallPays
  <2>2. CASE Reserve(o)
    BY <2>2, ReservePays
  <2>3. CASE \/ ResolveFails(o) \/ NotActive(o) \/ LeaseFails(o)
             \/ PolicyRefuses(o) \/ ReserveRefused(o)
    <3>1. Ends(o, "halted") /\ UNCHANGED ledger
      BY <2>3 DEF ResolveFails, NotActive, LeaseFails, PolicyRefuses, ReserveRefused
    <3>2. QED
      BY <1>1, <1>2, <3>1
  <2>4. QED
    BY <1>4, <2>1, <2>2, <2>3 DEF Prepares
<1>5. CASE Works(o)
  <2>1. CASE Call(o)
    <3>1. UNCHANGED ledger
      BY <2>1 DEF Call
    <3>2. QED
      BY <2>1, <3>1, BeforeCallPays
  <2>2. CASE BackendReturns(o)
    BY <2>2, BackendReturnsPays
  <2>3. CASE BackendRaises(o) \/ PageRefused(o) \/ ProjectFails(o) \/ ArtifactWriteFails(o)
    <3>1. Ends(o, "halted") /\ UNCHANGED ledger
      BY <2>3 DEF BackendRaises, PageRefused, ProjectFails, ArtifactWriteFails
    <3>2. QED
      BY <1>1, <1>2, <3>1
  <2>4. CASE Retain(o)
    <3>1. run[o].stage = "checking" /\ Shows(o, run[o]) /\ UNCHANGED ledger
      BY <2>4 DEF Retain, At
    <3>2. QED
      BY <3>1, ShowsPays
  <2>5. CASE Project(o)
    <3>1. run[o].stage = "projecting" /\ Shows(o, run[o]) /\ UNCHANGED ledger
      BY <2>5 DEF Project, At
    <3>2. QED
      BY <3>1, ShowsPays
  <2>6. CASE StoreArtifact(o)
    BY <2>6, StoreArtifactPays
  <2>7. ASSUME NEW d \in Dimension, Charge(o, d)
        PROVE  \E r, pay : Becomes(o, r) /\ Pays(o, r, pay)
    BY <2>7, ChargePays
  <2>8. QED
    BY <1>5, <2>1, <2>2, <2>3, <2>4, <2>5, <2>6, <2>7 DEF Works
<1>6. CASE Cancel(o)
  BY <1>6, CancelPays
<1>7. QED
  BY <1>3, <1>4, <1>5, <1>6

LEMMA InitBudget == Init => BudgetInv
<1> SUFFICES ASSUME Init
             PROVE  BudgetInv
  OBVIOUS
<1> DEFINE paid == [o \in Op |-> Nothing]
<1>1. PICK scopeOf \in Assigned : run = [o \in Op |-> NewRun(scopeOf[o])]
  BY DEF Init
<1>2. ledger = [sc \in Scope |-> Nothing]
  BY DEF Init
<1>3. \A o \in Op : run[o].stage = "new" /\ run[o].used = Nothing /\ run[o].owed = Nothing
  BY <1>1 DEF NewRun
<1>4. Nothing \in [Dimension -> Nat] /\ \A d \in Dimension : Nothing[d] = 0
  BY DEF Nothing
<1>5. paid \in [Op -> [Dimension -> Nat]]
  BY <1>4
<1>6. \A d \in Dimension, S \in SUBSET Op : Total(Part(paid, d), S) = 0
  BY <1>4, TotalOfNothing DEF Part
<1>7. \A sc \in Scope : Of(sc) \in SUBSET Op /\ Unhalted(sc) \in SUBSET Op
  BY DEF Of, Unhalted
<1>8. \A sc \in Scope, d \in Dimension : ledger[sc][d] = 0 /\ Fits(sc, d, 0)
  <2>1. \A sc \in Scope, d \in Dimension : Limit[sc][d] \in SUBSET Nat
    BY ServiceAssumption
  <2>2. QED
    BY <1>2, <1>4, <2>1 DEF Fits
<1>9. "requests" \in Dimension
  BY DEF Dimension
<1>10. \A o \in Op, d \in Dimension :
        /\ paid[o][d] = 0 /\ run[o].used[d] = 0 /\ run[o].owed[d] = 0
  BY <1>3, <1>4
<1> HIDE DEF paid
<1>11. Balanced(paid)
  BY <1>5, <1>6, <1>7, <1>8, <1>9, <1>10 DEF Balanced
<1>12. \A o \in Op : Owes(run[o])
  BY <1>3, NothingOwed DEF PhaseFits
<1>13. QED
  BY <1>5, <1>11, <1>12 DEF BudgetInv

LEMMA NextBudget == Inv /\ Inv' /\ BudgetInv /\ [Next]_vars => BudgetInv'
<1> SUFFICES ASSUME Inv, Inv', BudgetInv, [Next]_vars
             PROVE  BudgetInv'
  OBVIOUS
<1>1. Here /\ TypeOK /\ TypeOK' /\ run \in [Op -> Run] /\ run' \in [Op -> Run]
  BY DEF Inv, Here, TypeOK
<1>2. ASSUME NEW o \in Op, Begins(o) \/ Prepares(o) \/ Works(o) \/ Cancel(o)
      PROVE  BudgetInv'
  <2>1. PICK r, pay : Becomes(o, r) /\ Pays(o, r, pay)
    <3>1. Owes(run[o])
      BY DEF BudgetInv
    <3>2. QED
      BY <1>1, <1>2, <3>1, OperationPays
  <2>2. run'[o] = r /\ \A p \in Op \ {o} : run'[p] = run[p]
    BY <1>1, <2>1 DEF Becomes
  <2>3. r \in Run
    BY <1>1, <2>2
  <2>4. PICK paid \in [Op -> [Dimension -> Nat]] : Balanced(paid)
    BY DEF BudgetInv
  <2>5. \E q \in [Op -> [Dimension -> Nat]] : Balanced(q)'
    BY <1>1, <2>1, <2>3, <2>4, PaysBalanced
  <2>6. \A p \in Op : Owes(run'[p])
    BY <2>1, <2>2 DEF Pays, BudgetInv
  <2>7. QED
    BY <2>5, <2>6 DEF BudgetInv
<1>3. ASSUME UNCHANGED <<ledger, run>>
      PROVE  BudgetInv'
  BY <1>3 DEF BudgetInv, Balanced, Of, Unhalted
<1>4. ASSUME NEW s \in Sid, SessionEnds(s)
      PROVE  BudgetInv'
  BY <1>3, <1>4 DEF SessionEnds
<1>5. CASE Tick
  BY <1>3, <1>5 DEF Tick
<1>6. CASE UNCHANGED vars
  BY <1>3, <1>6 DEF vars
<1>7. QED
  BY <1>2, <1>4, <1>5, <1>6 DEF Next

LEMMA BudgetHolds == Spec => [](Inv /\ BudgetInv)
<1>1. Init => Inv /\ BudgetInv
  BY InitInv, InitBudget
<1>2. Inv /\ BudgetInv /\ [Next]_vars => (Inv /\ BudgetInv)'
  BY NextInv, NextBudget
<1>3. QED
  BY <1>1, <1>2, PTL DEF Spec

\* What the operations of a scope paid is at most what they used, and all of what
\* the succeeded ones used.
LEMMA PaidAndUsed ==
  ASSUME Here, NEW paid \in [Op -> [Dimension -> Nat]], Balanced(paid),
         \A o \in Op : Owes(run[o]), NEW sc \in Scope, NEW d \in Dimension
  PROVE  /\ Total(Part(paid, d), Of(sc)) \in Nat
         /\ TotalUsed(Of(sc), d) \in Nat /\ TotalUsed(Succeeded(sc), d) \in Nat
         /\ Total(Part(paid, d), Unhalted(sc)) \in Nat
         /\ Total(Part(paid, d), Of(sc)) <= TotalUsed(Of(sc), d)
         /\ d = "requests" => Total(Part(paid, d), Of(sc)) = TotalUsed(Of(sc), d)
         /\ TotalUsed(Succeeded(sc), d) <= Total(Part(paid, d), Unhalted(sc))
         /\ Total(Part(paid, d), Unhalted(sc)) <= Total(Part(paid, d), Of(sc))
<1> DEFINE f == Part(paid, d)
           g == [o \in Op |-> run[o].used[d]]
<1>1. IsFiniteSet(Op)
  BY ServiceAssumption
<1>2. /\ Of(sc) \in SUBSET Op /\ Unhalted(sc) \in SUBSET Of(sc)
      /\ Succeeded(sc) \in SUBSET Unhalted(sc)
  BY DEF Of, Unhalted, Succeeded, At, Halts
<1>3. IsFiniteSet(Of(sc)) /\ IsFiniteSet(Unhalted(sc)) /\ IsFiniteSet(Succeeded(sc))
  <2>1. Unhalted(sc) \in SUBSET Op /\ Succeeded(sc) \in SUBSET Op
    BY <1>2
  <2>2. QED
    BY <1>1, <1>2, <2>1, FS_Subset
<1>4. \A o \in Op : run[o].used \in [Dimension -> Nat]
  BY HereFacts DEF Run
<1>5. f \in [Op -> Nat] /\ g \in [Op -> Nat] /\ \A o \in Op : f[o] = paid[o][d] /\ g[o] = run[o].used[d]
  BY <1>4 DEF Part
<1>6. \A o \in Op : f[o] <= g[o] /\ (d = "requests" => f[o] = g[o])
  BY <1>5 DEF Balanced
<1>7. \A o \in Succeeded(sc) : o \in Op /\ f[o] = g[o]
  <2> SUFFICES ASSUME NEW o \in Succeeded(sc)
               PROVE  o \in Op /\ f[o] = g[o]
    OBVIOUS
  <2>1. o \in Op /\ run[o].stage = "succeeded"
    BY DEF Succeeded, Of, At
  <2>2. run[o].owed[d] = 0
    BY <2>1 DEF Owes, MayOwe
  <2>3. paid[o][d] + run[o].owed[d] = run[o].used[d]
    BY <2>1 DEF Balanced, Halts
  <2>4. QED
    BY <1>5, <2>1, <2>2, <2>3
<1>8. TotalUsed(Of(sc), d) = Total(g, Of(sc)) /\ TotalUsed(Succeeded(sc), d) = Total(g, Succeeded(sc))
  BY DEF TotalUsed
<1> HIDE DEF f, g
<1> DEFINE fT == [o \in Of(sc) |-> f[o]]
           gT == [o \in Of(sc) |-> g[o]]
<1>9. /\ fT \in [Of(sc) -> Nat] /\ gT \in [Of(sc) -> Nat]
      /\ \A o \in Of(sc) : fT[o] = f[o] /\ gT[o] = g[o]
  BY <1>2, <1>5
<1> HIDE DEF fT, gT
<1>10. /\ Total(fT, Of(sc)) = Total(f, Of(sc)) /\ Total(gT, Of(sc)) = Total(g, Of(sc))
       /\ Total(fT, Unhalted(sc)) = Total(f, Unhalted(sc))
       /\ Total(gT, Succeeded(sc)) = Total(g, Succeeded(sc))
  BY <1>2, <1>9, TotalSame
<1>11. /\ Total(fT, Of(sc)) \in Nat /\ Total(gT, Of(sc)) \in Nat
       /\ Total(fT, Of(sc)) <= Total(gT, Of(sc))
  <2>1. \A o \in Of(sc) : fT[o] <= gT[o]
    BY <1>2, <1>6, <1>9
  <2>2. QED
    BY <1>3, <1>9, <2>1, TotalGrows
<1>12. d = "requests" => Total(fT, Of(sc)) = Total(gT, Of(sc))
  <2>1. d = "requests" => \A o \in Of(sc) : fT[o] = gT[o]
    BY <1>2, <1>6, <1>9
  <2>2. QED
    BY <2>1, TotalSame
<1>13. /\ Total(fT, Unhalted(sc)) \in Nat /\ Total(fT, Unhalted(sc)) <= Total(fT, Of(sc))
  <2>1. \A o \in Unhalted(sc) : fT[o] <= fT[o]
    BY <1>2, <1>9
  <2>2. QED
    BY <1>2, <1>3, <1>9, <2>1, TotalGrows
<1>14. /\ Total(gT, Succeeded(sc)) \in Nat
       /\ Total(gT, Succeeded(sc)) <= Total(fT, Unhalted(sc))
  <2> DEFINE fU == [o \in Unhalted(sc) |-> fT[o]]
             gU == [o \in Unhalted(sc) |-> gT[o]]
  <2>1. /\ fU \in [Unhalted(sc) -> Nat] /\ gU \in [Unhalted(sc) -> Nat]
        /\ \A o \in Unhalted(sc) : fU[o] = fT[o] /\ gU[o] = gT[o]
    BY <1>2, <1>9
  <2> HIDE DEF fU, gU
  <2>2. \A o \in Succeeded(sc) : gU[o] <= fU[o]
    BY <1>2, <1>7, <1>9, <2>1
  <2>3. /\ Total(gU, Succeeded(sc)) = Total(gT, Succeeded(sc))
        /\ Total(fU, Unhalted(sc)) = Total(fT, Unhalted(sc))
    BY <1>2, <2>1, TotalSame
  <2>4. QED
    BY <1>2, <1>3, <2>1, <2>2, <2>3, TotalGrows
<1>15. QED
  BY <1>8, <1>10, <1>11, <1>12, <1>13, <1>14 DEF f

\* For any number of operations of any number of scopes and any limits, no more
\* requests are issued than a scope was given.  (BudgetLedger.reserve)
THEOREM RequestsBudgeted == Spec => []RequestsWithinBudget
<1>1. Inv /\ BudgetInv => RequestsWithinBudget
  <2> SUFFICES ASSUME Inv, BudgetInv, NEW sc \in Scope
               PROVE  Fits(sc, "requests", TotalUsed(Of(sc), "requests"))
    BY DEF RequestsWithinBudget
  <2>1. PICK paid \in [Op -> [Dimension -> Nat]] : Balanced(paid)
    BY DEF BudgetInv
  <2>2. Here /\ "requests" \in Dimension /\ \A o \in Op : Owes(run[o])
    BY DEF Inv, Dimension, BudgetInv
  <2>3. Total(Part(paid, "requests"), Of(sc)) = TotalUsed(Of(sc), "requests")
    BY <2>1, <2>2, PaidAndUsed
  <2>4. /\ ledger[sc]["requests"] = Total(Part(paid, "requests"), Of(sc))
        /\ Fits(sc, "requests", ledger[sc]["requests"])
    BY <2>1, <2>2 DEF Balanced
  <2>5. QED
    BY <2>3, <2>4
<1>2. QED
  BY <1>1, BudgetHolds, PTL

\* However the operations of a scope interleave, what the succeeded ones consumed
\* together is within every limit of the scope.  (BudgetLedger.charge, _halt_budget)
THEOREM SuccessesBudgeted == Spec => []SuccessesFitBudget
<1>1. Inv /\ BudgetInv => SuccessesFitBudget
  <2> SUFFICES ASSUME Inv, BudgetInv, NEW sc \in Scope, NEW d \in Dimension
               PROVE  Fits(sc, d, TotalUsed(Succeeded(sc), d))
    BY DEF SuccessesFitBudget
  <2>1. PICK paid \in [Op -> [Dimension -> Nat]] : Balanced(paid)
    BY DEF BudgetInv
  <2>2. Here /\ \A o \in Op : Owes(run[o])
    BY DEF Inv, BudgetInv
  <2>3. /\ TotalUsed(Succeeded(sc), d) \in Nat
        /\ Total(Part(paid, d), Unhalted(sc)) \in Nat
        /\ TotalUsed(Succeeded(sc), d) <= Total(Part(paid, d), Unhalted(sc))
    BY <2>1, <2>2, PaidAndUsed
  <2>4. Fits(sc, d, Total(Part(paid, d), Unhalted(sc)))
    BY <2>1 DEF Balanced
  <2>5. Limit[sc][d] \in SUBSET Nat
    BY ServiceAssumption
  <2>6. QED
    BY <2>3, <2>4, <2>5 DEF Fits
<1>2. QED
  BY <1>1, BudgetHolds, PTL

\* A ledger holds all that the succeeded operations of its scope consumed, and
\* no more than its operations consumed.  (_charge, _charge_observation)
THEOREM LedgerHoldsUse == Spec => []LedgerMatchesUse
<1>1. Inv /\ BudgetInv => LedgerMatchesUse
  <2> SUFFICES ASSUME Inv, BudgetInv, NEW sc \in Scope, NEW d \in Dimension
               PROVE  /\ ledger[sc][d] >= TotalUsed(Succeeded(sc), d)
                      /\ ledger[sc][d] <= TotalUsed(Of(sc), d)
    BY DEF LedgerMatchesUse
  <2>1. PICK paid \in [Op -> [Dimension -> Nat]] : Balanced(paid)
    BY DEF BudgetInv
  <2>2. Here /\ \A o \in Op : Owes(run[o])
    BY DEF Inv, BudgetInv
  <2>3. /\ Total(Part(paid, d), Of(sc)) \in Nat
        /\ TotalUsed(Of(sc), d) \in Nat /\ TotalUsed(Succeeded(sc), d) \in Nat
        /\ Total(Part(paid, d), Unhalted(sc)) \in Nat
        /\ Total(Part(paid, d), Of(sc)) <= TotalUsed(Of(sc), d)
        /\ TotalUsed(Succeeded(sc), d) <= Total(Part(paid, d), Unhalted(sc))
        /\ Total(Part(paid, d), Unhalted(sc)) <= Total(Part(paid, d), Of(sc))
    BY <2>1, <2>2, PaidAndUsed
  <2>4. ledger[sc][d] = Total(Part(paid, d), Of(sc))
    BY <2>1 DEF Balanced
  <2>5. QED
    BY <2>3, <2>4
<1>2. QED
  BY <1>1, BudgetHolds, PTL
=============================================================================
