------------------------- MODULE SessionFlowProofs -------------------------
(***************************************************************************)
(* Proofs about SessionFlow, for any number of invocations, sessions and   *)
(* flows and without its bounds.                                           *)
(***************************************************************************)
EXTENDS SessionFlow, SessionRecordProofs

-----------------------------------------------------------------------------
(* Types *)

\* What is known of an invocation by itself, from the stage it is at.
InSession ==
  {"bumping", "provisioned", "attaching", "leasing", "connecting",
   "recording", "observing", "leaving", "releasing"}
Early == {"away", "matching", "creating"}

Fits(i) ==
  /\ i.stage \in InSession \/ (i.stage = "sweeping" /\ i.verb = "page") => i.sid \in Sid
  /\ i.stage \in Early \/ (i.stage = "sweeping" /\ i.verb # "page") => i.sid = NoSid
  /\ i.stage \in {"matching", "creating"} \/ (i.stage = "sweeping" /\ i.verb = "create")
       => i.ttl >= MinTTL
  /\ i.stage = "matching" => i.token \in Flow
  /\ i.verb = "create" => i.stage \in {"sweeping", "creating", "leasing", "releasing"}
  /\ i.verb = "clean" => i.stage = "sweeping"
  /\ i.verb # "page" => i.token = NoToken /\ i.before = {}
  /\ i.stage \in Early => i.before = {}
  /\ i.stage = "bumping" => i.token \in Flow
  /\ i.stage = "releasing" => i.verb = "create"

Settled == {i \in Invocation : Fits(i)}

Typed == TypeOK /\ inv \in [Proc -> Settled]

LEMMA AwayType == Away \in Settled
  BY FlowAssumption
  DEF Away, Settled, Fits, Invocation, Verbs, Stages, InSession, Early, Token

LEMMA SettledFacts ==
  ASSUME Typed, NEW p \in Proc
  PROVE  /\ inv[p] \in Settled /\ inv[p] \in Invocation /\ Fits(inv[p])
         /\ inv[p].now \in Nat /\ inv[p].since \in Nat /\ inv[p].ttl \in Nat
         /\ \A c \in inv[p].cands : c.sid \in Sid
         /\ inv[p].token \in Token /\ inv[p].todo \subseteq Sid
         /\ inv[p].host \in SUBSET Host
         /\ inv[p].stage \in InSession => inv[p].sid \in Sid
         /\ inv[p].verb \in Verbs
         /\ inv[p].stage \in InSession \ {"leasing", "releasing"} => inv[p].verb = "page"
<1>1. inv[p] \in Settled
  BY DEF Typed
<1>2. inv[p] \in Invocation /\ Fits(inv[p])
  BY <1>1 DEF Settled
<1>3. inv[p].stage \in InSession \ {"leasing", "releasing"} => inv[p].verb = "page"
  BY <1>2 DEF Fits, InSession, Invocation, Verbs
<1>4. QED
  BY <1>1, <1>2, <1>3 DEF Fits, Invocation, Candidate

LEMMA EndsType ==
  ASSUME Typed, NEW p \in Proc, Ends(p)
  PROVE  inv' \in [Proc -> Settled]
  BY AwayType DEF Typed, Ends

LEMMA GoesType ==
  ASSUME Typed, NEW p \in Proc, inv[p].stage \in InSession \ {"leasing", "releasing"},
         NEW stage \in InSession \ {"bumping", "releasing"}, Goes(p, stage)
  PROVE  inv' \in [Proc -> Settled]
<1> DEFINE i == [inv[p] EXCEPT !.stage = stage]
<1>1. inv[p] \in Invocation /\ inv[p].sid \in Sid /\ inv[p].verb = "page"
  BY SettledFacts
<1>2. i \in Invocation
  BY <1>1 DEF Invocation, Stages, InSession
<1>3. Fits(i)
  BY <1>1 DEF Fits, Invocation, InSession, Early
<1>4. QED
  BY <1>2, <1>3 DEF Typed, Goes, Settled

LEMMA FinishesType ==
  ASSUME Typed, NEW p \in Proc, inv[p].stage \in InSession, Finishes(p)
  PROVE  inv' \in [Proc -> Settled]
<1>1. inv[p].sid \in Sid /\ inv[p].token \in Token
  BY SettledFacts
<1> DEFINE i == [Away EXCEPT !.stage = "leaving", !.sid = inv[p].sid, !.token = inv[p].token]
<1>2. i \in Invocation
  BY <1>1 DEF Away, Invocation, Verbs, Stages
<1>3. Fits(i)
  BY <1>1 DEF Away, Fits, InSession, Early
<1>4. QED
  BY <1>2, <1>3 DEF Typed, Finishes, Settled

LEMMA SweptType ==
  ASSUME NEW r \in Record, NEW now \in Nat
  PROVE  Swept(r, now) \in Record
  BY EndedType, UnleasedType, NoRecordType DEF Swept, EndedStatus

LEMMA WriteType ==
  ASSUME Typed, NEW s \in Sid, NEW r \in Record, rec' = [rec EXCEPT ![s] = r]
  PROVE  rec' \in [Sid -> Record]
  BY DEF Typed, TypeOK

LEMMA TypeInit == Init => Typed
<1>1. Away \in Settled /\ Away \in Invocation
  BY AwayType DEF Settled
<1>2. QED
  BY <1>1, NoRecordType DEF Init, Typed, TypeOK

\* The step keeps the types if every variable it changes does.
LEMMA StepType ==
  ASSUME inv' \in [Proc -> Settled], clock' \in Nat, rec' \in [Sid -> Record],
         owner' \in [Sid -> Token \cup {Unborn}], stamped' \in [Sid -> SUBSET Nat],
         lost' \in [Sid -> {"no", "killed", "interrupted"}]
  PROVE  Typed'
  BY DEF Typed, TypeOK, Settled

\* What an invocation may be started as.
LEMMA OpensType ==
  ASSUME Typed, NEW p \in Proc, Opens(p)
  PROVE  Typed'
<1>1. \A h \in Host : OpenAnonymously(p, {h}) => inv' \in [Proc -> Settled]
  <2>1. TAKE h \in Host
  <2>2. HAVE OpenAnonymously(p, {h})
  <2>3. [Away EXCEPT !.stage = "creating", !.token = Anonymous, !.host = {h},
                     !.now = clock, !.ttl = TTL] \in Settled
    BY AwayType, FlowAssumption
    DEF Away, Typed, TypeOK, Settled, Fits, Invocation, Verbs, InSession, Early, Stages, Token
  <2>4. QED
    BY <2>2, <2>3 DEF OpenAnonymously, Typed, TypeOK
<1>2. \A h \in Host, f \in Flow : OpenInFlow(p, f, {h}) => inv' \in [Proc -> Settled]
  <2>1. TAKE h \in Host, f \in Flow
  <2>2. HAVE OpenInFlow(p, f, {h})
  <2>3. PICK recent \in MostRecent(Mine(f)) :
          inv' = [inv EXCEPT ![p] =
            [Away EXCEPT !.stage = "matching", !.token = f, !.host = {h}, !.now = clock, !.ttl = TTL,
                         !.cands = {[sid |-> s, used |-> rec[s].last_used_at] :
                                      s \in {t \in recent : Continues(rec[t], clock, {h})}}]]
    BY <2>2 DEF OpenInFlow
  <2>4. recent \subseteq Sid
    BY DEF MostRecent, Mine, Stored
  <2>5. {[sid |-> s, used |-> rec[s].last_used_at] :
            s \in {t \in recent : Continues(rec[t], clock, {h})}} \in SUBSET Candidate
    BY <2>4 DEF Candidate, Typed, TypeOK, Record
  <2>6. [Away EXCEPT !.stage = "matching", !.token = f, !.host = {h}, !.now = clock, !.ttl = TTL,
                     !.cands = {[sid |-> s, used |-> rec[s].last_used_at] :
                                  s \in {t \in recent : Continues(rec[t], clock, {h})}}]
          \in Settled
    BY <2>5, AwayType, FlowAssumption
    DEF Away, Typed, TypeOK, Settled, Fits, Invocation, Verbs, InSession, Early, Stages, Token
  <2>7. QED
    BY <2>3, <2>6 DEF Typed, TypeOK
<1>3. \A h \in Host, s \in Sid : OpenGiven(p, s, {h}) => inv' \in [Proc -> Settled]
  <2>1. TAKE h \in Host, s \in Sid
  <2>2. [Away EXCEPT !.stage = "attaching", !.host = {h}, !.sid = s] \in Settled
    BY AwayType DEF Away, Settled, Fits, Invocation, InSession, Early, Stages
  <2>3. QED
    BY <2>2 DEF OpenGiven, Typed, TypeOK
<1>4. \A ttl \in TTLs : CreateSession(p, ttl) => inv' \in [Proc -> Settled]
  <2>1. TAKE ttl \in TTLs
  <2>2. [Away EXCEPT !.verb = "create", !.stage = "sweeping", !.now = clock, !.todo = Stored,
                     !.ttl = ttl] \in Settled
    BY AwayType, FlowAssumption
    DEF Typed, TypeOK, Settled, Fits, Invocation, InSession, Early, Stages, Verbs, Stored, Away
  <2>3. QED
    BY <2>2 DEF CreateSession, Typed, TypeOK
<1>5. Clean(p) => inv' \in [Proc -> Settled]
  <2>1. [Away EXCEPT !.verb = "clean", !.stage = "sweeping", !.now = clock, !.todo = Stored]
          \in Settled
    BY AwayType
    DEF Typed, TypeOK, Settled, Fits, Invocation, InSession, Early, Stages, Verbs, Stored, Away
  <2>2. QED
    BY <2>1 DEF Clean, Typed, TypeOK
<1>6. UNCHANGED <<clock, rec, owner, stamped, lost>>
  BY DEF Opens, OpenAnonymously, OpenInFlow, OpenGiven, CreateSession, Clean
<1>7. inv' \in [Proc -> Settled]
  BY <1>1, <1>2, <1>3, <1>4, <1>5 DEF Opens
<1>8. QED
  BY <1>6, <1>7, StepType DEF Typed, TypeOK

LEMMA ProvisionsType ==
  ASSUME Typed, NEW p \in Proc, Provisions(p)
  PROVE  Typed'
<1> USE SettledFacts
<1>1. ASSUME NEW c \in inv[p].cands, Continue(p, c)
      PROVE  Typed'
  <2>1. c.sid \in Sid
    OBVIOUS
  <2>2. Leased(rec[c.sid], Cli, inv[p].now) \in Record
    BY <2>1, LeasedType, FlowAssumption DEF Typed, TypeOK
  <2>3. rec' \in [Sid -> Record]
    BY <1>1, <2>1, <2>2, WriteType DEF Continue, WritesLease
  <2> DEFINE i == [inv[p] EXCEPT !.stage = "bumping", !.sid = c.sid, !.since = inv[p].now,
                                 !.cands = {}]
  <2>4. i \in Invocation
    BY <2>1 DEF Invocation, Stages
  <2>5. Fits(i)
    BY <1>1, <2>1 DEF Continue, TriesNext, At, Fits, Invocation, InSession, Early
  <2>6. inv' \in [Proc -> Settled]
    BY <1>1, <2>4, <2>5 DEF Continue, Typed, Settled
  <2>7. QED
    BY <1>1, <2>3, <2>6, StepType DEF Continue, Typed, TypeOK
<1>2. ASSUME NEW c \in inv[p].cands, PassOver(p, c)
      PROVE  Typed'
  <2>1. [inv[p] EXCEPT !.cands = @ \ {c}] \in Settled
    BY DEF Settled, Fits, Invocation
  <2>2. QED
    BY <1>2, <2>1, StepType DEF PassOver, Typed, TypeOK
<1>3. ASSUME NothingToContinue(p)
      PROVE  Typed'
  <2> DEFINE i == [inv[p] EXCEPT !.stage = "creating", !.now = clock]
  <2>1. i \in Invocation
    BY DEF Typed, TypeOK, Invocation, Stages
  <2>2. Fits(i)
    BY <1>3 DEF NothingToContinue, At, Fits, InSession, Early, Invocation
  <2>3. inv' \in [Proc -> Settled]
    BY <1>3, <2>1, <2>2 DEF NothingToContinue, Typed, Settled
  <2>4. QED
    BY <1>3, <2>3, StepType DEF NothingToContinue, Typed, TypeOK
<1>4. ASSUME Bump(p)
      PROVE  Typed'
  <2>1. inv[p].sid \in Sid
    BY <1>4 DEF Bump, At, Settled, InSession
  <2>2. [rec[inv[p].sid] EXCEPT !.generation = rec[inv[p].sid].generation + 1] \in Record
    BY <2>1, BumpType DEF Typed, TypeOK
  <2>3. rec' \in [Sid -> Record]
    BY <1>4, <2>1, <2>2 DEF Bump, Typed, TypeOK
  <2> DEFINE i == [inv[p] EXCEPT !.stage = "provisioned", !.now = 0,
                                 !.before = stamped[inv[p].sid]]
  <2>4. i \in Invocation
    BY <2>1 DEF Typed, TypeOK, Invocation, Stages
  <2>5. Fits(i)
    <3>1. inv[p].stage = "bumping"
      BY <1>4 DEF Bump, At
    <3>2. inv[p].verb = "page"
      BY <3>1 DEF InSession
    <3>3. i.verb = "page" /\ i.stage = "provisioned" /\ i.sid \in Sid
      BY <2>1, <3>2 DEF Invocation
    <3>4. QED
      BY <3>3 DEF Fits, Early
  <2>6. inv' \in [Proc -> Settled]
    BY <1>4, <2>4, <2>5 DEF Bump, Typed, Settled
  <2>7. QED
    BY <1>4, <2>3, <2>6, StepType DEF Bump, Typed, TypeOK
<1>5. ASSUME BumpFails(p) \/ CreateFails(p)
      PROVE  Typed'
  BY <1>5, StepType, AwayType DEF BumpFails, CreateFails, Ends, Typed, TypeOK
<1>6. ASSUME NEW s \in Sid, Create(p, s)
      PROVE  Typed'
  <2>1. rec' \in [Sid -> Record]
    BY <1>6, NewRecordType, WriteType DEF Create
  <2> DEFINE next == IF inv[p].verb = "create" THEN "leasing" ELSE "provisioned"
             i == [inv[p] EXCEPT !.sid = s, !.since = inv[p].now, !.ttl = 0, !.stage = next]
  <2>0. inv[p] \in Invocation /\ inv[p].now \in Nat /\ next \in Stages
    BY DEF Stages
  <2>2. i \in Invocation
    BY <2>0 DEF Invocation
  <2>3. Fits(i)
    BY <1>6 DEF Create, At, Fits, InSession, Early, Invocation
  <2>4. inv' \in [Proc -> Settled]
    BY <1>6, <2>2, <2>3 DEF Create, Typed, Settled
  <2>5. owner' \in [Sid -> Token \cup {Unborn}]
    BY <1>6 DEF Create, Typed, TypeOK
  <2>6. QED
    BY <1>6, <2>1, <2>4, <2>5, StepType DEF Create, Typed, TypeOK
<1>7. ASSUME StartSweep(p)
      PROVE  Typed'
  <2> DEFINE i == [inv[p] EXCEPT !.stage = "sweeping", !.now = clock, !.todo = Stored]
  <2>1. i \in Invocation
    BY DEF Typed, TypeOK, Invocation, Stages, Stored
  <2>2. Fits(i)
    BY <1>7 DEF StartSweep, At, Fits, InSession, Early, Invocation
  <2>3. inv' \in [Proc -> Settled]
    BY <1>7, <2>1, <2>2 DEF StartSweep, Typed, Settled
  <2>4. QED
    BY <1>7, <2>3, StepType DEF StartSweep, Typed, TypeOK
<1>8. ASSUME NEW s \in Sid, SweepOne(p, s)
      PROVE  Typed'
  <2>1. Swept(rec[s], inv[p].now) \in Record
    BY SweptType DEF Typed, TypeOK
  <2>2. rec' \in [Sid -> Record]
    BY <1>8, <2>1, WriteType DEF SweepOne
  <2>3. [inv[p] EXCEPT !.todo = @ \ {s}] \in Settled
    BY DEF Settled, Fits, Invocation
  <2>4. QED
    BY <1>8, <2>2, <2>3, StepType DEF SweepOne, Typed, TypeOK
<1>9. ASSUME EndSweep(p)
      PROVE  Typed'
  <2>1. CASE inv[p].verb = "clean"
    BY <1>9, <2>1, StepType, AwayType DEF EndSweep, Ends, Typed, TypeOK
  <2>2. CASE inv[p].verb = "page"
    <3> DEFINE i == [inv[p] EXCEPT !.stage = "attaching", !.now = 0, !.todo = {}]
    <3>1. i \in Invocation
      BY DEF Typed, TypeOK, Invocation, Stages
    <3>2. Fits(i)
      BY <1>9, <2>2 DEF EndSweep, At, Fits, InSession, Early, Invocation
    <3>3. inv' \in [Proc -> Settled]
      BY <1>9, <2>2, <3>1, <3>2 DEF EndSweep, Typed, Settled
    <3>4. QED
      BY <1>9, <3>3, StepType DEF EndSweep, Typed, TypeOK
  <2>3. CASE inv[p].verb = "create"
    <3> DEFINE i == [inv[p] EXCEPT !.stage = "creating", !.now = clock, !.todo = {}]
    <3>1. i \in Invocation
      BY DEF Typed, TypeOK, Invocation, Stages
    <3>2. Fits(i)
      BY <1>9, <2>3 DEF EndSweep, At, Fits, InSession, Early, Invocation
    <3>3. inv' \in [Proc -> Settled]
      BY <1>9, <2>3, <3>1, <3>2 DEF EndSweep, Typed, Settled
    <3>4. QED
      BY <1>9, <3>3, StepType DEF EndSweep, Typed, TypeOK
  <2>4. QED
    BY <2>1, <2>2, <2>3, SettledFacts DEF Verbs
<1>10. QED
  BY <1>1, <1>2, <1>3, <1>4, <1>5, <1>6, <1>7, <1>8, <1>9 DEF Provisions

LEMMA OperatesType ==
  ASSUME Typed, NEW p \in Proc, Operates(p)
  PROVE  Typed'
<1> USE SettledFacts
<1>1. ASSUME Attach(p)
      PROVE  Typed'
  <2> DEFINE i == [inv[p] EXCEPT !.stage = "leasing", !.now = clock]
  <2>1. inv[p].stage = "attaching" /\ inv[p].verb = "page" /\ inv[p].sid \in Sid
    BY <1>1 DEF Attach, At, InSession
  <2>2. i \in Invocation
    BY DEF Typed, TypeOK, Invocation, Stages
  <2>3. Fits(i)
    BY <2>1 DEF Fits, Invocation, InSession, Early
  <2>4. inv' \in [Proc -> Settled]
    BY <1>1, <2>2, <2>3 DEF Attach, Typed, Settled
  <2>5. QED
    BY <1>1, <2>4, StepType DEF Attach, Typed, TypeOK
<1>2. ASSUME TakeLease(p)
      PROVE  Typed'
  <2> DEFINE next == IF inv[p].verb = "create" THEN "releasing" ELSE "connecting"
             i == [inv[p] EXCEPT !.since = inv[p].now, !.stage = next]
  <2>1. inv[p].stage = "leasing" /\ inv[p].sid \in Sid
    BY <1>2 DEF TakeLease, At, InSession
  <2>2. next \in Stages
    BY DEF Stages
  <2>3. i \in Invocation
    BY <2>2 DEF Invocation
  <2>4. Fits(i)
    BY <2>1 DEF Fits, Invocation, InSession, Early
  <2>5. inv' \in [Proc -> Settled]
    BY <1>2, <2>3, <2>4 DEF TakeLease, Typed, Settled
  <2>6. Leased(rec[inv[p].sid], Cli, inv[p].now) \in Record
    BY <2>1, LeasedType, FlowAssumption DEF Typed, TypeOK
  <2>7. rec' \in [Sid -> Record]
    BY <1>2, <2>1, <2>6, WriteType DEF TakeLease, WritesLease
  <2>8. QED
    BY <1>2, <2>5, <2>7, StepType DEF TakeLease, Typed, TypeOK
<1>3. ASSUME LeaseFails(p)
      PROVE  Typed'
  <2>1. inv' \in [Proc -> Settled]
    BY <1>3, EndsType, FinishesType DEF LeaseFails, At, InSession
  <2>2. QED
    BY <1>3, <2>1, StepType DEF LeaseFails, Typed, TypeOK
<1>4. ASSUME Connect(p)
      PROVE  Typed'
  <2>1. inv' \in [Proc -> Settled]
    BY <1>4, GoesType DEF Connect, At, InSession
  <2>2. QED
    BY <1>4, <2>1, StepType DEF Connect, Typed, TypeOK
<1>5. ASSUME Halt(p) \/ HaltAfterNavigation(p)
      PROVE  Typed'
  <2>1. inv' \in [Proc -> Settled]
    BY <1>5, FinishesType DEF Halt, HaltAfterNavigation, At, InSession
  <2>2. QED
    BY <1>5, <2>1, StepType DEF Halt, HaltAfterNavigation, Typed, TypeOK
<1>6. ASSUME RecordHosts(p)
      PROVE  Typed'
  <2>1. inv[p].sid \in Sid /\ inv[p].host \in SUBSET Host
    BY <1>6 DEF RecordHosts, At, InSession
  <2>2. inv' \in [Proc -> Settled]
    BY <1>6, GoesType DEF RecordHosts, At, InSession
  <2>3. \A m \in Merges(rec[inv[p].sid], inv[p].host) :
          WithHosts(rec[inv[p].sid], m, inv[p].host) \in Record
    BY <2>1, WithHostsType DEF Typed, TypeOK
  <2>4. rec' \in [Sid -> Record]
    BY <1>6, <2>1, <2>3 DEF RecordHosts, Typed, TypeOK
  <2>5. QED
    BY <1>6, <2>2, <2>4, StepType DEF RecordHosts, Typed, TypeOK
<1>7. ASSUME Observe(p)
      PROVE  Typed'
  <2>1. inv[p].sid \in Sid
    BY <1>7 DEF Observe, At, InSession
  <2>2. inv' \in [Proc -> Settled]
    BY <1>7, FinishesType DEF Observe, At, InSession
  <2>3. rec[inv[p].sid].generation \in Nat
    BY <2>1 DEF Typed, TypeOK, Record
  <2>4. stamped' \in [Sid -> SUBSET Nat]
    BY <1>7, <2>1, <2>3 DEF Observe, Typed, TypeOK
  <2>5. QED
    BY <1>7, <2>2, <2>4, StepType DEF Observe, Typed, TypeOK
<1>8. ASSUME Leave(p) \/ Release(p)
      PROVE  Typed'
  <2>1. inv[p].sid \in Sid
    BY <1>8 DEF Leave, Release, At, InSession
  <2>2. inv' \in [Proc -> Settled]
    BY <1>8, EndsType DEF Leave, Release
  <2>3. Ended(rec[inv[p].sid], "closed") \in Record /\ Unleased(rec[inv[p].sid]) \in Record
    BY <2>1, EndedType, UnleasedType DEF Typed, TypeOK, EndedStatus
  <2>4. rec' \in [Sid -> Record]
    BY <1>8, <2>1, <2>3 DEF Leave, Release, Typed, TypeOK
  <2>5. QED
    BY <1>8, <2>2, <2>4, StepType DEF Leave, Release, Typed, TypeOK
<1>9. ASSUME Killed(p) \/ Interrupted(p)
      PROVE  Typed'
  <2>1. inv' \in [Proc -> Settled]
    BY <1>9, EndsType, FinishesType DEF Killed, Interrupted, InSession
  <2>2. lost' \in [Sid -> {"no", "killed", "interrupted"}]
    BY <1>9 DEF Killed, Interrupted, LosesSession, Typed, TypeOK
  <2>3. QED
    BY <1>9, <2>1, <2>2, StepType DEF Killed, Interrupted, Typed, TypeOK
<1>10. QED
  BY <1>1, <1>2, <1>3, <1>4, <1>5, <1>6, <1>7, <1>8, <1>9 DEF Operates

LEMMA TypeStep == Typed /\ [Next]_vars => Typed'
<1> SUFFICES ASSUME Typed, [Next]_vars
             PROVE  Typed'
  OBVIOUS
<1>1. CASE \E p \in Proc : Opens(p) \/ Provisions(p) \/ Operates(p)
  BY <1>1, OpensType, ProvisionsType, OperatesType
<1>2. ASSUME NEW s \in Sid, CloseSession(s)
      PROVE  Typed'
  <2>1. Ended(rec[s], "closed") \in Record
    BY EndedType DEF Typed, TypeOK, EndedStatus
  <2>2. rec' \in [Sid -> Record]
    BY <1>2, <2>1, WriteType DEF CloseSession
  <2>3. QED
    BY <1>2, <2>2, StepType DEF CloseSession, Typed, TypeOK
<1>3. CASE Tick
  BY <1>3, StepType DEF Tick, Typed, TypeOK
<1>4. CASE UNCHANGED vars
  BY <1>4, StepType DEF vars, Typed, TypeOK
<1>5. QED
  BY <1>1, <1>2, <1>3, <1>4 DEF Next

\* The variables of the flow keep their types, for any number of invocations.
THEOREM FlowTypeCorrect == Spec => []TypeOK
<1>1. Typed => TypeOK
  BY DEF Typed
<1>2. QED
  BY TypeInit, TypeStep, <1>1, PTL DEF Spec

-----------------------------------------------------------------------------
(* A sweep ends no session in use *)

NowPast == \A p \in Proc : inv[p].now <= clock

\* A session anything was made of, or that somebody works in, was minted.
Born ==
  /\ \A s \in Sid : rec[s].status = "active" => owner[s] # Unborn
  /\ \A p \in Proc : inv[p].sid # NoSid => owner[inv[p].sid] # Unborn

HasLife(r) == r.expires_at >= r.last_used_at + MinTTL
Lively == \A s \in Sid : rec[s].status = "active" => HasLife(rec[s])

UsedAlive ==
  \A p \in Proc, s \in Sid :
    Uses(p, s) /\ rec[s].status = "active" => rec[s].expires_at >= inv[p].since + MinTTL

InUseInv == Typed /\ NowPast /\ Born /\ Lively /\ UsedAlive

\* What a record that stays active may become.
Renews(r, next) ==
  next.status = "active" =>
    r.status = "active" /\ next.expires_at >= r.expires_at /\ HasLife(next)

LEMMA LeasedRenews ==
  ASSUME NEW r \in Record, NEW now \in Nat, r.status = "active", HasLife(r)
  PROVE  /\ Renews(r, Leased(r, Cli, now)) /\ Leased(r, Cli, now).status = "active"
         /\ Leased(r, Cli, now).expires_at >= now + MinTTL
<1>1. r.expires_at \in Nat /\ r.last_used_at \in Nat /\ MinTTL \in Nat
  BY FlowAssumption DEF Record
<1>2. /\ SlidExpiry(r, now) \in Nat
      /\ SlidExpiry(r, now) >= r.expires_at /\ SlidExpiry(r, now) >= now + MinTTL
  BY <1>1 DEF SlidExpiry, HasLife
<1>3. /\ Leased(r, Cli, now).status = r.status
      /\ Leased(r, Cli, now).expires_at = SlidExpiry(r, now)
      /\ Leased(r, Cli, now).last_used_at = now
  BY DEF Leased, Record
<1>4. QED
  BY <1>1, <1>2, <1>3 DEF Renews, HasLife

LEMMA OthersRenew ==
  ASSUME NEW r \in Record, r.status = "active" => HasLife(r)
  PROVE  /\ Renews(r, r) /\ Renews(r, Unleased(r)) /\ Renews(r, Ended(r, "closed"))
         /\ Renews(r, [r EXCEPT !.generation = r.generation + 1])
         /\ \A now \in Nat : Renews(r, Swept(r, now))
         /\ \A m, hs \in SUBSET Host : Renews(r, WithHosts(r, m, hs))
<1>1. r.expires_at \in Nat
  BY DEF Record
<1>2. Renews(r, r)
  BY <1>1 DEF Renews
<1>3. Renews(r, Unleased(r))
  BY <1>1 DEF Renews, Unleased, Record, HasLife
<1>4. \A st \in EndedStatus : Renews(r, Ended(r, st))
  BY DEF Renews, Ended, Record, EndedStatus
<1>5. Renews(r, [r EXCEPT !.generation = r.generation + 1])
  BY <1>1 DEF Renews, Record, HasLife
<1>6. Renews(r, NoRecord)
  BY DEF Renews, NoRecord
<1>7. \A m, hs \in SUBSET Host : Renews(r, WithHosts(r, m, hs))
  BY <1>1 DEF Renews, WithHosts, Record, HasLife
<1>8. QED
  BY <1>2, <1>3, <1>4, <1>5, <1>6, <1>7 DEF Swept, EndedStatus

\* A record goes on living, or is made for an id nobody had.
LivesOn(s) ==
  \/ Renews(rec[s], rec'[s]) /\ owner'[s] = owner[s]
  \/ owner[s] = Unborn /\ owner'[s] # Unborn /\ HasLife(rec'[s])

\* One record is written, and no owner.
LEMMA WriteLives ==
  ASSUME InUseInv, NEW s \in Sid, NEW r, rec' = [rec EXCEPT ![s] = r], Renews(rec[s], r),
         owner' = owner
  PROVE  \A t \in Sid : LivesOn(t)
<1>1. TAKE t \in Sid
<1>2. rec[t] \in Record /\ (rec[t].status = "active" => HasLife(rec[t]))
  BY DEF InUseInv, Lively, Typed, TypeOK
<1>3. Renews(rec[t], rec'[t])
  BY <1>2, OthersRenew DEF InUseInv, Typed, TypeOK
<1>4. QED
  BY <1>3 DEF LivesOn

LEMMA NothingWritten ==
  ASSUME InUseInv, rec' = rec, owner' = owner
  PROVE  \A t \in Sid : LivesOn(t)
<1>1. TAKE t \in Sid
<1>2. rec[t] \in Record /\ (rec[t].status = "active" => HasLife(rec[t]))
  BY DEF InUseInv, Lively, Typed, TypeOK
<1>3. QED
  BY <1>2, OthersRenew DEF LivesOn

\* What a record looks like to the lemmas above.
LEMMA RecordFacts ==
  ASSUME InUseInv, NEW s \in Sid
  PROVE  rec[s] \in Record /\ (rec[s].status = "active" => HasLife(rec[s]))
  BY DEF InUseInv, Lively, Typed, TypeOK

LEMMA RecordsLive == InUseInv /\ [Next]_vars => \A s \in Sid : LivesOn(s)
<1> SUFFICES ASSUME InUseInv, [Next]_vars
             PROVE  \A s \in Sid : LivesOn(s)
  OBVIOUS
<1>0. Typed
  BY DEF InUseInv
<1>1. ASSUME NEW p \in Proc, Opens(p)
      PROVE  \A s \in Sid : LivesOn(s)
  BY <1>1, NothingWritten
  DEF Opens, OpenAnonymously, OpenInFlow, OpenGiven, CreateSession, Clean
<1>2. ASSUME NEW p \in Proc, Provisions(p)
      PROVE  \A s \in Sid : LivesOn(s)
  <2>1. ASSUME NEW c \in inv[p].cands, Continue(p, c)
        PROVE  \A s \in Sid : LivesOn(s)
    <3>1. c.sid \in Sid /\ inv[p].now \in Nat
      BY <1>0, SettledFacts
    <3>2. Renews(rec[c.sid], Leased(rec[c.sid], Cli, inv[p].now))
      BY <2>1, <3>1, RecordFacts, LeasedRenews DEF Continue, Grants
    <3>3. QED
      BY <2>1, <3>1, <3>2, WriteLives DEF Continue, WritesLease
  <2>2. ASSUME Bump(p)
        PROVE  \A s \in Sid : LivesOn(s)
    <3>1. inv[p].sid \in Sid
      BY <1>0, <2>2, SettledFacts DEF Bump, At, InSession
    <3> DEFINE r == [rec[inv[p].sid] EXCEPT !.generation = rec[inv[p].sid].generation + 1]
    <3>2. Renews(rec[inv[p].sid], r)
      BY <3>1, RecordFacts, OthersRenew
    <3>3. rec' = [rec EXCEPT ![inv[p].sid] = r]
      BY <2>2 DEF Bump
    <3>4. QED
      BY <2>2, <3>1, <3>2, <3>3, WriteLives DEF Bump
  <2>3. ASSUME NEW s \in Sid, Create(p, s)
        PROVE  \A t \in Sid : LivesOn(t)
    <3>1. inv[p].ttl >= MinTTL /\ inv[p].now \in Nat /\ inv[p].ttl \in Nat
          /\ inv[p].token \in Token /\ MinTTL \in Nat
      BY <1>0, <2>3, SettledFacts, FlowAssumption DEF Create, At, Fits
    <3>2. HasLife(NewRecord(inv[p].now, inv[p].ttl, TRUE, NoPid))
      BY <3>1 DEF HasLife, NewRecord
    <3>3. inv[p].token # Unborn
      BY <3>1, FlowAssumption DEF Token
    <3>4. TAKE t \in Sid
    <3>5. CASE t = s
      BY <1>0, <2>3, <3>2, <3>3, <3>5 DEF Create, LivesOn, Typed, TypeOK
    <3>6. CASE t # s
      BY <1>0, <2>3, <3>6, RecordFacts, OthersRenew DEF Create, LivesOn, Typed, TypeOK
    <3>7. QED
      BY <3>5, <3>6
  <2>4. ASSUME NEW s \in Sid, SweepOne(p, s)
        PROVE  \A t \in Sid : LivesOn(t)
    <3>1. Renews(rec[s], Swept(rec[s], inv[p].now))
      BY <1>0, SettledFacts, RecordFacts, OthersRenew
    <3>2. QED
      BY <2>4, <3>1, WriteLives DEF SweepOne
  <2>5. QED
    BY <1>2, <2>1, <2>2, <2>3, <2>4, NothingWritten
    DEF Provisions, PassOver, NothingToContinue, BumpFails, CreateFails, StartSweep, EndSweep
<1>3. ASSUME NEW p \in Proc, Operates(p)
      PROVE  \A s \in Sid : LivesOn(s)
  <2>1. ASSUME TakeLease(p)
        PROVE  \A s \in Sid : LivesOn(s)
    <3>1. inv[p].sid \in Sid /\ inv[p].now \in Nat
      BY <1>0, <2>1, SettledFacts DEF TakeLease, At, InSession
    <3>2. Renews(rec[inv[p].sid], Leased(rec[inv[p].sid], Cli, inv[p].now))
      BY <2>1, <3>1, RecordFacts, LeasedRenews DEF TakeLease, Grants
    <3>3. QED
      BY <2>1, <3>1, <3>2, WriteLives DEF TakeLease, WritesLease
  <2>2. ASSUME RecordHosts(p)
        PROVE  \A s \in Sid : LivesOn(s)
    <3>1. inv[p].sid \in Sid /\ inv[p].host \in SUBSET Host
      BY <1>0, <2>2, SettledFacts DEF RecordHosts, At, InSession
    <3>2. ASSUME NEW m \in Merges(rec[inv[p].sid], inv[p].host),
                 rec' = [rec EXCEPT ![inv[p].sid] = WithHosts(rec[inv[p].sid], m, inv[p].host)]
          PROVE  \A s \in Sid : LivesOn(s)
      <4>1. m \in SUBSET Host
        BY <3>1, RecordFacts DEF Merges, Record
      <4>2. Renews(rec[inv[p].sid], WithHosts(rec[inv[p].sid], m, inv[p].host))
        BY <3>1, <4>1, RecordFacts, OthersRenew
      <4>3. QED
        BY <2>2, <3>1, <3>2, <4>2, WriteLives DEF RecordHosts
    <3>3. QED
      BY <2>2, <3>2, NothingWritten DEF RecordHosts
  <2>3. ASSUME Leave(p) \/ Release(p)
        PROVE  \A s \in Sid : LivesOn(s)
    <3>1. inv[p].sid \in Sid
      BY <1>0, <2>3, SettledFacts DEF Leave, Release, At, InSession
    <3>2. /\ Renews(rec[inv[p].sid], Ended(rec[inv[p].sid], "closed"))
          /\ Renews(rec[inv[p].sid], Unleased(rec[inv[p].sid]))
      BY <3>1, RecordFacts, OthersRenew
    <3>3. QED
      BY <2>3, <3>1, <3>2, WriteLives, NothingWritten DEF Leave, Release
  <2>4. QED
    BY <1>3, <2>1, <2>2, <2>3, NothingWritten
    DEF Operates, Attach, LeaseFails, Connect, Halt, Observe, HaltAfterNavigation,
        Killed, Interrupted
<1>4. ASSUME NEW s \in Sid, CloseSession(s)
      PROVE  \A t \in Sid : LivesOn(t)
  <2>1. Renews(rec[s], Ended(rec[s], "closed"))
    BY RecordFacts, OthersRenew
  <2>2. QED
    BY <1>4, <2>1, WriteLives DEF CloseSession
<1>5. CASE Tick \/ UNCHANGED vars
  BY <1>5, NothingWritten DEF Tick, vars
<1>6. QED
  BY <1>1, <1>2, <1>3, <1>4, <1>5 DEF Next

\* A step of one invocation leaves the others as they are.
LEMMA OneMoves ==
  ASSUME NEW p \in Proc, Opens(p) \/ Provisions(p) \/ Operates(p), inv \in [Proc -> Invocation],
         NEW q \in Proc, q # p
  PROVE  inv'[q] = inv[q]
<1>1. CASE Opens(p)
  BY <1>1 DEF Opens, OpenAnonymously, OpenInFlow, OpenGiven, CreateSession, Clean
<1>2. CASE Provisions(p)
  BY <1>2
  DEF Provisions, Continue, PassOver, NothingToContinue, Bump, BumpFails, Create, SweepOne,
      CreateFails, StartSweep, EndSweep, Ends
<1>3. CASE Operates(p)
  BY <1>3
  DEF Operates, Attach, TakeLease, LeaseFails, Connect, Halt, RecordHosts, Observe,
      HaltAfterNavigation, Leave, Release, Killed, Interrupted, Ends, Finishes, Goes
<1>4. QED
  BY <1>1, <1>2, <1>3

\* What the step of an invocation makes of its readings and its session.
StaysOrMinted(p) ==
  \/ inv'[p].sid = inv[p].sid
  \/ inv'[p].sid = NoSid
  \/ owner[inv'[p].sid] # Unborn
  \/ owner'[inv'[p].sid] # Unborn

\* A session p uses after its step was used by it before, from the same
\* reading on, or it has its whole life from p's reading.
StillUsedOrAlive(p, s) ==
  Uses(p, s)' =>
    \/ Uses(p, s) /\ inv'[p].since = inv[p].since
    \/ rec'[s].status = "active" => rec'[s].expires_at >= inv'[p].since + MinTTL

UseKept(p) ==
  /\ inv'[p].now <= clock
  /\ StaysOrMinted(p)
  /\ \A s \in Sid : StillUsedOrAlive(p, s)

LEMMA OpensUse ==
  ASSUME InUseInv, NEW p \in Proc, Opens(p)
  PROVE  UseKept(p)
<1>1. clock \in Nat /\ inv \in [Proc -> Invocation]
  BY DEF InUseInv, Typed, TypeOK
<1>2. /\ inv'[p].now \in {0, clock}
      /\ inv'[p].stage \in {"creating", "matching", "attaching", "sweeping"}
      /\ inv'[p].stage = "attaching" => inv'[p].token = NoToken
      /\ inv'[p].stage = "sweeping" => inv'[p].verb # "page"
      /\ inv'[p].sid = NoSid \/ owner[inv'[p].sid] # Unborn
  <2>1. CASE \E h \in Host : OpenAnonymously(p, {h})
    BY <1>1, <2>1 DEF OpenAnonymously, Away
  <2>2. CASE \E h \in Host, f \in Flow : OpenInFlow(p, f, {h})
    <3>1. PICK h \in Host, f \in Flow : OpenInFlow(p, f, {h})
      BY <2>2
    <3> DEFINE Cands(recent) == {[sid |-> s, used |-> rec[s].last_used_at] :
                                   s \in {t \in recent : Continues(rec[t], clock, {h})}}
    <3>2. PICK recent \in MostRecent(Mine(f)) :
            inv' = [inv EXCEPT ![p] =
              [Away EXCEPT !.stage = "matching", !.token = f, !.host = {h}, !.now = clock,
                           !.ttl = TTL, !.cands = Cands(recent)]]
      BY <3>1 DEF OpenInFlow
    <3> HIDE DEF Cands
    <3>3. inv'[p] = [Away EXCEPT !.stage = "matching", !.token = f, !.host = {h}, !.now = clock,
                                 !.ttl = TTL, !.cands = Cands(recent)]
      BY <1>1, <3>2
    <3>4. QED
      BY <3>3 DEF Away
  <2>3. CASE \E h \in Host, s \in Sid : OpenGiven(p, s, {h})
    BY <1>1, <2>3 DEF OpenGiven, Away
  <2>4. CASE \E ttl \in TTLs : CreateSession(p, ttl)
    BY <1>1, <2>4 DEF CreateSession, Away
  <2>5. CASE Clean(p)
    BY <1>1, <2>5 DEF Clean, Away
  <2>6. QED
    BY <2>1, <2>2, <2>3, <2>4, <2>5 DEF Opens
<1>3. \A s \in Sid : ~Uses(p, s)'
  BY <1>2 DEF Uses
<1>4. QED
  BY <1>1, <1>2, <1>3 DEF UseKept, StaysOrMinted, StillUsedOrAlive

\* The invocation is over, or only its session is left to close.
LEMMA LeavesUse ==
  ASSUME InUseInv, NEW p \in Proc, Ends(p) \/ Finishes(p)
  PROVE  UseKept(p)
<1>1. clock \in Nat /\ inv \in [Proc -> Invocation]
  BY DEF InUseInv, Typed, TypeOK
<1>2. /\ inv'[p].now = 0
      /\ inv'[p].stage \in {"away", "leaving"}
      /\ inv'[p].sid \in {NoSid, inv[p].sid}
  <2>1. CASE Ends(p)
    BY <1>1, <2>1 DEF Ends, Away
  <2>2. CASE Finishes(p)
    <3>1. inv'[p] = [Away EXCEPT !.stage = "leaving", !.sid = inv[p].sid, !.token = inv[p].token]
      BY <1>1, <2>2 DEF Finishes
    <3>2. QED
      BY <3>1 DEF Away
  <2>3. QED
    BY <2>1, <2>2
<1>3. QED
  BY <1>1, <1>2 DEF UseKept, StaysOrMinted, StillUsedOrAlive, Uses

\* The invocation goes on with the session it has.
LEMMA GoesOnUse ==
  ASSUME InUseInv, NEW p \in Proc,
         inv'[p].now <= clock, inv'[p].sid = inv[p].sid, inv'[p].since = inv[p].since,
         \A s \in Sid : Uses(p, s)' => Uses(p, s)
  PROVE  UseKept(p)
  BY DEF UseKept, StaysOrMinted, StillUsedOrAlive

LEMMA ProvisionsUse ==
  ASSUME InUseInv, NEW p \in Proc, Provisions(p)
  PROVE  UseKept(p)
<1>0. /\ Typed /\ clock \in Nat /\ inv \in [Proc -> Invocation]
      /\ inv[p] \in Invocation /\ inv[p].now <= clock /\ inv[p].now \in Nat
  BY SettledFacts DEF InUseInv, Typed, TypeOK, NowPast, Invocation
<1>1. ASSUME NEW c \in inv[p].cands, Continue(p, c)
      PROVE  UseKept(p)
  <2>1. c.sid \in Sid
    BY <1>0, SettledFacts
  <2>2. /\ inv'[p].now = inv[p].now /\ inv'[p].sid = c.sid /\ inv'[p].since = inv[p].now
    BY <1>0, <1>1 DEF Continue, Invocation
  <2>3. rec[c.sid].status = "active"
    BY <1>1 DEF Continue, Grants
  <2>4. rec'[c.sid] = Leased(rec[c.sid], Cli, inv[p].now)
    BY <1>0, <1>1, <2>1 DEF Continue, WritesLease, Typed, TypeOK
  <2>5. rec'[c.sid].expires_at >= inv[p].now + MinTTL
    BY <1>0, <2>1, <2>3, <2>4, RecordFacts, LeasedRenews
  <2>6. owner[c.sid] # Unborn
    BY <2>1, <2>3 DEF InUseInv, Born
  <2>7. QED
    BY <1>0, <2>2, <2>5, <2>6 DEF UseKept, StaysOrMinted, StillUsedOrAlive, Uses
<1>2. ASSUME NEW s \in Sid, Create(p, s)
      PROVE  UseKept(p)
  <2>1. /\ inv'[p].now = inv[p].now /\ inv'[p].sid = s /\ inv'[p].since = inv[p].now
    BY <1>0, <1>2 DEF Create, Invocation
  <2>2. /\ inv[p].ttl >= MinTTL /\ inv[p].ttl \in Nat /\ MinTTL \in Nat
        /\ inv[p].token \in Token
    BY <1>0, <1>2, SettledFacts, FlowAssumption DEF Create, At, Fits
  <2>3. rec'[s].expires_at >= inv[p].now + MinTTL
    BY <1>0, <1>2, <2>2 DEF Create, NewRecord, Typed, TypeOK
  <2>4. owner'[s] # Unborn
    BY <1>0, <1>2, <2>2, FlowAssumption DEF Create, Token, Typed, TypeOK
  <2>5. QED
    BY <1>0, <2>1, <2>3, <2>4 DEF UseKept, StaysOrMinted, StillUsedOrAlive, Uses
<1>3. ASSUME NEW c \in inv[p].cands, PassOver(p, c)
      PROVE  UseKept(p)
  BY <1>0, <1>3, GoesOnUse DEF PassOver, TriesNext, At, Uses, Invocation
<1>4. ASSUME NothingToContinue(p)
      PROVE  UseKept(p)
  BY <1>0, <1>4, GoesOnUse DEF NothingToContinue, At, Uses, Invocation
<1>5. ASSUME Bump(p)
      PROVE  UseKept(p)
  BY <1>0, <1>5, GoesOnUse DEF Bump, At, Uses, Invocation
<1>6. ASSUME StartSweep(p)
      PROVE  UseKept(p)
  BY <1>0, <1>6, GoesOnUse DEF StartSweep, At, Uses, Invocation
<1>7. ASSUME NEW s \in Sid, SweepOne(p, s)
      PROVE  UseKept(p)
  BY <1>0, <1>7, GoesOnUse DEF SweepOne, At, Uses, Invocation
<1>8. ASSUME EndSweep(p)
      PROVE  UseKept(p)
  <2>1. CASE inv[p].verb = "clean"
    BY <1>8, <2>1, LeavesUse DEF EndSweep
  <2>2. CASE inv[p].verb = "page"
    BY <1>0, <1>8, <2>2, GoesOnUse DEF EndSweep, At, Uses, Invocation
  <2>3. CASE inv[p].verb = "create"
    BY <1>0, <1>8, <2>3, GoesOnUse DEF EndSweep, At, Uses, Invocation
  <2>4. QED
    BY <1>0, <2>1, <2>2, <2>3 DEF Invocation, Verbs
<1>9. ASSUME BumpFails(p) \/ CreateFails(p)
      PROVE  UseKept(p)
  BY <1>9, LeavesUse DEF BumpFails, CreateFails
<1>10. QED
  BY <1>1, <1>2, <1>3, <1>4, <1>5, <1>6, <1>7, <1>8, <1>9 DEF Provisions

LEMMA OperatesUse ==
  ASSUME InUseInv, NEW p \in Proc, Operates(p)
  PROVE  UseKept(p)
<1>0. /\ Typed /\ clock \in Nat /\ inv \in [Proc -> Invocation]
      /\ inv[p] \in Invocation /\ inv[p].now <= clock /\ inv[p].now \in Nat
  BY SettledFacts DEF InUseInv, Typed, TypeOK, NowPast, Invocation
<1>1. ASSUME Attach(p)
      PROVE  UseKept(p)
  BY <1>0, <1>1, GoesOnUse DEF Attach, At, Uses, Invocation
<1>2. ASSUME TakeLease(p)
      PROVE  UseKept(p)
  <2>1. inv[p].sid \in Sid
    BY <1>0, <1>2, SettledFacts DEF TakeLease, At, InSession
  <2>2. inv'[p].now = inv[p].now /\ inv'[p].sid = inv[p].sid /\ inv'[p].since = inv[p].now
    BY <1>0, <1>2 DEF TakeLease, Invocation
  <2>3. rec[inv[p].sid].status = "active"
    BY <1>2 DEF TakeLease, Grants
  <2>4. rec'[inv[p].sid] = Leased(rec[inv[p].sid], Cli, inv[p].now)
    BY <1>0, <1>2, <2>1 DEF TakeLease, WritesLease, Typed, TypeOK
  <2>5. rec'[inv[p].sid].expires_at >= inv[p].now + MinTTL
    BY <1>0, <2>1, <2>3, <2>4, RecordFacts, LeasedRenews
  <2>6. QED
    BY <1>0, <2>2, <2>5 DEF UseKept, StaysOrMinted, StillUsedOrAlive, Uses
<1>3. ASSUME Connect(p)
      PROVE  UseKept(p)
  BY <1>0, <1>3, GoesOnUse DEF Connect, Goes, At, Uses, Invocation
<1>4. ASSUME RecordHosts(p)
      PROVE  UseKept(p)
  BY <1>0, <1>4, GoesOnUse DEF RecordHosts, Goes, At, Uses, Invocation
<1>5. ASSUME Ends(p) \/ Finishes(p)
      PROVE  UseKept(p)
  BY <1>5, LeavesUse
<1>6. QED
  BY <1>1, <1>2, <1>3, <1>4, <1>5
  DEF Operates, LeaseFails, Halt, Observe, HaltAfterNavigation, Leave, Release,
      Killed, Interrupted

LEMMA OnlyTickMovesClock == [Next]_vars => clock' = clock \/ clock' = clock + 1
<1> SUFFICES ASSUME [Next]_vars
             PROVE  clock' = clock \/ clock' = clock + 1
  OBVIOUS
<1>1. ASSUME NEW p \in Proc, Opens(p)
      PROVE  clock' = clock
  BY <1>1 DEF Opens, OpenAnonymously, OpenInFlow, OpenGiven, CreateSession, Clean
<1>2. ASSUME NEW p \in Proc, Provisions(p)
      PROVE  clock' = clock
  BY <1>2
  DEF Provisions, Continue, PassOver, NothingToContinue, Bump, BumpFails, Create, SweepOne,
      CreateFails, StartSweep, EndSweep
<1>3. ASSUME NEW p \in Proc, Operates(p)
      PROVE  clock' = clock
  BY <1>3
  DEF Operates, Attach, TakeLease, LeaseFails, Connect, Halt, RecordHosts, Observe,
      HaltAfterNavigation, Leave, Release, Killed, Interrupted
<1>4. QED
  BY <1>1, <1>2, <1>3 DEF Next, CloseSession, Tick, vars

LEMMA InUseInit == Init => InUseInv
<1> SUFFICES ASSUME Init
             PROVE  InUseInv
  OBVIOUS
<1>1. Typed
  BY TypeInit
<1>2. /\ \A p \in Proc : inv[p] = Away
      /\ \A s \in Sid : rec[s].status # "active"
      /\ clock = 0
  BY DEF Init, NoRecord
<1>3. NowPast /\ Born /\ Lively /\ UsedAlive
  BY <1>2 DEF NowPast, Born, Lively, UsedAlive, Away
<1>4. QED
  BY <1>1, <1>3 DEF InUseInv

LEMMA InUseStep == InUseInv /\ [Next]_vars => InUseInv'
<1> SUFFICES ASSUME InUseInv, [Next]_vars
             PROVE  InUseInv'
  OBVIOUS
<1>1. Typed'
  BY TypeStep DEF InUseInv
<1>2. \A s \in Sid : LivesOn(s)
  BY RecordsLive
<1>3. clock' \in Nat /\ clock \in Nat /\ clock <= clock'
  <2>1. clock \in Nat /\ clock' \in Nat
    BY <1>1 DEF InUseInv, Typed, TypeOK
  <2>2. clock' = clock \/ clock' = clock + 1
    BY OnlyTickMovesClock
  <2>3. QED
    BY <2>1, <2>2
<1>4. \A p \in Proc : inv'[p] = inv[p] \/ UseKept(p)
  <2>1. TAKE p \in Proc
  <2>2. inv \in [Proc -> Invocation]
    BY DEF InUseInv, Typed, TypeOK
  <2>3. CASE \E q \in Proc : Opens(q) \/ Provisions(q) \/ Operates(q)
    BY <2>2, <2>3, OneMoves, OpensUse, ProvisionsUse, OperatesUse
  <2>4. CASE inv' = inv
    BY <2>4
  <2>5. QED
    BY <2>3, <2>4 DEF Next, CloseSession, Tick, vars
<1>5. NowPast'
  <2>1. SUFFICES ASSUME NEW p \in Proc
                 PROVE  inv'[p].now <= clock'
    BY DEF NowPast
  <2>2. inv[p].now <= clock /\ inv[p].now \in Nat /\ inv'[p].now \in Nat
    BY <1>1 DEF InUseInv, NowPast, Typed, TypeOK, Invocation
  <2>3. inv'[p].now <= clock
    BY <1>4, <2>2 DEF UseKept
  <2>4. QED
    BY <1>3, <2>2, <2>3
<1>6. Born'
  <2>1. \A s \in Sid : rec'[s].status = "active" => owner'[s] # Unborn
    BY <1>2 DEF LivesOn, Renews, InUseInv, Born
  <2>2. \A s \in Sid : owner[s] # Unborn => owner'[s] # Unborn
    BY <1>2 DEF LivesOn
  <2>3. ASSUME NEW p \in Proc, inv'[p].sid # NoSid
        PROVE  owner'[inv'[p].sid] # Unborn
    <3>1. inv'[p].sid \in Sid
      BY <1>1, <2>3 DEF Typed, TypeOK, Invocation
    <3>2. QED
      BY <1>4, <2>2, <2>3, <3>1 DEF UseKept, StaysOrMinted, InUseInv, Born
  <2>4. QED
    BY <2>1, <2>3 DEF Born
<1>7. Lively'
  BY <1>2 DEF LivesOn, Renews, Lively, HasLife
<1>8. UsedAlive'
  <2>1. SUFFICES ASSUME NEW p \in Proc, NEW s \in Sid, Uses(p, s)', rec'[s].status = "active"
                 PROVE  rec'[s].expires_at >= inv'[p].since + MinTTL
    BY DEF UsedAlive
  <2>2. CASE Uses(p, s) /\ inv'[p].since = inv[p].since
    <3>1. owner[s] # Unborn
      BY <2>2, FlowAssumption DEF Uses, InUseInv, Born
    <3>2. Renews(rec[s], rec'[s])
      BY <1>2, <3>1 DEF LivesOn
    <3>3. /\ rec[s].status = "active" /\ rec'[s].expires_at >= rec[s].expires_at
      BY <2>1, <3>2 DEF Renews
    <3>4. rec[s].expires_at >= inv[p].since + MinTTL
      BY <2>2, <3>3 DEF InUseInv, UsedAlive
    <3>5. /\ rec[s].expires_at \in Nat /\ rec'[s].expires_at \in Nat
          /\ inv[p].since \in Nat /\ MinTTL \in Nat
      BY <1>1, FlowAssumption DEF InUseInv, Typed, TypeOK, Record, Invocation
    <3>6. QED
      BY <2>2, <3>3, <3>4, <3>5
  <2>3. CASE inv'[p] = inv[p]
    BY <2>1, <2>2, <2>3 DEF Uses
  <2>4. CASE UseKept(p)
    BY <2>1, <2>2, <2>4 DEF UseKept, StillUsedOrAlive
  <2>5. QED
    BY <1>4, <2>3, <2>4
<1>9. QED
  BY <1>1, <1>5, <1>6, <1>7, <1>8 DEF InUseInv

\* Only the sweep makes an active record anything but active or closed, and it
\* does so after the record's expiry.
LEMMA OnlySweepExpires ==
  ASSUME InUseInv, [Next]_vars, NEW s \in Sid,
         rec[s].status = "active", rec'[s].status \notin {"active", "closed"}
  PROVE  rec[s].expires_at <= clock
<1>0. /\ Typed /\ rec \in [Sid -> Record] /\ rec[s] \in Record /\ clock \in Nat
      /\ rec' # rec
  BY DEF InUseInv, Typed, TypeOK
<1>1. CASE \E p \in Proc : Opens(p)
  BY <1>0, <1>1 DEF Opens, OpenAnonymously, OpenInFlow, OpenGiven, CreateSession, Clean
<1>2. ASSUME NEW p \in Proc, Provisions(p)
      PROVE  rec[s].expires_at <= clock
  <2>1. ASSUME NEW t \in Sid, SweepOne(p, t)
        PROVE  rec[s].expires_at <= clock
    <3>1. t = s /\ rec'[s] = Swept(rec[s], inv[p].now)
      BY <1>0, <2>1 DEF SweepOne
    <3>2. CASE Expires(rec[s], inv[p].now, NoFilter)
      BY <1>0, <3>2, SettledFacts DEF Expires, InUseInv, NowPast, Record
    <3>3. CASE ~Expires(rec[s], inv[p].now, NoFilter)
      <4>1. ~Purges(rec[s], inv[p].now, NoFilter)
        BY DEF Purges, EndedStatus
      <4>2. rec'[s].status = "active"
        BY <1>0, <3>1, <3>3, <4>1 DEF Swept, Unleased, Record
      <4>3. QED
        BY <4>2
    <3>4. QED
      BY <3>2, <3>3
  <2>2. ASSUME NEW c \in inv[p].cands, Continue(p, c)
        PROVE  FALSE
    <3>1. rec'[s] = rec[s] \/ rec'[s] = Leased(rec[s], Cli, inv[p].now)
      BY <1>0, <2>2 DEF Continue, WritesLease
    <3>2. QED
      BY <1>0, <3>1 DEF Leased, Record
  <2>3. ASSUME Bump(p)
        PROVE  FALSE
    <3>1. rec'[s] = rec[s] \/ rec'[s] = [rec[s] EXCEPT !.generation = rec[s].generation + 1]
      BY <1>0, <2>3 DEF Bump
    <3>2. QED
      BY <1>0, <3>1 DEF Record
  <2>4. ASSUME NEW t \in Sid, Create(p, t)
        PROVE  FALSE
    <3>1. rec'[s] = rec[s] \/ rec'[s] = NewRecord(inv[p].now, inv[p].ttl, TRUE, NoPid)
      BY <1>0, <2>4 DEF Create
    <3>2. QED
      BY <3>1 DEF NewRecord
  <2>5. QED
    BY <1>0, <1>2, <2>1, <2>2, <2>3, <2>4
    DEF Provisions, PassOver, NothingToContinue, BumpFails, CreateFails, StartSweep, EndSweep
<1>3. ASSUME NEW p \in Proc, Operates(p)
      PROVE  FALSE
  <2>1. ASSUME TakeLease(p)
        PROVE  FALSE
    <3>1. rec'[s] = rec[s] \/ rec'[s] = Leased(rec[s], Cli, inv[p].now)
      BY <1>0, <2>1 DEF TakeLease, WritesLease
    <3>2. QED
      BY <1>0, <3>1 DEF Leased, Record
  <2>2. ASSUME RecordHosts(p)
        PROVE  FALSE
    <3>1. rec'[s] = rec[s] \/ \E m \in Merges(rec[s], inv[p].host) :
                                 rec'[s] = WithHosts(rec[s], m, inv[p].host)
      BY <1>0, <2>2 DEF RecordHosts
    <3>2. QED
      BY <1>0, <3>1 DEF WithHosts, Record
  <2>3. ASSUME Leave(p) \/ Release(p)
        PROVE  FALSE
    <3>1. rec'[s] = rec[s] \/ rec'[s] = Ended(rec[s], "closed") \/ rec'[s] = Unleased(rec[s])
      BY <1>0, <2>3 DEF Leave, Release
    <3>2. QED
      BY <1>0, <3>1 DEF Ended, Unleased, Record
  <2>4. QED
    BY <1>0, <1>3, <2>1, <2>2, <2>3
    DEF Operates, Attach, LeaseFails, Connect, Halt, Observe, HaltAfterNavigation,
        Killed, Interrupted
<1>4. ASSUME NEW t \in Sid, CloseSession(t)
      PROVE  FALSE
  <2>1. rec'[s] = rec[s] \/ rec'[s] = Ended(rec[s], "closed")
    BY <1>0, <1>4 DEF CloseSession
  <2>2. QED
    BY <1>0, <2>1 DEF Ended, Record
<1>5. QED
  BY <1>0, <1>1, <1>2, <1>3, <1>4 DEF Next, Tick, vars

\* No sweep ends a session that an invocation is about to use or using within
\* the life it was created or leased with, however many invocations sweep.
THEOREM SweepIsSafe == Spec => SweepSparesInUse
<1> DEFINE Spares ==
      \A p \in Proc, s \in Sid :
        Uses(p, s) /\ rec[s].status = "active" /\ rec'[s].status \notin {"active", "closed"}
          => clock >= inv[p].since + MinTTL
<1>1. InUseInv /\ [Next]_vars => Spares
  <2>1. SUFFICES ASSUME InUseInv, [Next]_vars, NEW p \in Proc, NEW s \in Sid,
                        Uses(p, s), rec[s].status = "active",
                        rec'[s].status \notin {"active", "closed"}
                 PROVE  clock >= inv[p].since + MinTTL
    OBVIOUS
  <2>2. rec[s].expires_at <= clock
    BY <2>1, OnlySweepExpires
  <2>3. rec[s].expires_at >= inv[p].since + MinTTL
    BY <2>1 DEF InUseInv, UsedAlive
  <2>4. /\ rec[s].expires_at \in Nat /\ clock \in Nat /\ inv[p].since \in Nat
        /\ MinTTL \in Nat
    BY <2>1, FlowAssumption DEF InUseInv, Typed, TypeOK, Record, Invocation
  <2>5. QED
    BY <2>2, <2>3, <2>4
<1>2. InUseInv /\ [Next]_vars => [Spares]_vars
  BY <1>1
<1>3. Spec => []InUseInv
  BY InUseInit, InUseStep, PTL DEF Spec
<1>4. QED
  BY <1>2, <1>3, PTL DEF Spec, SweepSparesInUse

-----------------------------------------------------------------------------
(***************************************************************************)
(* Whose a session is: who may be handed it, what its snapshots are        *)
(* stamped with, and that a throwaway one is closed by the invocation it   *)
(* was made for.                                                           *)
(***************************************************************************)
\* An invocation in a session of its own or its flow's holds what is stored
\* under its token, and has picked only such sessions.
OwnersHold ==
  \A p \in Proc :
    /\ inv[p].sid # NoSid /\ inv[p].token # NoToken => owner[inv[p].sid] = inv[p].token
    /\ \A c \in inv[p].cands : owner[c.sid] = inv[p].token

\* A throwaway session is one invocation's.
ThrowawaysApart ==
  \A p, q \in Proc :
    p # q /\ inv[p].sid # NoSid /\ inv[p].sid = inv[q].sid
      => ~(Owns(p) /\ Owns(q))

\* No stamp is ahead of the record, and none is on a session yet to be made.
StampsPast ==
  \A s \in Sid :
    /\ owner[s] = Unborn => stamped[s] = {}
    /\ Readable(rec[s]) => \A g \in stamped[s] : g <= rec[s].generation

OwnInv ==
  InUseInv /\ OwnersHold /\ ThrowawaysApart /\ StampsPast /\ ReferencesGoStale /\ ThrowawayEnds

-----------------------------------------------------------------------------
(* What a step does to the records, the owners and the stamps *)

\* A record that can be read keeps its generation or gets a later one.
Rises(r, next) ==
  Readable(next) => Readable(r) /\ next.generation >= r.generation

LEMMA HelpersRise ==
  ASSUME NEW r \in Record
  PROVE  /\ Rises(r, r) /\ Rises(r, Unleased(r)) /\ Rises(r, NoRecord)
         /\ Readable(r) => Rises(r, Ended(r, "closed"))
         /\ Readable(r) => Rises(r, [r EXCEPT !.generation = r.generation + 1])
         /\ \A now \in Nat : Rises(r, Swept(r, now)) /\ Rises(r, Leased(r, Cli, now))
         /\ \A m, hs \in SUBSET Host : Rises(r, WithHosts(r, m, hs))
<1>1. r.generation \in Nat
  BY DEF Record
<1>2. Rises(r, r) /\ Rises(r, Unleased(r)) /\ Rises(r, NoRecord)
  BY <1>1 DEF Rises, Readable, Unleased, Record, NoRecord
<1>3. \A st \in EndedStatus : Readable(r) => Rises(r, Ended(r, st))
  BY <1>1 DEF Rises, Ended, Record
<1>4. Readable(r) => Rises(r, [r EXCEPT !.generation = r.generation + 1])
  BY <1>1 DEF Rises, Record
<1>5. \A now \in Nat : Rises(r, Leased(r, Cli, now))
  BY <1>1 DEF Rises, Readable, Leased, Record
<1>6. \A now \in Nat : Rises(r, Swept(r, now))
  BY <1>2, <1>3 DEF Swept, Expires, EndedStatus, Readable
<1>7. \A m, hs \in SUBSET Host : Rises(r, WithHosts(r, m, hs))
  BY <1>1 DEF Rises, Readable, WithHosts, Record
<1>8. QED
  BY <1>2, <1>3, <1>4, <1>5, <1>6, <1>7 DEF EndedStatus

\* One record is written.
LEMMA WriteRises ==
  ASSUME Typed, NEW s \in Sid, NEW r, rec' = [rec EXCEPT ![s] = r], Rises(rec[s], r)
  PROVE  \A t \in Sid : Rises(rec[t], rec'[t])
  BY HelpersRise DEF Typed, TypeOK

LEMMA NoneWritten ==
  ASSUME Typed, rec' = rec
  PROVE  \A t \in Sid : Rises(rec[t], rec'[t])
  BY HelpersRise DEF Typed, TypeOK

LEMMA GenerationsRise ==
  ASSUME InUseInv, [Next]_vars
  PROVE  \A s \in Sid : owner[s] # Unborn => Rises(rec[s], rec'[s])
<1>0. Typed /\ rec \in [Sid -> Record]
  BY DEF InUseInv, Typed, TypeOK
<1>1. ASSUME NEW p \in Proc, Opens(p)
      PROVE  \A s \in Sid : Rises(rec[s], rec'[s])
  BY <1>0, <1>1, NoneWritten
  DEF Opens, OpenAnonymously, OpenInFlow, OpenGiven, CreateSession, Clean
<1>2. ASSUME NEW p \in Proc, Provisions(p)
      PROVE  \A s \in Sid : owner[s] # Unborn => Rises(rec[s], rec'[s])
  <2>1. ASSUME NEW c \in inv[p].cands, Continue(p, c)
        PROVE  \A s \in Sid : Rises(rec[s], rec'[s])
    <3>1. c.sid \in Sid /\ inv[p].now \in Nat
      BY <1>0, SettledFacts
    <3>2. Rises(rec[c.sid], Leased(rec[c.sid], Cli, inv[p].now))
      BY <1>0, <3>1, HelpersRise
    <3>3. QED
      BY <1>0, <2>1, <3>1, <3>2, WriteRises DEF Continue, WritesLease
  <2>2. ASSUME Bump(p)
        PROVE  \A s \in Sid : Rises(rec[s], rec'[s])
    <3>1. inv[p].sid \in Sid /\ Readable(rec[inv[p].sid])
      BY <1>0, <2>2, SettledFacts DEF Bump, At, InSession
    <3> DEFINE r == [rec[inv[p].sid] EXCEPT !.generation = rec[inv[p].sid].generation + 1]
    <3>2. Rises(rec[inv[p].sid], r)
      BY <1>0, <3>1, HelpersRise
    <3>3. rec' = [rec EXCEPT ![inv[p].sid] = r]
      BY <2>2 DEF Bump
    <3>4. QED
      BY <1>0, <3>1, <3>2, <3>3, WriteRises
  <2>3. ASSUME NEW t \in Sid, Create(p, t)
        PROVE  \A s \in Sid : owner[s] # Unborn => Rises(rec[s], rec'[s])
    BY <1>0, <2>3, HelpersRise DEF Create
  <2>4. ASSUME NEW t \in Sid, SweepOne(p, t)
        PROVE  \A s \in Sid : Rises(rec[s], rec'[s])
    <3>1. Rises(rec[t], Swept(rec[t], inv[p].now))
      BY <1>0, SettledFacts, HelpersRise
    <3>2. QED
      BY <1>0, <2>4, <3>1, WriteRises DEF SweepOne
  <2>5. QED
    BY <1>0, <1>2, <2>1, <2>2, <2>3, <2>4, NoneWritten
    DEF Provisions, PassOver, NothingToContinue, BumpFails, CreateFails, StartSweep, EndSweep
<1>3. ASSUME NEW p \in Proc, Operates(p)
      PROVE  \A s \in Sid : Rises(rec[s], rec'[s])
  <2>1. ASSUME TakeLease(p)
        PROVE  \A s \in Sid : Rises(rec[s], rec'[s])
    <3>1. inv[p].sid \in Sid /\ inv[p].now \in Nat
      BY <1>0, <2>1, SettledFacts DEF TakeLease, At, InSession
    <3>2. Rises(rec[inv[p].sid], Leased(rec[inv[p].sid], Cli, inv[p].now))
      BY <1>0, <3>1, HelpersRise
    <3>3. QED
      BY <1>0, <2>1, <3>1, <3>2, WriteRises DEF TakeLease, WritesLease
  <2>2. ASSUME RecordHosts(p)
        PROVE  \A s \in Sid : Rises(rec[s], rec'[s])
    <3>1. inv[p].sid \in Sid /\ inv[p].host \in SUBSET Host
      BY <1>0, <2>2, SettledFacts DEF RecordHosts, At, InSession
    <3>2. ASSUME NEW m \in Merges(rec[inv[p].sid], inv[p].host),
                 rec' = [rec EXCEPT ![inv[p].sid] = WithHosts(rec[inv[p].sid], m, inv[p].host)]
          PROVE  \A s \in Sid : Rises(rec[s], rec'[s])
      <4>1. m \in SUBSET Host
        BY <1>0, <3>1 DEF Merges, Record
      <4>2. Rises(rec[inv[p].sid], WithHosts(rec[inv[p].sid], m, inv[p].host))
        BY <1>0, <3>1, <4>1, HelpersRise
      <4>3. QED
        BY <1>0, <3>1, <3>2, <4>2, WriteRises
    <3>3. QED
      BY <1>0, <2>2, <3>2, NoneWritten DEF RecordHosts
  <2>3. ASSUME Leave(p) \/ Release(p)
        PROVE  \A s \in Sid : Rises(rec[s], rec'[s])
    <3>1. inv[p].sid \in Sid
      BY <1>0, <2>3, SettledFacts DEF Leave, Release, At, InSession
    <3>2. /\ Readable(rec[inv[p].sid]) =>
               Rises(rec[inv[p].sid], Ended(rec[inv[p].sid], "closed"))
          /\ Rises(rec[inv[p].sid], Unleased(rec[inv[p].sid]))
      BY <1>0, <3>1, HelpersRise
    <3>3. QED
      BY <1>0, <2>3, <3>1, <3>2, WriteRises, NoneWritten DEF Leave, Release
  <2>4. QED
    BY <1>0, <1>3, <2>1, <2>2, <2>3, NoneWritten
    DEF Operates, Attach, LeaseFails, Connect, Halt, Observe, HaltAfterNavigation,
        Killed, Interrupted
<1>4. ASSUME NEW t \in Sid, CloseSession(t)
      PROVE  \A s \in Sid : Rises(rec[s], rec'[s])
  <2>1. Rises(rec[t], Ended(rec[t], "closed"))
    BY <1>0, <1>4, HelpersRise DEF CloseSession, Readable
  <2>2. QED
    BY <1>0, <1>4, <2>1, WriteRises DEF CloseSession
<1>5. CASE Tick \/ UNCHANGED vars
  BY <1>0, <1>5, NoneWritten DEF Tick, vars
<1>6. QED
  BY <1>1, <1>2, <1>3, <1>4, <1>5 DEF Next

\* Owners are written once, for an invocation that then works in the session.
LEMMA OwnersStay ==
  ASSUME InUseInv, [Next]_vars, NEW s \in Sid
  PROVE  /\ owner[s] # Unborn => owner'[s] = owner[s]
         /\ owner'[s] = owner[s]
              \/ \E p \in Proc : inv'[p].sid = s /\ inv'[p].token = owner'[s]
<1>0. Typed /\ inv \in [Proc -> Invocation] /\ owner \in [Sid -> Token \cup {Unborn}]
  BY DEF InUseInv, Typed, TypeOK
<1>1. CASE \E p \in Proc, t \in Sid : Create(p, t)
  <2>1. PICK p \in Proc, t \in Sid : Create(p, t)
    BY <1>1
  <2>2. inv'[p].sid = t /\ inv'[p].token = inv[p].token
    BY <1>0, <2>1 DEF Create, Invocation
  <2>3. owner' = [owner EXCEPT ![t] = inv[p].token] /\ owner[t] = Unborn
    BY <2>1 DEF Create
  <2>4. QED
    BY <1>0, <2>2, <2>3
<1>2. CASE owner' = owner
  BY <1>2
<1>3. \A p \in Proc : Opens(p) => owner' = owner
  BY DEF Opens, OpenAnonymously, OpenInFlow, OpenGiven, CreateSession, Clean
<1>4. \A p \in Proc : Provisions(p) => owner' = owner \/ \E t \in Sid : Create(p, t)
  BY DEF Provisions, Continue, PassOver, NothingToContinue, Bump, BumpFails, SweepOne,
         CreateFails, StartSweep, EndSweep
<1>5. \A p \in Proc : Operates(p) => owner' = owner
  BY DEF Operates, Attach, TakeLease, LeaseFails, Connect, Halt, RecordHosts, Observe,
         HaltAfterNavigation, Leave, Release, Killed, Interrupted
<1>6. (\E s0 \in Sid : CloseSession(s0)) \/ Tick \/ UNCHANGED vars => owner' = owner
  BY DEF CloseSession, Tick, vars
<1>7. owner' = owner \/ \E p \in Proc, t \in Sid : Create(p, t)
  BY <1>3, <1>4, <1>5, <1>6 DEF Next
<1>8. QED
  BY <1>1, <1>2, <1>7

\* A stamp is put on a session in use and is its generation.
LEMMA StampsPut ==
  ASSUME InUseInv, [Next]_vars, NEW s \in Sid
  PROVE  \/ stamped'[s] = stamped[s]
         \/ /\ owner[s] # Unborn /\ rec' = rec
            /\ stamped'[s] = stamped[s] \cup {rec[s].generation}
<1>0. Typed /\ stamped \in [Sid -> SUBSET Nat]
  BY DEF InUseInv, Typed, TypeOK
<1>1. CASE \E p \in Proc : Observe(p)
  <2>1. PICK p \in Proc : Observe(p)
    BY <1>1
  <2>2. inv[p].sid \in Sid /\ inv[p].sid # NoSid
    BY <1>0, <2>1, SettledFacts, FlowAssumption DEF Observe, At, InSession
  <2>3. owner[inv[p].sid] # Unborn
    BY <2>2 DEF InUseInv, Born
  <2>4. stamped' = [stamped EXCEPT ![inv[p].sid] = @ \cup {rec[inv[p].sid].generation}]
        /\ rec' = rec
    BY <2>1 DEF Observe
  <2>5. QED
    BY <1>0, <2>3, <2>4
<1>2. CASE stamped' = stamped
  BY <1>2
<1>3. \A p \in Proc : Opens(p) => stamped' = stamped
  BY DEF Opens, OpenAnonymously, OpenInFlow, OpenGiven, CreateSession, Clean
<1>4. ASSUME NEW p \in Proc, Provisions(p)
      PROVE  stamped' = stamped
  BY <1>4
  DEF Provisions, Continue, PassOver, NothingToContinue, Bump, BumpFails, Create, SweepOne,
         CreateFails, StartSweep, EndSweep
<1>5. \A p \in Proc : Operates(p) => stamped' = stamped \/ Observe(p)
  BY DEF Operates, Attach, TakeLease, LeaseFails, Connect, Halt, RecordHosts,
         HaltAfterNavigation, Leave, Release, Killed, Interrupted
<1>6. (\E s0 \in Sid : CloseSession(s0)) \/ Tick \/ UNCHANGED vars => stamped' = stamped
  BY DEF CloseSession, Tick, vars
<1>7. stamped' = stamped \/ \E p \in Proc : Observe(p)
  BY <1>3, <1>4, <1>5, <1>6 DEF Next
<1>8. QED
  BY <1>1, <1>2, <1>7

-----------------------------------------------------------------------------
(* What a step of an invocation does to what it holds *)

SameHold(p) == inv'[p].sid = inv[p].sid /\ inv'[p].token = inv[p].token

\* It holds nothing, what it held, a session of its flow, or one it made.
Rightful(p) ==
  \/ inv'[p].sid = NoSid \/ inv'[p].token = NoToken
  \/ SameHold(p)
  \/ inv'[p].token \in Flow /\ owner[inv'[p].sid] = inv'[p].token
  \/ owner[inv'[p].sid] = Unborn /\ owner'[inv'[p].sid] = inv'[p].token

PicksMine(p) == \A c \in inv'[p].cands : owner[c.sid] = inv'[p].token

\* It remembers no stamps, those it did, or those of the session it bumps.
Remembers(p) ==
  \/ inv'[p].before = {}
  \/ inv'[p].before = inv[p].before /\ inv'[p].sid = inv[p].sid
  \/ LET s == inv[p].sid
     IN  /\ s \in Sid /\ inv'[p].sid = s /\ inv'[p].before = stamped[s]
         /\ Readable(rec[s]) /\ rec'[s].generation = rec[s].generation + 1

\* A throwaway session it gives up is closed, or the invocation was cut short.
GivesUp(p) ==
  Owns(p) /\ inv[p].sid # NoSid =>
    SameHold(p) \/ lost'[inv[p].sid] # "no" \/ rec'[inv[p].sid].status # "active"

HoldKept(p) == Rightful(p) /\ PicksMine(p) /\ Remembers(p) /\ GivesUp(p)

LEMMA GoesOnHold ==
  ASSUME OwnInv, NEW p \in Proc, SameHold(p), inv'[p].cands \subseteq inv[p].cands,
         inv'[p].before = inv[p].before \/ inv'[p].before = {}
  PROVE  HoldKept(p)
<1>1. PicksMine(p)
  BY DEF PicksMine, OwnInv, OwnersHold, SameHold
<1>2. QED
  BY <1>1 DEF HoldKept, Rightful, SameHold, Remembers, GivesUp

LEMMA EndsHold ==
  ASSUME OwnInv, NEW p \in Proc, Ends(p),
         Owns(p) /\ inv[p].sid # NoSid =>
           lost'[inv[p].sid] # "no" \/ rec'[inv[p].sid].status # "active"
  PROVE  HoldKept(p)
<1>1. inv'[p] = Away
  BY DEF Ends, OwnInv, InUseInv, Typed, TypeOK
<1>2. inv'[p].sid = NoSid /\ inv'[p].cands = {} /\ inv'[p].before = {}
  BY <1>1 DEF Away
<1>3. QED
  BY <1>2 DEF HoldKept, Rightful, PicksMine, Remembers, GivesUp

LEMMA FinishesHold ==
  ASSUME OwnInv, NEW p \in Proc, Finishes(p)
  PROVE  HoldKept(p)
<1>1. inv'[p] = [Away EXCEPT !.stage = "leaving", !.sid = inv[p].sid, !.token = inv[p].token]
  BY DEF Finishes, OwnInv, InUseInv, Typed, TypeOK
<1>2. SameHold(p) /\ inv'[p].cands = {} /\ inv'[p].before = {}
  BY <1>1 DEF Away, SameHold
<1>3. QED
  BY <1>2, GoesOnHold

LEMMA OpensHold ==
  ASSUME OwnInv, NEW p \in Proc, Opens(p)
  PROVE  HoldKept(p)
<1>0. Typed /\ inv \in [Proc -> Invocation]
  BY DEF OwnInv, InUseInv, Typed, TypeOK
<1>1. inv[p].stage = "away" /\ inv[p].sid = NoSid
  <2>1. inv[p].stage = "away"
    BY DEF Opens, OpenAnonymously, OpenInFlow, OpenGiven, CreateSession, Clean, At
  <2>2. QED
    BY <1>0, <2>1, SettledFacts DEF Fits, Early
<1>2. /\ inv'[p].sid = NoSid \/ inv'[p].token = NoToken
      /\ inv'[p].before = {}
      /\ PicksMine(p)
  <2>1. CASE \E h \in Host : OpenAnonymously(p, {h})
    BY <1>0, <2>1 DEF OpenAnonymously, Away, PicksMine
  <2>2. CASE \E h \in Host, f \in Flow : OpenInFlow(p, f, {h})
    <3>1. PICK h \in Host, f \in Flow : OpenInFlow(p, f, {h})
      BY <2>2
    <3> DEFINE Cands(recent) == {[sid |-> s, used |-> rec[s].last_used_at] :
                                   s \in {t \in recent : Continues(rec[t], clock, {h})}}
    <3>2. PICK recent \in MostRecent(Mine(f)) :
            inv' = [inv EXCEPT ![p] =
              [Away EXCEPT !.stage = "matching", !.token = f, !.host = {h}, !.now = clock,
                           !.ttl = TTL, !.cands = Cands(recent)]]
      BY <3>1 DEF OpenInFlow
    <3>3. \A c \in Cands(recent) : owner[c.sid] = f
      BY DEF MostRecent, Mine
    <3> HIDE DEF Cands
    <3>4. inv'[p] = [Away EXCEPT !.stage = "matching", !.token = f, !.host = {h}, !.now = clock,
                                 !.ttl = TTL, !.cands = Cands(recent)]
      BY <1>0, <3>2
    <3>5. /\ inv'[p].sid = NoSid /\ inv'[p].before = {} /\ inv'[p].token = f
          /\ inv'[p].cands = Cands(recent)
      BY <3>4 DEF Away
    <3>6. QED
      BY <3>3, <3>5 DEF PicksMine
  <2>3. CASE \E h \in Host, s \in Sid : OpenGiven(p, s, {h})
    BY <1>0, <2>3 DEF OpenGiven, Away, PicksMine
  <2>4. CASE \E ttl \in TTLs : CreateSession(p, ttl)
    BY <1>0, <2>4 DEF CreateSession, Away, PicksMine
  <2>5. CASE Clean(p)
    BY <1>0, <2>5 DEF Clean, Away, PicksMine
  <2>6. QED
    BY <2>1, <2>2, <2>3, <2>4, <2>5 DEF Opens
<1>3. QED
  BY <1>1, <1>2 DEF HoldKept, Rightful, Remembers, GivesUp

LEMMA ProvisionsHold ==
  ASSUME OwnInv, NEW p \in Proc, Provisions(p)
  PROVE  HoldKept(p)
<1>0. /\ Typed /\ inv \in [Proc -> Invocation] /\ inv[p] \in Invocation /\ Fits(inv[p])
      /\ rec \in [Sid -> Record] /\ owner \in [Sid -> Token \cup {Unborn}]
  BY SettledFacts DEF OwnInv, InUseInv, Typed, TypeOK
<1>1. ASSUME NEW c \in inv[p].cands, Continue(p, c)
      PROVE  HoldKept(p)
  <2>1. inv[p].stage = "matching"
    BY <1>1 DEF Continue, TriesNext, At
  <2>2. inv[p].token \in Flow /\ inv[p].sid = NoSid /\ inv[p].before = {}
    BY <1>0, <2>1 DEF Fits, Early
  <2>3. /\ inv'[p].sid = c.sid /\ inv'[p].token = inv[p].token /\ inv'[p].cands = {}
        /\ inv'[p].before = inv[p].before
    BY <1>0, <1>1 DEF Continue, Invocation
  <2>4. owner[c.sid] = inv[p].token
    BY DEF OwnInv, OwnersHold
  <2>5. QED
    BY <2>2, <2>3, <2>4 DEF HoldKept, Rightful, PicksMine, Remembers, GivesUp
<1>2. ASSUME NEW s \in Sid, Create(p, s)
      PROVE  HoldKept(p)
  <2>1. inv[p].sid = NoSid /\ inv[p].before = {}
    BY <1>0, <1>2 DEF Create, At, Fits, Early
  <2>2. /\ inv'[p].sid = s /\ inv'[p].token = inv[p].token /\ inv'[p].cands = inv[p].cands
        /\ inv'[p].before = inv[p].before
    BY <1>0, <1>2 DEF Create, Invocation
  <2>3. owner[s] = Unborn /\ owner'[s] = inv[p].token
    BY <1>0, <1>2 DEF Create
  <2>4. PicksMine(p)
    BY <2>2 DEF PicksMine, OwnInv, OwnersHold
  <2>5. QED
    BY <2>1, <2>2, <2>3, <2>4 DEF HoldKept, Rightful, Remembers, GivesUp
<1>3. ASSUME Bump(p)
      PROVE  HoldKept(p)
  <2> DEFINE s == inv[p].sid
  <2>1. s \in Sid
    BY <1>0, <1>3, SettledFacts DEF Bump, At, InSession
  <2>2. /\ inv'[p].sid = s /\ inv'[p].token = inv[p].token /\ inv'[p].cands = inv[p].cands
        /\ inv'[p].before = stamped[s]
    BY <1>0, <1>3 DEF Bump, Invocation
  <2>3. Readable(rec[s]) /\ rec'[s].generation = rec[s].generation + 1
    BY <1>0, <1>3, <2>1 DEF Bump, Record
  <2>4. PicksMine(p)
    BY <2>2 DEF PicksMine, OwnInv, OwnersHold
  <2>5. QED
    BY <2>1, <2>2, <2>3, <2>4 DEF HoldKept, Rightful, SameHold, Remembers, GivesUp
<1>4. ASSUME NEW c \in inv[p].cands, PassOver(p, c)
      PROVE  HoldKept(p)
  BY <1>0, <1>4, GoesOnHold DEF PassOver, SameHold, Invocation
<1>5. ASSUME NothingToContinue(p)
      PROVE  HoldKept(p)
  BY <1>0, <1>5, GoesOnHold DEF NothingToContinue, SameHold, Invocation
<1>6. ASSUME StartSweep(p)
      PROVE  HoldKept(p)
  BY <1>0, <1>6, GoesOnHold DEF StartSweep, SameHold, Invocation
<1>7. ASSUME NEW s \in Sid, SweepOne(p, s)
      PROVE  HoldKept(p)
  BY <1>0, <1>7, GoesOnHold DEF SweepOne, SameHold, Invocation
<1>8. ASSUME BumpFails(p)
      PROVE  HoldKept(p)
  <2>1. inv[p].token \in Flow
    BY <1>0, <1>8 DEF BumpFails, At, Fits
  <2>2. ~Owns(p)
    BY <2>1, FlowAssumption DEF Owns
  <2>3. QED
    BY <1>8, <2>2, EndsHold DEF BumpFails
<1>9. ASSUME CreateFails(p)
      PROVE  HoldKept(p)
  <2>1. inv[p].sid = NoSid
    BY <1>0, <1>9 DEF CreateFails, At, Fits, Early
  <2>2. QED
    BY <1>9, <2>1, EndsHold DEF CreateFails
<1>10. ASSUME EndSweep(p)
      PROVE  HoldKept(p)
  <2>1. CASE inv[p].verb = "clean"
    <3>1. inv[p].token = NoToken
      BY <1>0, <2>1 DEF Fits
    <3>2. ~Owns(p)
      BY <3>1, FlowAssumption DEF Owns
    <3>3. Ends(p)
      BY <1>10, <2>1 DEF EndSweep
    <3>4. QED
      BY <3>2, <3>3, EndsHold
  <2>2. CASE inv[p].verb = "page"
    <3>1. inv' = [inv EXCEPT ![p].stage = "attaching", ![p].now = 0, ![p].todo = {}]
      BY <1>10, <2>2 DEF EndSweep
    <3>2. QED
      BY <1>0, <3>1, GoesOnHold DEF SameHold, Invocation
  <2>3. CASE inv[p].verb = "create"
    <3>1. inv' = [inv EXCEPT ![p].stage = "creating", ![p].now = clock, ![p].todo = {}]
      BY <1>10, <2>3 DEF EndSweep
    <3>2. QED
      BY <1>0, <3>1, GoesOnHold DEF SameHold, Invocation
  <2>4. QED
    BY <1>0, <2>1, <2>2, <2>3, SettledFacts DEF Verbs
<1>11. QED
  BY <1>1, <1>2, <1>3, <1>4, <1>5, <1>6, <1>7, <1>8, <1>9, <1>10 DEF Provisions

LEMMA OperatesHold ==
  ASSUME OwnInv, NEW p \in Proc, Operates(p)
  PROVE  HoldKept(p)
<1>0. /\ Typed /\ inv \in [Proc -> Invocation] /\ inv[p] \in Invocation /\ Fits(inv[p])
      /\ rec \in [Sid -> Record] /\ lost \in [Sid -> {"no", "killed", "interrupted"}]
  BY SettledFacts DEF OwnInv, InUseInv, Typed, TypeOK
<1>1. inv[p].verb = "create" => ~Owns(p)
  BY <1>0, FlowAssumption DEF Fits, Owns
<1>2. ASSUME Attach(p) \/ TakeLease(p) \/ Connect(p) \/ RecordHosts(p)
      PROVE  HoldKept(p)
  <2>1. SameHold(p) /\ inv'[p].cands = inv[p].cands /\ inv'[p].before = inv[p].before
    BY <1>0, <1>2 DEF Attach, TakeLease, Connect, RecordHosts, Goes, SameHold, Invocation
  <2>2. QED
    BY <2>1, GoesOnHold
<1>3. ASSUME LeaseFails(p)
      PROVE  HoldKept(p)
  BY <1>1, <1>3, EndsHold, FinishesHold DEF LeaseFails
<1>4. ASSUME Halt(p) \/ Observe(p) \/ HaltAfterNavigation(p)
      PROVE  HoldKept(p)
  BY <1>4, FinishesHold DEF Halt, Observe, HaltAfterNavigation
<1>5. ASSUME Leave(p)
      PROVE  HoldKept(p)
  <2>1. inv[p].sid \in Sid
    BY <1>0, <1>5, SettledFacts DEF Leave, At, InSession
  <2>2. Owns(p) => rec'[inv[p].sid].status # "active"
    <3>1. CASE Owns(p) /\ Readable(rec[inv[p].sid])
      <4>1. rec'[inv[p].sid] = Ended(rec[inv[p].sid], "closed")
        BY <1>0, <1>5, <2>1, <3>1 DEF Leave
      <4>2. QED
        BY <1>0, <2>1, <4>1 DEF Ended, Record
    <3>2. CASE Owns(p) /\ ~Readable(rec[inv[p].sid])
      BY <1>5, <3>2 DEF Leave, Readable
    <3>3. QED
      BY <3>1, <3>2
  <2>3. QED
    BY <1>5, <2>2, EndsHold DEF Leave
<1>6. ASSUME Release(p)
      PROVE  HoldKept(p)
  <2>1. inv[p].verb = "create"
    BY <1>0, <1>6 DEF Release, At, Fits
  <2>2. QED
    BY <1>1, <1>6, <2>1, EndsHold DEF Release
<1>7. ASSUME Killed(p) \/ Interrupted(p)
      PROVE  HoldKept(p)
  <2>1. CASE Finishes(p)
    BY <2>1, FinishesHold
  <2>2. ASSUME NEW how \in {"killed", "interrupted"}, Ends(p), LosesSession(p, how)
        PROVE  HoldKept(p)
    <3>1. Owns(p) /\ inv[p].sid # NoSid => lost'[inv[p].sid] # "no"
      BY <1>0, <2>2 DEF LosesSession, Invocation
    <3>2. QED
      BY <2>2, <3>1, EndsHold
  <2>3. QED
    BY <1>7, <2>1, <2>2 DEF Killed, Interrupted
<1>8. QED
  BY <1>2, <1>3, <1>4, <1>5, <1>6, <1>7 DEF Operates

\* What was lost stays lost.
LEMMA LostStays ==
  ASSUME Typed, [Next]_vars, NEW s \in Sid, lost[s] # "no"
  PROVE  lost'[s] # "no"
<1>1. ASSUME NEW p \in Proc, Opens(p)
      PROVE  lost' = lost
  BY <1>1 DEF Opens, OpenAnonymously, OpenInFlow, OpenGiven, CreateSession, Clean
<1>2. ASSUME NEW p \in Proc, Provisions(p)
      PROVE  lost' = lost
  BY <1>2
  DEF Provisions, Continue, PassOver, NothingToContinue, Bump, BumpFails, Create, SweepOne,
      CreateFails, StartSweep, EndSweep
<1>3. ASSUME NEW p \in Proc, Operates(p)
      PROVE  lost' = lost \/ \E how \in {"killed", "interrupted"} : LosesSession(p, how)
  BY <1>3
  DEF Operates, Attach, TakeLease, LeaseFails, Connect, Halt, RecordHosts, Observe,
      HaltAfterNavigation, Leave, Release, Killed, Interrupted
<1>4. ASSUME NEW p \in Proc, NEW how \in {"killed", "interrupted"}, LosesSession(p, how)
      PROVE  lost'[s] # "no"
  BY <1>4 DEF LosesSession, Typed, TypeOK
<1>5. (\E t \in Sid : CloseSession(t)) \/ Tick \/ UNCHANGED vars => lost' = lost
  BY DEF CloseSession, Tick, vars
<1>6. lost' = lost \/ \E p \in Proc, how \in {"killed", "interrupted"} : LosesSession(p, how)
  BY <1>1, <1>2, <1>3, <1>5 DEF Next
<1>7. QED
  BY <1>4, <1>6

-----------------------------------------------------------------------------
(* The invariant *)

\* One invocation moves, or none.
LEMMA MoversHold ==
  ASSUME OwnInv, [Next]_vars
  PROVE  /\ \A p \in Proc : inv'[p] = inv[p] \/ HoldKept(p)
         /\ \A p, q \in Proc : p # q => inv'[p] = inv[p] \/ inv'[q] = inv[q]
<1>1. inv \in [Proc -> Invocation]
  BY DEF OwnInv, InUseInv, Typed, TypeOK
<1>2. CASE \E r \in Proc : Opens(r) \/ Provisions(r) \/ Operates(r)
  BY <1>1, <1>2, OneMoves, OpensHold, ProvisionsHold, OperatesHold
<1>3. CASE inv' = inv
  BY <1>3
<1>4. QED
  BY <1>2, <1>3 DEF Next, CloseSession, Tick, vars

LEMMA OwnInit == Init => OwnInv
<1> SUFFICES ASSUME Init
             PROVE  OwnInv
  OBVIOUS
<1>1. InUseInv
  BY InUseInit
<1>2. /\ \A p \in Proc : inv[p].sid = NoSid /\ inv[p].cands = {} /\ inv[p].before = {}
      /\ \A s \in Sid : rec[s].status = "absent" /\ stamped[s] = {}
  BY DEF Init, NoRecord, Away
<1>3. QED
  BY <1>1, <1>2
  DEF OwnInv, OwnersHold, ThrowawaysApart, StampsPast, ReferencesGoStale, ThrowawayEnds,
      Leaks, Readable

\* An invocation's session is a minted one, before a step and after it.
LEMMA HeldBorn ==
  ASSUME OwnInv, NEW p \in Proc, inv[p].sid # NoSid
  PROVE  inv[p].sid \in Sid /\ owner[inv[p].sid] # Unborn
  BY DEF OwnInv, InUseInv, Born, Typed, TypeOK, Invocation

LEMMA OwnersHoldStep ==
  ASSUME OwnInv, [Next]_vars
  PROVE  OwnersHold'
<1>0. /\ InUseInv /\ Typed'
  BY TypeStep DEF OwnInv, InUseInv
<1>1. SUFFICES ASSUME NEW p \in Proc
               PROVE  /\ inv'[p].sid # NoSid /\ inv'[p].token # NoToken
                           => owner'[inv'[p].sid] = inv'[p].token
                      /\ \A c \in inv'[p].cands : owner'[c.sid] = inv'[p].token
  BY DEF OwnersHold
<1>2. /\ inv'[p].sid # NoSid => inv'[p].sid \in Sid
      /\ inv'[p].token \in Token
      /\ \A c \in inv'[p].cands : c.sid \in Sid
  BY <1>0 DEF Typed, TypeOK, Invocation, Candidate
<1>3. Unborn \notin Token
  BY FlowAssumption DEF Token
<1>4. \A s \in Sid : owner[s] # Unborn => owner'[s] = owner[s]
  BY <1>0, OwnersStay
<1>5. CASE inv'[p] = inv[p]
  BY <1>2, <1>3, <1>4, <1>5, HeldBorn DEF OwnInv, OwnersHold
<1>6. CASE HoldKept(p)
  <2>1. \A c \in inv'[p].cands : owner'[c.sid] = inv'[p].token
    BY <1>2, <1>3, <1>4, <1>6 DEF HoldKept, PicksMine
  <2>2. ASSUME inv'[p].sid # NoSid, inv'[p].token # NoToken
        PROVE  owner'[inv'[p].sid] = inv'[p].token
    <3>1. CASE SameHold(p)
      BY <1>4, <2>2, <3>1, HeldBorn DEF SameHold, OwnInv, OwnersHold
    <3>2. CASE inv'[p].token \in Flow /\ owner[inv'[p].sid] = inv'[p].token
      BY <1>2, <1>3, <1>4, <2>2, <3>2
    <3>3. QED
      BY <1>6, <2>2, <3>1, <3>2 DEF HoldKept, Rightful
  <2>3. QED
    BY <2>1, <2>2
<1>7. QED
  BY <1>5, <1>6, MoversHold

LEMMA ApartStep ==
  ASSUME OwnInv, [Next]_vars
  PROVE  ThrowawaysApart'
\* Whoever moves into a throwaway session made it, so nobody else is in it.
<1>1. ASSUME NEW p \in Proc, NEW q \in Proc, inv'[q] = inv[q], p # q,
             inv'[p].sid # NoSid, inv'[p].sid = inv'[q].sid, Owns(p)', Owns(q)'
      PROVE  FALSE
  <2>1. owner[inv'[p].sid] # Unborn
    BY <1>1, HeldBorn
  <2>2. inv'[p].token = Anonymous /\ inv[q].token = Anonymous
    BY <1>1 DEF Owns
  <2>3. CASE SameHold(p) \/ inv'[p] = inv[p]
    BY <1>1, <2>2, <2>3 DEF SameHold, OwnInv, ThrowawaysApart, Owns
  <2>4. CASE HoldKept(p)
    BY <1>1, <2>1, <2>2, <2>3, <2>4, FlowAssumption DEF HoldKept, Rightful
  <2>5. QED
    BY <2>3, <2>4, MoversHold
<1>2. QED
  BY <1>1, MoversHold DEF ThrowawaysApart

LEMMA StampsStep ==
  ASSUME OwnInv, [Next]_vars
  PROVE  StampsPast'
<1>0. InUseInv /\ Typed /\ Typed'
  BY TypeStep DEF OwnInv, InUseInv
<1>1. SUFFICES ASSUME NEW s \in Sid
               PROVE  /\ owner'[s] = Unborn => stamped'[s] = {}
                      /\ Readable(rec'[s]) => \A g \in stamped'[s] : g <= rec'[s].generation
  BY DEF StampsPast, Readable
<1>2. /\ rec[s].generation \in Nat /\ rec'[s].generation \in Nat
      /\ stamped[s] \subseteq Nat
  BY <1>0 DEF Typed, TypeOK, Record
<1>3. CASE owner[s] = Unborn
  <2>1. stamped'[s] = {}
    BY <1>0, <1>3, StampsPut DEF OwnInv, StampsPast
  <2>2. QED
    BY <2>1
<1>4. CASE owner[s] # Unborn
  <2>1. owner'[s] # Unborn
    BY <1>0, <1>4, OwnersStay
  <2>2. ASSUME Readable(rec'[s]), NEW g \in stamped'[s]
        PROVE  g <= rec'[s].generation
    <3>1. Readable(rec[s]) /\ rec'[s].generation >= rec[s].generation
      BY <1>0, <1>4, <2>2, GenerationsRise DEF Rises
    <3>2. g \in stamped[s] \/ g = rec[s].generation
      BY <1>0, <2>2, StampsPut
    <3>3. g <= rec[s].generation
      BY <1>2, <3>1, <3>2 DEF OwnInv, StampsPast
    <3>4. g \in Nat
      BY <1>2, <3>2
    <3>5. QED
      BY <1>2, <3>1, <3>3, <3>4
  <2>3. QED
    BY <2>1, <2>2
<1>5. QED
  BY <1>3, <1>4

LEMMA StaleStep ==
  ASSUME OwnInv, [Next]_vars
  PROVE  ReferencesGoStale'
<1>0. InUseInv /\ Typed /\ Typed' /\ inv' \in [Proc -> Settled]
  BY TypeStep DEF OwnInv, InUseInv, Typed
<1>1. SUFFICES ASSUME NEW p \in Proc, NEW g \in inv'[p].before, Readable(rec'[inv'[p].sid])
               PROVE  rec'[inv'[p].sid].generation > g
  BY DEF ReferencesGoStale, Readable
<1> DEFINE s == inv'[p].sid
<1>2. s \in Sid /\ g \in Nat
  <2>1. inv'[p] \in Invocation /\ Fits(inv'[p])
    BY <1>0 DEF Settled
  <2>2. inv'[p].verb = "page" /\ inv'[p].stage \notin Early
    BY <1>1, <2>1 DEF Fits
  <2>3. QED
    BY <1>1, <2>1, <2>2 DEF Fits, Invocation, Stages, InSession, Early
<1>3. /\ rec[s].generation \in Nat /\ rec'[s].generation \in Nat
  BY <1>0, <1>2 DEF Typed, TypeOK, Record
<1>4. CASE inv'[p].before = inv[p].before /\ inv'[p].sid = inv[p].sid
  <2>1. owner[s] # Unborn
    BY <1>2, <1>4, HeldBorn, FlowAssumption
  <2>2. Readable(rec[s]) /\ rec'[s].generation >= rec[s].generation
    BY <1>0, <1>1, <1>2, <2>1, GenerationsRise DEF Rises
  <2>3. rec[s].generation > g
    BY <1>1, <1>4, <2>2 DEF OwnInv, ReferencesGoStale
  <2>4. QED
    BY <1>2, <1>3, <2>2, <2>3
<1>5. CASE /\ inv'[p].before = stamped[inv[p].sid] /\ s = inv[p].sid
           /\ Readable(rec[s]) /\ rec'[s].generation = rec[s].generation + 1
  <2>1. g <= rec[s].generation
    BY <1>1, <1>2, <1>5 DEF OwnInv, StampsPast
  <2>2. QED
    BY <1>2, <1>3, <1>5, <2>1
<1>6. CASE inv'[p] = inv[p]
  BY <1>4, <1>6
<1>7. CASE HoldKept(p)
  BY <1>1, <1>4, <1>5, <1>7 DEF HoldKept, Remembers
<1>8. QED
  BY <1>6, <1>7, MoversHold

LEMMA ThrowawayStep ==
  ASSUME OwnInv, [Next]_vars
  PROVE  ThrowawayEnds'
<1>0. InUseInv /\ Typed
  BY DEF OwnInv, InUseInv
<1>1. SUFFICES ASSUME NEW s \in Sid, owner'[s] = Anonymous, rec'[s].status = "active",
                      lost'[s] = "no"
               PROVE  \E p \in Proc : inv'[p].sid = s /\ inv'[p].token = Anonymous
  BY DEF ThrowawayEnds, Leaks, Owns
<1>2. CASE owner'[s] # owner[s]
  BY <1>0, <1>1, <1>2, OwnersStay
<1>3. CASE owner'[s] = owner[s]
  <2>1. rec[s].status = "active"
    BY <1>0, <1>1, <1>3, RecordsLive DEF LivesOn, Renews
  <2>2. lost[s] = "no"
    BY <1>0, <1>1, LostStays
  <2>3. PICK p \in Proc : inv[p].sid = s /\ Owns(p)
    BY <1>1, <1>3, <2>1, <2>2 DEF OwnInv, ThrowawayEnds, Leaks
  <2>4. CASE HoldKept(p)
    <3>1. inv[p].sid # NoSid
      BY <2>3, FlowAssumption
    <3>2. SameHold(p)
      BY <1>1, <2>3, <2>4, <3>1 DEF HoldKept, GivesUp
    <3>3. QED
      BY <2>3, <3>2 DEF SameHold, Owns
  <2>5. QED
    BY <2>3, <2>4, MoversHold DEF Owns
<1>4. QED
  BY <1>2, <1>3

LEMMA OwnAlways == Spec => []OwnInv
<1>1. OwnInv /\ [Next]_vars => OwnInv'
  BY InUseStep, OwnersHoldStep, ApartStep, StampsStep, StaleStep, ThrowawayStep DEF OwnInv
<1>2. QED
  BY OwnInit, <1>1, PTL DEF Spec

-----------------------------------------------------------------------------
(* The theorems *)

\* No throwaway session is handed out twice and no flow gets another's,
\* however many invocations open, continue and sweep sessions.
THEOREM SessionsNotShared == Spec => []NotShared
<1>1. OwnInv => NotShared
  <2>1. SUFFICES ASSUME OwnInv, NEW p \in Proc, NEW q \in Proc, p # q,
                        inv[p].sid # NoSid, inv[p].sid = inv[q].sid,
                        inv[p].token # NoToken, inv[q].token # NoToken
                 PROVE  inv[p].token = inv[q].token /\ inv[p].token \in Flow
    BY DEF NotShared
  <2>2. inv[p].token = inv[q].token
    BY <2>1 DEF OwnInv, OwnersHold
  <2>3. inv[p].token # Anonymous
    BY <2>1, <2>2 DEF OwnInv, ThrowawaysApart, Owns
  <2>4. inv[p].token \in Token
    BY <2>1, SettledFacts DEF OwnInv, InUseInv
  <2>5. QED
    BY <2>1, <2>2, <2>3, <2>4 DEF Token
<1>2. QED
  BY OwnAlways, <1>1, PTL

\* A throwaway session left active has an invocation that will close it, or one
\* that was cut short.
THEOREM ThrowawaysEnd == Spec => []ThrowawayEnds
<1>1. OwnInv => ThrowawayEnds
  BY DEF OwnInv
<1>2. QED
  BY OwnAlways, <1>1, PTL

\* A session that is continued is at a generation above all earlier stamps,
\* whatever other invocations of its flow observe in between.
THEOREM OldReferencesStale == Spec => []ReferencesGoStale
<1>1. OwnInv => ReferencesGoStale
  BY DEF OwnInv
<1>2. QED
  BY OwnAlways, <1>1, PTL
=============================================================================
