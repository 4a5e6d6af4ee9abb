------------------------- MODULE StoreLockingProofs -------------------------
(***************************************************************************)
(* Proofs about StoreLocking, for any number of processes and lock files.  *)
(*                                                                         *)
(* That a process inside holds its lock needs nothing.  That this excludes *)
(* the others needs all of them to have opened the same file, and they     *)
(* have until the first purge unlinks it.  From then on exclusion is gone  *)
(* for good, and what saves the record is that there is nothing left to    *)
(* work on: no record, nobody about to write one, and, when ids are not    *)
(* reused, nobody who will ever create one.                                *)
(***************************************************************************)
EXTENDS StoreLocking, TLAPS

\* Every lock file that is open is the one the path names.
Linked == \A p \in Proc : fd[p] \in {NoInode, lockfile}

\* The one create there can be is over.
Made == born /\ \A p \in Proc : verb[p] = "create" => pc[p] = "unlock"

\* Nothing to work on, and nobody at work.
Gone == Made /\ ~file.exists /\ \A p \in Proc : pc[p] \notin {"write", "unlink_record"}

\* What a process on its way into the lock has and has not.
AtTheDoor ==
  \A p \in Proc :
    /\ pc[p] = "opened" => fd[p] \in Inode
    /\ pc[p] = "idle" => fd[p] = NoInode /\ verb[p] = "clean"

OneCreate ==
  /\ \A p \in Proc : verb[p] = "create" => born
  /\ \A p, q \in Proc : verb[p] = "create" /\ verb[q] = "create" => p = q

\* A process inside knows what the record is until it has changed it.
KnowsRecord ==
  /\ file.exists => Made
  /\ \A p \in Proc :
       /\ pc[p] = "write" =>
            \/ verb[p] = "create" /\ ~file.exists
            \/ verb[p] \in {"update", "close"} /\ file.exists /\ copy[p] = file
       /\ pc[p] = "unlink_record" => verb[p] = "clean" /\ file.exists /\ file.ended
       /\ pc[p] = "unlink_lock" => verb[p] = "clean" /\ ~file.exists /\ Made


-----------------------------------------------------------------------------
(* Types *)

LEMMA SerialTypes ==
  /\ Serial!NoFile \in File
  /\ Serial!Created \in File
  /\ \A f \in File : Serial!Updated(f) \in File /\ Serial!Closed(f) \in File
<1>1. Serial!NoFile \in File /\ Serial!Created \in File
  BY DEF Serial!NoFile, Serial!Created, File
<1>2. ASSUME NEW f \in File
      PROVE  Serial!Updated(f) \in File /\ Serial!Closed(f) \in File
  <2>1. f.writes + 1 \in Nat
    BY DEF File
  <2>2. [f EXCEPT !.writes = f.writes + 1] \in File
    BY <2>1 DEF File
  <2>3. [f EXCEPT !.writes = f.writes + 1, !.ended = TRUE] \in File
    BY <2>1 DEF File
  <2>4. QED
    BY <2>2, <2>3 DEF Serial!Updated, Serial!Closed
<1>3. QED
  BY <1>1, <1>2

LEMMA LetGoType ==
  ASSUME TypeOK, NEW p \in Proc, LetGo(p)
  PROVE  TypeOK'
  BY SerialTypes DEF TypeOK, LetGo, Goto, Labels, Verbs

\* Every variable keeps to its type.  (_locked)
THEOREM LockingTypeCorrect == Spec => []TypeOK
<1>1. Init => TypeOK
  BY SerialTypes DEF Init, TypeOK, Labels, Verbs
<1>2. TypeOK /\ [Next]_vars => TypeOK'
  <2> SUFFICES ASSUME TypeOK, [Next]_vars
               PROVE  TypeOK'
    OBVIOUS
  <2>1. ASSUME NEW p \in Proc, NEW v \in Verbs, NEW i \in Inode, Open(p, v, i)
        PROVE  TypeOK'
    BY <2>1 DEF Open, Opens, Goto, TypeOK, Labels
  <2>2. ASSUME NEW p \in Proc, Flock(p)
        PROVE  TypeOK'
    BY <2>2 DEF Flock, Goto, TypeOK, Labels, Critical
  <2>3. ASSUME NEW p \in Proc, NothingToDo(p) \/ DecidePurge(p)
        PROVE  TypeOK'
    BY <2>3 DEF NothingToDo, DecidePurge, Goto, TypeOK, Labels, Critical
  <2>4. ASSUME NEW p \in Proc, ReadAndAct(p)
        PROVE  TypeOK'
    BY <2>4 DEF ReadAndAct, Goto, TypeOK, Labels, Critical
  <2>5. ASSUME NEW p \in Proc, Replace(p)
        PROVE  TypeOK'
    <3>1. copy[p] \in File
      BY DEF TypeOK
    <3>2. file' \in File
      BY <2>5, <3>1, SerialTypes DEF Replace
    <3>3. QED
      BY <2>5, <3>2 DEF Replace, Goto, TypeOK, Labels, Critical
  <2>6. ASSUME NEW p \in Proc, UnlinkRecord(p) \/ UnlinkLock(p)
        PROVE  TypeOK'
    BY <2>6, SerialTypes DEF UnlinkRecord, UnlinkLock, Goto, TypeOK, Labels, Critical
  <2>7. ASSUME NEW p \in Proc, Unlock(p) \/ Crash(p)
        PROVE  TypeOK'
    BY <2>7, LetGoType DEF Unlock, Crash
  <2>8. CASE UNCHANGED vars
    BY <2>8 DEF vars, TypeOK
  <2>9. QED
    BY <2>1, <2>2, <2>3, <2>4, <2>5, <2>6, <2>7, <2>8 DEF Next, Step
<1>3. QED
  BY <1>1, <1>2, PTL DEF Spec

-----------------------------------------------------------------------------
(* The lock and the processes inside *)

Door == LockHeldInsideOnly /\ AtTheDoor

LEMMA DoorInit == Init => Door
  BY LockingAssumption DEF Init, Door, LockHeldInsideOnly, AtTheDoor, Critical

LEMMA DoorStep == TypeOK /\ Door /\ [Next]_vars => Door'
<1> SUFFICES ASSUME TypeOK, Door, [Next]_vars
             PROVE  Door'
  OBVIOUS
<1> USE LockingAssumption DEF Door
<1>1. ASSUME NEW p \in Proc, NEW v \in Verbs, NEW i \in Inode, Open(p, v, i)
      PROVE  Door'
  BY <1>1 DEF Open, Opens, Goto, TypeOK, LockHeldInsideOnly, AtTheDoor, Critical
<1>2. ASSUME NEW p \in Proc, Flock(p)
      PROVE  Door'
  <2>1. fd[p] \in Inode
    BY <1>2 DEF Flock, AtTheDoor
  <2>2. LockHeldInsideOnly'
    BY <1>2, <2>1 DEF Flock, Goto, TypeOK, LockHeldInsideOnly, Critical
  <2>3. AtTheDoor'
    BY <1>2 DEF Flock, Goto, TypeOK, AtTheDoor
  <2>4. QED
    BY <2>2, <2>3
<1>3. ASSUME NEW p \in Proc, NEW l \in Critical, pc[p] \in Critical, pc' = [pc EXCEPT ![p] = l],
             UNCHANGED <<flock, fd, verb>>
      PROVE  Door'
  BY <1>3 DEF TypeOK, LockHeldInsideOnly, AtTheDoor, Critical
<1>4. ASSUME NEW p \in Proc,
             \/ NothingToDo(p) \/ ReadAndAct(p) \/ Replace(p) \/ DecidePurge(p)
             \/ UnlinkRecord(p) \/ UnlinkLock(p)
      PROVE  Door'
  <2>1. PICK l \in Critical : pc' = [pc EXCEPT ![p] = l]
    BY <1>4 DEF NothingToDo, ReadAndAct, Replace, DecidePurge, UnlinkRecord, UnlinkLock, Goto,
                Critical
  <2>2. pc[p] \in Critical /\ UNCHANGED <<flock, fd, verb>>
    BY <1>4 DEF NothingToDo, ReadAndAct, Replace, DecidePurge, UnlinkRecord, UnlinkLock, Critical
  <2>3. QED
    BY <1>3, <2>1, <2>2
<1>5. ASSUME NEW p \in Proc, LetGo(p)
      PROVE  Door'
  <2>1. LockHeldInsideOnly'
    BY <1>5 DEF LetGo, Goto, TypeOK, LockHeldInsideOnly, Critical
  <2>2. AtTheDoor'
    BY <1>5 DEF LetGo, Goto, TypeOK, AtTheDoor
  <2>3. QED
    BY <2>1, <2>2
<1>6. CASE UNCHANGED vars
  BY <1>6 DEF vars, LockHeldInsideOnly, AtTheDoor
<1>7. QED
  BY <1>1, <1>2, <1>4, <1>5, <1>6 DEF Next, Step, Unlock, Crash

\* Every process inside holds the lock of the file it opened, and nobody else
\* holds a lock: crashes leave none behind, whether or not ids are reused.
\* (_locked)
THEOREM LocksHeldInside == Spec => []LockHeldInsideOnly
<1>1. Init => Door
  BY DoorInit
<1>2. TypeOK /\ Door /\ [Next]_vars => Door'
  BY DoorStep
<1>3. Door => LockHeldInsideOnly
  BY DEF Door
<1>4. QED
  BY <1>1, <1>2, <1>3, LockingTypeCorrect, PTL DEF Spec

-----------------------------------------------------------------------------
(* When ids are not reused *)

LEMMA AloneInside ==
  ASSUME TypeOK, Door, Linked,
         NEW p \in Proc, NEW q \in Proc, pc[p] \in Critical, pc[q] \in Critical
  PROVE  p = q
<1>1. fd[p] \in Inode /\ flock[fd[p]] = p /\ fd[q] \in Inode /\ flock[fd[q]] = q
  BY DEF Door, LockHeldInsideOnly
<1>2. fd[p] = lockfile /\ fd[q] = lockfile
  BY <1>1, LockingAssumption DEF Linked
<1>3. QED
  BY <1>1, <1>2

LEMMA OneCreateStep ==
  ASSUME ~Reuse
  PROVE  TypeOK /\ OneCreate /\ [Next]_vars => OneCreate'
<1> SUFFICES ASSUME TypeOK, OneCreate, [Next]_vars
             PROVE  OneCreate'
  OBVIOUS
<1>1. ASSUME NEW p \in Proc, NEW v \in Verbs, NEW i \in Inode, Open(p, v, i)
      PROVE  OneCreate'
  BY <1>1 DEF Open, TypeOK, OneCreate
<1>2. CASE UNCHANGED <<verb, born>>
  BY <1>2 DEF OneCreate
<1>3. ASSUME NEW p \in Proc, LetGo(p)
      PROVE  OneCreate'
  BY <1>3 DEF LetGo, TypeOK, OneCreate
<1>4. QED
  BY <1>1, <1>2, <1>3 DEF Next, Step, Flock, NothingToDo, ReadAndAct, Replace, DecidePurge,
                          UnlinkRecord, UnlinkLock, Unlock, Crash, vars

LEMMA MadeStep ==
  ASSUME ~Reuse
  PROVE  TypeOK /\ Made /\ [Next]_vars => Made'
<1> SUFFICES ASSUME TypeOK, Made, [Next]_vars
             PROVE  Made'
  OBVIOUS
<1>1. ASSUME NEW p \in Proc, NEW v \in Verbs, NEW i \in Inode, Open(p, v, i)
      PROVE  Made'
  BY <1>1 DEF Open, Goto, TypeOK, Made
<1>2. CASE UNCHANGED vars
  BY <1>2 DEF Made, vars
<1>3. ASSUME NEW p \in Proc, LetGo(p)
      PROVE  Made'
  BY <1>3 DEF LetGo, Goto, TypeOK, Made
<1>4. ASSUME NEW p \in Proc, NEW l, pc[p] # "unlock", pc' = [pc EXCEPT ![p] = l],
             UNCHANGED <<verb, born>>
      PROVE  Made'
  BY <1>4 DEF Made, TypeOK
<1>5. ASSUME NEW p \in Proc,
             \/ Flock(p) \/ NothingToDo(p) \/ ReadAndAct(p) \/ Replace(p) \/ DecidePurge(p)
             \/ UnlinkRecord(p) \/ UnlinkLock(p)
      PROVE  Made'
  BY <1>4, <1>5 DEF Flock, NothingToDo, ReadAndAct, Replace, DecidePurge, UnlinkRecord,
                    UnlinkLock, Goto
<1>6. QED
  BY <1>1, <1>2, <1>3, <1>5 DEF Next, Step, Unlock, Crash

LEMMA LinkedStep ==
  ASSUME ~Reuse
  PROVE  TypeOK /\ Door /\ OneCreate /\ (Linked \/ Gone) /\ KnowsRecord /\ [Next]_vars
           => (Linked \/ Gone)'
<1> SUFFICES ASSUME TypeOK, Door, OneCreate, Linked \/ Gone, KnowsRecord, [Next]_vars
             PROVE  (Linked \/ Gone)'
  OBVIOUS
<1>1. Made => Made'
  BY MadeStep
<1>2. ASSUME NEW p \in Proc, NEW v \in Verbs, NEW i \in Inode, Open(p, v, i)
      PROVE  (Linked \/ Gone)'
  <2>1. CASE Linked
    BY <1>2, <2>1 DEF Open, Opens, TypeOK, Linked
  <2>2. CASE Gone
    BY <1>1, <1>2, <2>2 DEF Open, Goto, TypeOK, Gone
  <2>3. QED
    BY <2>1, <2>2
<1>3. ASSUME NEW p \in Proc, LetGo(p)
      PROVE  (Linked \/ Gone)'
  <2>1. CASE Linked
    BY <1>3, <2>1 DEF LetGo, TypeOK, Linked
  <2>2. CASE Gone
    BY <1>1, <1>3, <2>2 DEF LetGo, Goto, TypeOK, Gone
  <2>3. QED
    BY <2>1, <2>2
<1>4. ASSUME NEW p \in Proc,
             \/ Flock(p) \/ NothingToDo(p) \/ ReadAndAct(p) \/ Replace(p) \/ DecidePurge(p)
             \/ UnlinkRecord(p)
      PROVE  (Linked \/ Gone)'
  <2>1. UNCHANGED <<lockfile, fd>>
    BY <1>4 DEF Flock, NothingToDo, ReadAndAct, Replace, DecidePurge, UnlinkRecord
  <2>2. CASE Linked
    BY <2>1, <2>2 DEF Linked
  <2>3. CASE Gone
    <3>1. ~ReadAndAct(p) /\ ~Replace(p) /\ ~DecidePurge(p) /\ ~UnlinkRecord(p)
      BY <2>3 DEF Gone, Made, ReadAndAct, Replace, DecidePurge, UnlinkRecord
    <3>2. file' = file /\ \E l \in {"locked", "unlock"} : pc' = [pc EXCEPT ![p] = l]
      BY <1>4, <3>1 DEF Flock, NothingToDo, Goto
    <3>3. QED
      BY <1>1, <2>3, <3>2 DEF Gone, TypeOK
  <2>4. QED
    BY <2>2, <2>3
<1>5. ASSUME NEW p \in Proc, UnlinkLock(p)
      PROVE  (Linked \/ Gone)'
  <2>1. ~file'.exists /\ Made'
    BY <1>1, <1>5 DEF UnlinkLock, KnowsRecord
  <2>2. \A q \in Proc : pc[q] \in {"write", "unlink_record"} => FALSE
    <3>1. CASE Linked
      BY <1>5, <3>1, AloneInside DEF UnlinkLock, Critical
    <3>2. CASE Gone
      BY <3>2 DEF Gone
    <3>3. QED
      BY <3>1, <3>2
  <2>3. QED
    BY <1>5, <2>1, <2>2 DEF UnlinkLock, Goto, TypeOK, Gone
<1>6. CASE UNCHANGED vars
  BY <1>6 DEF vars, Linked, Gone, Made
<1>7. QED
  BY <1>2, <1>3, <1>4, <1>5, <1>6 DEF Next, Step, Unlock, Crash

LEMMA KnowsStep ==
  ASSUME ~Reuse
  PROVE  TypeOK /\ Door /\ OneCreate /\ (Linked \/ Gone) /\ KnowsRecord /\ [Next]_vars
           => KnowsRecord'
<1> SUFFICES ASSUME TypeOK, Door, OneCreate, Linked \/ Gone, KnowsRecord, [Next]_vars
             PROVE  KnowsRecord'
  OBVIOUS
<1>1. Made => Made'
  BY MadeStep
<1>2. ASSUME NEW p \in Proc, NEW v \in Verbs, NEW i \in Inode, Open(p, v, i)
      PROVE  KnowsRecord'
  BY <1>1, <1>2 DEF Open, Goto, TypeOK, KnowsRecord
<1>3. ASSUME NEW p \in Proc, LetGo(p)
      PROVE  KnowsRecord'
  BY <1>1, <1>3 DEF LetGo, Goto, TypeOK, KnowsRecord
<1>4. ASSUME NEW p \in Proc, Flock(p) \/ NothingToDo(p)
      PROVE  KnowsRecord'
  BY <1>1, <1>4 DEF Flock, NothingToDo, Goto, TypeOK, KnowsRecord
<1>5. ASSUME NEW p \in Proc, ReadAndAct(p)
      PROVE  KnowsRecord'
  BY <1>1, <1>5 DEF ReadAndAct, Goto, TypeOK, KnowsRecord
<1>6. ASSUME NEW p \in Proc, DecidePurge(p)
      PROVE  KnowsRecord'
  BY <1>1, <1>6 DEF DecidePurge, Goto, TypeOK, KnowsRecord
<1>7. ASSUME NEW p \in Proc, NEW q \in Proc, Replace(p) \/ UnlinkRecord(p),
             pc[q] \in {"write", "unlink_record", "unlink_lock"}
      PROVE  q = p
  <2>1. pc[p] \in {"write", "unlink_record"}
    BY <1>7 DEF Replace, UnlinkRecord
  <2>2. Linked
    BY <2>1 DEF Gone
  <2>3. QED
    BY <1>7, <2>1, <2>2, AloneInside DEF Critical
<1>8. ASSUME NEW p \in Proc, Replace(p)
      PROVE  KnowsRecord'
  <2>1. Made'
    <3>1. CASE verb[p] = "create"
      BY <1>8, <3>1 DEF Replace, Goto, TypeOK, OneCreate, Made
    <3>2. CASE verb[p] # "create"
      BY <1>1, <1>8, <3>2 DEF Replace, KnowsRecord
    <3>3. QED
      BY <3>1, <3>2
  <2>2. \A q \in Proc : pc'[q] \notin {"write", "unlink_record", "unlink_lock"}
    BY <1>7, <1>8 DEF Replace, Goto, TypeOK
  <2>3. QED
    BY <2>1, <2>2 DEF KnowsRecord
<1>9. ASSUME NEW p \in Proc, UnlinkRecord(p)
      PROVE  KnowsRecord'
  <2>1. Made' /\ ~file'.exists
    BY <1>1, <1>9 DEF UnlinkRecord, KnowsRecord, Serial!NoFile
  <2>2. verb'[p] = "clean"
    BY <1>9 DEF UnlinkRecord, KnowsRecord
  <2>3. \A q \in Proc : q # p => pc'[q] \notin {"write", "unlink_record", "unlink_lock"}
    BY <1>7, <1>9 DEF UnlinkRecord, Goto, TypeOK
  <2>4. pc'[p] = "unlink_lock"
    BY <1>9 DEF UnlinkRecord, Goto, TypeOK
  <2>5. QED
    BY <2>1, <2>2, <2>3, <2>4 DEF KnowsRecord
<1>10. ASSUME NEW p \in Proc, UnlinkLock(p)
       PROVE  KnowsRecord'
  BY <1>1, <1>10 DEF UnlinkLock, Goto, TypeOK, KnowsRecord
<1>11. CASE UNCHANGED vars
  BY <1>11 DEF vars, KnowsRecord, Made
<1>12. QED
  BY <1>2, <1>3, <1>4, <1>5, <1>6, <1>8, <1>9, <1>10, <1>11 DEF Next, Step, Unlock, Crash

LockingInv == Door /\ OneCreate /\ (Linked \/ Gone) /\ KnowsRecord

LEMMA LockingInvInit == Init => LockingInv
<1> SUFFICES ASSUME Init PROVE LockingInv
  OBVIOUS
<1>1. OneCreate /\ Linked /\ KnowsRecord
  BY DEF Init, OneCreate, Linked, KnowsRecord, Serial!NoFile
<1>2. QED
  BY <1>1, DoorInit DEF LockingInv

\* What holds together the cases before and after the first purge.
\* (_locked, _purge_unlocked)
THEOREM LockingInvariant ==
  ASSUME ~Reuse
  PROVE  Spec => []LockingInv
<1>1. Init => LockingInv
  BY LockingInvInit
<1>2. TypeOK /\ LockingInv /\ [Next]_vars => LockingInv'
  BY DoorStep, OneCreateStep, LinkedStep, KnowsStep DEF LockingInv
<1>3. QED
  BY <1>1, <1>2, LockingTypeCorrect, PTL DEF Spec

\* When ids are not reused, two processes are inside at once only where there is
\* no record.  (_locked, _purge_unlocked)
THEOREM ExclusiveWhereItMatters ==
  ASSUME ~Reuse
  PROVE  Spec => []ExclusiveOverARecord
<1>1. TypeOK /\ LockingInv => ExclusiveOverARecord
  BY AloneInside DEF LockingInv, ExclusiveOverARecord, Gone
<1>2. QED
  BY <1>1, LockingTypeCorrect, LockingInvariant, PTL

LEMMA SerialStep ==
  TypeOK /\ LockingInv /\ [Next]_vars => [Serial!Next]_file
<1> SUFFICES ASSUME TypeOK, LockingInv, [Next]_vars
             PROVE  [Serial!Next]_file
  OBVIOUS
<1>1. ASSUME NEW p \in Proc, Replace(p)
      PROVE  Serial!Next
  <2>1. CASE verb[p] = "create"
    BY <1>1, <2>1 DEF Replace, LockingInv, KnowsRecord, Serial!Next, Serial!Create
  <2>2. CASE verb[p] = "close"
    BY <1>1, <2>2 DEF Replace, LockingInv, KnowsRecord, Serial!Next, Serial!Close
  <2>3. CASE verb[p] \notin {"create", "close"}
    BY <1>1, <2>3 DEF Replace, LockingInv, KnowsRecord, Serial!Next, Serial!Update
  <2>4. QED
    BY <2>1, <2>2, <2>3
<1>2. ASSUME NEW p \in Proc, UnlinkRecord(p)
      PROVE  Serial!Next
  BY <1>2 DEF UnlinkRecord, LockingInv, KnowsRecord, Serial!Next, Serial!Purge
<1>3. CASE UNCHANGED file
  BY <1>3
<1>4. QED
  BY <1>1, <1>2, <1>3 DEF Next, Step, Open, Flock, NothingToDo, ReadAndAct, DecidePurge,
                          UnlinkLock, Unlock, Crash, LetGo, vars

\* When ids are not reused, every write of the record is one serial operation:
\* no update is lost and no purged record comes back.
\* (_locked, _write_unlocked, _purge_unlocked)
THEOREM RecordIsSerial ==
  ASSUME ~Reuse
  PROVE  Spec => ImplementsSerialRecord
<1>1. Init => Serial!Init
  BY DEF Init, Serial!Init
<1>2. TypeOK /\ LockingInv /\ [Next]_vars => [Serial!Next]_file
  BY SerialStep
<1>3. Spec => Serial!Spec
  BY <1>1, <1>2, LockingTypeCorrect, LockingInvariant, PTL DEF Spec, Serial!Spec
<1>4. QED
  BY <1>3 DEF ImplementsSerialRecord
=============================================================================
