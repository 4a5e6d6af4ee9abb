---------------------------- MODULE StoreLocking ----------------------------
(***************************************************************************)
(* The lock under one session of FileSessionStore, system call by system   *)
(* call: `_locked` opens the session's .lock file, creating it if it is    *)
(* not there, takes flock on whatever inode it got, and the operation      *)
(* reads, acts and writes; `_purge_unlocked` unlinks the record and then   *)
(* the lock file it is itself holding.  A process that opened the old file *)
(* goes on waiting for an inode nobody else will ever open.                *)
(*                                                                         *)
(* Reuse says whether a session id may be created again once its record    *)
(* is gone: minted ids never are, ids named with --session-id may be.      *)
(***************************************************************************)
EXTENDS Naturals

CONSTANTS
  Proc,        \* processes working on this session
  Nobody,      \* holder of an inode that is not locked
  Inode,       \* inodes the lock file can have
  NoInode,     \* no such file, or no file open
  Reuse,       \* an id may be created a second time
  MaxWrites    \* bound of the write count: updates stop being called there

ASSUME LockingAssumption ==
  /\ Nobody \notin Proc
  /\ NoInode \notin Inode
  /\ Reuse \in BOOLEAN
  /\ MaxWrites \in Nat

VARIABLES
  lockfile,    \* the inode the .lock path names
  flock,       \* which process has the flock of each inode
  fd,          \* the lock inode each process has open
  pc,          \* where each process is
  verb,        \* what it was called for
  copy,        \* the record it read
  file,        \* the record file
  born         \* a create was called for this id

vars == <<lockfile, flock, fd, pc, verb, copy, file, born>>

\* "update" is any operation that rewrites a record it found, "close" one that
\* stops the browser first (close, the sweep's job 1), "clean" the sweep's purge.
Verbs == {"create", "update", "close", "clean"}
\* The steps of a process that has the lock.
Critical == {"locked", "write", "unlink_record", "unlink_lock", "unlock"}
Labels == {"idle", "opened"} \cup Critical

File == [exists : BOOLEAN, ended : BOOLEAN, writes : Nat]

Serial == INSTANCE SerialRecord

TypeOK ==
  /\ lockfile \in Inode \cup {NoInode}
  /\ flock \in [Inode -> Proc \cup {Nobody}]
  /\ fd \in [Proc -> Inode \cup {NoInode}]
  /\ pc \in [Proc -> Labels]
  /\ verb \in [Proc -> Verbs]
  /\ copy \in [Proc -> File]
  /\ file \in File
  /\ born \in BOOLEAN

Init ==
  /\ lockfile = NoInode
  /\ flock = [i \in Inode |-> Nobody]
  /\ fd = [p \in Proc |-> NoInode]
  /\ pc = [p \in Proc |-> "idle"]
  /\ verb = [p \in Proc |-> "clean"]
  /\ copy = [p \in Proc |-> Serial!NoFile]
  /\ file = Serial!NoFile
  /\ born = FALSE

-----------------------------------------------------------------------------

Goto(p, label) == pc' = [pc EXCEPT ![p] = label]

\* Wrong: a path that is there is replaced by a new file.
OpensAfresh(p, i) ==
  /\ lockfile' = i /\ fd' = [fd EXCEPT ![p] = i]
  /\ \A q \in Proc : fd[q] # i

\* os.open(O_CREAT): the file the path names, or a new one.  An inode is new
\* when no process still has it open.
Opens(p, i) ==
  /\ lockfile' = i /\ fd' = [fd EXCEPT ![p] = i]
  /\ \/ i = lockfile
     \/ lockfile = NoInode /\ \A q \in Proc : fd[q] # i

\* An operation enters _locked.
Open(p, v, i) ==
  /\ pc[p] = "idle"
  /\ v \in {"update", "close"} => file.writes < MaxWrites
  /\ v = "create" => Reuse \/ ~born
  /\ born' = (born \/ v = "create")
  /\ Opens(p, i)
  /\ verb' = [verb EXCEPT ![p] = v]
  /\ Goto(p, "opened")
  /\ UNCHANGED <<flock, copy, file>>

\* Wrong: nobody is waited for.
FlockShared(p) ==
  /\ pc[p] = "opened"
  /\ flock' = [flock EXCEPT ![fd[p]] = p]
  /\ Goto(p, "locked")
  /\ UNCHANGED <<lockfile, fd, verb, copy, file, born>>

\* Wrong: the lock is entered under the descriptor and not under the process.
FlockSwapped(p) ==
  /\ pc[p] = "opened" /\ flock[fd[p]] = Nobody
  /\ flock' = [flock EXCEPT ![fd[p]] = fd[p]]
  /\ Goto(p, "locked")
  /\ UNCHANGED <<lockfile, fd, verb, copy, file, born>>

\* flock(LOCK_EX) returns.
Flock(p) ==
  /\ pc[p] = "opened" /\ flock[fd[p]] = Nobody
  /\ flock' = [flock EXCEPT ![fd[p]] = p]
  /\ Goto(p, "locked")
  /\ UNCHANGED <<lockfile, fd, verb, copy, file, born>>

\* The record is read; an operation with nothing to do on it goes to the unlock.
NothingToDo(p) ==
  /\ pc[p] = "locked"
  /\ \/ verb[p] = "create" /\ file.exists
     \/ verb[p] \in {"update", "close"} /\ ~file.exists
     \/ verb[p] = "clean" /\ ~(file.exists /\ file.ended)
  /\ Goto(p, "unlock")
  /\ UNCHANGED <<lockfile, flock, fd, verb, copy, file, born>>

\* The operation has something to do: create launches a browser, close stops
\* it.  The record is written from this copy afterwards.
ReadAndAct(p) ==
  /\ pc[p] = "locked"
  /\ \/ verb[p] = "create" /\ ~file.exists
     \/ verb[p] \in {"update", "close"} /\ file.exists
  /\ copy' = [copy EXCEPT ![p] = file]
  /\ Goto(p, "write")
  /\ UNCHANGED <<lockfile, flock, fd, verb, file, born>>

\* os.replace of the record, made from the copy that was read.
Replace(p) ==
  /\ pc[p] = "write"
  /\ file' = CASE verb[p] = "create" -> Serial!Created
               [] verb[p] = "close" -> Serial!Closed(copy[p])
               [] OTHER -> Serial!Updated(copy[p])
  /\ Goto(p, "unlock")
  /\ UNCHANGED <<lockfile, flock, fd, verb, copy, born>>

\* The sweep found a record that ended long ago.
DecidePurge(p) ==
  /\ pc[p] = "locked" /\ verb[p] = "clean"
  /\ file.exists /\ file.ended
  /\ Goto(p, "unlink_record")
  /\ UNCHANGED <<lockfile, flock, fd, verb, copy, file, born>>

UnlinkRecord(p) ==
  /\ pc[p] = "unlink_record"
  /\ file' = Serial!NoFile
  /\ Goto(p, "unlink_lock")
  /\ UNCHANGED <<lockfile, flock, fd, verb, copy, born>>

\* The path goes (and then the profile directory); the inode lives on in every
\* process that has it open.
UnlinkLock(p) ==
  /\ pc[p] = "unlink_lock"
  /\ lockfile' = NoInode
  /\ Goto(p, "unlock")
  /\ UNCHANGED <<flock, fd, verb, copy, file, born>>

\* Wrong: the descriptor is closed and its lock stays, as a lock file's would.
LetGoLocked(p) ==
  /\ fd' = [fd EXCEPT ![p] = NoInode]
  /\ Goto(p, "idle")
  /\ verb' = [verb EXCEPT ![p] = "clean"]
  /\ copy' = [copy EXCEPT ![p] = Serial!NoFile]
  /\ UNCHANGED <<lockfile, flock, file, born>>

\* The kernel's part of the end of an operation and of a process.
LetGo(p) ==
  /\ flock' = [i \in Inode |-> IF flock[i] = p THEN Nobody ELSE flock[i]]
  /\ fd' = [fd EXCEPT ![p] = NoInode]
  /\ Goto(p, "idle")
  /\ verb' = [verb EXCEPT ![p] = "clean"]
  /\ copy' = [copy EXCEPT ![p] = Serial!NoFile]
  /\ UNCHANGED <<lockfile, file, born>>

Unlock(p) == pc[p] = "unlock" /\ LetGo(p)

Crash(p) == pc[p] # "idle" /\ LetGo(p)

Step(p) ==
  \/ Flock(p) \/ NothingToDo(p) \/ ReadAndAct(p) \/ Replace(p)
  \/ DecidePurge(p) \/ UnlinkRecord(p) \/ UnlinkLock(p)
  \/ Unlock(p)

Next ==
  \E p \in Proc :
    \/ \E v \in Verbs, i \in Inode : Open(p, v, i)
    \/ Step(p)
    \/ Crash(p)

Spec == Init /\ [][Next]_vars

-----------------------------------------------------------------------------
(* Properties *)

\* A lock is held only by a process that is inside and has its inode open, and
\* every process that is inside holds its lock: a crashed process leaves no
\* lock to break.  (_locked)
LockHeldInsideOnly ==
  /\ \A i \in Inode : flock[i] # Nobody =>
       pc[flock[i]] \in Critical /\ fd[flock[i]] = i
  /\ \A p \in Proc : pc[p] \in Critical => fd[p] \in Inode /\ flock[fd[p]] = p

\* Two processes are inside the critical section at once only when there is no
\* record to work on: the waiters a purge strands on the old lock file never
\* meet a newcomer over a record that exists.  (_locked, _purge_unlocked)
ExclusiveOverARecord ==
  file.exists =>
    \A p, q \in Proc : pc[p] \in Critical /\ pc[q] \in Critical => p = q

\* Every write of the record is one serial operation on the record as it stands:
\* no update is lost and no purged record comes back, although the lock file is
\* unlinked under its waiters.  (_locked, _purge_unlocked, _write_unlocked)
ImplementsSerialRecord == Serial!Spec
=============================================================================
