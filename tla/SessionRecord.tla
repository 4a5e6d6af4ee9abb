--------------------------- MODULE SessionRecord ---------------------------
(***************************************************************************)
(* The record of one browser session, as webglass keeps it on disk, and    *)
(* the decisions FileSessionStore takes on a record it holds in its hands: *)
(* what a lease acquisition is refused for and what it writes, what the    *)
(* sweep may do to the record, how navigated hosts are merged.             *)
(* Everything here is a function of a record and a time.                   *)
(*                                                                         *)
(* An optional value of the code (a filter that may be None) is a set of   *)
(* at most one element.  A session without a record file is a record of    *)
(* status "absent"; a file that does not parse has status "corrupt".       *)
(***************************************************************************)
EXTENDS Integers, FiniteSets

CONSTANTS
  Holder,     \* the strings "<caller>:<task>" leases are taken under
  NoHolder,   \* stands for `lease is None`
  Pid,        \* operating-system process ids
  NoPid,      \* stands for `pid is None`
  Host,       \* hostnames
  MaxHosts,   \* MAX_NAVIGATED_HOSTS
  LeaseTTL,   \* DEFAULT_LEASE_TTL_SECONDS
  Retention   \* DEFAULT_RECORD_RETENTION_SECONDS

ASSUME RecordAssumption ==
  /\ NoHolder \notin Holder
  /\ NoPid \notin Pid
  /\ IsFiniteSet(Host)
  /\ MaxHosts \in Nat
  /\ LeaseTTL \in Nat \ {0}
  /\ Retention \in Nat

EndedStatus == {"expired", "closed"}
Status == {"absent", "corrupt", "active"} \cup EndedStatus

Lease == [holder : Holder \cup {NoHolder}, expires_at : Nat]
NoLease == [holder |-> NoHolder, expires_at |-> 0]

Record ==
  [status       : Status,
   generation   : Nat,
   last_used_at : Nat,
   expires_at   : Nat,
   lease        : Lease,
   endpoint     : BOOLEAN,              \* endpoint_ref # ""
   pid          : Pid \cup {NoPid},
   tracked      : BOOLEAN,              \* hosts is not None
   hosts        : SUBSET Host,
   truncated    : BOOLEAN]              \* NAVIGATED_HOSTS_TRUNCATED in diagnostics

\* No record file, and (with another status) a file nothing can be read from.
NoRecord ==
  [status |-> "absent", generation |-> 0, last_used_at |-> 0, expires_at |-> 0,
   lease |-> NoLease, endpoint |-> FALSE, pid |-> NoPid,
   tracked |-> FALSE, hosts |-> {}, truncated |-> FALSE]
CorruptRecord == [NoRecord EXCEPT !.status = "corrupt"]

\* Wrong: the expiry is counted back from now.
NewRecordSignSlip(now, ttl, endpoint, pid) ==
  [status |-> "active", generation |-> 0, last_used_at |-> now, expires_at |-> now - ttl,
   lease |-> NoLease, endpoint |-> endpoint, pid |-> pid,
   tracked |-> TRUE, hosts |-> {}, truncated |-> FALSE]

\* The record create() writes: alive for ttl from now, unleased, hosts known empty.
NewRecord(now, ttl, endpoint, pid) ==
  [status |-> "active", generation |-> 0, last_used_at |-> now, expires_at |-> now + ttl,
   lease |-> NoLease, endpoint |-> endpoint, pid |-> pid,
   tracked |-> TRUE, hosts |-> {}, truncated |-> FALSE]

Readable(r) == r.status \notin {"absent", "corrupt"}

-----------------------------------------------------------------------------
(* Leases *)

LeaseIsLive(r, now) == r.lease.holder # NoHolder /\ r.lease.expires_at > now

\* Wrong: without the max.
SlidExpiryShortens(r, now) == now + (r.expires_at - r.last_used_at)

\* expires_at moved forward so that the record has its whole life again.
SlidExpiry(r, now) ==
  LET lifetime == r.expires_at - r.last_used_at
  IN  IF now + lifetime > r.expires_at THEN now + lifetime ELSE r.expires_at

\* Wrong: the lease of a record past its expiry counts for nothing.
LeaseRefusedInLife(r, holder, now) ==
  LeaseIsLive(r, now) /\ r.lease.holder # holder /\ r.expires_at > now

\* The lease is somebody else's and not over at the caller's now.
LeaseRefused(r, holder, now) == LeaseIsLive(r, now) /\ r.lease.holder # holder

\* What a granted acquire_lease writes.  The lifetime is read off the record
\* before last_used_at moves.
Leased(r, holder, now) ==
  [r EXCEPT !.expires_at = SlidExpiry(r, now),
            !.lease = [holder |-> holder, expires_at |-> now + LeaseTTL],
            !.last_used_at = now]

Unleased(r) == [r EXCEPT !.lease = NoLease]

\* What close() and the sweep's job 1 write: an active record loses its endpoint
\* with its browser, a record that ended before keeps what it has.
Ended(r, status) ==
  [r EXCEPT !.status = status, !.lease = NoLease,
            !.endpoint = r.endpoint /\ r.status # "active"]

-----------------------------------------------------------------------------
(* The sweep's decision on one record *)

Filter == [older_than : SUBSET Nat, status : SUBSET Status, site : SUBSET Host]
NoFilter == [older_than |-> {}, status |-> {}, site |-> {}]

Age(r, now) ==
  now - (IF r.last_used_at > r.expires_at THEN r.last_used_at ELSE r.expires_at)

\* Every filter that was passed holds; an untracked record matches no site.
Reapable(r, now, f) ==
  /\ \A st \in f.status : r.status = st
  /\ \A secs \in f.older_than : Age(r, now) >= secs
  /\ \A h \in f.site : r.tracked /\ h \in r.hosts

DeadLease(r, now) ==
  r.status = "active" /\ r.lease.holder # NoHolder /\ r.lease.expires_at <= now

\* Wrong: a record past its expiry is reaped under its lease.
ExpiresUnderLease(r, now, f) ==
  r.status = "active" /\ r.expires_at <= now /\ Reapable(r, now, f)

\* Job 1: an active record past its expiry that nobody is using.
Expires(r, now, f) ==
  /\ r.status = "active" /\ r.expires_at <= now
  /\ ~LeaseIsLive(r, now)
  /\ Reapable(r, now, f)

\* Job 2: an expired lease on a record that stays.
DropsLease(r, now, f) == DeadLease(r, now) /\ ~Expires(r, now, f)

\* Wrong: an old record is deleted whether or not its session was ended.
PurgesActive(r, now, f) ==
  \/ r.status = "corrupt"
  \/ /\ Readable(r) /\ ~LeaseIsLive(r, now)
     /\ Age(r, now) >= Retention /\ Reapable(r, now, f)

\* Jobs 3 and 4: a record ended long ago, or a file that does not parse.
Purges(r, now, f) ==
  \/ r.status = "corrupt"
  \/ /\ r.status \in EndedStatus
     /\ ~LeaseIsLive(r, now)
     /\ Age(r, now) >= Retention
     /\ Reapable(r, now, f)

-----------------------------------------------------------------------------
(* Navigated hosts *)

\* The host sets merging hs may leave: everything while the cap allows it, a
\* full set otherwise (which of the new hosts fit depends on their order).
Merges(r, hs) ==
  {m \in SUBSET (r.hosts \cup hs) :
     /\ r.hosts \subseteq m
     /\ Cardinality(m) <= MaxHosts
     /\ m = r.hosts \cup hs \/ Cardinality(m) = MaxHosts}

\* Wrong: the flag tells of the latest merge only.
WithHostsForgets(r, m, hs) ==
  [r EXCEPT !.hosts = m, !.truncated = m # r.hosts \cup hs]

WithHosts(r, m, hs) ==
  [r EXCEPT !.hosts = m, !.truncated = r.truncated \/ m # r.hosts \cup hs]
=============================================================================
