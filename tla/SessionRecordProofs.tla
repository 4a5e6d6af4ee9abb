------------------------ MODULE SessionRecordProofs ------------------------
(***************************************************************************)
(* What the operations on a record return: a record, always, and how it    *)
(* differs from the one before.  Used by the proofs of the two modules     *)
(* built on SessionRecord.                                                 *)
(***************************************************************************)
EXTENDS SessionRecord, TLAPS

-----------------------------------------------------------------------------
(* Types of the record operators *)

LEMMA NoRecordType == NoRecord \in Record /\ CorruptRecord \in Record
  BY RecordAssumption DEF NoRecord, CorruptRecord, NoLease, Record, Lease, Status, EndedStatus

LEMMA NewRecordType ==
  ASSUME NEW now \in Nat, NEW ttl \in Nat, NEW endpoint \in BOOLEAN,
         NEW pid \in Pid \cup {NoPid}
  PROVE  NewRecord(now, ttl, endpoint, pid) \in Record
<1>1. NoLease \in Lease
  BY DEF NoLease, Lease
<1>2. now + ttl \in Nat
  OBVIOUS
<1>3. QED
  BY <1>1, <1>2 DEF NewRecord, Record, Status, EndedStatus

LEMMA SlidExpiryType ==
  ASSUME NEW r \in Record, NEW now \in Nat
  PROVE  SlidExpiry(r, now) \in Nat /\ SlidExpiry(r, now) >= r.expires_at
  BY DEF SlidExpiry, Record

LEMMA LeasedType ==
  ASSUME NEW r \in Record, NEW h \in Holder, NEW now \in Nat
  PROVE  Leased(r, h, now) \in Record
<1>1. SlidExpiry(r, now) \in Nat
  BY SlidExpiryType
<1>2. [holder |-> h, expires_at |-> now + LeaseTTL] \in Lease
  BY RecordAssumption DEF Lease
<1>3. QED
  BY <1>1, <1>2 DEF Leased, Record

LEMMA UnleasedType ==
  ASSUME NEW r \in Record
  PROVE  Unleased(r) \in Record
  BY DEF Unleased, NoLease, Record, Lease

LEMMA EndedType ==
  ASSUME NEW r \in Record, NEW st \in EndedStatus
  PROVE  Ended(r, st) \in Record
  BY DEF Ended, NoLease, Record, Lease, Status, EndedStatus

LEMMA WithHostsType ==
  ASSUME NEW r \in Record, NEW hs \in SUBSET Host, NEW m \in Merges(r, hs)
  PROVE  WithHosts(r, m, hs) \in Record
<1>1. m \in SUBSET (r.hosts \cup hs) /\ r.hosts \in SUBSET Host
  BY DEF Merges, Record
<1>2. QED
  BY <1>1 DEF WithHosts, Record

LEMMA BumpType ==
  ASSUME NEW r \in Record
  PROVE  [r EXCEPT !.generation = r.generation + 1] \in Record
  BY DEF Record
=============================================================================
