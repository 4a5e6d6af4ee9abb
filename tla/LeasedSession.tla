--------------------------- MODULE LeasedSession ---------------------------
(***************************************************************************)
(* What a session store promises its callers, without records, clocks or   *)
(* processes: a session is opened, at most one holder has it at a time, a  *)
(* holder keeps it until the holder gives it up, its time is over or the   *)
(* session is closed on purpose, and only an idle session is ended by the  *)
(* housekeeping.  An ended session never comes back under its old holder.  *)
(***************************************************************************)
CONSTANTS Sid, Holder, NoHolder

VARIABLES phase, holder

leasedVars == <<phase, holder>>

Init ==
  /\ phase \in [Sid -> {"none", "open"}]
  /\ holder = [s \in Sid |-> NoHolder]

Open(s) ==
  /\ phase[s] = "none"
  /\ phase' = [phase EXCEPT ![s] = "open"]
  /\ UNCHANGED holder

Take(s, h) ==
  /\ phase[s] = "open" /\ holder[s] \in {NoHolder, h}
  /\ holder' = [holder EXCEPT ![s] = h]
  /\ UNCHANGED phase

\* A holder releases a session, or its time on some sessions is over.
Lapse(over) ==
  /\ holder' = [s \in Sid |-> IF s \in over THEN NoHolder ELSE holder[s]]
  /\ UNCHANGED phase

\* Housekeeping ends a session nobody holds.
EndIdle(s) ==
  /\ phase[s] = "open" /\ holder[s] = NoHolder
  /\ phase' = [phase EXCEPT ![s] = "ended"]
  /\ UNCHANGED holder

\* A deliberate close ends a session whoever holds it.
Close(s) ==
  /\ phase[s] \in {"open", "ended"}
  /\ phase' = [phase EXCEPT ![s] = "ended"]
  /\ holder' = [holder EXCEPT ![s] = NoHolder]

Forget(s) ==
  /\ phase[s] = "ended"
  /\ phase' = [phase EXCEPT ![s] = "none"]
  /\ UNCHANGED holder

Next ==
  \/ \E s \in Sid : Open(s) \/ EndIdle(s) \/ Close(s) \/ Forget(s)
  \/ \E s \in Sid, h \in Holder : Take(s, h)
  \/ \E over \in SUBSET Sid : Lapse(over)

Spec == Init /\ [][Next]_leasedVars
=============================================================================
