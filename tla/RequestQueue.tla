---------------------------- MODULE RequestQueue ----------------------------
(***************************************************************************)
(* What the persistent client promises its callers about the order of their *)
(* calls (ARCHITECTURE.md, PROTOCOL.md 1.2): one request is in service at a *)
(* time; requests are taken up in the order in which they were made; and a  *)
(* request is taken up only in the session in which it was made, so nothing *)
(* queued before a reconnect is sent after it.                             *)
(***************************************************************************)
EXTENDS Naturals, Sequences

CONSTANTS Request, NoRequest

VARIABLES
  session,   \* the running session, 0 between sessions
  made,      \* the session in which each request was made, 0 before
  line,      \* requests waiting, in order
  active,    \* the request in service
  result     \* "none" while a call has not returned

vars == <<session, made, line, active, result>>

Results == {"answered", "sent", "offline", "connection", "timeout", "cancelled", "protocol"}

Init ==
  /\ session = 0 /\ made = [r \in Request |-> 0]
  /\ line = <<>> /\ active = NoRequest
  /\ result = [r \in Request |-> "none"]

(* A session is never resumed: a new one has a number no request has seen. *)
ChangeSession ==
  /\ session' # session
  /\ \/ session' = 0
     \/ session' \in Nat /\ \A r \in Request : made[r] < session'
  /\ UNCHANGED <<made, line, active, result>>

Make(r) ==
  /\ session # 0 /\ made[r] = 0 /\ result[r] = "none"
  /\ line' = Append(line, r)
  /\ made' = [made EXCEPT ![r] = session]
  /\ UNCHANGED <<session, active, result>>

Refuse(r) ==
  /\ made[r] = 0 /\ result[r] = "none"
  /\ result' = [result EXCEPT ![r] = "offline"]
  /\ UNCHANGED <<session, made, line, active>>

TakeUp(r) ==
  /\ active = NoRequest /\ line # <<>> /\ Head(line) = r
  /\ session = made[r]
  /\ line' = Tail(line) /\ active' = r
  /\ UNCHANGED <<session, made, result>>

(* A waiting request gives up, its session gone or its caller cancelled.   *)
GiveUp(r) ==
  /\ \E i \in DOMAIN line :
       /\ line[i] = r
       /\ line' = SubSeq(line, 1, i - 1) \o SubSeq(line, i + 1, Len(line))
  /\ result' \in {[result EXCEPT ![r] = o] : o \in {"connection", "cancelled"}}
  /\ UNCHANGED <<session, made, active>>

Finish(r) ==
  /\ active = r
  /\ active' = NoRequest
  /\ result' \in {[result EXCEPT ![r] = o] : o \in Results \ {"offline"}}
  /\ UNCHANGED <<session, made, line>>

Next ==
  \/ ChangeSession
  \/ \E r \in Request : Make(r) \/ Refuse(r) \/ TakeUp(r) \/ GiveUp(r) \/ Finish(r)

Spec == Init /\ [][Next]_vars
=============================================================================
