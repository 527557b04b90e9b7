---------------------------- MODULE MCEntryFlows ----------------------------
(* The instance of EntryFlows that TLC checks.                               *)
EXTENDS EntryFlows

CONSTANTS Settings, Bounds, a, b, h1, h2, r1, r2

MCId == {1, 2}
MCSource == {a, b}
MCObjects == {1}

(* The entry that is stored when Home Assistant starts: object 1 is the      *)
(* target of source a.                                                       *)
MCOptions ==
  [off |-> h1, exports |-> <<[source |-> a, target |-> 1]>>, lists |-> TRUE,
   imported |-> {}, excluded |-> {1}, auto |-> FALSE]

Bound(flowCount, ops, failures, changes, raised) ==
  [flows |-> flowCount, operations |-> ops, failures |-> failures, changes |-> changes,
   issues |-> raised]

(* Many flows; flows over a reload; a bit of everything; flows over a failed *)
(* set-up; flows and new credentials; operations alone.                      *)
SafeBounds ==
  {Bound(3, 0, 0, 0, 0), Bound(2, 1, 0, 0, 0), Bound(1, 1, 1, 1, 1), Bound(2, 0, 1, 0, 1),
   Bound(2, 0, 0, 1, 0), Bound(0, 2, 1, 1, 1)}

ReauthBounds == {Bound(1, 0, 0, 1, 0)}

Init == InitWith(MCObjects, Settings, {MCOptions}, Bounds)
Spec == Init /\ [][Next]_vars /\ Fairness
=============================================================================
