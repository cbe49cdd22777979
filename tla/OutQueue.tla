------------------------------ MODULE OutQueue ------------------------------
(***************************************************************************)
(* What the outgoing queue of imeventmanager promises: an event is         *)
(* delivered at once or kept until it is, never twice, and leaves the      *)
(* queue undelivered only when a pre-send action rejects it, or, where     *)
(* processes race or crash, when the queue loses it.                       *)
(***************************************************************************)
EXTENDS Naturals

CONSTANTS Events, MayLose

VARIABLES pending, delivered, dropped

vars == <<pending, delivered, dropped>>

Init ==
  /\ pending = {}
  /\ delivered = [e \in Events |-> 0]
  /\ dropped = {}

Put(e) ==
  /\ e \notin pending \cup dropped /\ delivered[e] = 0
  /\ pending' = pending \cup {e}
  /\ UNCHANGED <<delivered, dropped>>

Deliver(e) ==
  /\ e \notin dropped /\ delivered[e] = 0
  /\ delivered' = [delivered EXCEPT ![e] = 1]
  /\ pending' = pending \ {e}
  /\ UNCHANGED dropped

Drop(e) ==
  /\ e \notin dropped /\ delivered[e] = 0
  /\ dropped' = dropped \cup {e}
  /\ pending' = pending \ {e}
  /\ UNCHANGED delivered

Lose(S) ==
  /\ MayLose
  /\ pending' = pending \ S
  /\ UNCHANGED <<delivered, dropped>>

Next ==
  \/ \E e \in Events : Put(e) \/ Deliver(e) \/ Drop(e)
  \/ \E S \in SUBSET Events : Lose(S)

Spec == Init /\ [][Next]_vars
=============================================================================
