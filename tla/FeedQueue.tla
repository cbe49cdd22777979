----------------------------- MODULE FeedQueue ------------------------------
(***************************************************************************)
(* What the HTTP client promises the feeds: a feed that asks waits in one  *)
(* queue, only the first in the queue is served, and it leaves with the    *)
(* page it was sent for or with a failure.  It leaves alone, but for one   *)
(* that was asked for a password: that one may take the next with it,      *)
(* which is told of a page although it was not sent for.                   *)
(***************************************************************************)
EXTENDS Naturals, Sequences

CONSTANT Requests

VARIABLES
  queue,    \* the feeds that wait, in the order in which they asked
  outcome,  \* what a feed was last told
  sent,     \* the feeds for which the server was asked since they asked
  barred    \* those for which the server has wanted a password since

vars == <<queue, outcome, sent, barred>>

Init ==
  /\ queue = <<>> /\ outcome = [r \in Requests |-> "none"]
  /\ sent = {} /\ barred = {}

(* The first of those who wait leaves. *)
Ended(waiting, told, result) ==
  /\ queue' = Tail(waiting)
  /\ outcome' = [told EXCEPT ![Head(waiting)] = result]

(* Who waits does not ask again.  To begin with the first may fail at once. *)
Ask(r) ==
  LET waiting == Append(queue, r)
      told == [outcome EXCEPT ![r] = "waiting"]
  IN  /\ outcome[r] # "waiting" /\ sent' = sent \ {r} /\ barred' = barred \ {r}
      /\ \/ queue' = waiting /\ outcome' = told
         \/ Ended(waiting, told, "failed")

Send ==
  /\ queue # <<>> /\ sent' = sent \cup {Head(queue)}
  /\ UNCHANGED <<queue, outcome, barred>>

Deliver ==
  /\ queue # <<>> /\ Head(queue) \in sent
  /\ Ended(queue, outcome, "delivered") /\ UNCHANGED <<sent, barred>>

GiveUp ==
  queue # <<>> /\ Ended(queue, outcome, "failed") /\ UNCHANGED <<sent, barred>>

(* The server wants a password: the request is to go out again, or not. *)
Challenge ==
  /\ queue # <<>> /\ Head(queue) \in sent
  /\ barred' = barred \cup {Head(queue)} /\ UNCHANGED sent
  /\ UNCHANGED <<queue, outcome>> \/ Ended(queue, outcome, "failed")

(* A second refusal may be reported to the next in the queue as its page. *)
Overrun ==
  /\ Len(queue) > 1 /\ Head(queue) \in sent \cap barred
  /\ Ended(Tail(queue), [outcome EXCEPT ![Head(queue)] = "failed"], "delivered")
  /\ UNCHANGED <<sent, barred>>

Next ==
  \/ \E r \in Requests : Ask(r)
  \/ Send \/ Deliver \/ GiveUp \/ Challenge \/ Overrun

Spec == Init /\ [][Next]_vars
=============================================================================
