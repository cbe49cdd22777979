--------------------------- MODULE MCEventManager ---------------------------
(* Small instances of EventManager: two contacts, of two protocols, and    *)
(* three events, two of them for the same contact.                         *)
EXTENDS EventManager, TLC

CONSTANTS e1, e2, e3, c1, c2, h1, h2

MCTo == (e1 :> c1) @@ (e2 :> c1) @@ (e3 :> c2)
MCTo2 == (e1 :> c1) @@ (e2 :> c1)
MCVia2 == (e1 :> h1) @@ (e2 :> h2)
MCVia == (e1 :> h1) @@ (e2 :> h1) @@ (e3 :> h2)
=============================================================================
