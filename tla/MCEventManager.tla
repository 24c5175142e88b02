--------------------------- MODULE MCEventManager ---------------------------
(* Instances of EventManager for TLC. *)
EXTENDS EventManager, TLC

CONSTANTS p1, p2, e1, e2, db1

ThreeSessions == <<p1, p1, p2>>
OneMajor == [e \in Event |-> db1]
BothEvents == {{e1}, {e1, e2}}
OneEvent == {{e1}}
=============================================================================
