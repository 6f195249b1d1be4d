--------------------------- MODULE MCSessionStore ---------------------------
(* Instances of SessionStore for TLC. *)
EXTENDS SessionStore, TLC

CONSTANTS o1, o2, o3, i1, i2

(* A session is tracked again under its id while another one is tracked too.  *)
Retracked == (o1 :> i1) @@ (o2 :> i1) @@ (o3 :> i2)
=============================================================================
