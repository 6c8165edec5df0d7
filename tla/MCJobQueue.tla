----------------------------- MODULE MCJobQueue -----------------------------
(* Two services, the second After= the first; or one alone.                 *)
EXTENDS JobQueue

CONSTANTS a, b

MCUnits == {a, b}
MCAfter == (a :> {}) @@ (b :> {a})
AloneAfter == a :> {}
=============================================================================
