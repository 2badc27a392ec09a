---------------------------- MODULE MCTimedFlow -----------------------------
(***************************************************************************)
(* TimedFlow with the identifiers of every time that its start times and   *)
(* delays lead to in five executions.                                      *)
(***************************************************************************)
EXTENDS TimedFlow

MCIds == {GenerateId(999 + n + 1000 * k) : n, k \in 0 .. 5}

=============================================================================
