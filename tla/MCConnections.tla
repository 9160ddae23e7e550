----------------------------- MODULE MCConnections -----------------------------
(* The instance that TLC checks. *)
EXTENDS Connections

MCStarts == {<<>>, <<"home", "work">>}

=============================================================================
