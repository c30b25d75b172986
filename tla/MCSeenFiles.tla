----------------------------- MODULE MCSeenFiles ----------------------------
(* The instance of RouteCursors with one bulk route, of two files. *)
EXTENDS RouteCursors

MCRouteLists == {<<"dataset">>}
MCKindOf == [dataset |-> "files"]
MCMostUnits == [dataset |-> 2]
=============================================================================
