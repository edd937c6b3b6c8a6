---------------------------- MODULE MCRemoteView ----------------------------
(* A small instance of RemoteView: the route explorer, with two of the     *)
(* three requests of its detail.                                           *)
EXTENDS RemoteView

MCParts == [h \in Hooks |-> IF h = "list" THEN {"entries"} ELSE {"route", "history"}]

\* Nothing yet, an entry, another before it.
MCListed == <<<<>>, <<"a">>, <<"b", "a">>>>
=============================================================================
