------------------------------- MODULE MCFeed -------------------------------
(***************************************************************************)
(* Small instances of the WebSocket server for TLC.                        *)
(***************************************************************************)
EXTENDS FeedProperties

MCUserOf == [s \in Sockets |-> IF s = "a" THEN "u" ELSE Null]
=============================================================================
