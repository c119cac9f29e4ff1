--------------------------- MODULE MCMessagingHub ---------------------------
(***************************************************************************)
(* Two messages, three connections of one user and a time to live of one   *)
(* tick: expiry, stale senders and replays all meet.                       *)
(***************************************************************************)
EXTENDS MessagingHub
=============================================================================
