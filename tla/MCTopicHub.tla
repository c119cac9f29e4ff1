----------------------------- MODULE MCTopicHub -----------------------------
(***************************************************************************)
(* A queue and a channel of two with five messages: both overflow.          *)
(***************************************************************************)
EXTENDS TopicHub, TLC

Symmetry == Permutations(Streams)
=============================================================================
