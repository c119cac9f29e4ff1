-------------------------- MODULE MCRuntimeClient --------------------------
(***************************************************************************)
(* One order that is submitted and reopened by a window signed in as alice *)
(* or bob, and by one command of bob's from elsewhere.                     *)
(***************************************************************************)
EXTENDS RuntimeClient, TLC

MCOtherPks == {<<"bob", "x">>}
MCPks == (Actors \X Keys) \cup MCOtherPks

MCFrom == [submit |-> "draft", reopen |-> "submitted"]
MCTo == [submit |-> "submitted", reopen |-> "draft"]
MCGuard == [submit |-> {1}, reopen |-> {1}]
MCBootFacts == {[o1 |-> [state |-> "draft", val |-> 1]]}

(* Revisions run from 1; each pk commits at most once. *)
MCIntents ==
    [cmd : {"submit", "reopen"}, rec : Records, input : {NoInput},
     expected : 1..Cardinality(MCPks)]

Symmetry == Permutations(Tasks) \cup Permutations(Keys)
=============================================================================
