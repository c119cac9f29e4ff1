---------------------------- MODULE MCHostReads ----------------------------
(***************************************************************************)
(* alice owns order 1; bob owns order 2 and is or is not an auditor, who   *)
(* reads everything, and a manager, who writes everything.                 *)
(***************************************************************************)
EXTENDS HostReads

Fact(mrev, roles, grants) ==
    [session |-> "live", active |-> TRUE, mrev |-> mrev, roles |-> roles,
     grants |-> grants, binding |-> "store:t", origins |-> {}]

Staff == [alice |-> Fact(1, {}, {"Read", "Write"}),
          bob |-> Fact(1, {"auditor", "manager"}, {"Read", "Write"})]

MCAccessFiles ==
    {Staff,
     [Staff EXCEPT !["bob"].roles = {"manager"}],
     [Staff EXCEPT !["bob"].grants = {"Read"}, !["alice"].mrev = 2],
     [Staff EXCEPT !["bob"].grants = {"Write"}, !["alice"].active = FALSE]}

MCFrom == [submit |-> "draft", approve |-> "submitted"]
MCOwner == [o1 |-> "alice", o2 |-> "bob"]
=============================================================================
