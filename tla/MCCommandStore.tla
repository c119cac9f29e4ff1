--------------------------- MODULE MCCommandStore ---------------------------
(***************************************************************************)
(* A small instance: an order goes draft -> submitted -> approved; alice   *)
(* owns order 1, bob manages orders; the keys and revisions of the         *)
(* workload make retries, conflicts and key reuse happen.                  *)
(***************************************************************************)
EXTENDS CommandStore

Fact(mrev, roles, grants) ==
    [session |-> "live", active |-> TRUE, mrev |-> mrev, roles |-> roles,
     grants |-> grants, binding |-> "store:t", origins |-> {"web"}]

Granted == [alice |-> Fact(1, {}, {"Write"}), bob |-> Fact(1, {"manager"}, {"Write"})]

MCAccessFiles ==
    {Granted,
     [Granted EXCEPT !["bob"] = Fact(2, {}, {"Write"}), !["alice"].binding = "store:u"],
     [Granted EXCEPT !["alice"].grants = {}, !["bob"].session = "unverified"]}

MCFrom == [submit |-> "draft", approve |-> "submitted", amend |-> "submitted"]
MCTo == [submit |-> "submitted", approve |-> "approved", amend |-> "draft"]
MCGuard == [submit |-> {1, 2}, approve |-> {2}, amend |-> {1, 2, 3}]
MCInputs == [submit |-> {NoInput}, approve |-> {NoInput}, amend |-> {1, 2, 3}]
MCEventCount == [submit |-> 1, approve |-> 2, amend |-> 0]
MCOwner == [o1 |-> "alice", o2 |-> "bob"]

MCBootFacts ==
    {[o1 |-> [state |-> "draft", val |-> v], o2 |-> [state |-> "draft", val |-> 1]] : v \in {1, 2}}

Ask(actor, origin, key, cmd, rec, input, expected) ==
    [actor |-> actor, origin |-> origin, key |-> key, cmd |-> cmd, rec |-> rec,
     input |-> input, expected |-> expected]

MCWorkload ==
    {Ask("alice", "web", "k1", "submit", "o1", NoInput, 1),
     Ask("bob", NoOrigin, "k1", "approve", "o1", NoInput, 2),
     Ask("bob", "web", "k2", "submit", "o2", NoInput, 1),
     Ask("alice", NoOrigin, "k2", "amend", "o1", 1, 2),
     Ask("alice", NoOrigin, "k2", "amend", "o1", 3, 2),
     Ask("bob", "other", "k2", "ghost", "o9", NoInput, 1)}
==============================================================================
