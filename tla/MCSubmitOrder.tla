--------------------------- MODULE MCSubmitOrder ---------------------------
(***************************************************************************)
(* Two actors and their orders, 1 of "alice" with lines 1 and 2, 2 of      *)
(* "bob" with line 3, and drafts with what a submission must not accept.   *)
(***************************************************************************)
EXTENDS SubmitOrder

Order(owner, state) == [owner |-> owner, state |-> state, notes |-> None]
Line(o, quantity, price) == [order |-> o, quantity |-> quantity, price |-> price]

TwoOrders == [o \in {1, 2} |-> Order(IF o = 1 THEN "alice" ELSE "bob", "draft")]

MCDrafts ==
    {[orders |-> TwoOrders,
      lines |-> [l \in 1..3 |-> Line(IF l = 3 THEN 2 ELSE 1, 2, 5)]],
     \* A price below zero, a quantity of none, an order without lines.
     [orders |-> [TwoOrders EXCEPT ![2].owner = "alice"],
      lines |-> [l \in 1..2 |-> Line(1, IF l = 1 THEN 2 ELSE 0, IF l = 1 THEN 5 ELSE -1)]],
     \* One order, submitted in the draft already; the other has more lines than patches.
     [orders |-> [TwoOrders EXCEPT ![1].state = "submitted"],
      lines |-> [l \in 1..3 |-> Line(2, 1, 0)]],
     [orders |-> [o \in {2} |-> Order("bob", "draft")],
      lines |-> [l \in {3} |-> Line(2, 1, 5)]]}

MCTrim == [text \in {"n", " n", "long"} |-> IF text = " n" THEN "n" ELSE text]

Nothing == [f \in {} |-> 0]
Patch(l, changes) == [line |-> l, changes |-> changes]
Quantity(n) == [f \in {"quantity"} |-> n]

MCOther ==
    {[order |-> 1, key |-> "k", changes |-> Nothing, patches |-> patches] : patches \in
        {<<>>,
         <<Patch(2, Quantity(1)), Patch(1, Nothing)>>,
         <<Patch(1, Nothing), Patch(2, Quantity(1))>>,
         <<Patch(1, Quantity(1)), Patch(1, Quantity(1))>>,
         <<Patch(3, Quantity(1))>>,
         <<Patch(1, [f \in {"price"} |-> 1]), Patch(2, Quantity(0))>>,
         <<Patch(1, [f \in {"price", "quantity"} |-> 1])>>}}
    \cup {[order |-> 2, key |-> "k", changes |-> changes, patches |-> <<>>] : changes \in
        {[f \in {"state"} |-> "draft"], [f \in {"state", "notes"} |-> "n"]}}
=============================================================================
