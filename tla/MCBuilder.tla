----------------------------- MODULE MCBuilder -----------------------------
(***************************************************************************)
(* Two windows, cells that hold 1 or 9, which the rule forbids, and text   *)
(* that does not parse or leaves a cell blank.                             *)
(***************************************************************************)
EXTENDS Builder

MCParse == [text \in {"9", "x", ""} |->
    CASE text = "9" -> 9 [] text = "x" -> Unparsable [] OTHER -> Blank]

MCSample ==
    [revision |-> 0,
     spec |-> [name |-> "a", fields |-> 0, ruled |-> FALSE, policy |-> 0],
     rows |-> [r \in {0} |-> 1]]

(* Of the last revision but one, with a rule and an old policy.            *)
MCEarlier ==
    {[revision |-> 1,
      spec |-> [name |-> "a", fields |-> 1, ruled |-> TRUE, policy |-> 1],
      rows |-> [r \in {0, 1} |-> 1]]}

(* A long name, two rows and a field more are too much together.           *)
MCFits(item) ==
    item.spec.fields + Cardinality(DOMAIN item.rows) + (IF item.spec.name = "b" THEN 1 ELSE 0) <= 3

MCImports == {<<"9">>, <<"9", "x">>}
=============================================================================
