-------------------------- MODULE MCRelationStore --------------------------
(***************************************************************************)
(* Products with a price, lines with a product, the price captured of it   *)
(* and a number of pieces; a product may stand in for another.             *)
(***************************************************************************)
EXTENDS Formulas

CONSTANTS p1, p2, l1, l2

MCKeys == {p1, p2, l1, l2}
MCFields == {"price", "kin", "product", "paid", "pieces"}
MCTableOf == [k \in MCKeys |-> IF k \in {p1, p2} THEN "products" ELSE "lines"]
MCFieldsOf == [products |-> {"price", "kin"}, lines |-> {"product", "paid", "pieces"}]
MCType == [price |-> Money, kin |-> "products", product |-> "products", paid |-> Money,
           pieces |-> Whole]
MCAccepts ==
    [f \in MCFields |-> CASE f = "paid" -> 0..1 [] f = "pieces" -> {-1, 2} [] OTHER -> 1..2]

(* A captured price must not be nothing.                                   *)
PositiveAccepts == [f \in MCFields |-> 1..2]

MCCaptures == {[line |-> "lines", ref |-> "product", source |-> "price", captured |-> "paid"]}

Products == [price : {1, 2}] \cup [price : {1}, kin : {p1}] \cup [kin : {p1}]

NewLines == [product : {p1}, pieces : {2}] \cup [product : {p2}]
            \cup [product : {p1}, paid : {1}] \cup [product : {l1}]

OldLines == [product : {p2}, paid : {1}] \cup [product : {p1}]
            \cup [product : {p1}, paid : {1}, pieces : {-1}]

MCChanges ==
    [op : {"insert", "replace"}, key : {p1, p2}, row : Products]
    \cup [op : {"insert"}, key : {l1, l2}, row : NewLines]
    \cup [op : {"replace"}, key : {l1, l2}, row : OldLines]
    \cup [op : {"delete"}, key : MCKeys, row : {Blank}]

(* An empty store, and one with a line paid before prices rose.            *)
MCSnapshots ==
    {[k \in {} |-> Blank],
     [k \in {p1, l1} |-> IF k = p1 THEN [price |-> 2]
                         ELSE [product |-> p1, paid |-> 1, pieces |-> 2]]}

MCInOrder == <<l1, l2, p1, p2>>

-----------------------------------------------------------------------------
F(f) == [op |-> "field", field |-> f]
Lookup(r, f) == [op |-> "lookup", ref |-> r, field |-> f]
Named(n) == [op |-> "named", name |-> n]
Product(a, b) == [op |-> "product", left |-> a, right |-> b]
TotalOf(es) == [op |-> "total", values |-> es]
SumOf(t, r, e) == [op |-> "sum", child |-> t, ref |-> r, value |-> e]
Formula(t, n, e) == [table |-> t, name |-> n, expression |-> e]

(* The formulas of the Builder's relation inspector.                       *)
Inspector ==
    <<Formula("lines", "captured", F("paid")),
      Formula("lines", "live", Lookup("product", "price")),
      Formula("lines", "subtotal", Product(F("pieces"), F("paid"))),
      Formula("products", "total", SumOf("lines", "product", Named("subtotal")))>>

(* Formulas through formulas, and what is above a product that stands in.  *)
Nested ==
    <<Formula("lines", "worth", Product(F("pieces"), Lookup("product", "price"))),
      Formula("lines", "owed", TotalOf(<<Named("worth"), F("paid"), F("paid")>>)),
      Formula("products", "live", SumOf("lines", "product", Lookup("product", "price"))),
      Formula("products", "family",
              TotalOf(<<Lookup("kin", "price"), SumOf("products", "kin", F("price"))>>))>>

(* What is refused: a cycle, money by money, kinds that differ, nothing to *)
(* add up, a name that is not there or there twice, a field or a reference *)
(* of the wrong kind, a chain too long, too many parts, too many formulas. *)
Wrong ==
    {<<Formula("products", "n", SumOf("products", "kin", Named("n")))>>,
     <<Formula("lines", "n", Product(F("paid"), F("paid")))>>,
     <<Formula("lines", "n", TotalOf(<<F("pieces"), F("paid")>>))>>,
     <<Formula("lines", "n", TotalOf(<<>>))>>,
     <<Formula("lines", "n", TotalOf(<<TotalOf(<<>>), F("paid")>>))>>,
     <<Formula("lines", "n", Named("m"))>>,
     <<Formula("lines", "n", F("paid")), Formula("lines", "n", F("pieces"))>>,
     <<Formula("lines", "n", F("price"))>>, <<Formula("lines", "n", F("product"))>>,
     <<Formula("lines", "n", Lookup("paid", "price"))>>,
     <<Formula("lines", "n", SumOf("lines", "product", F("paid")))>>,
     <<Formula("lines", "n", SumOf("lines", "price", F("paid")))>>,
     <<Formula("lines", "n", TotalOf(<<TotalOf(<<TotalOf(<<TotalOf(<<F("paid")>>)>>)>>)>>))>>,
     <<Formula("lines", "n", TotalOf([i \in 1..8 |-> F("paid")]))>>,
     [i \in 1..5 |-> Formula("lines", i, F("paid"))]}

MCFormularies == {Inspector, Nested} \cup Wrong

(* An expression with its parts.                                           *)
RECURSIVE WithParts(_)
WithParts(e) ==
    {e} \cup (CASE e.op = "sum" -> WithParts(e.value)
               [] e.op = "product" -> WithParts(e.left) \cup WithParts(e.right)
               [] e.op = "total" -> UNION {WithParts(e.values[i]) : i \in DOMAIN e.values}
               [] OTHER -> {})

MCExpressions ==
    UNION {UNION {WithParts(list[i].expression) : i \in DOMAIN list} : list \in MCFormularies}

(* The inspector's, a host's, and one that grants scans of the lines while *)
(* it hides a product.                                                     *)
MCPolicies ==
    {LocalPreviewPolicy, DenyOutput,
     CurrentOutputPolicy({p1, l1}, {"price", "product", "paid", "pieces"}),
     CurrentOutputPolicy(MCKeys, {"kin", "product", "paid", "pieces"}),
     [snapshot |-> TRUE, stored |-> FALSE, records |-> {p1, l1, l2}, fields |-> MCFields,
      scans |-> {"lines"}]}
=============================================================================
