------------------------------ MODULE Formulas ------------------------------
(***************************************************************************)
(* What is read out of a relation store: reverse references, lookups, and  *)
(* formulas, which are compiled against the definition and evaluated under *)
(* a budget and a policy on output.                                        *)
(*                                                                         *)
(* A formula is [table, name, expression]; an expression is a record whose *)
(* op is "field", "lookup", "sum", "product", "total" or "named".  A       *)
(* policy is what it allows: whether it attests the snapshot, records      *)
(* (only stored ones, it may be), fields, and tables for complete scans.   *)
(* The definition is fixed, so a formula always meets the one that it was  *)
(* compiled against.                                                       *)
(*                                                                         *)
(* What the code does by recursion is a function of the levels that may    *)
(* still be entered, n at level MaxDepth - n + 1: MaxDepth at the root.    *)
(***************************************************************************)
EXTENDS RelationStore, Sequences

CONSTANTS
    InOrder,        \* the identities, in the order in which records are kept
    Limit,          \* amounts are -Limit - 1..Limit: i64
    MaxNodes, MaxDepth, MaxRead, \* FormulaLimits
    MaxFormulas,    \* MAX_FORMULAS
    Expressions,    \* what formulas are made of, with its parts
    Formularies,    \* the lists of formulas that may be compiled
    Policies

Kinds == {Money, Whole}
Amounts == -Limit - 1..Limit

Errors ==
    {"UnknownField", "ReferenceFieldRequired", "ReferenceTargetMismatch", "NumericFieldRequired",
     "NumericTypeMismatch", "MoneyProductUnsupported", "EmptyTotal", "FormulaCycle",
     "MissingFormula", "MissingRecord", "OutputDenied", "DepthExceeded", "NodeBudgetExceeded",
     "RecordBudgetExceeded", "Overflow"}

ASSUME FormulaAssumption ==
    /\ InOrder \in Seq(Keys) /\ \A k \in Keys : \E i \in DOMAIN InOrder : InOrder[i] = k
    /\ \A i, j \in DOMAIN InOrder : InOrder[i] = InOrder[j] => i = j
    /\ Limit \in Nat /\ {MaxNodes, MaxDepth, MaxRead} \subseteq Nat \ {0}
    /\ (Errors \cup {"none"}) \cap (Tables \cup Kinds) = {}
    /\ \A e \in Expressions :
          /\ e.op \in {"field", "lookup", "sum", "product", "total", "named"}
          /\ e.op = "sum" => e.value \in Expressions
          /\ e.op = "product" => {e.left, e.right} \subseteq Expressions
          /\ e.op = "total" => e.values \in Seq(Expressions)
    /\ \A list \in Formularies : \A i \in DOMAIN list : list[i].expression \in Expressions
    \* "Returning true promises that every row [...] can be read."
    /\ \A p \in Policies :
          p.scans \subseteq Tables /\ \A k \in Keys : TableOf[k] \in p.scans => k \in p.records

LocalPreviewPolicy ==
    [snapshot |-> TRUE, stored |-> FALSE, records |-> Keys, fields |-> Fields, scans |-> Tables]

DenyOutput ==
    [snapshot |-> FALSE, stored |-> FALSE, records |-> {}, fields |-> {}, scans |-> {}]

(* CurrentOutputPolicy, of what an actor may read: only of rows that are   *)
(* there, and never a complete scan.                                       *)
CurrentOutputPolicy(readable, fields) ==
    [snapshot |-> TRUE, stored |-> TRUE, records |-> readable, fields |-> fields, scans |-> {}]

(* allow_record.                                                           *)
AllowsRecord(p, rows, k) == k \in p.records /\ (p.stored => k \in DOMAIN rows)

(* A loop: each step is a function of what the one before has come to.     *)
Through(steps, start) ==
    LET after[i \in 0..Len(steps)] == IF i = 0 THEN start ELSE steps[i][after[i - 1]]
    IN  after[Len(steps)]

-----------------------------------------------------------------------------
(* Of the definition.                                                      *)

(* The table a reference points to, or what is wrong with the field.       *)
ReferenceTarget(t, f) ==
    IF t \notin Tables \/ f \notin FieldsOf[t] THEN "UnknownField"
    ELSE IF Type[f] \notin Tables THEN "ReferenceFieldRequired"
    ELSE Type[f]

NumericKind(t, f) ==
    IF f \notin FieldsOf[t] THEN "UnknownField"
    ELSE IF Type[f] \notin Kinds THEN "NumericFieldRequired"
    ELSE Type[f]

ProductKind(a, b) ==
    IF a = Money /\ b = Money THEN "MoneyProductUnsupported"
    ELSE IF a = Whole /\ b = Whole THEN Whole
    ELSE Money

(* All parts of a total are of one kind.                                   *)
TotalKind(before, kind) ==
    IF before \notin {"none", kind} THEN "NumericTypeMismatch" ELSE kind

-----------------------------------------------------------------------------
(* Compilation, [n][table][expression][nodes][formulas being visited].  It *)
(* is at [nodes, kind]; a kind outside Kinds is the error that ended it.   *)

Checks == [nodes : Nat, kind : Kinds \cup Errors \cup {"none"}]

CheckedProduct(left, right) ==
    IF left.kind \notin Kinds THEN left
    ELSE IF right.kind \notin Kinds THEN right
    ELSE [nodes |-> right.nodes, kind |-> ProductKind(left.kind, right.kind)]

(* Of a total so far, and one more part.                                   *)
CheckedMore(before, part) ==
    IF before.kind \notin Kinds \cup {"none"} THEN before
    ELSE IF part.kind \notin Kinds THEN part
    ELSE [nodes |-> part.nodes, kind |-> TotalKind(before.kind, part.kind)]

CheckedTotal(sum) ==
    [nodes |-> sum.nodes, kind |-> IF sum.kind = "none" THEN "EmptyTotal" ELSE sum.kind]

CheckPart(defs, deeper, t, e, nodes, visiting) ==
    LET is(kind) == [nodes |-> nodes, kind |-> kind]
        target == ReferenceTarget(IF e.op = "sum" THEN e.child ELSE t, e.ref)
        key == <<t, e.name>>
    IN  CASE e.op = "field" -> is(NumericKind(t, e.field))
          [] e.op = "lookup" -> is(IF target \in Tables THEN NumericKind(target, e.field) ELSE target)
          [] e.op = "sum" ->
               IF target \notin Tables THEN is(target)
               ELSE IF target # t THEN is("ReferenceTargetMismatch")
               ELSE deeper[e.child][e.value][nodes][visiting]
          [] e.op = "product" ->
               LET left == deeper[t][e.left][nodes][visiting]
               IN  CheckedProduct(left, deeper[t][e.right][left.nodes][visiting])
          [] e.op = "total" ->
               CheckedTotal(Through(
                   [i \in DOMAIN e.values |-> [sum \in Checks |->
                        CheckedMore(sum, deeper[t][e.values[i]][sum.nodes][visiting])]],
                   is("none")))
          [] e.op = "named" ->
               IF key \in visiting THEN is("FormulaCycle")
               ELSE IF key \notin DOMAIN defs THEN is("MissingFormula")
               ELSE deeper[t][defs[key]][nodes][visiting \cup {key}]

CheckLevel(defs, deeper) ==
    [t \in Tables |-> [e \in Expressions |-> [before \in Nat |-> [visiting \in SUBSET DOMAIN defs |->
        IF before + 1 > MaxNodes THEN [nodes |-> before + 1, kind |-> "NodeBudgetExceeded"]
        ELSE CheckPart(defs, deeper, t, e, before + 1, visiting)]]]]

CheckTooDeep(defs) ==
    [t \in Tables |-> [e \in Expressions |-> [before \in Nat |-> [visiting \in SUBSET DOMAIN defs |->
        [nodes |-> before, kind |-> "DepthExceeded"]]]]]

CheckExpression(defs) ==
    LET check[n \in 0..MaxDepth] ==
            IF n = 0 THEN CheckTooDeep(defs) ELSE CheckLevel(defs, check[n - 1])
    IN  check

KeyOf(formula) == <<formula.table, formula.name>>

Definitions(list) ==
    LET nth(key) == CHOOSE i \in DOMAIN list : KeyOf(list[i]) = key
    IN  [key \in {KeyOf(list[i]) : i \in DOMAIN list} |-> list[nth(key)].expression]

KindOf(defs, key) == CheckExpression(defs)[MaxDepth][key[1]][defs[key]][0][{key}].kind

Compiles(list) ==
    /\ Len(list) <= MaxFormulas
    /\ \A i \in DOMAIN list : list[i].table \in Tables
    /\ \A i, j \in DOMAIN list : KeyOf(list[i]) = KeyOf(list[j]) => i = j
    /\ \A key \in DOMAIN Definitions(list) : KindOf(Definitions(list), key) \in Kinds

-----------------------------------------------------------------------------
(* Permission, of the whole formula and before anything is read.  What     *)
(* compiles is no deeper than MaxDepth.                                    *)

(* The fields of table t itself that an expression on it reads.            *)
CollectLevel(defs, deeper) ==
    [t \in Tables |-> [e \in Expressions |->
        CASE e.op = "field" -> {e.field}
          [] e.op = "lookup" -> {e.ref}
          [] e.op = "sum" -> {}
          [] e.op = "product" -> deeper[t][e.left] \cup deeper[t][e.right]
          [] e.op = "total" -> UNION {deeper[t][e.values[i]] : i \in DOMAIN e.values}
          [] e.op = "named" ->
               IF <<t, e.name>> \in DOMAIN defs THEN deeper[t][defs[<<t, e.name>>]] ELSE {}]]

CollectFields(defs) ==
    LET collect[n \in 0..MaxDepth] ==
            IF n = 0 THEN [t \in Tables |-> [e \in Expressions |-> {}]]
            ELSE CollectLevel(defs, collect[n - 1])
    IN  collect

AuthorizedScan(p, t, fields) == t \in p.scans /\ fields \subseteq p.fields

AuthorizedField(p, k, f) == k \in p.records /\ f \in p.fields

(* What a sum reads of each record that it scans.                          *)
ScannedFields(defs, e) == {e.ref} \cup CollectFields(defs)[MaxDepth][e.child][e.value]

AuthorizedLevel(p, defs, deeper) ==
    [t \in Tables |-> [e \in Expressions |->
        CASE e.op = "field" -> e.field \in p.fields
          [] e.op = "lookup" -> {e.ref, e.field} \subseteq p.fields
          [] e.op = "sum" ->
               AuthorizedScan(p, e.child, ScannedFields(defs, e)) /\ deeper[e.child][e.value]
          [] e.op = "product" -> deeper[t][e.left] /\ deeper[t][e.right]
          [] e.op = "total" -> \A i \in DOMAIN e.values : deeper[t][e.values[i]]
          [] e.op = "named" -> deeper[t][defs[<<t, e.name>>]]]]

AuthorizedExpression(p, defs) ==
    LET authorized[n \in 0..MaxDepth] ==
            IF n = 0 THEN [t \in Tables |-> [e \in Expressions |-> FALSE]]
            ELSE AuthorizedLevel(p, defs, authorized[n - 1])
    IN  authorized

-----------------------------------------------------------------------------
(* Reading.                                                                *)

Ordered(keys) == SelectSeq(InOrder, LAMBDA k : k \in keys)

(* Computed from the references, and refused as a whole rather than        *)
(* filtered.                                                               *)
ReverseRefs(p, rows, k, t, f) ==
    IF ~p.snapshot \/ ~AllowsRecord(p, rows, k) THEN "OutputDenied"
    ELSE IF k \notin DOMAIN rows THEN "MissingRecord"
    ELSE IF ReferenceTarget(t, f) \notin Tables THEN ReferenceTarget(t, f)
    ELSE IF ReferenceTarget(t, f) # TableOf[k] THEN "ReferenceTargetMismatch"
    ELSE IF ~AuthorizedScan(p, t, {f}) THEN "OutputDenied"
    ELSE LET children == {c \in DOMAIN rows : TableOf[c] = t}
             referring == {c \in children : Value(rows[c], f) = k}
         IN  IF \E c \in children : ~AuthorizedField(p, c, f) THEN "OutputDenied"
             ELSE Ordered(referring)

(* Mutant: a record that is reached through a reference is not asked for.  *)
TargetError_Trusted(p, rows, target) ==
    IF target \notin DOMAIN rows THEN "MissingRecord" ELSE "none"

(* authorized_record: denied comes before missing.                         *)
TargetError(p, rows, target) ==
    IF ~AllowsRecord(p, rows, target) THEN "OutputDenied"
    ELSE IF target \notin DOMAIN rows THEN "MissingRecord"
    ELSE "none"

(* What a lookup of record k ends with.                                    *)
LookupError(p, rows, k, ref, f) ==
    IF ~p.snapshot THEN "OutputDenied"
    ELSE IF TargetError(p, rows, k) # "none" THEN TargetError(p, rows, k)
    ELSE IF ~AuthorizedField(p, k, ref) THEN "OutputDenied"
    ELSE IF ReferenceTarget(TableOf[k], ref) \notin Tables THEN ReferenceTarget(TableOf[k], ref)
    ELSE IF f \notin FieldsOf[Type[ref]] THEN "UnknownField"
    ELSE IF f \notin p.fields THEN "OutputDenied"
    ELSE IF Value(rows[k], ref) = Blank THEN "none"
    ELSE TargetError(p, rows, Value(rows[k], ref))

LookupValue(rows, k, ref, f) ==
    IF Value(rows[k], ref) = Blank THEN Blank ELSE Value(rows[Value(rows[k], ref)], f)

-----------------------------------------------------------------------------
(* Evaluation, [n][record][expression][budget spent].                      *)

Budgets == [nodes : Nat, read : Nat]

(* Blank is Null.                                                          *)
Outcomes ==
    [nodes : Nat, read : Nat, error : Errors \cup {"none"}, kind : Kinds \cup {"none"},
     value : Int \cup {Blank}]

BudgetOf(s) == [nodes |-> s.nodes, read |-> s.read]

Failed(s, error) ==
    [nodes |-> s.nodes, read |-> s.read, error |-> error, kind |-> "none", value |-> Blank]

Is(s, kind, value) ==
    [nodes |-> s.nodes, read |-> s.read, error |-> "none", kind |-> kind, value |-> value]

Zero(v) == IF v = Blank THEN 0 ELSE v
InRange(s, kind, v) == IF v \in Amounts THEN Is(s, kind, v) ELSE Failed(s, "Overflow")

(* numeric_value.                                                          *)
Numeric(s, kind, v) ==
    IF v \in Int \cup {Blank} THEN Is(s, kind, v) ELSE Failed(s, "NumericTypeMismatch")

(* Mutant: the records that were read before are forgotten.                *)
ReadOne_Forgetful(s) == [s EXCEPT !.read = 1]

ReadOne(s) ==
    IF s.read >= MaxRead THEN Failed(s, "RecordBudgetExceeded") ELSE [s EXCEPT !.read = @ + 1]

EvaluateField(p, rows, k, e, s) ==
    LET kind == NumericKind(TableOf[k], e.field)
    IN  IF ~AuthorizedField(p, k, e.field) THEN Failed(s, "OutputDenied")
        ELSE IF kind \notin Kinds THEN Failed(s, kind)
        ELSE Numeric(s, kind, Value(rows[k], e.field))

EvaluateLookup(p, rows, k, e, s) ==
    LET target == ReferenceTarget(TableOf[k], e.ref)
        read == IF Value(rows[k], e.ref) = Blank THEN s ELSE ReadOne(s)
        kind == NumericKind(target, e.field)
        error == LookupError(p, rows, k, e.ref, e.field)
    IN  IF target \notin Tables THEN Failed(s, target)
        ELSE IF read.error # "none" THEN read
        ELSE IF kind \notin Kinds THEN Failed(read, kind)
        ELSE IF error # "none" THEN Failed(read, error)
        ELSE Numeric(read, kind, LookupValue(rows, k, e.ref, e.field))

(* A sum so far, and what is found for a child.                            *)
Added(sum, r) ==
    IF r.error # "none" THEN r ELSE InRange(r, sum.kind, sum.value + Zero(r.value))

(* Every record of the table is asked for and counted, one that does not   *)
(* refer to k too.                                                         *)
AddChild(p, rows, deeper, k, e, sum, c) ==
    IF sum.error # "none" \/ c \notin DOMAIN rows \/ TableOf[c] # e.child THEN sum
    ELSE IF ~AuthorizedField(p, c, e.ref) THEN Failed(sum, "OutputDenied")
    ELSE IF ReadOne(sum).error # "none" \/ Value(rows[c], e.ref) # k THEN ReadOne(sum)
    ELSE Added(sum, deeper[c][e.value][BudgetOf(ReadOne(sum))])

EvaluateSum(p, defs, rows, deeper, k, e, s) ==
    LET target == ReferenceTarget(e.child, e.ref)
        kind == CheckExpression(defs)[MaxDepth][e.child][e.value][0][{}].kind
    IN  IF target \notin Tables THEN Failed(s, target)
        ELSE IF target # TableOf[k] THEN Failed(s, "ReferenceTargetMismatch")
        ELSE IF ~AuthorizedScan(p, e.child, ScannedFields(defs, e)) THEN Failed(s, "OutputDenied")
        ELSE IF kind \notin Kinds THEN Failed(s, kind)
        ELSE Through([i \in DOMAIN InOrder |-> [sum \in Outcomes |->
                         AddChild(p, rows, deeper, k, e, sum, InOrder[i])]],
                     Is(s, kind, 0))

Multiplied(left, right) ==
    LET kind == ProductKind(left.kind, right.kind)
    IN  IF left.error # "none" THEN left
        ELSE IF right.error # "none" THEN right
        ELSE IF kind \notin Kinds THEN Failed(right, kind)
        ELSE IF Blank \in {left.value, right.value} THEN Is(right, kind, Blank)
        ELSE InRange(right, kind, left.value * right.value)

(* A total so far, and what is found for a part.                           *)
AddPart(sum, r) ==
    IF sum.error # "none" THEN sum
    ELSE IF r.error # "none" THEN r
    ELSE IF TotalKind(sum.kind, r.kind) \notin Kinds THEN Failed(r, "NumericTypeMismatch")
    ELSE InRange(r, r.kind, sum.value + Zero(r.value))

EvaluateTotal(deeper, k, e, s) ==
    LET sum == Through([i \in DOMAIN e.values |-> [before \in Outcomes |->
                           AddPart(before, deeper[k][e.values[i]][BudgetOf(before)])]],
                       Is(s, "none", 0))
    IN  IF sum.error = "none" /\ sum.kind = "none" THEN Failed(sum, "EmptyTotal") ELSE sum

EvaluateNamed(defs, deeper, k, e, s) ==
    IF <<TableOf[k], e.name>> \notin DOMAIN defs THEN Failed(s, "MissingFormula")
    ELSE deeper[k][defs[<<TableOf[k], e.name>>]][BudgetOf(s)]

EvaluatePart(p, defs, rows, deeper, k, e, s) ==
    CASE e.op = "field" -> EvaluateField(p, rows, k, e, s)
      [] e.op = "lookup" -> EvaluateLookup(p, rows, k, e, s)
      [] e.op = "sum" -> EvaluateSum(p, defs, rows, deeper, k, e, s)
      [] e.op = "product" ->
           LET left == deeper[k][e.left][BudgetOf(s)]
           IN  Multiplied(left, deeper[k][e.right][BudgetOf(left)])
      [] e.op = "total" -> EvaluateTotal(deeper, k, e, s)
      [] e.op = "named" -> EvaluateNamed(defs, deeper, k, e, s)

EvaluateLevel(p, defs, rows, deeper) ==
    [k \in Keys |-> [e \in Expressions |-> [spent \in Budgets |->
        LET s == Is([spent EXCEPT !.nodes = @ + 1], "none", Blank)
        IN  IF s.nodes > MaxNodes THEN Failed(s, "NodeBudgetExceeded")
            ELSE EvaluatePart(p, defs, rows, deeper, k, e, s)]]]

EvaluateTooDeep ==
    [k \in Keys |-> [e \in Expressions |-> [spent \in Budgets |-> Failed(spent, "DepthExceeded")]]]

EvaluateExpression(p, defs, rows) ==
    LET evaluate[n \in 0..MaxDepth] ==
            IF n = 0 THEN EvaluateTooDeep ELSE EvaluateLevel(p, defs, rows, evaluate[n - 1])
    IN  evaluate

(* The root row counts as a record that was read.                          *)
Start == [nodes |-> 0, read |-> 1]

Evaluate(p, defs, rows, k, name) ==
    LET key == <<TableOf[k], name>>
        result == EvaluateExpression(p, defs, rows)[MaxDepth][k][defs[key]][Start]
    IN  IF ~p.snapshot THEN Failed(Start, "OutputDenied")
        ELSE IF key \notin DOMAIN defs THEN Failed(Start, "MissingFormula")
        ELSE IF TargetError(p, rows, k) # "none" THEN Failed(Start, TargetError(p, rows, k))
        ELSE IF ~AuthorizedExpression(p, defs)[MaxDepth][TableOf[k]][defs[key]]
             THEN Failed(Start, "OutputDenied")
        ELSE IF result.error = "none" /\ result.kind # KindOf(defs, key)
             THEN Failed(result, "NumericTypeMismatch")
        ELSE result

-----------------------------------------------------------------------------
(* Properties, of the facts that are published.                            *)

(* What an expression stands for, however large, [n][record][expression],  *)
(* with what it takes to find out: its parts, each evaluated for each      *)
(* record that it is evaluated for, and the records read (relations.rs:589 *)
(* "every scanned child candidate and every dereferenced lookup").  large  *)
(* says that a product, or what a sum comes to at some turn, does not fit. *)
Accounts == [value : Int \cup {Blank}, nodes : Nat, read : Nat, large : BOOLEAN]

Reading(v, read) == [value |-> v, nodes |-> 1, read |-> read, large |-> FALSE]

(* Two accounts in one, with their values added up or multiplied.          *)
Both(a, b, value) ==
    [value |-> value, nodes |-> a.nodes + b.nodes, read |-> a.read + b.read,
     large |-> a.large \/ b.large \/ value \notin Amounts \cup {Blank}]

Plus(a, b) == Both(a, b, Zero(a.value) + Zero(b.value))

Times(a, b) ==
    Both(a, b, IF Blank \in {a.value, b.value} THEN Blank ELSE a.value * b.value)

One == Reading(0, 0)
PlusRead(a) == [a EXCEPT !.read = @ + 1]

PlusChild(rows, deeper, k, e, sum, c) ==
    IF c \notin DOMAIN rows \/ TableOf[c] # e.child THEN sum
    ELSE IF Value(rows[c], e.ref) # k THEN PlusRead(sum)
    ELSE Plus(PlusRead(sum), deeper[c][e.value])

AccountPart(defs, rows, deeper, k, e) ==
    CASE e.op = "field" -> Reading(Value(rows[k], e.field), 0)
      [] e.op = "lookup" ->
           Reading(LookupValue(rows, k, e.ref, e.field), IF Value(rows[k], e.ref) = Blank THEN 0 ELSE 1)
      [] e.op = "sum" ->
           Through([i \in DOMAIN InOrder |-> [sum \in Accounts |->
                        PlusChild(rows, deeper, k, e, sum, InOrder[i])]], One)
      [] e.op = "product" ->
           LET both == Times(deeper[k][e.left], deeper[k][e.right])
           IN  [both EXCEPT !.nodes = @ + 1]
      [] e.op = "total" ->
           Through([i \in DOMAIN e.values |-> [sum \in Accounts |->
                        Plus(sum, deeper[k][e.values[i]])]], One)
      [] e.op = "named" ->
           LET named == deeper[k][defs[<<TableOf[k], e.name>>]]
           IN  [named EXCEPT !.nodes = @ + 1]

AccountLevel(defs, rows, deeper) ==
    [k \in Keys |-> [e \in Expressions |-> AccountPart(defs, rows, deeper, k, e)]]

Account(defs, rows) ==
    LET account[n \in 0..MaxDepth] ==
            IF n = 0 THEN [k \in Keys |-> [e \in Expressions |-> One]]
            ELSE AccountLevel(defs, rows, account[n - 1])
    IN  account

(* A formula that was compiled has, for every record and in every state of *)
(* the facts, the value that it stands for and the kind it was compiled    *)
(* with; it ends otherwise exactly where a budget does not suffice or an   *)
(* amount does not fit, with an error that is true of it, and never for    *)
(* its depth, its kinds or what it refers to.                              *)
Faithful(defs, k, name) ==
    LET key == <<TableOf[k], name>>
        account == Account(defs, records)[MaxDepth][k][defs[key]]
        result == Evaluate(LocalPreviewPolicy, defs, records, k, name)
    IN  CASE result.error = "none" ->
               /\ result.value = account.value /\ result.kind = KindOf(defs, key)
               /\ account.nodes <= MaxNodes /\ 1 + account.read <= MaxRead /\ ~account.large
          [] result.error = "NodeBudgetExceeded" -> account.nodes > MaxNodes
          [] result.error = "RecordBudgetExceeded" -> 1 + account.read > MaxRead
          [] result.error = "Overflow" -> account.large
          [] OTHER -> FALSE

FormulasMeanWhatTheySay ==
    asked = {} =>
        \A list \in {l \in Formularies : Compiles(l)} :
            \A key \in DOMAIN Definitions(list), k \in DOMAIN records :
                TableOf[k] = key[1] => Faithful(Definitions(list), k, key[2])

(* The facts without what policy p hides.                                  *)
Masked(p, rows) ==
    [k \in DOMAIN rows \cap p.records |-> [f \in DOMAIN rows[k] \cap p.fields |-> rows[k][f]]]

(* "Denied rows/fields reject the whole projection rather than returning a *)
(* filtered count that could leak existence" (relations.rs:381): whatever  *)
(* is read comes out, and fails, as it would if what the policy hides were *)
(* not there.                                                              *)
HiddenIsUnread ==
    asked = {} => \A p \in Policies, k \in Keys :
        /\ \A t \in Tables, f \in Fields :
              ReverseRefs(p, records, k, t, f) = ReverseRefs(p, Masked(p, records), k, t, f)
        /\ \A list \in {l \in Formularies : Compiles(l)} :
              LET defs == Definitions(list)
              IN  \A key \in DOMAIN defs :
                      key[1] = TableOf[k] =>
                          Evaluate(p, defs, records, k, key[2])
                              = Evaluate(p, defs, Masked(p, records), k, key[2])
=============================================================================
