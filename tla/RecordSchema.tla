---------------------------- MODULE RecordSchema ----------------------------
(***************************************************************************)
(* Records under a compiled definition: validate_records, which decides    *)
(* whether a whole set of records may stand.                               *)
(*                                                                         *)
(* A row is a partial function from fields to values; a field it leaves    *)
(* out is absent.  Values are Blank, amounts, and references, which are    *)
(* the identities they point to.  Text and the other scalars are checked   *)
(* as amounts are; Null is treated as Blank is.                            *)
(***************************************************************************)
EXTENDS Integers, FiniteSets

CONSTANTS
    Keys, Tables, Fields,
    TableOf,       \* per identity, its table
    FieldsOf,      \* per table
    Type,          \* per field: the table it refers to, Money, or Whole numbers
    Required,      \* the required fields
    Accepts,       \* per field, the amounts its constraints accept
    Captures,      \* the capture rules
    MaxRecords,    \* MAX_RECORDS
    Money, Whole, Blank

(* CheckedAppSpec::compile: fields belong to one table, a capture reads a  *)
(* Money field through a reference, and what it reads is not captured.     *)
SchemaAssumption ==
    /\ TableOf \in [Keys -> Tables]
    /\ FieldsOf \in [Tables -> SUBSET Fields]
    /\ \A t, u \in Tables : FieldsOf[t] \cap FieldsOf[u] # {} => t = u
    /\ Type \in [Fields -> Tables \cup {Money, Whole}]
    /\ Money \notin Tables /\ Whole \notin Tables /\ Money # Whole
    /\ Required \subseteq Fields
    /\ Accepts \in [Fields -> SUBSET Int]
    /\ Blank \notin Keys \cup Int /\ Keys \cap Int = {}
    /\ \A r \in Captures :
          /\ r.line \in Tables
          /\ {r.ref, r.captured} \subseteq FieldsOf[r.line]
          /\ Type[r.ref] \in Tables /\ r.source \in FieldsOf[Type[r.ref]]
          /\ Type[r.source] = Money /\ Type[r.captured] = Money
          /\ \A q \in Captures : q.captured # r.source /\ (q.captured = r.captured => q = r)

Value(row, f) == IF f \in DOMAIN row THEN row[f] ELSE Blank

(* The rules for the lines of a record's table.                            *)
RulesOf(k) == {r \in Captures : r.line = TableOf[k]}

(* A reference's target must be there, in the final state.                 *)
Resolves(v, f, rows) == v \in DOMAIN rows /\ TableOf[v] = Type[f]

Accepted(v, f, rows) ==
    IF v = Blank THEN f \notin Required
    ELSE IF Type[f] \in Tables THEN Resolves(v, f, rows) ELSE v \in Accepts[f]

Valid(rows) ==
    /\ Cardinality(DOMAIN rows) <= MaxRecords
    /\ \A k \in DOMAIN rows :
          /\ DOMAIN rows[k] \subseteq FieldsOf[TableOf[k]]
          /\ \A f \in FieldsOf[TableOf[k]] : Accepted(Value(rows[k], f), f, rows)

(* The checked form of valid records: absent fields become Blank.          *)
Checked(rows) ==
    [k \in DOMAIN rows |-> [f \in FieldsOf[TableOf[k]] |-> Value(rows[k], f)]]
=============================================================================
