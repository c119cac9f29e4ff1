------------------------ MODULE RelationStoreProofs ------------------------
(***************************************************************************)
(* The store of related records, for any definition, any changes and any   *)
(* snapshot: what is published is valid and canonical, captured prices     *)
(* stand, and a batch is a set of changes that take effect together.       *)
(*                                                                         *)
(* Then what is read out of it, for any formulas, limits and policies:     *)
(* what compiles has the value it stands for, and what a policy hides is   *)
(* not read.  These go by the levels of an expression.                     *)
(***************************************************************************)
EXTENDS Formulas, TLAPS, NaturalsInduction, WellFoundedInduction

-----------------------------------------------------------------------------
(* The checked form.                                                       *)

LEMMA CheckedRows ==
    ASSUME NEW rows
    PROVE  /\ DOMAIN Checked(rows) = DOMAIN rows
           /\ \A k \in DOMAIN rows : DOMAIN Checked(rows)[k] = FieldsOf[TableOf[k]]
           /\ \A k \in DOMAIN rows : \A f \in FieldsOf[TableOf[k]] :
                 Checked(rows)[k][f] = Value(rows[k], f)
                 /\ Value(Checked(rows)[k], f) = Value(rows[k], f)
BY DEF Checked, Value

LEMMA CheckedTwice ==
    ASSUME NEW rows
    PROVE  Checked(Checked(rows)) = Checked(rows)
BY CheckedRows DEF Checked

(* The check does not tell a set of records from its checked form.         *)
LEMMA CheckedValid ==
    ASSUME NEW rows, Valid(rows)
    PROVE  Valid(Checked(rows))
<1>1. DOMAIN Checked(rows) = DOMAIN rows
  BY CheckedRows
<1>2. ASSUME NEW k \in DOMAIN rows, NEW f \in FieldsOf[TableOf[k]]
      PROVE  Accepted(Value(Checked(rows)[k], f), f, Checked(rows))
  <2>1. Accepted(Value(rows[k], f), f, rows)
    BY DEF Valid
  <2>2. Value(Checked(rows)[k], f) = Value(rows[k], f)
    BY CheckedRows
  <2> QED BY <1>1, <2>1, <2>2 DEF Accepted, Resolves
<1>3. \A k \in DOMAIN rows : DOMAIN Checked(rows)[k] \subseteq FieldsOf[TableOf[k]]
  BY CheckedRows
<1> QED BY <1>1, <1>2, <1>3 DEF Valid

-----------------------------------------------------------------------------
(* The invariant.  The candidate is the published records merged with the  *)
(* batch so far, of which every change was admissible to these records:    *)
(* no change has seen the effect of another.                               *)

Merged == RecordSet!Merged

Published ==
    /\ DOMAIN records \subseteq Keys
    /\ Valid(records)
    /\ Checked(records) = records

(* The batch so far.                                                       *)
Asked ==
    /\ asked \subseteq Changes
    /\ \A c, d \in asked : c.key = d.key => c = d
    /\ touched = {c.key : c \in asked}
    /\ inserted = {c.key : c \in RecordSet!Of("insert")}
    /\ deleted = {c.key : c \in RecordSet!Of("delete")}
    /\ \A c \in asked : c.op = "insert" => c.key \notin DOMAIN records
    /\ \A c \in asked : c.op # "insert" => c.key \in DOMAIN records
    /\ \A c \in asked : c.op = "replace" =>
          \A r \in RulesOf(c.key) : \A f \in {r.captured, r.ref} :
              f \in DOMAIN c.row /\ c.row[f] = records[c.key][f]

IInv == Published /\ Asked /\ candidate = Merged

(* A change of the batch is the one there is for its record.               *)
LEMMA TheChange ==
    ASSUME Asked, NEW c \in asked
    PROVE  RecordSet!RowOf(c.key) = c.row
BY DEF Asked, RecordSet!RowOf

(* What merging does, without the choice in it.                            *)
MergedFacts ==
    /\ Merged = [k \in DOMAIN Merged |-> Merged[k]]
    /\ DOMAIN Merged = (DOMAIN records \ deleted) \cup inserted
    /\ \A k \in DOMAIN Merged \ touched : Merged[k] = records[k]
    /\ \A c \in asked : c.key \in DOMAIN Merged => Merged[c.key] = c.row

LEMMA MergedIs == Asked => MergedFacts
<1> SUFFICES ASSUME Asked PROVE MergedFacts
  OBVIOUS
<1>1. \A k \in DOMAIN Merged :
         Merged[k] = IF k \in touched THEN RecordSet!RowOf(k) ELSE records[k]
  BY DEF Merged, RecordSet!Merged, RecordSet!KeysOf, Asked
<1>2. DOMAIN Merged = (DOMAIN records \ deleted) \cup inserted
  BY DEF Merged, RecordSet!Merged, RecordSet!KeysOf, Asked
<1>3. Merged = [k \in DOMAIN Merged |-> Merged[k]]
  BY DEF Merged, RecordSet!Merged
<1>4. \A c \in asked : c.key \in touched
  BY DEF Asked
<1> QED BY <1>1, <1>2, <1>3, <1>4, TheChange DEF MergedFacts

LEMMA NothingAsked == asked = {} /\ Checked(records) = records => Merged = records
<1> SUFFICES ASSUME asked = {}, Checked(records) = records PROVE Merged = records
  OBVIOUS
<1>1. RecordSet!Of("delete") = {} /\ RecordSet!Of("insert") = {}
  BY DEF RecordSet!Of
<1>2. Merged = [k \in DOMAIN records |-> records[k]]
  BY <1>1 DEF Merged, RecordSet!Merged, RecordSet!KeysOf
<1>3. records = [k \in DOMAIN records |-> records[k]]
  BY DEF Checked
<1> QED BY <1>2, <1>3

LEMMA InitIInv == Init => IInv
<1> SUFFICES ASSUME Init PROVE IInv
  OBVIOUS
<1>1. PICK s \in Snapshots : records = Checked(s)
  BY DEF Init
<1>2. DOMAIN s \subseteq Keys /\ Valid(s)
  BY <1>1, StoreAssumption DEF StoreAssumption
<1>3. Published
  BY <1>1, <1>2, CheckedRows, CheckedTwice, CheckedValid DEF Published
<1>4. Asked
  BY DEF Init, Asked, RecordSet!Of
<1>5. candidate = Merged
  BY <1>3, NothingAsked DEF Init, Published
<1> QED BY <1>3, <1>4, <1>5 DEF IInv

(* However the call ends, what is published is valid and nothing is asked. *)
LEMMA OverStep ==
    ASSUME NEW rows, DOMAIN rows \subseteq Keys, Valid(rows), Checked(rows) = rows,
           Over(rows)
    PROVE  IInv'
<1>1. records' = rows /\ candidate' = rows /\ asked' = {}
      /\ touched' = {} /\ inserted' = {} /\ deleted' = {}
  BY DEF Over
<1>2. Published'
  BY <1>1 DEF Published
<1>3. Asked'
  BY <1>1 DEF Asked, RecordSet!Of
<1>4. (asked = {} /\ Checked(records) = records => Merged = records)'
  BY NothingAsked, PTL
<1>5. candidate' = Merged'
  BY <1>1, <1>2, <1>4 DEF Published
<1> QED BY <1>2, <1>3, <1>5 DEF IInv

(* One more change, of a record the batch has not touched: what the change *)
(* sees of that record is what is published.                               *)
LEMMA ChangeStep ==
    ASSUME IInv, NEW c \in Changes, Change(c)
    PROVE  IInv'
<1> USE DEF Change
<1>1. /\ asked' = asked \cup {c} /\ touched' = touched \cup {c.key} /\ c.key \notin touched
      /\ records' = records
  BY DEF Admissible, Untouched
<1>2. c.op \in {"insert", "replace", "delete"} /\ c.key \in Keys
  BY StoreAssumption DEF StoreAssumption
<1>3. Asked /\ MergedFacts /\ candidate = Merged
  BY MergedIs DEF IInv
<1>4. inserted \cup deleted \subseteq touched
  BY <1>3 DEF Asked, RecordSet!Of
<1>5. /\ c.key \in DOMAIN candidate <=> c.key \in DOMAIN records
      /\ c.key \in DOMAIN records => candidate[c.key] = records[c.key]
  BY <1>1, <1>3, <1>4 DEF MergedFacts
<1>6. /\ c.op = "insert" => c.key \notin DOMAIN records
      /\ c.op # "insert" => c.key \in DOMAIN records
      /\ c.op = "replace" => KeepsHistory(c)
  BY <1>2, <1>5 DEF Admissible, Insertable
<1>7. /\ inserted' = {d.key : d \in RecordSet!Of("insert")'}
      /\ deleted' = {d.key : d \in RecordSet!Of("delete")'}
  BY <1>1, <1>2, <1>3 DEF Asked, RecordSet!Of
<1>8. Asked'
  <2>1. \A d, e \in asked' : d.key = e.key => d = e
    BY <1>1, <1>3 DEF Asked
  <2>2. \A d \in asked' : d.op = "replace" =>
           \A r \in RulesOf(d.key) : \A f \in {r.captured, r.ref} :
               f \in DOMAIN d.row /\ d.row[f] = records[d.key][f]
    BY <1>1, <1>3, <1>5, <1>6 DEF Asked, KeepsHistory
  <2>3. asked' \subseteq Changes /\ touched' = {d.key : d \in asked'}
    BY <1>1, <1>3 DEF Asked
  <2>4. /\ \A d \in asked' : d.op = "insert" => d.key \notin DOMAIN records
        /\ \A d \in asked' : d.op # "insert" => d.key \in DOMAIN records
    BY <1>1, <1>3, <1>6 DEF Asked
  <2> QED BY <1>1, <1>7, <2>1, <2>2, <2>3, <2>4 DEF Asked
<1>9. MergedFacts'
  <2>1. (Asked => MergedFacts)'
    BY MergedIs, PTL
  <2> QED BY <1>8, <2>1
<1>10. candidate' = Merged'
  <2>1. /\ candidate' = [k \in DOMAIN candidate' |-> candidate'[k]]
        /\ DOMAIN candidate' = DOMAIN Merged'
    BY <1>1, <1>2, <1>3, <1>4, <1>6, <1>9 DEF MergedFacts, Put
  <2>2. ASSUME NEW k \in DOMAIN candidate' PROVE candidate'[k] = Merged'[k]
    <3>1. CASE k = c.key
      <4>1. c.op # "delete"
        BY <3>1, <2>2
      <4> QED BY <1>1, <1>9, <2>1, <3>1, <4>1 DEF MergedFacts, Put
    <3>2. CASE k # c.key /\ k \notin touched
      BY <1>1, <1>3, <1>9, <2>1, <3>2 DEF MergedFacts, Put
    <3>3. CASE k # c.key /\ k \in touched
      <4>1. PICK d \in asked : d.key = k
        BY <1>3, <3>3 DEF Asked
      <4>2. candidate'[k] = candidate[k] /\ k \in DOMAIN candidate
        BY <3>3 DEF Put
      <4> QED BY <1>1, <1>3, <1>9, <2>1, <4>1, <4>2 DEF MergedFacts
    <3> QED BY <3>1, <3>2, <3>3
  <2> QED BY <1>9, <2>1, <2>2 DEF MergedFacts
<1>11. Published'
  BY <1>1 DEF IInv, Published
<1> QED BY <1>8, <1>10, <1>11 DEF IInv

LEMMA CandidateKeys == IInv => DOMAIN candidate \subseteq Keys
<1> SUFFICES ASSUME IInv PROVE DOMAIN candidate \subseteq Keys
  OBVIOUS
<1>1. \A c \in asked : c.key \in Keys
  BY StoreAssumption DEF StoreAssumption, IInv, Asked
<1>2. inserted \subseteq Keys
  BY <1>1 DEF IInv, Asked, RecordSet!Of
<1> QED BY <1>2, MergedIs DEF IInv, Published, MergedFacts

LEMMA NextIInv == IInv /\ [Next]_vars => IInv'
<1> SUFFICES ASSUME IInv, [Next]_vars PROVE IInv'
  OBVIOUS
<1>1. DOMAIN records \subseteq Keys /\ Valid(records) /\ Checked(records) = records
  BY DEF IInv, Published
<1>2. ASSUME NEW c \in Changes, Change(c) PROVE IInv'
  BY <1>2, ChangeStep
<1>3. ASSUME NEW c \in Changes, Reject(c) PROVE IInv'
  BY <1>1, <1>3, OverStep DEF Reject
<1>4. CASE Refuse
  BY <1>1, <1>4, OverStep DEF Refuse
<1>5. CASE Publish
  <2> DEFINE rows == Checked(Final)
  <2>1. Valid(Final) /\ Over(rows)
    BY <1>5 DEF Publish, Publishable
  <2>2. DOMAIN Final = DOMAIN candidate /\ DOMAIN rows = DOMAIN Final
    BY CheckedRows DEF Final
  <2>3. DOMAIN rows \subseteq Keys
    BY <2>2, CandidateKeys
  <2>4. Valid(rows) /\ Checked(rows) = rows
    BY <2>1, CheckedValid, CheckedTwice
  <2> HIDE DEF rows
  <2> QED BY <2>1, <2>3, <2>4, OverStep
<1>6. CASE UNCHANGED vars
  <2> USE <1>6 DEF vars
  <2>1. Published'
    BY DEF IInv, Published
  <2>2. Asked'
    BY DEF IInv, Asked, RecordSet!Of
  <2>3. Merged' = Merged
    BY DEF Merged, RecordSet!Merged, RecordSet!KeysOf, RecordSet!Of, RecordSet!RowOf
  <2> QED BY <2>1, <2>2, <2>3 DEF IInv
<1> QED BY <1>2, <1>3, <1>4, <1>5, <1>6 DEF Next

LEMMA InvariantHolds == Spec => []IInv
BY InitIInv, NextIInv, PTL DEF Spec

-----------------------------------------------------------------------------
(* What a published batch says of a line.                                  *)

(* Fields that captures go by are neither captured nor of another table.   *)
LEMMA RuleFields ==
    ASSUME NEW k \in Keys, NEW r \in RulesOf(k)
    PROVE  /\ r \in Captures /\ r.line = TableOf[k]
           /\ r.ref \in FieldsOf[TableOf[k]] /\ r.captured \in FieldsOf[TableOf[k]]
           /\ Type[r.ref] \in Tables /\ r.source \in FieldsOf[Type[r.ref]]
           /\ \A q \in Captures : q.captured # r.source /\ q.captured # r.ref
                                  /\ (q.captured = r.captured => q = r)
<1>1. SchemaAssumption
  BY StoreAssumption DEF StoreAssumption
<1>2. r \in Captures /\ r.line = TableOf[k]
  BY DEF RulesOf
<1>3. \A q \in Captures : Type[q.captured] = Money
  BY <1>1 DEF SchemaAssumption
<1>4. /\ r.line \in Tables /\ r.ref \in FieldsOf[r.line] /\ r.captured \in FieldsOf[r.line]
      /\ Type[r.ref] \in Tables /\ r.source \in FieldsOf[Type[r.ref]]
      /\ \A q \in Captures : q.captured # r.source /\ (q.captured = r.captured => q = r)
  BY <1>1, <1>2 DEF SchemaAssumption
<1>5. \A q \in Captures : q.captured # r.ref
  BY <1>1, <1>3, <1>4 DEF SchemaAssumption
<1> QED BY <1>2, <1>4, <1>5

(* A captured price is that of the product; other fields are as asked.     *)
LEMMA FinalRow ==
    ASSUME NEW k \in DOMAIN candidate
    PROVE  /\ k \notin inserted => Final[k] = candidate[k]
           /\ k \in inserted => \A f : (\A q \in RulesOf(k) : q.captured # f)
                                       => Value(Final[k], f) = Value(candidate[k], f)
           /\ k \in inserted /\ k \in Keys
                 => \A r \in RulesOf(k) : Value(Final[k], r.captured) = Source(r, k)
<1>1. k \notin inserted => Final[k] = candidate[k]
  BY DEF Final
<1> SUFFICES ASSUME k \in inserted
             PROVE  /\ \A f : (\A q \in RulesOf(k) : q.captured # f)
                                 => Value(Final[k], f) = Value(candidate[k], f)
                    /\ k \in Keys
                          => \A r \in RulesOf(k) : Value(Final[k], r.captured) = Source(r, k)
  BY <1>1
<1>2. Final[k] = [f \in DOMAIN candidate[k] \cup {r.captured : r \in RulesOf(k)} |->
                    IF \E r \in RulesOf(k) : r.captured = f
                    THEN Source(CHOOSE r \in RulesOf(k) : r.captured = f, k)
                    ELSE candidate[k][f]]
  BY DEF Final
<1>3. ASSUME NEW f, \A q \in RulesOf(k) : q.captured # f
      PROVE  Value(Final[k], f) = Value(candidate[k], f)
  BY <1>2, <1>3 DEF Value
<1>4. ASSUME k \in Keys, NEW r \in RulesOf(k)
      PROVE  Value(Final[k], r.captured) = Source(r, k)
  <2>1. \A q \in RulesOf(k) : q.captured = r.captured => q = r
    BY <1>4, RuleFields
  <2>2. (CHOOSE q \in RulesOf(k) : q.captured = r.captured) = r
    BY <2>1
  <2> QED BY <1>2, <2>2 DEF Value
<1> QED BY <1>3, <1>4

LEMMA PublishedRow ==
    ASSUME IInv, Publish, NEW k \in DOMAIN records'
    PROVE  /\ k \in DOMAIN candidate /\ k \in Keys
           /\ \A f \in FieldsOf[TableOf[k]] : records'[k][f] = Value(Final[k], f)
<1>1. records' = Checked(Final)
  BY DEF Publish, Over
<1>2. DOMAIN records' = DOMAIN candidate
  BY <1>1, CheckedRows DEF Final
<1>3. DOMAIN Final = DOMAIN candidate
  BY DEF Final
<1> QED BY <1>1, <1>2, <1>3, CandidateKeys, CheckedRows

LEMMA RecordsComplete ==
    ASSUME IInv, NEW k \in DOMAIN records, NEW f \in FieldsOf[TableOf[k]]
    PROVE  Value(records[k], f) = records[k][f]
<1>1. Checked(records) = records
  BY DEF IInv, Published
<1> QED BY <1>1, CheckedRows

LEMMA PublishKeepsHistory ==
    ASSUME IInv, Publish,
           NEW k \in DOMAIN records \cap DOMAIN records', NEW r \in RulesOf(k)
    PROVE  records'[k][r.captured] = records[k][r.captured] /\ records'[k][r.ref] = records[k][r.ref]
<1>1. k \in DOMAIN candidate /\ k \in Keys
      /\ \A f \in FieldsOf[TableOf[k]] : records'[k][f] = Value(Final[k], f)
  BY PublishedRow
<1>2. Asked /\ MergedFacts /\ candidate = Merged
  BY MergedIs DEF IInv
<1>3. k \notin inserted
  BY <1>2 DEF Asked, RecordSet!Of
<1>4. Final[k] = candidate[k]
  BY <1>1, <1>3, FinalRow
<1>5. SUFFICES ASSUME NEW f \in {r.captured, r.ref}
               PROVE  Value(candidate[k], f) = records[k][f]
  BY <1>1, <1>4, RuleFields
<1>6. CASE k \notin touched
  <2>1. candidate[k] = records[k]
    BY <1>1, <1>2, <1>6 DEF MergedFacts
  <2> QED BY <1>1, <2>1, RuleFields, RecordsComplete
<1>7. CASE k \in touched
  <2>1. PICK c \in asked : c.key = k
    BY <1>2, <1>7 DEF Asked
  <2>2. candidate[k] = c.row
    BY <1>1, <1>2, <2>1 DEF MergedFacts
  <2>3. c.op # "insert"
    BY <1>2, <2>1 DEF Asked
  <2>4. c.op # "delete"
    BY <1>1, <1>2, <1>3, <2>1 DEF Asked, MergedFacts, RecordSet!Of
  <2>5. c.op = "replace"
    BY <1>2, <2>3, <2>4, StoreAssumption DEF StoreAssumption, Asked
  <2>6. f \in DOMAIN c.row /\ c.row[f] = records[k][f]
    BY <1>2, <2>1, <2>5 DEF Asked
  <2> QED BY <2>2, <2>6 DEF Value
<1> QED BY <1>6, <1>7

(* The product of a new line is there, and is what the price was read of.  *)
LEMMA ProductFound ==
    ASSUME IInv, Publishable, NEW k \in inserted \cap DOMAIN candidate, NEW r \in RulesOf(k)
    PROVE  LET p == Value(candidate[k], r.ref)
           IN  /\ p \in DOMAIN candidate /\ TableOf[p] = Type[r.ref]
               /\ Value(Final[k], r.ref) = p
               /\ Source(r, k) = Value(candidate[p], r.source) /\ Source(r, k) # Blank
               /\ Value(Final[p], r.source) = Source(r, k)
<1> DEFINE p == Value(candidate[k], r.ref)
<1>1. k \in Keys /\ DOMAIN candidate \subseteq Keys
  BY CandidateKeys
<1>2. /\ Source(r, k) # Blank /\ Valid(Final)
  BY DEF Publishable, SourcesValid
<1>3. p \in DOMAIN candidate /\ Source(r, k) = Value(candidate[p], r.source)
  BY <1>2 DEF Source
<1>4. Value(Final[k], r.ref) = p
  <2>1. \A q \in RulesOf(k) : q.captured # r.ref
    BY <1>1, RuleFields DEF RulesOf
  <2> QED BY <2>1, FinalRow
<1>5. TableOf[p] = Type[r.ref]
  <2>1. p # Blank
    BY <1>1, <1>3, StoreAssumption DEF StoreAssumption, SchemaAssumption
  <2>2. r.ref \in FieldsOf[TableOf[k]] /\ Type[r.ref] \in Tables
    BY <1>1, RuleFields
  <2>3. Accepted(p, r.ref, Final)
    BY <1>2, <1>4, <2>2 DEF Valid, Final
  <2> QED BY <2>1, <2>2, <2>3 DEF Accepted, Resolves
<1>6. Value(Final[p], r.source) = Value(candidate[p], r.source)
  <2>1. \A q \in RulesOf(p) : q.captured # r.source
    BY <1>1, RuleFields DEF RulesOf
  <2> HIDE DEF p
  <2> QED BY <1>3, <2>1, FinalRow
<1> QED BY <1>2, <1>3, <1>4, <1>5, <1>6

LEMMA PublishCaptures ==
    ASSUME IInv, Publish,
           NEW k \in DOMAIN records' \ DOMAIN records, NEW r \in RulesOf(k)
    PROVE  records'[k][r.captured] = records'[records'[k][r.ref]][r.source]
<1>1. k \in DOMAIN candidate /\ k \in Keys
      /\ \A f \in FieldsOf[TableOf[k]] : records'[k][f] = Value(Final[k], f)
  BY PublishedRow
<1>2. k \in inserted /\ Publishable
  BY <1>1, MergedIs DEF IInv, MergedFacts, Publish
<1> DEFINE p == Value(candidate[k], r.ref)
<1>3. /\ p \in DOMAIN candidate /\ TableOf[p] = Type[r.ref] /\ Value(Final[k], r.ref) = p
      /\ Value(Final[p], r.source) = Source(r, k)
  BY <1>1, <1>2, ProductFound
<1>4. Value(Final[k], r.captured) = Source(r, k)
  BY <1>1, <1>2, FinalRow
<1>5. /\ r.ref \in FieldsOf[TableOf[k]] /\ r.captured \in FieldsOf[TableOf[k]]
      /\ r.source \in FieldsOf[Type[r.ref]]
  BY <1>1, RuleFields
<1> HIDE DEF p
<1>6. records'[p][r.source] = Value(Final[p], r.source)
  <2>1. p \in DOMAIN records'
    BY <1>3, CheckedRows DEF Publish, Over, Final
  <2> QED BY <1>3, <1>5, <2>1, PublishedRow
<1> QED BY <1>1, <1>3, <1>4, <1>5, <1>6

-----------------------------------------------------------------------------
(* A published batch is a step of the abstract specification.              *)

LEMMA SameNotions ==
    /\ \A k : RecordSet!RulesOf(k) = RulesOf(k)
    /\ \A row, f : RecordSet!Value(row, f) = Value(row, f)
    /\ \A rows : RecordSet!Valid(rows) <=> Valid(rows)
    /\ \A rows : RecordSet!Checked(rows) = Checked(rows)
<1>1. \A k : RecordSet!RulesOf(k) = RulesOf(k)
  BY DEF RecordSet!RulesOf, RulesOf
<1>2. \A row, f : RecordSet!Value(row, f) = Value(row, f)
  BY DEF RecordSet!Value, Value
<1>3. ASSUME NEW rows PROVE RecordSet!Valid(rows) <=> Valid(rows)
  <2>1. ASSUME NEW k, NEW f
        PROVE  RecordSet!Accepted(RecordSet!Value(rows[k], f), f, rows)
                 <=> Accepted(Value(rows[k], f), f, rows)
    BY DEF RecordSet!Accepted, Accepted, RecordSet!Resolves, Resolves, RecordSet!Value, Value
  <2>2. RecordSet!Cardinality(DOMAIN rows) = Cardinality(DOMAIN rows)
    BY DEF RecordSet!Cardinality, Cardinality
  <2>3. ASSUME RecordSet!Valid(rows) PROVE Valid(rows)
    <3>1. ASSUME NEW k \in DOMAIN rows, NEW f \in FieldsOf[TableOf[k]]
          PROVE  Accepted(Value(rows[k], f), f, rows)
      BY <2>1, <2>3 DEF RecordSet!Valid
    <3> QED BY <2>2, <2>3, <3>1 DEF RecordSet!Valid, Valid
  <2>4. ASSUME Valid(rows) PROVE RecordSet!Valid(rows)
    <3>1. ASSUME NEW k \in DOMAIN rows, NEW f \in FieldsOf[TableOf[k]]
          PROVE  RecordSet!Accepted(RecordSet!Value(rows[k], f), f, rows)
      BY <2>1, <2>4 DEF Valid
    <3> QED BY <2>2, <2>4, <3>1 DEF RecordSet!Valid, Valid
  <2> QED BY <2>3, <2>4
<1>4. ASSUME NEW rows PROVE RecordSet!Checked(rows) = Checked(rows)
  BY <1>2 DEF RecordSet!Checked, Checked
<1> QED BY <1>1, <1>2, <1>3, <1>4

(* The prices the two read, and so what they make of the batch.            *)
LEMMA OutcomeIsFinal ==
    ASSUME IInv, Publishable
    PROVE  RecordSet!PricesFound /\ RecordSet!Outcome = Final
<1>1. Asked /\ MergedFacts /\ candidate = Merged /\ Merged = RecordSet!Merged
  BY MergedIs DEF IInv, Merged
<1>2. RecordSet!KeysOf(RecordSet!Of("insert")) = inserted
  BY <1>1 DEF Asked, RecordSet!KeysOf
<1>3. inserted \subseteq DOMAIN candidate
  BY <1>1 DEF MergedFacts
<1>4. ASSUME NEW k \in inserted, NEW r \in RulesOf(k)
      PROVE  /\ RecordSet!Price(r, k) = Source(r, k) /\ Source(r, k) # Blank
             /\ Value(candidate[k], r.ref) \in DOMAIN candidate
  BY <1>1, <1>3, <1>4, ProductFound, SameNotions DEF RecordSet!Price
<1>5. RecordSet!PricesFound
  BY <1>1, <1>2, <1>4, SameNotions DEF RecordSet!PricesFound
<1>6. ASSUME NEW k \in inserted PROVE RecordSet!Captured(k) = Final[k]
  <2> DEFINE fields == DOMAIN candidate[k] \cup {r.captured : r \in RulesOf(k)}
             theRule(f) == CHOOSE r \in RulesOf(k) : r.captured = f
             captured(f) == IF \E r \in RulesOf(k) : r.captured = f
                            THEN RecordSet!Price(theRule(f), k) ELSE candidate[k][f]
             final(f) == IF \E r \in RulesOf(k) : r.captured = f
                         THEN Source(theRule(f), k) ELSE candidate[k][f]
  <2>1. RecordSet!Captured(k) = [f \in fields |-> captured(f)]
    BY <1>1 DEF RecordSet!Captured, RecordSet!RulesOf, RulesOf
  <2>2. Final[k] = [f \in fields |-> final(f)]
    BY <1>3 DEF Final
  <2>3. ASSUME NEW f PROVE captured(f) = final(f)
    <3>1. CASE \E r \in RulesOf(k) : r.captured = f
      <4>1. theRule(f) \in RulesOf(k)
        BY <3>1
      <4> HIDE DEF theRule
      <4> QED BY <1>4, <3>1, <4>1
    <3> QED BY <3>1
  <2> HIDE DEF fields, captured, final
  <2> QED BY <2>1, <2>2, <2>3
<1>7. RecordSet!Outcome = Final
  <2>1. RecordSet!Outcome =
          [k \in DOMAIN candidate |->
              IF k \in inserted THEN RecordSet!Captured(k) ELSE candidate[k]]
    BY <1>1, <1>2 DEF RecordSet!Outcome
  <2>2. /\ Final = [k \in DOMAIN candidate |-> Final[k]]
        /\ \A k \in DOMAIN candidate : k \notin inserted => Final[k] = candidate[k]
    BY DEF Final
  <2> QED BY <1>6, <2>1, <2>2
<1> QED BY <1>5, <1>7

LEMMA PublishApplies == ASSUME IInv, Publish PROVE RecordSet!Apply
<1>1. Asked /\ Publishable
  BY DEF IInv, Publish
<1>2. RecordSet!PricesFound /\ RecordSet!Outcome = Final
  BY <1>1, OutcomeIsFinal
<1>3. /\ RecordSet!Valid(RecordSet!Outcome) /\ records' = RecordSet!Checked(RecordSet!Outcome)
      /\ asked' = {}
  BY <1>1, <1>2, SameNotions DEF Publish, Publishable, Over
<1>4. /\ \A c, d \in asked : c.key = d.key => c = d
      /\ RecordSet!KeysOf(RecordSet!Of("insert")) \cap DOMAIN records = {}
      /\ RecordSet!KeysOf(RecordSet!Of("replace") \cup RecordSet!Of("delete")) \subseteq DOMAIN records
  BY <1>1 DEF Asked, RecordSet!KeysOf, RecordSet!Of
<1>5. ASSUME NEW c \in RecordSet!Of("replace"), NEW r \in RecordSet!RulesOf(c.key),
             NEW f \in {r.captured, r.ref}
      PROVE  RecordSet!Value(c.row, f) = RecordSet!Value(records[c.key], f)
  <2>1. c \in asked /\ c.op = "replace" /\ r \in RulesOf(c.key)
    BY <1>5, SameNotions DEF RecordSet!Of
  <2>2. c.key \in DOMAIN records /\ f \in DOMAIN c.row /\ c.row[f] = records[c.key][f]
    BY <1>1, <2>1 DEF Asked
  <2>3. c.key \in Keys
    BY <2>2 DEF IInv, Published
  <2>4. Value(records[c.key], f) = records[c.key][f]
    BY <2>1, <2>2, <2>3, RuleFields, RecordsComplete
  <2> QED BY <2>2, <2>4, SameNotions DEF Value
<1> QED BY <1>2, <1>3, <1>4, <1>5 DEF RecordSet!Apply

LEMMA StepImplements ==
    IInv /\ [Next]_vars => [RecordSet!Next]_RecordSet!vars
<1> SUFFICES ASSUME IInv, [Next]_vars PROVE [RecordSet!Next]_RecordSet!vars
  OBVIOUS
<1>1. ASSUME NEW c \in Changes, Change(c) PROVE RecordSet!Ask
  BY <1>1 DEF Change, RecordSet!Ask
<1>2. ASSUME NEW c \in Changes, Reject(c) PROVE RecordSet!Refuse
  BY <1>2 DEF Reject, Over, RecordSet!Refuse
<1>3. CASE Publish
  BY <1>3, PublishApplies DEF RecordSet!Next
<1>4. CASE Refuse
  BY <1>4 DEF Refuse, Over, RecordSet!Refuse, RecordSet!Next
<1>5. CASE UNCHANGED vars
  BY <1>5 DEF vars, RecordSet!vars
<1> QED BY <1>1, <1>2, <1>3, <1>4, <1>5 DEF Next, RecordSet!Next

-----------------------------------------------------------------------------
(* The results.                                                            *)

(* Whatever batches have been applied, the published facts are valid, their *)
(* references resolve, and opening the store with them changes nothing.    *)
THEOREM PublishedFactsReopen == Spec => []Reopens
<1>1. IInv => Reopens
  BY DEF IInv, Published, Reopens
<1> QED BY <1>1, InvariantHolds, PTL

(* No batch, however it combines its changes, alters a captured price or   *)
(* the reference it was captured through while the line stands.            *)
THEOREM CapturedHistoryStands == Spec => CapturesStand
<1> DEFINE Stand ==
      \A k \in DOMAIN records \cap DOMAIN records' : \A r \in RulesOf(k) :
          /\ records'[k][r.captured] = records[k][r.captured]
          /\ records'[k][r.ref] = records[k][r.ref]
<1>1. IInv /\ [Next]_vars => [Stand]_records
  BY PublishKeepsHistory DEF Next, vars, Change, Reject, Refuse, Over
<1> QED BY <1>1, InvariantHolds, PTL DEF Spec, CapturesStand

(* A new line's captured price is its product's price after the batch.     *)
THEOREM CapturesFinalPrice == Spec => CapturedAtInsertion
<1> DEFINE Captures1 ==
      \A k \in DOMAIN records' \ DOMAIN records : \A r \in RulesOf(k) :
          records'[k][r.captured] = records'[records'[k][r.ref]][r.source]
<1>1. IInv /\ [Next]_vars => [Captures1]_records
  BY PublishCaptures DEF Next, vars, Change, Reject, Refuse, Over
<1> QED BY <1>1, InvariantHolds, PTL DEF Spec, CapturedAtInsertion

(* apply_batch, which takes its changes one by one, implements the batch   *)
(* that takes effect as a set: their order is of no consequence.           *)
THEOREM BatchIsASet == Spec => ImplementsSet
<1>1. Init => RecordSet!Init
  BY SameNotions DEF Init, RecordSet!Init
<1> QED BY <1>1, StepImplements, InvariantHolds, PTL DEF Spec, ImplementsSet, RecordSet!Spec

-----------------------------------------------------------------------------
(* Formulas.                                                               *)
(*                                                                         *)
(* First that the recursions are what their definitions say: a least       *)
(* counterexample stands for the induction.                                *)

LEMMA LeastNumber ==
    ASSUME NEW S \in SUBSET Nat, S # {}
    PROVE  \E n \in S : \A m \in S : ~(m < n)
<1> DEFINE Less == {pair \in Nat \X Nat : pair[1] < pair[2]}
<1>1. OpToRel(<, Nat) = Less
  BY Zenon DEF OpToRel
<1>2. IsWellFoundedOn(Less, Nat)
  BY <1>1, NatLessThanWellFounded, Zenon
<1>3. PICK n \in S : \A m \in S : <<m, n>> \notin Less
  <2> HIDE DEF Less
  <2> QED BY <1>2, WFMin
<1> QED BY <1>3

LEMMA Upward ==
    ASSUME NEW S, 0 \in S, NEW N \in Nat, \A n \in 0..N : n \in S /\ n # N => n + 1 \in S
    PROVE  \A n \in 0..N : n \in S
<1> DEFINE T == {n \in 0..N : n \notin S}
<1> SUFFICES ASSUME T # {} PROVE FALSE
  OBVIOUS
<1>1. T \in SUBSET Nat
  OBVIOUS
<1>2. PICK n \in T : \A m \in T : ~(m < n)
  BY <1>1, LeastNumber
<1>3. n # 0 /\ n - 1 \in 0..N /\ n - 1 < n /\ n - 1 + 1 = n
  BY <1>1
<1>4. n - 1 \in S
  BY <1>2, <1>3
<1> QED BY <1>3, <1>4

(* One step of any of the recursions.                                      *)
OneLevel(which, n, deeper) ==
    CASE which.of = "loop" -> which.steps[n][deeper]
      [] which.of = "check" -> CheckLevel(which.defs, deeper)
      [] which.of = "collect" -> CollectLevel(which.defs, deeper)
      [] which.of = "authorized" -> AuthorizedLevel(which.p, which.defs, deeper)
      [] which.of = "evaluate" -> EvaluateLevel(which.p, which.defs, which.rows, deeper)
      [] which.of = "account" -> AccountLevel(which.defs, which.rows, deeper)

Unfolds(which, base, N, f) ==
    f = [n \in 0..N |-> IF n = 0 THEN base ELSE OneLevel(which, n, f[n - 1])]

LEMMA RecursionExists ==
    ASSUME NEW which, NEW base, NEW N \in Nat
    PROVE  \E f : Unfolds(which, base, N, f)
<1> DEFINE S == {n \in Nat : \E f : Unfolds(which, base, n, f)}
<1>1. 0 \in S
  <2>1. Unfolds(which, base, 0, [n \in 0..0 |-> base])
    BY DEF Unfolds
  <2> QED BY <2>1
<1>2. ASSUME NEW n \in 0..N, n \in S, n # N PROVE n + 1 \in S
  <2>1. PICK f : Unfolds(which, base, n, f)
    BY <1>2
  <2> DEFINE g == [i \in 0..n + 1 |-> IF i = n + 1 THEN OneLevel(which, i, f[n]) ELSE f[i]]
  <2>2. \A i \in 0..n : f[i] = IF i = 0 THEN base ELSE OneLevel(which, i, f[i - 1])
    BY <2>1 DEF Unfolds
  <2>3. ASSUME NEW i \in 0..n + 1
        PROVE  g[i] = IF i = 0 THEN base ELSE OneLevel(which, i, g[i - 1])
    <3>1. CASE i = n + 1
      <4>1. i - 1 = n /\ n \in 0..n + 1 /\ n # n + 1 /\ i # 0
        BY <3>1
      <4>2. g[i - 1] = f[n] /\ g[i] = OneLevel(which, i, f[n])
        BY <3>1, <4>1
      <4> HIDE DEF g
      <4> QED BY <4>1, <4>2
    <3>2. CASE i # n + 1
      <4>1. i \in 0..n /\ (i # 0 => i - 1 \in 0..n + 1 /\ i - 1 # n + 1)
        BY <3>2
      <4>2. g[i] = f[i] /\ (i # 0 => g[i - 1] = f[i - 1])
        BY <3>2, <4>1
      <4> HIDE DEF g
      <4> QED BY <2>2, <4>1, <4>2
    <3> QED BY <3>1, <3>2
  <2>4. g = [i \in 0..n + 1 |-> g[i]]
    OBVIOUS
  <2> HIDE DEF g
  <2>5. Unfolds(which, base, n + 1, g)
    BY <2>3, <2>4 DEF Unfolds
  <2> QED BY <2>5
<1> HIDE DEF S
<1>3. N \in S
  BY <1>1, <1>2, Upward
<1> QED BY <1>3 DEF S

(* Which solution there is is of no account.                               *)
Solution(which, base, N) == CHOOSE f : Unfolds(which, base, N, f)

LEMMA Unfolded ==
    ASSUME NEW which, NEW base, NEW N \in Nat
    PROVE  /\ Solution(which, base, N)[0] = base
           /\ \A n \in 1..N : Solution(which, base, N)[n]
                                 = OneLevel(which, n, Solution(which, base, N)[n - 1])
<1>1. Unfolds(which, base, N, Solution(which, base, N))
  BY RecursionExists DEF Solution
<1> QED BY <1>1 DEF Unfolds

LEMMA LoopUnfolds ==
    ASSUME NEW steps, NEW start, Len(steps) \in Nat
    PROVE  \E f : /\ f[0] = start
                  /\ \A i \in 1..Len(steps) : f[i] = steps[i][f[i - 1]]
                  /\ Through(steps, start) = f[Len(steps)]
<1> DEFINE which == [of |-> "loop", steps |-> steps]
           f == Solution(which, start, Len(steps))
<1>1. f[0] = start /\ \A i \in 1..Len(steps) : f[i] = OneLevel(which, i, f[i - 1])
  BY Unfolded
<1>2. \A i, x : OneLevel(which, i, x) = steps[i][x]
  BY DEF OneLevel
<1>3. Through(steps, start) = f[Len(steps)]
  BY DEF Through, Solution, Unfolds, OneLevel
<1> HIDE DEF f, which
<1> QED BY <1>1, <1>2, <1>3

LEMMA Depth == MaxDepth \in Nat /\ MaxDepth # 0
BY FormulaAssumption DEF FormulaAssumption

LEMMA EvaluateUnfolds ==
    ASSUME NEW p, NEW defs, NEW rows
    PROVE  LET evaluate == EvaluateExpression(p, defs, rows)
           IN  /\ evaluate[0] = EvaluateTooDeep
               /\ \A n \in 1..MaxDepth : evaluate[n] = EvaluateLevel(p, defs, rows, evaluate[n - 1])
<1> DEFINE which == [of |-> "evaluate", p |-> p, defs |-> defs, rows |-> rows]
           f == Solution(which, EvaluateTooDeep, MaxDepth)
<1>1. f[0] = EvaluateTooDeep /\ \A n \in 1..MaxDepth : f[n] = OneLevel(which, n, f[n - 1])
  BY Depth, Unfolded
<1>2. \A i, x : OneLevel(which, i, x) = EvaluateLevel(p, defs, rows, x)
  BY DEF OneLevel
<1>3. EvaluateExpression(p, defs, rows) = f
  BY <1>2 DEF EvaluateExpression, Solution, Unfolds
<1> HIDE DEF f, which
<1> QED BY <1>1, <1>2, <1>3

LEMMA CheckUnfolds ==
    ASSUME NEW defs
    PROVE  LET check == CheckExpression(defs)
           IN  /\ check[0] = CheckTooDeep(defs)
               /\ \A n \in 1..MaxDepth : check[n] = CheckLevel(defs, check[n - 1])
<1> DEFINE which == [of |-> "check", defs |-> defs]
           f == Solution(which, CheckTooDeep(defs), MaxDepth)
<1>1. f[0] = CheckTooDeep(defs) /\ \A n \in 1..MaxDepth : f[n] = OneLevel(which, n, f[n - 1])
  BY Depth, Unfolded
<1>2. \A i, x : OneLevel(which, i, x) = CheckLevel(defs, x)
  BY DEF OneLevel
<1>3. CheckExpression(defs) = f
  BY <1>2 DEF CheckExpression, Solution, Unfolds
<1> HIDE DEF f, which
<1> QED BY <1>1, <1>2, <1>3

LEMMA CollectUnfolds ==
    ASSUME NEW defs
    PROVE  LET collect == CollectFields(defs)
           IN  /\ collect[0] = [t \in Tables |-> [e \in Expressions |-> {}]]
               /\ \A n \in 1..MaxDepth : collect[n] = CollectLevel(defs, collect[n - 1])
<1> DEFINE which == [of |-> "collect", defs |-> defs]
           base == [t \in Tables |-> [e \in Expressions |-> {}]]
           f == Solution(which, base, MaxDepth)
<1>1. f[0] = base /\ \A n \in 1..MaxDepth : f[n] = OneLevel(which, n, f[n - 1])
  BY Depth, Unfolded
<1>2. \A i, x : OneLevel(which, i, x) = CollectLevel(defs, x)
  BY DEF OneLevel
<1>3. CollectFields(defs) = f
  BY <1>2 DEF CollectFields, Solution, Unfolds
<1> HIDE DEF f, which
<1> QED BY <1>1, <1>2, <1>3

LEMMA AccountUnfolds ==
    ASSUME NEW defs, NEW rows
    PROVE  LET account == Account(defs, rows)
           IN  /\ account[0] = [k \in Keys |-> [e \in Expressions |-> One]]
               /\ \A n \in 1..MaxDepth : account[n] = AccountLevel(defs, rows, account[n - 1])
<1> DEFINE which == [of |-> "account", defs |-> defs, rows |-> rows]
           base == [k \in Keys |-> [e \in Expressions |-> One]]
           f == Solution(which, base, MaxDepth)
<1>1. f[0] = base /\ \A n \in 1..MaxDepth : f[n] = OneLevel(which, n, f[n - 1])
  BY Depth, Unfolded
<1>2. \A i, x : OneLevel(which, i, x) = AccountLevel(defs, rows, x)
  BY DEF OneLevel
<1>3. Account(defs, rows) = f
  BY <1>2 DEF Account, Solution, Unfolds
<1> HIDE DEF f, which
<1> QED BY <1>1, <1>2, <1>3

LEMMA AuthorizedUnfolds ==
    ASSUME NEW p, NEW defs
    PROVE  LET authorized == AuthorizedExpression(p, defs)
           IN  /\ authorized[0] = [t \in Tables |-> [e \in Expressions |-> FALSE]]
               /\ \A n \in 1..MaxDepth : authorized[n] = AuthorizedLevel(p, defs, authorized[n - 1])
<1> DEFINE which == [of |-> "authorized", p |-> p, defs |-> defs]
           base == [t \in Tables |-> [e \in Expressions |-> FALSE]]
           f == Solution(which, base, MaxDepth)
<1>1. f[0] = base /\ \A n \in 1..MaxDepth : f[n] = OneLevel(which, n, f[n - 1])
  BY Depth, Unfolded
<1>2. \A i, x : OneLevel(which, i, x) = AuthorizedLevel(p, defs, x)
  BY DEF OneLevel
<1>3. AuthorizedExpression(p, defs) = f
  BY <1>2 DEF AuthorizedExpression, Solution, Unfolds
<1> HIDE DEF f, which
<1> QED BY <1>1, <1>2, <1>3

-----------------------------------------------------------------------------
(* What a policy hides is not read.                                        *)

LEMMA MaskedRows ==
    ASSUME NEW p, NEW rows
    PROVE  DOMAIN Masked(p, rows) = DOMAIN rows \cap p.records
BY DEF Masked

LEMMA MaskedValue ==
    ASSUME NEW p, NEW rows, NEW k, k \in DOMAIN rows, k \in p.records, NEW f, f \in p.fields
    PROVE  Value(Masked(p, rows)[k], f) = Value(rows[k], f)
BY DEF Masked, Value

(* Who asks for a record that may not be read is denied, whether it is     *)
(* there or not.                                                           *)
LEMMA SameTargetError ==
    ASSUME NEW p, NEW rows, NEW k
    PROVE  TargetError(p, Masked(p, rows), k) = TargetError(p, rows, k)
<1>1. CASE k \in p.records
  BY <1>1, MaskedRows DEF TargetError, AllowsRecord
<1>2. CASE k \notin p.records
  BY <1>2 DEF TargetError, AllowsRecord
<1> QED BY <1>1, <1>2

LEMMA NoTargetError ==
    ASSUME NEW p, NEW rows, NEW k, TargetError(p, rows, k) = "none"
    PROVE  k \in DOMAIN rows \cap p.records
BY DEF TargetError, AllowsRecord

(* A policy that grants a scan of a table grants each of its records.      *)
Scannable(p, rows) == \A c \in DOMAIN rows : TableOf[c] \in p.scans => c \in p.records

LEMMA SameReverseRefs ==
    ASSUME NEW p, NEW rows, Scannable(p, rows), NEW k, NEW t, NEW f
    PROVE  ReverseRefs(p, Masked(p, rows), k, t, f) = ReverseRefs(p, rows, k, t, f)
<1> DEFINE shown == Masked(p, rows)
           children(r) == {c \in DOMAIN r : TableOf[c] = t}
           referring(r) == {c \in children(r) : Value(r[c], f) = k}
<1>1. /\ AllowsRecord(p, shown, k) /\ k \in DOMAIN shown <=> AllowsRecord(p, rows, k) /\ k \in DOMAIN rows
      /\ AllowsRecord(p, shown, k) /\ k \notin DOMAIN shown <=> AllowsRecord(p, rows, k) /\ k \notin DOMAIN rows
  BY MaskedRows, MaskedValue DEF AllowsRecord
<1>2. ASSUME AuthorizedScan(p, t, {f})
      PROVE  children(shown) = children(rows) /\ referring(shown) = referring(rows)
  <2>1. t \in p.scans /\ f \in p.fields
    BY <1>2 DEF AuthorizedScan
  <2>2. \A c \in DOMAIN rows : TableOf[c] = t => c \in p.records
    BY <2>1 DEF Scannable
  <2>3. DOMAIN shown = DOMAIN rows \cap p.records
    BY MaskedRows
  <2>5. \A c \in DOMAIN rows \cap p.records : Value(shown[c], f) = Value(rows[c], f)
    BY <2>1, MaskedValue
  <2> HIDE DEF shown
  <2>4. children(shown) = children(rows)
    BY <2>2, <2>3
  <2> QED BY <2>2, <2>4, <2>5
<1> DEFINE Refs(r, cs, rs) ==
         IF ~p.snapshot \/ ~AllowsRecord(p, r, k) THEN "OutputDenied"
         ELSE IF k \notin DOMAIN r THEN "MissingRecord"
         ELSE IF ReferenceTarget(t, f) \notin Tables THEN ReferenceTarget(t, f)
         ELSE IF ReferenceTarget(t, f) # TableOf[k] THEN "ReferenceTargetMismatch"
         ELSE IF ~AuthorizedScan(p, t, {f}) THEN "OutputDenied"
         ELSE IF \E c \in cs : ~AuthorizedField(p, c, f) THEN "OutputDenied"
         ELSE Ordered(rs)
<1>3. /\ ReverseRefs(p, rows, k, t, f) = Refs(rows, children(rows), referring(rows))
      /\ ReverseRefs(p, shown, k, t, f) = Refs(shown, children(shown), referring(shown))
  BY DEF ReverseRefs
<1> HIDE DEF shown, children, referring
<1>4. Refs(shown, children(shown), referring(shown)) = Refs(rows, children(rows), referring(rows))
  BY <1>1, <1>2
<1> QED BY <1>3, <1>4 DEF shown

(* What is read of one record.                                             *)
LEMMA SameField ==
    ASSUME NEW p, NEW rows, NEW k \in DOMAIN rows \cap p.records, NEW e, NEW s
    PROVE  EvaluateField(p, Masked(p, rows), k, e, s) = EvaluateField(p, rows, k, e, s)
BY MaskedRows, MaskedValue DEF EvaluateField, AuthorizedField

LEMMA SameLookup ==
    ASSUME NEW p, NEW rows, NEW k \in DOMAIN rows \cap p.records, NEW e, NEW s,
           e.ref \in p.fields, e.field \in p.fields
    PROVE  EvaluateLookup(p, Masked(p, rows), k, e, s) = EvaluateLookup(p, rows, k, e, s)
<1> DEFINE shown == Masked(p, rows)
           target == Value(rows[k], e.ref)
<1>1. Value(shown[k], e.ref) = target
  BY MaskedRows, MaskedValue
<1>2. \A j : TargetError(p, shown, j) = TargetError(p, rows, j)
  BY SameTargetError
<1>3. LookupError(p, shown, k, e.ref, e.field) = LookupError(p, rows, k, e.ref, e.field)
  <2> HIDE DEF shown
  <2> QED BY <1>1, <1>2 DEF LookupError
<1>4. ASSUME LookupError(p, rows, k, e.ref, e.field) = "none"
      PROVE  LookupValue(shown, k, e.ref, e.field) = LookupValue(rows, k, e.ref, e.field)
  <2>1. CASE target = Blank
    <3> HIDE DEF shown
    <3> QED BY <1>1, <2>1 DEF LookupValue
  <2>2. CASE target # Blank
    <3>1. TargetError(p, rows, target) = "none"
      BY <1>4, <2>2, FormulaAssumption DEF LookupError, ReferenceTarget, FormulaAssumption, Errors
    <3>2. target \in DOMAIN rows \cap p.records
      BY <3>1, NoTargetError
    <3>3. Value(shown[target], e.field) = Value(rows[target], e.field)
      BY <3>2, MaskedRows, MaskedValue
    <3> HIDE DEF shown
    <3> QED BY <1>1, <2>2, <3>3 DEF LookupValue
  <2> QED BY <2>1, <2>2
<1> HIDE DEF shown
<1> QED BY <1>1, <1>3, <1>4 DEF EvaluateLookup, shown

(* What is read of the children.                                           *)
LEMMA SameChildren ==
    ASSUME NEW p, NEW defs, NEW rows, Scannable(p, rows), NEW k, NEW e, NEW s,
           NEW deeper, NEW masked, e.child \in p.scans,
           \A c \in DOMAIN rows \cap p.records :
               TableOf[c] = e.child => masked[c][e.value] = deeper[c][e.value]
    PROVE  EvaluateSum(p, defs, Masked(p, rows), masked, k, e, s)
              = EvaluateSum(p, defs, rows, deeper, k, e, s)
<1> DEFINE shown == Masked(p, rows)
           steps(r, d) == [i \in DOMAIN InOrder |-> [sum \in Outcomes |->
                               AddChild(p, r, d, k, e, sum, InOrder[i])]]
<1>1. \A c : c \in DOMAIN shown /\ TableOf[c] = e.child <=> c \in DOMAIN rows /\ TableOf[c] = e.child
  BY MaskedRows, MaskedValue DEF Scannable
<1>2. ASSUME NEW c, NEW sum
      PROVE  AddChild(p, shown, masked, k, e, sum, c) = AddChild(p, rows, deeper, k, e, sum, c)
  <2>1. CASE ~(c \in DOMAIN rows /\ TableOf[c] = e.child)
    <3> HIDE DEF shown
    <3> QED BY <1>1, <2>1 DEF AddChild
  <2>2. CASE c \in DOMAIN rows /\ TableOf[c] = e.child
    <3>1. c \in DOMAIN rows \cap p.records /\ c \in DOMAIN shown
      BY <1>1, <2>2 DEF Scannable
    <3>2. AuthorizedField(p, c, e.ref) => Value(shown[c], e.ref) = Value(rows[c], e.ref)
      BY <3>1, MaskedRows, MaskedValue DEF AuthorizedField
    <3>3. masked[c][e.value] = deeper[c][e.value]
      BY <2>2, <3>1
    <3> HIDE DEF shown
    <3> QED BY <2>2, <3>1, <3>2, <3>3 DEF AddChild
  <2> QED BY <2>1, <2>2
<1>3. steps(shown, masked) = steps(rows, deeper)
  <2> HIDE DEF shown
  <2> QED BY <1>2
<1>4. /\ EvaluateSum(p, defs, rows, deeper, k, e, s) =
            LET target == ReferenceTarget(e.child, e.ref)
                kind == CheckExpression(defs)[MaxDepth][e.child][e.value][0][{}].kind
            IN  IF target \notin Tables THEN Failed(s, target)
                ELSE IF target # TableOf[k] THEN Failed(s, "ReferenceTargetMismatch")
                ELSE IF ~AuthorizedScan(p, e.child, ScannedFields(defs, e))
                THEN Failed(s, "OutputDenied")
                ELSE IF kind \notin Kinds THEN Failed(s, kind)
                ELSE Through(steps(rows, deeper), Is(s, kind, 0))
  BY DEF EvaluateSum
<1> QED BY <1>3, <1>4 DEF EvaluateSum

(* Whatever is found one level deeper is the same for the masked records,  *)
(* so it is here.                                                          *)
Unseen(p, rows, authorized, evaluate, masked) ==
    \A k \in DOMAIN rows \cap p.records : \A e \in Expressions :
        authorized[TableOf[k]][e] => masked[k][e] = evaluate[k][e]

LEMMA PartsOf ==
    ASSUME NEW e \in Expressions
    PROVE  /\ e.op \in {"field", "lookup", "sum", "product", "total", "named"}
           /\ e.op = "sum" => e.value \in Expressions
           /\ e.op = "product" => e.left \in Expressions /\ e.right \in Expressions
           /\ e.op = "total" => e.values \in Seq(Expressions)
BY FormulaAssumption DEF FormulaAssumption

LEMMA SamePart ==
    ASSUME NEW p, NEW defs, \A key \in DOMAIN defs : defs[key] \in Expressions,
           NEW rows, DOMAIN rows \subseteq Keys, Scannable(p, rows),
           NEW authorized, NEW evaluate, NEW masked, Unseen(p, rows, authorized, evaluate, masked),
           NEW k \in DOMAIN rows \cap p.records, NEW e \in Expressions, NEW s,
           AuthorizedLevel(p, defs, authorized)[TableOf[k]][e]
    PROVE  EvaluatePart(p, defs, Masked(p, rows), masked, k, e, s)
              = EvaluatePart(p, defs, rows, evaluate, k, e, s)
<1> DEFINE t == TableOf[k]
           shown == Masked(p, rows)
<1>1. t \in Tables
  BY StoreAssumption DEF StoreAssumption, SchemaAssumption
<1>2. CASE e.op = "field"
  BY <1>2, SameField DEF EvaluatePart
<1>3. CASE e.op = "lookup"
  <2>1. e.ref \in p.fields /\ e.field \in p.fields
    BY <1>1, <1>3 DEF AuthorizedLevel
  <2> QED BY <1>3, <2>1, SameLookup DEF EvaluatePart
<1>4. CASE e.op = "sum"
  <2>1. e.child \in p.scans /\ authorized[e.child][e.value]
    BY <1>1, <1>4 DEF AuthorizedLevel, AuthorizedScan
  <2>2. \A c \in DOMAIN rows \cap p.records :
            TableOf[c] = e.child => masked[c][e.value] = evaluate[c][e.value]
    BY <1>4, <2>1, PartsOf DEF Unseen
  <2>3. EvaluateSum(p, defs, shown, masked, k, e, s) = EvaluateSum(p, defs, rows, evaluate, k, e, s)
    BY <2>1, <2>2, SameChildren
  <2> QED BY <1>4, <2>3 DEF EvaluatePart
<1>5. CASE e.op = "product"
  <2>1. authorized[t][e.left] /\ authorized[t][e.right]
    BY <1>1, <1>5 DEF AuthorizedLevel
  <2>2. masked[k][e.left] = evaluate[k][e.left] /\ masked[k][e.right] = evaluate[k][e.right]
    BY <1>5, <2>1, PartsOf DEF Unseen
  <2> QED BY <1>5, <2>2 DEF EvaluatePart
<1>6. CASE e.op = "total"
  <2>1. \A i \in DOMAIN e.values : authorized[t][e.values[i]]
    BY <1>1, <1>6 DEF AuthorizedLevel
  <2>2. \A i \in DOMAIN e.values : e.values[i] \in Expressions
    BY <1>6, PartsOf
  <2>3. \A i \in DOMAIN e.values : masked[k][e.values[i]] = evaluate[k][e.values[i]]
    BY <2>1, <2>2 DEF Unseen
  <2>4. EvaluateTotal(masked, k, e, s) = EvaluateTotal(evaluate, k, e, s)
    BY <2>3 DEF EvaluateTotal
  <2> QED BY <1>6, <2>4 DEF EvaluatePart
<1>7. CASE e.op = "named"
  <2>1. authorized[t][defs[<<t, e.name>>]]
    BY <1>1, <1>7 DEF AuthorizedLevel
  <2>2. <<t, e.name>> \in DOMAIN defs =>
            masked[k][defs[<<t, e.name>>]] = evaluate[k][defs[<<t, e.name>>]]
    BY <2>1 DEF Unseen
  <2>3. EvaluateNamed(defs, masked, k, e, s) = EvaluateNamed(defs, evaluate, k, e, s)
    BY <2>2 DEF EvaluateNamed
  <2> QED BY <1>7, <2>3 DEF EvaluatePart
<1> QED BY <1>2, <1>3, <1>4, <1>5, <1>6, <1>7, PartsOf

LEMMA SameLevel ==
    ASSUME NEW p, NEW defs, \A key \in DOMAIN defs : defs[key] \in Expressions,
           NEW rows, DOMAIN rows \subseteq Keys, Scannable(p, rows),
           NEW authorized, NEW evaluate, NEW masked, Unseen(p, rows, authorized, evaluate, masked)
    PROVE  Unseen(p, rows, AuthorizedLevel(p, defs, authorized),
                  EvaluateLevel(p, defs, rows, evaluate),
                  EvaluateLevel(p, defs, Masked(p, rows), masked))
<1> SUFFICES ASSUME NEW k \in DOMAIN rows \cap p.records, NEW e \in Expressions,
                    AuthorizedLevel(p, defs, authorized)[TableOf[k]][e]
             PROVE  EvaluateLevel(p, defs, Masked(p, rows), masked)[k][e]
                       = EvaluateLevel(p, defs, rows, evaluate)[k][e]
  BY DEF Unseen
<1>1. \A s : EvaluatePart(p, defs, Masked(p, rows), masked, k, e, s)
                = EvaluatePart(p, defs, rows, evaluate, k, e, s)
  BY SamePart
<1>2. k \in Keys
  OBVIOUS
<1> QED BY <1>1, <1>2 DEF EvaluateLevel

LEMMA SameAtEveryLevel ==
    ASSUME NEW p, NEW defs, \A key \in DOMAIN defs : defs[key] \in Expressions,
           NEW rows, DOMAIN rows \subseteq Keys, Scannable(p, rows)
    PROVE  \A n \in 0..MaxDepth :
              Unseen(p, rows, AuthorizedExpression(p, defs)[n],
                     EvaluateExpression(p, defs, rows)[n],
                     EvaluateExpression(p, defs, Masked(p, rows))[n])
<1> DEFINE authorized == AuthorizedExpression(p, defs)
           evaluate == EvaluateExpression(p, defs, rows)
           masked == EvaluateExpression(p, defs, Masked(p, rows))
           S == {n \in 0..MaxDepth : Unseen(p, rows, authorized[n], evaluate[n], masked[n])}
<1>0. MaxDepth \in Nat
  BY Depth
<1>1. /\ evaluate[0] = EvaluateTooDeep
      /\ \A n \in 1..MaxDepth : evaluate[n] = EvaluateLevel(p, defs, rows, evaluate[n - 1])
  BY EvaluateUnfolds
<1>2. /\ masked[0] = EvaluateTooDeep
      /\ \A n \in 1..MaxDepth : masked[n] = EvaluateLevel(p, defs, Masked(p, rows), masked[n - 1])
  BY EvaluateUnfolds
<1>3. \A n \in 1..MaxDepth : authorized[n] = AuthorizedLevel(p, defs, authorized[n - 1])
  BY AuthorizedUnfolds
<1> HIDE DEF authorized, evaluate, masked
<1>4. 0 \in S
  BY <1>0, <1>1, <1>2 DEF Unseen
<1>5. ASSUME NEW n \in 0..MaxDepth, n \in S, n # MaxDepth PROVE n + 1 \in S
  <2>1. n + 1 \in 1..MaxDepth /\ n + 1 - 1 = n
    BY <1>0, <1>5
  <2>2. Unseen(p, rows, authorized[n], evaluate[n], masked[n])
    BY <1>5
  <2>3. Unseen(p, rows, AuthorizedLevel(p, defs, authorized[n]),
               EvaluateLevel(p, defs, rows, evaluate[n]),
               EvaluateLevel(p, defs, Masked(p, rows), masked[n]))
    BY <2>2, SameLevel
  <2> QED BY <1>1, <1>2, <1>3, <2>1, <2>3
<1> HIDE DEF S
<1>6. \A n \in 0..MaxDepth : n \in S
  BY <1>0, <1>4, <1>5, Upward
<1> QED BY <1>6 DEF S, authorized, evaluate, masked

LEMMA SameEvaluation ==
    ASSUME NEW p, NEW defs, \A key \in DOMAIN defs : defs[key] \in Expressions,
           NEW rows, DOMAIN rows \subseteq Keys, Scannable(p, rows), NEW k, NEW name
    PROVE  Evaluate(p, defs, rows, k, name) = Evaluate(p, defs, Masked(p, rows), k, name)
<1> DEFINE key == <<TableOf[k], name>>
<1>1. TargetError(p, Masked(p, rows), k) = TargetError(p, rows, k)
  BY SameTargetError
<1>2. CASE key \notin DOMAIN defs \/ TargetError(p, rows, k) # "none"
           \/ ~AuthorizedExpression(p, defs)[MaxDepth][TableOf[k]][defs[key]]
  BY <1>1, <1>2 DEF Evaluate
<1>3. CASE key \in DOMAIN defs /\ TargetError(p, rows, k) = "none"
           /\ AuthorizedExpression(p, defs)[MaxDepth][TableOf[k]][defs[key]]
  <2>1. k \in DOMAIN rows \cap p.records
    BY <1>3, NoTargetError
  <2>2. defs[key] \in Expressions
    BY <1>3
  <2>3. Unseen(p, rows, AuthorizedExpression(p, defs)[MaxDepth],
               EvaluateExpression(p, defs, rows)[MaxDepth],
               EvaluateExpression(p, defs, Masked(p, rows))[MaxDepth])
    BY Depth, SameAtEveryLevel
  <2>4. EvaluateExpression(p, defs, Masked(p, rows))[MaxDepth][k][defs[key]]
           = EvaluateExpression(p, defs, rows)[MaxDepth][k][defs[key]]
    BY <1>3, <2>1, <2>2, <2>3 DEF Unseen
  <2> QED BY <1>1, <2>4 DEF Evaluate
<1> QED BY <1>2, <1>3

LEMMA DefinitionsAreExpressions ==
    ASSUME NEW list \in Formularies, NEW key \in DOMAIN Definitions(list)
    PROVE  Definitions(list)[key] \in Expressions
<1>1. \E i \in DOMAIN list : KeyOf(list[i]) = key
  BY DEF Definitions
<1>2. PICK i \in DOMAIN list : Definitions(list)[key] = list[i].expression
  BY <1>1 DEF Definitions
<1> QED BY <1>2, FormulaAssumption DEF FormulaAssumption

LEMMA PoliciesScan ==
    ASSUME NEW p \in Policies, NEW rows, DOMAIN rows \subseteq Keys
    PROVE  Scannable(p, rows)
BY FormulaAssumption DEF FormulaAssumption, Scannable

-----------------------------------------------------------------------------
(* What compilation establishes.                                           *)

LEMMA Names ==
    /\ Kinds \cap Tables = {} /\ Kinds \cap Errors = {} /\ Tables \cap Errors = {}
    /\ "none" \notin Kinds \cup Tables \cup Errors
    /\ Money \in Kinds /\ Whole \in Kinds
<1>1. (Errors \cup {"none"}) \cap (Tables \cup Kinds) = {}
  BY FormulaAssumption DEF FormulaAssumption
<1>2. Money \notin Tables /\ Whole \notin Tables
  BY StoreAssumption DEF StoreAssumption, SchemaAssumption
<1>3. "none" \notin Errors
  BY DEF Errors
<1> QED BY <1>1, <1>2, <1>3 DEF Kinds

LEMMA KindsOfParts ==
    /\ \A t, f : NumericKind(t, f) \in Kinds \cup Errors
    /\ \A t, f : ReferenceTarget(t, f) \in Tables \cup Errors
    /\ \A a, b \in Kinds : ProductKind(a, b) \in Kinds \cup Errors
    /\ \A a \in Kinds \cup {"none"}, b \in Kinds : TotalKind(a, b) \in Kinds \cup Errors
<1>1. \A t, f : NumericKind(t, f) \in Kinds \cup Errors
  BY DEF NumericKind, Errors
<1>2. \A t, f : ReferenceTarget(t, f) \in Tables \cup Errors
  BY DEF ReferenceTarget, Errors
<1>3. \A a, b \in Kinds : ProductKind(a, b) \in Kinds \cup Errors
  BY DEF ProductKind, Errors, Kinds
<1>4. \A a \in Kinds \cup {"none"}, b \in Kinds : TotalKind(a, b) \in Kinds \cup Errors
  BY DEF TotalKind, Errors
<1> QED BY <1>1, <1>2, <1>3, <1>4

ChecksEnded == [nodes : Nat, kind : Kinds \cup Errors]

(* A check ends with a kind or with an error, wherever it begins.          *)
WellChecked(defs, check) ==
    \A t \in Tables, e \in Expressions, b \in Nat, V \in SUBSET DOMAIN defs :
        check[t][e][b][V] \in ChecksEnded

Defined(defs) == \A key \in DOMAIN defs : defs[key] \in Expressions

(* What a total has come to: after the first part, a kind or an error.     *)
TotalSteps(deeper, t, e, V) ==
    [i \in DOMAIN e.values |-> [sum \in Checks |->
        CheckedMore(sum, deeper[t][e.values[i]][sum.nodes][V])]]

TotalWalk(f, deeper, t, e, b, V) ==
    LET part(i) == deeper[t][e.values[i]][f[i - 1].nodes][V]
    IN  /\ f[0] = [nodes |-> b, kind |-> "none"]
        /\ \A i \in 1..Len(e.values) :
              /\ f[i - 1] \in Checks
              /\ f[i] = CheckedMore(f[i - 1], part(i)) /\ f[i] \in ChecksEnded
              /\ part(i) \in ChecksEnded
        /\ Through(TotalSteps(deeper, t, e, V), [nodes |-> b, kind |-> "none"]) = f[Len(e.values)]
        /\ f[Len(e.values)] \in Checks

LEMMA TotalChecked ==
    ASSUME NEW defs, NEW deeper, WellChecked(defs, deeper), NEW t \in Tables, NEW e \in Expressions,
           e.op = "total", NEW b \in Nat, NEW V \in SUBSET DOMAIN defs
    PROVE  \E f : TotalWalk(f, deeper, t, e, b, V)
<1> DEFINE steps == TotalSteps(deeper, t, e, V)
           start == [nodes |-> b, kind |-> "none"]
           L == Len(e.values)
<1>1. L \in Nat /\ DOMAIN e.values = 1..L /\ \A i \in 1..L : e.values[i] \in Expressions
  BY PartsOf
<1>2. Len(steps) = L
  BY <1>1 DEF TotalSteps
<1>3. PICK f : /\ f[0] = start
               /\ \A i \in 1..L : f[i] = steps[i][f[i - 1]]
               /\ Through(steps, start) = f[L]
  BY <1>1, <1>2, LoopUnfolds
<1> DEFINE part(i) == deeper[t][e.values[i]][f[i - 1].nodes][V]
<1>4. \A i \in 1..L, s \in Checks : steps[i][s] = CheckedMore(s, deeper[t][e.values[i]][s.nodes][V])
  BY <1>1 DEF TotalSteps
<1>5. start \in Checks
  BY DEF Checks
<1>6. ASSUME NEW s \in Checks, NEW r \in ChecksEnded PROVE CheckedMore(s, r) \in ChecksEnded
  BY <1>6, KindsOfParts DEF CheckedMore, Checks, ChecksEnded
<1>7. \A s \in ChecksEnded : s \in Checks
  BY DEF Checks, ChecksEnded
<1>8. ASSUME NEW i \in 1..L, f[i - 1] \in Checks
      PROVE  /\ f[i] = CheckedMore(f[i - 1], part(i)) /\ f[i] \in ChecksEnded
             /\ part(i) \in ChecksEnded
  <2>1. f[i] = CheckedMore(f[i - 1], part(i))
    BY <1>3, <1>4, <1>8
  <2>2. f[i - 1].nodes \in Nat
    BY <1>8 DEF Checks
  <2>3. part(i) \in ChecksEnded
    BY <1>1, <2>2 DEF WellChecked
  <2> QED BY <1>6, <1>8, <2>1, <2>3
<1> DEFINE S == {i \in 0..L : f[i] \in Checks}
<1> HIDE DEF steps, start, L, part
<1>9. 0 \in S
  BY <1>1, <1>3, <1>5
<1>10. ASSUME NEW i \in 0..L, i \in S, i # L PROVE i + 1 \in S
  <2>1. i + 1 \in 1..L /\ i + 1 - 1 = i
    BY <1>1, <1>10
  <2> QED BY <1>7, <1>8, <1>10, <2>1
<1> HIDE DEF S
<1>11. \A i \in 0..L : i \in S
  BY <1>1, <1>9, <1>10, Upward
<1>12. \A i \in 0..L : f[i] \in Checks
  BY <1>11 DEF S
<1>13. \A i \in 1..L : i - 1 \in 0..L
  BY <1>1
<1>14. L \in 0..L
  BY <1>1
<1>15. \A i \in 1..L : /\ f[i - 1] \in Checks
                       /\ f[i] = CheckedMore(f[i - 1], part(i)) /\ f[i] \in ChecksEnded
                       /\ part(i) \in ChecksEnded
  BY <1>8, <1>12, <1>13
<1> QED BY <1>3, <1>12, <1>14, <1>15 DEF steps, start, L, part, TotalWalk

LEMMA PartChecked ==
    ASSUME NEW defs, Defined(defs), NEW deeper, WellChecked(defs, deeper),
           NEW t \in Tables, NEW e \in Expressions, NEW nodes \in Nat, NEW V \in SUBSET DOMAIN defs
    PROVE  CheckPart(defs, deeper, t, e, nodes, V) \in ChecksEnded
<1>0. \A kind \in Kinds \cup Errors : [nodes |-> nodes, kind |-> kind] \in ChecksEnded
  BY DEF ChecksEnded
<1>1. CASE e.op = "field"
  BY <1>0, <1>1, KindsOfParts DEF CheckPart
<1>2. CASE e.op = "lookup"
  <2>1. \A x : ReferenceTarget(t, e.ref) \in Tables \/ ReferenceTarget(t, e.ref) \in Errors
    BY KindsOfParts
  <2> QED BY <1>0, <1>2, <2>1, KindsOfParts DEF CheckPart
<1>3. CASE e.op = "sum"
  <2> DEFINE target == ReferenceTarget(e.child, e.ref)
  <2>1. target \in Tables \cup Errors
    BY KindsOfParts
  <2>2. target \in Tables => e.child \in Tables
    BY Names DEF ReferenceTarget, Errors
  <2>3. e.value \in Expressions
    BY <1>3, PartsOf
  <2>4. "ReferenceTargetMismatch" \in Errors
    BY DEF Errors
  <2>5. e.child \in Tables => deeper[e.child][e.value][nodes][V] \in ChecksEnded
    BY <2>3 DEF WellChecked
  <2> HIDE DEF target
  <2>6. CheckPart(defs, deeper, t, e, nodes, V) =
           IF target \notin Tables THEN [nodes |-> nodes, kind |-> target]
           ELSE IF target # t THEN [nodes |-> nodes, kind |-> "ReferenceTargetMismatch"]
           ELSE deeper[e.child][e.value][nodes][V]
    BY <1>3 DEF CheckPart, target
  <2> QED BY <1>0, <2>1, <2>2, <2>4, <2>5, <2>6
<1>4. CASE e.op = "product"
  <2> DEFINE left == deeper[t][e.left][nodes][V]
             right == deeper[t][e.right][left.nodes][V]
  <2>1. left \in ChecksEnded
    BY <1>4, PartsOf DEF WellChecked
  <2>2. left.nodes \in Nat
    BY <2>1 DEF ChecksEnded
  <2>3. right \in ChecksEnded
    BY <1>4, <2>2, PartsOf DEF WellChecked
  <2>4. CheckPart(defs, deeper, t, e, nodes, V) = CheckedProduct(left, right)
    BY <1>4 DEF CheckPart
  <2> HIDE DEF left, right
  <2> QED BY <2>1, <2>3, <2>4, KindsOfParts DEF CheckedProduct, ChecksEnded
<1>5. CASE e.op = "total"
  <2>1. Through(TotalSteps(deeper, t, e, V), [nodes |-> nodes, kind |-> "none"]) \in Checks
    <3>1. PICK f : TotalWalk(f, deeper, t, e, nodes, V)
      BY <1>5, TotalChecked
    <3> QED BY <3>1 DEF TotalWalk
  <2>2. CheckPart(defs, deeper, t, e, nodes, V)
           = CheckedTotal(Through(TotalSteps(deeper, t, e, V), [nodes |-> nodes, kind |-> "none"]))
    BY <1>5 DEF CheckPart, TotalSteps
  <2> QED BY <2>1, <2>2 DEF CheckedTotal, Checks, ChecksEnded, Errors
<1>6. CASE e.op = "named"
  <2> DEFINE key == <<t, e.name>>
  <2>1. key \in DOMAIN defs => deeper[t][defs[key]][nodes][V \cup {key}] \in ChecksEnded
    BY DEF WellChecked, Defined
  <2>2. {"FormulaCycle", "MissingFormula"} \subseteq Errors
    BY DEF Errors
  <2> QED BY <1>0, <1>6, <2>1, <2>2 DEF CheckPart
<1> QED BY <1>1, <1>2, <1>3, <1>4, <1>5, <1>6, PartsOf

LEMMA LevelIs ==
    ASSUME NEW defs, NEW deeper,
           NEW t \in Tables, NEW e \in Expressions, NEW b \in Nat, NEW V \in SUBSET DOMAIN defs
    PROVE  CheckLevel(defs, deeper)[t][e][b][V] =
              IF b + 1 > MaxNodes THEN [nodes |-> b + 1, kind |-> "NodeBudgetExceeded"]
              ELSE CheckPart(defs, deeper, t, e, b + 1, V)
BY DEF CheckLevel

LEMMA LevelChecked ==
    ASSUME NEW defs, Defined(defs), NEW deeper, WellChecked(defs, deeper)
    PROVE  WellChecked(defs, CheckLevel(defs, deeper))
<1> SUFFICES ASSUME NEW t \in Tables, NEW e \in Expressions, NEW b \in Nat,
                    NEW V \in SUBSET DOMAIN defs
             PROVE  CheckLevel(defs, deeper)[t][e][b][V] \in ChecksEnded
  BY DEF WellChecked
<1>1. b + 1 \in Nat
  OBVIOUS
<1>2. CheckPart(defs, deeper, t, e, b + 1, V) \in ChecksEnded
  BY <1>1, PartChecked
<1>3. [nodes |-> b + 1, kind |-> "NodeBudgetExceeded"] \in ChecksEnded
  BY <1>1 DEF ChecksEnded, Errors
<1> QED BY <1>2, <1>3, LevelIs

LEMMA AlwaysChecked ==
    ASSUME NEW defs, Defined(defs)
    PROVE  \A n \in 0..MaxDepth : WellChecked(defs, CheckExpression(defs)[n])
<1> DEFINE check == CheckExpression(defs)
           S == {n \in 0..MaxDepth : WellChecked(defs, check[n])}
<1>0. MaxDepth \in Nat
  BY Depth
<1>1. check[0] = CheckTooDeep(defs)
  BY CheckUnfolds
<1>2. \A n \in 1..MaxDepth : check[n] = CheckLevel(defs, check[n - 1])
  BY CheckUnfolds
<1> HIDE DEF check
<1>3. 0 \in S
  <2>1. WellChecked(defs, CheckTooDeep(defs))
    BY DEF WellChecked, CheckTooDeep, ChecksEnded, Errors
  <2> QED BY <1>0, <1>1, <2>1
<1>4. ASSUME NEW n \in 0..MaxDepth, n \in S, n # MaxDepth PROVE n + 1 \in S
  <2>1. n + 1 \in 1..MaxDepth /\ n + 1 - 1 = n
    BY <1>0, <1>4
  <2>2. WellChecked(defs, CheckLevel(defs, check[n]))
    BY <1>4, LevelChecked
  <2> QED BY <1>2, <2>1, <2>2
<1> HIDE DEF S
<1>5. \A n \in 0..MaxDepth : n \in S
  BY <1>0, <1>3, <1>4, Upward
<1> QED BY <1>5 DEF S, check

(* The expression compiles on the table, to a kind.                        *)
Passes(defs, check, t, e, kind) ==
    /\ kind \in Kinds
    /\ \E b \in Nat, V \in SUBSET DOMAIN defs : check[t][e][b][V].kind = kind

(* What it takes to compile.                                               *)
Compiled(defs, deeper, t, e, kind) ==
    CASE e.op = "field" -> NumericKind(t, e.field) = kind
      [] e.op = "lookup" ->
           /\ ReferenceTarget(t, e.ref) \in Tables
           /\ NumericKind(ReferenceTarget(t, e.ref), e.field) = kind
      [] e.op = "sum" ->
           /\ e.child \in Tables /\ ReferenceTarget(e.child, e.ref) = t
           /\ Passes(defs, deeper, e.child, e.value, kind)
      [] e.op = "product" ->
           \E left, right \in Kinds :
              /\ Passes(defs, deeper, t, e.left, left) /\ Passes(defs, deeper, t, e.right, right)
              /\ ProductKind(left, right) = kind
      [] e.op = "total" ->
           Len(e.values) # 0 /\ \A i \in DOMAIN e.values : Passes(defs, deeper, t, e.values[i], kind)
      [] e.op = "named" ->
           <<t, e.name>> \in DOMAIN defs /\ Passes(defs, deeper, t, defs[<<t, e.name>>], kind)

(* A total that ends with a kind has been at it since its first part.      *)
LEMMA TotalKinds ==
    ASSUME NEW L \in Nat, NEW f, NEW r, NEW kind \in Kinds,
           f[0].kind = "none",
           \A i \in 1..L : f[i] = CheckedMore(f[i - 1], r[i]) /\ f[i] \in ChecksEnded
                           /\ r[i] \in ChecksEnded,
           CheckedTotal(f[L]).kind = kind
    PROVE  L # 0 /\ \A i \in 1..L : r[i].kind = kind /\ f[i].kind = kind
                                    /\ f[i].nodes = r[i].nodes
                                    /\ f[i - 1].kind \in {"none", kind}
<1>1. f[L].kind = kind
  BY Names DEF CheckedTotal, Errors
<1>2. L # 0
  BY <1>1, Names
<1>3. ASSUME NEW i \in 1..L, f[i].kind = kind
      PROVE  /\ r[i].kind = kind /\ f[i].nodes = r[i].nodes
             /\ f[i - 1].kind \in {"none", kind} /\ (i # 1 => f[i - 1].kind = kind)
  <2>1. f[i] = CheckedMore(f[i - 1], r[i])
    OBVIOUS
  <2>2. f[i - 1].kind \in Kinds \cup {"none"} /\ r[i].kind \in Kinds
    <3>1. i = 1 => f[i - 1].kind = "none"
      OBVIOUS
    <3>2. i # 1 => i - 1 \in 1..L
      OBVIOUS
    <3>3. i # 1 => f[i - 1] \in ChecksEnded
      BY <3>2
    <3> QED BY <1>3, <2>1, <3>1, Names DEF CheckedMore
  <2>3. f[i] = [nodes |-> r[i].nodes, kind |-> TotalKind(f[i - 1].kind, r[i].kind)]
    BY <2>1, <2>2 DEF CheckedMore
  <2>4. f[i].nodes = r[i].nodes /\ TotalKind(f[i - 1].kind, r[i].kind) = kind
    BY <1>3, <2>3
  <2>5. f[i - 1].kind \in {"none", kind} /\ r[i].kind = kind
    BY <2>4, Names DEF TotalKind, Errors
  <2>6. i # 1 => f[i - 1].kind # "none"
    <3>1. i # 1 => i - 1 \in 1..L
      OBVIOUS
    <3>2. i # 1 => f[i - 1] \in ChecksEnded
      BY <3>1
    <3> QED BY <3>2, Names DEF ChecksEnded
  <2> QED BY <2>4, <2>5, <2>6
<1> DEFINE S == {j \in Nat : j < L => f[L - j].kind = kind}
<1>4. 0 \in S
  BY <1>1
<1>5. ASSUME NEW j \in 0..L, j \in S, j # L PROVE j + 1 \in S
  <2>1. L - j \in 1..L /\ f[L - j].kind = kind
    BY <1>5
  <2>2. L - j # 1 => f[L - j - 1].kind = kind
    BY <1>3, <2>1
  <2>3. L - (j + 1) = L - j - 1 /\ (j + 1 < L => L - j # 1)
    BY <1>5
  <2> QED BY <2>2, <2>3
<1> HIDE DEF S
<1>6. \A j \in 0..L : j \in S
  BY <1>4, <1>5, Upward
<1>7. ASSUME NEW i \in 1..L PROVE f[i].kind = kind
  <2>1. L - i \in 0..L /\ L - i < L /\ L - (L - i) = i
    OBVIOUS
  <2> QED BY <1>6, <2>1 DEF S
<1> QED BY <1>2, <1>3, <1>7

(* The parts of a total that compiles.                                     *)
TotalRun(f, deeper, t, e, b, V, kind) ==
    /\ f[0] = [nodes |-> b, kind |-> "none"] /\ Len(e.values) # 0
    /\ Through(TotalSteps(deeper, t, e, V), [nodes |-> b, kind |-> "none"]) = f[Len(e.values)]
    /\ \A i \in 1..Len(e.values) :
          LET part == deeper[t][e.values[i]][f[i - 1].nodes][V]
          IN  /\ f[i - 1].nodes \in Nat /\ f[i].nodes \in Nat
              /\ f[i].nodes = part.nodes /\ part.kind = kind /\ f[i].kind = kind
              /\ f[i - 1].kind \in {"none", kind}

LEMMA TotalCompiles ==
    ASSUME NEW defs, NEW deeper, WellChecked(defs, deeper), NEW t \in Tables, NEW e \in Expressions,
           e.op = "total", NEW b \in Nat, NEW V \in SUBSET DOMAIN defs, NEW kind \in Kinds,
           CheckedTotal(Through(TotalSteps(deeper, t, e, V), [nodes |-> b, kind |-> "none"])).kind
               = kind
    PROVE  \E f : TotalRun(f, deeper, t, e, b, V, kind)
<1> DEFINE L == Len(e.values)
           start == [nodes |-> b, kind |-> "none"]
           sum == Through(TotalSteps(deeper, t, e, V), start)
<1>0. L \in Nat
  BY PartsOf
<1>9. PICK f : TotalWalk(f, deeper, t, e, b, V)
  BY TotalChecked
<1> DEFINE part(i) == deeper[t][e.values[i]][f[i - 1].nodes][V]
<1>1. /\ f[0] = start
      /\ \A i \in 1..L :
            /\ f[i - 1] \in Checks
            /\ f[i] = CheckedMore(f[i - 1], part(i)) /\ f[i] \in ChecksEnded
            /\ part(i) \in ChecksEnded
      /\ sum = f[L]
      /\ f[L] \in Checks
  BY <1>9 DEF TotalWalk
<1> DEFINE r == [i \in 1..L |-> deeper[t][e.values[i]][f[i - 1].nodes][V]]
<1> HIDE DEF L, sum
<1>2. \A i \in 1..L : f[i] = CheckedMore(f[i - 1], r[i]) /\ f[i] \in ChecksEnded
                      /\ r[i] \in ChecksEnded
  BY <1>1
<1>3. f[0].kind = "none"
  BY <1>1
<1>4. CheckedTotal(f[L]).kind = kind
  BY <1>1 DEF sum
<1>5. \A i \in 1..L : r[i] = deeper[t][e.values[i]][f[i - 1].nodes][V]
  OBVIOUS
<1> HIDE DEF r
<1>6. L # 0 /\ \A i \in 1..L : r[i].kind = kind /\ f[i].kind = kind /\ f[i].nodes = r[i].nodes
                               /\ f[i - 1].kind \in {"none", kind}
  BY <1>0, <1>2, <1>3, <1>4, TotalKinds
<1>7. \A i \in 1..L : f[i - 1].nodes \in Nat /\ f[i].nodes \in Nat
  BY <1>1 DEF Checks, ChecksEnded
<1> QED BY <1>1, <1>5, <1>6, <1>7 DEF L, sum, TotalRun

LEMMA WhatCompiles ==
    ASSUME NEW defs, NEW deeper, WellChecked(defs, deeper), NEW t \in Tables, NEW e \in Expressions,
           NEW kind, Passes(defs, CheckLevel(defs, deeper), t, e, kind)
    PROVE  Compiled(defs, deeper, t, e, kind)
<1>1. PICK b \in Nat, V \in SUBSET DOMAIN defs : CheckLevel(defs, deeper)[t][e][b][V].kind = kind
  BY DEF Passes
<1>2. kind \in Kinds /\ kind \notin Errors /\ kind \notin Tables
  BY Names DEF Passes
<1> DEFINE nodes == b + 1
           check == CheckPart(defs, deeper, t, e, nodes, V)
<1>3. check.kind = kind
  <2>1. CheckLevel(defs, deeper)[t][e][b][V] =
           IF nodes > MaxNodes THEN [nodes |-> nodes, kind |-> "NodeBudgetExceeded"] ELSE check
    BY LevelIs
  <2>2. kind # "NodeBudgetExceeded"
    BY <1>2 DEF Errors
  <2> HIDE DEF check, nodes
  <2> QED BY <1>1, <2>1, <2>2
<1>4. nodes \in Nat
  OBVIOUS
<1> HIDE DEF nodes
<1>5. CASE e.op = "field"
  BY <1>3, <1>5 DEF CheckPart, Compiled
<1>6. CASE e.op = "lookup"
  <2>1. check.kind = IF ReferenceTarget(t, e.ref) \in Tables
                     THEN NumericKind(ReferenceTarget(t, e.ref), e.field) ELSE ReferenceTarget(t, e.ref)
    BY <1>6 DEF CheckPart
  <2> QED BY <1>2, <1>3, <1>6, <2>1, KindsOfParts DEF Compiled
<1>7. CASE e.op = "sum"
  <2> DEFINE target == ReferenceTarget(e.child, e.ref)
  <2>1. target \in Tables \cup Errors
    BY KindsOfParts
  <2>2. target \in Tables => e.child \in Tables
    BY Names DEF ReferenceTarget, Errors
  <2>3. check = IF target \notin Tables THEN [nodes |-> nodes, kind |-> target]
                ELSE IF target # t THEN [nodes |-> nodes, kind |-> "ReferenceTargetMismatch"]
                ELSE deeper[e.child][e.value][nodes][V]
    BY <1>7 DEF CheckPart
  <2> HIDE DEF target, check
  <2>4. target = t /\ deeper[e.child][e.value][nodes][V].kind = kind
    BY <1>2, <1>3, <2>1, <2>3 DEF Errors
  <2> QED BY <1>2, <1>4, <1>7, <2>2, <2>4 DEF Compiled, Passes, target
<1>8. CASE e.op = "product"
  <2> DEFINE left == deeper[t][e.left][nodes][V]
             right == deeper[t][e.right][left.nodes][V]
  <2>1. left \in ChecksEnded
    BY <1>4, <1>8, PartsOf DEF WellChecked
  <2>2. left.nodes \in Nat
    BY <2>1 DEF ChecksEnded
  <2>3. check = CheckedProduct(left, right)
    BY <1>8 DEF CheckPart
  <2>4. right \in ChecksEnded
    BY <1>8, <2>2, PartsOf DEF WellChecked
  <2>5. left.kind \in Kinds /\ right.kind \in Kinds /\ ProductKind(left.kind, right.kind) = kind
    <3> HIDE DEF left, right, check
    <3> QED BY <1>2, <1>3, <2>1, <2>3, <2>4 DEF CheckedProduct, ChecksEnded
  <2>6. Passes(defs, deeper, t, e.left, left.kind) /\ Passes(defs, deeper, t, e.right, right.kind)
    BY <1>4, <2>2, <2>5 DEF Passes
  <2> HIDE DEF left, right
  <2> QED BY <1>8, <2>5, <2>6 DEF Compiled
<1>9. CASE e.op = "total"
  <2>1. check = CheckedTotal(Through(TotalSteps(deeper, t, e, V), [nodes |-> nodes, kind |-> "none"]))
    BY <1>9 DEF CheckPart, TotalSteps
  <2>5. CheckedTotal(Through(TotalSteps(deeper, t, e, V), [nodes |-> nodes, kind |-> "none"])).kind
           = kind
    BY <1>3, <2>1
  <2> HIDE DEF check
  <2>6. PICK f : TotalRun(f, deeper, t, e, nodes, V, kind)
    BY <1>2, <1>4, <1>9, <2>5, TotalCompiles
  <2>2. /\ Len(e.values) # 0
        /\ \A i \in 1..Len(e.values) :
              /\ f[i - 1].nodes \in Nat
              /\ deeper[t][e.values[i]][f[i - 1].nodes][V].kind = kind
    BY <2>6 DEF TotalRun
  <2>3. DOMAIN e.values = 1..Len(e.values)
    BY <1>9, PartsOf
  <2>4. \A i \in DOMAIN e.values : Passes(defs, deeper, t, e.values[i], kind)
    BY <1>2, <2>2, <2>3 DEF Passes
  <2> QED BY <1>9, <2>2, <2>4 DEF Compiled
<1>10. CASE e.op = "named"
  <2> DEFINE key == <<t, e.name>>
  <2>1. key \in DOMAIN defs /\ deeper[t][defs[key]][nodes][V \cup {key}].kind = kind
    BY <1>2, <1>3, <1>10 DEF CheckPart, Errors
  <2>2. V \cup {key} \in SUBSET DOMAIN defs
    BY <2>1
  <2> QED BY <1>2, <1>4, <1>10, <2>1, <2>2 DEF Compiled, Passes
<1> QED BY <1>5, <1>6, <1>7, <1>8, <1>9, <1>10, PartsOf

(* Compilation that begins with less behind it passes too.                 *)
Easier(defs, one, other) ==
    \A t \in Tables, e \in Expressions, b \in Nat, c \in Nat, V \in SUBSET DOMAIN defs :
        \A W \in SUBSET V : c <= b /\ one[t][e][b][V].kind \in Kinds =>
            /\ other[t][e][c][W].kind = one[t][e][b][V].kind
            /\ other[t][e][c][W].nodes <= one[t][e][b][V].nodes

LEMMA EasierUse ==
    ASSUME NEW defs, NEW one, NEW other, Easier(defs, one, other), NEW t \in Tables,
           NEW e \in Expressions, NEW b \in Nat, NEW c \in Nat, c <= b,
           NEW V \in SUBSET DOMAIN defs, NEW W \in SUBSET V, one[t][e][b][V].kind \in Kinds
    PROVE  /\ other[t][e][c][W].kind = one[t][e][b][V].kind
           /\ other[t][e][c][W].nodes <= one[t][e][b][V].nodes
BY DEF Easier

LEMMA EasierTotal ==
    ASSUME NEW defs, NEW one, NEW other, WellChecked(defs, one), WellChecked(defs, other),
           Easier(defs, one, other), NEW t \in Tables, NEW e \in Expressions, e.op = "total",
           NEW b \in Nat, NEW c \in Nat, c <= b, NEW V \in SUBSET DOMAIN defs, NEW W \in SUBSET V,
           NEW kind \in Kinds,
           CheckedTotal(Through(TotalSteps(one, t, e, V), [nodes |-> b, kind |-> "none"])).kind = kind
    PROVE  LET x == CheckedTotal(Through(TotalSteps(one, t, e, V), [nodes |-> b, kind |-> "none"]))
               y == CheckedTotal(Through(TotalSteps(other, t, e, W), [nodes |-> c, kind |-> "none"]))
           IN  y.kind = x.kind /\ y.nodes <= x.nodes
<1> DEFINE L == Len(e.values)
<1>0. L \in Nat /\ \A i \in 1..L : e.values[i] \in Expressions
  BY PartsOf
<1>1. PICK f : TotalRun(f, one, t, e, b, V, kind)
  BY TotalCompiles
<1>2. /\ f[0] = [nodes |-> b, kind |-> "none"] /\ L # 0
      /\ Through(TotalSteps(one, t, e, V), [nodes |-> b, kind |-> "none"]) = f[L]
      /\ \A i \in 1..L :
            /\ f[i - 1].nodes \in Nat /\ f[i].nodes \in Nat /\ f[i].kind = kind
            /\ f[i].nodes = one[t][e.values[i]][f[i - 1].nodes][V].nodes
            /\ one[t][e.values[i]][f[i - 1].nodes][V].kind = kind
            /\ f[i - 1].kind \in {"none", kind}
  BY <1>1 DEF TotalRun
<1>3. W \in SUBSET DOMAIN defs
  OBVIOUS
<1>10. PICK g : TotalWalk(g, other, t, e, c, W)
  BY <1>3, TotalChecked
<1>4. /\ g[0] = [nodes |-> c, kind |-> "none"]
      /\ \A i \in 1..L :
            /\ g[i - 1] \in Checks
            /\ g[i] = CheckedMore(g[i - 1], other[t][e.values[i]][g[i - 1].nodes][W])
      /\ Through(TotalSteps(other, t, e, W), [nodes |-> c, kind |-> "none"]) = g[L]
  BY <1>10 DEF TotalWalk
<1> HIDE DEF L
<1> DEFINE Less(i) == g[i].kind = f[i].kind /\ g[i].nodes <= f[i].nodes
           S == {i \in 0..L : Less(i)}
<1>5. 0 \in S
  BY <1>0, <1>2, <1>4
<1>6. ASSUME NEW i \in 0..L, i \in S, i # L PROVE i + 1 \in S
  <2>1. i + 1 \in 1..L /\ i + 1 - 1 = i
    BY <1>0, <1>6
  <2> DEFINE r == one[t][e.values[i + 1]][f[i].nodes][V]
             q == other[t][e.values[i + 1]][g[i].nodes][W]
  <2>2. /\ f[i].nodes \in Nat /\ f[i + 1].nodes = r.nodes /\ f[i + 1].kind = kind
        /\ r.kind = kind /\ f[i].kind \in {"none", kind}
    BY <1>2, <2>1
  <2>3. g[i] \in Checks /\ g[i + 1] = CheckedMore(g[i], q)
    BY <1>4, <2>1
  <2>4. g[i].nodes \in Nat /\ g[i].nodes <= f[i].nodes /\ g[i].kind = f[i].kind
    BY <1>6, <2>3 DEF Checks
  <2>5. e.values[i + 1] \in Expressions
    BY <1>0, <2>1
  <2>6. q.kind = r.kind /\ q.nodes <= r.nodes
    <3> DEFINE x == e.values[i + 1]
    <3>1. x \in Expressions /\ one[t][x][f[i].nodes][V].kind \in Kinds
      BY <2>2, <2>5
    <3>2. g[i].nodes \in Nat /\ f[i].nodes \in Nat /\ g[i].nodes <= f[i].nodes
      BY <2>2, <2>4
    <3> HIDE DEF x
    <3>3. /\ other[t][x][g[i].nodes][W].kind = one[t][x][f[i].nodes][V].kind
          /\ other[t][x][g[i].nodes][W].nodes <= one[t][x][f[i].nodes][V].nodes
      BY <3>1, <3>2, EasierUse
    <3> QED BY <3>3 DEF x
  <2> HIDE DEF q, r
  <2>7. TotalKind(g[i].kind, q.kind) = kind
    BY <2>2, <2>4, <2>6 DEF TotalKind
  <2>8. g[i + 1] = [nodes |-> q.nodes, kind |-> kind]
    BY <2>2, <2>3, <2>4, <2>6, <2>7 DEF CheckedMore
  <2> QED BY <2>1, <2>2, <2>6, <2>8
<1>7. L \in S
  <2> HIDE DEF S
  <2>1. \A i \in 0..L : i \in S
    BY <1>0, <1>5, <1>6, Upward
  <2> QED BY <1>0, <2>1
<1>8. f[L].kind = kind /\ L \in 1..L
  BY <1>0, <1>2
<1>9. g[L].kind = f[L].kind /\ g[L].nodes <= f[L].nodes
  BY <1>7
<1> QED BY <1>2, <1>4, <1>8, <1>9, Names DEF CheckedTotal

LEMMA EasierLevel ==
    ASSUME NEW defs, Defined(defs), NEW one, NEW other, WellChecked(defs, one), WellChecked(defs, other),
           Easier(defs, one, other)
    PROVE  Easier(defs, CheckLevel(defs, one), CheckLevel(defs, other))
<1> SUFFICES ASSUME NEW t \in Tables, NEW e \in Expressions, NEW b \in Nat, NEW c \in Nat, c <= b,
                    NEW V \in SUBSET DOMAIN defs, NEW W \in SUBSET V,
                    CheckLevel(defs, one)[t][e][b][V].kind \in Kinds
             PROVE  /\ CheckLevel(defs, other)[t][e][c][W].kind
                          = CheckLevel(defs, one)[t][e][b][V].kind
                    /\ CheckLevel(defs, other)[t][e][c][W].nodes
                          <= CheckLevel(defs, one)[t][e][b][V].nodes
  BY DEF Easier
<1> DEFINE x == CheckPart(defs, one, t, e, b + 1, V)
           y == CheckPart(defs, other, t, e, c + 1, W)
<1>0. W \in SUBSET DOMAIN defs /\ b + 1 \in Nat /\ c + 1 \in Nat /\ c + 1 <= b + 1 /\ MaxNodes \in Nat
  BY FormulaAssumption DEF FormulaAssumption
<1>1. b + 1 <= MaxNodes /\ CheckLevel(defs, one)[t][e][b][V] = x /\ x.kind \in Kinds
  <2>1. CheckLevel(defs, one)[t][e][b][V] =
           IF b + 1 > MaxNodes THEN [nodes |-> b + 1, kind |-> "NodeBudgetExceeded"] ELSE x
    BY LevelIs
  <2>2. "NodeBudgetExceeded" \notin Kinds
    BY Names DEF Errors
  <2> HIDE DEF x
  <2> QED BY <1>0, <2>1, <2>2
<1>2. CheckLevel(defs, other)[t][e][c][W] = y
  <2>1. CheckLevel(defs, other)[t][e][c][W] =
           IF c + 1 > MaxNodes THEN [nodes |-> c + 1, kind |-> "NodeBudgetExceeded"] ELSE y
    BY <1>0, LevelIs
  <2> HIDE DEF y
  <2> QED BY <1>0, <1>1, <2>1
<1> SUFFICES y.kind = x.kind /\ y.nodes <= x.nodes
  BY <1>1, <1>2
<1>3. CASE e.op \in {"field", "lookup"}
  BY <1>0, <1>3 DEF CheckPart
<1>4. CASE e.op = "sum"
  <2> DEFINE target == ReferenceTarget(e.child, e.ref)
  <2>1. target \in Tables \cup Errors
    BY KindsOfParts
  <2>2. target \in Tables => e.child \in Tables
    BY Names DEF ReferenceTarget, Errors
  <2>3. x = IF target \notin Tables THEN [nodes |-> b + 1, kind |-> target]
            ELSE IF target # t THEN [nodes |-> b + 1, kind |-> "ReferenceTargetMismatch"]
            ELSE one[e.child][e.value][b + 1][V]
    BY <1>4 DEF CheckPart
  <2>4. y = IF target \notin Tables THEN [nodes |-> c + 1, kind |-> target]
            ELSE IF target # t THEN [nodes |-> c + 1, kind |-> "ReferenceTargetMismatch"]
            ELSE other[e.child][e.value][c + 1][W]
    BY <1>4 DEF CheckPart
  <2>5. target = t
    <3> HIDE DEF target, x
    <3> QED BY <1>1, <2>1, <2>3, Names DEF Errors
  <2>6. e.value \in Expressions
    BY <1>4, PartsOf
  <2> HIDE DEF target, x, y
  <2>7. /\ x = one[e.child][e.value][b + 1][V] /\ y = other[e.child][e.value][c + 1][W]
        /\ one[e.child][e.value][b + 1][V].kind \in Kinds /\ e.child \in Tables
    BY <1>1, <2>2, <2>3, <2>4, <2>5
  <2>8. /\ other[e.child][e.value][c + 1][W].kind = one[e.child][e.value][b + 1][V].kind
        /\ other[e.child][e.value][c + 1][W].nodes <= one[e.child][e.value][b + 1][V].nodes
    BY <1>0, <2>6, <2>7, EasierUse
  <2> QED BY <2>7, <2>8
<1>5. CASE e.op = "product"
  <2> DEFINE left == one[t][e.left][b + 1][V]
             right == one[t][e.right][left.nodes][V]
             left2 == other[t][e.left][c + 1][W]
             right2 == other[t][e.right][left2.nodes][W]
  <2>1. x = CheckedProduct(left, right) /\ y = CheckedProduct(left2, right2)
    BY <1>5 DEF CheckPart
  <2>2. left \in ChecksEnded /\ left2 \in ChecksEnded
    BY <1>0, <1>5, PartsOf DEF WellChecked
  <2>3. left.nodes \in Nat /\ left2.nodes \in Nat
    BY <2>2 DEF ChecksEnded
  <2>4. right \in ChecksEnded /\ right2 \in ChecksEnded
    BY <1>0, <1>5, <2>3, PartsOf DEF WellChecked
  <2>5. left.kind \in Kinds /\ right.kind \in Kinds
    <3> HIDE DEF left, right, x
    <3> QED BY <1>1, <2>1 DEF CheckedProduct
  <2>6. left2.kind = left.kind /\ left2.nodes <= left.nodes
    BY <1>0, <1>5, <2>5, PartsOf, EasierUse
  <2>7. right2.kind = right.kind /\ right2.nodes <= right.nodes
    BY <1>0, <1>5, <2>3, <2>5, <2>6, PartsOf, EasierUse
  <2> HIDE DEF left, right, left2, right2, x, y
  <2> QED BY <2>1, <2>5, <2>6, <2>7 DEF CheckedProduct
<1>6. CASE e.op = "total"
  <2>1. x = CheckedTotal(Through(TotalSteps(one, t, e, V), [nodes |-> b + 1, kind |-> "none"]))
    BY <1>6 DEF CheckPart, TotalSteps
  <2>2. y = CheckedTotal(Through(TotalSteps(other, t, e, W), [nodes |-> c + 1, kind |-> "none"]))
    BY <1>6 DEF CheckPart, TotalSteps
  <2> HIDE DEF x, y
  <2> QED BY <1>0, <1>1, <1>6, <2>1, <2>2, EasierTotal
<1>7. CASE e.op = "named"
  <2> DEFINE key == <<t, e.name>>
  <2>1. x = IF key \in V THEN [nodes |-> b + 1, kind |-> "FormulaCycle"]
            ELSE IF key \notin DOMAIN defs THEN [nodes |-> b + 1, kind |-> "MissingFormula"]
            ELSE one[t][defs[key]][b + 1][V \cup {key}]
    BY <1>7 DEF CheckPart
  <2>2. y = IF key \in W THEN [nodes |-> c + 1, kind |-> "FormulaCycle"]
            ELSE IF key \notin DOMAIN defs THEN [nodes |-> c + 1, kind |-> "MissingFormula"]
            ELSE other[t][defs[key]][c + 1][W \cup {key}]
    BY <1>7 DEF CheckPart
  <2> HIDE DEF x, y, key
  <2>3. key \notin V /\ key \in DOMAIN defs
    BY <1>1, <2>1, Names DEF Errors
  <2>4. key \notin W /\ W \cup {key} \in SUBSET (V \cup {key}) /\ V \cup {key} \in SUBSET DOMAIN defs
    BY <2>3
  <2>5. defs[key] \in Expressions
    BY <2>3 DEF Defined
  <2> QED BY <1>0, <1>1, <2>1, <2>2, <2>3, <2>4, <2>5, EasierUse
<1> QED BY <1>3, <1>4, <1>5, <1>6, <1>7, PartsOf

LEMMA EasierFurtherUp ==
    ASSUME NEW defs, Defined(defs)
    PROVE  \A n \in 0..MaxDepth : \A m \in n..MaxDepth :
              Easier(defs, CheckExpression(defs)[n], CheckExpression(defs)[m])
<1> DEFINE check == CheckExpression(defs)
           S == {n \in 0..MaxDepth : \A m \in n..MaxDepth : Easier(defs, check[n], check[m])}
<1>0. MaxDepth \in Nat
  BY Depth
<1>1. check[0] = CheckTooDeep(defs)
  BY CheckUnfolds
<1>2. \A n \in 1..MaxDepth : check[n] = CheckLevel(defs, check[n - 1])
  BY CheckUnfolds
<1>3. \A n \in 0..MaxDepth : WellChecked(defs, check[n])
  BY AlwaysChecked
<1> HIDE DEF check
<1>4. 0 \in S
  <2>1. \A other : Easier(defs, CheckTooDeep(defs), other)
    BY Names DEF Easier, CheckTooDeep, Errors
  <2> QED BY <1>0, <1>1, <2>1
<1>5. ASSUME NEW n \in 0..MaxDepth, n \in S, n # MaxDepth PROVE n + 1 \in S
  <2>1. n + 1 \in 1..MaxDepth /\ n + 1 - 1 = n /\ n + 1 \in 0..MaxDepth
    BY <1>0, <1>5
  <2>2. ASSUME NEW m \in n + 1..MaxDepth PROVE Easier(defs, check[n + 1], check[m])
    <3>1. m \in 1..MaxDepth /\ m - 1 \in n..MaxDepth /\ m - 1 \in 0..MaxDepth
      BY <1>0, <2>1
    <3>2. Easier(defs, check[n], check[m - 1])
      BY <1>5, <3>1
    <3>3. Easier(defs, CheckLevel(defs, check[n]), CheckLevel(defs, check[m - 1]))
      BY <1>3, <3>1, <3>2, EasierLevel
    <3> QED BY <1>2, <2>1, <3>1, <3>3
  <2> QED BY <2>1, <2>2
<1> HIDE DEF S
<1>6. \A n \in 0..MaxDepth : n \in S
  BY <1>0, <1>4, <1>5, Upward
<1> QED BY <1>6 DEF S, check

(* What compiles somewhere below compiles on its own, to the same kind.    *)
LEMMA OnItsOwn ==
    ASSUME NEW defs, Defined(defs), NEW n \in 0..MaxDepth, NEW t \in Tables, NEW e \in Expressions,
           NEW kind, Passes(defs, CheckExpression(defs)[n], t, e, kind)
    PROVE  CheckExpression(defs)[MaxDepth][t][e][0][{}].kind = kind
<1> DEFINE one == CheckExpression(defs)[n]
           other == CheckExpression(defs)[MaxDepth]
<1>1. MaxDepth \in n..MaxDepth
  BY Depth
<1>2. Easier(defs, one, other)
  BY <1>1, EasierFurtherUp
<1>3. kind \in Kinds
  BY DEF Passes
<1> HIDE DEF one, other
<1>4. PICK b \in Nat, V \in SUBSET DOMAIN defs : one[t][e][b][V].kind = kind
  BY DEF Passes, one
<1>5. {} \in SUBSET V /\ 0 \in Nat /\ 0 <= b
  OBVIOUS
<1>6. other[t][e][0][{}].kind = one[t][e][b][V].kind
  BY <1>2, <1>3, <1>4, <1>5, EasierUse
<1> QED BY <1>4, <1>6 DEF other

(* A formula that compiles reads fields of the definition.                 *)
Collected(defs, check, collect) ==
    \A t \in Tables, e \in Expressions : \A kind :
        Passes(defs, check, t, e, kind) => collect[t][e] \subseteq Fields

LEMMA FieldsKnown ==
    /\ \A t \in Tables : \A f : NumericKind(t, f) \in Kinds =>
          f \in Fields /\ f \in FieldsOf[t] /\ Type[f] = NumericKind(t, f)
    /\ \A t, f : ReferenceTarget(t, f) \in Tables =>
          t \in Tables /\ f \in Fields /\ f \in FieldsOf[t] /\ Type[f] = ReferenceTarget(t, f)
<1>1. \A t \in Tables : FieldsOf[t] \subseteq Fields
  BY StoreAssumption DEF StoreAssumption, SchemaAssumption
<1>2. "UnknownField" \notin Kinds \cup Tables /\ "NumericFieldRequired" \notin Kinds
      /\ "ReferenceFieldRequired" \notin Tables
  BY Names DEF Errors
<1> QED BY <1>1, <1>2 DEF NumericKind, ReferenceTarget

LEMMA CollectedLevel ==
    ASSUME NEW defs, Defined(defs), NEW check, WellChecked(defs, check), NEW collect,
           Collected(defs, check, collect)
    PROVE  Collected(defs, CheckLevel(defs, check), CollectLevel(defs, collect))
<1> SUFFICES ASSUME NEW t \in Tables, NEW e \in Expressions, NEW kind,
                    Passes(defs, CheckLevel(defs, check), t, e, kind)
             PROVE  CollectLevel(defs, collect)[t][e] \subseteq Fields
  BY DEF Collected
<1>0. Compiled(defs, check, t, e, kind) /\ kind \in Kinds
  BY WhatCompiles DEF Passes
<1>1. CASE e.op = "field"
  BY <1>0, <1>1, FieldsKnown DEF Compiled, CollectLevel
<1>2. CASE e.op = "lookup"
  BY <1>0, <1>2, FieldsKnown DEF Compiled, CollectLevel
<1>3. CASE e.op = "sum"
  BY <1>3 DEF CollectLevel
<1>4. CASE e.op = "product"
  <2>1. PICK left \in Kinds, right \in Kinds :
           Passes(defs, check, t, e.left, left) /\ Passes(defs, check, t, e.right, right)
    BY <1>0, <1>4 DEF Compiled
  <2>2. collect[t][e.left] \subseteq Fields /\ collect[t][e.right] \subseteq Fields
    BY <1>4, <2>1, PartsOf DEF Collected
  <2> QED BY <1>4, <2>2 DEF CollectLevel
<1>5. CASE e.op = "total"
  <2>1. \A i \in DOMAIN e.values : Passes(defs, check, t, e.values[i], kind)
    BY <1>0, <1>5 DEF Compiled
  <2>2. \A i \in DOMAIN e.values : e.values[i] \in Expressions
    BY <1>5, PartsOf
  <2>3. \A i \in DOMAIN e.values : collect[t][e.values[i]] \subseteq Fields
    BY <2>1, <2>2 DEF Collected
  <2>4. CollectLevel(defs, collect)[t][e] = UNION {collect[t][e.values[i]] : i \in DOMAIN e.values}
    BY <1>5 DEF CollectLevel
  <2> QED BY <2>3, <2>4
<1>6. CASE e.op = "named"
  <2> DEFINE key == <<t, e.name>>
  <2>1. key \in DOMAIN defs /\ Passes(defs, check, t, defs[key], kind)
    BY <1>0, <1>6 DEF Compiled
  <2>2. collect[t][defs[key]] \subseteq Fields
    BY <2>1 DEF Collected, Defined
  <2> QED BY <1>6, <2>1, <2>2 DEF CollectLevel
<1> QED BY <1>1, <1>2, <1>3, <1>4, <1>5, <1>6, PartsOf

LEMMA NothingPassesTooDeep ==
    ASSUME NEW defs, NEW t \in Tables, NEW e \in Expressions, NEW kind
    PROVE  ~Passes(defs, CheckTooDeep(defs), t, e, kind)
BY Names DEF Passes, CheckTooDeep, Errors

LEMMA AlwaysCollected ==
    ASSUME NEW defs, Defined(defs)
    PROVE  \A n \in 0..MaxDepth : Collected(defs, CheckExpression(defs)[n], CollectFields(defs)[n])
<1> DEFINE check == CheckExpression(defs)
           collect == CollectFields(defs)
           S == {n \in 0..MaxDepth : Collected(defs, check[n], collect[n])}
<1>0. MaxDepth \in Nat
  BY Depth
<1>1. check[0] = CheckTooDeep(defs)
      /\ \A n \in 1..MaxDepth : check[n] = CheckLevel(defs, check[n - 1])
  BY CheckUnfolds
<1>2. \A n \in 1..MaxDepth : collect[n] = CollectLevel(defs, collect[n - 1])
  BY CollectUnfolds
<1>3. \A n \in 0..MaxDepth : WellChecked(defs, check[n])
  BY AlwaysChecked
<1> HIDE DEF check, collect
<1>4. 0 \in S
  BY <1>0, <1>1, NothingPassesTooDeep DEF Collected
<1>5. ASSUME NEW n \in 0..MaxDepth, n \in S, n # MaxDepth PROVE n + 1 \in S
  <2>1. n + 1 \in 1..MaxDepth /\ n + 1 - 1 = n
    BY <1>0, <1>5
  <2>2. Collected(defs, CheckLevel(defs, check[n]), CollectLevel(defs, collect[n]))
    BY <1>3, <1>5, CollectedLevel
  <2> QED BY <1>1, <1>2, <2>1, <2>2
<1> HIDE DEF S
<1>6. \A n \in 0..MaxDepth : n \in S
  BY <1>0, <1>4, <1>5, Upward
<1> QED BY <1>6 DEF S, check, collect

(* A sum in a formula that compiles scans fields of the definition.        *)
LEMMA ScansFields ==
    ASSUME NEW defs, Defined(defs), NEW n \in 0..MaxDepth, NEW t \in Tables,
           NEW e \in Expressions, e.op = "sum", NEW kind,
           Compiled(defs, CheckExpression(defs)[n], t, e, kind)
    PROVE  /\ ScannedFields(defs, e) \subseteq Fields
           /\ CheckExpression(defs)[MaxDepth][e.child][e.value][0][{}].kind = kind
<1>1. /\ e.child \in Tables /\ ReferenceTarget(e.child, e.ref) = t
      /\ Passes(defs, CheckExpression(defs)[n], e.child, e.value, kind) /\ e.value \in Expressions
  BY PartsOf DEF Compiled
<1>2. CheckExpression(defs)[MaxDepth][e.child][e.value][0][{}].kind = kind
  BY <1>1, OnItsOwn
<1>3. Passes(defs, CheckExpression(defs)[MaxDepth], e.child, e.value, kind)
  BY <1>1, <1>2 DEF Passes
<1>4. CollectFields(defs)[MaxDepth][e.child][e.value] \subseteq Fields
  BY <1>1, <1>3, Depth, AlwaysCollected DEF Collected
<1>5. e.ref \in Fields
  BY <1>1, FieldsKnown
<1> QED BY <1>2, <1>4, <1>5 DEF ScannedFields

(* The inspector's policy permits every formula that compiles.             *)
Permitted(defs, check, authorized) ==
    \A t \in Tables, e \in Expressions : \A kind :
        Passes(defs, check, t, e, kind) => authorized[t][e]

LEMMA PermittedLevel ==
    ASSUME NEW defs, Defined(defs), NEW n \in 0..MaxDepth, NEW authorized,
           Permitted(defs, CheckExpression(defs)[n], authorized)
    PROVE  Permitted(defs, CheckLevel(defs, CheckExpression(defs)[n]),
                     AuthorizedLevel(LocalPreviewPolicy, defs, authorized))
<1> DEFINE check == CheckExpression(defs)[n]
           p == LocalPreviewPolicy
<1> SUFFICES ASSUME NEW t \in Tables, NEW e \in Expressions, NEW kind,
                    Passes(defs, CheckLevel(defs, check), t, e, kind)
             PROVE  AuthorizedLevel(p, defs, authorized)[t][e]
  BY DEF Permitted
<1>0. Compiled(defs, check, t, e, kind) /\ kind \in Kinds
  <2>1. WellChecked(defs, check)
    BY AlwaysChecked
  <2> HIDE DEF check
  <2> QED BY <2>1, WhatCompiles DEF Passes
<1>7. p.fields = Fields /\ p.scans = Tables
  BY DEF LocalPreviewPolicy
<1> HIDE DEF p
<1>1. CASE e.op = "field"
  <2>1. e.field \in Fields
    BY <1>0, <1>1, FieldsKnown DEF Compiled
  <2> QED BY <1>7, <1>1, <2>1 DEF AuthorizedLevel
<1>2. CASE e.op = "lookup"
  <2>1. e.ref \in Fields /\ e.field \in Fields
    BY <1>0, <1>2, FieldsKnown DEF Compiled
  <2> QED BY <1>7, <1>2, <2>1 DEF AuthorizedLevel
<1>3. CASE e.op = "sum"
  <2>1. ScannedFields(defs, e) \subseteq Fields
    BY <1>0, <1>3, ScansFields
  <2>2. e.child \in Tables /\ Passes(defs, check, e.child, e.value, kind)
    BY <1>0, <1>3 DEF Compiled
  <2>3. authorized[e.child][e.value]
    BY <1>3, <2>2, PartsOf DEF Permitted
  <2> QED BY <1>7, <1>3, <2>1, <2>2, <2>3 DEF AuthorizedLevel, AuthorizedScan
<1>4. CASE e.op = "product"
  <2>1. PICK left \in Kinds, right \in Kinds :
           Passes(defs, check, t, e.left, left) /\ Passes(defs, check, t, e.right, right)
    BY <1>0, <1>4 DEF Compiled
  <2>2. authorized[t][e.left] /\ authorized[t][e.right]
    BY <1>4, <2>1, PartsOf DEF Permitted
  <2> QED BY <1>4, <2>2 DEF AuthorizedLevel
<1>5. CASE e.op = "total"
  <2>1. \A i \in DOMAIN e.values : Passes(defs, check, t, e.values[i], kind)
    BY <1>0, <1>5 DEF Compiled
  <2>2. \A i \in DOMAIN e.values : e.values[i] \in Expressions
    BY <1>5, PartsOf
  <2>3. \A i \in DOMAIN e.values : authorized[t][e.values[i]]
    BY <2>1, <2>2 DEF Permitted
  <2> QED BY <1>5, <2>3 DEF AuthorizedLevel
<1>6. CASE e.op = "named"
  <2> DEFINE key == <<t, e.name>>
  <2>1. key \in DOMAIN defs /\ Passes(defs, check, t, defs[key], kind)
    BY <1>0, <1>6 DEF Compiled
  <2>2. authorized[t][defs[key]]
    BY <2>1 DEF Permitted, Defined
  <2> QED BY <1>6, <2>2 DEF AuthorizedLevel
<1> QED BY <1>1, <1>2, <1>3, <1>4, <1>5, <1>6, PartsOf

LEMMA AlwaysPermitted ==
    ASSUME NEW defs, Defined(defs)
    PROVE  \A n \in 0..MaxDepth :
              Permitted(defs, CheckExpression(defs)[n], AuthorizedExpression(LocalPreviewPolicy, defs)[n])
<1> DEFINE check == CheckExpression(defs)
           authorized == AuthorizedExpression(LocalPreviewPolicy, defs)
           S == {n \in 0..MaxDepth : Permitted(defs, check[n], authorized[n])}
<1>0. MaxDepth \in Nat
  BY Depth
<1>1. check[0] = CheckTooDeep(defs)
      /\ \A n \in 1..MaxDepth : check[n] = CheckLevel(defs, check[n - 1])
  BY CheckUnfolds
<1>2. \A n \in 1..MaxDepth :
          authorized[n] = AuthorizedLevel(LocalPreviewPolicy, defs, authorized[n - 1])
  BY AuthorizedUnfolds
<1>3. 0 \in S
  <2> HIDE DEF check, authorized
  <2> QED BY <1>0, <1>1, NothingPassesTooDeep DEF Permitted
<1>4. ASSUME NEW n \in 0..MaxDepth, n \in S, n # MaxDepth PROVE n + 1 \in S
  <2>1. n + 1 \in 1..MaxDepth /\ n + 1 - 1 = n
    BY <1>0, <1>4
  <2>2. Permitted(defs, CheckLevel(defs, check[n]),
                  AuthorizedLevel(LocalPreviewPolicy, defs, authorized[n]))
    BY <1>4, PermittedLevel
  <2> HIDE DEF check, authorized
  <2> QED BY <1>1, <1>2, <2>1, <2>2
<1> HIDE DEF S, check, authorized
<1>5. \A n \in 0..MaxDepth : n \in S
  BY <1>0, <1>3, <1>4, Upward
<1> QED BY <1>5 DEF S, check, authorized

-----------------------------------------------------------------------------
(* Evaluation against what the formula stands for.                         *)

Sound(a) == a \in Accounts

(* An evaluation that begins with s spent ends as its account says.        *)
Agrees(r, s, a, kind) ==
    /\ r \in Outcomes
    /\ \/ /\ r.error = "none" /\ r.kind = kind /\ r.value = a.value
          /\ r.nodes = s.nodes + a.nodes /\ r.nodes <= MaxNodes
          /\ r.read = s.read + a.read /\ r.read <= MaxRead /\ ~a.large
       \/ r.error = "NodeBudgetExceeded" /\ s.nodes + a.nodes > MaxNodes
       \/ r.error = "RecordBudgetExceeded" /\ s.read + a.read > MaxRead
       \/ r.error = "Overflow" /\ a.large

(* What more there is to an account does not undo a failure.               *)
LEMMA AgreesMore ==
    ASSUME NEW r, NEW s, NEW a, NEW b, NEW kind, NEW other, Agrees(r, s, a, kind), r.error # "none",
           s.nodes \in Nat, s.read \in Nat, a \in Accounts, b \in Accounts,
           a.nodes <= b.nodes, a.read <= b.read, a.large => b.large
    PROVE  Agrees(r, s, b, other)
<1>1. {a.nodes, a.read, b.nodes, b.read} \subseteq Nat
  BY DEF Accounts
<1>2. MaxNodes \in Nat /\ MaxRead \in Nat
  BY FormulaAssumption DEF FormulaAssumption
<1> QED BY <1>1, <1>2 DEF Agrees

LEMMA Bounds == MaxNodes \in Nat /\ MaxRead \in Nat /\ Limit \in Nat
BY FormulaAssumption DEF FormulaAssumption

LEMMA ReadingIs ==
    ASSUME NEW v \in Int \cup {Blank}, NEW read \in Nat
    PROVE  Sound(Reading(v, read)) /\ Reading(v, read) =
              [value |-> v, nodes |-> 1, read |-> read, large |-> FALSE]
BY DEF Reading, Sound, Accounts

(* What is valid may be read.                                              *)
LEMMA AmountFound ==
    ASSUME NEW rows, Valid(rows), NEW k \in DOMAIN rows, DOMAIN rows \subseteq Keys, NEW f,
           NumericKind(TableOf[k], f) \in Kinds
    PROVE  Value(rows[k], f) \in Int \cup {Blank}
<1>1. TableOf[k] \in Tables
  BY StoreAssumption DEF StoreAssumption, SchemaAssumption
<1>2. f \in Fields /\ f \in FieldsOf[TableOf[k]] /\ Type[f] \in Kinds
  BY <1>1, FieldsKnown
<1>3. Accepted(Value(rows[k], f), f, rows)
  BY <1>2 DEF Valid
<1>4. Accepts[f] \subseteq Int
  BY <1>2, StoreAssumption DEF StoreAssumption, SchemaAssumption
<1> QED BY <1>2, <1>3, <1>4, Names DEF Accepted

LEMMA ReferenceFound ==
    ASSUME NEW rows, Valid(rows), NEW k \in DOMAIN rows, DOMAIN rows \subseteq Keys, NEW f,
           ReferenceTarget(TableOf[k], f) \in Tables, Value(rows[k], f) # Blank
    PROVE  /\ Value(rows[k], f) \in DOMAIN rows
           /\ TableOf[Value(rows[k], f)] = ReferenceTarget(TableOf[k], f)
<1>1. f \in FieldsOf[TableOf[k]] /\ Type[f] = ReferenceTarget(TableOf[k], f)
  BY FieldsKnown
<1>2. Accepted(Value(rows[k], f), f, rows)
  BY <1>1 DEF Valid
<1> QED BY <1>1, <1>2 DEF Accepted, Resolves

(* How an evaluation and an account go on together.                        *)

Afford(s) == s \in Budgets /\ s.nodes <= MaxNodes /\ s.read <= MaxRead

LEMMA Continues ==
    ASSUME NEW s \in Budgets, NEW r, NEW a, Sound(a), NEW kind, Agrees(r, s, a, kind), r.error = "none"
    PROVE  /\ Afford(BudgetOf(r))
           /\ r \in Outcomes /\ r.kind = kind /\ r.value = a.value
           /\ r.nodes = s.nodes + a.nodes /\ r.read = s.read + a.read
           /\ r.nodes <= MaxNodes /\ r.read <= MaxRead /\ ~a.large
BY DEF Agrees, Afford, BudgetOf, Outcomes, Budgets

(* A failure further on is one of the whole.                               *)
LEMMA FailsLater ==
    ASSUME NEW s \in Budgets, NEW r, NEW a, Sound(a), NEW kind, Agrees(r, s, a, kind), r.error = "none",
           NEW q, NEW b, Sound(b), NEW other, Agrees(q, BudgetOf(r), b, other), q.error # "none",
           NEW c, Sound(c), a.nodes + b.nodes <= c.nodes, a.read + b.read <= c.read,
           b.large => c.large, NEW any
    PROVE  Agrees(q, s, c, any)
<1>1. r.nodes = s.nodes + a.nodes /\ r.read = s.read + a.read
  BY Continues
<1>2. BudgetOf(r).nodes = r.nodes /\ BudgetOf(r).read = r.read
  BY DEF BudgetOf
<1>3. /\ a.nodes \in Nat /\ a.read \in Nat /\ b.nodes \in Nat /\ b.read \in Nat
      /\ c.nodes \in Nat /\ c.read \in Nat /\ s.nodes \in Nat /\ s.read \in Nat
  BY DEF Sound, Accounts, Budgets
<1>4. q \in Outcomes
  BY DEF Agrees
<1>5. CASE q.error = "NodeBudgetExceeded"
  <2>1. r.nodes + b.nodes > MaxNodes
    BY <1>2, <1>5 DEF Agrees
  <2>2. s.nodes + c.nodes > MaxNodes
    BY <1>1, <1>3, <2>1, Bounds
  <2> QED BY <1>4, <1>5, <2>2 DEF Agrees
<1>6. CASE q.error = "RecordBudgetExceeded"
  <2>1. r.read + b.read > MaxRead
    BY <1>2, <1>6 DEF Agrees
  <2>2. s.read + c.read > MaxRead
    BY <1>1, <1>3, <2>1, Bounds
  <2> QED BY <1>4, <1>6, <2>2 DEF Agrees
<1>7. CASE q.error = "Overflow"
  BY <1>4, <1>7 DEF Agrees
<1> QED BY <1>5, <1>6, <1>7 DEF Agrees

LEMMA SoundPlus ==
    ASSUME NEW a, Sound(a), a.value \in Int, NEW b, Sound(b)
    PROVE  LET c == Plus(a, b)
           IN  /\ Sound(c) /\ c.value = a.value + Zero(b.value) /\ c.value \in Int
               /\ c.nodes = a.nodes + b.nodes /\ c.read = a.read + b.read
               /\ c.large <=> a.large \/ b.large \/ c.value \notin Amounts
               /\ a.nodes <= c.nodes /\ a.read <= c.read
<1> DEFINE v == a.value + Zero(b.value)
           large == a.large \/ b.large \/ v \notin Amounts \cup {Blank}
<1>0. Blank \notin Int
  BY StoreAssumption DEF StoreAssumption, SchemaAssumption
<1>1. /\ a.nodes \in Nat /\ a.read \in Nat /\ a.large \in BOOLEAN
      /\ b.nodes \in Nat /\ b.read \in Nat /\ b.large \in BOOLEAN
  BY DEF Sound, Accounts
<1>2. Zero(b.value) \in Int /\ Zero(a.value) = a.value
  BY <1>0 DEF Sound, Accounts, Zero
<1>3. Plus(a, b) = [value |-> v, nodes |-> a.nodes + b.nodes, read |-> a.read + b.read,
                    large |-> large]
  BY <1>2 DEF Plus, Both
<1>4. v \in Int /\ v # Blank /\ large \in BOOLEAN
  BY <1>0, <1>2
<1>5. large <=> a.large \/ b.large \/ v \notin Amounts
  BY <1>4
<1> HIDE DEF v, large
<1>6. Plus(a, b) \in Accounts
  BY <1>1, <1>3, <1>4 DEF Accounts
<1>7. v = a.value + Zero(b.value)
  BY DEF v
<1> QED BY <1>1, <1>3, <1>4, <1>5, <1>6, <1>7 DEF Sound

LEMMA RangeKept ==
    ASSUME NEW q \in Outcomes, q.error = "none", NEW s \in Budgets, NEW kind \in Kinds, NEW v \in Int,
           NEW c, Sound(c), c.value = v, c.large <=> v \notin Amounts,
           q.nodes = s.nodes + c.nodes, q.nodes <= MaxNodes,
           q.read = s.read + c.read, q.read <= MaxRead
    PROVE  Agrees(InRange(q, kind, v), s, c, kind)
<1>1. q.nodes \in Nat /\ q.read \in Nat
  BY DEF Outcomes
<1>2. CASE v \in Amounts
  <2>1. InRange(q, kind, v) = [nodes |-> q.nodes, read |-> q.read, error |-> "none", kind |-> kind,
                               value |-> v]
    BY <1>2 DEF InRange, Is
  <2> QED BY <1>1, <1>2, <2>1 DEF Agrees, Outcomes
<1>3. CASE v \notin Amounts
  <2>1. InRange(q, kind, v) = [nodes |-> q.nodes, read |-> q.read, error |-> "Overflow",
                               kind |-> "none", value |-> Blank]
    BY <1>3 DEF InRange, Failed
  <2> QED BY <1>1, <1>3, <2>1 DEF Agrees, Outcomes, Errors
<1> QED BY <1>2, <1>3

(* One more is added up.                                                   *)
LEMMA AddedAgrees ==
    ASSUME NEW s \in Budgets, NEW r, NEW a, Sound(a), a.value \in Int, NEW before,
           Agrees(r, s, a, before), r.error = "none",
           NEW q, NEW b, Sound(b), NEW other, Agrees(q, BudgetOf(r), b, other), NEW kind \in Kinds
    PROVE  Agrees(IF q.error # "none" THEN q ELSE InRange(q, kind, r.value + Zero(q.value)),
                  s, Plus(a, b), kind)
<1> DEFINE c == Plus(a, b)
<1>1. /\ Sound(c) /\ c.value = a.value + Zero(b.value) /\ c.value \in Int
      /\ c.nodes = a.nodes + b.nodes /\ c.read = a.read + b.read
      /\ c.large <=> a.large \/ b.large \/ c.value \notin Amounts
  BY SoundPlus
<1> HIDE DEF c
<1>2. CASE q.error # "none"
  <2>1. /\ a.nodes + b.nodes <= c.nodes /\ a.read + b.read <= c.read
    BY <1>1 DEF Sound, Accounts
  <2>2. Agrees(q, s, c, kind)
    BY <1>1, <1>2, <2>1, FailsLater
  <2> QED BY <1>2, <2>2 DEF c
<1>3. CASE q.error = "none"
  <2>1. r.nodes = s.nodes + a.nodes /\ r.read = s.read + a.read /\ r.value = a.value
        /\ BudgetOf(r) \in Budgets /\ ~a.large
    BY Continues DEF Afford
  <2>2. BudgetOf(r).nodes = r.nodes /\ BudgetOf(r).read = r.read
    BY DEF BudgetOf
  <2>3. /\ q \in Outcomes /\ q.value = b.value /\ q.nodes <= MaxNodes /\ q.read <= MaxRead
        /\ q.nodes = r.nodes + b.nodes /\ q.read = r.read + b.read /\ ~b.large
    BY <1>3, <2>1, <2>2, Continues
  <2>4. q.nodes = s.nodes + c.nodes /\ q.read = s.read + c.read
    BY <1>1, <2>1, <2>3 DEF Sound, Accounts, Budgets
  <2>5. Agrees(InRange(q, kind, r.value + Zero(q.value)), s, c, kind)
    BY <1>1, <1>3, <2>1, <2>3, <2>4, RangeKept
  <2> QED BY <1>3, <2>5 DEF c
<1> QED BY <1>2, <1>3

(* A record is read.                                                       *)
LEMMA ReadAgrees ==
    ASSUME NEW s \in Budgets, NEW r, NEW a, Sound(a), NEW kind, Agrees(r, s, a, kind), r.error = "none"
    PROVE  /\ Sound(PlusRead(a)) /\ Agrees(ReadOne(r), s, PlusRead(a), kind)
           /\ ReadOne(r).error # "none" => ReadOne(r).error = "RecordBudgetExceeded"
           /\ PlusRead(a).value = a.value /\ PlusRead(a).nodes = a.nodes
           /\ PlusRead(a).read = a.read + 1 /\ PlusRead(a).large = a.large
<1>1. /\ r \in Outcomes /\ r.kind = kind /\ r.value = a.value
      /\ r.nodes = s.nodes + a.nodes /\ r.read = s.read + a.read
      /\ r.nodes <= MaxNodes /\ r.read <= MaxRead /\ ~a.large
  BY Continues
<1>2. PlusRead(a) = [a EXCEPT !.read = a.read + 1] /\ a \in Accounts
  BY DEF PlusRead, Sound
<1>3. a.read \in Nat /\ s.read \in Nat /\ r.read \in Nat /\ s.nodes \in Nat /\ a.nodes \in Nat
  BY <1>1 DEF Sound, Accounts, Budgets, Outcomes
<1>4. /\ PlusRead(a).value = a.value /\ PlusRead(a).nodes = a.nodes
      /\ PlusRead(a).read = a.read + 1 /\ PlusRead(a).large = a.large /\ PlusRead(a) \in Accounts
  BY <1>2, <1>3 DEF Accounts
<1>5. Sound(PlusRead(a))
  BY <1>4 DEF Sound
<1>6. CASE r.read >= MaxRead
  <2>1. ReadOne(r) = [nodes |-> r.nodes, read |-> r.read, error |-> "RecordBudgetExceeded",
                      kind |-> "none", value |-> Blank]
    BY <1>6 DEF ReadOne, Failed
  <2>2. s.read + PlusRead(a).read > MaxRead
    BY <1>1, <1>3, <1>4, <1>6, Bounds
  <2>3. ReadOne(r) \in Outcomes
    BY <1>1, <2>1 DEF Outcomes, Errors
  <2> QED BY <1>4, <1>5, <2>1, <2>2, <2>3 DEF Agrees
<1>7. CASE ~(r.read >= MaxRead)
  <2>1. ReadOne(r) = [r EXCEPT !.read = r.read + 1]
    BY <1>7 DEF ReadOne
  <2>2. /\ ReadOne(r).nodes = r.nodes /\ ReadOne(r).read = r.read + 1 /\ ReadOne(r).error = "none"
        /\ ReadOne(r).kind = kind /\ ReadOne(r).value = a.value /\ ReadOne(r) \in Outcomes
    BY <1>1, <1>3, <2>1 DEF Outcomes
  <2>3. r.read + 1 <= MaxRead /\ r.read + 1 = s.read + (a.read + 1)
    BY <1>1, <1>3, <1>7, Bounds
  <2>4. Agrees(ReadOne(r), s, PlusRead(a), kind)
    BY <1>1, <1>4, <2>2, <2>3 DEF Agrees
  <2> QED BY <1>4, <1>5, <2>2, <2>4
<1> QED BY <1>6, <1>7

(* What evaluation goes into: one more node.                               *)
Entering(spent) == Is([spent EXCEPT !.nodes = @ + 1], "none", Blank)

LEMMA EnteringIs ==
    ASSUME NEW spent \in Budgets, spent.nodes + 1 <= MaxNodes, spent.read <= MaxRead
    PROVE  LET s == Entering(spent)
           IN  /\ s \in Outcomes /\ s.error = "none" /\ s.nodes = spent.nodes + 1
               /\ s.read = spent.read /\ Afford(BudgetOf(s)) /\ BudgetOf(s).nodes = s.nodes
               /\ BudgetOf(s).read = s.read
<1>1. Entering(spent) = [nodes |-> spent.nodes + 1, read |-> spent.read, error |-> "none",
                         kind |-> "none", value |-> Blank]
  BY DEF Entering, Is, Budgets
<1>2. spent.nodes + 1 \in Nat /\ spent.read \in Nat
  BY DEF Budgets
<1> QED BY <1>1, <1>2 DEF Outcomes, Afford, BudgetOf, Budgets

(* What is read is found.                                                  *)
LEMMA AmountAgrees ==
    ASSUME NEW spent \in Budgets, NEW r \in Outcomes, r.error = "none",
           r.nodes = spent.nodes + 1, r.nodes <= MaxNodes, NEW read \in Nat,
           r.read = spent.read + read, r.read <= MaxRead,
           NEW v \in Int \cup {Blank}, NEW kind \in Kinds
    PROVE  Agrees(Numeric(r, kind, v), spent, Reading(v, read), kind)
<1>1. Reading(v, read) = [value |-> v, nodes |-> 1, read |-> read, large |-> FALSE]
  BY ReadingIs
<1>2. Numeric(r, kind, v) = [nodes |-> r.nodes, read |-> r.read, error |-> "none", kind |-> kind,
                             value |-> v]
  BY DEF Numeric, Is
<1>3. r.nodes \in Nat /\ r.read \in Nat
  BY DEF Outcomes
<1> QED BY <1>1, <1>2, <1>3 DEF Agrees, Outcomes

LEMMA FieldAgrees ==
    ASSUME NEW rows, Valid(rows), DOMAIN rows \subseteq Keys, NEW k \in DOMAIN rows, NEW e,
           NEW kind \in Kinds, NumericKind(TableOf[k], e.field) = kind,
           NEW spent, Afford(spent), spent.nodes + 1 <= MaxNodes
    PROVE  /\ Sound(Reading(Value(rows[k], e.field), 0))
           /\ Agrees(EvaluateField(LocalPreviewPolicy, rows, k, e, Entering(spent)), spent,
                     Reading(Value(rows[k], e.field), 0), kind)
<1> DEFINE v == Value(rows[k], e.field)
           s == Entering(spent)
<1>1. v \in Int \cup {Blank}
  BY AmountFound
<1>2. spent \in Budgets /\ spent.read <= MaxRead
  BY DEF Afford
<1>3. s \in Outcomes /\ s.error = "none" /\ s.nodes = spent.nodes + 1 /\ s.read = spent.read
  BY <1>2, EnteringIs
<1>4. e.field \in Fields /\ k \in Keys
  BY FieldsKnown, StoreAssumption DEF StoreAssumption, SchemaAssumption
<1>5. EvaluateField(LocalPreviewPolicy, rows, k, e, s) = Numeric(s, kind, v)
  BY <1>4 DEF EvaluateField, AuthorizedField, LocalPreviewPolicy
<1> HIDE DEF s, v
<1>6. s.read = spent.read + 0
  BY <1>2, <1>3 DEF Budgets
<1>7. Agrees(Numeric(s, kind, v), spent, Reading(v, 0), kind)
  BY <1>1, <1>2, <1>3, <1>6, AmountAgrees
<1>8. Sound(Reading(v, 0))
  BY <1>1, ReadingIs
<1> QED BY <1>5, <1>7, <1>8 DEF s, v

LEMMA LookupAgrees ==
    ASSUME NEW rows, Valid(rows), DOMAIN rows \subseteq Keys, NEW k \in DOMAIN rows, NEW e,
           NEW kind \in Kinds, ReferenceTarget(TableOf[k], e.ref) \in Tables,
           NumericKind(ReferenceTarget(TableOf[k], e.ref), e.field) = kind,
           NEW spent, Afford(spent), spent.nodes + 1 <= MaxNodes
    PROVE  LET a == Reading(LookupValue(rows, k, e.ref, e.field),
                            IF Value(rows[k], e.ref) = Blank THEN 0 ELSE 1)
           IN  /\ Sound(a)
               /\ Agrees(EvaluateLookup(LocalPreviewPolicy, rows, k, e, Entering(spent)), spent, a, kind)
<1> DEFINE p == LocalPreviewPolicy
           target == ReferenceTarget(TableOf[k], e.ref)
           at == Value(rows[k], e.ref)
           v == LookupValue(rows, k, e.ref, e.field)
           n == IF at = Blank THEN 0 ELSE 1
           s == Entering(spent)
           read == IF at = Blank THEN s ELSE ReadOne(s)
<1>1. spent \in Budgets /\ spent.read <= MaxRead
  BY DEF Afford
<1>2. s \in Outcomes /\ s.error = "none" /\ s.nodes = spent.nodes + 1 /\ s.read = spent.read
  BY <1>1, EnteringIs
<1>3. /\ k \in Keys /\ e.ref \in Fields /\ e.field \in Fields
      /\ Type[e.ref] = target /\ e.field \in FieldsOf[target]
  BY FieldsKnown
<1>4. at # Blank => at \in DOMAIN rows /\ TableOf[at] = target
  BY ReferenceFound
<1>5. v \in Int \cup {Blank}
  <2>1. CASE at = Blank
    BY <2>1 DEF LookupValue
  <2>2. CASE at # Blank
    <3>1. at \in DOMAIN rows /\ NumericKind(TableOf[at], e.field) \in Kinds
      BY <1>4, <2>2
    <3> HIDE DEF at
    <3>2. Value(rows[at], e.field) \in Int \cup {Blank}
      BY <3>1, AmountFound
    <3>3. v = Value(rows[at], e.field)
      BY <2>2 DEF LookupValue, at
    <3> QED BY <3>2, <3>3
  <2> QED BY <2>1, <2>2
<1>6. LookupError(p, rows, k, e.ref, e.field) = "none"
  <2>1. \A j \in DOMAIN rows : TargetError(p, rows, j) = "none"
    BY DEF TargetError, AllowsRecord, LocalPreviewPolicy
  <2>2. p.snapshot /\ AuthorizedField(p, k, e.ref) /\ e.field \in p.fields
    BY <1>3 DEF AuthorizedField, LocalPreviewPolicy
  <2> HIDE DEF p
  <2> QED BY <1>3, <1>4, <2>1, <2>2 DEF LookupError
<1> HIDE DEF p, v
<1>7. EvaluateLookup(p, rows, k, e, s) = IF read.error # "none" THEN read ELSE Numeric(read, kind, v)
  <2> HIDE DEF s
  <2> QED BY <1>6 DEF EvaluateLookup, v
<1>8. Sound(Reading(v, n)) /\ n \in Nat
      /\ Reading(v, n) = [value |-> v, nodes |-> 1, read |-> n, large |-> FALSE]
  BY <1>5, ReadingIs
<1> HIDE DEF s
<1>9. s.nodes \in Nat /\ s.read \in Nat
  BY <1>2 DEF Outcomes
<1>10. Agrees(EvaluateLookup(p, rows, k, e, s), spent, Reading(v, n), kind)
  <2>1. CASE at = Blank
    <3>1. EvaluateLookup(p, rows, k, e, s) = Numeric(s, kind, v) /\ n = 0
      BY <1>2, <1>7, <2>1
    <3>2. s.read = spent.read + 0
      BY <1>1, <1>2 DEF Budgets
    <3>3. Agrees(Numeric(s, kind, v), spent, Reading(v, 0), kind)
      BY <1>1, <1>2, <1>5, <3>2, AmountAgrees
    <3> QED BY <3>1, <3>3
  <2>2. CASE at # Blank /\ s.read >= MaxRead
    <3>1. ReadOne(s) = [nodes |-> s.nodes, read |-> s.read, error |-> "RecordBudgetExceeded",
                        kind |-> "none", value |-> Blank]
      BY <2>2 DEF ReadOne, Failed
    <3>2. EvaluateLookup(p, rows, k, e, s) = ReadOne(s) /\ n = 1
      BY <1>7, <2>2, <3>1
    <3>3. spent.read + 1 > MaxRead
      BY <1>2, <1>9, <2>2, Bounds
    <3>4. Reading(v, n).read = 1
      BY <1>8, <3>2
    <3>5. ReadOne(s) \in Outcomes
      BY <1>9, <3>1 DEF Outcomes, Errors
    <3> QED BY <3>1, <3>2, <3>3, <3>4, <3>5 DEF Agrees
  <2>3. CASE at # Blank /\ ~(s.read >= MaxRead)
    <3>1. ReadOne(s) = [s EXCEPT !.read = s.read + 1]
      BY <2>3 DEF ReadOne
    <3>2. /\ ReadOne(s) \in Outcomes /\ ReadOne(s).error = "none"
          /\ ReadOne(s).nodes = spent.nodes + 1 /\ ReadOne(s).read = spent.read + 1
      BY <1>2, <1>9, <3>1 DEF Outcomes
    <3>3. ReadOne(s).read <= MaxRead
      BY <1>2, <1>9, <2>3, <3>2, Bounds
    <3>4. EvaluateLookup(p, rows, k, e, s) = Numeric(ReadOne(s), kind, v) /\ n = 1
      BY <1>7, <2>3, <3>2
    <3>5. Agrees(Numeric(ReadOne(s), kind, v), spent, Reading(v, 1), kind)
      BY <1>1, <1>5, <3>2, <3>3, AmountAgrees
    <3> QED BY <3>4, <3>5
  <2> QED BY <2>1, <2>2, <2>3
<1> QED BY <1>8, <1>10 DEF p, v, s

(* What is found for an expression for whatever is spent before.           *)
Answers(reply, a, kind) ==
    /\ Sound(a) /\ a.nodes >= 1
    /\ \A s : Afford(s) => Agrees(reply[s], s, a, kind)

(* One node more, on the way in.                                           *)
LEMMA DeeperAgrees ==
    ASSUME NEW spent, Afford(spent), spent.nodes + 1 <= MaxNodes, NEW r, NEW a, Sound(a), NEW kind,
           Agrees(r, BudgetOf(Entering(spent)), a, kind)
    PROVE  LET more == [a EXCEPT !.nodes = @ + 1]
           IN  Sound(more) /\ more.nodes >= 1 /\ Agrees(r, spent, more, kind)
<1> DEFINE more == [a EXCEPT !.nodes = a.nodes + 1]
           s == BudgetOf(Entering(spent))
<1>1. spent \in Budgets /\ spent.read <= MaxRead
  BY DEF Afford
<1>2. s.nodes = spent.nodes + 1 /\ s.read = spent.read
  BY <1>1, EnteringIs
<1>3. a.nodes \in Nat /\ a.read \in Nat /\ spent.nodes \in Nat /\ spent.read \in Nat
  BY <1>1 DEF Sound, Accounts, Budgets
<1>4. /\ more \in Accounts /\ more.value = a.value /\ more.large = a.large
      /\ more.read = a.read /\ more.nodes = a.nodes + 1
  BY <1>3 DEF Sound, Accounts
<1> HIDE DEF more, s
<1>5. Sound(more) /\ more.nodes >= 1
  BY <1>3, <1>4 DEF Sound
<1>6. s.nodes + a.nodes = spent.nodes + more.nodes /\ s.read + a.read = spent.read + more.read
  BY <1>2, <1>3, <1>4
<1>7. Agrees(r, s, a, kind)
  BY DEF s
<1>8. Agrees(r, spent, more, kind)
  BY <1>4, <1>6, <1>7 DEF Agrees
<1> QED BY <1>5, <1>8 DEF more

LEMMA SoundTimes ==
    ASSUME NEW a, Sound(a), NEW b, Sound(b)
    PROVE  LET c == Times(a, b)
           IN  /\ Sound(c) /\ c.nodes = a.nodes + b.nodes /\ c.read = a.read + b.read
               /\ c.large <=> a.large \/ b.large \/ c.value \notin Amounts \cup {Blank}
               /\ IF Blank \in {a.value, b.value} THEN c.value = Blank
                  ELSE c.value = a.value * b.value /\ c.value \in Int
<1> DEFINE v == IF Blank \in {a.value, b.value} THEN Blank ELSE a.value * b.value
           large == a.large \/ b.large \/ v \notin Amounts \cup {Blank}
<1>1. /\ a.nodes \in Nat /\ a.read \in Nat /\ a.large \in BOOLEAN
      /\ b.nodes \in Nat /\ b.read \in Nat /\ b.large \in BOOLEAN
      /\ a.value \in Int \cup {Blank} /\ b.value \in Int \cup {Blank}
  BY DEF Sound, Accounts
<1>2. Times(a, b) = [value |-> v, nodes |-> a.nodes + b.nodes, read |-> a.read + b.read,
                     large |-> large]
  BY DEF Times, Both
<1>3. \A x, y \in Int : x * y \in Int
  OBVIOUS
<1>4. v \in Int \cup {Blank} /\ (Blank \notin {a.value, b.value} => v = a.value * b.value /\ v \in Int)
      /\ (Blank \in {a.value, b.value} => v = Blank)
  BY <1>1, <1>3
<1>5. large \in BOOLEAN /\ (large <=> a.large \/ b.large \/ v \notin Amounts \cup {Blank})
  OBVIOUS
<1> HIDE DEF v, large
<1>6. Times(a, b) \in Accounts
  BY <1>1, <1>2, <1>4, <1>5 DEF Accounts
<1> QED BY <1>1, <1>2, <1>4, <1>5, <1>6 DEF Sound

LEMMA ProductAgrees ==
    ASSUME NEW lefts, NEW rights, NEW a, NEW b, NEW left, NEW right, NEW kind \in Kinds,
           Answers(lefts, a, left), Answers(rights, b, right), ProductKind(left, right) = kind,
           NEW spent, Afford(spent), spent.nodes + 1 <= MaxNodes
    PROVE  LET l == lefts[BudgetOf(Entering(spent))]
           IN  Agrees(Multiplied(l, rights[BudgetOf(l)]), BudgetOf(Entering(spent)), Times(a, b), kind)
<1> DEFINE s == BudgetOf(Entering(spent))
           l == lefts[s]
           r == rights[BudgetOf(l)]
           c == Times(a, b)
<1>1. Afford(s) /\ s \in Budgets
  BY EnteringIs DEF Afford
<1>2. Sound(a) /\ Sound(b)
  BY DEF Answers
<1>3. /\ Sound(c) /\ c.nodes = a.nodes + b.nodes /\ c.read = a.read + b.read
      /\ c.large <=> a.large \/ b.large \/ c.value \notin Amounts \cup {Blank}
      /\ IF Blank \in {a.value, b.value} THEN c.value = Blank
         ELSE c.value = a.value * b.value /\ c.value \in Int
  BY <1>2, SoundTimes
<1> HIDE DEF s, c
<1>4. Agrees(l, s, a, left)
  BY <1>1 DEF Answers
<1>5. /\ s.nodes \in Nat /\ s.read \in Nat /\ a.nodes \in Nat /\ a.read \in Nat
      /\ b.nodes \in Nat /\ b.read \in Nat /\ a \in Accounts /\ c \in Accounts
  BY <1>1, <1>2, <1>3 DEF Sound, Accounts, Budgets
<1> HIDE DEF l
<1>6. CASE l.error # "none"
  <2>1. Agrees(l, s, c, kind)
    <3>1. a.nodes <= c.nodes /\ a.read <= c.read /\ (a.large => c.large)
      BY <1>3, <1>5
    <3> QED BY <1>4, <1>5, <1>6, <3>1, AgreesMore
  <2>2. Multiplied(l, r) = l
    BY <1>6 DEF Multiplied
  <2> QED BY <2>1, <2>2 DEF s, c, l
<1>7. CASE l.error = "none"
  <2>1. /\ Afford(BudgetOf(l)) /\ l.kind = left /\ l.value = a.value
        /\ l.nodes = s.nodes + a.nodes /\ l.read = s.read + a.read /\ ~a.large
    BY <1>1, <1>2, <1>4, <1>7, Continues
  <2>2. Agrees(r, BudgetOf(l), b, right)
    BY <2>1 DEF Answers
  <2> HIDE DEF r
  <2>3. CASE r.error # "none"
    <3>1. a.nodes + b.nodes <= c.nodes /\ a.read + b.read <= c.read
      BY <1>3, <1>5
    <3>2. Agrees(r, s, c, kind)
      BY <1>1, <1>2, <1>3, <1>4, <1>7, <2>2, <2>3, <3>1, FailsLater
    <3>3. Multiplied(l, r) = r
      BY <1>7, <2>3 DEF Multiplied
    <3> QED BY <3>2, <3>3 DEF s, c, l, r
  <2>4. CASE r.error = "none"
    <3>1. BudgetOf(l) \in Budgets /\ BudgetOf(l).nodes = l.nodes /\ BudgetOf(l).read = l.read
      BY <2>1 DEF Afford, BudgetOf
    <3>2. /\ r \in Outcomes /\ r.kind = right /\ r.value = b.value
          /\ r.nodes = l.nodes + b.nodes /\ r.read = l.read + b.read
          /\ r.nodes <= MaxNodes /\ r.read <= MaxRead /\ ~b.large
      BY <1>2, <2>2, <2>4, <3>1, Continues
    <3>3. r.nodes = s.nodes + c.nodes /\ r.read = s.read + c.read
      BY <1>3, <1>5, <2>1, <3>2
    <3>4. Multiplied(l, r) = IF Blank \in {a.value, b.value} THEN Is(r, kind, Blank)
                             ELSE InRange(r, kind, a.value * b.value)
      BY <1>7, <2>1, <2>4, <3>2 DEF Multiplied
    <3>5. CASE Blank \in {a.value, b.value}
      <4>1. Multiplied(l, r) = [nodes |-> r.nodes, read |-> r.read, error |-> "none",
                                kind |-> kind, value |-> Blank]
        BY <3>4, <3>5 DEF Is
      <4>2. Multiplied(l, r) \in Outcomes
        BY <3>2, <4>1 DEF Outcomes
      <4>3. Agrees(Multiplied(l, r), s, c, kind)
        BY <1>3, <2>1, <3>2, <3>3, <3>5, <4>1, <4>2 DEF Agrees
      <4> QED BY <4>3 DEF s, c, l, r
    <3>6. CASE Blank \notin {a.value, b.value}
      <4>1. c.value = a.value * b.value /\ c.value \in Int
        BY <1>3, <3>6
      <4>2. c.large <=> c.value \notin Amounts
        BY <1>3, <2>1, <3>2, <4>1, StoreAssumption DEF StoreAssumption, SchemaAssumption
      <4>3. Agrees(InRange(r, kind, c.value), s, c, kind)
        BY <1>1, <1>3, <2>4, <3>2, <3>3, <4>1, <4>2, RangeKept
      <4> QED BY <3>4, <3>6, <4>1, <4>3 DEF s, c, l, r
    <3> QED BY <3>5, <3>6
  <2> QED BY <2>3, <2>4
<1> QED BY <1>6, <1>7

LEMMA SoundOne ==
    Sound(One) /\ One.value = 0 /\ One.nodes = 1 /\ One.read = 0 /\ ~One.large
BY ReadingIs DEF One

LEMMA StartAgrees ==
    ASSUME NEW spent, Afford(spent), spent.nodes + 1 <= MaxNodes, NEW kind \in Kinds \cup {"none"}
    PROVE  Agrees(Is(Entering(spent), kind, 0), spent, One, kind)
<1>1. spent \in Budgets /\ spent.read <= MaxRead
  BY DEF Afford
<1>2. /\ Entering(spent).nodes = spent.nodes + 1 /\ Entering(spent).read = spent.read
      /\ spent.nodes \in Nat /\ spent.read \in Nat
  BY <1>1, EnteringIs DEF Budgets
<1>3. Is(Entering(spent), kind, 0) = [nodes |-> spent.nodes + 1, read |-> spent.read,
                                      error |-> "none", kind |-> kind, value |-> 0]
  BY <1>2 DEF Is
<1>4. Is(Entering(spent), kind, 0) \in Outcomes
  BY <1>2, <1>3 DEF Outcomes
<1> QED BY <1>1, <1>2, <1>3, <1>4, SoundOne DEF Agrees

(* A total or a sum so far.                                                *)
SoFar(r, spent, a, kind) ==
    Sound(a) /\ a.value \in Int /\ a.nodes >= 1 /\ Agrees(r, spent, a, kind)

LEMMA PartAgrees ==
    ASSUME NEW spent \in Budgets, NEW r, NEW a, NEW before \in {"none"} \cup Kinds,
           SoFar(r, spent, a, before), NEW kind \in Kinds, before \in {"none", kind},
           NEW reply, NEW b, Answers(reply, b, kind)
    PROVE  SoFar(AddPart(r, reply[BudgetOf(r)]), spent, Plus(a, b), kind)
<1> DEFINE c == Plus(a, b)
           q == reply[BudgetOf(r)]
<1>1. Sound(a) /\ a.value \in Int /\ a.nodes >= 1 /\ Agrees(r, spent, a, before) /\ Sound(b)
  BY DEF SoFar, Answers
<1>2. /\ Sound(c) /\ c.value \in Int /\ (a.large \/ b.large => c.large)
      /\ a.nodes <= c.nodes /\ a.read <= c.read
  BY <1>1, SoundPlus
<1>3. c.nodes >= 1
  BY <1>1, <1>2 DEF Sound, Accounts
<1> HIDE DEF c
<1>4. CASE r.error # "none"
  <2>1. spent.nodes \in Nat /\ spent.read \in Nat /\ a \in Accounts /\ c \in Accounts
    BY <1>1, <1>2 DEF Budgets, Sound
  <2>2. Agrees(r, spent, c, kind)
    BY <1>1, <1>2, <1>4, <2>1, AgreesMore
  <2>3. AddPart(r, q) = r
    BY <1>4 DEF AddPart
  <2> QED BY <1>2, <1>3, <2>2, <2>3 DEF SoFar, c
<1>5. CASE r.error = "none"
  <2>1. Afford(BudgetOf(r)) /\ BudgetOf(r) \in Budgets /\ r.kind = before
    BY <1>1, <1>5, Continues DEF Afford
  <2>2. Agrees(q, BudgetOf(r), b, kind)
    BY <2>1 DEF Answers
  <2>3. q.error = "none" => q.kind = kind
    BY <1>1, <2>1, <2>2, Continues
  <2> HIDE DEF q
  <2>4. AddPart(r, q) = IF q.error # "none" THEN q ELSE InRange(q, kind, r.value + Zero(q.value))
    <3>1. TotalKind(before, kind) = kind
      BY DEF TotalKind
    <3> QED BY <1>5, <2>1, <2>3, <3>1 DEF AddPart
  <2>5. Agrees(AddPart(r, q), spent, c, kind)
    <3>1. Agrees(IF q.error # "none" THEN q ELSE InRange(q, kind, r.value + Zero(q.value)),
                 spent, Plus(a, b), kind)
      BY <1>1, <1>5, <2>2, AddedAgrees
    <3> QED BY <2>4, <3>1 DEF c
  <2> QED BY <1>2, <1>3, <2>5 DEF SoFar, c, q
<1> QED BY <1>4, <1>5

LEMMA TotalAgrees ==
    ASSUME NEW deeper, NEW account, NEW k, NEW e \in Expressions, e.op = "total", Len(e.values) # 0,
           NEW kind \in Kinds,
           \A i \in DOMAIN e.values : Answers(deeper[k][e.values[i]], account[k][e.values[i]], kind),
           NEW spent, Afford(spent), spent.nodes + 1 <= MaxNodes
    PROVE  SoFar(EvaluateTotal(deeper, k, e, Entering(spent)), spent,
                 Through([i \in DOMAIN e.values |-> [sum \in Accounts |->
                              Plus(sum, account[k][e.values[i]])]], One), kind)
<1> DEFINE L == Len(e.values)
           start == Is(Entering(spent), "none", 0)
           steps == [i \in DOMAIN e.values |-> [before \in Outcomes |->
                        AddPart(before, deeper[k][e.values[i]][BudgetOf(before)])]]
           adds == [i \in DOMAIN e.values |-> [sum \in Accounts |-> Plus(sum, account[k][e.values[i]])]]
           before(i) == IF i = 0 THEN "none" ELSE kind
<1>1. L \in Nat /\ DOMAIN e.values = 1..L /\ L # 0
  BY PartsOf
<1>2. Len(steps) = L /\ Len(adds) = L
  BY <1>1
<1>3. \A i \in 1..L, r \in Outcomes : steps[i][r] = AddPart(r, deeper[k][e.values[i]][BudgetOf(r)])
  BY <1>1
<1>4. \A i \in 1..L, a \in Accounts : adds[i][a] = Plus(a, account[k][e.values[i]])
  BY <1>1
<1>5. EvaluateTotal(deeper, k, e, Entering(spent)) =
         IF Through(steps, start).error = "none" /\ Through(steps, start).kind = "none"
         THEN Failed(Through(steps, start), "EmptyTotal") ELSE Through(steps, start)
  BY DEF EvaluateTotal
<1>6. SoFar(start, spent, One, "none")
  BY StartAgrees, SoundOne DEF SoFar
<1> HIDE DEF steps, adds, start, L
<1>7. PICK f : /\ f[0] = start
               /\ \A i \in 1..L : f[i] = steps[i][f[i - 1]]
               /\ Through(steps, start) = f[L]
  <2>1. Len(steps) \in Nat
    BY <1>1, <1>2
  <2>2. \E f : /\ f[0] = start
               /\ \A i \in 1..Len(steps) : f[i] = steps[i][f[i - 1]]
               /\ Through(steps, start) = f[Len(steps)]
    BY <2>1, LoopUnfolds
  <2> QED BY <1>2, <2>2
<1>8. PICK g : /\ g[0] = One
               /\ \A i \in 1..L : g[i] = adds[i][g[i - 1]]
               /\ Through(adds, One) = g[L]
  <2>1. Len(adds) \in Nat
    BY <1>1, <1>2
  <2>2. \E g : /\ g[0] = One
               /\ \A i \in 1..Len(adds) : g[i] = adds[i][g[i - 1]]
               /\ Through(adds, One) = g[Len(adds)]
    BY <2>1, LoopUnfolds
  <2> QED BY <1>2, <2>2
<1> DEFINE S == {i \in 0..L : SoFar(f[i], spent, g[i], before(i))}
<1>9. 0 \in S
  BY <1>1, <1>6, <1>7, <1>8
<1>10. ASSUME NEW i \in 0..L, i \in S, i # L PROVE i + 1 \in S
  <2> DEFINE x == e.values[i + 1]
  <2>1. i + 1 \in 1..L /\ i + 1 - 1 = i /\ before(i + 1) = kind /\ i + 1 \in 0..L
    BY <1>1, <1>10
  <2>2. SoFar(f[i], spent, g[i], before(i)) /\ before(i) \in {"none", kind}
        /\ before(i) \in {"none"} \cup Kinds
    BY <1>10
  <2>3. f[i] \in Outcomes /\ g[i] \in Accounts
    BY <2>2 DEF SoFar, Agrees, Sound
  <2>4. Answers(deeper[k][x], account[k][x], kind)
    BY <1>1, <2>1
  <2>5. f[i + 1] = AddPart(f[i], deeper[k][x][BudgetOf(f[i])]) /\ g[i + 1] = Plus(g[i], account[k][x])
    BY <1>3, <1>4, <1>7, <1>8, <2>1, <2>3
  <2>6. spent \in Budgets
    BY DEF Afford
  <2> HIDE DEF x, before
  <2>7. SoFar(f[i + 1], spent, g[i + 1], kind)
    BY <2>2, <2>4, <2>5, <2>6, PartAgrees
  <2> QED BY <2>1, <2>7
<1>11. L \in S
  <2> HIDE DEF S
  <2>1. \A i \in 0..L : i \in S
    BY <1>1, <1>9, <1>10, Upward
  <2> QED BY <1>1, <2>1
<1>12. SoFar(f[L], spent, g[L], kind)
  BY <1>1, <1>11
<1>13. f[L].error = "none" => f[L].kind # "none"
  BY <1>12, Names DEF SoFar, Agrees
<1> QED BY <1>5, <1>7, <1>8, <1>12, <1>13 DEF adds

(* A record of the child table, or one of another.                         *)
LEMMA ChildAgrees ==
    ASSUME NEW rows, DOMAIN rows \subseteq Keys, NEW deeper, NEW account, NEW k, NEW e, NEW kind \in Kinds,
           e.ref \in Fields,
           \A c \in DOMAIN rows : TableOf[c] = e.child =>
               Answers(deeper[c][e.value], account[c][e.value], kind),
           NEW spent \in Budgets, NEW r, NEW a, SoFar(r, spent, a, kind), NEW c
    PROVE  SoFar(AddChild(LocalPreviewPolicy, rows, deeper, k, e, r, c), spent,
                 PlusChild(rows, account, k, e, a, c), kind)
<1> DEFINE p == LocalPreviewPolicy
           b == account[c][e.value]
           read == PlusRead(a)
           q == deeper[c][e.value][BudgetOf(ReadOne(r))]
<1>0. spent.nodes \in Nat /\ spent.read \in Nat
  BY DEF Budgets
<1>1. Sound(a) /\ a.value \in Int /\ a.nodes >= 1 /\ Agrees(r, spent, a, kind)
  BY DEF SoFar
<1>2. CASE c \notin DOMAIN rows \/ TableOf[c] # e.child
  BY <1>2 DEF AddChild, PlusChild
<1>3. CASE c \in DOMAIN rows /\ TableOf[c] = e.child
  <2>1. Answers(deeper[c][e.value], b, kind) /\ Sound(b)
    BY <1>3 DEF Answers
  <2>2. AuthorizedField(p, c, e.ref)
    BY <1>3 DEF AuthorizedField, LocalPreviewPolicy
  <2>3. /\ read.value = a.value /\ read.nodes = a.nodes
        /\ read.read = a.read + 1 /\ read.large = a.large /\ read \in Accounts /\ Sound(read)
    <3>1. a.read + 1 \in Nat /\ a \in Accounts
      BY <1>1 DEF Sound, Accounts
    <3>2. read = [a EXCEPT !.read = a.read + 1]
      BY DEF PlusRead
    <3>3. /\ read.value = a.value /\ read.nodes = a.nodes
          /\ read.read = a.read + 1 /\ read.large = a.large /\ read \in Accounts
      BY <3>1, <3>2 DEF Accounts
    <3> QED BY <1>1, <3>3 DEF Sound
  <2>4. LET d == Plus(read, b)
        IN  /\ Sound(d) /\ d.value \in Int /\ (read.large \/ b.large => d.large)
            /\ read.nodes <= d.nodes /\ read.read <= d.read
    BY <1>1, <2>1, <2>3, SoundPlus
  <2> DEFINE d == Plus(read, b)
             child == PlusChild(rows, account, k, e, a, c)
  <2>5. child = IF Value(rows[c], e.ref) # k THEN read ELSE d
    BY <1>3 DEF PlusChild
  <2> HIDE DEF d, read
  <2>6. /\ Sound(child) /\ child.value \in Int /\ child.nodes >= 1 /\ child \in Accounts
        /\ a.nodes <= child.nodes /\ a.read <= child.read /\ (a.large => child.large)
        /\ read.nodes <= child.nodes /\ read.read <= child.read /\ (read.large => child.large)
    <3>1. a.nodes \in Nat /\ a.read \in Nat /\ read.nodes \in Nat /\ read.read \in Nat
          /\ d.nodes \in Nat /\ d.read \in Nat
      BY <1>1, <2>3, <2>4 DEF Sound, Accounts, d
    <3>2. CASE child = read
      BY <1>1, <2>3, <3>1, <3>2
    <3>3. CASE child = d
      BY <1>1, <2>3, <2>4, <3>1, <3>3 DEF d, Sound
    <3> HIDE DEF child
    <3> QED BY <2>5, <3>2, <3>3
  <2> HIDE DEF child, p
  <2>7. CASE r.error # "none"
    <3>1. AddChild(p, rows, deeper, k, e, r, c) = r
      BY <2>7 DEF AddChild
    <3>2. Agrees(r, spent, child, kind)
      BY <1>0, <1>1, <2>6, <2>7, AgreesMore DEF Sound
    <3> QED BY <2>6, <3>1, <3>2 DEF SoFar, child, p
  <2>8. CASE r.error = "none"
    <3>1. Agrees(ReadOne(r), spent, read, kind)
      BY <1>1, <2>8, ReadAgrees DEF read
    <3>2. AddChild(p, rows, deeper, k, e, r, c) =
             IF ReadOne(r).error # "none" \/ Value(rows[c], e.ref) # k THEN ReadOne(r)
             ELSE Added(r, q)
      BY <1>3, <2>2, <2>8 DEF AddChild
    <3>3. CASE ReadOne(r).error # "none"
      <4>1. Agrees(ReadOne(r), spent, child, kind)
        BY <1>0, <2>3, <2>6, <3>1, <3>3, AgreesMore
      <4> QED BY <2>6, <3>2, <3>3, <4>1 DEF SoFar, child, p
    <3>4. CASE ReadOne(r).error = "none" /\ Value(rows[c], e.ref) # k
      BY <2>5, <2>6, <3>1, <3>2, <3>4 DEF SoFar, child, p
    <3>5. CASE ReadOne(r).error = "none" /\ Value(rows[c], e.ref) = k
      <4>1. Afford(BudgetOf(ReadOne(r))) /\ ReadOne(r).value = r.value /\ r.kind = kind
        BY <1>1, <2>3, <2>8, <3>1, <3>5, Continues
      <4>2. Agrees(q, BudgetOf(ReadOne(r)), b, kind)
        BY <2>1, <4>1 DEF Answers
      <4> HIDE DEF q
      <4>3. read.value \in Int
        BY <1>1, <2>3
      <4>4. Agrees(IF q.error # "none" THEN q ELSE InRange(q, kind, ReadOne(r).value + Zero(q.value)),
                   spent, d, kind)
        BY <2>1, <2>3, <3>1, <3>5, <4>2, <4>3, AddedAgrees DEF d
      <4>5. AddChild(p, rows, deeper, k, e, r, c) =
               IF q.error # "none" THEN q ELSE InRange(q, kind, ReadOne(r).value + Zero(q.value))
        BY <3>2, <3>5, <4>1 DEF Added
      <4>6. child = d
        BY <2>5, <3>5
      <4> QED BY <2>6, <4>4, <4>5, <4>6 DEF SoFar, child, p
    <3> QED BY <3>3, <3>4, <3>5
  <2> QED BY <2>7, <2>8
<1> QED BY <1>2, <1>3

LEMMA SumAgrees ==
    ASSUME NEW defs, NEW rows, DOMAIN rows \subseteq Keys, NEW deeper, NEW account,
           NEW k \in DOMAIN rows, NEW e, NEW kind \in Kinds,
           e.child \in Tables, ReferenceTarget(e.child, e.ref) = TableOf[k],
           ScannedFields(defs, e) \subseteq Fields, e.ref \in Fields,
           CheckExpression(defs)[MaxDepth][e.child][e.value][0][{}].kind = kind,
           \A c \in DOMAIN rows : TableOf[c] = e.child =>
               Answers(deeper[c][e.value], account[c][e.value], kind),
           NEW spent, Afford(spent), spent.nodes + 1 <= MaxNodes
    PROVE  SoFar(EvaluateSum(LocalPreviewPolicy, defs, rows, deeper, k, e, Entering(spent)), spent,
                 Through([i \in DOMAIN InOrder |-> [sum \in Accounts |->
                              PlusChild(rows, account, k, e, sum, InOrder[i])]], One), kind)
<1> DEFINE p == LocalPreviewPolicy
           L == Len(InOrder)
           start == Is(Entering(spent), kind, 0)
           steps == [i \in DOMAIN InOrder |-> [sum \in Outcomes |->
                        AddChild(p, rows, deeper, k, e, sum, InOrder[i])]]
           adds == [i \in DOMAIN InOrder |-> [sum \in Accounts |->
                        PlusChild(rows, account, k, e, sum, InOrder[i])]]
<1>1. L \in Nat /\ DOMAIN InOrder = 1..L
  BY FormulaAssumption DEF FormulaAssumption
<1>2. Len(steps) = L /\ Len(adds) = L
  BY <1>1
<1>3. \A i \in 1..L, r \in Outcomes : steps[i][r] = AddChild(p, rows, deeper, k, e, r, InOrder[i])
  BY <1>1
<1>4. \A i \in 1..L, a \in Accounts : adds[i][a] = PlusChild(rows, account, k, e, a, InOrder[i])
  BY <1>1
<1>5. EvaluateSum(p, defs, rows, deeper, k, e, Entering(spent)) = Through(steps, start)
  <2>1. TableOf[k] \in Tables
    BY StoreAssumption DEF StoreAssumption, SchemaAssumption
  <2>2. AuthorizedScan(p, e.child, ScannedFields(defs, e))
    BY DEF AuthorizedScan, LocalPreviewPolicy
  <2> HIDE DEF p
  <2> QED BY <2>1, <2>2 DEF EvaluateSum
<1>6. SoFar(start, spent, One, kind)
  BY StartAgrees, SoundOne DEF SoFar
<1> HIDE DEF steps, adds, start, L
<1>7. PICK f : /\ f[0] = start
               /\ \A i \in 1..L : f[i] = steps[i][f[i - 1]]
               /\ Through(steps, start) = f[L]
  <2>1. Len(steps) \in Nat
    BY <1>1, <1>2
  <2>2. \E f : /\ f[0] = start
               /\ \A i \in 1..Len(steps) : f[i] = steps[i][f[i - 1]]
               /\ Through(steps, start) = f[Len(steps)]
    BY <2>1, LoopUnfolds
  <2> QED BY <1>2, <2>2
<1>8. PICK g : /\ g[0] = One
               /\ \A i \in 1..L : g[i] = adds[i][g[i - 1]]
               /\ Through(adds, One) = g[L]
  <2>1. Len(adds) \in Nat
    BY <1>1, <1>2
  <2>2. \E g : /\ g[0] = One
               /\ \A i \in 1..Len(adds) : g[i] = adds[i][g[i - 1]]
               /\ Through(adds, One) = g[Len(adds)]
    BY <2>1, LoopUnfolds
  <2> QED BY <1>2, <2>2
<1> DEFINE S == {i \in 0..L : SoFar(f[i], spent, g[i], kind)}
<1>9. 0 \in S
  BY <1>1, <1>6, <1>7, <1>8
<1>10. ASSUME NEW i \in 0..L, i \in S, i # L PROVE i + 1 \in S
  <2> DEFINE c == InOrder[i + 1]
  <2>1. i + 1 \in 1..L /\ i + 1 - 1 = i /\ i + 1 \in 0..L
    BY <1>1, <1>10
  <2>2. SoFar(f[i], spent, g[i], kind)
    BY <1>10
  <2>3. f[i] \in Outcomes /\ g[i] \in Accounts
    BY <2>2 DEF SoFar, Agrees, Sound
  <2>4. f[i + 1] = AddChild(p, rows, deeper, k, e, f[i], c)
        /\ g[i + 1] = PlusChild(rows, account, k, e, g[i], c)
    BY <1>3, <1>4, <1>7, <1>8, <2>1, <2>3
  <2>5. spent \in Budgets
    BY DEF Afford
  <2> HIDE DEF c
  <2>6. SoFar(f[i + 1], spent, g[i + 1], kind)
    BY <2>2, <2>4, <2>5, ChildAgrees
  <2> QED BY <2>1, <2>6
<1>11. L \in S
  <2> HIDE DEF S
  <2>1. \A i \in 0..L : i \in S
    BY <1>1, <1>9, <1>10, Upward
  <2> QED BY <1>1, <2>1
<1> QED BY <1>5, <1>7, <1>8, <1>11 DEF adds

(* What compiles is evaluated as its account says.                         *)
Matches(defs, rows, check, evaluate, account) ==
    \A k \in DOMAIN rows, e \in Expressions : \A kind :
        Passes(defs, check, TableOf[k], e, kind) => Answers(evaluate[k][e], account[k][e], kind)

LEMMA PartMatches ==
    ASSUME NEW defs, Defined(defs), NEW rows, Valid(rows), DOMAIN rows \subseteq Keys,
           NEW n \in 0..MaxDepth, NEW evaluate, NEW account,
           Matches(defs, rows, CheckExpression(defs)[n], evaluate, account),
           NEW k \in DOMAIN rows, NEW e \in Expressions, NEW kind \in Kinds,
           Compiled(defs, CheckExpression(defs)[n], TableOf[k], e, kind),
           NEW spent, Afford(spent), spent.nodes + 1 <= MaxNodes
    PROVE  LET a == AccountPart(defs, rows, account, k, e)
           IN  /\ Sound(a) /\ a.nodes >= 1
               /\ Agrees(EvaluatePart(LocalPreviewPolicy, defs, rows, evaluate, k, e, Entering(spent)),
                         spent, a, kind)
<1> DEFINE p == LocalPreviewPolicy
           t == TableOf[k]
           check == CheckExpression(defs)[n]
           s == Entering(spent)
           a == AccountPart(defs, rows, account, k, e)
           r == EvaluatePart(p, defs, rows, evaluate, k, e, s)
<1>0. t \in Tables
  BY StoreAssumption DEF StoreAssumption, SchemaAssumption
<1>7. Afford(BudgetOf(s))
  BY EnteringIs DEF Afford
<1>1. CASE e.op = "field"
  <2>1. a = Reading(Value(rows[k], e.field), 0) /\ r = EvaluateField(p, rows, k, e, s)
    BY <1>1 DEF AccountPart, EvaluatePart
  <2>2. NumericKind(t, e.field) = kind
    BY <1>1 DEF Compiled
  <2>3. Sound(a) /\ Agrees(r, spent, a, kind)
    BY <2>1, <2>2, FieldAgrees
  <2>4. a.nodes = 1
    BY <2>1 DEF Reading
  <2> HIDE DEF a, r
  <2>5. a.nodes >= 1
    BY <2>4
  <2> QED BY <2>3, <2>5 DEF a, r
<1>2. CASE e.op = "lookup"
  <2> DEFINE b == Reading(LookupValue(rows, k, e.ref, e.field),
                          IF Value(rows[k], e.ref) = Blank THEN 0 ELSE 1)
  <2>1. a = b /\ r = EvaluateLookup(p, rows, k, e, s)
    BY <1>2 DEF AccountPart, EvaluatePart
  <2>2. ReferenceTarget(t, e.ref) \in Tables /\ NumericKind(ReferenceTarget(t, e.ref), e.field) = kind
    BY <1>2 DEF Compiled
  <2>3. Sound(b) /\ Agrees(EvaluateLookup(p, rows, k, e, s), spent, b, kind)
    BY <2>2, LookupAgrees
  <2>4. b.nodes = 1
    BY DEF Reading
  <2> HIDE DEF a, r, b
  <2>5. Sound(a) /\ a.nodes >= 1 /\ Agrees(r, spent, a, kind)
    BY <2>1, <2>3, <2>4
  <2> QED BY <2>5 DEF a, r
<1>3. CASE e.op = "sum"
  <2>1. e.child \in Tables /\ ReferenceTarget(e.child, e.ref) = t
        /\ Passes(defs, check, e.child, e.value, kind) /\ e.value \in Expressions
    BY <1>3, PartsOf DEF Compiled
  <2>2. /\ ScannedFields(defs, e) \subseteq Fields
        /\ CheckExpression(defs)[MaxDepth][e.child][e.value][0][{}].kind = kind
    <3>1. Compiled(defs, CheckExpression(defs)[n], t, e, kind)
      OBVIOUS
    <3> HIDE DEF t
    <3> QED BY <1>0, <1>3, <3>1, ScansFields
  <2>3. e.ref \in Fields
    BY <1>0, <2>1, FieldsKnown
  <2>4. \A c \in DOMAIN rows : TableOf[c] = e.child =>
            Answers(evaluate[c][e.value], account[c][e.value], kind)
    BY <2>1 DEF Matches
  <2> DEFINE b == Through([i \in DOMAIN InOrder |-> [sum \in Accounts |->
                              PlusChild(rows, account, k, e, sum, InOrder[i])]], One)
  <2>5. a = b /\ r = EvaluateSum(p, defs, rows, evaluate, k, e, s)
    BY <1>3 DEF AccountPart, EvaluatePart
  <2>6. SoFar(EvaluateSum(p, defs, rows, evaluate, k, e, s), spent, b, kind)
    BY <2>1, <2>2, <2>3, <2>4, SumAgrees
  <2> HIDE DEF a, r, b
  <2>7. SoFar(r, spent, a, kind)
    BY <2>5, <2>6
  <2> QED BY <2>7 DEF SoFar, a, r
<1>4. CASE e.op = "product"
  <2>1. PICK left \in Kinds, right \in Kinds :
           /\ Passes(defs, check, t, e.left, left) /\ Passes(defs, check, t, e.right, right)
           /\ ProductKind(left, right) = kind
    BY <1>4 DEF Compiled
  <2> DEFINE lefts == evaluate[k][e.left]
             rights == evaluate[k][e.right]
             l == account[k][e.left]
             m == account[k][e.right]
             b == Times(l, m)
             q == Multiplied(lefts[BudgetOf(s)], rights[BudgetOf(lefts[BudgetOf(s)])])
  <2>2. Answers(lefts, l, left) /\ Answers(rights, m, right)
    BY <1>4, <2>1, PartsOf DEF Matches
  <2>3. a = [b EXCEPT !.nodes = @ + 1] /\ r = q
    BY <1>4 DEF AccountPart, EvaluatePart
  <2> HIDE DEF lefts, rights, l, m
  <2>4. Agrees(q, BudgetOf(s), b, kind)
    BY <2>1, <2>2, ProductAgrees
  <2>5. Sound(b)
    BY <2>2, SoundTimes DEF Answers
  <2> HIDE DEF a, r, b, q
  <2>6. LET more == [b EXCEPT !.nodes = @ + 1]
        IN  Sound(more) /\ more.nodes >= 1 /\ Agrees(q, spent, more, kind)
    BY <2>4, <2>5, DeeperAgrees
  <2>7. Sound(a) /\ a.nodes >= 1 /\ Agrees(r, spent, a, kind)
    BY <2>3, <2>6
  <2> QED BY <2>7 DEF a, r
<1>5. CASE e.op = "total"
  <2>1. Len(e.values) # 0 /\ \A i \in DOMAIN e.values : Passes(defs, check, t, e.values[i], kind)
    BY <1>5 DEF Compiled
  <2>2. \A i \in DOMAIN e.values : e.values[i] \in Expressions
    BY <1>5, PartsOf
  <2>3. \A i \in DOMAIN e.values : Answers(evaluate[k][e.values[i]], account[k][e.values[i]], kind)
    BY <2>1, <2>2 DEF Matches
  <2> DEFINE b == Through([i \in DOMAIN e.values |-> [sum \in Accounts |->
                              Plus(sum, account[k][e.values[i]])]], One)
  <2>4. a = b /\ r = EvaluateTotal(evaluate, k, e, s)
    BY <1>5 DEF AccountPart, EvaluatePart
  <2>5. SoFar(EvaluateTotal(evaluate, k, e, s), spent, b, kind)
    BY <1>5, <2>1, <2>3, TotalAgrees
  <2> HIDE DEF a, r, b
  <2>6. SoFar(r, spent, a, kind)
    BY <2>4, <2>5
  <2> QED BY <2>6 DEF SoFar, a, r
<1>6. CASE e.op = "named"
  <2> DEFINE key == <<t, e.name>>
             b == account[k][defs[key]]
             q == evaluate[k][defs[key]][BudgetOf(s)]
  <2>1. key \in DOMAIN defs /\ Passes(defs, check, t, defs[key], kind)
    BY <1>6 DEF Compiled
  <2>2. Answers(evaluate[k][defs[key]], b, kind)
    BY <2>1 DEF Matches, Defined
  <2>3. Agrees(q, BudgetOf(s), b, kind) /\ Sound(b)
    BY <1>7, <2>2 DEF Answers
  <2>4. a = [b EXCEPT !.nodes = @ + 1] /\ r = q
    BY <1>6, <2>1 DEF AccountPart, EvaluatePart, EvaluateNamed
  <2> HIDE DEF a, r, b, q
  <2>5. LET more == [b EXCEPT !.nodes = @ + 1]
        IN  Sound(more) /\ more.nodes >= 1 /\ Agrees(q, spent, more, kind)
    BY <2>3, DeeperAgrees
  <2>6. Sound(a) /\ a.nodes >= 1 /\ Agrees(r, spent, a, kind)
    BY <2>4, <2>5
  <2> QED BY <2>6 DEF a, r
<1> QED BY <1>1, <1>2, <1>3, <1>4, <1>5, <1>6, PartsOf

LEMMA LevelMatches ==
    ASSUME NEW defs, Defined(defs), NEW rows, Valid(rows), DOMAIN rows \subseteq Keys,
           NEW n \in 0..MaxDepth, NEW evaluate, NEW account,
           Matches(defs, rows, CheckExpression(defs)[n], evaluate, account)
    PROVE  Matches(defs, rows, CheckLevel(defs, CheckExpression(defs)[n]),
                   EvaluateLevel(LocalPreviewPolicy, defs, rows, evaluate),
                   AccountLevel(defs, rows, account))
<1> DEFINE check == CheckExpression(defs)[n]
           p == LocalPreviewPolicy
<1> SUFFICES ASSUME NEW k \in DOMAIN rows, NEW e \in Expressions, NEW kind,
                    Passes(defs, CheckLevel(defs, check), TableOf[k], e, kind)
             PROVE  Answers(EvaluateLevel(p, defs, rows, evaluate)[k][e],
                            AccountLevel(defs, rows, account)[k][e], kind)
  BY DEF Matches
<1> DEFINE a == AccountPart(defs, rows, account, k, e)
           reply == EvaluateLevel(p, defs, rows, evaluate)[k][e]
<1>1. TableOf[k] \in Tables /\ k \in Keys
  BY StoreAssumption DEF StoreAssumption, SchemaAssumption
<1>2. Compiled(defs, check, TableOf[k], e, kind) /\ kind \in Kinds
  <2>1. WellChecked(defs, check)
    BY AlwaysChecked
  <2> HIDE DEF check
  <2> QED BY <1>1, <2>1, WhatCompiles DEF Passes
<1>3. AccountLevel(defs, rows, account)[k][e] = a
  BY <1>1 DEF AccountLevel
<1>4. \A s \in Budgets : reply[s] =
          IF Entering(s).nodes > MaxNodes THEN Failed(Entering(s), "NodeBudgetExceeded")
          ELSE EvaluatePart(p, defs, rows, evaluate, k, e, Entering(s))
  BY <1>1 DEF EvaluateLevel, Entering
<1>5. \A s : Afford(s) /\ s.nodes + 1 <= MaxNodes =>
          /\ Sound(a) /\ a.nodes >= 1
          /\ Agrees(EvaluatePart(p, defs, rows, evaluate, k, e, Entering(s)), s, a, kind)
  BY <1>2, PartMatches
<1>6. Sound(a) /\ a.nodes >= 1
  <2> DEFINE s == [nodes |-> 0, read |-> 0]
  <2>1. Afford(s) /\ s.nodes + 1 <= MaxNodes
    BY FormulaAssumption DEF FormulaAssumption, Afford, Budgets
  <2> HIDE DEF a, s
  <2> QED BY <1>5, <2>1
<1> HIDE DEF a, reply
<1>7. ASSUME NEW s, Afford(s) PROVE Agrees(reply[s], s, a, kind)
  <2>1. s \in Budgets /\ s.nodes \in Nat /\ s.read \in Nat
    BY <1>7 DEF Afford, Budgets
  <2>2. Entering(s) = [nodes |-> s.nodes + 1, read |-> s.read, error |-> "none",
                       kind |-> "none", value |-> Blank]
    BY <2>1 DEF Entering, Is, Budgets
  <2>3. CASE s.nodes + 1 <= MaxNodes
    <3>1. reply[s] = EvaluatePart(p, defs, rows, evaluate, k, e, Entering(s))
      BY <1>4, <2>1, <2>2, <2>3, Bounds
    <3> QED BY <1>5, <1>7, <2>3, <3>1
  <2>4. CASE ~(s.nodes + 1 <= MaxNodes)
    <3>1. reply[s] = Failed(Entering(s), "NodeBudgetExceeded")
      BY <1>4, <2>1, <2>2, <2>4, Bounds
    <3>2. reply[s] = [nodes |-> s.nodes + 1, read |-> s.read, error |-> "NodeBudgetExceeded",
                      kind |-> "none", value |-> Blank]
      BY <2>2, <3>1 DEF Failed
    <3>3. reply[s] \in Outcomes
      BY <2>1, <3>2 DEF Outcomes, Errors
    <3>4. a.nodes \in Nat
      BY <1>6 DEF Sound, Accounts
    <3>5. s.nodes + a.nodes > MaxNodes
      BY <1>6, <2>1, <2>4, <3>4, Bounds
    <3> QED BY <3>2, <3>3, <3>5 DEF Agrees
  <2> QED BY <2>3, <2>4
<1> QED BY <1>3, <1>6, <1>7 DEF Answers, reply

LEMMA AlwaysMatches ==
    ASSUME NEW defs, Defined(defs), NEW rows, Valid(rows), DOMAIN rows \subseteq Keys
    PROVE  \A n \in 0..MaxDepth :
              Matches(defs, rows, CheckExpression(defs)[n],
                      EvaluateExpression(LocalPreviewPolicy, defs, rows)[n], Account(defs, rows)[n])
<1> DEFINE p == LocalPreviewPolicy
           check == CheckExpression(defs)
           evaluate == EvaluateExpression(p, defs, rows)
           account == Account(defs, rows)
           S == {n \in 0..MaxDepth : Matches(defs, rows, check[n], evaluate[n], account[n])}
<1>0. MaxDepth \in Nat
  BY Depth
<1>1. check[0] = CheckTooDeep(defs)
      /\ \A n \in 1..MaxDepth : check[n] = CheckLevel(defs, check[n - 1])
  BY CheckUnfolds
<1>2. \A n \in 1..MaxDepth : evaluate[n] = EvaluateLevel(p, defs, rows, evaluate[n - 1])
  BY EvaluateUnfolds
<1>3. \A n \in 1..MaxDepth : account[n] = AccountLevel(defs, rows, account[n - 1])
  BY AccountUnfolds
<1>4. 0 \in S
  <2>1. \A k \in DOMAIN rows : TableOf[k] \in Tables
    BY StoreAssumption DEF StoreAssumption, SchemaAssumption
  <2> HIDE DEF check, evaluate, account
  <2> QED BY <1>0, <1>1, <2>1, NothingPassesTooDeep DEF Matches
<1>5. ASSUME NEW n \in 0..MaxDepth, n \in S, n # MaxDepth PROVE n + 1 \in S
  <2>1. n + 1 \in 1..MaxDepth /\ n + 1 - 1 = n
    BY <1>0, <1>5
  <2>2. Matches(defs, rows, CheckLevel(defs, check[n]), EvaluateLevel(p, defs, rows, evaluate[n]),
                AccountLevel(defs, rows, account[n]))
    BY <1>5, LevelMatches
  <2> HIDE DEF p, check, evaluate, account
  <2> QED BY <1>1, <1>2, <1>3, <2>1, <2>2
<1> HIDE DEF S, p, check, evaluate, account
<1>6. \A n \in 0..MaxDepth : n \in S
  BY <1>0, <1>4, <1>5, Upward
<1> QED BY <1>6 DEF S, p, check, evaluate, account

LEMMA CompiledIsFaithful ==
    ASSUME Valid(records), DOMAIN records \subseteq Keys,
           NEW defs, Defined(defs), NEW key \in DOMAIN defs, KindOf(defs, key) \in Kinds,
           NEW k \in DOMAIN records, NEW name, key = <<TableOf[k], name>>
    PROVE  Faithful(defs, k, name)
<1> DEFINE p == LocalPreviewPolicy
           kind == KindOf(defs, key)
           e == defs[key]
           t == TableOf[k]
           check == CheckExpression(defs)[MaxDepth]
           account == Account(defs, records)[MaxDepth][k][e]
           result == EvaluateExpression(p, defs, records)[MaxDepth][k][e][Start]
<1>0. t \in Tables /\ e \in Expressions /\ MaxDepth \in 0..MaxDepth
  BY Depth, StoreAssumption DEF StoreAssumption, SchemaAssumption, Defined
<1>1. Passes(defs, check, t, e, kind)
  <2>1. check[t][e][0][{key}].kind = kind
    BY DEF KindOf
  <2>2. 0 \in Nat /\ {key} \in SUBSET DOMAIN defs
    OBVIOUS
  <2> HIDE DEF check, kind
  <2> QED BY <2>1, <2>2 DEF Passes, kind
<1>2. Matches(defs, records, check, EvaluateExpression(p, defs, records)[MaxDepth],
              Account(defs, records)[MaxDepth])
  BY <1>0, AlwaysMatches
<1>3. AuthorizedExpression(p, defs)[MaxDepth][t][e]
  <2>1. Permitted(defs, check, AuthorizedExpression(p, defs)[MaxDepth])
    BY <1>0, AlwaysPermitted
  <2> HIDE DEF check, p, kind
  <2> QED BY <1>0, <1>1, <2>1 DEF Permitted
<1>4. TargetError(p, records, k) = "none" /\ p.snapshot
  BY DEF TargetError, AllowsRecord, LocalPreviewPolicy
<1>5. Afford(Start)
  BY FormulaAssumption DEF FormulaAssumption, Afford, Start, Budgets
<1>6. Sound(account) /\ Agrees(result, Start, account, kind)
  <2> HIDE DEF check, p, kind
  <2> QED BY <1>0, <1>1, <1>2, <1>5 DEF Matches, Answers
<1>7. Evaluate(p, defs, records, k, name) = result
  <2>1. result.error = "none" => result.kind = kind
    BY <1>6 DEF Agrees
  <2>2. Evaluate(p, defs, records, k, name) =
           IF result.error = "none" /\ result.kind # kind
           THEN Failed(result, "NumericTypeMismatch") ELSE result
    <3> HIDE DEF p, result
    <3> QED BY <1>3, <1>4 DEF Evaluate, result
  <2> QED BY <2>1, <2>2
<1>8. account.nodes \in Nat /\ account.read \in Nat
  BY <1>6 DEF Sound, Accounts
<1>9. Start.nodes = 0 /\ Start.read = 1
  BY DEF Start
<1>10. Faithful(defs, k, name) =
          CASE result.error = "none" ->
                 /\ result.value = account.value /\ result.kind = kind
                 /\ account.nodes <= MaxNodes /\ 1 + account.read <= MaxRead /\ ~account.large
            [] result.error = "NodeBudgetExceeded" -> account.nodes > MaxNodes
            [] result.error = "RecordBudgetExceeded" -> 1 + account.read > MaxRead
            [] result.error = "Overflow" -> account.large
            [] OTHER -> FALSE
  <2> HIDE DEF result
  <2> QED BY <1>7 DEF Faithful
<1> HIDE DEF account, result, kind
<1>11. CASE result.error = "none"
  BY <1>6, <1>8, <1>9, <1>10, <1>11 DEF Agrees
<1>12. CASE result.error # "none"
  <2>1. \/ result.error = "NodeBudgetExceeded" /\ account.nodes > MaxNodes
        \/ result.error = "RecordBudgetExceeded" /\ 1 + account.read > MaxRead
        \/ result.error = "Overflow" /\ account.large
    BY <1>6, <1>8, <1>9, <1>12 DEF Agrees
  <2>2. CASE result.error = "NodeBudgetExceeded"
    BY <1>10, <2>1, <2>2
  <2>3. CASE result.error = "RecordBudgetExceeded"
    BY <1>10, <2>1, <2>3
  <2>4. CASE result.error = "Overflow"
    BY <1>10, <2>1, <2>4
  <2> QED BY <2>1, <2>2, <2>3, <2>4
<1> QED BY <1>11, <1>12

-----------------------------------------------------------------------------
(* The results about what is read.                                         *)

(* Whatever a policy hides, reverse references and formulas come out, and  *)
(* fail, as if it were not there: a denied row or field refuses the whole  *)
(* (relations.rs:381) and denial comes before absence.                     *)
THEOREM DenialsLeakNothing == Spec => []HiddenIsUnread
<1>1. ASSUME DOMAIN records \subseteq Keys PROVE HiddenIsUnread
  <2>1. ASSUME NEW p \in Policies, NEW k \in Keys, NEW t \in Tables, NEW f \in Fields
        PROVE  ReverseRefs(p, records, k, t, f) = ReverseRefs(p, Masked(p, records), k, t, f)
    BY <1>1, PoliciesScan, SameReverseRefs
  <2>2. ASSUME NEW p \in Policies, NEW k \in Keys, NEW list \in Formularies,
               NEW key \in DOMAIN Definitions(list)
        PROVE  Evaluate(p, Definitions(list), records, k, key[2])
                  = Evaluate(p, Definitions(list), Masked(p, records), k, key[2])
    <3>1. \A x \in DOMAIN Definitions(list) : Definitions(list)[x] \in Expressions
      BY DefinitionsAreExpressions
    <3> QED BY <1>1, <3>1, PoliciesScan, SameEvaluation
  <2> QED BY <2>1, <2>2 DEF HiddenIsUnread
<1>2. IInv => DOMAIN records \subseteq Keys
  BY DEF IInv, Published
<1>3. IInv => HiddenIsUnread
  BY <1>1, <1>2
<1> QED BY <1>3, InvariantHolds, PTL

(* A formula that compiles is evaluated on every record of every published *)
(* state to the value it stands for and the kind it was compiled with, or  *)
(* is refused, exactly where a budget of relations.rs:589 does not suffice *)
(* or an amount does not fit, and for no other reason.                     *)
THEOREM FormulasAreFaithful == Spec => []FormulasMeanWhatTheySay
<1>1. ASSUME DOMAIN records \subseteq Keys, Valid(records) PROVE FormulasMeanWhatTheySay
  <2> SUFFICES ASSUME NEW list \in Formularies, Compiles(list),
                      NEW key \in DOMAIN Definitions(list), NEW k \in DOMAIN records,
                      TableOf[k] = key[1]
               PROVE  Faithful(Definitions(list), k, key[2])
    BY DEF FormulasMeanWhatTheySay
  <2>1. Defined(Definitions(list))
    BY DefinitionsAreExpressions DEF Defined
  <2>2. key = <<TableOf[k], key[2]>>
    BY DEF Definitions, KeyOf
  <2>3. KindOf(Definitions(list), key) \in Kinds
    BY DEF Compiles
  <2> QED BY <1>1, <2>1, <2>2, <2>3, CompiledIsFaithful
<1>2. IInv => DOMAIN records \subseteq Keys /\ Valid(records)
  BY DEF IInv, Published
<1>3. IInv => FormulasMeanWhatTheySay
  BY <1>1, <1>2
<1> QED BY <1>3, InvariantHolds, PTL
=============================================================================
