--------------------------- MODULE RelationStore ---------------------------
(***************************************************************************)
(* RelationStore::apply_batch, change by change: a candidate is edited,    *)
(* checked with placeholders for the captured prices, completed with them, *)
(* checked again, and only then published.  A change that may not be made  *)
(* ends the batch.                                                         *)
(***************************************************************************)
EXTENDS RecordSchema

CONSTANTS Changes,    \* what may be asked: [op, key, row]
          Snapshots,  \* valid sets of records to open the store with
          MaxBatch    \* MAX_BATCH

VARIABLES
    records,     \* the published facts
    candidate,   \* what the batch makes of them
    touched, inserted, deleted,
    asked        \* history: the changes of the batch so far

vars == <<records, candidate, touched, inserted, deleted, asked>>

ASSUME StoreAssumption ==
    /\ SchemaAssumption
    /\ \A c \in Changes :
          /\ c.op \in {"insert", "replace", "delete"} /\ c.key \in Keys
          /\ c.op # "delete" => DOMAIN c.row \subseteq Fields
    /\ \A s \in Snapshots : DOMAIN s \subseteq Keys /\ Valid(s)
    /\ MaxBatch \in Nat

(* from_checked_snapshot, which checks what it is given once more, or new. *)
Init ==
    /\ \E s \in Snapshots : records = Checked(s)
    /\ candidate = records
    /\ touched = {} /\ inserted = {} /\ deleted = {} /\ asked = {}

(* Mutant: what the batch deleted may be inserted anew.                    *)
Untouched_Anew(c) ==
    c.key \notin touched \/ (c.op = "insert" /\ c.key \in deleted)

Untouched(c) == c.key \notin touched

(* A captured price is derived: it may not be given.                       *)
Insertable(c) ==
    /\ c.key \notin DOMAIN candidate
    /\ \A r \in RulesOf(c.key) : Value(c.row, r.captured) = Blank

(* The candidate's row is complete; one that leaves a field out differs.   *)
KeepsHistory(c) ==
    \A r \in RulesOf(c.key) : \A f \in {r.captured, r.ref} :
        f \in DOMAIN c.row /\ c.row[f] = candidate[c.key][f]

Admissible(c) ==
    /\ Untouched(c)
    /\ CASE c.op = "insert" -> Insertable(c)
         [] c.op = "replace" -> c.key \in DOMAIN candidate /\ KeepsHistory(c)
         [] c.op = "delete" -> c.key \in DOMAIN candidate

Put(rows, k, row) == [j \in DOMAIN rows \cup {k} |-> IF j = k THEN row ELSE rows[j]]

Change(c) ==
    /\ Cardinality(asked) < MaxBatch
    /\ Admissible(c)
    /\ touched' = touched \cup {c.key}
    /\ asked' = asked \cup {c}
    /\ IF c.op = "delete"
       THEN /\ candidate' = [j \in DOMAIN candidate \ {c.key} |-> candidate[j]]
            /\ deleted' = deleted \cup {c.key} /\ UNCHANGED inserted
       ELSE /\ candidate' = Put(candidate, c.key, c.row)
            /\ inserted' = inserted \cup (IF c.op = "insert" THEN {c.key} ELSE {})
            /\ UNCHANGED deleted
    /\ UNCHANGED records

(* Mutant: the rejected candidate is still there when the next batch       *)
(* begins.                                                                 *)
Over_KeepsCandidate(rows) ==
    /\ records' = rows /\ UNCHANGED candidate
    /\ touched' = {} /\ inserted' = {} /\ deleted' = {} /\ asked' = {}

(* The call returns; what it worked on is dropped.                         *)
Over(rows) ==
    /\ records' = rows /\ candidate' = rows
    /\ touched' = {} /\ inserted' = {} /\ deleted' = {} /\ asked' = {}

(* More changes than a batch may have, or one that may not be made.        *)
Reject(c) ==
    /\ Cardinality(asked) >= MaxBatch \/ ~Admissible(c)
    /\ Over(records)

Restricted ==
    \E d \in deleted, k \in DOMAIN candidate :
        \E f \in DOMAIN candidate[k] : candidate[k][f] = d

(* The graph is checked with nothing where the captured prices will be.    *)
Graph ==
    [k \in DOMAIN candidate |->
        IF k \in inserted
        THEN [f \in DOMAIN candidate[k] \cup {r.captured : r \in RulesOf(k)} |->
                IF \E r \in RulesOf(k) : r.captured = f THEN 0 ELSE candidate[k][f]]
        ELSE candidate[k]]

(* The price of the line's product, as the batch leaves it.                *)
Source(r, k) ==
    LET p == Value(candidate[k], r.ref)
    IN  IF p \in DOMAIN candidate THEN Value(candidate[p], r.source) ELSE Blank

SourcesValid == \A k \in inserted : \A r \in RulesOf(k) : Source(r, k) # Blank

(* No source is a captured field, so the order of the captures is of no    *)
(* account.                                                                *)
Final ==
    [k \in DOMAIN candidate |->
        IF k \in inserted
        THEN [f \in DOMAIN candidate[k] \cup {r.captured : r \in RulesOf(k)} |->
                IF \E r \in RulesOf(k) : r.captured = f
                THEN Source(CHOOSE r \in RulesOf(k) : r.captured = f, k)
                ELSE candidate[k][f]]
        ELSE candidate[k]]

(* Mutant: what was captured is not checked.                               *)
Publishable_GraphOnly == ~Restricted /\ Valid(Graph) /\ SourcesValid

Publishable == ~Restricted /\ Valid(Graph) /\ SourcesValid /\ Valid(Final)

Publish == Publishable /\ Over(Checked(Final))

Refuse == ~Publishable /\ Over(records)

Next ==
    \/ \E c \in Changes : Change(c) \/ Reject(c)
    \/ Publish \/ Refuse

Spec == Init /\ [][Next]_vars

-----------------------------------------------------------------------------
(* Properties.                                                             *)

(* Every variable keeps its type.                                          *)
TypeOK ==
    /\ DOMAIN records \subseteq Keys /\ DOMAIN candidate \subseteq Keys
    /\ \A k \in DOMAIN candidate : DOMAIN candidate[k] \subseteq Fields
    /\ inserted \cup deleted \subseteq touched /\ touched = {c.key : c \in asked}
    /\ asked \subseteq Changes /\ Cardinality(asked) <= MaxBatch

(* What is published stands up to the check it would meet when the store   *)
(* is opened with it again: no reference dangles, no amount, captured ones *)
(* included, is out of range, and the check would change nothing.          *)
Reopens == Valid(records) /\ Checked(records) = records

(* "Existing capture values and their source references cannot change"     *)
(* (evobase-appspec/README.md:36): not in one batch either, by a deletion  *)
(* and an insertion under the same identity.                               *)
CapturesStand ==
    [][\A k \in DOMAIN records \cap DOMAIN records' : \A r \in RulesOf(k) :
          /\ records'[k][r.captured] = records[k][r.captured]
          /\ records'[k][r.ref] = records[k][r.ref]]_records

(* A new line's price is its product's price as the batch leaves it,       *)
(* whatever the order in which the batch changes the two.                  *)
CapturedAtInsertion ==
    [][\A k \in DOMAIN records' \ DOMAIN records : \A r \in RulesOf(k) :
          records'[k][r.captured] = records'[records'[k][r.ref]][r.source]]_records

RecordSet == INSTANCE RecordSet

(* A batch is a set of changes that take effect together or not at all.    *)
ImplementsSet == RecordSet!Spec

(* "apply_batch checks the complete final graph" (evobase-appspec/         *)
(* README.md:34): what it refuses at the end has an invalid final state.   *)
RefusesOnlyInvalid ==
    [][Refuse /\ asked # {} => Restricted \/ ~SourcesValid \/ ~Valid(Final)]_vars
=============================================================================
