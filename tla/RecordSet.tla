----------------------------- MODULE RecordSet -----------------------------
(***************************************************************************)
(* What a store of related records promises: a batch is a set of changes   *)
(* that take effect together or not at all, on records that are valid      *)
(* before and after.  Nothing is said of the order of the changes.         *)
(***************************************************************************)
EXTENDS RecordSchema

CONSTANTS Changes,    \* [op, key, row], the row being None of a deletion
          Snapshots   \* what the store may have been opened with

VARIABLES records, asked

vars == <<records, asked>>

Of(op) == {c \in asked : c.op = op}

KeysOf(changes) == {c.key : c \in changes}

RowOf(k) == (CHOOSE c \in asked : c.key = k).row

(* The records with the batch, before anything is captured.                *)
Merged ==
    [k \in (DOMAIN records \ KeysOf(Of("delete"))) \cup KeysOf(Of("insert")) |->
        IF k \in KeysOf(asked) THEN RowOf(k) ELSE records[k]]

Price(r, k) == Value(Merged[Value(Merged[k], r.ref)], r.source)

PricesFound ==
    \A k \in KeysOf(Of("insert")) : \A r \in RulesOf(k) :
        Value(Merged[k], r.ref) \in DOMAIN Merged /\ Price(r, k) # Blank

(* A new line takes the price its product has with the batch.              *)
Captured(k) ==
    [f \in DOMAIN Merged[k] \cup {r.captured : r \in RulesOf(k)} |->
        IF \E r \in RulesOf(k) : r.captured = f
        THEN Price(CHOOSE r \in RulesOf(k) : r.captured = f, k)
        ELSE Merged[k][f]]

Outcome ==
    [k \in DOMAIN Merged |->
        IF k \in KeysOf(Of("insert")) THEN Captured(k) ELSE Merged[k]]

Init == records \in {Checked(s) : s \in Snapshots} /\ asked = {}

Ask == \E c \in Changes : asked' = asked \cup {c} /\ UNCHANGED records

Apply ==
    /\ \A c, d \in asked : c.key = d.key => c = d
    /\ KeysOf(Of("insert")) \cap DOMAIN records = {}
    /\ KeysOf(Of("replace") \cup Of("delete")) \subseteq DOMAIN records
    /\ \A c \in Of("replace") : \A r \in RulesOf(c.key), f \in Fields :
          f \in {r.captured, r.ref} => Value(c.row, f) = Value(records[c.key], f)
    /\ PricesFound
    /\ Valid(Outcome)
    /\ records' = Checked(Outcome)
    /\ asked' = {}

Refuse == asked' = {} /\ UNCHANGED records

Next == Ask \/ Apply \/ Refuse

Spec == Init /\ [][Next]_vars
=============================================================================
