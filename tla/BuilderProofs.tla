--------------------------- MODULE BuilderProofs ---------------------------
(***************************************************************************)
(* The windows of the Builder, for any number of them, any texts, pastes,  *)
(* definitions and limits: what is stored is a chain of drafts, each of    *)
(* which its writer had seen the one before, and all can be restored.      *)
(***************************************************************************)
EXTENDS Builder, FiniteSetTheorems, TLAPS

Outcomes == {"waiting", "written", "Conflict", "StorageError", "Unsupported"}
Statuses == {"Clean", "Dirty", "Invalid", "Expired", "Saving", "Saved"} \cup Outcomes

Sessions ==
    [saved : Snapshots, persisted : Snapshots \cup {Nothing, Foreign}, failed : BOOLEAN,
     spec : Specs, rows : Rows, name : Names \cup {BadName},
     buffers : [Ids -> Texts \cup {NoText}], status : Statuses,
     paused : BOOLEAN, composing : BOOLEAN, saving : BOOLEAN,
     request : [draft : Snapshots, expected : Snapshots \cup {Nothing}, outcome : Outcomes]
               \cup {None}]

(* What has been entered in a window with session d.                       *)
Candidate(d) == [d.spec EXCEPT !.name = d.name]
Cells(d) == Overlaid(d.rows, d.buffers)

(* What a window waits for is its draft as entered, with the revision that *)
(* follows the snapshot it has seen.                                       *)
RequestOK(d, ever) ==
    /\ d.saving /\ ~d.failed
    /\ d.request.draft.spec = Candidate(d) /\ d.request.draft.rows = Cells(d)
    /\ d.request.draft.revision = NextRevision(d.request.draft, d.saved)
    /\ Restores(d.request.draft)
    /\ d.request.expected = d.persisted
    /\ d.request.outcome = "written" => d.request.draft \in ever

Honest(d, ever) ==
    /\ d.status \in {"Clean", "Saved"} => Candidate(d) = d.saved.spec /\ Cells(d) = d.saved.rows
    /\ d.status = "Saved" => d.saved \in ever

SessionOK(d, ever) ==
    /\ d \in Sessions
    /\ Compiles(d.spec) /\ RowsValid(d.spec, d.rows) /\ Restores(d.saved)
    /\ d.persisted \in Snapshots => d.saved = d.persisted
    /\ d.persisted = Foreign => d.failed
    /\ d.persisted \in Snapshots => ~d.failed
    /\ d.request # None => RequestOK(d, ever)
    /\ Honest(d, ever)

(* What is stored is the last of what was ever written, if it was not      *)
(* overwritten from elsewhere: nothing follows that.                       *)
Chain ==
    /\ storage \in Snapshots \cup {Nothing, Foreign}
    /\ written \subseteq Snapshots
    /\ storage = Nothing => written = {}
    /\ storage \in Snapshots =>
          /\ Restores(storage)
          /\ \A a \in written :
                /\ a.revision <= storage.revision
                /\ a.revision = storage.revision => SameContent(a, storage)
    /\ RevisionNamesContent
    /\ \A item \in written : Restores(item)

IInv ==
    /\ Chain
    /\ win \in [Windows -> Sessions]
    /\ \A w \in Windows : SessionOK(win[w], written)

-----------------------------------------------------------------------------
(* Cells and pastes.                                                       *)

LEMMA RowsByDomain ==
    ASSUME NEW rows
    PROVE  rows \in Rows <=> DOMAIN rows \subseteq Ids /\ rows \in [DOMAIN rows -> Values]
BY DEF Rows

(* Nothing pending: the cells are the rows.                                *)
LEMMA OverlaidNone ==
    ASSUME NEW rows \in Rows
    PROVE  Overlaid(rows, NoBuffers) = rows
<1>1. DOMAIN rows \subseteq Ids /\ rows = [r \in DOMAIN rows |-> rows[r]]
  BY RowsByDomain
<1>2. \A r \in DOMAIN rows : Meaning(rows, NoBuffers, r) = rows[r]
  BY <1>1 DEF Meaning, NoBuffers
<1> QED BY <1>1, <1>2 DEF Overlaid

(* What candidate accepts has values only, and is valid.                   *)
LEMMA AcceptedCells ==
    ASSUME NEW rows \in Rows, NEW buffers \in [Ids -> Texts \cup {NoText}], NEW spec,
           Accepted(spec, rows, buffers)
    PROVE  /\ Compiles(spec)
           /\ Overlaid(rows, buffers) \in Rows
           /\ RowsValid(spec, Overlaid(rows, buffers))
<1> DEFINE cells == Overlaid(rows, buffers)
<1>1. Compiles(spec) /\ RowsValid(spec, cells)
  BY DEF Accepted, Applies
<1>2. DOMAIN cells = DOMAIN rows /\ DOMAIN rows \subseteq Ids
  BY RowsByDomain DEF Overlaid
<1>3. ASSUME NEW r \in DOMAIN rows PROVE cells[r] \in Values
  <2>1. cells[r] = Meaning(rows, buffers, r)
    BY DEF Overlaid
  <2>2. cells[r] # Blank /\ cells[r] # Unparsable
    BY <1>1, <1>2, <2>1 DEF RowsValid, Accepted
  <2>3. CASE buffers[r] = NoText
    BY <2>1, <2>3, RowsByDomain DEF Meaning
  <2>4. CASE buffers[r] # NoText
    <3>1. Parse[buffers[r]] \in Values \cup {Blank, Unparsable}
      BY <1>2, <2>4, BuilderAssumption
    <3> QED BY <2>1, <2>2, <2>4, <3>1 DEF Meaning
  <2> QED BY <2>3, <2>4
<1>4. cells \in [DOMAIN cells -> Values]
  BY <1>2, <1>3 DEF Overlaid
<1>5. cells \in Rows
  BY <1>2, <1>4, RowsByDomain
<1> QED BY <1>1, <1>5

LEMMA IdsFinite == IsFiniteSet(Ids)
BY FS_Interval, BuilderAssumption DEF Ids

(* The identities a paste takes are the next free ones, so none is beyond  *)
(* the limit that the number of rows is held to.                           *)
LEMMA PastedIds ==
    ASSUME NEW rows \in Rows, NEW paste \in Imports, NEW spec,
           RowsValid(spec, Pasted(rows, paste))
    PROVE  DOMAIN Pasted(rows, paste) \subseteq Ids
<1> DEFINE free == (1..MaxRows + Len(paste)) \ DOMAIN rows
           fresh == {n \in free : Cardinality({f \in free : f < n}) < Len(paste)}
           all == DOMAIN rows \cup fresh
<1>1. DOMAIN Pasted(rows, paste) = all
  BY DEF Pasted
<1>2. Cardinality(all) <= MaxRows
  BY <1>1 DEF RowsValid
<1>3. DOMAIN rows \subseteq Ids
  BY RowsByDomain
<1>4. MaxRows \in Nat /\ Len(paste) \in Nat
  BY BuilderAssumption
<1>5. IsFiniteSet(1..MaxRows + Len(paste))
  BY <1>4, FS_Interval
<1>6. IsFiniteSet(free)
  BY <1>5, FS_Subset
<1>7. IsFiniteSet(all)
  <2>1. IsFiniteSet(fresh)
    BY <1>6, FS_Subset
  <2>2. IsFiniteSet(DOMAIN rows)
    BY <1>3, IdsFinite, FS_Subset
  <2> QED BY <2>1, <2>2, FS_Union
<1>8. ASSUME NEW n \in fresh PROVE n \in Ids
  <2>1. n \in 1..MaxRows + Len(paste)
    OBVIOUS
  <2>2. ASSUME NEW m \in 1..n PROVE m \in all
    <3>1. CASE m \in DOMAIN rows
      BY <3>1
    <3>2. CASE m \notin DOMAIN rows
      <4>1. m \in free
        BY <1>4, <2>1, <3>2
      <4>2. {f \in free : f < m} \subseteq {f \in free : f < n}
        BY <1>4, <2>1
      <4>3. IsFiniteSet({f \in free : f < n})
        BY <1>6, FS_Subset
      <4>4. Cardinality({f \in free : f < m}) <= Cardinality({f \in free : f < n})
        BY <4>2, <4>3, FS_Subset
      <4>5. /\ Cardinality({f \in free : f < m}) \in Nat
            /\ Cardinality({f \in free : f < n}) \in Nat
        BY <4>2, <4>3, FS_Subset, FS_CardinalityType
      <4> QED BY <1>4, <4>1, <4>4, <4>5
    <3> QED BY <3>1, <3>2
  <2>3. Cardinality(1..n) <= Cardinality(all)
    BY <1>7, <2>2, FS_Subset
  <2>4. Cardinality(1..n) = n
    BY <1>4, <2>1, FS_Interval
  <2>5. Cardinality(all) \in Nat
    BY <1>7, FS_CardinalityType
  <2> QED BY <1>2, <1>4, <2>1, <2>3, <2>4, <2>5 DEF Ids
<1> QED BY <1>1, <1>3, <1>8

(* What an accepted paste leaves has values only, and is valid.            *)
LEMMA PastedCells ==
    ASSUME NEW rows \in Rows, NEW paste \in Imports, NEW spec,
           PasteAccepted(spec, rows, paste)
    PROVE  /\ Compiles(spec)
           /\ Pasted(rows, paste) \in Rows
           /\ RowsValid(spec, Pasted(rows, paste))
<1> DEFINE free == (1..MaxRows + Len(paste)) \ DOMAIN rows
           fresh == {n \in free : Cardinality({f \in free : f < n}) < Len(paste)}
           nth(n) == Cardinality({f \in fresh : f <= n})
           pasted == Pasted(rows, paste)
<1>1. Compiles(spec) /\ RowsValid(spec, pasted)
  BY DEF PasteAccepted, Applies
<1>2. DOMAIN pasted \subseteq Ids
  BY <1>1, PastedIds
<1>3. /\ DOMAIN pasted = DOMAIN rows \cup fresh
      /\ \A r \in fresh : pasted[r] = Parse[paste[nth(r)]]
      /\ \A r \in DOMAIN rows : r \notin fresh => pasted[r] = rows[r]
      /\ pasted = [r \in DOMAIN pasted |-> pasted[r]]
  BY DEF Pasted
<1>4. MaxRows \in Nat /\ Len(paste) \in Nat /\ DOMAIN paste = 1..Len(paste)
      /\ \A i \in DOMAIN paste : paste[i] \in Texts
  BY BuilderAssumption
<1>5. IsFiniteSet(free) /\ IsFiniteSet(fresh)
  <2>1. IsFiniteSet(1..MaxRows + Len(paste))
    BY <1>4, FS_Interval
  <2>2. IsFiniteSet(free)
    BY <2>1, FS_Subset
  <2> QED BY <2>2, FS_Subset
<1>6. ASSUME NEW n \in fresh PROVE nth(n) \in 1..Len(paste)
  <2> DEFINE below == {f \in free : f < n}
             upto == {f \in fresh : f <= n}
  <2>1. IsFiniteSet(below) /\ IsFiniteSet(upto)
    BY <1>5, FS_Subset
  <2>2. IsFiniteSet(below \cup {n}) /\ Cardinality(below \cup {n}) = Cardinality(below) + 1
    <3>1. n \notin below
      BY <1>4
    <3> HIDE DEF below
    <3> QED BY <2>1, <3>1, FS_AddElement
  <2>3. upto \subseteq below \cup {n}
    BY <1>4
  <2>4. Cardinality(upto) <= Cardinality(below \cup {n})
    BY <2>2, <2>3, FS_Subset
  <2>5. Cardinality(upto) # 0
    <3>1. n \in upto
      BY <1>4
    <3> QED BY <2>1, <3>1, FS_EmptySet
  <2>6. Cardinality(upto) \in Nat /\ Cardinality(below) \in Nat
    BY <2>1, FS_CardinalityType
  <2>7. Cardinality(below) < Len(paste)
    OBVIOUS
  <2> HIDE DEF below, upto
  <2>8. Cardinality(upto) \in 1..Len(paste)
    BY <1>4, <2>2, <2>4, <2>5, <2>6, <2>7
  <2> QED BY <2>8 DEF upto
<1> HIDE DEF fresh, nth, pasted
<1>7. ASSUME NEW r \in DOMAIN pasted PROVE pasted[r] \in Values
  <2>1. pasted[r] # Blank
    BY <1>1 DEF RowsValid
  <2>2. CASE r \in fresh
    <3>1. Parse[paste[nth(r)]] # Unparsable
      BY <1>4, <1>6, <2>2 DEF PasteAccepted
    <3>2. Parse[paste[nth(r)]] \in Values \cup {Blank, Unparsable}
      BY <1>4, <1>6, <2>2, BuilderAssumption
    <3> QED BY <1>3, <2>1, <2>2, <3>1, <3>2
  <2>3. CASE r \notin fresh
    BY <1>3, <2>3, RowsByDomain
  <2> QED BY <2>2, <2>3
<1>8. pasted \in Rows
  <2>1. pasted \in [DOMAIN pasted -> Values]
    BY <1>3, <1>7
  <2> QED BY <1>2, <2>1, RowsByDomain
<1> QED BY <1>1, <1>8 DEF pasted

-----------------------------------------------------------------------------
(* Steps of one window.                                                    *)

LEMMA OneWindow ==
    ASSUME IInv, NEW w \in Windows, NEW new, Becomes(w, new),
           SessionOK(new, written), UNCHANGED <<storage, written>>
    PROVE  IInv'
<1>1. win' = [win EXCEPT ![w] = new] /\ new \in Sessions
  BY DEF Becomes, SessionOK
<1>2. win' \in [Windows -> Sessions]
  BY <1>1 DEF IInv
<1>3. \A v \in Windows : SessionOK(win'[v], written)
  BY <1>1 DEF IInv
<1>4. Chain'
  BY DEF IInv, Chain, RevisionNamesContent, SameContent
<1>5. (\A v \in Windows : SessionOK(win[v], written))'
  BY <1>3 DEF SessionOK, RequestOK, Honest
<1> QED BY <1>2, <1>4, <1>5 DEF IInv

(* A session as it is loaded.                                              *)
LEMMA OpenedOK ==
    ASSUME Chain, NEW read \in BOOLEAN
    PROVE  SessionOK(Opened(read), written)
<1> DEFINE start == IF read /\ Restores(storage) THEN storage ELSE Sample
           new == Opened(read)
<1>1. storage \in Snapshots <=> Restores(storage)
  BY BuilderAssumption DEF Chain, Restores
<1>2. start \in Snapshots /\ Restores(start)
  BY <1>1, BuilderAssumption
<1>3. NoBuffers \in [Ids -> Texts \cup {NoText}]
  BY DEF NoBuffers
<1>4. start.spec \in Specs /\ start.spec.name \in Names /\ start.rows \in Rows
  BY <1>2 DEF Snapshots, Specs
<1>5. storage # Nothing /\ ~Restores(storage) <=> storage = Foreign
  BY <1>1, BuilderAssumption DEF Chain
<1>6. new \in Sessions
  BY <1>2, <1>3, <1>4 DEF Opened, Sessions, Statuses, Outcomes, Chain
<1>7. Candidate(new) = new.saved.spec /\ Cells(new) = new.saved.rows
  <2>1. [start.spec EXCEPT !.name = start.spec.name] = start.spec
    BY <1>4 DEF Specs
  <2> QED BY <1>4, <2>1, OverlaidNone DEF Opened, Candidate, Cells
<1>8. new.status \in {"Clean", "StorageError"}
  BY DEF Opened
<1>9. Compiles(new.spec) /\ RowsValid(new.spec, new.rows) /\ Restores(new.saved)
  BY <1>2 DEF Opened, Restores
<1>10. /\ new.request = None
       /\ new.persisted \in Snapshots => new.saved = new.persisted /\ ~new.failed
       /\ new.persisted = Foreign => new.failed
  <2>1. CASE read
    BY <1>1, <1>5, <2>1, BuilderAssumption DEF Opened
  <2>2. CASE ~read
    BY <2>2, BuilderAssumption DEF Opened
  <2> QED BY <2>1, <2>2
<1> HIDE DEF new
<1>11. SessionOK(new, written)
  BY <1>6, <1>7, <1>8, <1>9, <1>10 DEF SessionOK, Honest
<1> QED BY <1>11 DEF new

LEMMA InitIInv == Init => IInv
<1> SUFFICES ASSUME Init PROVE IInv
  OBVIOUS
<1>1. storage \in Snapshots \cup {Nothing, Foreign}
      /\ (storage \in Snapshots => Restores(storage))
  BY BuilderAssumption DEF Init
<1>2. written = {storage} \ {Nothing, Foreign}
  BY DEF Init
<1>3. \A a \in written : a = storage /\ a \in Snapshots /\ Restores(a) /\ a.revision \in Nat
  BY <1>1, <1>2 DEF Snapshots
<1>4. Chain
  BY <1>1, <1>2, <1>3 DEF Chain, RevisionNamesContent, SameContent, Snapshots
<1>5. win \in [Windows -> {Opened(read) : read \in BOOLEAN}]
  BY DEF Init
<1>6. \A w \in Windows : SessionOK(win[w], written)
  BY <1>4, <1>5, OpenedOK
<1>7. win \in [Windows -> Sessions]
  BY <1>5, <1>6 DEF SessionOK
<1> QED BY <1>4, <1>6, <1>7 DEF IInv

(* What a change of the draft leaves alone.                                *)
SameBase(d, new) ==
    /\ new.saved = d.saved /\ new.persisted = d.persisted /\ new.failed = d.failed
    /\ new.saving = d.saving /\ new.request = d.request

(* An edit, made while nothing is saved: the draft stays valid, and the    *)
(* window does not call it clean.                                          *)
LEMMA EditedOK ==
    ASSUME NEW d, NEW new, SessionOK(d, written), ~d.saving, SameBase(d, new),
           new \in Sessions, new.status \notin {"Clean", "Saved"},
           Compiles(new.spec), RowsValid(new.spec, new.rows)
    PROVE  SessionOK(new, written)
BY DEF SessionOK, RequestOK, Honest, SameBase

(* A step that only touches what no session's correctness depends on.      *)
LEMMA SameDraftOK ==
    ASSUME NEW d, NEW new, SessionOK(d, written), SameBase(d, new), new \in Sessions,
           new.spec = d.spec, new.rows = d.rows, new.name = d.name, new.buffers = d.buffers,
           new.status \in {d.status, "Dirty", "Invalid", "Expired", "StorageError"}
    PROVE  SessionOK(new, written)
<1>1. Candidate(new) = Candidate(d) /\ Cells(new) = Cells(d)
  BY DEF Candidate, Cells
<1> QED BY <1>1 DEF SessionOK, RequestOK, Honest, SameBase

LEMMA AuthorStep ==
    ASSUME IInv, NEW w \in Windows, Author(w)
    PROVE  IInv'
<1> DEFINE d == win[w]
<1>1. SessionOK(d, written) /\ d \in Sessions
  BY DEF IInv
<1> HIDE DEF d
<1>2. d = win[w] /\ Compiles(d.spec) /\ RowsValid(d.spec, d.rows)
  BY <1>1 DEF d, SessionOK
<1>3. CASE \E r \in Ids, text \in Texts : Type(w, r, text)
  <2> PICK r \in Ids, text \in Texts : Type(w, r, text)
    BY <1>3
  <2> DEFINE new == [d EXCEPT !.buffers[r] = text, !.status = "Dirty"]
  <2>1. Becomes(w, new) /\ ~d.saving /\ UNCHANGED <<storage, written>>
    BY <1>2 DEF Type, Edit, Enabled
  <2>2. new \in Sessions
    BY <1>1 DEF Sessions, Statuses
  <2>3. SameBase(d, new) /\ new.status = "Dirty" /\ new.spec = d.spec /\ new.rows = d.rows
    BY <1>1 DEF Sessions, SameBase
  <2> HIDE DEF new
  <2>4. SessionOK(new, written)
    BY <1>1, <1>2, <2>1, <2>2, <2>3, EditedOK
  <2> QED BY <2>1, <2>4, OneWindow
<1>4. CASE \E r \in Ids : Escape(w, r)
  <2> PICK r \in Ids : Escape(w, r)
    BY <1>4
  <2> DEFINE new == [d EXCEPT !.buffers[r] = NoText, !.status = "Dirty"]
  <2>1. Becomes(w, new) /\ ~d.saving /\ UNCHANGED <<storage, written>>
    BY <1>2 DEF Escape, Enabled
  <2>2. new \in Sessions
    BY <1>1 DEF Sessions, Statuses
  <2>3. SameBase(d, new) /\ new.status = "Dirty" /\ new.spec = d.spec /\ new.rows = d.rows
    BY <1>1 DEF Sessions, SameBase
  <2> HIDE DEF new
  <2>4. SessionOK(new, written)
    BY <1>1, <1>2, <2>1, <2>2, <2>3, EditedOK
  <2> QED BY <2>1, <2>4, OneWindow
<1>5. CASE Compose(w) \/ ComposeEnd(w)
  <2> PICK open \in BOOLEAN : Becomes(w, [d EXCEPT !.composing = open])
                              /\ UNCHANGED <<storage, written>>
    BY <1>2, <1>5 DEF Compose, ComposeEnd, Edit
  <2> DEFINE new == [d EXCEPT !.composing = open]
  <2>1. new \in Sessions
    BY <1>1 DEF Sessions
  <2>2. /\ SameBase(d, new) /\ new.spec = d.spec /\ new.rows = d.rows /\ new.name = d.name
        /\ new.buffers = d.buffers /\ new.status = d.status
    BY <1>1 DEF Sessions, SameBase
  <2> HIDE DEF new
  <2>3. SessionOK(new, written)
    BY <1>1, <2>1, <2>2, SameDraftOK
  <2> QED BY <2>3, OneWindow DEF new
<1>6. CASE \E name \in Names \cup {BadName} : Rename(w, name)
  <2> PICK name \in Names \cup {BadName} : Rename(w, name)
    BY <1>6
  <2> DEFINE new == [d EXCEPT !.name = name, !.status = "Dirty"]
  <2>1. Becomes(w, new) /\ ~d.saving /\ UNCHANGED <<storage, written>>
    BY <1>2 DEF Rename, Edit, Enabled
  <2>2. new \in Sessions
    BY <1>1 DEF Sessions, Statuses
  <2>3. SameBase(d, new) /\ new.status = "Dirty" /\ new.spec = d.spec /\ new.rows = d.rows
    BY <1>1 DEF Sessions, SameBase
  <2> HIDE DEF new
  <2>4. SessionOK(new, written)
    BY <1>1, <1>2, <2>1, <2>2, <2>3, EditedOK
  <2> QED BY <2>1, <2>4, OneWindow
<1>7. CASE AddField(w) \/ (\E ruled \in BOOLEAN : SetRule(w, ruled)) \/ AddPolicy(w) \/ EditPolicy(w)
  <2>1. PICK next : /\ Redefine(w, next) /\ next \in Specs
                    /\ Compiles(next) /\ RowsValid(next, d.rows)
    <3>1. d.spec \in Specs /\ MaxFields \in Nat
      BY <1>1, BuilderAssumption DEF Sessions
    <3>2. CASE AddField(w)
      <4> DEFINE next == [d.spec EXCEPT !.fields = @ + 1]
      <4>1. Redefine(w, next) /\ Compiles(next)
        BY <1>2, <3>2 DEF AddField
      <4>2. next \in Specs /\ next.ruled = d.spec.ruled
        BY <3>1, <4>1 DEF Specs, Compiles
      <4>3. RowsValid(next, d.rows)
        BY <1>2, <4>2 DEF RowsValid
      <4> QED BY <4>1, <4>2, <4>3
    <3>3. CASE \E ruled \in BOOLEAN : SetRule(w, ruled)
      <4> PICK ruled \in BOOLEAN : SetRule(w, ruled)
        BY <3>3
      <4> DEFINE next == [d.spec EXCEPT !.ruled = ruled]
      <4>1. Redefine(w, next) /\ Compiles(next) /\ RowsValid(next, d.rows)
        BY <1>2 DEF SetRule, SourceValid
      <4>2. next \in Specs
        BY <3>1 DEF Specs
      <4> QED BY <4>1, <4>2
    <3>4. CASE AddPolicy(w) \/ EditPolicy(w)
      <4> PICK revision \in Nat : /\ Redefine(w, [d.spec EXCEPT !.policy = revision])
                                   /\ Compiles([d.spec EXCEPT !.policy = revision])
        <5>1. CASE AddPolicy(w)
          BY <1>2, <5>1 DEF AddPolicy
        <5>2. CASE EditPolicy(w)
          <6>1. d.spec.policy + 1 \in Nat
            BY <3>1 DEF Specs
          <6>2. [d.spec EXCEPT !.policy = @ + 1] = [d.spec EXCEPT !.policy = d.spec.policy + 1]
            OBVIOUS
          <6> QED BY <1>2, <5>2, <6>1, <6>2 DEF EditPolicy
        <5> QED BY <3>4, <5>1, <5>2
      <4> DEFINE next == [d.spec EXCEPT !.policy = revision]
      <4>2. next \in Specs /\ next.ruled = d.spec.ruled
        BY <3>1 DEF Specs
      <4>3. RowsValid(next, d.rows)
        BY <1>2, <4>2 DEF RowsValid
      <4> QED BY <4>2, <4>3
    <3> QED BY <1>7, <3>2, <3>3, <3>4
  <2> DEFINE new == [d EXCEPT !.spec = next, !.status = "Dirty"]
  <2>2. Becomes(w, new) /\ ~d.saving /\ UNCHANGED <<storage, written>>
    BY <1>2, <2>1 DEF Redefine, Edit, Enabled
  <2>3. new \in Sessions
    BY <1>1, <2>1 DEF Sessions, Statuses
  <2>4. SameBase(d, new) /\ new.status = "Dirty" /\ new.spec = next /\ new.rows = d.rows
    BY <1>1 DEF Sessions, SameBase
  <2> HIDE DEF new
  <2>5. SessionOK(new, written)
    BY <1>1, <2>1, <2>2, <2>3, <2>4, EditedOK
  <2> QED BY <2>2, <2>5, OneWindow
<1>8. CASE \E paste \in Imports : Import(w, paste)
  <2> PICK paste \in Imports : Import(w, paste)
    BY <1>8
  <2>1. d.rows \in Rows
    BY <1>1 DEF Sessions
  <2>2. CASE PasteAccepted(d.spec, d.rows, paste)
    <3> DEFINE rows == Pasted(d.rows, paste)
               new == [d EXCEPT !.rows = rows, !.status = "Dirty"]
    <3>1. Becomes(w, new) /\ ~d.saving /\ UNCHANGED <<storage, written>>
      BY <1>2, <2>2 DEF Import, Edit, Enabled
    <3>2. rows \in Rows /\ RowsValid(d.spec, rows)
      BY <2>1, <2>2, PastedCells
    <3> HIDE DEF rows
    <3>3. new \in Sessions
      BY <1>1, <3>2 DEF Sessions, Statuses
    <3>4. SameBase(d, new) /\ new.status = "Dirty" /\ new.spec = d.spec /\ new.rows = rows
      BY <1>1 DEF Sessions, SameBase
    <3> HIDE DEF new
    <3>5. SessionOK(new, written)
      BY <1>1, <1>2, <3>1, <3>2, <3>3, <3>4, EditedOK
    <3> QED BY <3>1, <3>5, OneWindow
  <2>3. CASE ~PasteAccepted(d.spec, d.rows, paste)
    <3> DEFINE new == [d EXCEPT !.status = "Invalid"]
    <3>1. Becomes(w, new) /\ UNCHANGED <<storage, written>>
      BY <1>2, <2>3 DEF Import, Edit
    <3>2. new \in Sessions
      BY <1>1 DEF Sessions, Statuses
    <3>3. /\ SameBase(d, new) /\ new.spec = d.spec /\ new.rows = d.rows /\ new.name = d.name
          /\ new.buffers = d.buffers /\ new.status = "Invalid"
      BY <1>1 DEF Sessions, SameBase
    <3> HIDE DEF new
    <3>4. SessionOK(new, written)
      BY <1>1, <3>2, <3>3, SameDraftOK
    <3> QED BY <3>1, <3>4, OneWindow
  <2> QED BY <2>2, <2>3
<1>9. CASE TogglePause(w)
  <2> DEFINE new == [d EXCEPT !.paused = ~@, !.status = IF d.paused THEN "Dirty" ELSE "Expired"]
  <2>1. Becomes(w, new) /\ UNCHANGED <<storage, written>>
    BY <1>2, <1>9 DEF TogglePause, Edit
  <2>2. new \in Sessions
    BY <1>1 DEF Sessions, Statuses
  <2>3. /\ SameBase(d, new) /\ new.spec = d.spec /\ new.rows = d.rows /\ new.name = d.name
        /\ new.buffers = d.buffers /\ new.status \in {"Dirty", "Expired"}
    BY <1>1 DEF Sessions, SameBase
  <2> HIDE DEF new
  <2>4. SessionOK(new, written)
    BY <1>1, <2>2, <2>3, SameDraftOK
  <2> QED BY <2>1, <2>4, OneWindow
<1>10. CASE Cancel(w)
  <2> DEFINE new == [d EXCEPT !.spec = d.saved.spec, !.rows = d.saved.rows,
                              !.name = d.saved.spec.name, !.buffers = NoBuffers,
                              !.status = "Clean"]
  <2>1. Becomes(w, new) /\ ~d.saving /\ UNCHANGED <<storage, written>>
    BY <1>2, <1>10 DEF Cancel
  <2>2. Restores(d.saved) /\ d.saved \in Snapshots
    BY <1>1 DEF SessionOK, Sessions
  <2>3. d.saved.spec \in Specs /\ d.saved.rows \in Rows /\ d.saved.spec.name \in Names
    BY <2>2 DEF Snapshots, Specs
  <2>4. NoBuffers \in [Ids -> Texts \cup {NoText}]
    BY DEF NoBuffers
  <2>5. new \in Sessions
    BY <1>1, <2>3, <2>4 DEF Sessions, Statuses
  <2>6. /\ SameBase(d, new) /\ new.status = "Clean" /\ new.spec = d.saved.spec
        /\ new.rows = d.saved.rows /\ new.name = d.saved.spec.name /\ new.buffers = NoBuffers
    BY <1>1 DEF Sessions, SameBase
  <2> HIDE DEF new
  <2>7. Candidate(new) = new.saved.spec /\ Cells(new) = new.saved.rows
    <3>1. [d.saved.spec EXCEPT !.name = d.saved.spec.name] = d.saved.spec
      BY <2>3 DEF Specs
    <3> QED BY <2>3, <2>6, <3>1, OverlaidNone DEF Candidate, Cells, SameBase
  <2>8. SessionOK(new, written)
    BY <1>1, <2>1, <2>2, <2>5, <2>6, <2>7 DEF SessionOK, RequestOK, Honest, SameBase, Restores
  <2> QED BY <2>1, <2>8, OneWindow
<1>11. CASE Load(w)
  <2> PICK read \in BOOLEAN : Becomes(w, Opened(read)) /\ UNCHANGED <<storage, written>>
    BY <1>11 DEF Load
  <2> QED BY OpenedOK, OneWindow DEF IInv
<1> QED BY <1>3, <1>4, <1>5, <1>6, <1>7, <1>8, <1>9, <1>10, <1>11 DEF Author

(* Steps of the program that only change a session.                        *)
LEMMA CommitStep ==
    ASSUME IInv, NEW w \in Windows, Commit(w) \/ RenameCommit(w)
    PROVE  IInv'
<1> DEFINE d == win[w]
<1>1. SessionOK(d, written) /\ d \in Sessions
  BY DEF IInv
<1> HIDE DEF d
<1>2. d = win[w] /\ Compiles(d.spec) /\ RowsValid(d.spec, d.rows)
  BY <1>1 DEF d, SessionOK
<1>3. ~d.saving /\ UNCHANGED <<storage, written>>
  BY <1>2 DEF Commit, RenameCommit, Enabled
<1>4. CASE Becomes(w, [d EXCEPT !.status = "Invalid"])
  <2> DEFINE new == [d EXCEPT !.status = "Invalid"]
  <2>1. new \in Sessions
    BY <1>1 DEF Sessions, Statuses
  <2>2. /\ SameBase(d, new) /\ new.spec = d.spec /\ new.rows = d.rows /\ new.name = d.name
        /\ new.buffers = d.buffers /\ new.status = "Invalid"
    BY <1>1 DEF Sessions, SameBase
  <2> HIDE DEF new
  <2>3. SessionOK(new, written)
    BY <1>1, <2>1, <2>2, SameDraftOK
  <2> QED BY <1>3, <1>4, <2>3, OneWindow DEF new
<1>5. CASE /\ Accepted(d.spec, d.rows, d.buffers)
           /\ Becomes(w, [d EXCEPT !.rows = Overlaid(d.rows, d.buffers), !.buffers = NoBuffers,
                                   !.status = "Dirty"])
  <2> DEFINE rows == Overlaid(d.rows, d.buffers)
             new == [d EXCEPT !.rows = rows, !.buffers = NoBuffers, !.status = "Dirty"]
  <2>1. rows \in Rows /\ RowsValid(d.spec, rows)
    BY <1>1, <1>5, AcceptedCells DEF Sessions
  <2>2. NoBuffers \in [Ids -> Texts \cup {NoText}]
    BY DEF NoBuffers
  <2> HIDE DEF rows
  <2>3. new \in Sessions
    BY <1>1, <2>1, <2>2 DEF Sessions, Statuses
  <2>4. SameBase(d, new) /\ new.status = "Dirty" /\ new.spec = d.spec /\ new.rows = rows
    BY <1>1 DEF Sessions, SameBase
  <2> HIDE DEF new
  <2>5. SessionOK(new, written)
    BY <1>1, <1>2, <1>3, <2>1, <2>3, <2>4, EditedOK
  <2> QED BY <1>3, <1>5, <2>5, OneWindow DEF new, rows
<1>6. CASE /\ Compiles([d.spec EXCEPT !.name = d.name])
           /\ Becomes(w, [d EXCEPT !.spec = [d.spec EXCEPT !.name = d.name], !.status = "Dirty"])
  <2> DEFINE next == [d.spec EXCEPT !.name = d.name]
             new == [d EXCEPT !.spec = next, !.status = "Dirty"]
  <2>1. d.spec \in Specs
    BY <1>1 DEF Sessions
  <2>2. next \in Specs /\ next.ruled = d.spec.ruled
    BY <1>6, <2>1 DEF Specs, Compiles
  <2>3. RowsValid(next, d.rows)
    BY <1>2, <2>2 DEF RowsValid
  <2>4. Compiles(next)
    BY <1>6
  <2> HIDE DEF next
  <2>5. new \in Sessions
    BY <1>1, <2>2 DEF Sessions, Statuses
  <2>6. SameBase(d, new) /\ new.status = "Dirty" /\ new.spec = next /\ new.rows = d.rows
    BY <1>1 DEF Sessions, SameBase
  <2> HIDE DEF new
  <2>7. SessionOK(new, written)
    BY <1>1, <1>3, <2>3, <2>4, <2>5, <2>6, EditedOK
  <2> QED BY <1>3, <1>6, <2>7, OneWindow DEF new, next
<1>7. CASE Commit(w)
  BY <1>2, <1>4, <1>5, <1>7 DEF Commit
<1>8. CASE RenameCommit(w)
  BY <1>2, <1>4, <1>6, <1>8 DEF RenameCommit
<1> QED BY <1>7, <1>8

LEMMA SaveStep ==
    ASSUME IInv, NEW w \in Windows, Save(w)
    PROVE  IInv'
<1> DEFINE d == win[w]
<1>1. SessionOK(d, written) /\ d \in Sessions
  BY DEF IInv
<1> HIDE DEF d
<1>2. d = win[w] /\ Compiles(d.spec) /\ RowsValid(d.spec, d.rows)
  BY <1>1 DEF d, SessionOK
<1> DEFINE spec == [d.spec EXCEPT !.name = d.name]
           draft == [revision |-> d.saved.revision, spec |-> spec,
                     rows |-> Overlaid(d.rows, d.buffers)]
           revision == NextRevision(draft, d.saved)
           final == [draft EXCEPT !.revision = revision]
           request == [draft |-> final, expected |-> d.persisted, outcome |-> "waiting"]
           new == [d EXCEPT !.saving = TRUE, !.status = "Saving", !.request = request]
<1>3. ~d.failed /\ ~d.saving /\ UNCHANGED <<storage, written>>
  BY <1>2 DEF Save
<1>4. CASE \E status \in {"Invalid", "StorageError"} : Becomes(w, [d EXCEPT !.status = status])
  <2> PICK status \in {"Invalid", "StorageError"} : Becomes(w, [d EXCEPT !.status = status])
    BY <1>4
  <2> DEFINE told == [d EXCEPT !.status = status]
  <2>1. told \in Sessions
    BY <1>1 DEF Sessions, Statuses, Outcomes
  <2>2. /\ SameBase(d, told) /\ told.spec = d.spec /\ told.rows = d.rows /\ told.name = d.name
        /\ told.buffers = d.buffers /\ told.status = status
    BY <1>1 DEF Sessions, SameBase
  <2> HIDE DEF told
  <2>3. SessionOK(told, written)
    BY <1>1, <2>1, <2>2, SameDraftOK
  <2> QED BY <1>3, <2>3, OneWindow DEF told
<1>5. CASE Accepted(spec, d.rows, d.buffers) /\ Fits(final) /\ Becomes(w, new)
  <2>1. d.spec \in Specs /\ d.rows \in Rows /\ d.buffers \in [Ids -> Texts \cup {NoText}]
        /\ d.saved \in Snapshots /\ d.saved.revision \in Nat
    BY <1>1 DEF Sessions, Snapshots
  <2>2. Compiles(spec) /\ Overlaid(d.rows, d.buffers) \in Rows
        /\ RowsValid(spec, Overlaid(d.rows, d.buffers))
    <3> HIDE DEF spec
    <3> QED BY <1>5, <2>1, AcceptedCells
  <2>3. spec \in Specs
    BY <2>1, <2>2 DEF Specs, Compiles
  <2>4. revision \in Nat
    BY <2>1 DEF NextRevision
  <2>5. /\ final.spec = Candidate(d) /\ final.rows = Cells(d) /\ final.revision = revision
        /\ NextRevision(final, d.saved) = revision
    BY DEF Candidate, Cells, NextRevision, SameContent
  <2>6. final \in Snapshots
    <3>1. final = [revision |-> revision, spec |-> spec, rows |-> Overlaid(d.rows, d.buffers)]
      OBVIOUS
    <3> HIDE DEF revision, spec, final
    <3> QED BY <2>2, <2>3, <2>4, <3>1 DEF Snapshots
  <2>7. Restores(final)
    <3>1. final.spec = spec /\ final.rows = Overlaid(d.rows, d.buffers)
      OBVIOUS
    <3> HIDE DEF revision, spec, final
    <3> QED BY <1>5, <2>2, <2>6, <3>1, BuilderAssumption DEF Restores
  <2> HIDE DEF final, revision, spec
  <2>8. d.persisted \in Snapshots \cup {Nothing}
    BY <1>1, <1>3 DEF SessionOK, Sessions
  <2>9. new \in Sessions
    BY <1>1, <2>6, <2>8 DEF Sessions, Statuses, Outcomes
  <2>10. /\ new.saved = d.saved /\ new.persisted = d.persisted /\ new.failed = d.failed
         /\ new.spec = d.spec /\ new.rows = d.rows /\ new.name = d.name
         /\ new.buffers = d.buffers /\ new.saving /\ new.status = "Saving"
         /\ new.request.draft = final /\ new.request.expected = d.persisted
         /\ new.request.outcome = "waiting"
    BY <1>1 DEF Sessions
  <2> HIDE DEF new
  <2>11. Candidate(new) = Candidate(d) /\ Cells(new) = Cells(d)
    BY <2>10 DEF Candidate, Cells
  <2>12. RequestOK(new, written)
    BY <1>3, <2>5, <2>7, <2>10, <2>11 DEF RequestOK
  <2>13. SessionOK(new, written)
    BY <1>1, <2>9, <2>10, <2>12 DEF SessionOK, Honest
  <2> QED BY <1>3, <1>5, <2>13, OneWindow
<1> QED
  <2>1. Becomes(w, IF ~Accepted(spec, d.rows, d.buffers) THEN [d EXCEPT !.status = "Invalid"]
                   ELSE IF revision > MaxRevision \/ ~Fits(final)
                        THEN [d EXCEPT !.status = "StorageError"]
                   ELSE new)
    BY <1>2 DEF Save
  <2> HIDE DEF spec, revision, final, new
  <2> QED BY <1>4, <1>5, <2>1

(* What a request brings to its window when it is answered.                *)
LEMMA AnsweredOK ==
    ASSUME NEW d, SessionOK(d, written), d.request # None,
           NEW outcome \in Outcomes, NEW ever,
           written \subseteq ever, outcome = "written" => d.request.draft \in ever
    PROVE  SessionOK([d EXCEPT !.request.outcome = outcome], ever)
<1> DEFINE new == [d EXCEPT !.request.outcome = outcome]
<1>1. d \in Sessions /\ RequestOK(d, written)
  BY DEF SessionOK
<1>2. d.request \in [draft : Snapshots, expected : Snapshots \cup {Nothing}, outcome : Outcomes]
  BY <1>1 DEF Sessions
<1>3. new \in Sessions
  BY <1>1, <1>2 DEF Sessions
<1>4. /\ new.saved = d.saved /\ new.persisted = d.persisted /\ new.failed = d.failed
      /\ new.spec = d.spec /\ new.rows = d.rows /\ new.name = d.name
      /\ new.buffers = d.buffers /\ new.saving = d.saving /\ new.status = d.status
      /\ new.request.draft = d.request.draft /\ new.request.expected = d.request.expected
      /\ new.request.outcome = outcome
  BY <1>1, <1>2 DEF Sessions
<1> HIDE DEF new
<1>5. Candidate(new) = Candidate(d) /\ Cells(new) = Cells(d)
  BY <1>4 DEF Candidate, Cells
<1> QED BY <1>1, <1>3, <1>4, <1>5 DEF SessionOK, RequestOK, Honest, new

(* More may have been written than a session knows of.                     *)
LEMMA StillOK ==
    ASSUME NEW d, NEW ever, SessionOK(d, written), written \subseteq ever
    PROVE  SessionOK(d, ever)
BY DEF SessionOK, RequestOK, Honest

(* The draft that replaces what its window has seen is the next link.      *)
LEMMA WriteChain ==
    ASSUME IInv, NEW w \in Windows, Write(w)
    PROVE  Chain'
<1> DEFINE d == win[w]
           draft == d.request.draft
<1>1. SessionOK(d, written) /\ d \in Sessions /\ Chain /\ RequestOK(d, written)
  BY DEF IInv, Write, SessionOK
<1>2. /\ d.request # None /\ storage = d.request.expected
      /\ storage' = draft /\ written' = written \cup {draft}
  BY DEF Write, Unchanged
<1>3. /\ d.request \in [draft : Snapshots, expected : Snapshots \cup {Nothing}, outcome : Outcomes]
      /\ d.saved \in Snapshots
  BY <1>1, <1>2 DEF Sessions
<1> HIDE DEF d
<1>4. draft \in Snapshots /\ draft.revision \in Nat /\ d.saved.revision \in Nat
  BY <1>3 DEF Snapshots
<1>5. Restores(draft) /\ draft.revision = NextRevision(draft, d.saved)
      /\ storage = d.persisted /\ storage \in Snapshots \cup {Nothing}
  BY <1>1, <1>2, <1>3 DEF RequestOK
<1> HIDE DEF draft
<1>6. \A a \in written : /\ a.revision <= draft.revision
                         /\ a.revision = draft.revision => SameContent(a, draft)
  <2> SUFFICES ASSUME NEW a \in written
               PROVE  /\ a.revision <= draft.revision
                      /\ a.revision = draft.revision => SameContent(a, draft)
    OBVIOUS
  <2>1. storage \in Snapshots /\ d.saved = storage
    BY <1>1, <1>5 DEF Chain, SessionOK
  <2>2. /\ a.revision \in Nat /\ a.revision <= storage.revision
        /\ a.revision = storage.revision => SameContent(a, storage)
    BY <1>1, <2>1 DEF Chain, Snapshots
  <2>3. CASE SameContent(draft, storage)
    BY <1>4, <1>5, <2>1, <2>2, <2>3 DEF NextRevision, SameContent
  <2>4. CASE ~SameContent(draft, storage)
    BY <1>4, <1>5, <2>1, <2>2, <2>4 DEF NextRevision
  <2> QED BY <2>3, <2>4
<1>7. \A a \in written : a \in Snapshots /\ a.revision \in Nat /\ Restores(a)
  BY <1>1 DEF Chain, Snapshots
<1>8. SameContent(draft, draft)
  BY DEF SameContent
<1>9. RevisionNamesContent'
  <2> SUFFICES ASSUME NEW a \in written', NEW b \in written', a.revision = b.revision
               PROVE  SameContent(a, b)
    BY DEF RevisionNamesContent, SameContent
  <2>1. RevisionNamesContent
    BY <1>1 DEF Chain
  <2>2. CASE a \in written /\ b \in written
    BY <2>1, <2>2 DEF RevisionNamesContent
  <2>3. CASE a = draft \/ b = draft
    BY <1>2, <1>6, <1>8, <2>3 DEF SameContent
  <2> QED BY <1>2, <2>2, <2>3
<1>10. storage' \notin {Nothing, Foreign}
  BY <1>2, <1>4, BuilderAssumption
<1>11. /\ storage' \in Snapshots /\ written' \subseteq Snapshots /\ Restores(storage')
       /\ \A a \in written' :
             /\ a.revision <= storage'.revision /\ Restores(a)
             /\ a.revision = storage'.revision => SameContent(a, storage')
  BY <1>2, <1>4, <1>5, <1>6, <1>7, <1>8
<1> QED BY <1>9, <1>10, <1>11 DEF Chain, Restores, Compiles, RowsValid, SameContent

LEMMA WriteStep ==
    ASSUME IInv, NEW w \in Windows, Write(w)
    PROVE  IInv'
<1> DEFINE d == win[w]
           new == [d EXCEPT !.request.outcome = "written"]
<1>1. SessionOK(d, written) /\ d.request # None
  BY DEF IInv, Write
<1>2. win' = [win EXCEPT ![w] = new] /\ written' = written \cup {d.request.draft}
  BY DEF Write, Answered, Becomes
<1>3. SessionOK(new, written')
  <2>1. "written" \in Outcomes
    BY DEF Outcomes
  <2>2. written \subseteq written' /\ d.request.draft \in written'
    BY <1>2
  <2> HIDE DEF d
  <2> QED BY <1>1, <2>1, <2>2, AnsweredOK
<1> HIDE DEF new, d
<1>4. win' \in [Windows -> Sessions] /\ win \in [Windows -> Sessions]
  BY <1>2, <1>3 DEF IInv, SessionOK
<1>5. ASSUME NEW v \in Windows PROVE SessionOK(win'[v], written')
  <2>1. SessionOK(win[v], written) /\ written \subseteq written'
    BY <1>2 DEF IInv
  <2>2. SessionOK(win[v], written')
    BY <2>1, StillOK
  <2> QED BY <1>2, <1>3, <1>4, <2>2
<1>6. (\A v \in Windows : SessionOK(win[v], written))'
  BY <1>5 DEF SessionOK, RequestOK, Honest
<1> QED BY <1>4, <1>6, WriteChain DEF IInv

LEMMA WriteFailsStep ==
    ASSUME IInv, NEW w \in Windows, WriteFails(w)
    PROVE  IInv'
<1> DEFINE d == win[w]
<1>1. SessionOK(d, written) /\ d.request # None /\ UNCHANGED <<storage, written>>
  BY DEF IInv, WriteFails
<1>2. PICK outcome \in Outcomes \ {"written"} :
         Becomes(w, [d EXCEPT !.request.outcome = outcome])
  BY DEF WriteFails, Answered, Outcomes
<1> DEFINE new == [d EXCEPT !.request.outcome = outcome]
<1> HIDE DEF d
<1>3. SessionOK(new, written)
  BY <1>1, AnsweredOK
<1> HIDE DEF new
<1> QED BY <1>1, <1>2, <1>3, OneWindow DEF new

(* A receipt makes the draft it was asked for the saved one; whatever else *)
(* is answered leaves the draft for another try.                           *)
LEMMA ResumeStep ==
    ASSUME IInv, NEW w \in Windows, Resume(w)
    PROVE  IInv'
<1> DEFINE d == win[w]
           draft == d.request.draft
<1>1. /\ SessionOK(d, written) /\ d \in Sessions /\ d.request # None
      /\ d.request.outcome # "waiting" /\ UNCHANGED <<storage, written>>
      /\ Becomes(w, IF d.request.outcome = "written" THEN Stored(w) ELSE Refused(w))
  BY DEF IInv, Resume
<1>2. Stored(w) = [d EXCEPT !.persisted = draft, !.saved = draft,
                            !.spec = draft.spec, !.rows = draft.rows, !.buffers = NoBuffers,
                            !.status = "Saved", !.saving = FALSE, !.request = None]
  BY DEF Stored
<1>3. Refused(w) = [d EXCEPT !.status = d.request.outcome, !.request = None, !.saving = FALSE]
  BY DEF Refused
<1> HIDE DEF d
<1>4. RequestOK(d, written)
  BY <1>1 DEF SessionOK
<1>5. d.request \in [draft : Snapshots, expected : Snapshots \cup {Nothing}, outcome : Outcomes]
  BY <1>1 DEF Sessions
<1>6. CASE d.request.outcome = "written"
  <2> DEFINE new == [d EXCEPT !.persisted = draft, !.saved = draft,
                              !.spec = draft.spec, !.rows = draft.rows, !.buffers = NoBuffers,
                              !.status = "Saved", !.saving = FALSE, !.request = None]
  <2>1. /\ draft \in Snapshots /\ draft.spec \in Specs /\ draft.rows \in Rows
        /\ draft # Foreign
    BY <1>5, BuilderAssumption DEF Snapshots
  <2>2. Restores(draft) /\ draft.spec = Candidate(d) /\ draft \in written /\ ~d.failed
    BY <1>4, <1>6 DEF RequestOK
  <2>3. NoBuffers \in [Ids -> Texts \cup {NoText}]
    BY DEF NoBuffers
  <2>4. [draft.spec EXCEPT !.name = d.name] = draft.spec
    <3>1. d.spec \in Specs
      BY <1>1 DEF Sessions
    <3>2. draft.spec.name = d.name
      BY <2>2, <3>1 DEF Candidate, Specs
    <3> QED BY <2>1, <3>2 DEF Specs
  <2> HIDE DEF draft
  <2>5. new \in Sessions
    BY <1>1, <2>1, <2>3 DEF Sessions, Statuses
  <2>6. /\ new.persisted = draft /\ new.saved = draft /\ new.spec = draft.spec
        /\ new.rows = draft.rows /\ new.buffers = NoBuffers /\ new.name = d.name
        /\ new.status = "Saved" /\ new.request = None /\ new.failed = d.failed
    BY <1>1 DEF Sessions
  <2>7. Becomes(w, new)
    BY <1>1, <1>2, <1>6
  <2> HIDE DEF new
  <2>8. Candidate(new) = draft.spec /\ Cells(new) = draft.rows
    BY <2>1, <2>4, <2>6, OverlaidNone DEF Candidate, Cells
  <2>9. SessionOK(new, written)
    BY <2>1, <2>2, <2>5, <2>6, <2>8 DEF SessionOK, Honest, Restores
  <2> QED BY <1>1, <2>7, <2>9, OneWindow
<1>7. CASE d.request.outcome # "written"
  <2> DEFINE new == [d EXCEPT !.status = d.request.outcome, !.request = None, !.saving = FALSE]
  <2>1. new \in Sessions
    BY <1>1, <1>5 DEF Sessions, Statuses
  <2>2. /\ new.saved = d.saved /\ new.persisted = d.persisted /\ new.failed = d.failed
        /\ new.spec = d.spec /\ new.rows = d.rows /\ new.request = None
        /\ new.status \in Outcomes
    BY <1>1, <1>5 DEF Sessions
  <2>3. Becomes(w, new)
    BY <1>1, <1>3, <1>7
  <2> HIDE DEF new
  <2>4. SessionOK(new, written)
    BY <1>1, <2>1, <2>2 DEF SessionOK, Honest, Outcomes
  <2> QED BY <1>1, <2>3, <2>4, OneWindow
<1> QED BY <1>6, <1>7

LEMMA NextIInv == IInv /\ [Next]_vars => IInv'
<1> SUFFICES ASSUME IInv, [Next]_vars PROVE IInv'
  OBVIOUS
<1>1. CASE Overwrite
  <2>1. storage' = Foreign /\ win' = win /\ written' = written
    BY <1>1 DEF Overwrite
  <2>2. Chain'
    BY <2>1, BuilderAssumption DEF IInv, Chain, RevisionNamesContent, SameContent,
                                  Restores, Compiles, RowsValid
  <2> QED BY <2>1, <2>2 DEF IInv, SessionOK, RequestOK, Honest
<1>2. ASSUME NEW w \in Windows, Author(w) PROVE IInv'
  BY <1>2, AuthorStep
<1>3. ASSUME NEW w \in Windows, Program(w) PROVE IInv'
  BY <1>3, CommitStep, SaveStep, WriteStep, WriteFailsStep, ResumeStep DEF Program
<1>4. CASE UNCHANGED vars
  BY <1>4 DEF vars, IInv, Chain, RevisionNamesContent, SameContent, SessionOK, RequestOK, Honest
<1> QED BY <1>1, <1>2, <1>3, <1>4 DEF Next

-----------------------------------------------------------------------------
(* Theorems.                                                               *)

(* Every reachable state: what was stored is a chain of drafts, and every  *)
(* window holds a valid one, its request included (App and save of the     *)
(* Builder's lib.rs).                                                      *)
THEOREM DraftsStayInOrder == Spec => []IInv
<1> QED BY InitIInv, NextIInv, PTL DEF Spec

(* No two different drafts are ever stored under one revision, by however  *)
(* many windows (save, lib.rs:766, and writeLocalSnapshot).                *)
THEOREM RevisionsAreUnique == Spec => []RevisionNamesContent
<1>1. IInv => RevisionNamesContent
  BY DEF IInv, Chain
<1> QED BY <1>1, DraftsStayInOrder, PTL

(* Every draft stays valid, every saved one can be restored, whatever the  *)
(* edits, rules and pastes in between (candidate, prepare_import,          *)
(* validate_source, encode_saved, decode_saved).                           *)
THEOREM DraftsRestore == Spec => []Restorable
<1>1. IInv => Restorable
  BY DEF IInv, Chain, SessionOK, Sessions, Restorable
<1> QED BY <1>1, DraftsStayInOrder, PTL

(* A window that says clean or saved has nothing left to save (status).    *)
THEOREM StatusIsTrue == Spec => []StatusIsHonest
<1>1. IInv => StatusIsHonest
  <2> SUFFICES ASSUME IInv, NEW w \in Windows
               PROVE  /\ win[w].status \in {"Clean", "Saved"} =>
                            Entered(w) = [spec |-> win[w].saved.spec, cells |-> win[w].saved.rows]
                      /\ win[w].status = "Saved" => win[w].saved \in written
    BY DEF StatusIsHonest
  <2>1. Honest(win[w], written)
    BY DEF IInv, SessionOK
  <2>2. Entered(w) = [spec |-> Candidate(win[w]), cells |-> Cells(win[w])]
    BY DEF Entered, Candidate, Cells
  <2> QED BY <2>1, <2>2 DEF Honest
<1> QED BY <1>1, DraftsStayInOrder, PTL

(* What the program does by itself leaves alone what was entered.          *)
LEMMA ProgramKeepsInput ==
    ASSUME IInv, NEW w \in Windows, Program(w)
    PROVE  Entered(w)' = Entered(w)
<1> DEFINE d == win[w]
<1>1. /\ SessionOK(d, written) /\ d \in Sessions
      /\ win \in [Windows -> Sessions]
      /\ Entered(w) = [spec |-> Candidate(d), cells |-> Cells(d)]
  BY DEF IInv, Entered, Candidate, Cells
<1>2. ASSUME NEW new, Becomes(w, new), Candidate(new) = Candidate(d), Cells(new) = Cells(d)
      PROVE  Entered(w)' = Entered(w)
  <2>1. win'[w] = new
    BY <1>1, <1>2 DEF Becomes
  <2> QED BY <1>1, <1>2, <2>1 DEF Entered, Candidate, Cells
<1>3. ASSUME NEW new, Becomes(w, new), new.spec = d.spec, new.rows = d.rows,
             new.name = d.name, new.buffers = d.buffers
      PROVE  Entered(w)' = Entered(w)
  <2>1. Candidate(new) = Candidate(d) /\ Cells(new) = Cells(d)
    BY <1>3 DEF Candidate, Cells
  <2> QED BY <1>2, <1>3, <2>1
<1>4. ASSUME NEW status, Becomes(w, [d EXCEPT !.status = status])
      PROVE  Entered(w)' = Entered(w)
  <2>1. /\ [d EXCEPT !.status = status].spec = d.spec /\ [d EXCEPT !.status = status].rows = d.rows
        /\ [d EXCEPT !.status = status].name = d.name
        /\ [d EXCEPT !.status = status].buffers = d.buffers
    BY <1>1 DEF Sessions
  <2> QED BY <1>3, <1>4, <2>1
<1>5. CASE Commit(w)
  <2> DEFINE new == [d EXCEPT !.rows = Overlaid(d.rows, d.buffers), !.buffers = NoBuffers,
                              !.status = "Dirty"]
  <2>1. CASE Accepted(d.spec, d.rows, d.buffers)
    <3>1. Overlaid(d.rows, d.buffers) \in Rows
      BY <1>1, <2>1, AcceptedCells DEF Sessions
    <3>2. /\ new.spec = d.spec /\ new.name = d.name /\ new.buffers = NoBuffers
          /\ new.rows = Overlaid(d.rows, d.buffers)
      BY <1>1 DEF Sessions
    <3>3. Candidate(new) = Candidate(d) /\ Cells(new) = Cells(d)
      BY <3>1, <3>2, OverlaidNone DEF Candidate, Cells
    <3>4. Becomes(w, new)
      BY <1>5, <2>1 DEF Commit
    <3> QED BY <1>2, <3>3, <3>4
  <2>2. CASE ~Accepted(d.spec, d.rows, d.buffers)
    BY <1>4, <1>5, <2>2 DEF Commit
  <2> QED BY <2>1, <2>2
<1>6. CASE RenameCommit(w)
  <2> DEFINE next == [d.spec EXCEPT !.name = d.name]
             new == [d EXCEPT !.spec = next, !.status = "Dirty"]
  <2>1. CASE Compiles(next)
    <3>1. /\ new.spec = next /\ new.name = d.name /\ new.buffers = d.buffers
          /\ new.rows = d.rows
      BY <1>1 DEF Sessions
    <3>2. [next EXCEPT !.name = d.name] = next
      BY <1>1 DEF Sessions, Specs
    <3>3. Candidate(new) = Candidate(d) /\ Cells(new) = Cells(d)
      BY <3>1, <3>2 DEF Candidate, Cells
    <3>4. Becomes(w, new)
      BY <1>6, <2>1 DEF RenameCommit
    <3> QED BY <1>2, <3>3, <3>4
  <2>2. CASE ~Compiles(next)
    BY <1>4, <1>6, <2>2 DEF RenameCommit
  <2> QED BY <2>1, <2>2
<1>7. CASE Save(w)
  <2> PICK new : /\ Becomes(w, new)
                 /\ \/ \E status : new = [d EXCEPT !.status = status]
                    \/ \E request : new = [d EXCEPT !.saving = TRUE, !.status = "Saving",
                                                    !.request = request]
    BY <1>7 DEF Save
  <2>1. /\ new.spec = d.spec /\ new.rows = d.rows /\ new.name = d.name
        /\ new.buffers = d.buffers
    BY <1>1 DEF Sessions
  <2> QED BY <1>3, <2>1
<1>8. CASE Write(w) \/ WriteFails(w)
  <2> PICK outcome : Becomes(w, [d EXCEPT !.request.outcome = outcome])
    BY <1>8 DEF Write, WriteFails, Answered
  <2> DEFINE new == [d EXCEPT !.request.outcome = outcome]
  <2>1. /\ new.spec = d.spec /\ new.rows = d.rows /\ new.name = d.name
        /\ new.buffers = d.buffers
    BY <1>1 DEF Sessions
  <2> HIDE DEF new
  <2> QED BY <1>3, <2>1 DEF new
<1>9. CASE Resume(w)
  <2>1. RequestOK(d, written) /\ Becomes(w, IF d.request.outcome = "written" THEN Stored(w) ELSE Refused(w))
    BY <1>1, <1>9 DEF Resume, SessionOK
  <2>2. CASE d.request.outcome = "written"
    <3> DEFINE draft == d.request.draft
    <3>1. /\ Stored(w).spec = draft.spec /\ Stored(w).rows = draft.rows
          /\ Stored(w).name = d.name /\ Stored(w).buffers = NoBuffers
      BY <1>1 DEF Stored, Sessions
    <3>2. d.request \in [draft : Snapshots, expected : Snapshots \cup {Nothing}, outcome : Outcomes]
      BY <1>1, <1>9 DEF Sessions, Resume
    <3>3. draft.spec \in Specs /\ draft.rows \in Rows
      BY <3>2 DEF Snapshots
    <3>4. draft.spec = Candidate(d) /\ draft.rows = Cells(d)
      BY <2>1 DEF RequestOK
    <3>5. draft.spec.name = d.name
      BY <1>1, <3>4 DEF Candidate, Sessions, Specs
    <3>6. Candidate(Stored(w)) = Candidate(d)
      BY <3>1, <3>3, <3>4, <3>5 DEF Candidate, Specs
    <3>7. Cells(Stored(w)) = Cells(d)
      BY <3>1, <3>3, <3>4, OverlaidNone DEF Cells
    <3>8. Becomes(w, Stored(w))
      BY <2>1, <2>2
    <3> HIDE DEF d
    <3> QED BY <1>2, <3>6, <3>7, <3>8
  <2>3. CASE d.request.outcome # "written"
    <3>1. /\ Refused(w).spec = d.spec /\ Refused(w).rows = d.rows
          /\ Refused(w).name = d.name /\ Refused(w).buffers = d.buffers
      BY <1>1 DEF Refused, Sessions
    <3> QED BY <1>3, <2>1, <2>3, <3>1
  <2> QED BY <2>2, <2>3
<1> QED BY <1>5, <1>6, <1>7, <1>8, <1>9 DEF Program

(* Committing, saving, conflicts and late receipts leave what was entered  *)
(* as it is (save and the commits of FieldEditor).                         *)
THEOREM InputStays == Spec => InputKept
<1>1. IInv /\ [Next]_vars =>
        [\A w \in Windows : Entered(w)' = Entered(w) \/ ~Program(w)]_vars
  BY ProgramKeepsInput
<1> QED BY <1>1, DraftsStayInOrder, PTL DEF Spec, InputKept

(* No save replaces what its window has not seen (writeLocalSnapshot).     *)
THEOREM SavesReplaceWhatTheySaw == Spec => OverwritesOnlyWhatItSaw
<1>1. IInv /\ [Next]_vars =>
        [storage' \notin {storage, Foreign} =>
            \E w \in Windows : Write(w) /\ storage \in {Nothing, win[w].saved}]_vars
  <2> SUFFICES ASSUME IInv, Next, storage' \notin {storage, Foreign}
               PROVE  \E w \in Windows : Write(w) /\ storage \in {Nothing, win[w].saved}
    OBVIOUS
  <2>1. PICK w \in Windows : Write(w)
    BY DEF Next, Overwrite, Author, Program, Type, Escape, Compose, ComposeEnd, Rename, AddField,
           SetRule, AddPolicy, EditPolicy, Redefine, Import, TogglePause, Cancel, Load, Edit,
           Commit, RenameCommit, Save, WriteFails, Resume
  <2>2. SessionOK(win[w], written) /\ win[w].request # None /\ storage = win[w].request.expected
    BY <2>1 DEF IInv, Write, Unchanged
  <2>3. storage = win[w].persisted /\ storage \in Snapshots \cup {Nothing}
    BY <2>2 DEF SessionOK, RequestOK, Sessions
  <2> QED BY <2>1, <2>2, <2>3 DEF SessionOK
<1> QED BY <1>1, DraftsStayInOrder, PTL DEF Spec, OverwritesOnlyWhatItSaw
=============================================================================
