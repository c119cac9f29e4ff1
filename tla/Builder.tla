------------------------------ MODULE Builder ------------------------------
(***************************************************************************)
(* The windows of the local Builder.  Each edits a draft, a definition and *)
(* its rows, with input that is not yet committed to it; all of them save  *)
(* to one item of localStorage, which is compared and set under a Web Lock *)
(* while the window that asked is suspended.                               *)
(*                                                                         *)
(* A definition is its name, how many optional fields were added to it,    *)
(* whether the data rule is there, and the revision of its access policy,  *)
(* 0 for none.  A row is the one cell of it that is edited.  The selected  *)
(* table, the locale, the diagnostics and the forms beside the grid are    *)
(* left out.                                                               *)
(***************************************************************************)
EXTENDS Integers, FiniteSets, Sequences

CONSTANTS
    Windows,
    Names, BadName,       \* of the application: acceptable ones, and one that is not
    Values, Ruled,        \* of a cell: all of them, and those the data rule accepts
    Blank, Unparsable,
    Parse,                \* parse_cell, per text that may be typed
    NoText,               \* the cell has no pending input
    Sample,               \* the snapshot of the fixtures, which nobody saved
    Earlier,              \* snapshots that earlier windows may have left behind
    Imports,              \* the pastes that may be tried: a text per row
    MaxImport,            \* MAX_IMPORT_ROWS
    MaxRows, MaxBatch,    \* MAX_RECORDS, MAX_BATCH
    MaxFields,            \* MAX_FIELDS
    Fits(_),              \* a snapshot, encoded, is of at most MAX_BYTES
    MaxRevision,          \* of drafts and policies: u64::MAX
    Nothing, Foreign,     \* an item that is absent, or that this Builder cannot read
    MaxEdits,             \* bound: how often a user edits, pauses or composes
    None

VARIABLES
    storage,    \* the item under STORAGE_KEY
    win,        \* per window, its signals
    edits,
    written     \* history: the snapshots ever written

vars == <<storage, win, edits, written>>

Texts == DOMAIN Parse
Ids == 0..MaxRows

(* The snapshots that can be restored have one of these shapes.            *)
Specs == [name : Names, fields : 0..MaxFields, ruled : BOOLEAN, policy : Nat]
Rows == UNION {[S -> Values] : S \in SUBSET Ids}
Snapshots == [revision : Nat, spec : Specs, rows : Rows]

(* CheckedAppSpec::compile, for what can be changed here.                  *)
Compiles(spec) == spec.name \in Names /\ spec.fields <= MaxFields

(* validate_records: every cell is required, and obeys the rule.           *)
RowsValid(spec, rows) ==
    /\ Cardinality(DOMAIN rows) <= MaxRows
    /\ \A r \in DOMAIN rows : rows[r] # Blank /\ (spec.ruled => rows[r] \in Ruled)

(* decode_saved reads it.                                                  *)
Restores(item) ==
    /\ item \notin {Nothing, Foreign} /\ Fits(item)
    /\ Compiles(item.spec) /\ RowsValid(item.spec, item.rows)

SameContent(a, b) == a.spec = b.spec /\ a.rows = b.rows

ASSUME BuilderAssumption ==
    /\ Names # {} /\ BadName \notin Names
    /\ Ruled \subseteq Values
    /\ Parse \in [Texts -> Values \cup {Blank, Unparsable}]
    /\ NoText \notin Texts /\ {Blank, Unparsable} \cap Values = {}
    /\ Imports \subseteq Seq(Texts)
    /\ MaxRows \in Nat \ {0} /\ MaxBatch \in Nat /\ MaxFields \in Nat /\ MaxRevision \in Nat
    /\ Nothing # Foreign /\ {Nothing, Foreign} \cap Snapshots = {}
    /\ Sample.revision = 0
    /\ \A item \in Earlier \cup {Sample} :
          item \in Snapshots /\ Restores(item) /\ item.revision <= MaxRevision

NoBuffers == [r \in Ids |-> NoText]

(* A window begins with what is stored, if the browser lets it read that.  *)
(* What it cannot read it neither shows nor, from then on, overwrites.     *)
Opened(read) ==
    LET failed == ~read \/ (storage # Nothing /\ ~Restores(storage))
        start == IF read /\ Restores(storage) THEN storage ELSE Sample
    IN  [saved |-> start, persisted |-> IF read THEN storage ELSE Nothing, failed |-> failed,
         spec |-> start.spec, rows |-> start.rows, name |-> start.spec.name,
         buffers |-> NoBuffers, status |-> IF failed THEN "StorageError" ELSE "Clean",
         paused |-> FALSE, composing |-> FALSE, saving |-> FALSE, request |-> None]

Becomes(w, new) == win' = [win EXCEPT ![w] = new]

Init ==
    /\ storage \in {Nothing, Foreign} \cup Earlier
    /\ win \in [Windows -> {Opened(read) : read \in BOOLEAN}]
    /\ edits = 0
    /\ written = {storage} \ {Nothing, Foreign}

-----------------------------------------------------------------------------
(* Editing.                                                                *)

(* Mutant: the inputs stay open while a save is under way.                 *)
Enabled_WhileSaving(w) == ~win[w].paused

(* What is disabled while a save is under way or the session is paused.    *)
Enabled(w) == ~win[w].saving /\ ~win[w].paused

Edit(w, new) ==
    /\ edits < MaxEdits /\ edits' = edits + 1
    /\ Becomes(w, new)
    /\ UNCHANGED <<storage, written>>

Type(w, r, text) ==
    /\ Enabled(w) /\ r \in DOMAIN win[w].rows
    /\ Edit(w, [win[w] EXCEPT !.buffers[r] = text, !.status = "Dirty"])

(* An input method opens and closes around the text it composes.           *)
Compose(w) ==
    /\ Enabled(w) /\ ~win[w].composing
    /\ Edit(w, [win[w] EXCEPT !.composing = TRUE])

ComposeEnd(w) ==
    /\ win[w].composing
    /\ Becomes(w, [win[w] EXCEPT !.composing = FALSE])
    /\ UNCHANGED <<storage, edits, written>>

Escape(w, r) ==
    /\ Enabled(w) /\ ~win[w].composing /\ r \in DOMAIN win[w].rows
    /\ Becomes(w, [win[w] EXCEPT !.buffers[r] = NoText, !.status = "Dirty"])
    /\ UNCHANGED <<storage, edits, written>>

(* What a cell stands for: the pending text, or else the row's value.      *)
Meaning(rows, buffers, r) == IF buffers[r] = NoText THEN rows[r] ELSE Parse[buffers[r]]

Overlaid(rows, buffers) == [r \in DOMAIN rows |-> Meaning(rows, buffers, r)]

(* apply_draft_changes: what differs becomes one batch on the old rows.    *)
(* The captured columns are read-only in the grid, so no batch of it is    *)
(* refused on their account.                                               *)
Applies(spec, before, next) ==
    /\ RowsValid(spec, before)
    /\ Cardinality({r \in DOMAIN next : r \notin DOMAIN before \/ next[r] # before[r]}) <= MaxBatch
    /\ RowsValid(spec, next)

(* candidate: all pending input parses and the whole dataset is valid.     *)
Accepted(spec, rows, buffers) ==
    /\ Compiles(spec)
    /\ \A r \in DOMAIN rows : Meaning(rows, buffers, r) # Unparsable
    /\ Applies(spec, rows, Overlaid(rows, buffers))

(* Enter, Tab or leaving the cell.                                         *)
Commit(w) ==
    LET d == win[w] IN
    /\ Enabled(w) /\ ~d.composing /\ d.buffers # NoBuffers
    /\ Becomes(w,
          IF Accepted(d.spec, d.rows, d.buffers)
          THEN [d EXCEPT !.rows = Overlaid(d.rows, d.buffers), !.buffers = NoBuffers,
                         !.status = "Dirty"]
          ELSE [d EXCEPT !.status = "Invalid"])
    /\ UNCHANGED <<storage, edits, written>>

Rename(w, name) ==
    /\ Enabled(w)
    /\ Edit(w, [win[w] EXCEPT !.name = name, !.status = "Dirty"])

(* A name that does not compile stays in its input.                        *)
RenameCommit(w) ==
    LET d == win[w]
        next == [d.spec EXCEPT !.name = d.name]
    IN  /\ Enabled(w) /\ d.name # d.spec.name
        /\ Becomes(w, IF Compiles(next) THEN [d EXCEPT !.spec = next, !.status = "Dirty"]
                                        ELSE [d EXCEPT !.status = "Invalid"])
        /\ UNCHANGED <<storage, edits, written>>

(* The inspectors change the definition if what they make of it is good.   *)
Redefine(w, next) ==
    /\ Enabled(w)
    /\ Edit(w, [win[w] EXCEPT !.spec = next, !.status = "Dirty"])

AddField(w) ==
    LET next == [win[w].spec EXCEPT !.fields = @ + 1]
    IN  Compiles(next) /\ Redefine(w, next)

(* Mutant: the rows that are there are not checked against the new rule.   *)
SourceValid_DefinitionOnly(spec, rows) == Compiles(spec)

(* validate_source: a rule may only come if all rows obey it already.      *)
SourceValid(spec, rows) == Compiles(spec) /\ RowsValid(spec, rows)

SetRule(w, ruled) ==
    LET next == [win[w].spec EXCEPT !.ruled = ruled]
    IN  next # win[w].spec /\ SourceValid(next, win[w].rows) /\ Redefine(w, next)

AddPolicy(w) ==
    LET next == [win[w].spec EXCEPT !.policy = 1]
    IN  win[w].spec.policy = 0 /\ Compiles(next) /\ Redefine(w, next)

(* A policy whose revision cannot grow is left as it is.                   *)
EditPolicy(w) ==
    LET next == [win[w].spec EXCEPT !.policy = @ + 1]
    IN  win[w].spec.policy \in 1..MaxRevision - 1 /\ Compiles(next) /\ Redefine(w, next)

(* Rows are added under the lowest identities that are free.               *)
Pasted(rows, paste) ==
    LET free == (1..MaxRows + Len(paste)) \ DOMAIN rows
        fresh == {n \in free : Cardinality({f \in free : f < n}) < Len(paste)}
        nth(n) == Cardinality({f \in fresh : f <= n})
    IN  [r \in DOMAIN rows \cup fresh |->
            IF r \in fresh THEN Parse[paste[nth(r)]] ELSE rows[r]]

(* prepare_import: every cell of it parses, and the result is valid.       *)
PasteAccepted(spec, rows, paste) ==
    /\ Len(paste) \in 1..MaxImport
    /\ Compiles(spec)
    /\ \A i \in DOMAIN paste : Parse[paste[i]] # Unparsable
    /\ Applies(spec, rows, Pasted(rows, paste))

Import(w, paste) ==
    LET d == win[w] IN
    /\ Enabled(w)
    /\ Edit(w, IF PasteAccepted(d.spec, d.rows, paste)
               THEN [d EXCEPT !.rows = Pasted(d.rows, paste), !.status = "Dirty"]
               ELSE [d EXCEPT !.status = "Invalid"])

(* The simulated end of the session, and its resumption.                   *)
TogglePause(w) ==
    /\ ~win[w].saving
    /\ Edit(w, [win[w] EXCEPT !.paused = ~@,
                         !.status = IF win[w].paused THEN "Dirty" ELSE "Expired"])

(* Mutant: the name that was typed stays in its input.                     *)
Cancel_KeepsName(w) ==
    LET d == win[w] IN
    /\ ~d.saving
    /\ Becomes(w, [d EXCEPT !.spec = d.saved.spec, !.rows = d.saved.rows,
                            !.buffers = NoBuffers, !.status = "Clean"])
    /\ UNCHANGED <<storage, edits, written>>

(* Cancel is there even while the session is paused.                       *)
Cancel(w) ==
    LET d == win[w] IN
    /\ ~d.saving
    /\ Becomes(w, [d EXCEPT !.spec = d.saved.spec, !.rows = d.saved.rows,
                            !.name = d.saved.spec.name, !.buffers = NoBuffers,
                            !.status = "Clean"])
    /\ UNCHANGED <<storage, edits, written>>

-----------------------------------------------------------------------------
(* Saving.                                                                 *)

(* Mutant: a changed draft keeps its revision.                             *)
NextRevision_Same(draft, saved) == saved.revision

NextRevision(draft, saved) ==
    IF SameContent(draft, saved) THEN saved.revision ELSE saved.revision + 1

(* The click: the draft as entered is checked, encoded and handed to the   *)
(* lock together with the bytes it is to replace.                          *)
Save(w) ==
    LET d == win[w]
        spec == [d.spec EXCEPT !.name = d.name]
        draft == [revision |-> d.saved.revision, spec |-> spec,
                  rows |-> Overlaid(d.rows, d.buffers)]
        revision == NextRevision(draft, d.saved)
        next == [draft EXCEPT !.revision = revision]
    IN  /\ ~d.failed /\ ~d.paused /\ ~d.composing /\ ~d.saving
        /\ Becomes(w,
              IF ~Accepted(spec, d.rows, d.buffers) THEN [d EXCEPT !.status = "Invalid"]
              ELSE IF revision > MaxRevision \/ ~Fits(next)
                   THEN [d EXCEPT !.status = "StorageError"]
              ELSE [d EXCEPT !.saving = TRUE, !.status = "Saving",
                             !.request = [draft |-> next, expected |-> d.persisted,
                                          outcome |-> "waiting"]])
        /\ UNCHANGED <<storage, edits, written>>

Answered(w, outcome) == Becomes(w, [win[w] EXCEPT !.request.outcome = outcome])

(* Mutant: the item is not compared.                                       *)
Unchanged_Unasked(request) == TRUE

(* The item is, byte for byte, what this window last read or wrote.        *)
Unchanged(request) == storage = request.expected

(* writeLocalSnapshot, which runs under the lock without a break.          *)
Write(w) ==
    LET request == win[w].request IN
    /\ request # None /\ request.outcome = "waiting"
    /\ Unchanged(request)
    /\ storage' = request.draft /\ written' = written \cup {request.draft}
    /\ Answered(w, "written")
    /\ UNCHANGED edits

(* Another item than expected, no navigator.locks, or no room for it.      *)
WriteFails(w) ==
    LET request == win[w].request IN
    /\ request # None /\ request.outcome = "waiting"
    /\ \/ ~Unchanged(request) /\ Answered(w, "Conflict")
       \/ Unchanged(request) /\ Answered(w, "StorageError")
       \/ Answered(w, "Unsupported")
    /\ UNCHANGED <<storage, edits, written>>

(* What the receipt says is what the window shows from now on.             *)
Stored(w) ==
    LET d == win[w]
        receipt == d.request.draft
    IN  [d EXCEPT !.persisted = receipt, !.saved = receipt,
                  !.spec = receipt.spec, !.rows = receipt.rows, !.buffers = NoBuffers,
                  !.status = "Saved", !.saving = FALSE, !.request = None]

(* Mutant: a conflict leaves the window waiting.                           *)
Refused_Waits(w) ==
    [win[w] EXCEPT !.status = win[w].request.outcome, !.request = None,
                   !.saving = win[w].request.outcome = "Conflict"]

Refused(w) ==
    [win[w] EXCEPT !.status = win[w].request.outcome, !.request = None, !.saving = FALSE]

Resume(w) ==
    /\ win[w].request # None /\ win[w].request.outcome # "waiting"
    /\ Becomes(w, IF win[w].request.outcome = "written" THEN Stored(w) ELSE Refused(w))
    /\ UNCHANGED <<storage, edits, written>>

-----------------------------------------------------------------------------
(* A window is loaded anew; what it waited for goes with it.               *)
Load(w) ==
    /\ \E read \in BOOLEAN : Becomes(w, Opened(read))
    /\ UNCHANGED <<storage, edits, written>>

(* Another program, or another version of this one, writes to the item.    *)
Overwrite ==
    /\ storage # Foreign /\ edits < MaxEdits /\ edits' = edits + 1
    /\ storage' = Foreign
    /\ UNCHANGED <<win, written>>

Author(w) ==
    \/ \E r \in Ids, text \in Texts : Type(w, r, text)
    \/ \E r \in Ids : Escape(w, r)
    \/ Compose(w) \/ ComposeEnd(w)
    \/ \E name \in Names \cup {BadName} : Rename(w, name)
    \/ AddField(w) \/ (\E ruled \in BOOLEAN : SetRule(w, ruled)) \/ AddPolicy(w) \/ EditPolicy(w)
    \/ \E paste \in Imports : Import(w, paste)
    \/ TogglePause(w) \/ Cancel(w) \/ Load(w)

Program(w) == Commit(w) \/ RenameCommit(w) \/ Save(w) \/ Write(w) \/ WriteFails(w) \/ Resume(w)

Next == Overwrite \/ \E w \in Windows : Author(w) \/ Program(w)

Spec == Init /\ [][Next]_vars

(* The browser grants the lock, which nobody keeps, and resumes the task.  *)
FairSpec ==
    Spec /\ \A w \in Windows : WF_vars(Write(w) \/ WriteFails(w)) /\ WF_vars(Resume(w))

-----------------------------------------------------------------------------
(* Properties.                                                             *)

(* Nothing but what the writing window last saw is ever overwritten:       *)
(* neither another window's save, whose author would lose it, nor what     *)
(* could not be read ("Failed restoration cannot overwrite the unreadable  *)
(* source", lib.rs:683).                                                   *)
OverwritesOnlyWhatItSaw ==
    [][storage' \notin {storage, Foreign} =>
          \E w \in Windows : Write(w) /\ storage \in {Nothing, win[w].saved}]_vars

(* The revision on the toolbar names one content: over all the saves of    *)
(* all windows, no two different drafts were stored under the same one.    *)
RevisionNamesContent ==
    \A a, b \in written : a.revision = b.revision => SameContent(a, b)

(* Whatever the order in which fields, rules, policies, cells and pastes   *)
(* change it, a draft stays valid, and what was saved is small and valid   *)
(* enough to be restored: a window that has read it does not fail.         *)
Restorable ==
    /\ \A item \in written : Restores(item)
    /\ \A w \in Windows :
          /\ Compiles(win[w].spec) /\ RowsValid(win[w].spec, win[w].rows)
          /\ win[w].failed => win[w].persisted \in {Nothing, Foreign}

(* What the author has entered in a window.                                *)
Entered(w) ==
    [spec |-> [win[w].spec EXCEPT !.name = win[w].name],
     cells |-> Overlaid(win[w].rows, win[w].buffers)]

(* What was entered stays entered until its author changes it: committing, *)
(* saving, conflicts and receipts that arrive late leave it as it is.      *)
InputKept == [][\A w \in Windows : Entered(w)' = Entered(w) \/ ~Program(w)]_vars

(* A window that calls its draft clean or saved has nothing left to save,  *)
(* and what it calls saved was stored.                                     *)
StatusIsHonest ==
    \A w \in Windows :
        /\ win[w].status \in {"Clean", "Saved"} =>
              Entered(w) = [spec |-> win[w].saved.spec, cells |-> win[w].saved.rows]
        /\ win[w].status = "Saved" => win[w].saved \in written

(* A save that was begun ends, and the window can be used again.           *)
SavesEnd == \A w \in Windows : win[w].saving ~> ~win[w].saving
=============================================================================
