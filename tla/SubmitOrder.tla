---------------------------- MODULE SubmitOrder ----------------------------
(***************************************************************************)
(* The owner and role policy on orders, the command that submits one, and  *)
(* the book of its receipts, as the Builder's inspector drives them on a   *)
(* copy of the draft: the sandbox.                                         *)
(*                                                                         *)
(* The inspector names one order and patches all its lines with the        *)
(* quantity that was typed.  Here any order may be named, and requests the *)
(* inspector does not make (OtherRequests) may come as well: the decision  *)
(* is a library function and answers them too.  Of the definition there is *)
(* the policy, None until its source is added, and a data rule on the      *)
(* quantity.  The session is the simulated one: it never expires.          *)
(***************************************************************************)
EXTENDS Integers, FiniteSets, Sequences

CONSTANTS
    Actors,
    Auditor, Operator, NoRole,  \* the simulated current role
    Orders, Lines,              \* ids
    Drafts,                     \* the facts a reset may find in the draft
    Keys, BadKey,               \* idempotency keys, and a text that is none
    Notes, Trim,                \* texts, and what is left of each when trimmed
    Bounded,                    \* the texts of at most 1000 bytes
    Kept,                       \* a field that a request does not change
    Quantities, Ruled,          \* those of 1..10000, and those the data rule accepts
    Typed, Unparsable,          \* quantities as typed: integers, or no integer
    MaxPatches,                 \* 256
    OtherRequests,
    MaxRevision,                \* of the policy: u64::MAX
    None

VARIABLES
    definition, \* the draft's: [policy, ruled]
    session,    \* the simulated actor, role, grants and membership
    sandbox,    \* [orders, lines]
    revision,   \* of the sandbox
    receipts,   \* per actor and key: the intent and its receipt
    notice,
    copied,     \* history: the facts the sandbox was copied from
    sent        \* history: the intents that were submitted, per actor and key

vars == <<definition, session, sandbox, revision, receipts, notice, copied, sent>>

Grants == {"Read", "Submit"}
EmptyBook == [e \in {} |-> None]

OrderRows == [owner : Actors, state : {"draft", "submitted"}, notes : Notes \cup {None}]
LineRows == [order : Orders, quantity : Int, price : Int]

Resolve(facts) == \A l \in DOMAIN facts.lines : facts.lines[l].order \in DOMAIN facts.orders

ASSUME SubmitAssumption ==
    /\ BadKey \notin Keys
    /\ Bounded \subseteq Notes /\ Trim \in [Notes -> Notes]
    /\ Kept \notin Notes /\ Kept \notin Quantities
    /\ Ruled \subseteq Quantities /\ Quantities \subseteq Int
    /\ Unparsable \in Typed
    /\ MaxPatches \in Nat /\ MaxRevision \in Nat \ {0}
    /\ \A facts \in Drafts :
          /\ DOMAIN facts.orders \subseteq Orders /\ DOMAIN facts.lines \subseteq Lines
          /\ facts = [orders |-> facts.orders, lines |-> facts.lines]
          /\ facts.orders \in [DOMAIN facts.orders -> OrderRows]
          /\ facts.lines \in [DOMAIN facts.lines -> LineRows]
          /\ Resolve(facts)

(* validate_records, for what may be wrong here.                           *)
Valid(facts) ==
    /\ Resolve(facts)
    /\ definition.ruled => \A l \in DOMAIN facts.lines : facts.lines[l].quantity \in Ruled

LinesOf(facts, o) == {l \in DOMAIN facts.lines : facts.lines[l].order = o}

Init ==
    /\ definition = [policy |-> None, ruled |-> FALSE]
    /\ \E a \in Actors :
          session = [actor |-> a, role |-> NoRole, grants |-> Grants, active |-> TRUE]
    /\ sandbox \in Drafts /\ copied = sandbox
    /\ revision = 1
    /\ receipts = EmptyBook /\ sent = EmptyBook
    /\ notice = "Ready"

-----------------------------------------------------------------------------
(* The policy.                                                             *)

RolesFor(grant) ==
    IF grant = "Read" THEN definition.policy.read ELSE definition.policy.submit

(* The owner, or a role the policy allows.                                 *)
Allows(order, grant) == order.owner = session.actor \/ session.role \in RolesFor(grant)

(* HostAuthority::resolve on the simulated facts.                          *)
ResolveError(grant) ==
    IF ~session.active THEN "Revoked"
    ELSE IF grant \notin session.grants THEN "MissingGrant"
    ELSE "none"

(* The rows that may be read, and of each the fields that may.             *)
Project(facts) ==
    IF ResolveError("Read") # "none" THEN ResolveError("Read")
    ELSE [o \in {o \in DOMAIN facts.orders : Allows(facts.orders[o], "Read")} |->
            [state |-> facts.orders[o].state, notes |-> facts.orders[o].notes]]

Lookup(facts, o) ==
    IF ResolveError("Read") # "none" THEN ResolveError("Read")
    ELSE IF o \in DOMAIN Project(facts) THEN Project(facts)[o] ELSE None

VisibleCount(facts) ==
    IF ResolveError("Read") # "none" THEN ResolveError("Read")
    ELSE Cardinality(DOMAIN Project(facts))

-----------------------------------------------------------------------------
(* The decision.                                                           *)

PatchError(patch) ==
    IF Cardinality(DOMAIN patch.changes) > 1 THEN "InvalidInput"
    ELSE IF DOMAIN patch.changes \ {"quantity"} # {} THEN "ImmutableField"
    ELSE IF \E f \in DOMAIN patch.changes : patch.changes[f] \notin Quantities
         THEN "InvalidQuantity"
    ELSE "none"

(* The patches are read in their order: the first bad one names the error. *)
PatchesError(patches) ==
    LET bad == {i \in DOMAIN patches : PatchError(patches[i]) # "none"}
    IN  IF bad # {} THEN PatchError(patches[CHOOSE i \in bad : \A j \in bad : i <= j])
        ELSE IF \E i, j \in DOMAIN patches : i # j /\ patches[i].line = patches[j].line
             THEN "InvalidInput"
        ELSE "none"

InputError(q) ==
    IF \/ q.key \notin Keys
       \/ Cardinality(DOMAIN q.changes) > 1
       \/ Len(q.patches) > MaxPatches
    THEN "InvalidInput"
    ELSE IF DOMAIN q.changes \ {"notes"} # {} THEN "ImmutableField"
    ELSE IF \E f \in DOMAIN q.changes : q.changes[f] \notin Bounded THEN "InvalidInput"
    ELSE PatchesError(q.patches)

ChangeOf(changes, f) == IF f \in DOMAIN changes THEN changes[f] ELSE Kept

(* normalized_intent: notes are trimmed, and the order of patches is lost. *)
Intent(q) ==
    LET notes == ChangeOf(q.changes, "notes")
        patched == {q.patches[i].line : i \in DOMAIN q.patches}
        patch(l) == CHOOSE i \in DOMAIN q.patches : q.patches[i].line = l
    IN  [order |-> q.order,
         notes |-> IF notes = Kept THEN Kept ELSE Trim[notes],
         quantities |-> [l \in patched |-> ChangeOf(q.patches[patch(l)].changes, "quantity")]]

Changed(value, change) == IF change = Kept THEN value ELSE change

(* The facts with an intent carried out: nothing but the state and notes   *)
(* of its order and the quantities of its lines.                           *)
Submitted(facts, intent) ==
    [orders |-> [facts.orders EXCEPT ![intent.order].state = "submitted",
                                     ![intent.order].notes = Changed(@, intent.notes)],
     lines |-> [l \in DOMAIN facts.lines |->
        IF l \in DOMAIN intent.quantities
        THEN [facts.lines[l] EXCEPT !.quantity = Changed(@, intent.quantities[l])]
        ELSE facts.lines[l]]]

LineError(line) ==
    IF line.quantity \notin Quantities THEN "InvalidQuantity"
    ELSE IF line.price < 0 THEN "InvalidInput"
    ELSE "none"

(* The first test that fails names the error, of lines the first bad one.  *)
RowsError(facts, intent) ==
    LET own == LinesOf(facts, intent.order)
        after == Submitted(facts, intent)
        bad == {l \in own : LineError(after.lines[l]) # "none"}
    IN  IF own = {} THEN "EmptyOrder"
        ELSE IF ~(DOMAIN intent.quantities \subseteq own) THEN "InvalidInput"
        ELSE IF bad # {} THEN LineError(after.lines[CHOOSE l \in bad : \A k \in bad : l <= k])
        ELSE IF ~Valid(after) THEN "InvalidInput"
        ELSE IF ~Allows(after.orders[intent.order], "Submit") THEN "Denied"
        ELSE "Apply"

(* Mutant: an order may be submitted again.                                *)
Judge_AnyState(facts, intent) == RowsError(facts, intent)

(* What has no receipt yet is judged by the facts.                         *)
Judge(facts, intent) ==
    IF facts.orders[intent.order].state # "draft" THEN "NotDraft"
    ELSE RowsError(facts, intent)

(* What the book says of a key that was used: the same intent again, or    *)
(* another one.                                                            *)
LookUp(entry, intent) == IF entry.intent = intent THEN "Replay" ELSE "IntentConflict"

OrderError(facts, q) ==
    IF q.order \notin DOMAIN facts.orders THEN "Denied"
    ELSE IF ~Allows(facts.orders[q.order], "Submit") THEN "Denied"
    ELSE "none"

(* Mutant: the receipt answers before the policy is asked.                 *)
Decide_ReceiptFirst(facts, book, q) ==
    IF ResolveError("Submit") # "none" THEN ResolveError("Submit")
    ELSE IF <<session.actor, q.key>> \in DOMAIN book
         THEN LookUp(book[<<session.actor, q.key>>], Intent(q))
    ELSE IF OrderError(facts, q) # "none" THEN OrderError(facts, q)
    ELSE IF InputError(q) # "none" THEN InputError(q)
    ELSE Judge(facts, Intent(q))

(* Mutant: the order must be a draft even for a replay.                    *)
Decide_StateFirst(facts, book, q) ==
    IF ResolveError("Submit") # "none" THEN ResolveError("Submit")
    ELSE IF OrderError(facts, q) # "none" THEN OrderError(facts, q)
    ELSE IF InputError(q) # "none" THEN InputError(q)
    ELSE IF Judge(facts, Intent(q)) = "NotDraft" THEN "NotDraft"
    ELSE IF <<session.actor, q.key>> \in DOMAIN book
         THEN LookUp(book[<<session.actor, q.key>>], Intent(q))
    ELSE Judge(facts, Intent(q))

(* Current grants come before the policy, the facts, the details of the    *)
(* input and the receipts.                                                 *)
Decide(facts, book, q) ==
    IF ResolveError("Submit") # "none" THEN ResolveError("Submit")
    ELSE IF OrderError(facts, q) # "none" THEN OrderError(facts, q)
    ELSE IF InputError(q) # "none" THEN InputError(q)
    ELSE IF <<session.actor, q.key>> \in DOMAIN book
         THEN LookUp(book[<<session.actor, q.key>>], Intent(q))
    ELSE Judge(facts, Intent(q))

-----------------------------------------------------------------------------
(* The inspector.                                                          *)

(* What it makes of the order, the key, the notes and the quantity.        *)
InspectorRequest(o, key, notes, quantity) ==
    LET own == LinesOf(sandbox, o)
        nth(i) == CHOOSE l \in own : Cardinality({k \in own : k <= l}) = i
    IN  [order |-> o, key |-> key, changes |-> [f \in {"notes"} |-> notes],
         patches |-> [i \in 1..Cardinality(own) |->
            [line |-> nth(i), changes |-> [f \in {"quantity"} |-> quantity]]]]

(* What is tested before the decision is asked.                            *)
Checked ==
    IF ~Valid(sandbox) THEN "InvalidInput"
    ELSE IF definition.policy = None THEN "InvalidPolicy"
    ELSE "none"

Tell(what) ==
    /\ notice' = what
    /\ UNCHANGED <<definition, session, sandbox, revision, receipts, copied, sent>>

RecordApplied(entry, intent) ==
    IF entry \in DOMAIN receipts THEN receipts
    ELSE [e \in DOMAIN receipts \cup {entry} |->
            IF e = entry THEN [intent |-> intent, order |-> intent.order, state |-> "submitted"]
                         ELSE receipts[e]]

(* The receipt first, then the rows, then the revision.                    *)
Apply(q) ==
    LET entry == <<session.actor, q.key>> IN
    /\ Checked = "none" /\ Decide(sandbox, receipts, q) = "Apply"
    /\ receipts' = RecordApplied(entry, Intent(q))
    /\ sent' = [e \in DOMAIN sent \cup {entry} |-> IF e = entry THEN Intent(q) ELSE sent[e]]
    /\ sandbox' = Submitted(sandbox, Intent(q))
    /\ revision' = revision + 1
    /\ notice' = "Applied"
    /\ UNCHANGED <<definition, session, copied>>

Answer(q) ==
    /\ Checked = "none" /\ Decide(sandbox, receipts, q) # "Apply"
    /\ Tell(Decide(sandbox, receipts, q))

Refuse == Checked # "none" /\ Tell(Checked)

(* The typed quantity is parsed before the decision is asked.              *)
Misread == Checked = "none" /\ Tell("InvalidQuantity")

RunCommand(q) == Apply(q) \/ Answer(q)

Reset ==
    /\ sandbox' \in Drafts /\ copied' = sandbox'
    /\ receipts' = EmptyBook /\ sent' = EmptyBook
    /\ revision' = 1
    /\ notice' = "Ready"
    /\ UNCHANGED <<definition, session>>

Simulate(new) ==
    /\ session' = new
    /\ UNCHANGED <<definition, sandbox, revision, receipts, notice, copied, sent>>

ToggleGrant(grant) ==
    Simulate([session EXCEPT !.grants = IF grant \in @ THEN @ \ {grant} ELSE @ \cup {grant}])

-----------------------------------------------------------------------------
(* The definition, which the sandbox does not follow.                      *)

Redefine(new, what) ==
    /\ definition' = new
    /\ notice' = what
    /\ UNCHANGED <<session, sandbox, revision, receipts, copied, sent>>

AddSource ==
    /\ definition.policy = None
    /\ Redefine([definition EXCEPT !.policy =
                   [revision |-> 1, read |-> {Auditor}, submit |-> {Operator}]], "SourceAdded")

Toggled(roles, role) == IF role \in roles THEN roles \ {role} ELSE roles \cup {role}

EditRole(submit) ==
    LET p == definition.policy IN
    /\ p # None
    /\ IF p.revision = MaxRevision THEN Tell("Overflow")
       ELSE Redefine([definition EXCEPT !.policy =
                       [revision |-> p.revision + 1,
                        read |-> IF submit THEN p.read ELSE Toggled(p.read, Auditor),
                        submit |-> IF submit THEN Toggled(p.submit, Operator) ELSE p.submit]],
                     "SourceEdited")

(* Elsewhere in the Builder: a data rule comes or goes, and Cancel brings  *)
(* back the definition that was saved, of which here there is none.        *)
SetRule(ruled) ==
    /\ definition.ruled # ruled
    /\ Redefine([definition EXCEPT !.ruled = ruled], notice)

CancelDraft == Redefine([policy |-> None, ruled |-> FALSE], notice)

Next ==
    \/ \E o \in Orders, key \in Keys \cup {BadKey}, notes \in Notes,
          quantity \in Typed \ {Unparsable} :
          RunCommand(InspectorRequest(o, key, notes, quantity))
    \/ \E q \in OtherRequests : RunCommand(q)
    \/ Refuse \/ Misread \/ Reset
    \/ \E a \in Actors : Simulate([session EXCEPT !.actor = a])
    \/ \E r \in {NoRole, Auditor, Operator} : Simulate([session EXCEPT !.role = r])
    \/ \E grant \in Grants : ToggleGrant(grant)
    \/ Simulate([session EXCEPT !.active = ~@])
    \/ AddSource \/ CancelDraft
    \/ (\E submit \in BOOLEAN : EditRole(submit))
    \/ \E ruled \in BOOLEAN : SetRule(ruled)

Spec == Init /\ [][Next]_vars

-----------------------------------------------------------------------------
(* Properties.                                                             *)

Requests ==
    {InspectorRequest(o, key, notes, quantity) :
        o \in Orders, key \in Keys, notes \in Notes, quantity \in Typed \ {Unparsable}}
    \cup OtherRequests

MaySubmit(o) ==
    /\ ResolveError("Submit") = "none"
    /\ o \in DOMAIN sandbox.orders /\ Allows(sandbox.orders[o], "Submit")

(* The sandbox is at all times the copied draft in which the intent of     *)
(* each receipt was carried out, each order submitted by one receipt and   *)
(* nothing else changed: whoever submits, retries or changes the rules in  *)
(* between (the state test of decide_submit_order, policy.rs:945).         *)
SandboxIsExplained ==
    LET by(o) == {e \in DOMAIN receipts : receipts[e].order = o}
        touched == {o \in DOMAIN copied.orders : by(o) # {}}
        intent(o) == receipts[CHOOSE e \in by(o) : TRUE].intent
        lineIntent(l) == intent(copied.lines[l].order)
    IN  /\ \A o \in touched : Cardinality(by(o)) = 1 /\ copied.orders[o].state = "draft"
        /\ \A e \in DOMAIN receipts :
              /\ receipts[e].order \in touched
              /\ \A l \in DOMAIN receipts[e].intent.quantities :
                    l \in DOMAIN copied.lines /\ copied.lines[l].order = receipts[e].order
        /\ sandbox.orders = [o \in DOMAIN copied.orders |->
              IF o \in touched THEN Submitted(copied, intent(o)).orders[o] ELSE copied.orders[o]]
        /\ sandbox.lines = [l \in DOMAIN copied.lines |->
              IF copied.lines[l].order \in touched
              THEN Submitted(copied, lineIntent(l)).lines[l] ELSE copied.lines[l]]

(* Once a request was carried out, every request of its actor under its    *)
(* key is answered from the receipt: with a replay when it means the same, *)
(* however it is spelt, and with a conflict otherwise; never is it carried *)
(* out again or told that the order is no draft, whatever became of the    *)
(* order and the policy, as long as the actor may submit ("Preserve the    *)
(* input when retrying", builder policy.rs:158).                           *)
RetryIsReplayed ==
    definition.policy # None =>
        \A e \in DOMAIN sent, q \in Requests :
            (e = <<session.actor, q.key>> /\ MaySubmit(q.order) /\ InputError(q) = "none") =>
                Decide(sandbox, receipts, q) =
                    IF Intent(q) = sent[e] THEN "Replay" ELSE "IntentConflict"

(* Facts without the orders that fail a test, and their lines.             *)
Without(facts, hidden) ==
    [orders |-> [o \in DOMAIN facts.orders \ hidden |-> facts.orders[o]],
     lines |-> [l \in {l \in DOMAIN facts.lines : facts.lines[l].order \notin hidden} |->
                  facts.lines[l]]]

(* What an actor may not submit or read might as well not exist: whether   *)
(* it is there, submitted or named by a receipt changes no answer ("a      *)
(* hidden record and an absent record both return None", policy.rs:552).   *)
HiddenIsAbsent ==
    definition.policy # None =>
        LET orders == DOMAIN sandbox.orders
            unsubmittable == {o \in orders : ~MaySubmit(o)}
            unreadable == {o \in orders : ~Allows(sandbox.orders[o], "Read")}
            seen == Without(sandbox, unreadable)
        IN  /\ \A q \in Requests :
                  q.order \in unsubmittable =>
                      Decide(sandbox, receipts, q) =
                          Decide(Without(sandbox, unsubmittable), EmptyBook, q)
            /\ Project(sandbox) = Project(seen)
            /\ VisibleCount(sandbox) = VisibleCount(seen)
            /\ \A o \in Orders : Lookup(sandbox, o) = Lookup(seen, o)
=============================================================================
