------------------------- MODULE SubmitOrderProofs -------------------------
(***************************************************************************)
(* Submitting orders, for any actors, orders, requests, policies and       *)
(* drafts: the sandbox is what its receipts say, a used key is answered by *)
(* its receipt, and what is hidden might as well not be there.             *)
(***************************************************************************)
EXTENDS SubmitOrder, FiniteSetTheorems, TLAPS

By(o) == {e \in DOMAIN receipts : receipts[e].order = o}
Touched == {o \in DOMAIN copied.orders : By(o) # {}}

(* A receipt is of a draft order that was copied, and of lines of it.      *)
ReceiptOK(e) ==
    LET o == receipts[e].order
        intent == receipts[e].intent
    IN  /\ intent.order = o /\ o \in DOMAIN copied.orders /\ copied.orders[o].state = "draft"
        /\ \A l \in DOMAIN intent.quantities :
              l \in DOMAIN copied.lines /\ copied.lines[l].order = o

(* Order o, or line l, as the receipts say.                                *)
OrderSays(o) ==
    /\ By(o) = {} => sandbox.orders[o] = copied.orders[o]
    /\ \A e \in By(o) :
          sandbox.orders[o] = [copied.orders[o] EXCEPT
             !.state = "submitted", !.notes = Changed(@, receipts[e].intent.notes)]

LineAfter(l, intent) ==
    IF l \in DOMAIN intent.quantities
    THEN [copied.lines[l] EXCEPT !.quantity = Changed(@, intent.quantities[l])]
    ELSE copied.lines[l]

LineSays(l) ==
    /\ By(copied.lines[l].order) = {} => sandbox.lines[l] = copied.lines[l]
    /\ \A e \in By(copied.lines[l].order) :
          sandbox.lines[l] = LineAfter(l, receipts[e].intent)

IInv ==
    /\ copied \in Drafts
    /\ DOMAIN sent = DOMAIN receipts
    /\ \A e \in DOMAIN receipts : ReceiptOK(e) /\ sent[e] = receipts[e].intent
    /\ \A e, g \in DOMAIN receipts : receipts[e].order = receipts[g].order => e = g
    /\ sandbox = [orders |-> [o \in DOMAIN copied.orders |-> sandbox.orders[o]],
                  lines |-> [l \in DOMAIN copied.lines |-> sandbox.lines[l]]]
    /\ \A o \in DOMAIN copied.orders : OrderSays(o)
    /\ \A l \in DOMAIN copied.lines : LineSays(l)

-----------------------------------------------------------------------------
(* Lemmas.                                                                 *)

LEMMA DraftRows ==
    ASSUME copied \in Drafts
    PROVE  /\ copied = [orders |-> copied.orders, lines |-> copied.lines]
           /\ copied.orders \in [DOMAIN copied.orders -> OrderRows]
           /\ copied.lines \in [DOMAIN copied.lines -> LineRows]
BY SubmitAssumption

(* Copied facts of which nothing has been submitted.                       *)
LEMMA FreshIInv ==
    ASSUME copied' \in Drafts, sandbox' = copied', receipts' = EmptyBook, sent' = EmptyBook
    PROVE  IInv'
<1>1. DOMAIN receipts' = {} /\ DOMAIN sent' = {}
  BY DEF EmptyBook
<1>2. /\ copied' = [orders |-> copied'.orders, lines |-> copied'.lines]
      /\ copied'.orders = [o \in DOMAIN copied'.orders |-> copied'.orders[o]]
      /\ copied'.lines = [l \in DOMAIN copied'.lines |-> copied'.lines[l]]
  BY SubmitAssumption
<1> QED BY <1>1, <1>2 DEF IInv, ReceiptOK, OrderSays, LineSays, By

(* A submission leaves the lines where they are.                           *)
LEMMA LinesStay ==
    ASSUME IInv, NEW l \in DOMAIN copied.lines
    PROVE  sandbox.lines[l].order = copied.lines[l].order
<1>1. copied.lines[l] \in LineRows /\ LineSays(l)
  BY DraftRows DEF IInv
<1> QED BY <1>1 DEF LineSays, LineAfter, LineRows

(* What the decision to apply says of the request.                         *)
LEMMA AppliedWhen ==
    ASSUME NEW q, Decide(sandbox, receipts, q) = "Apply"
    PROVE  /\ <<session.actor, q.key>> \notin DOMAIN receipts
           /\ q.order \in DOMAIN sandbox.orders
           /\ sandbox.orders[q.order].state = "draft"
           /\ DOMAIN Intent(q).quantities \subseteq LinesOf(sandbox, q.order)
<1>1. ResolveError("Submit") # "Apply"
  BY DEF ResolveError
<1>2. OrderError(sandbox, q) # "Apply"
  BY DEF OrderError
<1>3. InputError(q) # "Apply"
  <2>1. \A patch : PatchError(patch) # "Apply"
    BY DEF PatchError
  <2> QED BY <2>1 DEF InputError, PatchesError
<1>4. \A e : LookUp(e, Intent(q)) # "Apply"
  BY DEF LookUp
<1>5. /\ <<session.actor, q.key>> \notin DOMAIN receipts
      /\ OrderError(sandbox, q) = "none"
      /\ Judge(sandbox, Intent(q)) = "Apply"
  BY <1>1, <1>2, <1>3, <1>4 DEF Decide
<1>6. q.order \in DOMAIN sandbox.orders
  BY <1>5 DEF OrderError
<1>7. Intent(q).order = q.order
  BY DEF Intent
<1>8. sandbox.orders[q.order].state = "draft" /\ RowsError(sandbox, Intent(q)) = "Apply"
  BY <1>5, <1>7 DEF Judge
<1>9. DOMAIN Intent(q).quantities \subseteq LinesOf(sandbox, q.order)
  BY <1>7, <1>8 DEF RowsError
<1> QED BY <1>5, <1>6, <1>8, <1>9

LEMMA ApplyStep ==
    ASSUME IInv, NEW q, Apply(q)
    PROVE  IInv'
<1> DEFINE entry == <<session.actor, q.key>>
           intent == Intent(q)
           o == q.order
<1>1. /\ entry \notin DOMAIN receipts /\ o \in DOMAIN sandbox.orders
      /\ sandbox.orders[o].state = "draft"
      /\ DOMAIN intent.quantities \subseteq LinesOf(sandbox, o)
  BY AppliedWhen DEF Apply
<1>2. /\ receipts' = [e \in DOMAIN receipts \cup {entry} |->
                        IF e = entry THEN [intent |-> intent, order |-> o, state |-> "submitted"]
                        ELSE receipts[e]]
      /\ sent' = [e \in DOMAIN sent \cup {entry} |-> IF e = entry THEN intent ELSE sent[e]]
      /\ sandbox' = Submitted(sandbox, intent) /\ copied' = copied
  BY <1>1 DEF Apply, RecordApplied, Intent
<1>3. intent.order = o
  BY DEF Intent
<1> HIDE DEF entry, intent, o
<1>4. DOMAIN sandbox.orders = DOMAIN copied.orders /\ DOMAIN sandbox.lines = DOMAIN copied.lines
  BY DEF IInv
<1>5. By(o) = {} /\ sandbox.orders[o] = copied.orders[o]
  <2>1. OrderSays(o) /\ copied.orders[o] \in OrderRows
    BY <1>1, <1>4, DraftRows DEF IInv
  <2>2. ASSUME NEW e \in By(o) PROVE FALSE
    BY <1>1, <2>1, <2>2 DEF OrderSays, OrderRows
  <2> QED BY <2>1, <2>2 DEF OrderSays
<1>6. /\ {e \in DOMAIN receipts' : receipts'[e].order = o} = {entry}
      /\ \A p : p # o => {e \in DOMAIN receipts' : receipts'[e].order = p} = By(p)
  BY <1>1, <1>2, <1>5 DEF By
<1>7. /\ receipts'[entry] = [intent |-> intent, order |-> o, state |-> "submitted"]
      /\ \A e \in DOMAIN receipts : receipts'[e] = receipts[e] /\ e # entry
  BY <1>1, <1>2
<1>8. \A l \in DOMAIN intent.quantities : l \in DOMAIN copied.lines /\ copied.lines[l].order = o
  BY <1>1, <1>4, LinesStay DEF LinesOf
<1>9. (\A e \in DOMAIN receipts : ReceiptOK(e) /\ sent[e] = receipts[e].intent)'
  <2> SUFFICES ASSUME NEW e \in DOMAIN receipts'
               PROVE  ReceiptOK(e)' /\ sent'[e] = receipts'[e].intent
    OBVIOUS
  <2>1. CASE e = entry
    BY <1>1, <1>2, <1>3, <1>4, <1>5, <1>7, <1>8, <2>1 DEF ReceiptOK
  <2>2. CASE e \in DOMAIN receipts
    BY <1>2, <1>7, <2>2 DEF IInv, ReceiptOK
  <2> QED BY <1>2, <2>1, <2>2
<1>10. (\A e, g \in DOMAIN receipts : receipts[e].order = receipts[g].order => e = g)'
  <2>1. \A e \in DOMAIN receipts : receipts[e].order # o
    BY <1>5 DEF By
  <2> QED BY <1>2, <1>7, <2>1 DEF IInv
<1>11. /\ sandbox' = [orders |-> sandbox'.orders, lines |-> sandbox'.lines]
       /\ sandbox'.orders = [p \in DOMAIN copied.orders |-> sandbox'.orders[p]]
       /\ sandbox'.lines = [l \in DOMAIN copied.lines |-> sandbox'.lines[l]]
  <2>1. sandbox.orders = [p \in DOMAIN copied.orders |-> sandbox.orders[p]]
    BY DEF IInv
  <2> QED BY <1>2, <1>4, <2>1 DEF Submitted
<1>12. sandbox'.orders[o] = [copied.orders[o] EXCEPT !.state = "submitted",
                                                     !.notes = Changed(@, intent.notes)]
  <2>1. sandbox.orders = [p \in DOMAIN copied.orders |-> sandbox.orders[p]]
    BY DEF IInv
  <2>2. sandbox'.orders = [sandbox.orders EXCEPT ![o].state = "submitted",
                                                 ![o].notes = Changed(@, intent.notes)]
    BY <1>2, <1>3 DEF Submitted
  <2>3. copied.orders[o] \in OrderRows
    BY <1>1, <1>4, DraftRows DEF IInv
  <2> QED BY <1>1, <1>4, <1>5, <2>1, <2>2, <2>3 DEF OrderRows
<1>13. (\A p \in DOMAIN copied.orders : OrderSays(p))'
  <2> SUFFICES ASSUME NEW p \in DOMAIN copied.orders PROVE OrderSays(p)'
    BY <1>2
  <2>1. CASE p = o
    BY <1>2, <1>6, <1>7, <1>12, <2>1 DEF OrderSays, By
  <2>2. CASE p # o
    <3>1. sandbox'.orders[p] = sandbox.orders[p]
      BY <1>2, <1>3, <1>4, <2>2 DEF Submitted
    <3>2. \A e \in By(p) : receipts'[e] = receipts[e]
      BY <1>7 DEF By
    <3>3. OrderSays(p)
      BY DEF IInv
    <3>4. {e \in DOMAIN receipts' : receipts'[e].order = p} = By(p)
      BY <1>6, <2>2
    <3>5. /\ By(p) = {} => sandbox'.orders[p] = copied.orders[p]
          /\ \A e \in By(p) : sandbox'.orders[p] =
               [copied.orders[p] EXCEPT !.state = "submitted",
                                        !.notes = Changed(@, receipts'[e].intent.notes)]
      BY <3>1, <3>2, <3>3 DEF OrderSays
    <3> QED BY <1>2, <3>4, <3>5 DEF OrderSays, By
  <2> QED BY <2>1, <2>2
<1>14. (\A l \in DOMAIN copied.lines : LineSays(l))'
  <2> SUFFICES ASSUME NEW l \in DOMAIN copied.lines PROVE LineSays(l)'
    BY <1>2
  <2>1. sandbox'.lines[l] =
           IF l \in DOMAIN intent.quantities
           THEN [sandbox.lines[l] EXCEPT !.quantity = Changed(@, intent.quantities[l])]
           ELSE sandbox.lines[l]
    BY <1>2, <1>4 DEF Submitted
  <2>2. LineSays(l)
    BY DEF IInv
  <2>3. CASE copied.lines[l].order = o
    <3>1. sandbox.lines[l] = copied.lines[l]
      BY <1>5, <2>2, <2>3 DEF LineSays
    <3>2. sandbox'.lines[l] = LineAfter(l, intent)
      BY <2>1, <3>1 DEF LineAfter
    <3> QED BY <1>2, <1>6, <1>7, <2>3, <3>2 DEF LineSays, LineAfter, By
  <2>4. CASE copied.lines[l].order # o
    <3>1. sandbox'.lines[l] = sandbox.lines[l]
      BY <1>8, <2>1, <2>4
    <3>2. \A e \in By(copied.lines[l].order) : receipts'[e] = receipts[e]
      BY <1>7 DEF By
    <3> DEFINE p == copied.lines[l].order
    <3>3. {e \in DOMAIN receipts' : receipts'[e].order = p} = By(p)
      BY <1>6, <2>4
    <3>4. /\ By(p) = {} => sandbox'.lines[l] = copied.lines[l]
          /\ \A e \in By(p) : sandbox'.lines[l] = LineAfter(l, receipts'[e].intent)
      BY <2>2, <3>1, <3>2 DEF LineSays
    <3> QED BY <1>2, <3>3, <3>4 DEF LineSays, LineAfter, By
  <2> QED BY <2>3, <2>4
<1>15. copied' \in Drafts /\ DOMAIN sent' = DOMAIN receipts'
  BY <1>2 DEF IInv
<1> QED BY <1>2, <1>9, <1>10, <1>11, <1>13, <1>14, <1>15 DEF IInv

(* Steps that leave the facts and the receipts as they are.                *)
LEMMA OthersStep ==
    ASSUME IInv, UNCHANGED <<sandbox, receipts, copied, sent>>
    PROVE  IInv'
<1>1. sandbox' = sandbox /\ receipts' = receipts /\ copied' = copied /\ sent' = sent
  OBVIOUS
<1>2. /\ copied' \in Drafts /\ DOMAIN sent' = DOMAIN receipts'
      /\ sandbox' = [orders |-> [o \in DOMAIN copied'.orders |-> sandbox'.orders[o]],
                     lines |-> [l \in DOMAIN copied'.lines |-> sandbox'.lines[l]]]
  BY <1>1 DEF IInv
<1>3. (\A e \in DOMAIN receipts : ReceiptOK(e) /\ sent[e] = receipts[e].intent)'
  BY <1>1 DEF IInv, ReceiptOK
<1>4. (\A e, g \in DOMAIN receipts : receipts[e].order = receipts[g].order => e = g)'
  BY <1>1 DEF IInv
<1>5. (\A o \in DOMAIN copied.orders : OrderSays(o))'
  <2> SUFFICES ASSUME NEW o \in DOMAIN copied.orders PROVE OrderSays(o)'
    BY <1>1
  <2>1. OrderSays(o)
    BY DEF IInv
  <2> QED BY <1>1, <2>1 DEF OrderSays, By
<1>6. (\A l \in DOMAIN copied.lines : LineSays(l))'
  <2> SUFFICES ASSUME NEW l \in DOMAIN copied.lines PROVE LineSays(l)'
    BY <1>1
  <2>1. LineSays(l)
    BY DEF IInv
  <2> QED BY <1>1, <2>1 DEF LineSays, LineAfter, By
<1> QED BY <1>2, <1>3, <1>4, <1>5, <1>6 DEF IInv

LEMMA InitIInv == Init => IInv
<1> SUFFICES ASSUME Init PROVE IInv
  OBVIOUS
<1>1. DOMAIN receipts = {} /\ DOMAIN sent = {} /\ sandbox = copied /\ copied \in Drafts
  BY DEF Init, EmptyBook
<1>2. /\ copied = [orders |-> copied.orders, lines |-> copied.lines]
      /\ copied.orders = [o \in DOMAIN copied.orders |-> copied.orders[o]]
      /\ copied.lines = [l \in DOMAIN copied.lines |-> copied.lines[l]]
  BY <1>1, SubmitAssumption
<1> QED BY <1>1, <1>2 DEF IInv, ReceiptOK, OrderSays, LineSays, By

LEMMA NextIInv == IInv /\ [Next]_vars => IInv'
<1> SUFFICES ASSUME IInv, [Next]_vars PROVE IInv'
  OBVIOUS
<1>1. ASSUME NEW q, RunCommand(q) PROVE IInv'
  <2>1. CASE Apply(q)
    BY <2>1, ApplyStep
  <2>2. CASE Answer(q)
    BY <2>2, OthersStep DEF Answer, Tell
  <2> QED BY <1>1, <2>1, <2>2 DEF RunCommand
<1>2. CASE Reset
  BY <1>2, FreshIInv DEF Reset
<1>3. CASE Refuse \/ Misread
  BY <1>3, OthersStep DEF Refuse, Misread, Tell
<1>4. ASSUME NEW new, Simulate(new) PROVE IInv'
  BY <1>4, OthersStep DEF Simulate
<1>5. CASE \/ AddSource \/ CancelDraft
           \/ (\E submit \in BOOLEAN : EditRole(submit))
           \/ \E ruled \in BOOLEAN : SetRule(ruled)
  BY <1>5, OthersStep DEF AddSource, CancelDraft, EditRole, SetRule, Redefine, Tell
<1>6. CASE UNCHANGED vars
  BY <1>6, OthersStep DEF vars
<1> QED BY <1>1, <1>2, <1>3, <1>4, <1>5, <1>6 DEF Next, ToggleGrant

-----------------------------------------------------------------------------
(* Theorems.                                                               *)

(* Every reachable state: the sandbox is, row by row, what the copied      *)
(* draft and the receipts say (run_command of the inspector).              *)
THEOREM ReceiptsExplainRows == Spec => []IInv
<1> QED BY InitIInv, NextIInv, PTL DEF Spec

LEMMA Explained == IInv => SandboxIsExplained
<1> SUFFICES ASSUME IInv PROVE SandboxIsExplained
  OBVIOUS
<1> DEFINE intent(o) == receipts[CHOOSE e \in By(o) : TRUE].intent
<1>1. \A e \in DOMAIN receipts : ReceiptOK(e) /\ e \in By(receipts[e].order)
  BY DEF IInv, By
<1>2. ASSUME NEW o, By(o) # {}
      PROVE  /\ o \in Touched /\ Cardinality(By(o)) = 1 /\ copied.orders[o].state = "draft"
             /\ \E e \in By(o) : intent(o) = receipts[e].intent /\ intent(o).order = o
  <2> PICK e \in By(o) : TRUE
    BY <1>2
  <2>1. By(o) = {e}
    BY DEF IInv, By
  <2>2. e \in DOMAIN receipts /\ receipts[e].order = o
    BY DEF By
  <2>3. Cardinality(By(o)) = 1
    BY <2>1, FS_Singleton
  <2>4. (CHOOSE g \in By(o) : TRUE) = e
    BY <2>1
  <2>5. o \in Touched /\ copied.orders[o].state = "draft" /\ receipts[e].intent.order = o
    BY <1>1, <1>2, <2>2 DEF ReceiptOK, Touched
  <2> QED BY <2>3, <2>4, <2>5
<1>3. \A o \in Touched : By(o) # {} /\ o \in DOMAIN copied.orders
  BY DEF Touched
<1>4. \A e \in DOMAIN receipts :
        /\ receipts[e].order \in Touched
        /\ \A l \in DOMAIN receipts[e].intent.quantities :
              l \in DOMAIN copied.lines /\ copied.lines[l].order = receipts[e].order
  BY <1>1, <1>2 DEF ReceiptOK
<1>5. sandbox.orders = [o \in DOMAIN copied.orders |->
         IF o \in Touched THEN Submitted(copied, intent(o)).orders[o] ELSE copied.orders[o]]
  <2>1. sandbox.orders = [o \in DOMAIN copied.orders |-> sandbox.orders[o]]
    BY DEF IInv
  <2>2. ASSUME NEW o \in DOMAIN copied.orders, o \in Touched
        PROVE  sandbox.orders[o] = Submitted(copied, intent(o)).orders[o]
    <3>1. PICK e \in By(o) : intent(o) = receipts[e].intent /\ intent(o).order = o
      BY <1>2, <1>3, <2>2
    <3> HIDE DEF intent
    <3>2. copied.orders = [p \in DOMAIN copied.orders |-> copied.orders[p]]
          /\ copied.orders[o] \in OrderRows
      BY DraftRows DEF IInv
    <3>3. Submitted(copied, intent(o)).orders[o] =
             [copied.orders[o] EXCEPT !.state = "submitted",
                                      !.notes = Changed(@, intent(o).notes)]
      BY <3>1, <3>2 DEF Submitted, OrderRows
    <3>4. OrderSays(o)
      BY DEF IInv
    <3> QED BY <3>1, <3>3, <3>4 DEF OrderSays
  <2>3. ASSUME NEW o \in DOMAIN copied.orders, o \notin Touched
        PROVE  sandbox.orders[o] = copied.orders[o]
    BY <1>2, <2>3 DEF IInv, OrderSays
  <2> HIDE DEF intent
  <2> QED BY <2>1, <2>2, <2>3
<1>6. sandbox.lines = [l \in DOMAIN copied.lines |->
         IF copied.lines[l].order \in Touched
         THEN Submitted(copied, intent(copied.lines[l].order)).lines[l] ELSE copied.lines[l]]
  <2>1. sandbox.lines = [l \in DOMAIN copied.lines |-> sandbox.lines[l]]
    BY DEF IInv
  <2>2. ASSUME NEW l \in DOMAIN copied.lines, copied.lines[l].order \in Touched
        PROVE  sandbox.lines[l] = Submitted(copied, intent(copied.lines[l].order)).lines[l]
    <3> DEFINE o == copied.lines[l].order
    <3>1. PICK e \in By(o) : intent(o) = receipts[e].intent
      BY <1>2, <1>3, <2>2
    <3> HIDE DEF intent
    <3>2. sandbox.lines[l] = LineAfter(l, intent(o))
      BY <3>1 DEF IInv, LineSays
    <3> QED BY <3>2 DEF Submitted, LineAfter
  <2>3. ASSUME NEW l \in DOMAIN copied.lines, copied.lines[l].order \notin Touched
        PROVE  sandbox.lines[l] = copied.lines[l]
    BY <1>2, <2>3 DEF IInv, LineSays
  <2> HIDE DEF intent
  <2> QED BY <2>1, <2>2, <2>3
<1>7. \A o \in Touched : Cardinality(By(o)) = 1 /\ copied.orders[o].state = "draft"
  BY <1>2, <1>3
<1> QED BY <1>4, <1>5, <1>6, <1>7 DEF SandboxIsExplained, Touched, By

(* The sandbox is the copied draft with the intent of each receipt carried *)
(* out once (record_applied and the update of the sandbox).                *)
THEOREM SandboxExplained == Spec => []SandboxIsExplained
<1> QED BY Explained, ReceiptsExplainRows, PTL

(* A key that was used is answered by its receipt for as long as its actor *)
(* may submit (decide_submit_order).                                       *)
THEOREM RetriesReplay == Spec => []RetryIsReplayed
<1>1. IInv => RetryIsReplayed
  <2> SUFFICES ASSUME IInv, NEW e \in DOMAIN sent, NEW q \in Requests,
                      e = <<session.actor, q.key>>, MaySubmit(q.order), InputError(q) = "none"
               PROVE  Decide(sandbox, receipts, q) =
                         IF Intent(q) = sent[e] THEN "Replay" ELSE "IntentConflict"
    BY DEF RetryIsReplayed
  <2>1. e \in DOMAIN receipts /\ receipts[e].intent = sent[e]
    BY DEF IInv
  <2>2. ResolveError("Submit") = "none" /\ OrderError(sandbox, q) = "none"
    BY DEF MaySubmit, OrderError
  <2> QED BY <2>1, <2>2 DEF Decide, LookUp
<1> QED BY <1>1, ReceiptsExplainRows, PTL

LEMMA Unseen == HiddenIsAbsent
<1> DEFINE orders == DOMAIN sandbox.orders
           unsubmittable == {o \in orders : ~MaySubmit(o)}
           unreadable == {o \in orders : ~Allows(sandbox.orders[o], "Read")}
           seen == Without(sandbox, unreadable)
<1>1. ASSUME NEW q \in Requests, q.order \in unsubmittable
      PROVE  Decide(sandbox, receipts, q) = Decide(Without(sandbox, unsubmittable), EmptyBook, q)
  <2>1. q.order \notin DOMAIN Without(sandbox, unsubmittable).orders
    BY <1>1 DEF Without
  <2>2. OrderError(Without(sandbox, unsubmittable), q) = "Denied"
    BY <2>1 DEF OrderError
  <2>3. ResolveError("Submit") = "none" => OrderError(sandbox, q) = "Denied"
    BY <1>1 DEF MaySubmit, OrderError
  <2> HIDE DEF unsubmittable
  <2> QED BY <2>2, <2>3 DEF Decide
<1>2. Project(sandbox) = Project(seen)
  <2>1. /\ DOMAIN seen.orders = {o \in orders : Allows(sandbox.orders[o], "Read")}
        /\ \A o \in DOMAIN seen.orders : seen.orders[o] = sandbox.orders[o]
    BY DEF Without
  <2> HIDE DEF seen
  <2>2. {o \in DOMAIN seen.orders : Allows(seen.orders[o], "Read")} =
           {o \in orders : Allows(sandbox.orders[o], "Read")}
    BY <2>1
  <2>3. \A o \in {o \in orders : Allows(sandbox.orders[o], "Read")} :
           seen.orders[o] = sandbox.orders[o]
    BY <2>1
  <2> QED BY <2>2, <2>3 DEF Project
<1> HIDE DEF seen
<1>3. VisibleCount(sandbox) = VisibleCount(seen)
  BY <1>2 DEF VisibleCount
<1>4. \A o \in Orders : Lookup(sandbox, o) = Lookup(seen, o)
  BY <1>2 DEF Lookup
<1> QED BY <1>1, <1>2, <1>3, <1>4 DEF HiddenIsAbsent, seen

(* Whatever an actor may not submit or read changes none of its answers    *)
(* (decide_submit_order, project, lookup, visible_count).                  *)
THEOREM HiddenMightNotExist == Spec => []HiddenIsAbsent
<1> QED BY Unseen, PTL DEF Spec
=============================================================================
