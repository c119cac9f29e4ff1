---------------------------- MODULE CommandStore ----------------------------
(***************************************************************************)
(* The fixed store of evobase-store: one application's row, its audit,     *)
(* events and receipts, and the handlers that run Store::execute,          *)
(* Store::receipt and Store::bootstrap against it.                         *)
(*                                                                         *)
(* `db' is the committed database.  A handler that has begun works on its  *)
(* own image of it, work[h]: what SQLite shows inside a transaction.  The  *)
(* write lock of BEGIN IMMEDIATE is `lock'.  A handler takes one step per  *)
(* await that another handler, the operator or a crash can come between.   *)
(***************************************************************************)
EXTENDS HostAuthority

CONSTANTS
    Handlers,      \* request slots: how many requests run at once
    Keys,          \* idempotency keys
    Commands,      \* the declared commands
    CommandIds,    \* the command ids a request may name
    Records,       \* the rows of the machine's table
    RecordIds,     \* the record ids a request may name
    States, Vals,  \* the state field, and the one other field of a row
    NoInput,       \* the request carries no input
    From, To,      \* the declared transition of a command
    Terminal,      \* terminal states of the machine
    Guard,         \* values of the other field a command's guards accept
    Inputs,        \* inputs a command's input rules accept
    CheckedVals,   \* values the table's constraints accept
    EventCount,    \* how many events a command declares
    Owner,         \* the value of the policy's owner field, per row
    WriteRoles,    \* the policy's write roles
    BootFacts,     \* facts the operator may bootstrap
    StoreBinding,  \* the binding this store answers to
    Workload,      \* the requests clients may send
    None           \* no lock holder, no request, no context

Rows == [state : States, val : Vals]
Intents == [cmd : Commands, rec : Records, input : Vals \cup {NoInput}, expected : Nat]
Requests == [actor : Actors, origin : Origins \cup {NoOrigin}, key : Keys, cmd : CommandIds,
             rec : RecordIds, input : Vals \cup {NoInput}, expected : Nat]

(* What check_declarations guarantees of a compiled definition: every      *)
(* command is a declared transition of the machine, not out of a terminal  *)
(* state nor back to the same one, over the machine's own fields.          *)
CheckedDeclarations ==
    /\ Terminal \subseteq States
    /\ From \in [Commands -> States \ Terminal]
    /\ To \in [Commands -> States]
    /\ \A c \in Commands : From[c] # To[c]
    /\ Guard \in [Commands -> SUBSET Vals]
    /\ Inputs \in [Commands -> SUBSET (Vals \cup {NoInput})]
    /\ EventCount \in [Commands -> Nat]

ASSUME StoreAssumption ==
    /\ CheckedDeclarations
    /\ None \notin Handlers
    /\ NoInput \notin Vals
    /\ Commands \subseteq CommandIds
    /\ Records \subseteq RecordIds
    /\ CheckedVals \subseteq Vals
    /\ WriteRoles \subseteq Roles
    /\ BootFacts \subseteq [Records -> [state : States, val : CheckedVals]]
    /\ StoreBinding \in Bindings
    /\ Workload \subseteq Requests

VARIABLES
    db,      \* the committed database
    lock,    \* the handler inside an immediate transaction, or None
    phase,   \* how far each handler has come
    req,     \* the request each handler serves
    ctx,     \* the TrustedContext a handler resolved first
    work,    \* the database as a handler's transaction sees it
    result,  \* what a handler will answer
    seen,    \* the authority generation of a handler's latest resolution
    acks     \* history: every receipt some client was answered with

handlerVars == <<phase, req, ctx, work, result, seen>>
vars == <<authorityVars, db, lock, handlerVars, acks>>
-----------------------------------------------------------------------------
(* The tables: a table is a function from its primary key to a row.        *)

EmptyTable == [pk \in {} |-> pk]

Insert(table, pk, row) ==
    [k \in DOMAIN table \cup {pk} |-> IF k = pk THEN row ELSE table[k]]

Db(rev, facts, audit, events, receipts) ==
    [rev |-> rev, facts |-> facts, audit |-> audit, events |-> events, receipts |-> receipts]

EmptyDb == Db(0, EmptyTable, EmptyTable, EmptyTable, EmptyTable)

ReceiptPk(q) == <<q.actor, q.key>>
Intent(q) == [cmd |-> q.cmd, rec |-> q.rec, input |-> q.input, expected |-> q.expected]

\* Mutant of Proposed: the inputs are dropped.
Proposed_NoInputs(d, q) == [state |-> To[q.cmd], val |-> d.facts[q.rec].val]

(* The row a command proposes: the inputs merged over it, then the state.  *)
Proposed(d, q) ==
    [state |-> To[q.cmd],
     val   |-> IF q.input = NoInput THEN d.facts[q.rec].val ELSE q.input]

(* The four writes of execute_in, in their order.                          *)
WithFacts(d, q) ==
    Db(d.rev + 1, [d.facts EXCEPT ![q.rec] = Proposed(d, q)], d.audit, d.events, d.receipts)

WithAudit(d, q, c) ==
    LET row == [actor |-> q.actor, mrev |-> c.mrev, cmd |-> q.cmd, rec |-> q.rec]
    IN  Db(d.rev, d.facts, Insert(d.audit, d.rev, row), d.events, d.receipts)

\* Mutant of WithEvents: event indexes start at one.
WithEvents_OffByOne(d, q) ==
    LET fresh == {<<d.rev, i>> : i \in 1 .. EventCount[q.cmd]}
        events == [pk \in DOMAIN d.events \cup fresh |->
                      IF pk \in fresh THEN d.facts[q.rec] ELSE d.events[pk]]
    IN  Db(d.rev, d.facts, d.audit, events, d.receipts)

WithEvents(d, q) ==
    LET fresh == {<<d.rev, i>> : i \in 0 .. EventCount[q.cmd] - 1}
        events == [pk \in DOMAIN d.events \cup fresh |->
                      IF pk \in fresh THEN d.facts[q.rec] ELSE d.events[pk]]
    IN  Db(d.rev, d.facts, d.audit, events, d.receipts)

ReceiptRow(d, q) == [rev |-> d.rev, state |-> To[q.cmd], intent |-> Intent(q)]

WithReceipt(d, q) ==
    Db(d.rev, d.facts, d.audit, d.events, Insert(d.receipts, ReceiptPk(q), ReceiptRow(d, q)))
-----------------------------------------------------------------------------
(* The checked kernel: prepare_command and decide_command.                 *)

\* Mutant of Allows: a write role is declared, but nobody asks whose.
Allows_AnyRole(c, rec) == Owner[rec] = c.actor \/ WriteRoles # {}

(* OwnerRolePolicy::allows for the Write grant.  The owner field is never  *)
(* a command input, so the check of the proposed row sees the same owner.  *)
Allows(c, rec) == Owner[rec] = c.actor \/ c.roles \cap WriteRoles # {}

PrepareError(q) ==
    IF ~Resolves(q.actor, q.origin, "Write") THEN "Authority"
    ELSE IF q.cmd \notin Commands THEN "UnknownCommand"
    ELSE IF q.rec \notin Records THEN "Denied"
    ELSE IF ~Allows(ContextOf(q.actor), q.rec) THEN "Denied"
    ELSE IF q.input \notin Inputs[q.cmd] THEN "InvalidInput"
    ELSE "none"

DecideError(d, q) ==
    LET row == d.facts[q.rec]
    IN  IF row.state # From[q.cmd] \/ row.state \in Terminal THEN "InvalidTransition"
        ELSE IF row.val \notin Guard[q.cmd] THEN "GuardFailed"
        ELSE IF Proposed(d, q).val \notin CheckedVals THEN "Invalid"
        ELSE "none"

\* Mutant of SameIntent: the key alone identifies a request.
SameIntent_KeyOnly(row, q) == TRUE

SameIntent(row, q) == row.intent = Intent(q)

(* validate_receipt: what a stored receipt must agree with.                *)
ReceiptValid(d, q) ==
    LET row == d.receipts[ReceiptPk(q)]
    IN  /\ row.intent.expected = q.expected
        /\ row.rev = q.expected + 1
        /\ row.rev <= d.rev
        /\ row.intent.cmd = q.cmd /\ row.intent.rec = q.rec
        /\ row.state = To[q.cmd]

(* What execute_in does with a prepared command: the first test that fails *)
(* names the error, "replay" answers from the receipt, "apply" writes.     *)
LookUp(d, q) ==
    IF ~SameIntent(d.receipts[ReceiptPk(q)], q) THEN "IntentConflict"
    ELSE IF ~ReceiptValid(d, q) THEN "Corrupt"
    ELSE "replay"

Decide(d, q) ==
    IF q.expected # d.rev THEN "Conflict"
    ELSE IF DecideError(d, q) # "none" THEN DecideError(d, q)
    ELSE "apply"

\* Mutant of Verdict: the revision is compared before the receipt is looked up.
Verdict_RevisionFirst(d, q, c) ==
    IF d.rev = 0 THEN "AppNotFound"
    ELSE IF PrepareError(q) # "none" THEN PrepareError(q)
    ELSE IF ContextOf(q.actor) # c THEN "AuthorityChanged"
    ELSE IF q.expected # d.rev THEN "Conflict"
    ELSE IF ReceiptPk(q) \in DOMAIN d.receipts THEN LookUp(d, q)
    ELSE Decide(d, q)

Verdict(d, q, c) ==
    IF d.rev = 0 THEN "AppNotFound"
    ELSE IF PrepareError(q) # "none" THEN PrepareError(q)
    ELSE IF ContextOf(q.actor) # c THEN "AuthorityChanged"
    ELSE IF ReceiptPk(q) \in DOMAIN d.receipts THEN LookUp(d, q)
    ELSE Decide(d, q)
-----------------------------------------------------------------------------
(* Handlers.                                                               *)

ExecutePhases == {"resolve", "load", "facts", "audit", "events", "receipt",
                  "revalidate", "commit", "rollback"}
RecoverPhases == {"lookup", "read", "verify", "recheck"}
Phases == {"idle", "begin"} \cup ExecutePhases \cup RecoverPhases

(* The handler goes from one phase to the next.                            *)
Step(h, from, to) ==
    /\ phase[h] = from
    /\ phase' = [phase EXCEPT ![h] = to]

(* The handler's future ends and drops what it held.                       *)
Finish(h) ==
    /\ phase' = [phase EXCEPT ![h] = "idle"]
    /\ req' = [req EXCEPT ![h] = None]
    /\ ctx' = [ctx EXCEPT ![h] = None]
    /\ work' = [work EXCEPT ![h] = EmptyDb]
    /\ result' = [result EXCEPT ![h] = "none"]
    /\ seen' = [seen EXCEPT ![h] = 0]
    /\ lock' = IF lock = h THEN None ELSE lock

(* The answer reaches the client: the receipt the transaction shows.       *)
Acknowledge(h) ==
    LET pk == ReceiptPk(req[h])
    IN  acks' = acks \cup {[pk |-> pk, intent |-> Intent(req[h]), row |-> work[h].receipts[pk]]}

(* Store::bootstrap: one immediate transaction; an existing application is *)
(* left as it is, whether or not the facts agree.                          *)
Bootstrap(facts) ==
    /\ lock = None
    /\ db.rev = 0
    /\ db' = Db(1, facts, db.audit, db.events, db.receipts)
    /\ UNCHANGED <<authorityVars, lock, handlerVars, acks>>

(* A request for Store::execute or Store::receipt arrives; the latter      *)
(* comes without an origin.                                                *)
Execute(h, q) ==
    /\ Step(h, "idle", "begin")
    /\ req' = [req EXCEPT ![h] = q]
    /\ UNCHANGED <<authorityVars, db, lock, ctx, work, result, seen, acks>>

Recover(h, q) ==
    /\ Step(h, "idle", "lookup")
    /\ req' = [req EXCEPT ![h] = [q EXCEPT !.origin = NoOrigin]]
    /\ UNCHANGED <<authorityVars, db, lock, ctx, work, result, seen, acks>>

(* BEGIN IMMEDIATE.                                                        *)
LockFree == lock = None

Begin(h) ==
    /\ Step(h, "begin", "resolve")
    /\ LockFree
    /\ lock' = h
    /\ work' = [work EXCEPT ![h] = db]
    /\ UNCHANGED <<authorityVars, db, req, ctx, result, seen, acks>>

\* Mutant of BeginFails: no busy timeout.
BeginFails_NoTimeout(h) == FALSE

(* The busy timeout passes, or the connection fails.                       *)
BeginFails(h) ==
    /\ phase[h] = "begin"
    /\ Finish(h)
    /\ UNCHANGED <<authorityVars, db, acks>>

Bound(h) == Resolves(req[h].actor, req[h].origin, "Write")
            /\ ContextOf(req[h].actor).binding = StoreBinding

Refuse(h, why) ==
    /\ result' = [result EXCEPT ![h] = why]
    /\ phase' = [phase EXCEPT ![h] = "rollback"]
    /\ UNCHANGED <<authorityVars, db, lock, req, ctx, work, seen, acks>>

(* The first resolution, then check_binding.                               *)
Resolve(h) ==
    /\ Step(h, "resolve", "load")
    /\ Bound(h)
    /\ ctx' = [ctx EXCEPT ![h] = ContextOf(req[h].actor)]
    /\ seen' = [seen EXCEPT ![h] = generation]
    /\ UNCHANGED <<authorityVars, db, lock, req, work, result, acks>>

ResolveFails(h) ==
    /\ phase[h] = "resolve"
    /\ ~Bound(h)
    /\ Refuse(h, "Authority")

(* load, prepare_command with its own resolution, the receipt lookup and   *)
(* decide_command: nothing another handler does shows inside the transaction. *)
Admit(h) ==
    /\ Step(h, "load", "facts")
    /\ Verdict(work[h], req[h], ctx[h]) = "apply"
    /\ UNCHANGED <<authorityVars, db, lock, req, ctx, work, result, seen, acks>>

Replay(h) ==
    /\ Step(h, "load", "revalidate")
    /\ Verdict(work[h], req[h], ctx[h]) = "replay"
    /\ UNCHANGED <<authorityVars, db, lock, req, ctx, work, result, seen, acks>>

Reject(h) ==
    /\ phase[h] = "load"
    /\ Verdict(work[h], req[h], ctx[h]) \notin {"apply", "replay"}
    /\ Refuse(h, Verdict(work[h], req[h], ctx[h]))

(* UPDATE applications ... WHERE revision = expected.                      *)
WriteFacts(h) ==
    /\ Step(h, "facts", "audit")
    /\ work[h].rev = req[h].expected
    /\ work' = [work EXCEPT ![h] = WithFacts(@, req[h])]
    /\ UNCHANGED <<authorityVars, db, lock, req, ctx, result, seen, acks>>

WriteAudit(h) ==
    /\ Step(h, "audit", "events")
    /\ work[h].rev \notin DOMAIN work[h].audit
    /\ work' = [work EXCEPT ![h] = WithAudit(@, req[h], ctx[h])]
    /\ UNCHANGED <<authorityVars, db, lock, req, ctx, result, seen, acks>>

WriteEvents(h) ==
    /\ Step(h, "events", "receipt")
    /\ \A i \in 0 .. EventCount[req[h].cmd] - 1 :
            <<work[h].rev, i>> \notin DOMAIN work[h].events
    /\ work' = [work EXCEPT ![h] = WithEvents(@, req[h])]
    /\ UNCHANGED <<authorityVars, db, lock, req, ctx, result, seen, acks>>

WriteReceipt(h) ==
    /\ Step(h, "receipt", "revalidate")
    /\ ReceiptPk(req[h]) \notin DOMAIN work[h].receipts
    /\ work' = [work EXCEPT ![h] = WithReceipt(@, req[h])]
    /\ UNCHANGED <<authorityVars, db, lock, req, ctx, result, seen, acks>>

(* A statement fails, before or after it has written: a payload limit, a   *)
(* constraint, the engine, or one of the stages fail_at names (the last of *)
(* them follows the receipt, so a replay, which wrote nothing, is exempt). *)
WriteFails(h) ==
    /\ phase[h] \in {"facts", "audit", "events", "receipt", "revalidate"}
    /\ phase[h] = "revalidate" => work[h] # db
    /\ Refuse(h, "Engine")

\* Mutant of StillCurrent: the grant is checked again, the context is not compared.
StillCurrent_GrantOnly(h) == Bound(h)

(* revalidate: resolve again and compare the whole context.                *)
StillCurrent(h) == Bound(h) /\ ContextOf(req[h].actor) = ctx[h]

Revalidate(h) ==
    /\ Step(h, "revalidate", "commit")
    /\ StillCurrent(h)
    /\ seen' = [seen EXCEPT ![h] = generation]
    /\ UNCHANGED <<authorityVars, db, lock, req, ctx, work, result, acks>>

RevalidateFails(h) ==
    /\ phase[h] = "revalidate"
    /\ ~StillCurrent(h)
    /\ Refuse(h, "AuthorityChanged")

Commit(h) ==
    /\ phase[h] = "commit"
    /\ db' = work[h]
    /\ Acknowledge(h)
    /\ Finish(h)
    /\ UNCHANGED authorityVars

(* The commit reports an error, or the handler ends while it is under way: *)
(* it may have taken effect or not.                                        *)
CommitUnknown(h) ==
    /\ phase[h] = "commit"
    /\ db' \in {db, work[h]}
    /\ Finish(h)
    /\ UNCHANGED <<authorityVars, acks>>

(* The transaction rolls back, explicitly or because it is dropped.        *)
Rollback(h) ==
    /\ phase[h] = "rollback"
    /\ Finish(h)
    /\ UNCHANGED <<authorityVars, db, acks>>

(* The client disconnects and the future is dropped, or the host crashes,  *)
(* which drops every handler one after the other.                          *)
Lose(h) ==
    /\ phase[h] \notin {"idle", "commit"}
    /\ Finish(h)
    /\ UNCHANGED <<authorityVars, db, acks>>

-----------------------------------------------------------------------------
(* Store::receipt: resolve, then one deferred read transaction, whose      *)
(* image is the database at its first SELECT; it never takes the lock.     *)

Answer(h) == Finish(h) /\ UNCHANGED <<authorityVars, db, acks>>

RecoverResolve(h) ==
    /\ Step(h, "lookup", "read")
    /\ Bound(h)
    /\ ctx' = [ctx EXCEPT ![h] = ContextOf(req[h].actor)]
    /\ seen' = [seen EXCEPT ![h] = generation]
    /\ UNCHANGED <<authorityVars, db, lock, req, work, result, acks>>

(* The stored envelope becomes the request that is checked again.          *)
StoredRequest(q) ==
    LET intent == db.receipts[ReceiptPk(q)].intent
    IN  [actor |-> q.actor, origin |-> q.origin, key |-> q.key, cmd |-> intent.cmd,
         rec |-> intent.rec, input |-> intent.input, expected |-> intent.expected]

RecoverRead(h) ==
    /\ Step(h, "read", "verify")
    /\ ReceiptPk(req[h]) \in DOMAIN db.receipts
    /\ work' = [work EXCEPT ![h] = db]
    /\ req' = [req EXCEPT ![h] = StoredRequest(@)]
    /\ UNCHANGED <<authorityVars, db, lock, ctx, result, seen, acks>>

RecoverVerify(h) ==
    /\ Step(h, "verify", "recheck")
    /\ Verdict(work[h], req[h], ctx[h]) = "replay"
    /\ UNCHANGED <<authorityVars, db, lock, req, ctx, work, result, seen, acks>>

RecoverAnswer(h) ==
    /\ phase[h] = "recheck"
    /\ StillCurrent(h)
    /\ Acknowledge(h)
    /\ Finish(h)
    /\ UNCHANGED <<authorityVars, db>>

(* Every way out with an error, or with "no such receipt".                 *)
RecoverFails(h) ==
    /\ \/ phase[h] = "lookup" /\ ~Bound(h)
       \/ phase[h] = "read" /\ ReceiptPk(req[h]) \notin DOMAIN db.receipts
       \/ phase[h] = "verify" /\ Verdict(work[h], req[h], ctx[h]) # "replay"
       \/ phase[h] = "recheck" /\ ~StillCurrent(h)
    /\ Answer(h)
-----------------------------------------------------------------------------
Init ==
    /\ AuthorityInit
    /\ db = EmptyDb
    /\ lock = None
    /\ phase = [h \in Handlers |-> "idle"]
    /\ req = [h \in Handlers |-> None]
    /\ ctx = [h \in Handlers |-> None]
    /\ work = [h \in Handlers |-> EmptyDb]
    /\ result = [h \in Handlers |-> "none"]
    /\ seen = [h \in Handlers |-> 0]
    /\ acks = {}

Operator == AuthorityNext /\ UNCHANGED <<db, lock, handlerVars, acks>>

Arrive(h) == \E q \in Workload : Execute(h, q) \/ Recover(h, q)

Transact(h) ==
    \/ Begin(h) \/ BeginFails(h)
    \/ Resolve(h) \/ ResolveFails(h)
    \/ Admit(h) \/ Replay(h) \/ Reject(h)
    \/ WriteFacts(h) \/ WriteAudit(h) \/ WriteEvents(h) \/ WriteReceipt(h) \/ WriteFails(h)
    \/ Revalidate(h) \/ RevalidateFails(h)
    \/ Commit(h) \/ CommitUnknown(h) \/ Rollback(h)

ReadBack(h) ==
    \/ RecoverResolve(h) \/ RecoverRead(h) \/ RecoverVerify(h)
    \/ RecoverAnswer(h) \/ RecoverFails(h)

Next ==
    \/ Operator
    \/ \E facts \in BootFacts : Bootstrap(facts)
    \/ \E h \in Handlers : Arrive(h) \/ Transact(h) \/ ReadBack(h) \/ Lose(h)

Spec == Init /\ [][Next]_vars

(* The runtime polls every handler it holds: a handler that can go on does. *)
FairSpec == Spec /\ \A h \in Handlers : WF_vars(Transact(h)) /\ WF_vars(ReadBack(h))
-----------------------------------------------------------------------------
(* Types.                                                                  *)

IsTable(t, pks, rows) ==
    /\ t = [pk \in DOMAIN t |-> t[pk]]
    /\ DOMAIN t \subseteq pks
    /\ \A pk \in DOMAIN t : t[pk] \in rows

AuditRows == [actor : Actors, mrev : Nat, cmd : Commands, rec : Records]
ReceiptRows == [rev : Nat, state : States, intent : Intents]

DbTypeOK(d) ==
    /\ d = Db(d.rev, d.facts, d.audit, d.events, d.receipts)
    /\ d.rev \in Nat
    /\ IF d.rev = 0 THEN d = EmptyDb ELSE d.facts \in [Records -> Rows]
    /\ IsTable(d.audit, Nat, AuditRows)
    /\ IsTable(d.events, Nat \X Nat, Rows)
    /\ IsTable(d.receipts, Actors \X Keys, ReceiptRows)

(* Every variable of the store has its type in every reachable state.      *)
TypeOK ==
    /\ AuthorityTypeOK
    /\ DbTypeOK(db)
    /\ lock \in Handlers \cup {None}
    /\ phase \in [Handlers -> Phases]
    /\ req \in [Handlers -> Requests \cup {None}]
    /\ ctx \in [Handlers -> Contexts \cup {None}]
    /\ DOMAIN work = Handlers /\ \A h \in Handlers : DbTypeOK(work[h])
    /\ DOMAIN result = Handlers
    /\ seen \in [Handlers -> Nat]
    /\ \A a \in acks : /\ a.pk \in Actors \X Keys
                       /\ a.row \in ReceiptRows

-----------------------------------------------------------------------------
(* Safety.                                                                 *)

(* A commit is all or nothing: every revision after the first has exactly  *)
(* one audit row, the events its command declares and one receipt, which   *)
(* agree on actor, command, record and revision; and nothing else is       *)
(* stored.  (execute_in writes the four tables in four statements.)        *)
LedgerOK(d) ==
    /\ DOMAIN d.audit = 2 .. d.rev
    /\ DOMAIN d.events =
         UNION {{<<n, i>> : i \in 0 .. EventCount[d.audit[n].cmd] - 1} : n \in DOMAIN d.audit}
    /\ \A n \in DOMAIN d.audit : \E pk \in DOMAIN d.receipts : d.receipts[pk].rev = n
    /\ \A pk \in DOMAIN d.receipts :
         LET row == d.receipts[pk]
         IN  /\ row.rev \in DOMAIN d.audit
             /\ row.rev = row.intent.expected + 1
             /\ row.state = To[row.intent.cmd]
             /\ d.audit[row.rev].actor = pk[1]
             /\ d.audit[row.rev].cmd = row.intent.cmd
             /\ d.audit[row.rev].rec = row.intent.rec
             /\ \A other \in DOMAIN d.receipts : d.receipts[other].rev = row.rev => other = pk

Ledger == LedgerOK(db)

(* What a client was told stays true, after crashes and forever: every     *)
(* acknowledged receipt is the stored one, and it is of the intent the     *)
(* client sent; so two requests with one key never both succeed with       *)
(* different effects, and a retry gets the original receipt.               *)
AckDurable ==
    \A a \in acks : /\ a.pk \in DOMAIN db.receipts
                    /\ db.receipts[a.pk] = a.row
                    /\ a.row.intent = a.intent

(* validate_receipt never finds a stored receipt that disagrees with the   *)
(* snapshot it was loaded with.                                            *)
NeverCorrupt ==
    \A h \in Handlers :
        phase[h] \in {"load", "verify"} => Verdict(work[h], req[h], ctx[h]) # "Corrupt"

(* A refusal that depends on the stored facts is definite: while a handler *)
(* is answering it, its key has no receipt (nothing of it was applied); an *)
(* IntentConflict, on the contrary, means that the key has one.            *)
RefusalIsDefinite ==
    \A h \in Handlers : phase[h] = "rollback" =>
        /\ result[h] \in {"Conflict", "InvalidTransition", "GuardFailed", "Invalid"}
              => ReceiptPk(req[h]) \notin DOMAIN db.receipts
        /\ result[h] = "IntentConflict"
              => /\ ReceiptPk(req[h]) \in DOMAIN db.receipts
                 /\ db.receipts[ReceiptPk(req[h])].intent # Intent(req[h])

(* A handler that is about to commit holds the current authority, unless   *)
(* the authority changed after its last look at it: revalidation leaves no *)
(* other window.                                                           *)
AuthorityAtCommit ==
    \A h \in Handlers :
        phase[h] = "commit" /\ seen[h] = generation =>
            /\ Bound(h)
            /\ ContextOf(req[h].actor) = ctx[h]

(* Every audited change was made by the row's owner or under a write role  *)
(* of a membership that the operator published with the Write grant, and   *)
(* that the audit names.                                                   *)
PolicyOnAudit ==
    \A n \in DOMAIN db.audit : \E file \in AccessFiles :
        LET row == db.audit[n]  f == file[row.actor]
        IN  /\ f.mrev = row.mrev
            /\ f.active /\ "Write" \in f.grants
            /\ Owner[row.rec] = row.actor \/ f.roles \cap WriteRoles # {}

(* The database only grows, one revision at a time: no step changes an     *)
(* audit row, an event or a receipt that is there, and none changes any of *)
(* it without a new revision.                                              *)
Keeps(old, new) == \A pk \in DOMAIN old : pk \in DOMAIN new /\ new[pk] = old[pk]

AppendOnly ==
    [][/\ db'.rev = db.rev + 1
       /\ Keeps(db.audit, db'.audit)
       /\ Keeps(db.events, db'.events)
       /\ Keeps(db.receipts, db'.receipts)]_db

(* The store implements the atomic log: every step is one whole command of *)
(* the log or no step of it.                                               *)
LoggedAs(n) ==
    LET pk == CHOOSE pk \in DOMAIN db.receipts : db.receipts[pk].rev = n
    IN  [pk |-> pk, intent |-> db.receipts[pk].intent]

WellNamed == {q \in Workload : q.cmd \in Commands /\ q.rec \in Records}

Log == INSTANCE CommandLog WITH
    Pks <- {ReceiptPk(q) : q \in WellNamed}, Intents <- {Intent(q) : q \in WellNamed},
    rev <- db.rev, facts <- db.facts, log <- [n \in DOMAIN db.audit |-> LoggedAs(n)]

ImplementsLog == Log!LogSpec

(* A handler does not hang: every request is answered, or lost with its    *)
(* handler, whatever the other handlers do with the lock.                  *)
HandlersFinish == \A h \in Handlers : phase[h] # "idle" ~> phase[h] = "idle"
-----------------------------------------------------------------------------
(* The inductive invariant behind Ledger and AckDurable.                   *)

(* A request whose command, record and intent are in order against d.      *)
Admissible(d, q) ==
    /\ q.cmd \in Commands /\ q.rec \in Records
    /\ d.rev # 0 /\ q.expected = d.rev
    /\ ReceiptPk(q) \notin DOMAIN d.receipts
    /\ DecideError(d, q) = "none"

(* What a transaction shows after each of its writes.                      *)
Image(p, d, q, c) ==
    LET facts == WithFacts(d, q)
        audit == WithAudit(facts, q, c)
        events == WithEvents(audit, q)
    IN  CASE p = "facts" -> d
          [] p = "audit" -> facts
          [] p = "events" -> audit
          [] p = "receipt" -> events
          [] p = "commit" -> WithReceipt(events, q)

Writing(h, p) == Admissible(db, req[h]) /\ work[h] = Image(p, db, req[h], ctx[h])

HasReceipt(d, q) ==
    ReceiptPk(q) \in DOMAIN d.receipts /\ d.receipts[ReceiptPk(q)].intent = Intent(q)

(* By phase: who holds the lock, what a transaction shows, and that a      *)
(* reader's image is a past of the database.                               *)
HandlerOK(h) ==
    /\ phase[h] \in ExecutePhases <=> lock = h
    /\ phase[h] # "idle" => req[h] \in Requests
    /\ phase[h] \in {"load", "facts", "audit", "events", "receipt", "revalidate", "commit"}
          => ctx[h] \in Contexts
    /\ phase[h] \in {"resolve", "load"} => work[h] = db
    /\ phase[h] \in {"facts", "audit", "events", "receipt"} => Writing(h, phase[h])
    /\ phase[h] \in {"revalidate", "commit"} =>
          Writing(h, "commit") \/ (work[h] = db /\ HasReceipt(db, req[h]))
    /\ phase[h] \in {"verify", "recheck"} =>
          /\ LedgerOK(work[h])
          /\ HasReceipt(work[h], req[h])
          /\ Keeps(work[h].receipts, db.receipts)

(* Each transaction shows the committed database plus exactly the writes   *)
(* its phase stands for, only the lock holder writes, and the Ledger and   *)
(* the acknowledged receipts agree with it.  (execute_in, receipt.)        *)
IInv ==
    /\ TypeOK
    /\ Ledger
    /\ AckDurable
    /\ \A h \in Handlers : HandlerOK(h)
==============================================================================
