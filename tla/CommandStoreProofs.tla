------------------------- MODULE CommandStoreProofs -------------------------
(***************************************************************************)
(* Proofs about CommandStore, for every value of its constants.            *)
(***************************************************************************)
EXTENDS CommandStore, TLAPS

-----------------------------------------------------------------------------
(* Tables.                                                                 *)

(* Inserting a row keeps a table a table and the other rows as they were.  *)
LEMMA InsertTable ==
    ASSUME NEW pks, NEW rows, NEW t, IsTable(t, pks, rows),
           NEW pk \in pks, NEW row \in rows
    PROVE  /\ IsTable(Insert(t, pk, row), pks, rows)
           /\ DOMAIN Insert(t, pk, row) = DOMAIN t \cup {pk}
           /\ Insert(t, pk, row)[pk] = row
           /\ \A k \in DOMAIN t : k # pk => Insert(t, pk, row)[k] = t[k]
  BY DEF IsTable, Insert

LEMMA EmptyTableOK ==
    ASSUME NEW pks, NEW rows
    PROVE  IsTable(EmptyTable, pks, rows) /\ DOMAIN EmptyTable = {}
  BY DEF IsTable, EmptyTable

-----------------------------------------------------------------------------
(* The database images of a transaction, field by field.                   *)

LEMMA FactsImage ==
    ASSUME NEW d, DbTypeOK(d), NEW q \in Requests, NEW c \in Contexts, Admissible(d, q)
    PROVE  LET w == WithFacts(d, q)
           IN  /\ DbTypeOK(w)
               /\ w.rev = d.rev + 1 /\ w.facts \in [Records -> Rows]
               /\ w.audit = d.audit /\ w.events = d.events /\ w.receipts = d.receipts
  <1> DEFINE w == WithFacts(d, q)
             row == Proposed(d, q)
  <1>1. d.facts \in [Records -> Rows] /\ q.rec \in Records /\ q.cmd \in Commands
    BY DEF DbTypeOK, Admissible
  <1>2. row \in Rows
    <2>1. To[q.cmd] \in States
      BY <1>1, StoreAssumption DEF CheckedDeclarations
    <2>2. q.input \in Vals \cup {NoInput}
      BY DEF Requests
    <2>3. d.facts[q.rec].val \in Vals
      BY <1>1 DEF Rows
    <2> QED
      BY <2>1, <2>2, <2>3 DEF Proposed, Rows
  <1>3. w = Db(d.rev + 1, [d.facts EXCEPT ![q.rec] = row], d.audit, d.events, d.receipts)
    BY DEF WithFacts
  <1>4. [d.facts EXCEPT ![q.rec] = row] \in [Records -> Rows]
    BY <1>1, <1>2
  <1>5. d.rev \in Nat /\ d.rev + 1 # 0
    BY DEF DbTypeOK
  <1> HIDE DEF w, row
  <1>6. DbTypeOK(w)
    BY <1>3, <1>4, <1>5 DEF DbTypeOK, Db
  <1>7. QED
    BY <1>3, <1>4, <1>6 DEF w, Db

AuditRow(q, c) == [actor |-> q.actor, mrev |-> c.mrev, cmd |-> q.cmd, rec |-> q.rec]

LEMMA AuditImage ==
    ASSUME NEW d, DbTypeOK(d), d.rev # 0, NEW q \in Requests, NEW c \in Contexts,
           q.cmd \in Commands, q.rec \in Records
    PROVE  LET w == WithAudit(d, q, c)
           IN  /\ DbTypeOK(w)
               /\ w.audit = Insert(d.audit, d.rev, AuditRow(q, c))
               /\ w.rev = d.rev /\ w.facts = d.facts
               /\ w.events = d.events /\ w.receipts = d.receipts
  <1> DEFINE w == WithAudit(d, q, c)
             audit == Insert(d.audit, d.rev, AuditRow(q, c))
  <1>1. w = Db(d.rev, d.facts, audit, d.events, d.receipts)
    BY DEF WithAudit, AuditRow
  <1>2. AuditRow(q, c) \in AuditRows
    BY DEF AuditRow, AuditRows, Requests, Contexts
  <1>3. IsTable(d.audit, Nat, AuditRows) /\ d.rev \in Nat
    BY DEF DbTypeOK
  <1>4. IsTable(audit, Nat, AuditRows)
    BY <1>2, <1>3, InsertTable
  <1> HIDE DEF w, audit
  <1>5. DbTypeOK(w)
    BY <1>1, <1>4 DEF DbTypeOK, Db
  <1>6. QED
    BY <1>1, <1>5 DEF w, audit, Db

(* The rows one command adds to committed_events.                          *)
EventPks(rev, cmd) == {<<rev, i>> : i \in 0 .. EventCount[cmd] - 1}

LEMMA EventsImage ==
    ASSUME NEW d, DbTypeOK(d), d.rev # 0, NEW q \in Requests,
           q.cmd \in Commands, q.rec \in Records
    PROVE  LET w == WithEvents(d, q)
           IN  /\ DbTypeOK(w)
               /\ DOMAIN w.events = DOMAIN d.events \cup EventPks(d.rev, q.cmd)
               /\ \A pk \in DOMAIN d.events \ EventPks(d.rev, q.cmd) :
                     w.events[pk] = d.events[pk]
               /\ w.rev = d.rev /\ w.facts = d.facts
               /\ w.audit = d.audit /\ w.receipts = d.receipts
  <1> DEFINE w == WithEvents(d, q)
             new == EventPks(d.rev, q.cmd)
             events == [pk \in DOMAIN d.events \cup new |->
                          IF pk \in new THEN d.facts[q.rec] ELSE d.events[pk]]
  <1>1. w = Db(d.rev, d.facts, d.audit, events, d.receipts)
    BY DEF WithEvents, EventPks
  <1>2. d.facts[q.rec] \in Rows
    BY DEF DbTypeOK
  <1>3. IsTable(d.events, Nat \X Nat, Rows) /\ d.rev \in Nat
    BY DEF DbTypeOK
  <1>4. new \subseteq Nat \X Nat
    <2>1. EventCount[q.cmd] \in Nat
      BY StoreAssumption DEF CheckedDeclarations
    <2>2. QED
      BY <1>3, <2>1 DEF EventPks
  <1> HIDE DEF new
  <1>5. IsTable(events, Nat \X Nat, Rows)
    BY <1>2, <1>3, <1>4 DEF IsTable
  <1>6. DOMAIN events = DOMAIN d.events \cup new
    OBVIOUS
  <1>7. \A pk \in DOMAIN d.events \ new : events[pk] = d.events[pk]
    OBVIOUS
  <1> HIDE DEF w, events
  <1>8. DbTypeOK(w)
    BY <1>1, <1>5 DEF DbTypeOK, Db
  <1>9. w.events = events /\ w.rev = d.rev /\ w.facts = d.facts
        /\ w.audit = d.audit /\ w.receipts = d.receipts
    BY <1>1 DEF Db
  <1>10. QED
    BY <1>6, <1>7, <1>8, <1>9 DEF w, new

LEMMA ReceiptImage ==
    ASSUME NEW d, DbTypeOK(d), d.rev # 0, NEW q \in Requests,
           q.cmd \in Commands, q.rec \in Records
    PROVE  LET w == WithReceipt(d, q)
           IN  /\ DbTypeOK(w)
               /\ w.receipts = Insert(d.receipts, ReceiptPk(q), ReceiptRow(d, q))
               /\ ReceiptPk(q) \in Actors \X Keys /\ ReceiptRow(d, q) \in ReceiptRows
               /\ w.rev = d.rev /\ w.facts = d.facts
               /\ w.audit = d.audit /\ w.events = d.events
  <1> DEFINE w == WithReceipt(d, q)
             receipts == Insert(d.receipts, ReceiptPk(q), ReceiptRow(d, q))
  <1>1. w = Db(d.rev, d.facts, d.audit, d.events, receipts)
    BY DEF WithReceipt
  <1>2. ReceiptPk(q) \in Actors \X Keys
    BY DEF ReceiptPk, Requests
  <1>3. IsTable(d.receipts, Actors \X Keys, ReceiptRows) /\ d.rev \in Nat
    BY DEF DbTypeOK
  <1>4. ReceiptRow(d, q) \in ReceiptRows
    <2>1. To[q.cmd] \in States
      BY StoreAssumption DEF CheckedDeclarations
    <2>2. Intent(q) \in Intents
      BY DEF Intent, Intents, Requests
    <2>3. QED
      BY <1>3, <2>1, <2>2 DEF ReceiptRow, ReceiptRows
  <1>5. IsTable(receipts, Actors \X Keys, ReceiptRows)
    BY <1>2, <1>3, <1>4, InsertTable
  <1> HIDE DEF w, receipts
  <1>6. DbTypeOK(w)
    BY <1>1, <1>5 DEF DbTypeOK, Db
  <1>7. QED
    BY <1>1, <1>2, <1>4, <1>6 DEF w, receipts, Db

-----------------------------------------------------------------------------
(* A whole transaction.                                                    *)

WritePhases == {"facts", "audit", "events", "receipt", "commit"}

(* Every image has its type; the last one is one revision further, with    *)
(* one more audit row, its events and one more receipt.                    *)
LEMMA ImageTypes ==
    ASSUME NEW d, DbTypeOK(d), NEW q \in Requests, NEW c \in Contexts, Admissible(d, q)
    PROVE  /\ \A p \in WritePhases : DbTypeOK(Image(p, d, q, c))
           /\ LET w == Image("commit", d, q, c)
              IN  /\ w.rev = d.rev + 1
                  /\ w.facts = WithFacts(d, q).facts
                  /\ w.audit = Insert(d.audit, d.rev + 1, AuditRow(q, c))
                  /\ DOMAIN w.events = DOMAIN d.events \cup EventPks(d.rev + 1, q.cmd)
                  /\ \A pk \in DOMAIN d.events \ EventPks(d.rev + 1, q.cmd) :
                        w.events[pk] = d.events[pk]
                  /\ w.receipts = Insert(d.receipts, ReceiptPk(q),
                        [rev |-> d.rev + 1, state |-> To[q.cmd], intent |-> Intent(q)])
                  /\ ReceiptPk(q) \in Actors \X Keys
                  /\ [rev |-> d.rev + 1, state |-> To[q.cmd], intent |-> Intent(q)]
                        \in ReceiptRows
  <1> DEFINE f == WithFacts(d, q)
             a == WithAudit(f, q, c)
             e == WithEvents(a, q)
             r == WithReceipt(e, q)
  <1>1. /\ Image("facts", d, q, c) = d /\ Image("audit", d, q, c) = f
        /\ Image("events", d, q, c) = a /\ Image("receipt", d, q, c) = e
        /\ Image("commit", d, q, c) = r
    BY DEF Image
  <1>2. q.cmd \in Commands /\ q.rec \in Records /\ d.rev \in Nat
    BY DEF Admissible, DbTypeOK
  <1>3. /\ DbTypeOK(f) /\ f.rev = d.rev + 1
        /\ f.audit = d.audit /\ f.events = d.events /\ f.receipts = d.receipts
    BY FactsImage
  <1> HIDE DEF f
  <1>4. /\ DbTypeOK(a) /\ a.rev = f.rev /\ a.facts = f.facts
        /\ a.audit = Insert(f.audit, f.rev, AuditRow(q, c))
        /\ a.events = f.events /\ a.receipts = f.receipts
    BY <1>2, <1>3, AuditImage
  <1> HIDE DEF a
  <1>5. /\ DbTypeOK(e) /\ e.rev = a.rev /\ e.facts = a.facts
        /\ DOMAIN e.events = DOMAIN a.events \cup EventPks(a.rev, q.cmd)
        /\ \A pk \in DOMAIN a.events \ EventPks(a.rev, q.cmd) : e.events[pk] = a.events[pk]
        /\ e.audit = a.audit /\ e.receipts = a.receipts
    BY <1>2, <1>3, <1>4, EventsImage
  <1> HIDE DEF e
  <1>6. /\ DbTypeOK(r) /\ r.rev = e.rev /\ r.facts = e.facts
        /\ r.receipts = Insert(e.receipts, ReceiptPk(q), ReceiptRow(e, q))
        /\ ReceiptPk(q) \in Actors \X Keys /\ ReceiptRow(e, q) \in ReceiptRows
        /\ r.audit = e.audit /\ r.events = e.events
    BY <1>2, <1>3, <1>4, <1>5, ReceiptImage
  <1> HIDE DEF r
  <1>7. ReceiptRow(e, q) = [rev |-> d.rev + 1, state |-> To[q.cmd], intent |-> Intent(q)]
    BY <1>3, <1>4, <1>5 DEF ReceiptRow
  <1>8. \A p \in WritePhases : DbTypeOK(Image(p, d, q, c))
    BY <1>1, <1>3, <1>4, <1>5, <1>6 DEF WritePhases
  <1>9. QED
    BY <1>1, <1>3, <1>4, <1>5, <1>6, <1>7, <1>8 DEF f

(* A transaction that commits keeps the ledger a ledger, and every row     *)
(* that was there.                                                         *)
LEMMA CommitLedger ==
    ASSUME NEW d, DbTypeOK(d), LedgerOK(d), NEW q \in Requests, NEW c \in Contexts,
           Admissible(d, q)
    PROVE  LET w == Image("commit", d, q, c)
           IN  /\ LedgerOK(w)
               /\ Keeps(d.audit, w.audit)
               /\ Keeps(d.events, w.events)
               /\ Keeps(d.receipts, w.receipts)
               /\ HasReceipt(w, q)
  <1> DEFINE w == Image("commit", d, q, c)
             n == d.rev + 1
             key == ReceiptPk(q)
             new == [rev |-> n, state |-> To[q.cmd], intent |-> Intent(q)]
             arow == AuditRow(q, c)
  <1>1. /\ w.rev = n
        /\ w.audit = Insert(d.audit, n, arow)
        /\ DOMAIN w.events = DOMAIN d.events \cup EventPks(n, q.cmd)
        /\ \A pk \in DOMAIN d.events \ EventPks(n, q.cmd) : w.events[pk] = d.events[pk]
        /\ w.receipts = Insert(d.receipts, key, new)
        /\ key \in Actors \X Keys /\ new \in ReceiptRows
    BY ImageTypes
  <1>2. /\ d.rev \in Nat /\ d.rev # 0 /\ n \in Nat /\ n = d.rev + 1 /\ q.expected = d.rev
        /\ q.cmd \in Commands /\ key \notin DOMAIN d.receipts
    BY DEF DbTypeOK, Admissible
  <1>3. /\ IsTable(d.audit, Nat, AuditRows) /\ IsTable(d.receipts, Actors \X Keys, ReceiptRows)
        /\ arow \in AuditRows
    BY DEF DbTypeOK, AuditRow, AuditRows, Requests, Contexts, Admissible
  <1>4. arow.actor = q.actor /\ arow.cmd = q.cmd /\ arow.rec = q.rec
    BY DEF AuditRow
  <1>5. new.rev = n /\ new.state = To[q.cmd] /\ new.intent = Intent(q)
    OBVIOUS
  <1>6. /\ Intent(q).cmd = q.cmd /\ Intent(q).rec = q.rec /\ Intent(q).expected = d.rev
         /\ key[1] = q.actor
    BY <1>2 DEF Intent, ReceiptPk
  <1> HIDE DEF w, n, key, new, arow
  <1>7. DOMAIN d.audit = 2 .. d.rev
    BY DEF LedgerOK
  <1>8. n \notin DOMAIN d.audit
    BY <1>2, <1>7
  <1>9. /\ DOMAIN w.audit = DOMAIN d.audit \cup {n} /\ w.audit[n] = arow
        /\ \A k \in DOMAIN d.audit : w.audit[k] = d.audit[k]
    BY <1>1, <1>8 DEF Insert
  <1>10. /\ DOMAIN w.receipts = DOMAIN d.receipts \cup {key} /\ w.receipts[key] = new
         /\ \A k \in DOMAIN d.receipts : w.receipts[k] = d.receipts[k]
    BY <1>1, <1>2 DEF Insert
  <1>11. DOMAIN w.audit = 2 .. w.rev
    <2>1. \A k : k \in 2 .. d.rev \cup {d.rev + 1} <=> k \in 2 .. (d.rev + 1)
      BY <1>2
    <2>2. 2 .. d.rev \cup {n} = 2 .. n
      BY <1>2, <2>1
    <2>3. QED
      BY <1>1, <1>7, <1>9, <2>2
  <1>12. DOMAIN d.events = UNION {EventPks(k, d.audit[k].cmd) : k \in DOMAIN d.audit}
    BY DEF LedgerOK, EventPks
  <1>13. DOMAIN w.events = UNION {EventPks(k, w.audit[k].cmd) : k \in DOMAIN w.audit}
    BY <1>1, <1>9, <1>4, <1>12
  <1>14. \A k \in DOMAIN w.audit : \E pk \in DOMAIN w.receipts : w.receipts[pk].rev = k
    <2>1. \A k \in DOMAIN d.audit : \E pk \in DOMAIN d.receipts : d.receipts[pk].rev = k
      BY DEF LedgerOK
    <2>2. QED
      BY <2>1, <1>9, <1>10, <1>5
  <1>15. ASSUME NEW pk \in DOMAIN w.receipts
         PROVE  LET row == w.receipts[pk]
                IN  /\ row.rev \in DOMAIN w.audit
                    /\ row.rev = row.intent.expected + 1
                    /\ row.state = To[row.intent.cmd]
                    /\ w.audit[row.rev].actor = pk[1]
                    /\ w.audit[row.rev].cmd = row.intent.cmd
                    /\ w.audit[row.rev].rec = row.intent.rec
                    /\ \A other \in DOMAIN w.receipts :
                          w.receipts[other].rev = row.rev => other = pk
    <2>1. \A k \in DOMAIN d.receipts : d.receipts[k].rev \in DOMAIN d.audit
      BY DEF LedgerOK
    <2>2. CASE pk = key
      <3>1. w.receipts[pk] = new
        BY <2>2, <1>10
      <3>2. \A other \in DOMAIN w.receipts : w.receipts[other].rev = n => other = key
        BY <1>8, <1>10, <2>1
      <3>3. n = d.rev + 1
        BY <1>2
      <3>4. QED
        BY <2>2, <3>1, <3>2, <3>3, <1>9, <1>4, <1>5, <1>6
    <2>3. CASE pk \in DOMAIN d.receipts
      <3>1. w.receipts[pk] = d.receipts[pk]
        BY <2>3, <1>10
      <3> DEFINE row == d.receipts[pk]
      <3>2. /\ row.rev \in DOMAIN d.audit
            /\ row.rev = row.intent.expected + 1
            /\ row.state = To[row.intent.cmd]
            /\ d.audit[row.rev].actor = pk[1]
            /\ d.audit[row.rev].cmd = row.intent.cmd
            /\ d.audit[row.rev].rec = row.intent.rec
            /\ \A other \in DOMAIN d.receipts : d.receipts[other].rev = row.rev => other = pk
        BY <2>3 DEF LedgerOK
      <3> HIDE DEF row
      <3>3. \A other \in DOMAIN w.receipts : w.receipts[other].rev = row.rev => other = pk
        BY <1>8, <1>10, <1>5, <3>2
      <3>4. w.audit[row.rev] = d.audit[row.rev] /\ row.rev \in DOMAIN w.audit
        BY <1>9, <3>2
      <3>5. QED
        BY <3>1, <3>2, <3>3, <3>4 DEF row
    <2>4. QED
      BY <1>10, <2>2, <2>3
  <1>16. LedgerOK(w)
    BY <1>11, <1>13, <1>14, <1>15 DEF LedgerOK, EventPks
  <1>17. Keeps(d.audit, w.audit) /\ Keeps(d.receipts, w.receipts)
    BY <1>9, <1>10 DEF Keeps
  <1>18. Keeps(d.events, w.events)
    <2>1. \A pk \in DOMAIN d.events : pk \notin EventPks(n, q.cmd)
      BY <1>8, <1>12 DEF EventPks
    <2>2. QED
      BY <1>1, <2>1 DEF Keeps
  <1>19. HasReceipt(w, q)
    BY <1>10, <1>5 DEF HasReceipt, key
  <1>20. QED
    BY <1>16, <1>17, <1>18, <1>19 DEF w

-----------------------------------------------------------------------------
(* Steps.                                                                  *)

(* What a step of h leaves to every other handler.                         *)
Others(h) ==
    \A g \in Handlers \ {h} :
        /\ phase'[g] = phase[g] /\ req'[g] = req[g] /\ ctx'[g] = ctx[g] /\ work'[g] = work[g]
        /\ lock' = g <=> lock = g

(* A step that leaves the database alone does not disturb other handlers.  *)
LEMMA QuietOthers ==
    ASSUME IInv, NEW h \in Handlers, Others(h), db' = db
    PROVE  \A g \in Handlers \ {h} : HandlerOK(g)'
  BY DEF IInv, HandlerOK, Others, Writing, ExecutePhases

(* Finishing types, and leaves h idle.                                     *)
LEMMA FinishStep ==
    ASSUME TypeOK, NEW h \in Handlers, Finish(h)
    PROVE  /\ phase' \in [Handlers -> Phases] /\ phase'[h] = "idle" /\ lock' # h
           /\ lock' \in Handlers \cup {None}
           /\ req' \in [Handlers -> Requests \cup {None}]
           /\ ctx' \in [Handlers -> Contexts \cup {None}]
           /\ DOMAIN work' = Handlers /\ \A g \in Handlers : DbTypeOK(work'[g])
           /\ DOMAIN result' = Handlers
           /\ seen' \in [Handlers -> Nat]
           /\ Others(h)
  <1>1. DbTypeOK(EmptyDb)
    BY EmptyTableOK DEF DbTypeOK, EmptyDb, Db
  <1>2. DOMAIN work' = Handlers /\ \A g \in Handlers : DbTypeOK(work'[g])
    BY <1>1 DEF TypeOK, Finish
  <1>3. QED
    BY <1>2, StoreAssumption DEF TypeOK, Finish, Phases, Others

(* So a step of h that leaves the database alone only has itself to check. *)
LEMMA QuietStep ==
    ASSUME IInv, NEW h \in Handlers, TypeOK', Others(h), UNCHANGED <<db, acks>>, HandlerOK(h)'
    PROVE  IInv'
  <1>1. \A g \in Handlers : HandlerOK(g)'
    BY QuietOthers
  <1>2. Ledger' /\ AckDurable'
    BY DEF IInv, Ledger, AckDurable
  <1>3. QED
    BY <1>1, <1>2 DEF IInv

LEMMA FinishQuiet ==
    ASSUME IInv, NEW h \in Handlers, Finish(h), UNCHANGED <<authorityVars, db, acks>>
    PROVE  IInv'
  <1>1. TypeOK
    BY DEF IInv
  <1>2. TypeOK'
    BY <1>1, FinishStep DEF TypeOK, AuthorityTypeOK, authorityVars
  <1>3. HandlerOK(h)'
    BY <1>1, FinishStep DEF HandlerOK, ExecutePhases
  <1>4. QED
    BY <1>1, <1>2, <1>3, FinishStep, QuietStep

(* A refusal only marks the handler for rollback.                          *)
LEMMA RefuseStep ==
    ASSUME IInv, NEW h \in Handlers, NEW why, phase[h] \in ExecutePhases, Refuse(h, why)
    PROVE  IInv'
  <1>1. TypeOK /\ HandlerOK(h)
    BY DEF IInv
  <1>2. TypeOK'
    BY <1>1 DEF TypeOK, AuthorityTypeOK, authorityVars, Refuse, Phases, ExecutePhases
  <1>3. phase' = [phase EXCEPT ![h] = "rollback"] /\ phase \in [Handlers -> Phases]
        /\ UNCHANGED <<db, lock, req, ctx, work, acks>>
    BY <1>1 DEF TypeOK, Refuse
  <1>4. HandlerOK(h)'
    BY <1>1, <1>3 DEF HandlerOK, ExecutePhases
  <1>5. Others(h)
    BY <1>3 DEF Others
  <1>6. QED
    BY <1>2, <1>3, <1>4, <1>5, QuietStep

(* A request arrives.                                                      *)
LEMMA ArriveStep ==
    ASSUME IInv, NEW h \in Handlers, NEW q \in Workload, Execute(h, q) \/ Recover(h, q)
    PROVE  IInv'
  <1>1. TypeOK /\ HandlerOK(h) /\ phase[h] = "idle"
    BY DEF IInv, Execute, Recover, Step
  <1>2. q \in Requests /\ [q EXCEPT !.origin = NoOrigin] \in Requests
    BY StoreAssumption DEF Requests
  <1>3. PICK p \in {"begin", "lookup"}, r \in Requests :
            /\ phase' = [phase EXCEPT ![h] = p] /\ req' = [req EXCEPT ![h] = r]
            /\ UNCHANGED <<authorityVars, db, lock, ctx, work, result, seen, acks>>
    BY <1>2 DEF Execute, Recover, Step
  <1>4. TypeOK'
    BY <1>1, <1>3 DEF TypeOK, AuthorityTypeOK, authorityVars, Phases, RecoverPhases
  <1>5. HandlerOK(h)'
    BY <1>1, <1>3 DEF TypeOK, HandlerOK, ExecutePhases
  <1>6. Others(h)
    BY <1>1, <1>3 DEF TypeOK, Others
  <1>7. QED
    BY <1>3, <1>4, <1>5, <1>6, QuietStep

(* Taking the lock.                                                        *)
LEMMA BeginStep ==
    ASSUME IInv, NEW h \in Handlers, Begin(h)
    PROVE  IInv'
  <1>1. TypeOK /\ HandlerOK(h) /\ lock = None /\ None \notin Handlers
    BY StoreAssumption DEF IInv, Begin, LockFree
  <1>2. TypeOK'
    BY <1>1 DEF Begin, Step, TypeOK, AuthorityTypeOK, authorityVars, Phases, ExecutePhases
  <1>3. HandlerOK(h)'
    BY <1>1 DEF Begin, Step, TypeOK, HandlerOK, ExecutePhases
  <1>4. Others(h)
    BY <1>1 DEF Begin, Step, TypeOK, Others
  <1>5. QED
    BY <1>2, <1>3, <1>4, QuietStep DEF Begin

LEMMA ContextType ==
    ASSUME AuthorityTypeOK, NEW actor \in Actors
    PROVE  ContextOf(actor) \in Contexts
  BY DEF AuthorityTypeOK, AccessFacts, ContextOf, Contexts

(* A resolution, of a command or of a recovery.                            *)
LEMMA ResolveStep ==
    ASSUME IInv, NEW h \in Handlers, Resolve(h) \/ RecoverResolve(h)
    PROVE  IInv'
  <1>1. TypeOK /\ HandlerOK(h) /\ req[h] \in Requests
    BY DEF IInv, HandlerOK, Resolve, RecoverResolve, Step
  <1>2. ContextOf(req[h].actor) \in Contexts
    BY <1>1, ContextType DEF TypeOK, Requests
  <1>3. TypeOK'
    BY <1>1, <1>2 DEF Resolve, RecoverResolve, Step, TypeOK, AuthorityTypeOK, authorityVars,
                      Phases, ExecutePhases, RecoverPhases
  <1>4. HandlerOK(h)'
    BY <1>1, <1>2 DEF Resolve, RecoverResolve, Step, TypeOK, HandlerOK, ExecutePhases
  <1>5. Others(h)
    BY <1>1 DEF Resolve, RecoverResolve, Step, TypeOK, Others
  <1>6. UNCHANGED <<db, acks>>
    BY DEF Resolve, RecoverResolve
  <1>7. QED
    BY <1>3, <1>4, <1>5, <1>6, QuietStep

(* What the two ways on from the verdict establish.                        *)
LEMMA VerdictMeans ==
    ASSUME NEW d, NEW q, NEW c
    PROVE  /\ Verdict(d, q, c) = "apply" => Admissible(d, q)
           /\ Verdict(d, q, c) = "replay" => HasReceipt(d, q)
  <1>1. PrepareError(q) = "none" => q.cmd \in Commands /\ q.rec \in Records
    BY DEF PrepareError
  <1>2. PrepareError(q) \notin {"apply", "replay"}
    BY DEF PrepareError
  <1>3. Decide(d, q) = "apply" => q.expected = d.rev /\ DecideError(d, q) = "none"
    BY DEF Decide, DecideError
  <1>4. Decide(d, q) # "replay"
    BY DEF Decide, DecideError
  <1>5. LookUp(d, q) = "replay" => SameIntent(d.receipts[ReceiptPk(q)], q)
    BY DEF LookUp
  <1>6. LookUp(d, q) # "apply"
    BY DEF LookUp
  <1>7. ASSUME Verdict(d, q, c) = "apply"
        PROVE  d.rev # 0 /\ PrepareError(q) = "none" /\ Decide(d, q) = "apply"
               /\ ReceiptPk(q) \notin DOMAIN d.receipts
    BY <1>2, <1>6, <1>7 DEF Verdict
  <1>8. ASSUME Verdict(d, q, c) = "replay"
        PROVE  LookUp(d, q) = "replay" /\ ReceiptPk(q) \in DOMAIN d.receipts
    BY <1>2, <1>4, <1>8 DEF Verdict
  <1>9. QED
    BY <1>1, <1>3, <1>5, <1>7, <1>8 DEF Admissible, HasReceipt, SameIntent

LEMMA VerdictStep ==
    ASSUME IInv, NEW h \in Handlers, Admit(h) \/ Replay(h)
    PROVE  IInv'
  <1>1. /\ TypeOK /\ HandlerOK(h) /\ phase[h] = "load" /\ work[h] = db
        /\ UNCHANGED <<authorityVars, db, lock, req, ctx, work, result, seen, acks>>
    BY DEF IInv, HandlerOK, Admit, Replay, Step
  <1>2. \/ phase' = [phase EXCEPT ![h] = "facts"] /\ Admissible(db, req[h])
        \/ phase' = [phase EXCEPT ![h] = "revalidate"] /\ HasReceipt(db, req[h])
    BY <1>1, VerdictMeans DEF Admit, Replay, Step
  <1>3. TypeOK'
    BY <1>1, <1>2 DEF TypeOK, AuthorityTypeOK, authorityVars, Phases, ExecutePhases
  <1>4. Image("facts", db, req[h], ctx[h]) = db
    BY DEF Image
  <1>5. HandlerOK(h)'
    BY <1>1, <1>2, <1>4 DEF TypeOK, HandlerOK, ExecutePhases, Writing
  <1>6. Others(h)
    BY <1>1, <1>2 DEF TypeOK, Others
  <1>7. QED
    BY <1>1, <1>3, <1>5, <1>6, QuietStep

(* A write takes the transaction's image to the next one.                  *)
LEMMA NextImage ==
    ASSUME NEW d, NEW q, NEW c
    PROVE  /\ Image("audit", d, q, c) = WithFacts(Image("facts", d, q, c), q)
           /\ Image("events", d, q, c) = WithAudit(Image("audit", d, q, c), q, c)
           /\ Image("receipt", d, q, c) = WithEvents(Image("events", d, q, c), q)
           /\ Image("commit", d, q, c) = WithReceipt(Image("receipt", d, q, c), q)
  BY DEF Image

LEMMA WriteStep ==
    ASSUME IInv, NEW h \in Handlers,
           WriteFacts(h) \/ WriteAudit(h) \/ WriteEvents(h) \/ WriteReceipt(h)
    PROVE  IInv'
  <1> DEFINE Img(p) == Image(p, db, req[h], ctx[h])
  <1>1. /\ TypeOK /\ HandlerOK(h)
        /\ phase[h] \in {"facts", "audit", "events", "receipt"}
        /\ UNCHANGED <<authorityVars, db, lock, req, ctx, result, seen, acks>>
    BY DEF IInv, WriteFacts, WriteAudit, WriteEvents, WriteReceipt, Step
  <1>2. /\ req[h] \in Requests /\ ctx[h] \in Contexts /\ DbTypeOK(db)
        /\ Admissible(db, req[h]) /\ work[h] = Img(phase[h])
    BY <1>1 DEF HandlerOK, Writing, TypeOK
  <1>3. PICK to \in {"audit", "events", "receipt", "revalidate"},
             p \in {"audit", "events", "receipt", "commit"} :
            /\ to = "revalidate" <=> p = "commit"
            /\ to # "revalidate" => p = to
            /\ phase' = [phase EXCEPT ![h] = to]
            /\ work' = [work EXCEPT ![h] = Img(p)]
    BY <1>2, NextImage DEF WriteFacts, WriteAudit, WriteEvents, WriteReceipt, Step
  <1>4. DbTypeOK(Img(p))
    BY <1>2, ImageTypes DEF WritePhases
  <1> HIDE DEF Img
  <1>5. TypeOK'
    BY <1>1, <1>3, <1>4 DEF TypeOK, AuthorityTypeOK, authorityVars, Phases, ExecutePhases
  <1>6. phase'[h] = to /\ work'[h] = Img(p)
    BY <1>1, <1>3 DEF TypeOK
  <1>7. HandlerOK(h)'
    BY <1>1, <1>2, <1>3, <1>6 DEF HandlerOK, ExecutePhases, Writing, Img
  <1>8. Others(h)
    BY <1>1, <1>3 DEF TypeOK, Others
  <1>9. QED
    BY <1>1, <1>5, <1>7, <1>8, QuietStep

LEMMA RevalidateStep ==
    ASSUME IInv, NEW h \in Handlers, Revalidate(h)
    PROVE  IInv'
  <1>1. TypeOK /\ HandlerOK(h) /\ phase[h] = "revalidate"
    BY DEF IInv, Revalidate, Step
  <1>2. TypeOK'
    BY <1>1 DEF Revalidate, Step, TypeOK, AuthorityTypeOK, authorityVars, Phases, ExecutePhases
  <1>3. HandlerOK(h)'
    BY <1>1 DEF Revalidate, Step, TypeOK, HandlerOK, ExecutePhases, Writing
  <1>4. Others(h)
    BY <1>1 DEF Revalidate, Step, TypeOK, Others
  <1>5. QED
    BY <1>2, <1>3, <1>4, QuietStep DEF Revalidate

(* A step that grows the database, while g is in no transaction.           *)
LEMMA GrowthSpares ==
    ASSUME IInv, NEW g \in Handlers, phase[g] \notin ExecutePhases,
           phase'[g] = phase[g], req'[g] = req[g], work'[g] = work[g],
           lock' = g <=> lock = g,
           Keeps(db.receipts, db'.receipts)
    PROVE  HandlerOK(g)'
  <1>1. HandlerOK(g)
    BY DEF IInv
  <1>2. phase[g] \in {"verify", "recheck"} => Keeps(work[g].receipts, db'.receipts)
    BY <1>1 DEF HandlerOK, Keeps
  <1>3. QED
    BY <1>1, <1>2 DEF HandlerOK, ExecutePhases

LEMMA GrowthKeepsAcks ==
    ASSUME AckDurable, acks' = acks, Keeps(db.receipts, db'.receipts)
    PROVE  AckDurable'
  BY DEF AckDurable, Keeps

LEMMA BootstrapStep ==
    ASSUME IInv, NEW facts \in BootFacts, Bootstrap(facts)
    PROVE  IInv'
  <1>1. /\ TypeOK /\ Ledger /\ AckDurable /\ lock = None /\ db.rev = 0
        /\ db' = Db(1, facts, db.audit, db.events, db.receipts)
        /\ UNCHANGED <<authorityVars, lock, phase, req, ctx, work, result, seen, acks>>
    <2>1. UNCHANGED handlerVars
      BY DEF Bootstrap
    <2>2. QED
      BY <2>1 DEF IInv, Bootstrap, handlerVars
  <1>2. /\ db = EmptyDb
        /\ db' = Db(1, facts, EmptyTable, EmptyTable, EmptyTable)
    <2>1. db = EmptyDb
      BY <1>1 DEF TypeOK, DbTypeOK
    <2>2. QED
      BY <1>1, <2>1 DEF EmptyDb, Db
  <1>3. facts \in [Records -> Rows]
    BY StoreAssumption DEF Rows
  <1>4. DbTypeOK(db')
    BY <1>2, <1>3, EmptyTableOK DEF DbTypeOK, Db
  <1>5. TypeOK'
    BY <1>1, <1>4 DEF TypeOK, AuthorityTypeOK, authorityVars
  <1>6. Ledger'
    BY <1>2 DEF Ledger, LedgerOK, EmptyTable, Db
  <1>7. Keeps(db.receipts, db'.receipts)
    BY <1>2 DEF Keeps, EmptyDb, EmptyTable, Db
  <1>8. AckDurable'
    BY <1>1, <1>7, GrowthKeepsAcks
  <1>9. ASSUME NEW g \in Handlers
        PROVE  HandlerOK(g)'
    <2>1. phase[g] \notin ExecutePhases
      BY <1>1, StoreAssumption DEF IInv, HandlerOK
    <2>2. QED
      BY <1>1, <1>7, <2>1, GrowthSpares
  <1>10. QED
    BY <1>5, <1>6, <1>8, <1>9 DEF IInv

(* What a handler about to commit would make of the database.              *)
LEMMA CommitImage ==
    ASSUME IInv, NEW h \in Handlers, phase[h] = "commit"
    PROVE  /\ DbTypeOK(work[h]) /\ LedgerOK(work[h])
           /\ Keeps(db.audit, work[h].audit)
           /\ Keeps(db.events, work[h].events)
           /\ Keeps(db.receipts, work[h].receipts)
           /\ HasReceipt(work[h], req[h])
           /\ work[h] = db \/ work[h].rev = db.rev + 1
           /\ req[h] \in Requests
           /\ \A g \in Handlers \ {h} : phase[g] \notin ExecutePhases
  <1>1. TypeOK /\ Ledger /\ HandlerOK(h)
    BY DEF IInv
  <1>2. /\ req[h] \in Requests /\ ctx[h] \in Contexts /\ DbTypeOK(db) /\ LedgerOK(db)
        /\ lock = h /\ DbTypeOK(work[h])
    BY <1>1 DEF HandlerOK, TypeOK, Ledger, ExecutePhases
  <1>3. \A g \in Handlers \ {h} : phase[g] \notin ExecutePhases
    BY <1>2 DEF IInv, HandlerOK
  <1>4. CASE Writing(h, "commit")
    <2>1. Admissible(db, req[h]) /\ work[h] = Image("commit", db, req[h], ctx[h])
      BY <1>4 DEF Writing
    <2> DEFINE w == Image("commit", db, req[h], ctx[h])
    <2>2. /\ LedgerOK(w) /\ HasReceipt(w, req[h])
          /\ Keeps(db.audit, w.audit) /\ Keeps(db.events, w.events)
          /\ Keeps(db.receipts, w.receipts)
      BY <1>2, <2>1, CommitLedger
    <2>3. w.rev = db.rev + 1
      BY <1>2, <2>1, ImageTypes
    <2> HIDE DEF w
    <2>4. work[h] = w
      BY <2>1 DEF w
    <2>5. QED
      BY <1>2, <1>3, <2>2, <2>3, <2>4
  <1>5. CASE work[h] = db /\ HasReceipt(db, req[h])
    BY <1>2, <1>3, <1>5 DEF Keeps
  <1>6. QED
    BY <1>1, <1>4, <1>5 DEF HandlerOK

LEMMA CommitStep ==
    ASSUME IInv, NEW h \in Handlers, Commit(h) \/ CommitUnknown(h)
    PROVE  IInv'
  <1>1. /\ TypeOK /\ Ledger /\ AckDurable /\ phase[h] = "commit" /\ Finish(h)
        /\ db' \in {db, work[h]} /\ UNCHANGED authorityVars
        /\ acks' = acks \/ (Acknowledge(h) /\ db' = work[h])
    BY DEF IInv, Commit, CommitUnknown
  <1>2. /\ DbTypeOK(work[h]) /\ LedgerOK(work[h]) /\ HasReceipt(work[h], req[h])
        /\ Keeps(db.receipts, work[h].receipts) /\ req[h] \in Requests
        /\ \A g \in Handlers \ {h} : phase[g] \notin ExecutePhases
    BY <1>1, CommitImage
  <1>3. Keeps(db.receipts, db'.receipts)
    BY <1>1, <1>2 DEF Keeps
  <1>4. DbTypeOK(db') /\ Ledger'
    BY <1>1, <1>2 DEF TypeOK, Ledger
  <1> DEFINE pk == ReceiptPk(req[h])
             ack == [pk |-> pk, intent |-> Intent(req[h]), row |-> work[h].receipts[pk]]
  <1>5. /\ pk \in DOMAIN work[h].receipts /\ work[h].receipts[pk].intent = Intent(req[h])
        /\ pk \in Actors \X Keys /\ work[h].receipts[pk] \in ReceiptRows
    BY <1>2 DEF HasReceipt, ReceiptPk, Requests, DbTypeOK, IsTable
  <1>6. acks' = acks \/ (acks' = acks \cup {ack} /\ db' = work[h])
    BY <1>1 DEF Acknowledge
  <1>7. TypeOK'
    BY <1>1, <1>4, <1>5, <1>6, FinishStep DEF TypeOK, AuthorityTypeOK, authorityVars
  <1>8. AckDurable'
    BY <1>1, <1>3, <1>5, <1>6 DEF AckDurable, Keeps
  <1>9. HandlerOK(h)'
    BY <1>1, FinishStep DEF HandlerOK, ExecutePhases
  <1>10. ASSUME NEW g \in Handlers \ {h}
         PROVE  HandlerOK(g)'
    BY <1>1, <1>2, <1>3, FinishStep, GrowthSpares DEF Others
  <1>11. QED
    BY <1>4, <1>7, <1>8, <1>9, <1>10 DEF IInv

(* Recovery reads an image of the database, and answers from it.           *)
LEMMA RecoverReadStep ==
    ASSUME IInv, NEW h \in Handlers, RecoverRead(h)
    PROVE  IInv'
  <1>1. /\ TypeOK /\ Ledger /\ HandlerOK(h) /\ req[h] \in Requests /\ phase[h] = "read"
        /\ DbTypeOK(db)
    BY DEF IInv, TypeOK, HandlerOK, RecoverRead, Step
  <1> DEFINE q == StoredRequest(req[h])
             row == db.receipts[ReceiptPk(req[h])]
  <1>2. ReceiptPk(req[h]) \in DOMAIN db.receipts
    BY DEF RecoverRead
  <1>3. row \in ReceiptRows /\ row.intent \in Intents
    BY <1>1, <1>2 DEF DbTypeOK, IsTable, ReceiptRows
  <1>4. q \in Requests
    BY <1>1, <1>3, StoreAssumption DEF StoredRequest, Requests, Intents
  <1>5. ReceiptPk(q) = ReceiptPk(req[h])
    BY DEF StoredRequest, ReceiptPk
  <1>6. Intent(q) = row.intent
    BY <1>3 DEF StoredRequest, Intent, Intents
  <1>7. HasReceipt(db, q)
    BY <1>2, <1>5, <1>6 DEF HasReceipt
  <1> HIDE DEF q, row
  <1>8. /\ phase' = [phase EXCEPT ![h] = "verify"] /\ work' = [work EXCEPT ![h] = db]
        /\ req' = [req EXCEPT ![h] = q]
        /\ UNCHANGED <<authorityVars, db, lock, ctx, result, seen, acks>>
    BY <1>1 DEF RecoverRead, Step, TypeOK, q
  <1>9. TypeOK'
    BY <1>1, <1>4, <1>8 DEF TypeOK, AuthorityTypeOK, authorityVars, Phases, RecoverPhases
  <1>10. HandlerOK(h)'
    <2>1. phase'[h] = "verify" /\ work'[h] = db' /\ req'[h] = q
      BY <1>1, <1>8 DEF TypeOK
    <2>2. LedgerOK(db') /\ HasReceipt(db', q) /\ Keeps(db'.receipts, db'.receipts)
      BY <1>1, <1>7, <1>8 DEF Ledger, Keeps
    <2>3. lock' # h
      BY <1>1, <1>8 DEF HandlerOK, ExecutePhases
    <2>4. QED
      BY <1>4, <2>1, <2>2, <2>3 DEF HandlerOK, ExecutePhases
  <1>11. Others(h)
    BY <1>1, <1>8 DEF TypeOK, Others
  <1>12. QED
    BY <1>8, <1>9, <1>10, <1>11, QuietStep

LEMMA RecoverVerifyStep ==
    ASSUME IInv, NEW h \in Handlers, RecoverVerify(h)
    PROVE  IInv'
  <1>1. /\ TypeOK /\ HandlerOK(h) /\ phase[h] = "verify"
        /\ phase' = [phase EXCEPT ![h] = "recheck"]
        /\ UNCHANGED <<authorityVars, db, lock, req, ctx, work, result, seen, acks>>
    BY DEF IInv, RecoverVerify, Step
  <1>2. TypeOK'
    BY <1>1 DEF TypeOK, AuthorityTypeOK, authorityVars, Phases, RecoverPhases
  <1>3. HandlerOK(h)'
    BY <1>1 DEF TypeOK, HandlerOK, ExecutePhases
  <1>4. Others(h)
    BY <1>1 DEF TypeOK, Others
  <1>5. QED
    BY <1>1, <1>2, <1>3, <1>4, QuietStep

LEMMA RecoverAnswerStep ==
    ASSUME IInv, NEW h \in Handlers, RecoverAnswer(h)
    PROVE  IInv'
  <1>1. /\ TypeOK /\ Ledger /\ AckDurable /\ HandlerOK(h) /\ phase[h] = "recheck"
        /\ Acknowledge(h) /\ Finish(h) /\ UNCHANGED <<authorityVars, db>>
    BY DEF IInv, RecoverAnswer
  <1>2. /\ HasReceipt(work[h], req[h]) /\ Keeps(work[h].receipts, db.receipts)
        /\ DbTypeOK(db)
    BY <1>1 DEF HandlerOK, TypeOK
  <1> DEFINE pk == ReceiptPk(req[h])
             row == work[h].receipts[pk]
             ack == [pk |-> pk, intent |-> Intent(req[h]), row |-> row]
  <1>3. /\ pk \in DOMAIN db.receipts /\ db.receipts[pk] = row /\ row.intent = Intent(req[h])
    BY <1>2 DEF HasReceipt, Keeps
  <1>4. pk \in Actors \X Keys /\ row \in ReceiptRows
    BY <1>2, <1>3 DEF DbTypeOK, IsTable
  <1>5. acks' = acks \cup {ack}
    BY <1>1 DEF Acknowledge
  <1>6. TypeOK'
    BY <1>1, <1>4, <1>5, FinishStep DEF TypeOK, AuthorityTypeOK, authorityVars
  <1>7. AckDurable'
    BY <1>1, <1>3, <1>5 DEF AckDurable
  <1>8. HandlerOK(h)'
    BY <1>1, FinishStep DEF HandlerOK, ExecutePhases
  <1>9. \A g \in Handlers \ {h} : HandlerOK(g)'
    BY <1>1, FinishStep, QuietOthers
  <1>10. Ledger'
    BY <1>1 DEF Ledger
  <1>11. QED
    BY <1>6, <1>7, <1>8, <1>9, <1>10 DEF IInv

(* The operator and the clock touch nothing of the store's.                *)
LEMMA OperatorStep ==
    ASSUME IInv, Operator
    PROVE  IInv'
  <1>1. /\ TypeOK /\ AuthorityNext
        /\ UNCHANGED <<db, lock, phase, req, ctx, work, result, seen, acks>>
    BY DEF IInv, Operator, handlerVars
  <1>2. AuthorityTypeOK'
    <2>1. CASE Publish
      BY <1>1, <2>1, AuthorityAssumption DEF Publish, AuthorityTypeOK, TypeOK
    <2>2. ASSUME NEW actor \in Actors, Expire(actor)
          PROVE  AuthorityTypeOK'
      <3>1. access[actor] \in AccessFacts /\ access \in [Actors -> AccessFacts] /\ generation \in Nat
        BY <1>1 DEF TypeOK, AuthorityTypeOK
      <3>2. [access[actor] EXCEPT !.session = "expired"] \in AccessFacts
        BY <3>1 DEF AccessFacts
      <3>3. QED
        BY <2>2, <3>1, <3>2 DEF Expire, AuthorityTypeOK
    <2>3. QED
      BY <1>1, <2>1, <2>2 DEF AuthorityNext
  <1>3. TypeOK'
    BY <1>1, <1>2 DEF TypeOK
  <1>4. Ledger' /\ AckDurable'
    BY <1>1 DEF IInv, Ledger, AckDurable
  <1>5. \A h \in Handlers : HandlerOK(h)'
    BY <1>1 DEF IInv, HandlerOK, Writing
  <1>6. QED
    BY <1>3, <1>4, <1>5 DEF IInv

LEMMA StutterStep ==
    ASSUME IInv, UNCHANGED vars
    PROVE  IInv'
  <1>1. UNCHANGED <<access, generation, db, lock, phase, req, ctx, work, result, seen, acks>>
    BY DEF vars, authorityVars, handlerVars
  <1>2. TypeOK' /\ Ledger' /\ AckDurable'
    BY <1>1 DEF IInv, TypeOK, AuthorityTypeOK, Ledger, AckDurable
  <1>3. \A h \in Handlers : HandlerOK(h)'
    BY <1>1 DEF IInv, HandlerOK, Writing
  <1>4. QED
    BY <1>2, <1>3 DEF IInv

-----------------------------------------------------------------------------
(* The invariant.                                                          *)

LEMMA InitIInv == Init => IInv
  <1> SUFFICES ASSUME Init PROVE IInv
    OBVIOUS
  <1>1. DbTypeOK(EmptyDb)
    BY EmptyTableOK DEF DbTypeOK, EmptyDb, Db
  <1>2. AuthorityTypeOK
    BY AuthorityAssumption DEF Init, AuthorityInit, AuthorityTypeOK
  <1>3. TypeOK
    BY <1>1, <1>2 DEF Init, TypeOK, Phases
  <1>4. Ledger
    BY DEF Init, Ledger, LedgerOK, EmptyDb, EmptyTable, Db
  <1>5. AckDurable
    BY DEF Init, AckDurable
  <1>6. \A h \in Handlers : HandlerOK(h)
    BY StoreAssumption DEF Init, HandlerOK, ExecutePhases
  <1>7. QED
    BY <1>3, <1>4, <1>5, <1>6 DEF IInv

LEMMA TransactStep ==
    ASSUME IInv, NEW h \in Handlers, Transact(h)
    PROVE  IInv'
  <1>1. CASE Begin(h)
    BY <1>1, BeginStep
  <1>2. CASE BeginFails(h)
    BY <1>2, FinishQuiet DEF BeginFails
  <1>3. CASE Resolve(h)
    BY <1>3, ResolveStep
  <1>4. CASE ResolveFails(h)
    BY <1>4, RefuseStep DEF ResolveFails, ExecutePhases
  <1>5. CASE Admit(h) \/ Replay(h)
    BY <1>5, VerdictStep
  <1>6. CASE Reject(h)
    <2>1. phase[h] \in ExecutePhases
      BY <1>6 DEF Reject, ExecutePhases
    <2>2. QED
      BY <1>6, <2>1, RefuseStep DEF Reject
  <1>7. CASE WriteFacts(h) \/ WriteAudit(h) \/ WriteEvents(h) \/ WriteReceipt(h)
    BY <1>7, WriteStep
  <1>8. CASE WriteFails(h)
    BY <1>8, RefuseStep DEF WriteFails, ExecutePhases
  <1>9. CASE Revalidate(h)
    BY <1>9, RevalidateStep
  <1>10. CASE RevalidateFails(h)
    BY <1>10, RefuseStep DEF RevalidateFails, ExecutePhases
  <1>11. CASE Commit(h) \/ CommitUnknown(h)
    BY <1>11, CommitStep
  <1>12. CASE Rollback(h)
    BY <1>12, FinishQuiet DEF Rollback
  <1>13. QED
    BY <1>1, <1>2, <1>3, <1>4, <1>5, <1>6, <1>7, <1>8, <1>9, <1>10, <1>11, <1>12 DEF Transact

LEMMA ReadBackStep ==
    ASSUME IInv, NEW h \in Handlers, ReadBack(h)
    PROVE  IInv'
  <1>1. CASE RecoverResolve(h)
    BY <1>1, ResolveStep
  <1>2. CASE RecoverRead(h)
    BY <1>2, RecoverReadStep
  <1>3. CASE RecoverVerify(h)
    BY <1>3, RecoverVerifyStep
  <1>4. CASE RecoverAnswer(h)
    BY <1>4, RecoverAnswerStep
  <1>5. CASE RecoverFails(h)
    BY <1>5, FinishQuiet DEF RecoverFails, Answer
  <1>6. QED
    BY <1>1, <1>2, <1>3, <1>4, <1>5 DEF ReadBack

LEMMA NextIInv == IInv /\ [Next]_vars => IInv'
  <1> SUFFICES ASSUME IInv, [Next]_vars PROVE IInv'
    OBVIOUS
  <1>1. CASE Operator
    BY <1>1, OperatorStep
  <1>2. ASSUME NEW facts \in BootFacts, Bootstrap(facts) PROVE IInv'
    BY <1>2, BootstrapStep
  <1>3. ASSUME NEW h \in Handlers, Arrive(h) PROVE IInv'
    BY <1>3, ArriveStep DEF Arrive
  <1>4. ASSUME NEW h \in Handlers, Transact(h) PROVE IInv'
    BY <1>4, TransactStep
  <1>5. ASSUME NEW h \in Handlers, ReadBack(h) PROVE IInv'
    BY <1>5, ReadBackStep
  <1>6. ASSUME NEW h \in Handlers, Lose(h) PROVE IInv'
    BY <1>6, FinishQuiet DEF Lose
  <1>7. CASE UNCHANGED vars
    BY <1>7, StutterStep
  <1>8. QED
    BY <1>1, <1>2, <1>3, <1>4, <1>5, <1>6, <1>7 DEF Next

(* In every reachable state a transaction shows the committed database     *)
(* plus exactly the writes of its phase, one handler holds the lock, and   *)
(* the ledger and the acknowledged receipts agree with it.                 *)
THEOREM InvariantHolds == Spec => []IInv
  BY InitIInv, NextIInv, PTL DEF Spec

(* Every variable has its type.                                            *)
THEOREM TypeCorrect == Spec => []TypeOK
  <1>1. IInv => TypeOK
    BY DEF IInv
  <1>2. QED
    BY <1>1, InvariantHolds, PTL

(* A commit is all or nothing: audit, events and receipts agree on every   *)
(* revision.                                                               *)
THEOREM LedgerHolds == Spec => []Ledger
  <1>1. IInv => Ledger
    BY DEF IInv
  <1>2. QED
    BY <1>1, InvariantHolds, PTL

(* A receipt some client was given is stored and never changes, and no two *)
(* intents are acknowledged under one key.                                 *)
THEOREM AcknowledgedForever == Spec => []AckDurable
  <1>1. IInv => AckDurable
    BY DEF IInv
  <1>2. QED
    BY <1>1, InvariantHolds, PTL

(* A stored receipt of a ledger passes validate_receipt for its intent.    *)
LEMMA LedgerReceiptsValid ==
    ASSUME NEW d, DbTypeOK(d), LedgerOK(d), NEW q \in Requests, HasReceipt(d, q)
    PROVE  ReceiptValid(d, q)
  <1> DEFINE row == d.receipts[ReceiptPk(q)]
  <1>1. /\ row.intent = Intent(q) /\ row.rev = row.intent.expected + 1
        /\ row.rev \in 2 .. d.rev /\ row.state = To[row.intent.cmd]
    BY DEF HasReceipt, LedgerOK
  <1>2. /\ Intent(q).expected = q.expected /\ Intent(q).cmd = q.cmd /\ Intent(q).rec = q.rec
        /\ d.rev \in Nat
    BY DEF Intent, DbTypeOK
  <1> HIDE DEF row
  <1>3. row.rev <= d.rev
    BY <1>1, <1>2
  <1>4. QED
    BY <1>1, <1>2, <1>3 DEF ReceiptValid, row

(* validate_receipt never fails on what the store itself has written.      *)
THEOREM ReceiptsNeverCorrupt == Spec => []NeverCorrupt
  <1>1. ASSUME IInv, NEW h \in Handlers, phase[h] \in {"load", "verify"}
        PROVE  Verdict(work[h], req[h], ctx[h]) # "Corrupt"
    <2>1. /\ DbTypeOK(work[h]) /\ LedgerOK(work[h]) /\ req[h] \in Requests
      BY <1>1 DEF IInv, TypeOK, HandlerOK, Ledger
    <2>2. HasReceipt(work[h], req[h]) => ReceiptValid(work[h], req[h])
      BY <2>1, LedgerReceiptsValid
    <2>3. LookUp(work[h], req[h]) = "Corrupt" =>
             SameIntent(work[h].receipts[ReceiptPk(req[h])], req[h])
             /\ ~ReceiptValid(work[h], req[h])
      BY DEF LookUp
    <2>4. PrepareError(req[h]) # "Corrupt" /\ Decide(work[h], req[h]) # "Corrupt"
      BY DEF PrepareError, Decide, DecideError
    <2>5. QED
      BY <2>2, <2>3, <2>4 DEF Verdict, HasReceipt, SameIntent
  <1>2. IInv => NeverCorrupt
    BY <1>1 DEF NeverCorrupt
  <1>3. QED
    BY <1>2, InvariantHolds, PTL

(* No step rewrites an audit row, an event or a receipt, and each one that *)
(* changes the database is one revision further.                           *)
THEOREM HistoryOnlyGrows == Spec => AppendOnly
  <1> DEFINE Grows == /\ db'.rev = db.rev + 1
                      /\ Keeps(db.audit, db'.audit)
                      /\ Keeps(db.events, db'.events)
                      /\ Keeps(db.receipts, db'.receipts)
  <1>1. ASSUME IInv, [Next]_vars, db' # db
        PROVE  Grows
    <2>1. \/ \E facts \in BootFacts : Bootstrap(facts)
          \/ \E h \in Handlers : Commit(h) \/ CommitUnknown(h)
      BY <1>1 DEF Next, Operator, Arrive, Transact, ReadBack, vars, Execute, Recover, Lose,
           Begin, BeginFails, Resolve, ResolveFails, Admit, Replay, Reject, Refuse,
           WriteFacts, WriteAudit, WriteEvents, WriteReceipt, WriteFails,
           Revalidate, RevalidateFails, Rollback, RecoverResolve, RecoverRead, RecoverVerify,
           RecoverAnswer, RecoverFails, Answer
    <2>2. ASSUME NEW facts \in BootFacts, Bootstrap(facts)
          PROVE  Grows
      <3>1. db.rev = 0 /\ db' = Db(1, facts, db.audit, db.events, db.receipts)
        BY <2>2 DEF Bootstrap
      <3>2. QED
        BY <3>1 DEF Keeps, Db
    <2>3. ASSUME NEW h \in Handlers, Commit(h) \/ CommitUnknown(h)
          PROVE  Grows
      <3>1. phase[h] = "commit" /\ db' = work[h]
        BY <1>1, <2>3 DEF Commit, CommitUnknown
      <3>2. QED
        BY <1>1, <3>1, CommitImage
    <2>4. QED
      BY <2>1, <2>2, <2>3
  <1>2. IInv /\ [Next]_vars => [Grows]_db
    BY <1>1
  <1>3. QED
    BY <1>2, InvariantHolds, PTL DEF Spec, AppendOnly

-----------------------------------------------------------------------------
(* Authority.                                                              *)

(* A handler has not seen a generation that is still to come.              *)
SeenOK ==
    /\ \A h \in Handlers : seen[h] <= generation
    /\ AuthorityAtCommit

(* Of every step but the operator's and a revalidation: whoever is about   *)
(* to commit afterwards already was, on the same terms.                    *)
LEMMA OnlyRevalidationAdmits ==
    ASSUME TypeOK, NEW h \in Handlers, NEW g \in Handlers,
           Arrive(h) \/ Transact(h) \/ ReadBack(h) \/ Lose(h),
           ~Revalidate(h) \/ g # h
    PROVE  /\ seen'[g] \in {seen[g], generation, 0}
           /\ \/ phase'[g] # "commit"
              \/ /\ phase[g] = "commit"
                 /\ req'[g] = req[g] /\ ctx'[g] = ctx[g] /\ seen'[g] = seen[g]
           /\ UNCHANGED authorityVars
  <1>1. CASE Arrive(h) \/ Lose(h)
    BY <1>1 DEF TypeOK, Arrive, Execute, Recover, Lose, Finish, Step
  <1>2. CASE Begin(h) \/ BeginFails(h) \/ Resolve(h) \/ ResolveFails(h)
    BY <1>2 DEF TypeOK, Begin, BeginFails, Resolve, ResolveFails, Refuse, Finish, Step
  <1>3. CASE Admit(h) \/ Replay(h) \/ Reject(h)
    BY <1>3 DEF TypeOK, Admit, Replay, Reject, Refuse, Step
  <1>4. CASE WriteFacts(h) \/ WriteAudit(h) \/ WriteEvents(h) \/ WriteReceipt(h) \/ WriteFails(h)
    BY <1>4 DEF TypeOK, WriteFacts, WriteAudit, WriteEvents, WriteReceipt, WriteFails, Refuse, Step
  <1>5. CASE Revalidate(h) \/ RevalidateFails(h)
    BY <1>5 DEF TypeOK, Revalidate, RevalidateFails, Refuse, Step
  <1>6. CASE Commit(h) \/ CommitUnknown(h) \/ Rollback(h)
    BY <1>6 DEF TypeOK, Commit, CommitUnknown, Rollback, Finish
  <1>7. CASE ReadBack(h)
    BY <1>7 DEF TypeOK, ReadBack, RecoverResolve, RecoverRead, RecoverVerify, RecoverAnswer,
                RecoverFails, Answer, Finish, Step
  <1>8. QED
    BY <1>1, <1>2, <1>3, <1>4, <1>5, <1>6, <1>7 DEF Transact

LEMMA NextSeenOK == IInv /\ SeenOK /\ [Next]_vars => SeenOK'
  <1> SUFFICES ASSUME IInv, SeenOK, [Next]_vars PROVE SeenOK'
    OBVIOUS
  <1>1. TypeOK /\ generation \in Nat /\ \A h \in Handlers : seen[h] \in Nat /\ seen[h] <= generation
    BY DEF IInv, TypeOK, AuthorityTypeOK, SeenOK
  <1>2. CASE Operator
    <2>1. generation' = generation + 1 /\ UNCHANGED <<phase, req, ctx, seen>>
      BY <1>2 DEF Operator, AuthorityNext, Publish, Expire, handlerVars
    <2>2. \A h \in Handlers : seen'[h] <= generation' /\ seen'[h] # generation'
      BY <1>1, <2>1
    <2>3. QED
      BY <2>2 DEF SeenOK, AuthorityAtCommit
  <1>3. CASE UNCHANGED vars \/ \E facts \in BootFacts : Bootstrap(facts)
    <2>1. UNCHANGED <<access, generation, phase, req, ctx, seen>>
      BY <1>3 DEF vars, authorityVars, handlerVars, Bootstrap
    <2>2. QED
      BY <2>1 DEF SeenOK, AuthorityAtCommit, Bound, Resolves, Established, OriginAllowed, ContextOf
  <1>4. ASSUME NEW h \in Handlers, Arrive(h) \/ Transact(h) \/ ReadBack(h) \/ Lose(h),
               NEW g \in Handlers
        PROVE  /\ seen'[g] <= generation'
               /\ phase'[g] = "commit" /\ seen'[g] = generation' =>
                    Bound(g)' /\ ContextOf(req[g].actor)' = ctx'[g]
    <2>1. CASE Revalidate(h) /\ g = h
      <3>1. /\ UNCHANGED <<access, generation, req, ctx>> /\ seen'[g] = generation
            /\ Bound(g) /\ ContextOf(req[g].actor) = ctx[g]
        BY <1>1, <2>1 DEF Revalidate, StillCurrent, TypeOK, authorityVars
      <3>2. QED
        BY <1>1, <3>1 DEF Bound, Resolves, Established, OriginAllowed, ContextOf
    <2>2. CASE ~Revalidate(h) \/ g # h
      <3>1. /\ seen'[g] \in {seen[g], generation, 0}
            /\ \/ phase'[g] # "commit"
               \/ /\ phase[g] = "commit"
                  /\ req'[g] = req[g] /\ ctx'[g] = ctx[g] /\ seen'[g] = seen[g]
            /\ UNCHANGED <<access, generation>>
        BY <1>1, <1>4, <2>2, OnlyRevalidationAdmits DEF authorityVars
      <3>2. seen'[g] <= generation'
        BY <1>1, <3>1
      <3>3. ASSUME phase'[g] = "commit", seen'[g] = generation'
            PROVE  Bound(g)' /\ ContextOf(req[g].actor)' = ctx'[g]
        <4>1. Bound(g) /\ ContextOf(req[g].actor) = ctx[g]
          BY <3>1, <3>3 DEF SeenOK, AuthorityAtCommit
        <4>2. QED
          BY <3>1, <3>3, <4>1 DEF Bound, Resolves, Established, OriginAllowed, ContextOf
      <3>4. QED
        BY <3>2, <3>3
    <2>3. QED
      BY <2>1, <2>2
  <1>5. ASSUME NEW h \in Handlers, Arrive(h) \/ Transact(h) \/ ReadBack(h) \/ Lose(h)
        PROVE  SeenOK'
    BY <1>4, <1>5 DEF SeenOK, AuthorityAtCommit
  <1>6. QED
    BY <1>2, <1>3, <1>5 DEF Next

(* A handler that is about to commit holds the authority it resolved,      *)
(* unless the authority changed after its revalidation.                    *)
THEOREM CommitsUnderAuthority == Spec => []AuthorityAtCommit
  <1>1. Init => SeenOK
    BY DEF Init, AuthorityInit, SeenOK, AuthorityAtCommit
  <1>2. SeenOK => AuthorityAtCommit
    BY DEF SeenOK
  <1>3. QED
    BY <1>1, <1>2, NextSeenOK, InvariantHolds, PTL DEF Spec

-----------------------------------------------------------------------------
(* Refusals.                                                               *)

FactErrors == {"Conflict", "InvalidTransition", "GuardFailed", "Invalid"}

RefusalOK(h) ==
    /\ result[h] \in FactErrors => ReceiptPk(req[h]) \notin DOMAIN db.receipts
    /\ result[h] = "IntentConflict" =>
          /\ ReceiptPk(req[h]) \in DOMAIN db.receipts
          /\ db.receipts[ReceiptPk(req[h])].intent # Intent(req[h])

(* What a verdict that is not "apply" says of the receipts.                *)
LEMMA RefusalMeans ==
    ASSUME NEW d, NEW q, NEW c
    PROVE  /\ Verdict(d, q, c) \in FactErrors => ReceiptPk(q) \notin DOMAIN d.receipts
           /\ Verdict(d, q, c) = "IntentConflict" =>
                 ReceiptPk(q) \in DOMAIN d.receipts /\ d.receipts[ReceiptPk(q)].intent # Intent(q)
  <1>1. PrepareError(q) \notin FactErrors \cup {"IntentConflict"}
    BY DEF PrepareError, FactErrors
  <1>2. LookUp(d, q) \notin FactErrors
    BY DEF LookUp, FactErrors
  <1>3. LookUp(d, q) = "IntentConflict" => d.receipts[ReceiptPk(q)].intent # Intent(q)
    BY DEF LookUp, SameIntent
  <1>4. Decide(d, q) # "IntentConflict"
    BY DEF Decide, DecideError
  <1>5. {"AppNotFound", "AuthorityChanged"} \cap (FactErrors \cup {"IntentConflict"}) = {}
    BY DEF FactErrors
  <1>6. QED
    BY <1>1, <1>2, <1>3, <1>4, <1>5 DEF Verdict

(* Whoever is answering a refusal was already, on the same terms, or has   *)
(* just been refused; meanwhile the database stands still.                 *)
LEMMA OnlyRefusalRollsBack ==
    ASSUME IInv, NEW h \in Handlers, NEW g \in Handlers,
           Arrive(h) \/ Transact(h) \/ ReadBack(h) \/ Lose(h), phase'[g] = "rollback"
    PROVE  /\ db' = db /\ req'[g] = req[g]
           /\ \/ phase[g] = "rollback" /\ result'[g] = result[g]
              \/ result'[g] \in {"Authority", "Engine", "AuthorityChanged"}
              \/ /\ g = h /\ phase[h] = "load"
                 /\ result'[g] = Verdict(work[h], req[h], ctx[h])
  <1>1. TypeOK /\ HandlerOK(g) /\ HandlerOK(h)
    BY DEF IInv
  <1>2. CASE Arrive(h) \/ Lose(h)
    BY <1>1, <1>2 DEF TypeOK, Arrive, Execute, Recover, Lose, Finish, Step
  <1>3. CASE Begin(h) \/ BeginFails(h) \/ Resolve(h) \/ ResolveFails(h)
    BY <1>1, <1>3 DEF TypeOK, Begin, BeginFails, Resolve, ResolveFails, Refuse, Finish, Step
  <1>4. CASE Admit(h) \/ Replay(h) \/ Reject(h)
    BY <1>1, <1>4 DEF TypeOK, Admit, Replay, Reject, Refuse, Step
  <1>5. CASE WriteFacts(h) \/ WriteAudit(h) \/ WriteEvents(h) \/ WriteReceipt(h) \/ WriteFails(h)
    BY <1>1, <1>5 DEF TypeOK, WriteFacts, WriteAudit, WriteEvents, WriteReceipt, WriteFails,
                      Refuse, Step
  <1>6. CASE Revalidate(h) \/ RevalidateFails(h)
    BY <1>1, <1>6 DEF TypeOK, Revalidate, RevalidateFails, Refuse, Step
  <1>7. CASE Commit(h) \/ CommitUnknown(h)
    <2>1. phase[h] = "commit" /\ phase' = [phase EXCEPT ![h] = "idle"]
      BY <1>7 DEF Commit, CommitUnknown, Finish
    <2>2. g # h /\ phase[g] = "rollback"
      BY <1>1, <2>1 DEF TypeOK
    <2>3. FALSE
      BY <1>1, <2>1, <2>2 DEF HandlerOK, ExecutePhases
    <2>4. QED
      BY <2>3
  <1>8. CASE Rollback(h)
    BY <1>1, <1>8 DEF TypeOK, Rollback, Finish
  <1>9. CASE ReadBack(h)
    BY <1>1, <1>9 DEF TypeOK, ReadBack, RecoverResolve, RecoverRead, RecoverVerify, RecoverAnswer,
                RecoverFails, Answer, Finish, Step
  <1>10. QED
    BY <1>2, <1>3, <1>4, <1>5, <1>6, <1>7, <1>8, <1>9 DEF Transact

LEMMA NextRefusal == IInv /\ RefusalIsDefinite /\ [Next]_vars => RefusalIsDefinite'
  <1> SUFFICES ASSUME IInv, RefusalIsDefinite, [Next]_vars,
                      NEW g \in Handlers, phase'[g] = "rollback"
               PROVE  RefusalOK(g)'
    BY DEF RefusalIsDefinite, RefusalOK, FactErrors
  <1>1. phase[g] = "rollback" => RefusalOK(g)
    BY DEF RefusalIsDefinite, RefusalOK, FactErrors
  <1>2. CASE Operator \/ UNCHANGED vars
    <2>1. UNCHANGED <<db, phase, req, result>>
      BY <1>2 DEF Operator, vars, handlerVars
    <2>2. QED
      BY <1>1, <2>1 DEF RefusalOK
  <1>3. ASSUME NEW facts \in BootFacts, Bootstrap(facts)
        PROVE  RefusalOK(g)'
    <2>1. phase[g] = "rollback" /\ lock = None
      BY <1>3 DEF Bootstrap, handlerVars
    <2>2. FALSE
      BY <2>1, StoreAssumption DEF IInv, HandlerOK, ExecutePhases
    <2>3. QED
      BY <2>2
  <1>4. ASSUME NEW h \in Handlers, Arrive(h) \/ Transact(h) \/ ReadBack(h) \/ Lose(h)
        PROVE  RefusalOK(g)'
    <2>1. /\ db' = db /\ req'[g] = req[g]
          /\ \/ phase[g] = "rollback" /\ result'[g] = result[g]
             \/ result'[g] \in {"Authority", "Engine", "AuthorityChanged"}
             \/ /\ g = h /\ phase[h] = "load"
                /\ result'[g] = Verdict(work[h], req[h], ctx[h])
      BY <1>4, OnlyRefusalRollsBack
    <2>2. CASE phase[g] = "rollback" /\ result'[g] = result[g]
      BY <1>1, <2>1, <2>2 DEF RefusalOK
    <2>3. CASE result'[g] \in {"Authority", "Engine", "AuthorityChanged"}
      BY <2>3 DEF RefusalOK, FactErrors
    <2>4. CASE g = h /\ phase[h] = "load" /\ result'[g] = Verdict(work[h], req[h], ctx[h])
      <3>1. work[h] = db
        BY <2>4 DEF IInv, HandlerOK
      <3>2. QED
        BY <2>1, <2>4, <3>1, RefusalMeans DEF RefusalOK
    <2>5. QED
      BY <2>1, <2>2, <2>3, <2>4
  <1>5. QED
    BY <1>2, <1>3, <1>4 DEF Next

(* A refusal for the state of the facts says that nothing of the request   *)
(* was applied, and IntentConflict that its key was used for another       *)
(* intent: both are still true when the answer leaves (execute_in).        *)
THEOREM RefusalsAreDefinite == Spec => []RefusalIsDefinite
  <1>1. Init => RefusalIsDefinite
    BY DEF Init, RefusalIsDefinite
  <1>2. QED
    BY <1>1, NextRefusal, InvariantHolds, PTL DEF Spec

-----------------------------------------------------------------------------
(* Who may have written what the audit names.                              *)

(* The operator published a membership with the revision of c that lets    *)
(* the actor of q write its record.                                        *)
Entitled(actor, mrev, rec) ==
    \E file \in AccessFiles :
        LET f == file[actor]
        IN  /\ f.mrev = mrev
            /\ f.active /\ "Write" \in f.grants
            /\ Owner[rec] = actor \/ f.roles \cap WriteRoles # {}

(* The access facts are a published file, but for sessions that expired.   *)
Published ==
    \E file \in AccessFiles : \A actor \in Actors :
        /\ access[actor].active = file[actor].active /\ access[actor].mrev = file[actor].mrev
        /\ access[actor].roles = file[actor].roles /\ access[actor].grants = file[actor].grants

Writers == {"facts", "audit", "events", "receipt", "revalidate", "commit"}

(* A transaction that has something to write is of one entitled to it.     *)
EntitledOK(h) ==
    phase[h] \in Writers /\ Admissible(db, req[h]) =>
        Entitled(req[h].actor, ctx[h].mrev, req[h].rec)

PolicyInv ==
    /\ PolicyOnAudit
    /\ Published
    /\ \A h \in Handlers : EntitledOK(h)

LEMMA ApplyEntitled ==
    ASSUME Published, NEW d, NEW q \in Requests, NEW c, Verdict(d, q, c) = "apply"
    PROVE  Entitled(q.actor, c.mrev, q.rec)
  <1>1. PrepareError(q) = "none" /\ ContextOf(q.actor) = c
    <2>1. LookUp(d, q) # "apply"
      BY DEF LookUp
    <2>2. PrepareError(q) # "apply"
      BY DEF PrepareError
    <2>3. QED
      BY <2>1, <2>2 DEF Verdict
  <1>2. Resolves(q.actor, q.origin, "Write") /\ Allows(ContextOf(q.actor), q.rec)
    BY <1>1 DEF PrepareError
  <1>3. q.actor \in Actors
    BY DEF Requests
  <1> DEFINE f == access[q.actor]
  <1>4. /\ f.active /\ "Write" \in f.grants /\ f.mrev = c.mrev
        /\ Owner[q.rec] = q.actor \/ f.roles \cap WriteRoles # {}
    BY <1>1, <1>2 DEF Resolves, Established, Allows, ContextOf
  <1>5. QED
    BY <1>3, <1>4 DEF Published, Entitled

(* Whoever is in a transaction that writes was, on the same terms, or has  *)
(* just been admitted; meanwhile the database stands still.                *)
LEMMA OnlyAdmissionWrites ==
    ASSUME IInv, NEW h \in Handlers, NEW g \in Handlers,
           Arrive(h) \/ Transact(h) \/ ReadBack(h) \/ Lose(h), phase'[g] \in Writers
    PROVE  /\ db' = db /\ req'[g] = req[g] /\ ctx'[g] = ctx[g]
           /\ \/ phase[g] \in Writers
              \/ g = h /\ phase[h] = "load" /\ Verdict(work[h], req[h], ctx[h]) \in {"apply", "replay"}
  <1>1. TypeOK /\ HandlerOK(g) /\ HandlerOK(h)
    BY DEF IInv
  <1>2. CASE Arrive(h) \/ Lose(h)
    BY <1>1, <1>2 DEF TypeOK, Arrive, Execute, Recover, Lose, Finish, Step, Writers
  <1>3. CASE Begin(h) \/ BeginFails(h) \/ Resolve(h) \/ ResolveFails(h)
    BY <1>1, <1>3 DEF TypeOK, Begin, BeginFails, Resolve, ResolveFails, Refuse, Finish, Step, Writers
  <1>4. CASE Admit(h) \/ Replay(h) \/ Reject(h)
    BY <1>1, <1>4 DEF TypeOK, Admit, Replay, Reject, Refuse, Step, Writers
  <1>5. CASE WriteFacts(h) \/ WriteAudit(h) \/ WriteEvents(h) \/ WriteReceipt(h) \/ WriteFails(h)
    BY <1>1, <1>5 DEF TypeOK, WriteFacts, WriteAudit, WriteEvents, WriteReceipt, WriteFails,
                      Refuse, Step, Writers
  <1>6. CASE Revalidate(h) \/ RevalidateFails(h)
    BY <1>1, <1>6 DEF TypeOK, Revalidate, RevalidateFails, Refuse, Step, Writers
  <1>7. CASE Commit(h) \/ CommitUnknown(h)
    <2>1. phase[h] = "commit" /\ phase' = [phase EXCEPT ![h] = "idle"]
      BY <1>7 DEF Commit, CommitUnknown, Finish
    <2>2. g # h /\ phase[g] \in Writers
      BY <1>1, <2>1 DEF TypeOK, Writers
    <2>3. FALSE
      BY <1>1, <2>1, <2>2 DEF HandlerOK, ExecutePhases, Writers
    <2>4. QED
      BY <2>3
  <1>8. CASE Rollback(h)
    BY <1>1, <1>8 DEF TypeOK, Rollback, Finish, Writers
  <1>9. CASE ReadBack(h)
    BY <1>1, <1>9 DEF TypeOK, ReadBack, RecoverResolve, RecoverRead, RecoverVerify, RecoverAnswer,
                RecoverFails, Answer, Finish, Step, Writers
  <1>10. QED
    BY <1>2, <1>3, <1>4, <1>5, <1>6, <1>7, <1>8, <1>9 DEF Transact

(* The database changes by a bootstrap or by the image a handler commits.  *)
LEMMA OnlyCommitWrites ==
    ASSUME IInv, [Next]_vars, db' # db
    PROVE  \/ \E facts \in BootFacts : Bootstrap(facts)
           \/ \E h \in Handlers :
                 /\ phase[h] = "commit" /\ Writing(h, "commit") /\ db' = work[h]
                 /\ req[h] \in Requests /\ ctx[h] \in Contexts
  <1>1. \/ \E facts \in BootFacts : Bootstrap(facts)
        \/ \E h \in Handlers : Commit(h) \/ CommitUnknown(h)
    BY DEF Next, Operator, Arrive, Transact, ReadBack, vars, Execute, Recover, Lose,
         Begin, BeginFails, Resolve, ResolveFails, Admit, Replay, Reject, Refuse,
         WriteFacts, WriteAudit, WriteEvents, WriteReceipt, WriteFails,
         Revalidate, RevalidateFails, Rollback, RecoverResolve, RecoverRead, RecoverVerify,
         RecoverAnswer, RecoverFails, Answer
  <1>2. ASSUME NEW h \in Handlers, Commit(h) \/ CommitUnknown(h)
        PROVE  /\ phase[h] = "commit" /\ Writing(h, "commit") /\ db' = work[h]
               /\ req[h] \in Requests /\ ctx[h] \in Contexts
    <2>1. phase[h] = "commit" /\ db' = work[h] /\ work[h] # db
      BY <1>2 DEF Commit, CommitUnknown
    <2>2. QED
      BY <2>1 DEF IInv, HandlerOK
  <1>3. QED
    BY <1>1, <1>2

LEMMA CommitAudit ==
    ASSUME NEW d, DbTypeOK(d), NEW q \in Requests, NEW c \in Contexts, Admissible(d, q)
    PROVE  Image("commit", d, q, c).audit = Insert(d.audit, d.rev + 1, AuditRow(q, c))
  BY ImageTypes

LEMMA NextPolicy == IInv /\ PolicyInv /\ [Next]_vars => PolicyInv'
  <1> SUFFICES ASSUME IInv, PolicyInv, [Next]_vars PROVE PolicyInv'
    OBVIOUS
  <1>1. Published'
    <2>1. CASE Operator
      <3>1. CASE Publish
        BY <3>1 DEF Publish, Published
      <3>2. ASSUME NEW actor \in Actors, Expire(actor)
            PROVE  Published'
        <4>1. access[actor] \in AccessFacts /\ access \in [Actors -> AccessFacts]
          BY DEF IInv, TypeOK, AuthorityTypeOK
        <4>2. access'[actor] = [access[actor] EXCEPT !.session = "expired"]
              /\ \A a \in Actors \ {actor} : access'[a] = access[a]
          BY <3>2, <4>1 DEF Expire
        <4>3. \A a \in Actors :
                 /\ access'[a].active = access[a].active /\ access'[a].mrev = access[a].mrev
                 /\ access'[a].roles = access[a].roles /\ access'[a].grants = access[a].grants
          BY <4>1, <4>2 DEF AccessFacts
        <4>4. QED
          BY <4>3 DEF PolicyInv, Published
      <3>3. QED
        BY <2>1, <3>1, <3>2 DEF Operator, AuthorityNext
    <2>2. CASE ~Operator
      <3>1. access' = access
        <4>1. CASE UNCHANGED vars \/ \E facts \in BootFacts : Bootstrap(facts)
          BY <4>1 DEF vars, authorityVars, Bootstrap
        <4>2. ASSUME NEW h \in Handlers, Arrive(h) \/ Transact(h) \/ ReadBack(h) \/ Lose(h)
              PROVE  access' = access
          BY <4>2 DEF Arrive, Transact, ReadBack, authorityVars, Execute, Recover, Lose,
             Begin, BeginFails, Resolve, ResolveFails, Admit, Replay, Reject, Refuse,
             WriteFacts, WriteAudit, WriteEvents, WriteReceipt, WriteFails,
             Revalidate, RevalidateFails, Commit, CommitUnknown, Rollback,
             RecoverResolve, RecoverRead, RecoverVerify, RecoverAnswer, RecoverFails, Answer
        <4>3. QED
          BY <2>2, <4>1, <4>2 DEF Next
      <3>2. QED
        BY <3>1 DEF PolicyInv, Published
    <2>3. QED
      BY <2>1, <2>2
  <1>2. PolicyOnAudit'
    <2>1. CASE db' = db
      BY <2>1 DEF PolicyInv, PolicyOnAudit
    <2>2. ASSUME NEW facts \in BootFacts, Bootstrap(facts)
          PROVE  PolicyOnAudit'
      <3>1. db'.audit = db.audit
        BY <2>2 DEF Bootstrap, Db
      <3>2. QED
        BY <3>1 DEF PolicyInv, PolicyOnAudit
    <2>3. ASSUME NEW h \in Handlers,
                 phase[h] = "commit", Writing(h, "commit"), db' = work[h],
                 req[h] \in Requests, ctx[h] \in Contexts
          PROVE  PolicyOnAudit'
      <3> DEFINE row == AuditRow(req[h], ctx[h])
                 w == Image("commit", db, req[h], ctx[h])
      <3>1. /\ DbTypeOK(db) /\ Admissible(db, req[h])
            /\ db' = w
        BY <2>3 DEF IInv, TypeOK, Writing
      <3>2. db'.audit = Insert(db.audit, db.rev + 1, row)
        <4>1. w.audit = Insert(db.audit, db.rev + 1, row)
          BY <2>3, <3>1, CommitAudit
        <4> HIDE DEF w, row
        <4>2. QED
          BY <3>1, <4>1
      <3>3. Entitled(row.actor, row.mrev, row.rec)
        BY <2>3, <3>1 DEF PolicyInv, EntitledOK, Writers, AuditRow
      <3> HIDE DEF row, w
      <3>4. \A n \in DOMAIN db'.audit : db'.audit[n] = row \/ (n \in DOMAIN db.audit
                                                            /\ db'.audit[n] = db.audit[n])
        BY <3>2 DEF Insert
      <3>5. \A n \in DOMAIN db.audit :
               Entitled(db.audit[n].actor, db.audit[n].mrev, db.audit[n].rec)
        BY DEF PolicyInv, PolicyOnAudit, Entitled
      <3>6. \A n \in DOMAIN db'.audit :
               Entitled(db'.audit[n].actor, db'.audit[n].mrev, db'.audit[n].rec)
        BY <3>3, <3>4, <3>5
      <3>7. QED
        BY <3>6 DEF PolicyOnAudit, Entitled
    <2>4. QED
      BY <2>1, <2>2, <2>3, OnlyCommitWrites
  <1>3. ASSUME NEW g \in Handlers
        PROVE  EntitledOK(g)'
    <2> SUFFICES ASSUME phase'[g] \in Writers, Admissible(db', req'[g])
                 PROVE  Entitled(req'[g].actor, ctx'[g].mrev, req'[g].rec)
      BY DEF EntitledOK, Admissible, DecideError, Proposed, ReceiptPk, Entitled
    <2>1. CASE Operator \/ UNCHANGED vars
      <3>1. UNCHANGED <<db, phase, req, ctx>>
        BY <2>1 DEF Operator, vars, handlerVars
      <3>2. QED
        BY <3>1 DEF PolicyInv, EntitledOK
    <2>2. ASSUME NEW facts \in BootFacts, Bootstrap(facts)
          PROVE  FALSE
      BY <2>2, StoreAssumption DEF Bootstrap, handlerVars, IInv, HandlerOK, ExecutePhases, Writers
    <2>3. ASSUME NEW h \in Handlers, Arrive(h) \/ Transact(h) \/ ReadBack(h) \/ Lose(h)
          PROVE  Entitled(req'[g].actor, ctx'[g].mrev, req'[g].rec)
      <3>1. /\ db' = db /\ req'[g] = req[g] /\ ctx'[g] = ctx[g]
            /\ \/ phase[g] \in Writers
               \/ /\ g = h /\ phase[h] = "load"
                  /\ Verdict(work[h], req[h], ctx[h]) \in {"apply", "replay"}
        BY <2>3, OnlyAdmissionWrites
      <3>2. CASE phase[g] \in Writers
        BY <3>1, <3>2 DEF PolicyInv, EntitledOK
      <3>3. CASE g = h /\ phase[h] = "load" /\ Verdict(work[h], req[h], ctx[h]) \in {"apply", "replay"}
        <4>1. work[h] = db /\ req[h] \in Requests
          BY <3>3 DEF IInv, HandlerOK
        <4>2. Verdict(work[h], req[h], ctx[h]) = "apply"
          BY <3>1, <3>3, <4>1, VerdictMeans DEF Admissible, HasReceipt
        <4>3. QED
          BY <3>1, <3>3, <4>1, <4>2, ApplyEntitled DEF PolicyInv
      <3>4. QED
        BY <3>1, <3>2, <3>3
    <2>4. QED
      BY <2>1, <2>2, <2>3 DEF Next
  <1>4. QED
    BY <1>1, <1>2, <1>3 DEF PolicyInv

(* Every audited change was made by the row's owner or under a write role  *)
(* of a membership the operator published, which the audit names: whatever *)
(* is published or expires between the look and the commit (execute_in).   *)
THEOREM AuditedByPolicy == Spec => []PolicyOnAudit
  <1>1. Init => PolicyInv
    <2> SUFFICES ASSUME Init PROVE PolicyInv
      OBVIOUS
    <2>1. Published
      BY DEF Init, AuthorityInit, Published
    <2>2. PolicyOnAudit
      BY DEF Init, PolicyOnAudit, EmptyDb, EmptyTable, Db
    <2>3. \A h \in Handlers : EntitledOK(h)
      BY DEF Init, EntitledOK, Writers
    <2>4. QED
      BY <2>1, <2>2, <2>3 DEF PolicyInv
  <1>2. PolicyInv => PolicyOnAudit
    BY DEF PolicyInv
  <1>3. QED
    BY <1>1, <1>2, NextPolicy, InvariantHolds, PTL DEF Spec

-----------------------------------------------------------------------------
(* The store implements the log.                                           *)

(* What runs in a transaction is a request as the client sent it.          *)
AsSent(h) == phase[h] \in {"begin"} \cup ExecutePhases => req[h] \in Workload

LEMMA NextAsSent ==
    IInv /\ (\A h \in Handlers : AsSent(h)) /\ [Next]_vars => (\A h \in Handlers : AsSent(h))'
  <1> SUFFICES ASSUME IInv, \A h \in Handlers : AsSent(h), [Next]_vars, NEW g \in Handlers
               PROVE  AsSent(g)'
    OBVIOUS
  <1>1. TypeOK /\ AsSent(g)
    BY DEF IInv
  <1>2. CASE Operator \/ UNCHANGED vars \/ \E facts \in BootFacts : Bootstrap(facts)
    BY <1>1, <1>2 DEF Operator, vars, handlerVars, Bootstrap, AsSent
  <1>3. ASSUME NEW h \in Handlers, Arrive(h) \/ Lose(h)
        PROVE  AsSent(g)'
    BY <1>1, <1>3 DEF TypeOK, Arrive, Execute, Recover, Lose, Finish, Step, AsSent, ExecutePhases
  <1>4. ASSUME NEW h \in Handlers, Begin(h) \/ BeginFails(h) \/ Resolve(h) \/ ResolveFails(h)
        PROVE  AsSent(g)'
    BY <1>1, <1>4 DEF TypeOK, Begin, BeginFails, Resolve, ResolveFails, Refuse, Finish, Step,
                      AsSent, ExecutePhases
  <1>5. ASSUME NEW h \in Handlers, Admit(h) \/ Replay(h) \/ Reject(h)
        PROVE  AsSent(g)'
    BY <1>1, <1>5 DEF TypeOK, Admit, Replay, Reject, Refuse, Step, AsSent, ExecutePhases
  <1>6. ASSUME NEW h \in Handlers, WriteFacts(h) \/ WriteAudit(h) \/ WriteEvents(h)
                                  \/ WriteReceipt(h) \/ WriteFails(h)
        PROVE  AsSent(g)'
    BY <1>1, <1>6 DEF TypeOK, WriteFacts, WriteAudit, WriteEvents, WriteReceipt, WriteFails,
                      Refuse, Step, AsSent, ExecutePhases
  <1>7. ASSUME NEW h \in Handlers, Revalidate(h) \/ RevalidateFails(h)
        PROVE  AsSent(g)'
    BY <1>1, <1>7 DEF TypeOK, Revalidate, RevalidateFails, Refuse, Step, AsSent, ExecutePhases
  <1>8. ASSUME NEW h \in Handlers, Commit(h) \/ CommitUnknown(h) \/ Rollback(h)
        PROVE  AsSent(g)'
    BY <1>1, <1>8 DEF TypeOK, Commit, CommitUnknown, Rollback, Finish, AsSent, ExecutePhases
  <1>9. ASSUME NEW h \in Handlers, ReadBack(h)
        PROVE  AsSent(g)'
    BY <1>1, <1>9 DEF TypeOK, ReadBack, RecoverResolve, RecoverRead, RecoverVerify, RecoverAnswer,
                RecoverFails, Answer, Finish, Step, AsSent, ExecutePhases
  <1>10. QED
    BY <1>2, <1>3, <1>4, <1>5, <1>6, <1>7, <1>8, <1>9 DEF Next, Transact

(* The entry of the log at a revision is read off the one receipt of it.   *)
Entry(d, n) ==
    LET pk == CHOOSE pk \in DOMAIN d.receipts : d.receipts[pk].rev = n
    IN  [pk |-> pk, intent |-> d.receipts[pk].intent]

LEMMA EntryOfReceipt ==
    ASSUME NEW d, LedgerOK(d), NEW pk \in DOMAIN d.receipts
    PROVE  Entry(d, d.receipts[pk].rev) = [pk |-> pk, intent |-> d.receipts[pk].intent]
  <1> DEFINE n == d.receipts[pk].rev
             P(k) == k \in DOMAIN d.receipts /\ d.receipts[k].rev = n
  <1>1. \A k : P(k) <=> k = pk
    BY DEF LedgerOK
  <1>2. (CHOOSE k \in DOMAIN d.receipts : d.receipts[k].rev = n) = pk
    BY <1>1
  <1>3. QED
    BY <1>2 DEF Entry

(* A revision keeps its entry while the database grows.                    *)
LEMMA EntriesKept ==
    ASSUME NEW d, LedgerOK(d), NEW w, LedgerOK(w), Keeps(d.receipts, w.receipts)
    PROVE  \A n \in DOMAIN d.audit :
              Entry(w, n) = Entry(d, n) /\ Entry(d, n).pk \in DOMAIN d.receipts
  <1> SUFFICES ASSUME NEW n \in DOMAIN d.audit
               PROVE  Entry(w, n) = Entry(d, n) /\ Entry(d, n).pk \in DOMAIN d.receipts
    OBVIOUS
  <1>1. PICK pk \in DOMAIN d.receipts : d.receipts[pk].rev = n
    BY DEF LedgerOK
  <1>2. Entry(d, n) = [pk |-> pk, intent |-> d.receipts[pk].intent]
    BY <1>1, EntryOfReceipt
  <1>3. pk \in DOMAIN w.receipts /\ w.receipts[pk] = d.receipts[pk]
    BY DEF Keeps
  <1>4. Entry(w, n) = [pk |-> pk, intent |-> d.receipts[pk].intent]
    BY <1>1, <1>3, EntryOfReceipt
  <1>5. QED
    BY <1>2, <1>4

LogOf(d) == [n \in DOMAIN d.audit |-> Entry(d, n)]

LEMMA LogOfDb == [n \in DOMAIN db.audit |-> LoggedAs(n)] = LogOf(db)
  BY DEF LogOf, Entry, LoggedAs

(* A bootstrap creates the application.                                    *)
LEMMA BootstrapCreates ==
    ASSUME IInv, NEW facts \in BootFacts, Bootstrap(facts)
    PROVE  Log!LogNext
  <1>1. /\ db = EmptyDb /\ db.rev = 0
        /\ db' = Db(1, facts, db.audit, db.events, db.receipts)
    BY DEF IInv, TypeOK, DbTypeOK, Bootstrap
  <1>2. db'.rev = 1 /\ db'.facts = facts /\ db'.audit = db.audit /\ db'.receipts = db.receipts
    BY <1>1 DEF Db
  <1>3. DOMAIN db.audit = {} /\ DOMAIN db'.audit = {}
    BY <1>1, <1>2 DEF EmptyDb, EmptyTable, Db
  <1>4. [n \in DOMAIN db'.audit |-> LoggedAs(n)'] = [n \in DOMAIN db.audit |-> LoggedAs(n)]
    BY <1>3
  <1>5. QED
    BY <1>1, <1>2, <1>4 DEF Log!LogNext, Log!Create

(* A commit applies the one command of its request.                        *)
LEMMA CommitApplies ==
    ASSUME IInv, NEW h \in Handlers, AsSent(h), phase[h] = "commit", Writing(h, "commit"),
           db' = work[h], req[h] \in Requests, ctx[h] \in Contexts
    PROVE  Log!LogNext
  <1> DEFINE q == req[h]
             pk == ReceiptPk(q)
             intent == Intent(q)
             w == Image("commit", db, q, ctx[h])
             new == [rev |-> db.rev + 1, state |-> To[q.cmd], intent |-> intent]
  <1>1. /\ DbTypeOK(db) /\ LedgerOK(db) /\ Admissible(db, q) /\ db' = w
        /\ q \in Workload
    BY DEF IInv, TypeOK, Ledger, Writing, AsSent, ExecutePhases
  <1>2. /\ w.rev = db.rev + 1
        /\ w.facts = WithFacts(db, q).facts
        /\ w.audit = Insert(db.audit, db.rev + 1, AuditRow(q, ctx[h]))
        /\ w.receipts = Insert(db.receipts, pk, new)
    BY <1>1, ImageTypes
  <1>3. LedgerOK(w) /\ Keeps(db.receipts, w.receipts)
    BY <1>1, CommitLedger
  <1>4. w.facts = [db.facts EXCEPT ![q.rec] = Proposed(db, q)]
    BY <1>2 DEF WithFacts, Db
  <1>5. /\ intent.cmd = q.cmd /\ intent.rec = q.rec /\ intent.input = q.input
        /\ intent.expected = q.expected
    BY DEF Intent
  <1>6. new.rev = db.rev + 1 /\ new.intent = intent
    OBVIOUS
  <1> HIDE DEF w, new
  <1>7. /\ q.cmd \in Commands /\ q.rec \in Records /\ db.rev # 0 /\ q.expected = db.rev
        /\ pk \notin DOMAIN db.receipts /\ DecideError(db, q) = "none"
    BY <1>1 DEF Admissible
  <1>8. pk \in {ReceiptPk(r) : r \in WellNamed} /\ intent \in {Intent(r) : r \in WellNamed}
    BY <1>1, <1>7 DEF WellNamed
  <1>9. /\ DOMAIN w.audit = DOMAIN db.audit \cup {db.rev + 1}
        /\ pk \in DOMAIN w.receipts /\ w.receipts[pk] = new
    BY <1>2 DEF Insert
  <1>10. Entry(w, db.rev + 1) = [pk |-> pk, intent |-> intent]
    BY <1>3, <1>6, <1>9, EntryOfReceipt
  <1>11. \A n \in DOMAIN db.audit :
            Entry(w, n) = Entry(db, n) /\ Entry(db, n).pk \in DOMAIN db.receipts
    BY <1>1, <1>3, EntriesKept
  <1>12. DOMAIN db.audit = 2 .. db.rev /\ db.rev \in Nat /\ db.rev + 1 \notin DOMAIN db.audit
    BY <1>1 DEF LedgerOK, DbTypeOK
  <1>13. LogOf(w) = [n \in DOMAIN LogOf(db) \cup {db.rev + 1} |->
                       IF n = db.rev + 1 THEN [pk |-> pk, intent |-> intent] ELSE LogOf(db)[n]]
    BY <1>9, <1>10, <1>11, <1>12 DEF LogOf
  <1>14. \A n \in DOMAIN LogOf(db) : LogOf(db)[n].pk # pk
    BY <1>7, <1>11 DEF LogOf
  <1>15. Log!Changed(db.facts[intent.rec], intent) = Proposed(db, q)
    BY <1>5 DEF Log!Changed, Proposed
  <1>16. Log!Legal(db.facts[intent.rec], intent)
    BY <1>5, <1>7, <1>15 DEF Log!Legal, DecideError
  <1>17. Log!Apply(pk, intent)
    <2>1. [n \in DOMAIN db'.audit |-> LoggedAs(n)'] = LogOf(w)
      BY <1>1 DEF LogOf, Entry, LoggedAs
    <2>2. db'.rev = db.rev + 1
          /\ db'.facts = [db.facts EXCEPT ![intent.rec] = Log!Changed(db.facts[intent.rec], intent)]
      BY <1>1, <1>2, <1>4, <1>5, <1>15
    <2> HIDE DEF pk, intent
    <2>3. QED
      BY <1>5, <1>7, <1>13, <1>14, <1>16, <2>1, <2>2, LogOfDb DEF Log!Apply
  <1>18. QED
    BY <1>8, <1>17 DEF Log!LogNext

(* The four tables of the store, changed in four statements by handlers    *)
(* that run at once, are an atomic log of commands: each commit is one     *)
(* command of it, and no other step shows (execute_in, bootstrap).         *)
THEOREM StoreImplementsLog == Spec => ImplementsLog
  <1>1. Init => Log!LogInit
    BY DEF Init, EmptyDb, EmptyTable, Db, Log!LogInit
  <1>2. Init => \A h \in Handlers : AsSent(h)
    BY DEF Init, AsSent, ExecutePhases
  <1>3. IInv /\ (\A h \in Handlers : AsSent(h)) /\ [Next]_vars => [Log!LogNext]_(Log!logVars)
    <2> SUFFICES ASSUME IInv, \A h \in Handlers : AsSent(h), [Next]_vars
                 PROVE  Log!LogNext \/ UNCHANGED Log!logVars
      OBVIOUS
    <2>1. CASE db' = db
      BY <2>1 DEF Log!logVars, LoggedAs
    <2>2. CASE db' # db
      BY <2>2, OnlyCommitWrites, BootstrapCreates, CommitApplies
    <2>3. QED
      BY <2>1, <2>2
  <1>4. QED
    BY <1>1, <1>2, <1>3, NextAsSent, InvariantHolds, PTL DEF Spec, ImplementsLog, Log!LogSpec

==============================================================================
