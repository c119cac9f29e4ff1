# EvoBase in TLA+

This directory specifies and verifies the behaviour of EvoBase: the atomic
command store and its host, the browser client, the store of related records and the formulas over
it, the submission of orders, the Builder's drafts, and the legacy backend's
messaging and database provisioning; the plan below says what comes next. The
source is the reference: every definition names, in `PROJECT.json`, the lines it
was translated from.

## The system

EvoBase runs *applications* described by a checked definition (tables, policies,
state machines, commands). One tenant's applications live in one SQLite/libSQL
**fixed store** (`crates/evobase-store`). A **host** (`apps/evobase-host`) serves
one application over HTTP: it resolves who is asking (`HostAuthority::resolve`
over the operator's access file), runs declared commands through the **command
kernel** (`crates/evobase-appspec`), and commits their effect. The browser
**Runtime client** (`apps/evobase-builder/src/runtime.rs`) reads tables, submits
commands and recovers receipts. A separate **legacy backend** (`evobase-server`
with `evobase-gateway`, `-messaging`, `-auth`, `-db`, `-core`) offers JWT login,
a REST gateway over PostgreSQL, database provisioning and two in-memory
messaging hubs; Dart clients (`clients/flutter`, `apps/evobase_workbench`) use it.

| component | state | operations | hard behaviour | what makes it correct |
|---|---|---|---|---|
| Fixed store | application row, release, audit, events, receipts | bootstrap, execute, receipt, snapshot, open | concurrent transactions, statements that fail, dropped handlers, unknown commits, retries | commits whole or not at all, once per key, in revision order; a receipt once given stays |
| Command kernel | none (pure) | prepare_command, decide_command, available_commands | order of checks | transitions are declared ones; policy is asked of the right actor |
| Host authority | access file, clock | resolve | changes between two reads | what commits was authorised at the last look |
| Tenant HTTP host | pinned release, frozen access snapshots | list, metadata, command, receipt | data and authority read at different times | discloses only what the context still allows |
| Runtime client | metadata, list, pending attempt, receipt, generation | connect, refresh, submit, retry, recover, change credential | late answers, aborted requests, retry under another credential | a request is never forgotten while it may still take effect, and takes effect at most once |
| User messaging hub | connections, offline queues | connect, disconnect, send, cleanup | connect racing send, stale senders, expiry | a message is in one place; nobody connected has a queue |
| Topic hub | broadcast ring and queue per topic | publish, subscribe | lagging receivers, full queue | bounded, ordered, loses only the oldest |
| Database manager | registry of databases, bootstrap status | register, resolve, bootstrap | provisioning fails half way | registered exactly when provisioned |
| JWT service, Dart auth manager | tokens | login, refresh, logout | refresh racing logout | no token after logout |
| Relations and formulas | record set | apply_batch, reverse lookups, evaluate | partial batches, cycles, budgets | all or nothing, references closed, evaluation bounded |
| Submit order, receipt book | receipts by key | project, lookup, decide_submit_order, record_applied | reuse of a key, policy and grants that change in between, the order of tests | same intent, same receipt; an order is submitted once; what is hidden is as good as absent |
| Builder | one item of localStorage; per window a draft, pending input, the last snapshot seen | edit, commit, rename, rule, policy, paste, cancel, save, load | several windows, a save that answers late, edits that are legal one by one | no save destroys what its author has not seen; what is stored can be restored |

How they interact: the host calls the store with its authority; the store calls
the kernel inside one immediate transaction and asks the authority three times
(before the load, while preparing, before the commit). Handlers share nothing
but the database file. The Runtime client talks HTTP to the host and holds its
own idea of what happened. The **Builder** is the same browser program without a
host: its windows edit definitions and rows, run the policy, the submission and
the formulas of `evobase-appspec` on copies of them, and meet only in
`localStorage`, under a Web Lock. The legacy backend shares no state with these.
`PROJECT.json` lists every component, modelled or not, and under `hazards`
where each of them can go wrong.

## Modules

| module | models | rests on |
|---|---|---|
| `HostAuthority` | the access file, the clock, `HostAuthority::resolve` | |
| `CommandLog` | the abstract promise: a log of commands, each applied once, whole, in revision order | |
| `CommandStore` | the store's tables and the handlers of execute, receipt and bootstrap | `HostAuthority`; implements `CommandLog` |
| `CommandStoreProofs` | theorems about `CommandStore` | `CommandStore` |
| `HostReads` | the list and the Runtime metadata of the host | `HostAuthority` |
| `HostReadsProofs` | theorems about `HostReads` | `HostReads` |
| `RuntimeClient` | one browser window, HTTP, and the host as a `CommandLog` | `CommandLog` |
| `RuntimeClientProofs` | theorems about `RuntimeClient` | `RuntimeClient` |
| `MessagingHub` | the user hub and the SSE streams that read from it | |
| `TopicHub` | one topic of the gateway's topic hub and its streams | |
| `HubProofs` | theorems about both hubs | `MessagingHub`, `TopicHub` |
| `DatabaseManager` | bootstrapping runtime databases: the lock, the provisioner, the registry | |
| `DatabaseManagerProofs` | theorems about `DatabaseManager` | `DatabaseManager` |
| `RecordSchema` | records under a definition: `validate_records`, and what `compile` guarantees of captures | |
| `RecordSet` | the abstract promise: a batch is a set of changes that take effect together or not at all | `RecordSchema` |
| `RelationStore` | `apply_batch`, change by change | `RecordSchema`; implements `RecordSet` |
| `RelationStoreProofs` | theorems about `RelationStore` | `RelationStore` |
| `Formulas` | what is read of a relation store: reverse references, lookups, compiled formulas under budgets and policies | `RelationStore` |
| `SubmitOrder` | the order policy, its decision and receipt book, driven by the Builder's inspector | |
| `SubmitOrderProofs` | theorems about `SubmitOrder` | `SubmitOrder` |
| `Builder` | the windows of the Builder over one item of `localStorage` | |
| `BuilderProofs` | theorems about `Builder` | `Builder` |
| `MC*` | the small instances for TLC | |

`CommandLog` joins the two halves of a command's life: `CommandStore` is shown
to implement it, and `RuntimeClient` uses nothing of the host but it. So what
holds for the window (a request takes effect at most once, a shown receipt is
true) holds of a window in front of the concurrent store, as long as the host's
answers are those of the log.

### CommandStore

`db` is the committed database: the revision and rows of `applications`, and the
tables `command_audit`, `committed_events` and `command_receipts` as functions
from their primary keys. `lock` is SQLite's write lock under `BEGIN IMMEDIATE`;
`work[h]` is what a handler's transaction shows. A handler takes one step per
`await` behind which another handler, the operator or a crash can come:

| phase | code (`evobase-store/src/commands.rs`) |
|---|---|
| `begin` | `BEGIN IMMEDIATE`, which may wait for the lock, time out or fail |
| `resolve` | the first `resolve` and `check_binding` |
| `load` | `load`, `prepare_command`, the receipt lookup, `validate_receipt`, the revision, `decide_command`: `Verdict`, in the code's order of tests |
| `facts`, `audit`, `events`, `receipt` | the four writes, each of which may fail (`WriteFails`; `fail_at` in the tests) |
| `revalidate` | the second resolution, compared as a whole with the first |
| `commit` | COMMIT: done, or of unknown outcome (`CommitUnknown`) |
| `rollback` | ROLLBACK, then the answer |
| `lookup`, `read`, `verify`, `recheck` | `Store::receipt`: resolve, one deferred read, the stored request checked again, revalidate |

`Lose` drops a handler between any two steps. `Operator` changes the access file
or lets a session expire, at any time. A record has a state and one other field,
which stands for everything guards, inputs and constraints look at.

### HostReads

The steps are the reads of `list` and `runtime_metadata` in the host's `lib.rs`:
authorize, the store's snapshot, (metadata only) authorize again,
`snapshot_for_operation`, the projection over both as they were, and the live
look before the answer, with a second one for Write if there are commands to
offer. The clock stays live over the frozen file, as `current_time` ignores the
time it is given, and so `SessionExpires` also ages what is frozen.

### RuntimeClient

An action per control of the window (`EditCredential`, `Connect`, `Refresh`,
`SelectTable`, `Submit`, `Retry`, `Recover`) and one per way a coroutine goes on
after its await (`Resume*`). `tasks` are the suspended coroutines; `network`
their requests, which live on after the window has stopped waiting. The
generation counter is abstracted to a flag on each task, set by the next
`invalidate`: the code only ever compares it for equality. `Unknown` is every
outcome the code treats alike: a transport or protocol failure, an `internal`
answer, a receipt that does not match. One server, application and table are
bound; notices and form fields are left out.

### MessagingHub and TopicHub

`connect`, `send_message`, `disconnect` and the cleanup tick of the user hub are
one step each, for each holds the write lock throughout, except that `connect`
replays after releasing it: `Replay` is one turn of that loop. `status` follows a
stream through its end. The stream's generator drops its guard before its
receiver once it has been polled; before the first poll the two are captured
variables whose order of drop the language leaves to the compiler, so
`abandoned` may go either way, and a sender may be `deaf` for a while.
`Retained` is `Vec::retain` as a recursive function rather than `SelectSeq`, so
that it can be proved about.

`TopicHub` is one topic: `publish` counts the receivers and then sends, both
under the lock, but a stream is dropped without it, so the last receiver may go
in between (`PublishCounts`, `DropStream`, `PublishSends`: the message is in
`vanished`). The ring is kept whole in the model; only its last
`ChannelCapacity` messages can be read (`Overwritten`).

### DatabaseManager

A step per await of `bootstrap_database` and of the provisioner it calls: waiting
for `bootstrap_lock`, the look at the registry, the look for the database,
CREATE DATABASE, the connection, each script, introspection, `register`. A
bootstrap is used once, so its name says whose a statement was: `postgres[db]`
is everything that took effect in a database, `<<b, 0>>` its creation and
`<<b, i>>` the i-th script of b, whole, because a script is sent as one simple
query. A step that fails may have taken effect before the answer was lost. When a
request is dropped (its client hung up) the lock is released with the handler,
but the statement it was waiting for may still be carried out: it joins
`orphans`. `Restart` empties the registry, which is in memory only. The checks of
a request and the reads of the registry keep no state and are left out; the
URL of the new database is made from one that was parsed at the start, so the
error of making it is left out too.

### RelationStore

`apply_batch` is a loop and then two checks. `Change` is one turn of the loop,
`Reject` a turn that ends it with an error (or the check of the batch's length,
which the code makes before the loop), and `Publish` and `Refuse` are what
follows: restricted deletions, the check of the graph with 0 for the prices
still to be captured, the captures, and the check of the final rows. `candidate`,
`touched`, `inserted` and `deleted` are the call's own variables; `asked` is the
set of its changes so far, kept to relate a batch to `RecordSet`, which knows no
order.

A row is a partial function from fields to values: an absent field differs from
a blank one where the code compares rows (`KeepsHistory`) and not where it
validates them. Values are amounts, references and Blank; Null is treated as
Blank is, and text and the other scalars as amounts are. Limits of encoding and
text length are left out. `Restricted` implies that the graph is invalid, so in
the code it only chooses the error.

### Formulas

`Compiles` is `CheckedFormulas::compile`: every named formula is followed with its
depth, its nodes and the names it is under, and each test is at its place, so the
first error is the code's. `Evaluate` is the evaluation of one formula for one
record: nodes and records are counted before they are read, every record and
field is asked of the output policy, a sum needs the right to scan its whole
child table, and every product and total is checked to fit. The record that goes
through the recursion is what was spent and the value or error so far. Amounts
have a small range (`Limit`) in the place of `i64`, and the limits of
`FormulaLimits` are constants. The module is evaluated in the states of
`RelationStore`, so formulas meet every set of facts that batches can publish:
absent and blank fields, records that stand in for others, and none at all.

What the code does by recursion over an expression is here a recursive function of
the levels that may still be entered: `MaxDepth` at the root, `EvaluateLevel` from
what is found one level further down, `EvaluateTooDeep` at none. `check_expression`,
`authorize_expression` and `collect_fields` are written the same way, and a loop is
`Through`, a recursive function over its turns. `Expressions` are the expressions a
function is defined on, with their parts (`FormulaAssumption`); `compile` rejects
every formula deeper than `MaxDepth`, so nothing is cut off.

`FormulasMeanWhatTheySay` compares the evaluation with `Account`, which has no
budget, no kinds, no policy and no errors: the value of an expression, the nodes and
the records that it takes, and whether a product, or what a sum comes to at some
turn of its loop, does not fit (a sum may leave the range on the way and end within
it). The code succeeds exactly when the account is within both budgets and every
amount fits; a budget error is given only if the account is over that budget,
`Overflow` only if an amount does not fit, and after `compile` no other error is
left.
`HiddenIsUnread` compares the evaluation with one over `Masked`, the records and
fields the policy lets through.

### SubmitOrder

An action per control of the policy inspector: run the command, reset, change the
simulated actor, role, grants or membership, add or edit the policy source, and,
elsewhere in the Builder, add or drop a data rule or cancel the draft. `Decide` is
`decide_submit_order`, with its tests in their order; `Intent` is
`normalized_intent` (trimmed notes, patches whose order is lost). The inspector
only makes some requests; the decision answers any, so `OtherRequests` adds
patches out of order, patched twice, of another order's line, and fields that may
not change. The sandbox keeps its rows while the definition goes on changing, as
in the code. `copied` and `sent` are history.

### Builder

`win[w]` holds the signals of a window: what it last loaded or saved (`saved`, and
`persisted`, the bytes), the draft (`spec`, `rows`), what is not committed to it
(`name`, `buffers`, `composing`), and `saving` with the `request` that waits for
the lock. `Save` is the click, `Write` and `WriteFails` the turn of
`writeLocalSnapshot` under the lock, `Resume` the rest of the task; between any
two of them the other window may do all of it. `Overwrite` is another program, or
another version of this one, that writes what this one cannot read. A window that is
loaded while the browser refuses to read the item fails as one that finds such an
item does, but holds no bytes (`Opened(FALSE)`). `Fits` is the limit that
`encode_saved` and `decode_saved` put on the bytes of a whole snapshot; the same
limit on its parts, which refuses edits earlier, is left out. A definition
is abstracted to what its edits can get wrong: the name, the number of optional
fields, whether the data rule is there, the policy's revision; a row to the one
cell that is edited.

## What the runs check

| run | what it shows | distinct states |
|---|---|---|
| `command_store` | the store's safety, that it implements `CommandLog`, and that every handler ends | 358 thousand |
| `host_reads` | a read discloses and offers what the last look at the authority allows | 123 thousand |
| `runtime_client` | the window's safety | 2.0 million |
| `runtime_client_live` | the window is never busy for ever | 474 thousand |
| `messaging_hub` | where a message is, in which order it arrives, that it is handed on | 312 thousand |
| `messaging_hub_doc` | violated: see Findings | |
| `topic_hub` | order, loss only by overwriting, bounded queue | 445 thousand |
| `database_manager` | the registry tells what was done, and nothing built is thrown away | 530 thousand |
| `relation_store` | published records are valid and complete, captures are right and stay, a batch is a set; formulas mean what they say and read nothing hidden | 43 thousand |
| `relation_store_doc` | violated: see Findings | |
| `submit_order` | an order is submitted by one receipt, a retry is replayed, what is hidden is as good as absent | 198 thousand |
| `builder` | no save destroys what its author has not seen, what is entered stays, what is stored can be restored, saves end | 306 thousand |

The properties, by what they are about:

- **a command is whole, and happens once.** `Ledger` (audit, events and receipts
  agree, revision by revision), `ImplementsLog` (whose log is a run of the
  declared machine over every row).
- **what a client was told.** `AckDurable` (a receipt once given is the stored
  one, of the intent sent), `RefusalIsDefinite` (a refusal that depends on facts
  means that nothing was applied under the key), and on the window's side
  `NothingForgotten`, `AtMostOnce`, `ReceiptIsTrue`.
- **authority.** `AuthorityAtCommit`, `PolicyOnAudit`, `DisclosesWhatIsVisible`,
  `OffersWhatIsAllowed`, `NothingStale`.
- **messages.** `NobodyConnectedWaits`, `Conserved`, `OrderKept`; for topics
  `NobodySubscribedWaits`, `InOrder`, `MissesOnlyOverwritten`.
- **provisioning.** `NobodyRegistersTwice`, `EntryTellsWhatRan` (with the orphans of
  dropped requests), `FailPolicyBuildsAnew`.
- **related records.** `Reopens`, `CapturesStand`, `ImplementsSet`; of what is
  read of them `FormulasMeanWhatTheySay` (compilation and the budgets against a
  reference definition that has neither) and `HiddenIsUnread` (every answer is
  the one over the records without what the policy hides).
- **orders.** `SandboxIsExplained` (the rows are the copied ones with each receipt's
  intent carried out once), `RetryIsReplayed`, `HiddenIsAbsent`.
- **drafts.** `OverwritesOnlyWhatItSaw`, `RevisionNamesContent`, `Restorable`,
  `InputKept`, `StatusIsHonest`.
- **progress.** `HandlersFinish`, `Settles`, `HandedOn`, `SavesEnd`; and
  `BusyIsOneCurrentTask`, without which `Settles` would depend on luck.

Others are proved and no longer need a run: the store's types, `IInv`,
`AppendOnly` and `NeverCorrupt`, `AnsweredIsRegistered`, `DisplacesOldest` and
`CapturedAtInsertion`.

For every property a run checks, `PROJECT.json` names a mutation of the model that breaks it:
the mutated form is defined next to the operator it mutates.

### Bounds, and why they are enough

- `command_store`: two handlers (a conflict needs two; the lock lets only one
  write), six requests chosen to collide: the same key with another intent, the
  same key by another actor, one revision asked for by several, a command and a
  record that do not exist, inputs that guards and constraints refuse. One change
  of authority, at any step, by one of three files, covers a lost grant, a lost
  role, another binding, another membership revision; a second change only
  repeats what `Revalidate` compares. There is no symmetry, so that liveness is
  checked on the same instance.
- `host_reads`: readers share nothing and write nothing, so one is enough; three
  changes of authority fall into the three gaps between its four looks.
- `runtime_client`: two keys and two tasks, so that a coroutine of an old
  generation lives beside a new one and its name is only reused when nothing of
  it is left; two credentials; the symmetries are of keys and of tasks, which
  no action tells apart. With one key and three tasks the same properties hold.
  Revisions are bounded because the machine of the instance is.
- `messaging_hub`: one user, for users share nothing but the lock; three
  connections, for live and stale senders side by side and one that comes later;
  two messages; a queue entry expires with the one tick of the clock.
- `topic_hub`: buffers of two and five messages overflow both; three streams.
- `database_manager`: four bootstraps over two ids and two databases, so that they
  meet over the id, over the database under either policy, and over both; one or
  two scripts; one restart, after which a bootstrap finds the database of another
  that the registry has forgotten.
- `relation_store`: two products and two lines, three changes to a batch, so that
  a batch can replace a product, insert a line of it and delete another line;
  prices 1 and 2, of which only 1 may be captured; four identities against a
  limit of three records. It starts empty, or with a line paid before the price
  of its product rose, which no batch could do over again. The formulas are those of the Builder's
  relation inspector, a list that goes through other formulas and through records
  that stand in for others, and one list per error of compilation. Amounts up to 3
  and budgets of eight nodes and three records make sums overflow and budgets end
  in some states and just suffice in others; every policy but the preview's hides
  something.
- `submit_order`: two actors, two orders, two keys for each actor; four drafts, among
  them ones with an order without lines, a quantity and a price out of range, an
  order submitted before, and more lines than patches allowed. Two revisions of
  the policy, after which it refuses to grow.
- `builder`: two windows and two edits between them, of any kind: two suffice for a
  conflict, for an edit behind a save, and for a rule against a cell. Two rows of
  at most two, batches of at most one change, one field to add and two revisions
  put every limit next to a draft that is within it, and a snapshot of both rows
  does not fit with the added field and the longer name.

### Fairness

- `CommandStore`: weak fairness of each handler's steps. The runtime polls every
  future that is ready; waiting for the lock ends because the busy timeout does
  (`BeginFails`). The busy timeout is set for local stores only; for a remote
  one the run shows what the driver's own timeout would have to provide.
- `RuntimeClient`: weak fairness of the 10 second timer and of the event loop
  only. Nothing is assumed of the host, the network or the user.
- `Builder`: the browser grants the Web Lock, which nobody keeps across an await, and
  resumes the task whose promise is settled.
- `MessagingHub`: the rest of a `connect` once begun, polls of a stream that has
  something to yield, the drop of a guard. Nobody need connect, send or leave,
  and the cleanup task need not run.
- `TopicHub`, `RelationStore`, `SubmitOrder` and `HostReads`: none, and no liveness is claimed.
- `DatabaseManager`: none, and no liveness is claimed. A bootstrap ends when
  PostgreSQL answers; the code sets no time limit on a script, and while one runs
  every other bootstrap waits for the lock.

## What is proved

`CommandStoreProofs`, for any number of handlers, keys, commands, records,
requests and authority changes, from `AuthorityAssumption` and
`StoreAssumption`. The latter states what `check_declarations` guarantees of a
compiled definition, so nothing is assumed of the instance.

| theorem | statement |
|---|---|
| `InvariantHolds` | `Spec => []IInv` |
| `TypeCorrect`, `LedgerHolds`, `AcknowledgedForever` | its parts |
| `ReceiptsNeverCorrupt` | `Spec => []NeverCorrupt` |
| `HistoryOnlyGrows` | `Spec => AppendOnly` |
| `CommitsUnderAuthority` | `Spec => []AuthorityAtCommit` |
| `RefusalsAreDefinite` | `Spec => []RefusalIsDefinite` |
| `AuditedByPolicy` | `Spec => []PolicyOnAudit` |
| `StoreImplementsLog` | `Spec => ImplementsLog` |

**The invariant.** `Ledger` alone is not inductive: a commit replaces the whole
database by the handler's image, of which `Ledger` says nothing. `HandlerOK` says
what the image is in each phase: the committed database with exactly the writes
of the phases before it (`Image`), for a request that was admissible against that
database; and that only the lock holder is in such a phase. It is kept because
`db` changes only by the lock holder's commit, by bootstrap, which needs the lock
free, and because every step of another handler leaves both alone (`QuietStep`).
`Image` is followed write by write (`FactsImage`, `AuditImage`, `EventsImage`,
`ReceiptImage`), and `CommitLedger` shows that the last image satisfies `Ledger`
again: the new revision is one past every receipt, so it is nobody else's.
Readers need one more fact, that a receipt once read stays (`Keeps`).

**Authority.** `CommitsUnderAuthority` needs a further invariant, `SeenOK`: whose
last look was at the present generation still has what it saw.
`OnlyRevalidationAdmits` shows that no other step leads to `commit`.
`AuditedByPolicy` follows the same look one step further: the role the context names
is that of a published file, and the audit row copies it, so what is published
later does not matter (`PolicyInv`).

**Refinement.** `CommandLog` has one variable of facts and a log; the store has four
tables that a handler fills in four steps on an image of its own.
`StoreImplementsLog` shows that every step but `Commit` and `Bootstrap` leaves the
mapped variables alone, and that `Commit` is `Log!Apply` of exactly the handler's
request: its key is new, its expected revision is the stored one, and the image
differs from the database by that one command. The log entry of a revision is
found through the one receipt of it (`Ledger`), and stays because receipts do.

`RuntimeClientProofs`, from `RuntimeAssumption`: for any number of coroutines, keys,
credentials, revisions and of messages under way,

| theorem | statement |
|---|---|
| `Invariance` | `Spec => []IInv` |
| `BusyIsOne` | `Spec => []BusyIsOneCurrentTask` |
| `NothingIsForgotten` | `Spec => []NothingForgotten` |
| `TakesEffectOnce` | `Spec => []AtMostOnce` |
| `ShownReceiptIsTrue` | `Spec => []ReceiptIsTrue` |
| `NothingShownIsStale` | `Spec => []NothingStale` |
| `HostKeepsTheLog` | `Spec => [][LogNext]_logVars` |

`RuntimeAssumption` says that keys are drawn here and by nobody else (they are
random UUIDs), that `None` and `NoCredential` are no values of another kind, and
types. The invariant ties four places together. `ReplyOK`: what an answer
under way says was true when the host gave it and still is, for the log only
grows, so that a receipt among the answers is one of the log whoever reads it
later. `Serving`: `busy` is up exactly if one coroutine counts. `Intended`: every
copy of a request under way and every entry of the log with its key carries the
revision and the intent of the one it was drawn for; the revision then lets only
one of them in, under any credential. `FirstSending`: an attempt not yet uncertain
is in the hands of the coroutine that sent it first, which is why a refusal is an
answer to the only copy there is, and giving the key up is safe. Without this part
`NothingForgotten` is not inductive: a refusal of a second copy would forget the
first.

`HostReadsProofs`, from `AuthorityAssumption` and `ReadsAssumption`: for any actors,
access files, rows and number of readers,

| theorem | statement |
|---|---|
| `ReadsTyped` | `Spec => []TypeOK` |
| `DisclosureIsCurrent` | `Spec => []DisclosesWhatIsVisible` |
| `OffersAreCurrent` | `Spec => []OffersWhatIsAllowed` |

The invariant follows a reader: before the look, what it computed is what the
frozen context allows (`Computed`); the look compares the live context with that
one as a whole, so that what it shows is what the live facts allow (`Shown`); and
the second look does the same for the offers (`Offered`). What was computed is
never computed again, and a reader's state is its own (`OneReader`).

`DatabaseManagerProofs`, from `ManagerAssumption`: for any requests, scripts,
names, dropped requests and restarts, and whatever PostgreSQL does,

| theorem | statement |
|---|---|
| `RegisterNeverConflicts` | `Spec => []NobodyRegistersTwice` |
| `AnswersStayRegistered` | `Spec => []AnsweredIsRegistered` |
| `EntriesTellWhatRan` | `Spec => []EntryTellsWhatRan` |
| `FailPolicyBuilds` | `Spec => []FailPolicyBuildsAnew` |

The first two add that whoever is between the lock and the end of its request
holds the lock. So two of them cannot be there at once, and the id that was free
at the look is free at `register`. Neither needs anything of the database.
The other two follow the history of a database. `Ledger` says of a bootstrap under
way which of its scripts ran (`Progress`), of one that was dropped that at most
one statement is still to come and which it can be (`LeftOver`), and of a
registered one that its entry is true (`Recorded`, `Told`) and stays so, because
whoever it names has ended and left no statement. `FreshInv` says
that a database created under `fail` begins with its creation and then holds
only what its creator ran, until that is registered or dropped.

`HubProofs`, from `TopicAssumption`: for any capacities and any number of
streams and messages of `TopicHub`,

| theorem | statement |
|---|---|
| `TypesAreKept` | `TopicSpec => []TypeOK` |
| `NothingWaitsForSubscribers` | `TopicSpec => []NobodySubscribedWaits` |
| `StreamsYieldInOrder` | `TopicSpec => []InOrder` |
| `LagLosesOnlyOverwritten` | `TopicSpec => []MissesOnlyOverwritten` |
| `FullQueueGivesUpOldest` | `TopicSpec => []DisplacesOldest` |

Order of output is not inductive: the invariant (`StreamOrder`) adds that all a
stream has yielded comes before its backlog, and both before what it has not
passed of the ring; that the ring and the queue increase; and that a message
between the count and the send is in none of them (`Known`). A step of a
stream is shown to leave the others alone once, in `StreamStep`.

`HubProofs`, from `HubAssumption`: for any users, connections and messages of
`MessagingHub` and any time to live,

| theorem | statement |
|---|---|
| `NobodyConnectedIsKeptWaiting` | `Spec => []NobodyConnectedWaits` |
| `NoMessageDisappears` | `Spec => []Conserved` |
| `StreamsKeepTheOrder` | `Spec => []OrderKept` |

The order that counts is that of a whole line: what a connection has yielded, then
its channel, then what it has still to replay (`Line`). A turn of the replay loop
and a poll move a message along its line and change nothing of it; a send adds to
the channel in the middle of the line, which is the one exception, and it is
allowed because what is still to be replayed was queued and the new message was
not (`ReachedLine`). That a connection's line starts empty needs that it is
registered nowhere before `connect` (`Unmade`); that no line holds a message
twice is part of the order. This in turn gives `Conserved`, which counts: each
step moves a message from one place to another (`ExpiringAlone`, `TakingAlone`,
`LosingAlone`), and what is lost with a channel is not elsewhere on that connection.

What pruning does to a queue of any length (`RetainedFacts`) is an induction over
data. The library's induction theorems cannot be used, so it is done by the least
counterexample: the set of the lengths for which the claim fails has a least
member (`WFMin`, `NatLessThanWellFounded`), which is neither 0 nor the successor of
one for which it holds (`Upward`). The recursive function is shown to exist the
same way (`KeptExists`).

`RelationStoreProofs`, from `StoreAssumption` and, of formulas, `FormulaAssumption`:
for any definition that `compile` accepts, any changes, formulas, policies and
limits,

| theorem | statement |
|---|---|
| `PublishedFactsReopen` | `Spec => []Reopens` |
| `CapturedHistoryStands` | `Spec => CapturesStand` |
| `CapturesFinalPrice` | `Spec => CapturedAtInsertion` |
| `BatchIsASet` | `Spec => ImplementsSet` |
| `FormulasAreFaithful` | `Spec => []FormulasMeanWhatTheySay` |
| `DenialsLeakNothing` | `Spec => []HiddenIsUnread` |

The invariant (`IInv`) says what the candidate is at every turn of the loop:
the published records, without those deleted and with the row asked for wherever
one was asked for. It is kept because no two changes of a batch have the same
identity, so none sees the effect of another, and every test that the loop makes
on the candidate is one on the published records; this is what makes the order
of a batch of no account, and `Final` the outcome of `RecordSet`. Captures agree
because no capture's source is itself captured.

What formulas say follows, in every state, from the records being valid and having
identities of the definition. Both results go up the levels, by the least
counterexample as in `HubProofs` (`Upward`), after lemmas that say that each
recursive function, and each loop, is what its definition says (`Unfolded`,
`LoopUnfolds`). `DenialsLeakNothing`: at each level, what the policy lets be
evaluated is the same of the masked records (`Unseen`, `SameLevel`); a sum needs
that who may scan a table may read each of its records, which `OutputPolicy`
promises and `FormulaAssumption` states. `FormulasAreFaithful` has three parts:

- what compilation establishes (`Compiled`, `WhatCompiles`): the kinds of the parts,
  the target of a reference, the parts of a total at each turn of its loop;
- what compiles inside a formula compiles on its own, from an empty budget, with
  fewer names behind it and at a higher level, to the same kind
  (`EasierFurtherUp`, `OnItsOwn`). The evaluation of a sum relies on this when it
  calls `check_expression` anew (`relations.rs:919`), as the permission to scan
  does on the fields being those of the definition (`ScansFields`);
- that the evaluation agrees with the account wherever it is begun (`Agrees`,
  `Answers`): a value is the account's, and an error, which is final, is justified
  by the account so far and so by the whole (`AgreesMore`, `FailsLater`). `SoundPlus`
  and `SoundTimes` say when a sum and a product fit.

`SubmitOrderProofs`, from `SubmitAssumption`: for any actors, drafts, requests,
policies and bounds,

| theorem | statement |
|---|---|
| `ReceiptsExplainRows` | `Spec => []IInv` |
| `SandboxExplained` | `Spec => []SandboxIsExplained` |
| `RetriesReplay` | `Spec => []RetryIsReplayed` |
| `HiddenMightNotExist` | `Spec => []HiddenIsAbsent` |

The invariant says row by row what `SandboxIsExplained` says of the whole: an order
without a receipt is as it was copied (`OrderSays`), one with a receipt has that
receipt's state and notes, and each line follows its order (`LineSays`). An order
is submitted by one receipt only because a submission needs a draft, and a row with
a receipt no longer is one; a line's order never changes, so that the lines a
submission touches are those of its own order (`LinesStay`, `ApplyStep`).
`HiddenIsAbsent` holds of every state: it is a fact about the order in which the
decision asks its questions.

`BuilderProofs`, from `BuilderAssumption`, which asks of what is stored at the
start only that it can be restored: for any number of windows, texts, pastes,
definitions and limits,

| theorem | statement |
|---|---|
| `DraftsStayInOrder` | `Spec => []IInv` |
| `RevisionsAreUnique` | `Spec => []RevisionNamesContent` |
| `DraftsRestore` | `Spec => []Restorable` |
| `StatusIsTrue` | `Spec => []StatusIsHonest` |
| `InputStays` | `Spec => InputKept` |
| `SavesReplaceWhatTheySaw` | `Spec => OverwritesOnlyWhatItSaw` |

The invariant has a part for the storage and one for each window. `Chain`: every
revision written is at most the stored one, and equal only with the same content.
`RequestOK`: what a window waits to store is its draft as entered, under the
revision that follows the snapshot it has seen; so the compare-and-set, which
succeeds only on that snapshot, extends the chain. `Honest` ties the status to what
is left to save. Pastes need an argument of their own: the identities given to new
rows are as many as the rows and none of them taken (`PastedIds`).

**Only model-checked.** Liveness (`HandlersFinish`, `Settles`, `HandedOn`,
`SavesEnd`): the prover does not handle fairness and ENABLED. Every other property
of the passing runs is stated by a theorem.

## Findings

`messaging_hub_doc`: `docs/LEGACY_BACKEND.md:92-93` says that a queued message is
"replayed on the next SSE connection before being removed from the queue".
`hub.rs:106` takes the whole queue out first and replays it into the connection's
channel afterwards; a client that connects and drops before its stream has
yielded the messages loses them, and no later connection gets them.
(`docs/LESSON_ASYNC.md:207` describes the order the code has.)

`relation_store_doc`: `crates/evobase-appspec/README.md:34-36` says that
"`apply_batch` checks the complete final graph" and that "Insert derives captured
Money from the final Product facts". `relations.rs:311` first puts 0 where the
captured prices will be, and `:333` validates that graph too. If a constraint on
the captured field excludes 0 (a `NumericRange` from 1), every insertion of a
line is refused, though its final state is valid.

Observed while modelling, contradicting no text of the repository:

- An uncertain request that never reached the host, and whose revision another
  client has overtaken, can be neither recovered (`not_found` keeps it) nor
  retried to an end (`conflict` keeps it); while it is held the window submits
  nothing else. Only a reload ends this.
- A key retried under another credential is a new request to the store. It is
  the expected revision, not the key, that keeps it from taking effect twice
  (`AtMostOnce`, and its mutant).
- If the reload after a receipt fails, the list stays older than the receipt; the
  next command is then refused as a conflict.
- A topic message published just as the last receiver goes is neither queued nor
  delivered, and `publish` answers as if it were.
- A bootstrap whose request is dropped leaves a database that no registry knows, and
  a statement of it may take effect after a later bootstrap, under `use_existing`,
  has begun to fill the same database.
- The registry is lost with the process: bootstrapping the same id again runs its
  scripts a second time under `use_existing`, and fails under `fail`.
- The Builder's Cancel stays enabled while the session is paused, and ends in
  "clean" with the session still paused.
- The sandbox of the policy inspector keeps its rows when the definition changes; a
  rule they break makes every command of it fail until a reset.
- What is sent to a user during the replay overtakes the replayed messages
  (`OrderKept` allows exactly that).

## Abstractions

- One scope: a tenant and an application. Comparisons of scopes always succeed.
- A credential names one actor, and its facts abstract file, clock and token.
- The owner field of a record never changes: no command writes it.
- The release is pinned and the definition fixed.
- Revisions are unbounded; the code's 64-bit limit is checked there
  (`checked_add` and `try_from` refuse) and out of reach of any run.
- `Bootstrap` is one step: it is one immediate transaction that answers nothing a
  later step depends on.
- Encodings are exact: bodies are the values they encode.

## Plan

Done: (1) `CommandLog`, `CommandStore` and its theorems, the refinement included;
(2) `RuntimeClient` and its theorems; (3) `HostReads` and its theorems;
(4) `MessagingHub` and (5) `TopicHub` and their theorems; (6) `DatabaseManager` and
its theorems; (7) `RecordSet`, `RelationStore` and its theorems; (8) `Formulas` and
its theorems; (9) `SubmitOrder` and its theorems; (10) `Builder` and its theorems.

Next: `AuthTokens`, the JWT service (`evobase-auth/src/service.rs`) and the Dart
client's refresh against its logout (`auth_manager.dart:109`, the one hazard of a
state machine here that no property covers); `check_declarations`, to discharge
`CheckedDeclarations`; Design metadata in `HostReads`.

The runs stay few: a property that a theorem settles leaves its run for a deeper
one, and a new component shares the instance of the one it belongs to where it
can, as `Formulas` does with the records of `RelationStore`.

Theorems: every invariant and action property of the runs is now one. Next: those of
the components above.

## What is not modelled, and why

The wire protocol's encodings, the server's start-up and configuration, and the
sample fixtures have no behaviour of their own. Of the Builder the selected
table, the locale, the diagnostics and the relation inspector's preview are left
out: they show what the modelled state says. The Flutter client and the
Workbench are user interface except for their tokens and their realtime
connection. The generic REST gateway keeps no state. `visible_sum`
is a pure function that nothing modelled here calls; the static checks of a policy
against a definition always pass where the inspector makes them, for it writes
the policy itself. The rest is in the plan above.
