-------------------------- MODULE DatabaseManager --------------------------
(***************************************************************************)
(* Bootstrapping runtime databases: DatabaseManager::bootstrap_database    *)
(* under its lock, the PostgreSQL provisioner it calls, and the registry   *)
(* that remembers the outcome until the server restarts.                   *)
(*                                                                         *)
(* A bootstrap takes one step per await.  It may be dropped at any of them *)
(* (the admin's connection goes), which frees the lock; a statement it had *)
(* under way is then an orphan, which PostgreSQL may still carry out.      *)
(***************************************************************************)
EXTENDS Naturals, Sequences

CONSTANTS
    Bootstraps,          \* requests to bootstrap, each made at most once
    Ids, Databases,      \* database ids, and names in PostgreSQL
    DefaultId, DefaultDatabase,
    Target,              \* per bootstrap: its id and its PostgreSQL database,
    Policy,              \*    its existing_database_policy
    Scripts,             \*    and how many scripts it brings
    MaxRestarts,         \* bound on the server's restarts
    None

ASSUME ManagerAssumption ==
    /\ DefaultId \in Ids /\ DefaultDatabase \in Databases
    /\ Target \in [Bootstraps -> [id : Ids, db : Databases]]
    /\ Policy \in [Bootstraps -> {"fail", "use_existing"}]
    /\ Scripts \in [Bootstraps -> Nat \ {0}]
    /\ MaxRestarts \in Nat
    /\ None \notin Bootstraps

VARIABLES
    registry,    \* from the registered ids to their entries
    waiting,     \* those who wait for bootstrap_lock, first come first served
    holder,      \* who holds it, or None
    phase,       \* per bootstrap
    executed,    \* per bootstrap, how many of its scripts have succeeded
    failure,     \* per bootstrap, the stage that failed, or "none"
    postgres,    \* per database, what was executed: <<b, 0>> its creation, <<b, i>> a script
    orphans,     \* statements whose bootstrap was dropped
    answers,     \* history: what bootstraps were answered since the last restart
    restarts

serverVars == <<registry, waiting, holder, phase, executed, failure, answers, restarts>>
vars == <<serverVars, postgres, orphans>>

(* An entry names its bootstrap, whose request it keeps.                   *)
Entry(b, stage, n) ==
    [by |-> b, db |-> Target[b].db, failure |-> stage, executed |-> n]

DefaultEntry == [by |-> None, db |-> DefaultDatabase, failure |-> "none", executed |-> 0]

DefaultRegistry == [id \in {DefaultId} |-> DefaultEntry]

Init ==
    /\ registry = DefaultRegistry
    /\ waiting = <<>> /\ holder = None
    /\ phase = [b \in Bootstraps |-> "new"]
    /\ executed = [b \in Bootstraps |-> 0]
    /\ failure = [b \in Bootstraps |-> "none"]
    /\ postgres = [db \in {DefaultDatabase} |-> <<<<None, 0>>>>]
    /\ orphans = {} /\ answers = {}
    /\ restarts = 0

Goto(b, p) == phase' = [phase EXCEPT ![b] = p]

Step(b, from, to) == phase[b] = from /\ Goto(b, to)

(* The handler ends, and its guard with it.                                *)
End(b) ==
    /\ Goto(b, "done")
    /\ holder' = IF holder = b THEN None ELSE holder
    /\ waiting' = SelectSeq(waiting, LAMBDA other : other # b)

Fail(b, stage) ==
    /\ Goto(b, "register")
    /\ failure' = [failure EXCEPT ![b] = stage]
    /\ UNCHANGED <<registry, waiting, holder, executed, answers, restarts, orphans>>

-----------------------------------------------------------------------------
(* DatabaseManager::bootstrap_database, before it provisions.              *)

Request(b) ==
    /\ Step(b, "new", "waiting")
    /\ waiting' = Append(waiting, b)
    /\ UNCHANGED <<registry, holder, executed, failure, answers, restarts, postgres, orphans>>

(* Mutant: nobody waits.                                                   *)
LockFree_Always == TRUE

LockFree == holder = None

Lock(b) ==
    /\ Step(b, "waiting", "check")
    /\ LockFree
    /\ b = Head(waiting)
    /\ holder' = b
    /\ waiting' = Tail(waiting)
    /\ UNCHANGED <<registry, executed, failure, answers, restarts, postgres, orphans>>

Registered(b) == Target[b].id \in DOMAIN registry

Unregistered(b) ==
    /\ Step(b, "check", "exists")
    /\ ~Registered(b)
    /\ UNCHANGED <<registry, waiting, holder, executed, failure, answers, restarts, postgres, orphans>>

(* Errors: the id is taken, or the database exists and may not be used.    *)
Conflict(b) ==
    /\ \/ phase[b] = "check" /\ Registered(b)
       \/ phase[b] = "exists" /\ Target[b].db \in DOMAIN postgres /\ Policy[b] = "fail"
    /\ End(b)
    /\ UNCHANGED <<registry, executed, failure, answers, restarts, postgres, orphans>>

-----------------------------------------------------------------------------
(* PostgresDatabaseProvisioner.                                            *)

(* Mutant: a database that exists is used whatever the policy.             *)
Reuses_Always(b) == TRUE

Reuses(b) == Policy[b] = "use_existing"

Exists(b) ==
    /\ Target[b].db \in DOMAIN postgres
    /\ Reuses(b)
    /\ Step(b, "exists", "connect")
    /\ UNCHANGED <<registry, waiting, holder, executed, failure, answers, restarts, postgres, orphans>>

Missing(b) ==
    /\ Target[b].db \notin DOMAIN postgres
    /\ Step(b, "exists", "create")
    /\ UNCHANGED <<registry, waiting, holder, executed, failure, answers, restarts, postgres, orphans>>

WithDatabase(b) ==
    [db \in DOMAIN postgres \cup {Target[b].db} |->
        IF db \in DOMAIN postgres THEN postgres[db] ELSE <<<<b, 0>>>>]

(* CREATE DATABASE fails if an orphan has created it meanwhile.            *)
Create(b) ==
    /\ Step(b, "create", "connect")
    /\ Target[b].db \notin DOMAIN postgres
    /\ postgres' = WithDatabase(b)
    /\ UNCHANGED <<registry, waiting, holder, executed, failure, answers, restarts, orphans>>

(* No connection, an error, or an error after the database was created.    *)
CreateFails(b) ==
    /\ phase[b] \in {"exists", "create"}
    /\ \/ UNCHANGED postgres
       \/ phase[b] = "create" /\ postgres' = WithDatabase(b)
    /\ Fail(b, "create_database")

Connect(b) ==
    /\ Step(b, "connect", "scripts")
    /\ UNCHANGED <<registry, waiting, holder, executed, failure, answers, restarts, postgres, orphans>>

ConnectFails(b) ==
    /\ phase[b] = "connect"
    /\ Fail(b, "connect_database")
    /\ UNCHANGED postgres

(* A script is one simple query: its statements take effect together.      *)
WithScript(b, i) == [postgres EXCEPT ![Target[b].db] = Append(@, <<b, i>>)]

Script(b) ==
    /\ executed[b] < Scripts[b]
    /\ Step(b, "scripts", "scripts")
    /\ postgres' = WithScript(b, executed[b] + 1)
    /\ executed' = [executed EXCEPT ![b] = @ + 1]
    /\ UNCHANGED <<registry, waiting, holder, failure, answers, restarts, orphans>>

(* Mutant: the script that fails is passed over.                           *)
ScriptFails_GoesOn(b) ==
    /\ executed[b] < Scripts[b]
    /\ Step(b, "scripts", "scripts")
    /\ executed' = [executed EXCEPT ![b] = @ + 1]
    /\ UNCHANGED <<registry, waiting, holder, failure, answers, restarts, postgres, orphans>>

(* The script fails, or the connection before it is known to have run.     *)
ScriptFails(b) ==
    /\ phase[b] = "scripts"
    /\ executed[b] < Scripts[b]
    /\ UNCHANGED postgres \/ postgres' = WithScript(b, executed[b] + 1)
    /\ Fail(b, "execute_script")

ScriptsDone(b) ==
    /\ Step(b, "scripts", "introspect")
    /\ executed[b] = Scripts[b]
    /\ UNCHANGED <<registry, waiting, holder, executed, failure, answers, restarts, postgres, orphans>>

Introspect(b) ==
    /\ Step(b, "introspect", "register")
    /\ UNCHANGED <<registry, waiting, holder, executed, failure, answers, restarts, postgres, orphans>>

IntrospectFails(b) ==
    /\ phase[b] = "introspect"
    /\ Fail(b, "introspect_schema")
    /\ UNCHANGED postgres

-----------------------------------------------------------------------------
(* DatabaseRegistry::register and the answer.                              *)

Register(b) ==
    /\ phase[b] = "register"
    /\ ~Registered(b)
    /\ LET id == Target[b].id  e == Entry(b, failure[b], executed[b])
       IN  /\ registry' = [i \in DOMAIN registry \cup {id} |-> IF i = id THEN e ELSE registry[i]]
           /\ answers' = answers \cup {[id |-> id, entry |-> e]}
    /\ End(b)
    /\ UNCHANGED <<executed, failure, restarts, postgres, orphans>>

-----------------------------------------------------------------------------
(* Dropped requests, restarts, and what PostgreSQL does of its own.        *)

(* The statement a bootstrap waits for, if any.                            *)
UnderWay(b) ==
    CASE phase[b] = "create" -> {[by |-> b, script |-> 0]}
      [] phase[b] = "scripts" /\ executed[b] < Scripts[b] ->
            {[by |-> b, script |-> executed[b] + 1]}
      [] OTHER -> {}

Drop(b) ==
    /\ phase[b] \notin {"new", "done"}
    /\ End(b)
    /\ orphans' \in {orphans, orphans \cup UnderWay(b)}
    /\ UNCHANGED <<registry, executed, failure, answers, restarts, postgres>>

Restart ==
    /\ restarts < MaxRestarts
    /\ restarts' = restarts + 1
    /\ registry' = DefaultRegistry
    /\ waiting' = <<>> /\ holder' = None /\ answers' = {}
    /\ phase' = [b \in Bootstraps |-> IF phase[b] = "new" THEN "new" ELSE "done"]
    /\ orphans' \in {orphans, orphans \cup UNION {UnderWay(b) : b \in Bootstraps}}
    /\ UNCHANGED <<executed, failure, postgres>>

(* An orphan is carried out, or fails.                                     *)
OrphanRuns(o) ==
    /\ o \in orphans
    /\ orphans' = orphans \ {o}
    /\ postgres' = IF o.script = 0 THEN WithDatabase(o.by) ELSE WithScript(o.by, o.script)
    /\ UNCHANGED serverVars

OrphanDies(o) ==
    /\ o \in orphans
    /\ orphans' = orphans \ {o}
    /\ UNCHANGED <<serverVars, postgres>>

Serve(b) ==
    \/ Lock(b) \/ Unregistered(b) \/ Conflict(b)
    \/ Exists(b) \/ Missing(b) \/ Create(b) \/ CreateFails(b)
    \/ Connect(b) \/ ConnectFails(b)
    \/ Script(b) \/ ScriptFails(b) \/ ScriptsDone(b)
    \/ Introspect(b) \/ IntrospectFails(b)
    \/ Register(b)

Next ==
    \/ \E b \in Bootstraps : Request(b) \/ Serve(b) \/ Drop(b)
    \/ Restart
    \/ \E o \in orphans : OrphanRuns(o) \/ OrphanDies(o)

Spec == Init /\ [][Next]_vars

-----------------------------------------------------------------------------
(* Properties.                                                             *)

Phases == {"new", "waiting", "check", "exists", "create", "connect", "scripts",
           "introspect", "register", "done"}

(* A bootstrap that has provisioned always finds its id free: register's   *)
(* Conflict never throws away a database that has just been built, for the *)
(* lock is held from the first look at the registry to the last.           *)
NobodyRegistersTwice ==
    \A b \in Bootstraps : phase[b] \notin {"new", "waiting", "check", "done"} => ~Registered(b)

(* Of one bootstrap, its scripts up to the n-th have run, each once and in *)
(* order, after the creation if that is its own too.                       *)
Ran(history, b, n) ==
    /\ \A p \in DOMAIN history : history[p][1] = b => history[p][2] \in 0..n
    /\ \A i \in 1..n : \E p \in DOMAIN history : history[p] = <<b, i>>
    /\ \A p, q \in DOMAIN history :
          p < q /\ history[p][1] = b /\ history[q][1] = b => history[p][2] < history[q][2]

(* The entry tells what was done to its database, orphans and all: ready   *)
(* means every script, in order and once; a failure means those before it  *)
(* and none after, with only the one it names in doubt.                    *)
EntryTellsWhatRan ==
    \A id \in DOMAIN registry \ {DefaultId} :
        LET e == registry[id]
        IN  IF e.failure = "none" \/ e.failure = "introspect_schema"
            THEN e.db \in DOMAIN postgres /\ Ran(postgres[e.db], e.by, Scripts[e.by])
            ELSE e.db \in DOMAIN postgres =>
                    \/ Ran(postgres[e.db], e.by, e.executed)
                    \/ /\ e.failure = "execute_script"
                       /\ Ran(postgres[e.db], e.by, e.executed + 1)

(* Under the policy `fail' a script is only run in a database that this    *)
(* bootstrap has created, and one that is ready was filled by nobody else  *)
(* until then, whatever dropped bootstraps have left under way.            *)
FailPolicyBuildsAnew ==
    \A b \in Bootstraps : Policy[b] = "fail" /\ Target[b].db \in DOMAIN postgres =>
        LET history == postgres[Target[b].db]
        IN  /\ (\E n \in DOMAIN history : history[n][1] = b) => history[1] = <<b, 0>>
            /\ (\E id \in DOMAIN registry : registry[id].by = b /\ registry[id].failure = "none")
                  => Len(history) > Scripts[b]
                     /\ \A n \in 0..Scripts[b] : history[n + 1] = <<b, n>>

(* "A failed bootstrap is still registered" (ARCHITECTURE.md:165), and     *)
(* insertion is non-destructive (164): whatever a bootstrap was answered,  *)
(* ready or failed, stays the entry of its id until the server restarts.   *)
AnsweredIsRegistered ==
    \A a \in answers : a.id \in DOMAIN registry /\ registry[a.id] = a.entry
=============================================================================
