----------------------- MODULE DatabaseManagerProofs -----------------------
(***************************************************************************)
(* Bootstraps, whatever they ask for and whoever is dropped when.          *)
(*                                                                         *)
(* The lock (IInv): who has provisioned registers, and what was answered   *)
(* stays registered.  The ledger (Ledger): the phases, the statements left *)
(* under way and the entries tell what was done to the databases.  And     *)
(* what the policy `fail' keeps (FreshInv), which needs the other two.     *)
(***************************************************************************)
EXTENDS DatabaseManager, TLAPS

Outside == {"new", "waiting", "done"}

(* Why the id stays free: a bootstrap between the lock and its end holds   *)
(* the lock, and only such a one registers.                                *)
Held == \A b \in Bootstraps : phase[b] \notin Outside => holder = b

IInv ==
    /\ phase \in [Bootstraps -> Phases]
    /\ Held
    /\ NobodyRegistersTwice
    /\ AnsweredIsRegistered

(* Before anything was requested there is nothing to say.                  *)
LEMMA InitIInv == Init => IInv
BY DEF Init, IInv, Held, Outside, NobodyRegistersTwice, AnsweredIsRegistered, Phases

(* A step inside the lock: one bootstrap moves on between its phases, no   *)
(* entry is made and no answer given.                                      *)
LEMMA InnerStep ==
    ASSUME IInv, NEW b \in Bootstraps, NEW p \in Phases \ {"new", "waiting", "done"},
           phase[b] \notin Outside,
           phase[b] = "check" => p = "check" \/ ~Registered(b),
           phase' = [phase EXCEPT ![b] = p],
           UNCHANGED <<registry, holder, answers>>
    PROVE  IInv'
BY DEF IInv, Held, Outside, NobodyRegistersTwice, AnsweredIsRegistered, Registered, Phases

(* A bootstrap ends: the lock may come free, for nobody else held it.      *)
LEMMA EndStep ==
    ASSUME IInv, NEW b \in Bootstraps, End(b), UNCHANGED <<registry, answers>>
    PROVE  IInv'
<1>1. phase' = [phase EXCEPT ![b] = "done"]
  BY DEF End, Goto
<1>2. phase' \in [Bootstraps -> Phases]
  BY <1>1 DEF IInv, Phases
<1>3. Held'
  BY <1>1 DEF IInv, Held, Outside, End
<1>4. NobodyRegistersTwice'
  BY <1>1 DEF IInv, NobodyRegistersTwice, Registered
<1>5. AnsweredIsRegistered'
  BY DEF IInv, AnsweredIsRegistered
<1> QED BY <1>2, <1>3, <1>4, <1>5 DEF IInv

(* Joining the queue and being let in: only a free lock is taken, so no    *)
(* other bootstrap is between lock and end.                                *)
LEMMA QueueStep ==
    ASSUME IInv, None \notin Bootstraps, NEW b \in Bootstraps, Request(b) \/ Lock(b)
    PROVE  IInv'
<1>1. CASE Request(b)
  BY <1>1 DEF Request, Step, Goto, IInv, Held, Outside, NobodyRegistersTwice,
              AnsweredIsRegistered, Registered, Phases
<1>2. CASE Lock(b)
  <2>1. \A c \in Bootstraps : phase[c] \in Outside
    BY <1>2 DEF Lock, LockFree, IInv, Held
  <2>2. phase' = [phase EXCEPT ![b] = "check"] /\ holder' = b /\ UNCHANGED <<registry, answers>>
    BY <1>2 DEF Lock, Step, Goto
  <2> QED
    BY <2>1, <2>2 DEF IInv, Held, Outside, NobodyRegistersTwice, AnsweredIsRegistered,
                      Registered, Phases
<1> QED BY <1>1, <1>2

(* The new entry is of an id that had none, so the answers given before    *)
(* keep theirs; and every other bootstrap is outside the lock.             *)
LEMMA RegisterStep ==
    ASSUME IInv, NEW b \in Bootstraps, Register(b)
    PROVE  IInv'
<1> DEFINE id == Target[b].id
           e == Entry(b, failure[b], executed[b])
<1>1. /\ id \notin DOMAIN registry
      /\ registry' = [i \in DOMAIN registry \cup {id} |-> IF i = id THEN e ELSE registry[i]]
      /\ answers' = answers \cup {[id |-> id, entry |-> e]}
  BY DEF Register, Registered
<1>2. phase[b] = "register" /\ phase' = [phase EXCEPT ![b] = "done"]
  BY DEF Register, End, Goto
<1>3. \A c \in Bootstraps : c # b => phase[c] \in Outside
  BY <1>2 DEF IInv, Held, Outside
<1>4. \A c \in Bootstraps : phase'[c] \in Outside
  BY <1>2, <1>3 DEF IInv, Outside
<1>5. phase' \in [Bootstraps -> Phases]
  BY <1>2 DEF IInv, Phases
<1>6. Held' /\ NobodyRegistersTwice'
  BY <1>4 DEF Held, Outside, NobodyRegistersTwice
<1>7. AnsweredIsRegistered'
  <2> SUFFICES ASSUME NEW a \in answers' PROVE a.id \in DOMAIN registry' /\ registry'[a.id] = a.entry
    BY DEF AnsweredIsRegistered
  <2>1. CASE a \in answers
    BY <2>1, <1>1 DEF IInv, AnsweredIsRegistered
  <2>2. CASE a = [id |-> id, entry |-> e]
    BY <2>2, <1>1
  <2> QED BY <2>1, <2>2, <1>1
<1> QED BY <1>5, <1>6, <1>7 DEF IInv

(* After a restart nobody holds anything and nothing has been answered.    *)
LEMMA RestartStep ==
    ASSUME IInv, Restart
    PROVE  IInv'
<1>1. \A b \in Bootstraps : phase'[b] \in Outside
  BY DEF Restart, Outside
<1>2. phase' \in [Bootstraps -> Phases]
  BY DEF Restart, Phases
<1>3. AnsweredIsRegistered'
  BY DEF Restart, AnsweredIsRegistered
<1> QED BY <1>1, <1>2, <1>3 DEF IInv, Held, Outside, NobodyRegistersTwice

LEMMA NextIInv == IInv /\ [Next]_vars => IInv'
<1> SUFFICES ASSUME IInv, [Next]_vars PROVE IInv'
  OBVIOUS
<1>0. None \notin Bootstraps
  BY ManagerAssumption
<1>1. ASSUME NEW b \in Bootstraps, Request(b) \/ Lock(b) PROVE IInv'
  BY <1>0, <1>1, QueueStep
<1>2. ASSUME NEW b \in Bootstraps, Conflict(b) \/ Drop(b) PROVE IInv'
  BY <1>2, EndStep DEF Conflict, Drop
<1>3. ASSUME NEW b \in Bootstraps, Unregistered(b) PROVE IInv'
  BY <1>3, InnerStep DEF Unregistered, Step, Goto, Phases, Outside
<1>4. ASSUME NEW b \in Bootstraps, Exists(b) \/ Missing(b) \/ Create(b) \/ CreateFails(b)
      PROVE  IInv'
  BY <1>4, InnerStep DEF Exists, Missing, Create, CreateFails, Fail, Step, Goto, Phases, Outside
<1>5. ASSUME NEW b \in Bootstraps, Connect(b) \/ ConnectFails(b) \/ Script(b) \/ ScriptFails(b)
      PROVE  IInv'
  BY <1>5, InnerStep DEF Connect, ConnectFails, Script, ScriptFails, Fail, Step, Goto, Phases, Outside
<1>6. ASSUME NEW b \in Bootstraps, ScriptsDone(b) \/ Introspect(b) \/ IntrospectFails(b)
      PROVE  IInv'
  BY <1>6, InnerStep DEF ScriptsDone, Introspect, IntrospectFails, Fail, Step, Goto, Phases, Outside
<1>7. ASSUME NEW b \in Bootstraps, Register(b) PROVE IInv'
  BY <1>7, RegisterStep
<1>8. CASE Restart
  BY <1>8, RestartStep
<1>9. ASSUME NEW o \in orphans, OrphanRuns(o) \/ OrphanDies(o) PROVE IInv'
  BY <1>9 DEF OrphanRuns, OrphanDies, serverVars, IInv, Held, NobodyRegistersTwice, Registered,
              AnsweredIsRegistered
<1>10. CASE UNCHANGED vars
  BY <1>10 DEF vars, serverVars, IInv, Held, NobodyRegistersTwice, Registered, AnsweredIsRegistered
<1> QED
  BY <1>1, <1>2, <1>3, <1>4, <1>5, <1>6, <1>7, <1>8, <1>9, <1>10 DEF Next, Serve

LEMMA InvariantHolds == Spec => []IInv
BY InitIInv, NextIInv, PTL DEF Spec

-----------------------------------------------------------------------------
(* What was done to the databases, told by the phases, by the statements   *)
(* still under way and by the registry.                                    *)

Runs == (Bootstraps \cup {None}) \X Nat

Histories(pg) == pg \in [DOMAIN pg -> Seq(Runs) \ {<<>>}]

Failures == {"none", "create_database", "connect_database", "execute_script", "introspect_schema"}

Present(pg, b) == Target[b].db \in DOMAIN pg

(* Of b's scripts the first n have run: none can have without a database.  *)
Did(pg, b, n) ==
    /\ n > 0 => Present(pg, b)
    /\ Present(pg, b) => Ran(pg[Target[b].db], b, n)

(* What an entry of this stage and count means.                            *)
Told(pg, b, stage, n) ==
    CASE stage \in {"none", "introspect_schema"} -> Present(pg, b) /\ Did(pg, b, Scripts[b])
      [] stage \in {"create_database", "connect_database"} -> n = 0 /\ Did(pg, b, 0)
      [] stage = "execute_script" -> Present(pg, b) /\ (Did(pg, b, n) \/ Did(pg, b, n + 1))

Early == {"new", "waiting", "check", "exists", "create"}
Filling == {"connect", "scripts", "introspect"}

Progress(b) ==
    /\ phase[b] # "register" => (phase[b] # "done" => failure[b] = "none")
    /\ phase[b] \in Early => executed[b] = 0 /\ Did(postgres, b, 0)
    /\ phase[b] = "connect" => executed[b] = 0
    /\ phase[b] \in Filling => Present(postgres, b) /\ Did(postgres, b, executed[b])
    /\ phase[b] = "introspect" => executed[b] = Scripts[b]
    /\ phase[b] = "register" => Told(postgres, b, failure[b], executed[b])

(* A statement left behind is the one its bootstrap would have come to,    *)
(* which is over; it was its last, and what came before it has run.        *)
LeftOver(o) ==
    /\ phase[o.by] = "done"
    /\ \A other \in orphans : other.by = o.by => other = o
    /\ o.script = 0 => Did(postgres, o.by, 0)
    /\ o.script > 0 => Present(postgres, o.by) /\ Did(postgres, o.by, o.script - 1)

(* Who has registered is over and has left nothing under way.              *)
Recorded(id) ==
    LET e == registry[id]
    IN  /\ e.by \in Bootstraps
        /\ e.db = Target[e.by].db
        /\ phase[e.by] = "done"
        /\ \A o \in orphans : o.by # e.by
        /\ e.failure \in Failures /\ e.executed \in Nat
        /\ Told(postgres, e.by, e.failure, e.executed)

Ledger ==
    /\ Histories(postgres)
    /\ executed \in [Bootstraps -> Nat] /\ failure \in [Bootstraps -> Failures]
    /\ orphans \subseteq [by : Bootstraps, script : Nat]
    /\ \A b \in Bootstraps : Progress(b)
    /\ \A o \in orphans : LeftOver(o)
    /\ \A id \in DOMAIN registry \ {DefaultId} : Recorded(id)

(* Under the policy `fail': a bootstrap that appears in its database is    *)
(* the one that created it; and while it fills it, or once it is ready,    *)
(* the database begins with its creation and its n scripts.                *)
Creator(pg, b) ==
    LET history == pg[Target[b].db]
    IN  Present(pg, b) /\ (\E n \in DOMAIN history : history[n][1] = b) => history[1] = <<b, 0>>

Begins(pg, b, n) ==
    LET history == pg[Target[b].db]
    IN  Present(pg, b) /\ Len(history) > n /\ \A i \in 0..n : history[i + 1] = <<b, i>>

(* No statement but the creation is left under way on b's database.        *)
Quiet(b) == \A o \in orphans : Target[o.by].db = Target[b].db => o.script = 0

Building(b) == phase[b] \in Filling \/ (phase[b] = "register" /\ failure[b] = "none")

Anew(b) ==
    /\ Creator(postgres, b)
    /\ Building(b) =>
          /\ Begins(postgres, b, executed[b])
          /\ Len(postgres[Target[b].db]) = executed[b] + 1
          /\ Quiet(b)
    /\ phase[b] = "register" /\ failure[b] = "none" => executed[b] = Scripts[b]
    /\ \A o \in orphans : o.by = b /\ o.script > 0 => Begins(postgres, b, 0)
    /\ \A id \in DOMAIN registry :
          registry[id].by = b /\ registry[id].failure = "none" => Begins(postgres, b, Scripts[b])

FreshInv == \A b \in Bootstraps : Policy[b] = "fail" => Anew(b)

(* What is done to one database costs no other bootstrap what it has had   *)
(* done, neither when a database is created nor when a script is run.      *)
Keeps(pg, pg2, b) ==
    /\ Present(pg, b) => Present(pg2, b)
    /\ \A n \in Nat : Did(pg, b, n) => Did(pg2, b, n)

LEMMA TargetsTyped == \A b \in Bootstraps : Target[b].db \in Databases /\ Target[b].id \in Ids
BY ManagerAssumption

LEMMA CreatesKeeps ==
    ASSUME NEW pg, Histories(pg), NEW c \in Bootstraps, NEW pg2,
           pg2 = [db \in DOMAIN pg \cup {Target[c].db} |->
                     IF db \in DOMAIN pg THEN pg[db] ELSE <<<<c, 0>>>>]
    PROVE  /\ Histories(pg2) /\ Present(pg2, c)
           /\ \A b \in Bootstraps : Keeps(pg, pg2, b)
<1>1. DOMAIN pg2 = DOMAIN pg \cup {Target[c].db}
  OBVIOUS
<1>2. \A db \in DOMAIN pg : pg2[db] = pg[db]
  OBVIOUS
<1>3. \A db \in DOMAIN pg2 : db \notin DOMAIN pg => pg2[db] = <<<<c, 0>>>>
  OBVIOUS
<1>4. <<<<c, 0>>>> \in Seq(Runs) \ {<<>>}
  BY DEF Runs
<1>5. Histories(pg2)
  <2>1. \A db \in DOMAIN pg2 : pg2[db] \in Seq(Runs) \ {<<>>}
    BY <1>2, <1>3, <1>4 DEF Histories
  <2> QED BY <2>1 DEF Histories
<1>6. \A b \in Bootstraps : Ran(<<<<c, 0>>>>, b, 0)
  BY DEF Ran
<1>7. ASSUME NEW b \in Bootstraps PROVE Keeps(pg, pg2, b)
  <2>1. Present(pg, b) => Present(pg2, b) /\ pg2[Target[b].db] = pg[Target[b].db]
    BY <1>1, <1>2 DEF Present
  <2>2. Present(pg2, b) /\ ~Present(pg, b) => pg2[Target[b].db] = <<<<c, 0>>>>
    BY <1>3 DEF Present
  <2>3. ASSUME NEW n \in Nat, Did(pg, b, n) PROVE Did(pg2, b, n)
    <3>1. CASE Present(pg, b)
      BY <2>1, <2>3, <3>1 DEF Did
    <3>2. CASE ~Present(pg, b)
      <4>1. n = 0
        BY <2>3, <3>2 DEF Did
      <4> QED BY <1>6, <2>2, <3>2, <4>1 DEF Did
    <3> QED BY <3>1, <3>2
  <2> QED BY <2>1, <2>3 DEF Keeps
<1> QED BY <1>1, <1>5, <1>7 DEF Present

LEMMA AppendFacts ==
    ASSUME NEW history \in Seq(Runs), NEW run \in Runs
    PROVE  /\ Append(history, run) \in Seq(Runs) \ {<<>>}
           /\ Len(history) \in Nat /\ Len(Append(history, run)) = Len(history) + 1
           /\ DOMAIN history = 1..Len(history)
           /\ DOMAIN Append(history, run) = 1..Len(history) + 1
           /\ \A p \in 1..Len(history) : Append(history, run)[p] = history[p]
           /\ Append(history, run)[Len(history) + 1] = run
OBVIOUS

(* Another's statement does not count, one's own next script does.         *)
LEMMA RanAppend ==
    ASSUME NEW history \in Seq(Runs), NEW b, NEW n \in Nat, Ran(history, b, n),
           NEW c \in Bootstraps, NEW i \in Nat
    PROVE  /\ c # b => Ran(Append(history, <<c, i>>), b, n)
           /\ c = b /\ i = n + 1 => Ran(Append(history, <<c, i>>), b, i)
<1> DEFINE run == <<c, i>>
           more == Append(history, run)
           end == Len(history) + 1
<1>1. /\ DOMAIN history = 1..Len(history) /\ Len(history) \in Nat
      /\ DOMAIN more = 1..end
      /\ \A p \in 1..Len(history) : more[p] = history[p]
      /\ more[end] = run
  <2>1. run \in Runs
    BY DEF Runs
  <2> QED BY <2>1, AppendFacts
<1>2. run[1] = c /\ run[2] = i
  OBVIOUS
<1>3. \A p \in DOMAIN history : history[p][1] = b => history[p][2] \in 0..n
  BY DEF Ran
<1>4. \A j \in 1..n : \E p \in DOMAIN history : history[p] = <<b, j>>
  BY DEF Ran
<1>5. \A p, q \in DOMAIN history :
         p < q /\ history[p][1] = b /\ history[q][1] = b => history[p][2] < history[q][2]
  BY DEF Ran
<1> HIDE DEF run, more
<1>6. ASSUME c # b PROVE Ran(more, b, n)
  <2>1. \A p \in DOMAIN more : more[p][1] = b => p \in DOMAIN history /\ more[p] = history[p]
    BY <1>1, <1>2, <1>6
  <2>2. \A p \in DOMAIN more : more[p][1] = b => more[p][2] \in 0..n
    BY <1>3, <2>1
  <2>3. \A j \in 1..n : \E p \in DOMAIN more : more[p] = <<b, j>>
    <3> TAKE j \in 1..n
    <3>1. PICK p \in DOMAIN history : history[p] = <<b, j>>
      BY <1>4
    <3>2. p \in DOMAIN more /\ more[p] = history[p]
      BY <1>1
    <3> QED BY <3>1, <3>2
  <2>4. \A p, q \in DOMAIN more :
           p < q /\ more[p][1] = b /\ more[q][1] = b => more[p][2] < more[q][2]
    BY <1>5, <2>1
  <2> QED BY <2>2, <2>3, <2>4 DEF Ran
<1>7. ASSUME c = b, i = n + 1 PROVE Ran(more, b, i)
  <2>1. \A p \in DOMAIN more : p \in DOMAIN history \/ p = end
    BY <1>1
  <2>2. \A p \in DOMAIN more : more[p][1] = b => more[p][2] \in 0..i
    BY <1>1, <1>2, <1>3, <1>7, <2>1
  <2>3. \A j \in 1..i : \E p \in DOMAIN more : more[p] = <<b, j>>
    <3> TAKE j \in 1..i
    <3>1. CASE j = i
      BY <1>1, <1>7, <3>1 DEF run
    <3>2. CASE j # i
      <4>1. j \in 1..n
        BY <1>7, <3>2
      <4>2. PICK p \in DOMAIN history : history[p] = <<b, j>>
        BY <1>4, <4>1
      <4>3. p \in DOMAIN more /\ more[p] = history[p]
        BY <1>1
      <4> QED BY <4>2, <4>3
    <3> QED BY <3>1, <3>2
  <2>4. ASSUME NEW p \in DOMAIN more, NEW q \in DOMAIN more,
               p < q, more[p][1] = b, more[q][1] = b
        PROVE  more[p][2] < more[q][2]
    <3>1. p \in DOMAIN history /\ more[p] = history[p]
      BY <1>1, <2>4
    <3>2. CASE q \in DOMAIN history
      BY <1>1, <1>5, <2>4, <3>1, <3>2
    <3>3. CASE q = end
      <4>1. more[p][2] \in 0..n
        BY <1>3, <2>4, <3>1
      <4> QED BY <1>1, <1>2, <1>7, <3>3, <4>1
    <3> QED BY <2>1, <3>2, <3>3
  <2> QED BY <2>2, <2>3, <2>4 DEF Ran
<1> QED BY <1>6, <1>7 DEF more, run

LEMMA ScriptKeeps ==
    ASSUME NEW pg, Histories(pg), NEW c \in Bootstraps, NEW i \in Nat, Present(pg, c), NEW pg2,
           pg2 = [pg EXCEPT ![Target[c].db] = Append(@, <<c, i>>)]
    PROVE  /\ Histories(pg2) /\ Present(pg2, c)
           /\ \A b \in Bootstraps : b # c => Keeps(pg, pg2, b)
           /\ \A n \in Nat : i = n + 1 /\ Did(pg, c, n) => Did(pg2, c, i)
<1> DEFINE d == Target[c].db
<1>1. d \in DOMAIN pg /\ pg[d] \in Seq(Runs)
  BY DEF Present, Histories
<1>2. DOMAIN pg2 = DOMAIN pg /\ pg2[d] = Append(pg[d], <<c, i>>)
  BY <1>1 DEF Histories
<1>3. \A db \in DOMAIN pg : db # d => pg2[db] = pg[db]
  BY <1>1 DEF Histories
<1>4. Append(pg[d], <<c, i>>) \in Seq(Runs) \ {<<>>}
  BY <1>1, AppendFacts DEF Runs
<1>5. Histories(pg2)
  BY <1>1, <1>4 DEF Histories
<1>6. ASSUME NEW b \in Bootstraps, b # c PROVE Keeps(pg, pg2, b)
  <2>1. Present(pg2, b) <=> Present(pg, b)
    BY <1>2 DEF Present
  <2>2. ASSUME NEW n \in Nat, Did(pg, b, n) PROVE Did(pg2, b, n)
    <3>1. CASE Target[b].db = d
      BY <1>1, <1>2, <1>6, <2>1, <2>2, <3>1, RanAppend DEF Did
    <3>2. CASE Target[b].db # d
      BY <1>3, <2>1, <2>2, <3>2 DEF Did, Present
    <3> QED BY <3>1, <3>2
  <2> QED BY <2>1, <2>2 DEF Keeps
<1>7. ASSUME NEW n \in Nat, i = n + 1, Did(pg, c, n) PROVE Did(pg2, c, i)
  BY <1>1, <1>2, <1>7, RanAppend DEF Did, Present
<1> QED BY <1>1, <1>2, <1>5, <1>6, <1>7 DEF Present

-----------------------------------------------------------------------------
(* The ledger is kept.                                                     *)

LEMMA InitLedger == Init => Ledger
<1> SUFFICES ASSUME Init PROVE Ledger
  OBVIOUS
<1>1. postgres = [db \in {DefaultDatabase} |-> <<<<None, 0>>>>] /\ orphans = {}
  BY DEF Init
<1>2. Histories(postgres)
  <2>1. <<<<None, 0>>>> \in Seq(Runs) \ {<<>>}
    BY DEF Runs
  <2>2. DOMAIN postgres = {DefaultDatabase}
    BY <1>1
  <2> QED BY <1>1, <2>1, <2>2 DEF Histories
<1>3. \A b \in Bootstraps : Did(postgres, b, 0)
  <2> DEFINE created == <<<<None, 0>>>>
  <2>1. \A b \in Bootstraps : Ran(created, b, 0)
    BY ManagerAssumption DEF Ran
  <2>2. \A b : Present(postgres, b) => postgres[Target[b].db] = created
    BY <1>1 DEF Present
  <2> HIDE DEF created
  <2>3. ASSUME NEW b \in Bootstraps, Present(postgres, b) PROVE Ran(postgres[Target[b].db], b, 0)
    BY <2>1, <2>2, <2>3
  <2>4. ~(0 > 0)
    OBVIOUS
  <2> QED BY <2>3, <2>4 DEF Did
<1>4. \A b \in Bootstraps : Progress(b)
  BY <1>3 DEF Init, Progress, Early, Filling
<1>5. executed \in [Bootstraps -> Nat] /\ failure \in [Bootstraps -> Failures]
  BY DEF Init, Failures
<1>6. DOMAIN registry \ {DefaultId} = {}
  BY DEF Init, DefaultRegistry
<1> QED BY <1>1, <1>2, <1>4, <1>5, <1>6 DEF Ledger

(* What is told of an entry stays true of whoever the step leaves alone.   *)
LEMMA ToldKept ==
    ASSUME NEW pg, NEW pg2, NEW b \in Bootstraps, Keeps(pg, pg2, b),
           NEW stage \in Failures, NEW n \in Nat, Told(pg, b, stage, n)
    PROVE  Told(pg2, b, stage, n)
<1>1. Scripts[b] \in Nat /\ 0 \in Nat /\ n + 1 \in Nat
  BY ManagerAssumption
<1> QED BY <1>1 DEF Told, Keeps, Failures

LEMMA ProgressKept ==
    ASSUME Ledger, NEW b \in Bootstraps, Keeps(postgres, postgres', b),
           phase'[b] = phase[b], failure'[b] = failure[b], executed'[b] = executed[b]
    PROVE  Progress(b)'
<1>1. Progress(b) /\ executed[b] \in Nat /\ failure[b] \in Failures
  BY DEF Ledger
<1>2. phase[b] = "register" => Told(postgres', b, failure[b], executed[b])
  BY <1>1, ToldKept DEF Progress
<1> QED BY <1>1, <1>2 DEF Progress, Keeps

(* A bootstrap that has ended has nothing to answer for any more.          *)
LEMMA ProgressDone == ASSUME NEW b, phase'[b] = "done" PROVE Progress(b)'
BY DEF Progress, Early, Filling

LEMMA LeftOverKept ==
    ASSUME Ledger, NEW o \in orphans, Keeps(postgres, postgres', o.by),
           phase'[o.by] = "done", \A other \in orphans' : other.by = o.by => other \in orphans
    PROVE  LeftOver(o)'
<1>1. LeftOver(o) /\ o.by \in Bootstraps /\ o.script \in Nat
  BY DEF Ledger
<1>2. o.script > 0 => o.script - 1 \in Nat
  BY <1>1
<1> QED BY <1>1, <1>2 DEF LeftOver, Keeps

LEMMA RecordedKept ==
    ASSUME Ledger, NEW id \in DOMAIN registry \ {DefaultId}, registry'[id] = registry[id],
           Keeps(postgres, postgres', registry[id].by), phase'[registry[id].by] = "done",
           \A o \in orphans' : o.by # registry[id].by
    PROVE  Recorded(id)'
<1> DEFINE e == registry[id]
<1>1. /\ e.by \in Bootstraps /\ e.db = Target[e.by].db /\ e.failure \in Failures /\ e.executed \in Nat
      /\ Told(postgres, e.by, e.failure, e.executed)
  BY DEF Ledger, Recorded
<1>2. Told(postgres', e.by, e.failure, e.executed)
  BY <1>1, ToldKept
<1> QED BY <1>1, <1>2 DEF Recorded

LEMMA KeepsItself == \A pg, b : Keeps(pg, pg, b)
BY DEF Keeps

(* A step inside: one bootstrap moves on, with what it does to its         *)
(* database; what it has come to is to be shown for each step.             *)
LEMMA LedgerInner ==
    ASSUME Ledger, phase \in [Bootstraps -> Phases], NEW b \in Bootstraps, NEW p \in Phases,
           phase[b] # "done", phase' = [phase EXCEPT ![b] = p],
           executed' \in [Bootstraps -> Nat], failure' \in [Bootstraps -> Failures],
           \A c \in Bootstraps : c # b => executed'[c] = executed[c] /\ failure'[c] = failure[c],
           UNCHANGED <<registry, orphans>>,
           Histories(postgres'),
           \A c \in Bootstraps : c # b => Keeps(postgres, postgres', c),
           Progress(b)'
    PROVE  Ledger'
<1>1. \A c \in Bootstraps : c # b => phase'[c] = phase[c]
  OBVIOUS
<1>2. \A c \in Bootstraps : Progress(c)'
  BY <1>1, ProgressKept
<1>3. ASSUME NEW o \in orphans' PROVE LeftOver(o)'
  <2>1. o \in orphans /\ o.by \in Bootstraps /\ phase[o.by] = "done"
    BY DEF Ledger, LeftOver
  <2> QED BY <1>1, <2>1, LeftOverKept
<1>4. ASSUME NEW id \in DOMAIN registry' \ {DefaultId} PROVE Recorded(id)'
  <2>1. /\ id \in DOMAIN registry \ {DefaultId} /\ registry[id].by \in Bootstraps
        /\ phase[registry[id].by] = "done" /\ \A o \in orphans : o.by # registry[id].by
    BY DEF Ledger, Recorded
  <2> QED BY <1>1, <2>1, RecordedKept
<1>5. orphans' \subseteq [by : Bootstraps, script : Nat]
  BY DEF Ledger
<1> QED BY <1>2, <1>3, <1>4, <1>5 DEF Ledger

(* The steps that leave the databases alone and only move on.              *)
LEMMA MoveLedger ==
    ASSUME Ledger, phase \in [Bootstraps -> Phases], NEW b \in Bootstraps, NEW p \in Phases,
           phase[b] # "done", phase' = [phase EXCEPT ![b] = p],
           UNCHANGED <<registry, orphans, executed, failure, postgres>>,
           Progress(b)'
    PROVE  Ledger'
<1>1. /\ executed' \in [Bootstraps -> Nat] /\ failure' \in [Bootstraps -> Failures]
      /\ Histories(postgres')
  BY DEF Ledger
<1>2. \A c \in Bootstraps : Keeps(postgres, postgres', c)
  BY KeepsItself
<1> QED BY <1>1, <1>2, LedgerInner

LEMMA MovesLedger ==
    ASSUME Ledger, phase \in [Bootstraps -> Phases], NEW b \in Bootstraps,
           \/ Request(b) \/ Lock(b) \/ Unregistered(b) \/ Exists(b) \/ Missing(b)
           \/ Connect(b) \/ ScriptsDone(b) \/ Introspect(b)
    PROVE  Ledger'
<1>1. Progress(b) /\ executed[b] \in Nat
  BY DEF Ledger
<1>2. CASE Request(b) \/ Lock(b)
  <2>1. PICK p \in {"waiting", "check"} :
           /\ phase[b] \in {"new", "waiting"} /\ phase' = [phase EXCEPT ![b] = p]
           /\ UNCHANGED <<registry, orphans, executed, failure, postgres>>
    BY <1>2 DEF Request, Lock, Step, Goto
  <2>2. phase'[b] = p
    BY <2>1
  <2>3. Progress(b)'
    BY <1>1, <2>1, <2>2 DEF Progress, Early, Filling
  <2> QED BY <2>1, <2>3, MoveLedger DEF Phases
<1>3. CASE Unregistered(b) \/ Missing(b)
  <2>1. PICK p \in {"exists", "create"} :
           /\ phase[b] \in {"check", "exists"} /\ phase' = [phase EXCEPT ![b] = p]
           /\ UNCHANGED <<registry, orphans, executed, failure, postgres>>
    BY <1>3 DEF Unregistered, Missing, Step, Goto
  <2>2. phase'[b] = p
    BY <2>1
  <2>3. Progress(b)'
    BY <1>1, <2>1, <2>2 DEF Progress, Early, Filling
  <2> QED BY <2>1, <2>3, MoveLedger DEF Phases
<1>4. CASE Exists(b)
  <2>1. /\ phase[b] = "exists" /\ phase' = [phase EXCEPT ![b] = "connect"] /\ Present(postgres, b)
        /\ UNCHANGED <<registry, orphans, executed, failure, postgres>>
    BY <1>4 DEF Exists, Step, Goto, Present
  <2>2. phase'[b] = "connect"
    BY <2>1
  <2>3. Progress(b)'
    BY <1>1, <2>1, <2>2 DEF Progress, Early, Filling
  <2> QED BY <2>1, <2>3, MoveLedger DEF Phases
<1>5. CASE Connect(b)
  <2>1. /\ phase[b] = "connect" /\ phase' = [phase EXCEPT ![b] = "scripts"]
        /\ UNCHANGED <<registry, orphans, executed, failure, postgres>>
    BY <1>5 DEF Connect, Step, Goto
  <2>2. phase'[b] = "scripts"
    BY <2>1
  <2>3. Progress(b)'
    BY <1>1, <2>1, <2>2 DEF Progress, Early, Filling
  <2> QED BY <2>1, <2>3, MoveLedger DEF Phases
<1>6. CASE ScriptsDone(b)
  <2>1. /\ phase[b] = "scripts" /\ phase' = [phase EXCEPT ![b] = "introspect"]
        /\ executed[b] = Scripts[b]
        /\ UNCHANGED <<registry, orphans, executed, failure, postgres>>
    BY <1>6 DEF ScriptsDone, Step, Goto
  <2>2. phase'[b] = "introspect"
    BY <2>1
  <2>3. Progress(b)'
    BY <1>1, <2>1, <2>2 DEF Progress, Early, Filling
  <2> QED BY <2>1, <2>3, MoveLedger DEF Phases
<1>7. CASE Introspect(b)
  <2>1. /\ phase[b] = "introspect" /\ phase' = [phase EXCEPT ![b] = "register"]
        /\ UNCHANGED <<registry, orphans, executed, failure, postgres>>
    BY <1>7 DEF Introspect, Step, Goto
  <2>2. phase'[b] = "register"
    BY <2>1
  <2>3. failure[b] = "none" /\ Told(postgres, b, "none", executed[b])
    BY <1>1, <2>1 DEF Progress, Filling, Told
  <2>4. Progress(b)'
    BY <2>1, <2>2, <2>3 DEF Progress, Early, Filling
  <2> QED BY <2>1, <2>4, MoveLedger DEF Phases
<1> QED BY <1>2, <1>3, <1>4, <1>5, <1>6, <1>7

(* A stage fails: the entry to come tells what has run.                    *)
LEMMA FailLedger ==
    ASSUME Ledger, phase \in [Bootstraps -> Phases], NEW b \in Bootstraps,
           phase[b] # "done", NEW stage \in Failures, Fail(b, stage),
           Histories(postgres'),
           \A c \in Bootstraps : c # b => Keeps(postgres, postgres', c),
           Told(postgres', b, stage, executed[b])
    PROVE  Ledger'
<1>1. /\ phase' = [phase EXCEPT ![b] = "register"] /\ failure' = [failure EXCEPT ![b] = stage]
      /\ UNCHANGED <<registry, orphans, executed>>
  BY DEF Fail, Goto
<1>2. /\ executed' \in [Bootstraps -> Nat] /\ failure' \in [Bootstraps -> Failures]
      /\ failure'[b] = stage /\ \A c \in Bootstraps : c # b => failure'[c] = failure[c]
  BY <1>1 DEF Ledger
<1>3. phase'[b] = "register"
  BY <1>1
<1>4. Progress(b)'
  BY <1>1, <1>2, <1>3 DEF Progress, Early, Filling
<1> QED BY <1>1, <1>2, <1>4, LedgerInner DEF Phases

LEMMA CreateLedger ==
    ASSUME Ledger, phase \in [Bootstraps -> Phases], NEW b \in Bootstraps,
           Create(b) \/ CreateFails(b)
    PROVE  Ledger'
<1>1. Progress(b) /\ executed[b] \in Nat /\ Histories(postgres)
  BY DEF Ledger
<1>2. postgres' = WithDatabase(b) =>
        /\ Histories(postgres') /\ Present(postgres', b)
        /\ \A c \in Bootstraps : Keeps(postgres, postgres', c)
  BY <1>1, CreatesKeeps DEF WithDatabase
<1>3. CASE Create(b)
  <2>1. /\ phase[b] = "create" /\ phase' = [phase EXCEPT ![b] = "connect"]
        /\ postgres' = WithDatabase(b)
        /\ UNCHANGED <<registry, orphans, executed, failure>>
    BY <1>3 DEF Create, Step, Goto
  <2>2. executed' \in [Bootstraps -> Nat] /\ failure' \in [Bootstraps -> Failures]
    BY <2>1 DEF Ledger
  <2>3. phase'[b] = "connect" /\ executed[b] = 0 /\ failure[b] = "none" /\ Did(postgres', b, 0)
    BY <1>1, <1>2, <2>1 DEF Progress, Early, Keeps
  <2>4. Progress(b)'
    BY <1>2, <2>1, <2>3 DEF Progress, Early, Filling
  <2> QED BY <1>2, <2>1, <2>2, <2>4, LedgerInner DEF Phases
<1>4. CASE CreateFails(b)
  <2>1. /\ phase[b] \in {"exists", "create"} /\ Fail(b, "create_database")
        /\ postgres' = postgres \/ postgres' = WithDatabase(b)
    BY <1>4 DEF CreateFails
  <2>2. Histories(postgres') /\ \A c \in Bootstraps : Keeps(postgres, postgres', c)
    BY <1>1, <1>2, <2>1, KeepsItself
  <2>3. Told(postgres', b, "create_database", executed[b])
    BY <1>1, <2>1, <2>2 DEF Progress, Early, Keeps, Told
  <2> QED BY <2>1, <2>2, <2>3, FailLedger DEF Failures
<1> QED BY <1>3, <1>4

LEMMA ScriptLedger ==
    ASSUME Ledger, phase \in [Bootstraps -> Phases], NEW b \in Bootstraps,
           Script(b) \/ ScriptFails(b)
    PROVE  Ledger'
<1>1. Progress(b) /\ executed[b] \in Nat /\ Histories(postgres)
  BY DEF Ledger
<1>2. phase[b] = "scripts"
  BY DEF Script, ScriptFails, Step
<1>3. Present(postgres, b) /\ Did(postgres, b, executed[b]) /\ failure[b] = "none"
  BY <1>1, <1>2 DEF Progress, Filling
<1>4. postgres' = WithScript(b, executed[b] + 1) =>
        /\ Histories(postgres') /\ Present(postgres', b)
        /\ \A c \in Bootstraps : c # b => Keeps(postgres, postgres', c)
        /\ Did(postgres', b, executed[b] + 1)
  <2> DEFINE i == executed[b] + 1
  <2>1. i \in Nat /\ i = executed[b] + 1
    BY <1>1
  <2>2. postgres' = WithScript(b, i) =>
           postgres' = [postgres EXCEPT ![Target[b].db] = Append(@, <<b, i>>)]
    BY DEF WithScript
  <2> HIDE DEF i
  <2>3. ASSUME postgres' = WithScript(b, i)
        PROVE  /\ Histories(postgres') /\ Present(postgres', b)
               /\ \A c \in Bootstraps : c # b => Keeps(postgres, postgres', c)
               /\ Did(postgres', b, i)
    BY <1>1, <1>3, <2>1, <2>2, <2>3, ScriptKeeps
  <2> QED BY <2>3 DEF i
<1>5. CASE Script(b)
  <2>1. /\ phase' = [phase EXCEPT ![b] = "scripts"]
        /\ postgres' = WithScript(b, executed[b] + 1)
        /\ executed' = [executed EXCEPT ![b] = @ + 1]
        /\ UNCHANGED <<registry, orphans, failure>>
    BY <1>5 DEF Script, Step, Goto
  <2>2. /\ executed' \in [Bootstraps -> Nat] /\ failure' \in [Bootstraps -> Failures]
        /\ executed'[b] = executed[b] + 1
        /\ \A c \in Bootstraps : c # b => executed'[c] = executed[c]
    BY <2>1 DEF Ledger
  <2>3. phase'[b] = "scripts"
    BY <2>1
  <2>4. Progress(b)'
    BY <1>3, <1>4, <2>1, <2>2, <2>3 DEF Progress, Early, Filling
  <2> QED BY <1>2, <1>4, <2>1, <2>2, <2>4, LedgerInner DEF Phases
<1>6. CASE ScriptFails(b)
  <2>1. /\ Fail(b, "execute_script")
        /\ postgres' = postgres \/ postgres' = WithScript(b, executed[b] + 1)
    BY <1>6 DEF ScriptFails
  <2>2. /\ Histories(postgres')
        /\ \A c \in Bootstraps : c # b => Keeps(postgres, postgres', c)
    BY <1>1, <1>4, <2>1, KeepsItself
  <2>3. Told(postgres', b, "execute_script", executed[b])
    BY <1>3, <1>4, <2>1 DEF Told
  <2> QED BY <1>2, <2>1, <2>2, <2>3, FailLedger DEF Failures
<1> QED BY <1>5, <1>6

LEMMA FailsLedger ==
    ASSUME Ledger, phase \in [Bootstraps -> Phases], NEW b \in Bootstraps,
           ConnectFails(b) \/ IntrospectFails(b)
    PROVE  Ledger'
<1>1. /\ Progress(b) /\ Histories(postgres) /\ postgres' = postgres
      /\ \A c \in Bootstraps : Keeps(postgres, postgres', c)
  BY KeepsItself DEF Ledger, ConnectFails, IntrospectFails
<1>2. CASE ConnectFails(b)
  <2>1. phase[b] = "connect" /\ Fail(b, "connect_database")
    BY <1>2 DEF ConnectFails
  <2>2. Told(postgres', b, "connect_database", executed[b])
    BY <1>1, <2>1 DEF Progress, Filling, Told
  <2> QED BY <1>1, <2>1, <2>2, FailLedger DEF Failures
<1>3. CASE IntrospectFails(b)
  <2>1. phase[b] = "introspect" /\ Fail(b, "introspect_schema")
    BY <1>3 DEF IntrospectFails
  <2>2. Told(postgres', b, "introspect_schema", executed[b])
    BY <1>1, <2>1 DEF Progress, Filling, Told
  <2> QED BY <1>1, <2>1, <2>2, FailLedger DEF Failures
<1> QED BY <1>2, <1>3

(* What a bootstrap leaves under way is the one statement it waits for.    *)
LEMMA UnderWayFacts ==
    ASSUME Ledger, NEW b \in Bootstraps, NEW o \in UnderWay(b)
    PROVE  /\ o \in [by : Bootstraps, script : Nat] /\ o.by = b
           /\ \A other \in UnderWay(b) : other = o
           /\ phase[b] \in {"create", "scripts"}
           /\ o.script = 0 => phase[b] = "create" /\ Did(postgres, b, 0)
           /\ o.script > 0 => /\ phase[b] = "scripts" /\ Present(postgres, b)
                              /\ Did(postgres, b, o.script - 1)
<1>1. Progress(b) /\ executed[b] \in Nat
  BY DEF Ledger
<1>2. CASE phase[b] = "create"
  <2>1. UnderWay(b) = {[by |-> b, script |-> 0]}
    BY <1>2 DEF UnderWay
  <2>2. Did(postgres, b, 0)
    BY <1>1, <1>2 DEF Progress, Early
  <2> QED BY <1>2, <2>1, <2>2
<1>3. CASE phase[b] = "scripts" /\ executed[b] < Scripts[b]
  <2> DEFINE n == executed[b]
  <2>1. UnderWay(b) = {[by |-> b, script |-> n + 1]} /\ n \in Nat
    BY <1>1, <1>3 DEF UnderWay
  <2>2. Present(postgres, b) /\ Did(postgres, b, n)
    BY <1>1, <1>3 DEF Progress, Filling
  <2>3. n + 1 - 1 = n /\ n + 1 > 0 /\ n + 1 \in Nat
    BY <2>1
  <2> HIDE DEF n
  <2>4. o = [by |-> b, script |-> n + 1] /\ o.script - 1 = n
    BY <2>1, <2>3
  <2>5. Did(postgres, b, o.script - 1)
    BY <2>2, <2>4
  <2> QED BY <1>3, <2>1, <2>2, <2>3, <2>4, <2>5
<1>4. CASE phase[b] # "create" /\ ~(phase[b] = "scripts" /\ executed[b] < Scripts[b])
  <2>1. UnderWay(b) = {}
    BY <1>4 DEF UnderWay
  <2> QED BY <2>1
<1> QED BY <1>2, <1>3, <1>4

(* Bootstraps are dropped, one or all of them; of what they had under way  *)
(* some or nothing is left.                                                *)
LEMMA DropsLedger ==
    ASSUME Ledger, phase' \in [Bootstraps -> Phases],
           \A b \in Bootstraps : phase'[b] = phase[b] \/ phase'[b] = "done",
           \A o \in orphans' : o \in orphans \/ \E b \in Bootstraps : phase'[b] = "done" /\ o \in UnderWay(b),
           \A id \in DOMAIN registry' \ {DefaultId} : id \in DOMAIN registry /\ registry'[id] = registry[id],
           UNCHANGED <<executed, failure, postgres>>
    PROVE  Ledger'
<1>1. /\ Histories(postgres') /\ \A b \in Bootstraps : Keeps(postgres, postgres', b)
      /\ executed' \in [Bootstraps -> Nat] /\ failure' \in [Bootstraps -> Failures]
  BY KeepsItself DEF Ledger
<1>2. ASSUME NEW b \in Bootstraps PROVE Progress(b)'
  BY <1>1, ProgressKept, ProgressDone
<1>3. ASSUME NEW o \in orphans
      PROVE  /\ o \in [by : Bootstraps, script : Nat] /\ o.by \in Bootstraps
             /\ phase[o.by] = "done" /\ phase'[o.by] = "done"
  BY DEF Ledger, LeftOver
<1>4. ASSUME NEW o \in orphans', NEW other \in orphans', other.by = o.by
      PROVE  other = o
  <2>1. CASE o \in orphans /\ other \in orphans
    BY <1>4, <2>1 DEF Ledger, LeftOver
  <2>2. CASE o \notin orphans
    <3>1. PICK b \in Bootstraps : o \in UnderWay(b)
      BY <2>2
    <3>2. o.by = b /\ phase[b] # "done"
      BY <3>1, UnderWayFacts
    <3>3. other \notin orphans
      BY <1>3, <1>4, <3>2
    <3>4. PICK c \in Bootstraps : other \in UnderWay(c)
      BY <3>3
    <3>5. other.by = c
      BY <3>4, UnderWayFacts
    <3> QED BY <1>4, <3>1, <3>2, <3>4, <3>5, UnderWayFacts
  <2>3. CASE other \notin orphans
    <3>1. PICK b \in Bootstraps : other \in UnderWay(b)
      BY <2>3
    <3>2. other.by = b /\ phase[b] # "done"
      BY <3>1, UnderWayFacts
    <3>3. o \notin orphans
      BY <1>3, <1>4, <3>2
    <3>4. PICK c \in Bootstraps : o \in UnderWay(c)
      BY <3>3
    <3>5. o.by = c
      BY <3>4, UnderWayFacts
    <3>6. o \in UnderWay(b) /\ other \in UnderWay(b)
      BY <1>4, <3>1, <3>2, <3>4, <3>5
    <3> QED BY <3>6, UnderWayFacts
  <2> QED BY <2>1, <2>2, <2>3
<1>5. ASSUME NEW o \in orphans' PROVE LeftOver(o)' /\ o \in [by : Bootstraps, script : Nat]
  <2>1. CASE o \in orphans
    <3>1. \A other \in orphans' : other.by = o.by => other \in orphans
      BY <1>4, <2>1
    <3> QED BY <1>1, <1>3, <2>1, <3>1, LeftOverKept
  <2>2. CASE o \notin orphans
    <3>1. PICK b \in Bootstraps : phase'[b] = "done" /\ o \in UnderWay(b)
      BY <2>2
    <3>2. /\ o \in [by : Bootstraps, script : Nat] /\ o.by = b
          /\ o.script = 0 => Did(postgres, b, 0)
          /\ o.script > 0 => Present(postgres, b) /\ Did(postgres, b, o.script - 1)
      BY <3>1, UnderWayFacts
    <3>3. \A other \in orphans' : other.by = o.by => other = o
      BY <1>4
    <3> QED BY <3>1, <3>2, <3>3 DEF LeftOver
  <2> QED BY <2>1, <2>2
<1>6. ASSUME NEW id \in DOMAIN registry' \ {DefaultId} PROVE Recorded(id)'
  <2>1. id \in DOMAIN registry \ {DefaultId} /\ registry'[id] = registry[id]
    OBVIOUS
  <2>2. /\ registry[id].by \in Bootstraps
        /\ phase[registry[id].by] = "done" /\ \A o \in orphans : o.by # registry[id].by
    BY <2>1 DEF Ledger, Recorded
  <2>3. ASSUME NEW o \in orphans', o.by = registry[id].by PROVE FALSE
    <3>1. PICK b \in Bootstraps : o \in UnderWay(b)
      BY <2>2, <2>3
    <3> QED BY <2>2, <2>3, <3>1, UnderWayFacts
  <2>4. phase'[registry[id].by] = "done"
    BY <2>2
  <2> QED BY <1>1, <2>1, <2>2, <2>3, <2>4, RecordedKept
<1>7. orphans' \subseteq [by : Bootstraps, script : Nat]
  BY <1>5
<1> QED BY <1>1, <1>2, <1>5, <1>6, <1>7 DEF Ledger

LEMMA EndsLedger ==
    ASSUME Ledger, phase \in [Bootstraps -> Phases],
           \/ Restart
           \/ \E b \in Bootstraps : Conflict(b) \/ Drop(b)
    PROVE  Ledger'
<1>1. CASE Restart
  <2>1. /\ phase' = [b \in Bootstraps |-> IF phase[b] = "new" THEN "new" ELSE "done"]
        /\ DOMAIN registry' = {DefaultId}
        /\ orphans' \in {orphans, orphans \cup UNION {UnderWay(b) : b \in Bootstraps}}
        /\ UNCHANGED <<executed, failure, postgres>>
    BY <1>1 DEF Restart, DefaultRegistry
  <2>2. /\ phase' \in [Bootstraps -> Phases]
        /\ \A b \in Bootstraps : phase'[b] = phase[b] \/ phase'[b] = "done"
    BY <2>1 DEF Phases
  <2>3. \A b \in Bootstraps : \A o \in UnderWay(b) : phase'[b] = "done"
    <3> TAKE b \in Bootstraps
    <3> TAKE o \in UnderWay(b)
    <3>1. phase[b] \in {"create", "scripts"}
      BY UnderWayFacts
    <3> QED BY <2>1, <3>1
  <2>4. \A o \in orphans' : o \in orphans \/ \E b \in Bootstraps : phase'[b] = "done" /\ o \in UnderWay(b)
    BY <2>1, <2>3
  <2> QED BY <2>1, <2>2, <2>4, DropsLedger
<1>2. ASSUME NEW b \in Bootstraps, Conflict(b) \/ Drop(b) PROVE Ledger'
  <2>1. /\ phase' = [phase EXCEPT ![b] = "done"] /\ registry' = registry
        /\ orphans' \in {orphans, orphans \cup UnderWay(b)}
        /\ UNCHANGED <<executed, failure, postgres>>
    BY <1>2 DEF Conflict, Drop, End, Goto
  <2>2. /\ phase' \in [Bootstraps -> Phases] /\ phase'[b] = "done"
        /\ \A c \in Bootstraps : phase'[c] = phase[c] \/ phase'[c] = "done"
    BY <2>1 DEF Phases
  <2>3. \A o \in orphans' : o \in orphans \/ \E c \in Bootstraps : phase'[c] = "done" /\ o \in UnderWay(c)
    BY <2>1, <2>2
  <2> QED BY <2>1, <2>2, <2>3, DropsLedger
<1> QED BY <1>1, <1>2

LEMMA RegisterLedger ==
    ASSUME Ledger, phase \in [Bootstraps -> Phases], NEW b \in Bootstraps, Register(b)
    PROVE  Ledger'
<1> DEFINE id == Target[b].id
           e == Entry(b, failure[b], executed[b])
<1>1. /\ registry' = [i \in DOMAIN registry \cup {id} |-> IF i = id THEN e ELSE registry[i]]
      /\ id \notin DOMAIN registry
      /\ phase[b] = "register" /\ phase' = [phase EXCEPT ![b] = "done"]
      /\ UNCHANGED <<executed, failure, postgres, orphans>>
  BY DEF Register, Registered, End, Goto
<1>2. /\ Histories(postgres') /\ \A c \in Bootstraps : Keeps(postgres, postgres', c)
      /\ executed' \in [Bootstraps -> Nat] /\ failure' \in [Bootstraps -> Failures]
      /\ orphans' \subseteq [by : Bootstraps, script : Nat]
      /\ phase'[b] = "done"
      /\ \A c \in Bootstraps : c # b => phase'[c] = phase[c]
  BY <1>1, KeepsItself DEF Ledger
<1>3. ASSUME NEW c \in Bootstraps PROVE Progress(c)'
  BY <1>1, <1>2, ProgressKept, ProgressDone
<1>4. ASSUME NEW o \in orphans PROVE o.by \in Bootstraps /\ o.by # b /\ phase[o.by] = "done"
  BY <1>1 DEF Ledger, LeftOver
<1>5. ASSUME NEW o \in orphans' PROVE LeftOver(o)'
  BY <1>1, <1>2, <1>4, LeftOverKept
<1>6. Recorded(id)'
  <2>1. registry'[id] = e
    BY <1>1
  <2>2. /\ e.by = b /\ e.db = Target[b].db /\ e.failure = failure[b] /\ e.executed = executed[b]
    BY DEF Entry
  <2>3. Told(postgres', b, failure[b], executed[b])
    BY <1>1 DEF Ledger, Progress
  <2>4. failure[b] \in Failures /\ executed[b] \in Nat
    BY DEF Ledger
  <2> HIDE DEF e
  <2> QED BY <1>1, <1>2, <1>4, <2>1, <2>2, <2>3, <2>4 DEF Recorded
<1>7. ASSUME NEW i \in DOMAIN registry \ {DefaultId} PROVE Recorded(i)'
  <2>1. /\ registry[i].by \in Bootstraps
        /\ phase[registry[i].by] = "done" /\ \A o \in orphans : o.by # registry[i].by
    BY DEF Ledger, Recorded
  <2>2. registry'[i] = registry[i] /\ phase'[registry[i].by] = "done"
    BY <1>1, <1>2, <2>1
  <2> QED BY <1>1, <1>2, <2>1, <2>2, RecordedKept
<1>8. \A i \in DOMAIN registry' \ {DefaultId} : Recorded(i)'
  BY <1>1, <1>6, <1>7
<1> QED BY <1>2, <1>3, <1>5, <1>8 DEF Ledger

LEMMA OrphanLedger ==
    ASSUME Ledger, NEW o \in orphans, OrphanRuns(o) \/ OrphanDies(o)
    PROVE  Ledger'
<1>1. /\ LeftOver(o) /\ o.by \in Bootstraps /\ o.script \in Nat /\ Histories(postgres)
      /\ phase[o.by] = "done"
  BY DEF Ledger, LeftOver
<1>2. /\ orphans' = orphans \ {o} /\ UNCHANGED serverVars
      /\ \/ postgres' = postgres
         \/ o.script = 0 /\ postgres' = WithDatabase(o.by)
         \/ o.script # 0 /\ postgres' = WithScript(o.by, o.script)
  BY DEF OrphanRuns, OrphanDies
<1> DEFINE b == o.by
           i == o.script
<1>3. /\ Histories(postgres')
      /\ \A c \in Bootstraps : c # b => Keeps(postgres, postgres', c)
  <2>1. CASE postgres' = postgres
    BY <1>1, <2>1, KeepsItself
  <2>2. CASE o.script = 0 /\ postgres' = WithDatabase(o.by)
    BY <1>1, <2>2, CreatesKeeps DEF WithDatabase
  <2>3. CASE o.script # 0 /\ postgres' = WithScript(o.by, o.script)
    <3>1. b \in Bootstraps /\ i \in Nat /\ Present(postgres, b)
      BY <1>1, <2>3 DEF LeftOver
    <3>2. postgres' = [postgres EXCEPT ![Target[b].db] = Append(@, <<b, i>>)]
      BY <2>3 DEF WithScript
    <3> HIDE DEF b, i
    <3> QED BY <1>1, <3>1, <3>2, ScriptKeeps
  <2> QED BY <1>2, <2>1, <2>2, <2>3
<1>4. /\ UNCHANGED <<registry, phase, executed, failure>>
      /\ executed' \in [Bootstraps -> Nat] /\ failure' \in [Bootstraps -> Failures]
      /\ orphans' \subseteq [by : Bootstraps, script : Nat]
  BY <1>2 DEF serverVars, Ledger
<1>5. ASSUME NEW c \in Bootstraps PROVE Progress(c)'
  BY <1>1, <1>3, <1>4, ProgressKept, ProgressDone
<1>6. ASSUME NEW other \in orphans' PROVE LeftOver(other)'
  <2>1. other \in orphans /\ other.by # b /\ other.by \in Bootstraps /\ phase[other.by] = "done"
    BY <1>2 DEF Ledger, LeftOver
  <2> QED BY <1>2, <1>3, <1>4, <2>1, LeftOverKept
<1>7. ASSUME NEW id \in DOMAIN registry' \ {DefaultId} PROVE Recorded(id)'
  <2>1. /\ id \in DOMAIN registry \ {DefaultId} /\ registry[id].by \in Bootstraps
        /\ phase[registry[id].by] = "done" /\ registry[id].by # b
        /\ \A other \in orphans : other.by # registry[id].by
    BY <1>4 DEF Ledger, Recorded
  <2> QED BY <1>2, <1>3, <1>4, <2>1, RecordedKept
<1> QED BY <1>3, <1>4, <1>5, <1>6, <1>7 DEF Ledger

LEMMA NextLedger == IInv /\ Ledger /\ [Next]_vars => Ledger'
<1> SUFFICES ASSUME IInv, Ledger, [Next]_vars PROVE Ledger'
  OBVIOUS
<1>0. phase \in [Bootstraps -> Phases]
  BY DEF IInv
<1>1. ASSUME NEW b \in Bootstraps, Conflict(b) \/ Drop(b) PROVE Ledger'
  BY <1>0, <1>1, EndsLedger
<1>2. ASSUME NEW b \in Bootstraps, Request(b) \/ Lock(b) \/ Unregistered(b) \/ Exists(b) \/ Missing(b)
      PROVE  Ledger'
  BY <1>0, <1>2, MovesLedger
<1>3. ASSUME NEW b \in Bootstraps, Connect(b) \/ ScriptsDone(b) \/ Introspect(b) PROVE Ledger'
  BY <1>0, <1>3, MovesLedger
<1>4. ASSUME NEW b \in Bootstraps, Create(b) \/ CreateFails(b) PROVE Ledger'
  BY <1>0, <1>4, CreateLedger
<1>5. ASSUME NEW b \in Bootstraps, Script(b) \/ ScriptFails(b) PROVE Ledger'
  BY <1>0, <1>5, ScriptLedger
<1>6. ASSUME NEW b \in Bootstraps, ConnectFails(b) \/ IntrospectFails(b) PROVE Ledger'
  BY <1>0, <1>6, FailsLedger
<1>7. ASSUME NEW b \in Bootstraps, Register(b) PROVE Ledger'
  BY <1>0, <1>7, RegisterLedger
<1>8. CASE Restart
  BY <1>0, <1>8, EndsLedger
<1>9. ASSUME NEW o \in orphans, OrphanRuns(o) \/ OrphanDies(o) PROVE Ledger'
  BY <1>9, OrphanLedger
<1>10. CASE UNCHANGED vars
  BY <1>0, <1>10, DropsLedger DEF vars, serverVars
<1> QED
  BY <1>1, <1>2, <1>3, <1>4, <1>5, <1>6, <1>7, <1>8, <1>9, <1>10 DEF Next, Serve

-----------------------------------------------------------------------------
(* The policy `fail'.                                                      *)

(* A history only grows at its end, and a database is created with its     *)
(* creator's mark.                                                         *)
Grows(pg, pg2, b) ==
    \/ /\ Present(pg, b) /\ Present(pg2, b)
       /\ pg2[Target[b].db] = pg[Target[b].db]
    \/ ~Present(pg, b) /\ ~Present(pg2, b)

Creates(pg, pg2, c) ==
    pg2 = [db \in DOMAIN pg \cup {Target[c].db} |->
              IF db \in DOMAIN pg THEN pg[db] ELSE <<<<c, 0>>>>]

Adds(pg, pg2, c, i) == pg2 = [pg EXCEPT ![Target[c].db] = Append(@, <<c, i>>)]

LEMMA GrowsKeeps ==
    ASSUME NEW pg, NEW pg2, NEW b, Grows(pg, pg2, b)
    PROVE  /\ Creator(pg, b) => Creator(pg2, b)
           /\ \A n \in Nat : Begins(pg, b, n) => Begins(pg2, b, n)
BY DEF Grows, Creator, Begins

LEMMA CreatesGrows ==
    ASSUME NEW pg, Histories(pg), NEW c \in Bootstraps, NEW pg2, Creates(pg, pg2, c),
           NEW b \in Bootstraps, Creator(pg, b)
    PROVE  /\ Creator(pg2, b)
           /\ \A n \in Nat : Begins(pg, b, n) => Begins(pg2, b, n)
           /\ Present(pg, b) => Present(pg2, b) /\ pg2[Target[b].db] = pg[Target[b].db]
           /\ ~Present(pg, c) => Begins(pg2, c, 0) /\ Len(pg2[Target[c].db]) = 1
<1>1. DOMAIN pg2 = DOMAIN pg \cup {Target[c].db}
  BY DEF Creates
<1>2. \A db \in DOMAIN pg : pg2[db] = pg[db]
  BY DEF Creates
<1>3. \A db \in DOMAIN pg2 : db \notin DOMAIN pg => pg2[db] = <<<<c, 0>>>>
  BY DEF Creates
<1>4. ASSUME ~Present(pg, c) PROVE Begins(pg2, c, 0) /\ Len(pg2[Target[c].db]) = 1
  <2>1. Target[c].db \in DOMAIN pg2 /\ pg2[Target[c].db] = <<<<c, 0>>>>
    BY <1>1, <1>3, <1>4 DEF Present
  <2>2. Len(<<<<c, 0>>>>) = 1 /\ <<<<c, 0>>>>[1] = <<c, 0>>
    OBVIOUS
  <2>3. \A k \in 0..0 : k + 1 = 1 /\ k = 0
    OBVIOUS
  <2> QED BY <2>1, <2>2, <2>3 DEF Present, Begins
<1>5. CASE Present(pg, b) \/ ~Present(pg2, b)
  <2>1. Grows(pg, pg2, b)
    BY <1>1, <1>2, <1>5 DEF Grows, Present
  <2>2. Present(pg, b) => Present(pg2, b) /\ pg2[Target[b].db] = pg[Target[b].db]
    BY <1>1, <1>2 DEF Present
  <2> QED BY <1>4, <2>1, <2>2, GrowsKeeps
<1>6. CASE ~Present(pg, b) /\ Present(pg2, b)
  <2>1. pg2[Target[b].db] = <<<<c, 0>>>>
    BY <1>3, <1>6 DEF Present
  <2>2. Creator(pg2, b)
    BY <2>1 DEF Creator
  <2>3. \A n : ~Begins(pg, b, n)
    BY <1>6 DEF Begins
  <2> QED BY <1>6, <1>4, <2>2, <2>3
<1> QED BY <1>5, <1>6

LEMMA ScriptGrows ==
    ASSUME NEW pg, Histories(pg), NEW c \in Bootstraps, NEW i \in Nat, Present(pg, c), NEW pg2, Adds(pg, pg2, c, i),
           NEW b \in Bootstraps, Creator(pg, b), b = c => Begins(pg, c, 0)
    PROVE  /\ Creator(pg2, b)
           /\ \A n \in Nat : Begins(pg, b, n) => Begins(pg2, b, n)
           /\ Target[b].db # Target[c].db /\ Present(pg, b) => pg2[Target[b].db] = pg[Target[b].db]
           /\ \A n \in Nat :
                 Begins(pg, c, n) /\ Len(pg[Target[c].db]) = n + 1 /\ i = n + 1 =>
                    Begins(pg2, c, i) /\ Len(pg2[Target[c].db]) = i + 1
<1> DEFINE d == Target[c].db
           run == <<c, i>>
           history == pg[d]
           more == Append(history, run)
<1>1. d \in DOMAIN pg /\ history \in Seq(Runs) \ {<<>>}
  BY DEF Present, Histories
<1>2. DOMAIN pg2 = DOMAIN pg /\ pg2[d] = more /\ \A db \in DOMAIN pg : db # d => pg2[db] = pg[db]
  BY <1>1 DEF Histories, Adds
<1>3. /\ DOMAIN history = 1..Len(history) /\ Len(history) \in Nat /\ Len(history) >= 1
      /\ DOMAIN more = 1..Len(history) + 1 /\ Len(more) = Len(history) + 1
      /\ \A p \in 1..Len(history) : more[p] = history[p]
      /\ more[Len(history) + 1] = run
  <2>1. run \in Runs
    BY DEF Runs
  <2> QED BY <1>1, <2>1, AppendFacts
<1>4. run[1] = c /\ run = <<c, i>>
  OBVIOUS
<1> HIDE DEF run, more, history
<1>5. ASSUME NEW n \in Nat, Begins(pg, c, n), Len(pg[d]) = n + 1, i = n + 1
      PROVE  Begins(pg2, c, i) /\ Len(pg2[d]) = i + 1
  <2>1. \A k \in 0..n : history[k + 1] = <<c, k>>
    BY <1>5 DEF Begins, history
  <2>2. Len(history) = n + 1
    BY <1>5 DEF history
  <2>3. \A k \in 0..i : more[k + 1] = <<c, k>>
    <3> TAKE k \in 0..i
    <3>1. CASE k = i
      BY <1>3, <1>4, <1>5, <2>2, <3>1
    <3>2. CASE k # i
      <4>1. k \in 0..n /\ k + 1 \in 1..Len(history)
        BY <1>5, <2>2, <3>2
      <4> QED BY <1>3, <2>1, <4>1
    <3> QED BY <3>1, <3>2
  <2>4. Len(more) = i + 1 /\ Len(more) > i
    BY <1>3, <1>5, <2>2
  <2>5. Present(pg2, c)
    BY <1>1, <1>2 DEF Present
  <2> QED BY <1>2, <2>3, <2>4, <2>5 DEF Begins
<1>6. CASE Target[b].db # d
  <2>1. Grows(pg, pg2, b)
    BY <1>2, <1>6 DEF Grows, Present
  <2>2. Present(pg, b) => pg2[Target[b].db] = pg[Target[b].db]
    BY <1>2, <1>6 DEF Present
  <2> QED BY <1>5, <2>1, <2>2, GrowsKeeps
<1>7. CASE Target[b].db = d
  <2>1. Present(pg, b) /\ Present(pg2, b) /\ pg[Target[b].db] = history /\ pg2[Target[b].db] = more
    BY <1>1, <1>2, <1>7 DEF Present, history
  <2>2. (\E p \in DOMAIN history : history[p][1] = b) => history[1] = <<b, 0>>
    BY <2>1 DEF Creator
  <2>3. b = c => history[1] = <<b, 0>>
    <3>1. ASSUME b = c PROVE history[0 + 1] = <<b, 0>>
      BY <2>1, <3>1 DEF Begins
    <3> QED BY <3>1
  <2>4. more[1] = history[1]
    BY <1>3
  <2>5. ASSUME NEW p \in DOMAIN more, more[p][1] = b PROVE more[1] = <<b, 0>>
    <3>1. CASE p \in 1..Len(history)
      BY <1>3, <2>2, <2>4, <2>5, <3>1
    <3>2. CASE p = Len(history) + 1
      BY <1>3, <1>4, <2>3, <2>4, <2>5, <3>2
    <3> QED BY <1>3, <3>1, <3>2
  <2>6. Creator(pg2, b)
    BY <2>1, <2>5 DEF Creator
  <2>7. ASSUME NEW n \in Nat, Begins(pg, b, n) PROVE Begins(pg2, b, n)
    <3>1. Len(history) > n /\ \A k \in 0..n : history[k + 1] = <<b, k>>
      BY <2>1, <2>7 DEF Begins
    <3>2. \A k \in 0..n : k + 1 \in 1..Len(history)
      BY <1>3, <3>1
    <3>3. \A k \in 0..n : more[k + 1] = <<b, k>>
      BY <1>3, <3>1, <3>2
    <3>4. Len(more) > n
      BY <1>3, <3>1
    <3> QED BY <2>1, <3>3, <3>4 DEF Begins
  <2> QED BY <1>5, <1>7, <2>6, <2>7
<1> QED BY <1>6, <1>7

(* What a step of the bootstrap c may do: to its own database, by its own  *)
(* entry, and by what it leaves under way.                                 *)
Effect(c) ==
    /\ \A b \in Bootstraps : b # c =>
          phase'[b] = phase[b] /\ executed'[b] = executed[b] /\ failure'[b] = failure[b]
    /\ \/ UNCHANGED postgres
       \/ phase[c] = "create" /\ postgres' = WithDatabase(c)
       \/ phase[c] = "scripts" /\ postgres' = WithScript(c, executed[c] + 1)
    /\ \A o \in orphans' : o \in orphans \/ o \in UnderWay(c)
    /\ \A id \in DOMAIN registry' :
          \/ id \in DOMAIN registry /\ registry'[id] = registry[id]
          \/ phase[c] = "register" /\ registry'[id] = Entry(c, failure[c], executed[c])

LEMMA EffectOfStep ==
    ASSUME Ledger, phase \in [Bootstraps -> Phases], NEW c \in Bootstraps,
           Request(c) \/ Serve(c) \/ Drop(c)
    PROVE  Effect(c)
<1>0. executed \in [Bootstraps -> Nat] /\ failure \in [Bootstraps -> Failures]
  BY DEF Ledger
<1>1. CASE Request(c) \/ Lock(c) \/ Unregistered(c)
  BY <1>0, <1>1 DEF Request, Lock, Unregistered, Step, Goto, Effect
<1>2. CASE Conflict(c) \/ Drop(c)
  BY <1>0, <1>2 DEF Conflict, Drop, End, Goto, Effect
<1>3. CASE Exists(c) \/ Missing(c) \/ Connect(c) \/ ScriptsDone(c) \/ Introspect(c)
  BY <1>0, <1>3 DEF Exists, Missing, Connect, ScriptsDone, Introspect, Step, Goto, Effect
<1>4. CASE Create(c) \/ CreateFails(c)
  BY <1>0, <1>4 DEF Create, CreateFails, Fail, Step, Goto, Effect
<1>5. CASE Script(c) \/ ScriptFails(c)
  BY <1>0, <1>5 DEF Script, ScriptFails, Fail, Step, Goto, Effect
<1>6. CASE ConnectFails(c) \/ IntrospectFails(c)
  BY <1>0, <1>6 DEF ConnectFails, IntrospectFails, Fail, Goto, Effect
<1>7. CASE Register(c)
  BY <1>0, <1>7 DEF Register, End, Goto, Effect
<1> QED BY <1>1, <1>2, <1>3, <1>4, <1>5, <1>6, <1>7 DEF Serve

(* Nothing that happens to the databases takes a creator's mark or the     *)
(* beginning of a history away.                                            *)
LEMMA EveryoneGrows ==
    ASSUME Histories(postgres), FreshInv, NEW c \in Bootstraps, NEW i \in Nat,
           \/ UNCHANGED postgres
           \/ postgres' = WithDatabase(c)
           \/ /\ Present(postgres, c) /\ postgres' = WithScript(c, i)
              /\ Policy[c] = "fail" => Begins(postgres, c, 0),
           NEW b \in Bootstraps, Policy[b] = "fail"
    PROVE  Creator(postgres', b) /\ \A n \in Nat : Begins(postgres, b, n) => Begins(postgres', b, n)
<1>0. Creator(postgres, b)
  BY DEF FreshInv, Anew
<1>1. CASE UNCHANGED postgres
  BY <1>0, <1>1
<1>2. CASE postgres' = WithDatabase(c)
  <2>1. Creates(postgres, postgres', c)
    BY <1>2 DEF WithDatabase, Creates
  <2> QED BY <1>0, <2>1, CreatesGrows
<1>3. CASE /\ Present(postgres, c) /\ postgres' = WithScript(c, i)
           /\ Policy[c] = "fail" => Begins(postgres, c, 0)
  <2>1. Adds(postgres, postgres', c, i)
    BY <1>3 DEF WithScript, Adds
  <2>2. b = c => Begins(postgres, c, 0)
    BY <1>3
  <2>3. Present(postgres, c)
    BY <1>3
  <2> QED BY <1>0, <2>1, <2>2, <2>3, ScriptGrows
<1> QED BY <1>1, <1>2, <1>3

LEMMA EffectGrows ==
    ASSUME Ledger, FreshInv, NEW c \in Bootstraps, Effect(c), NEW b \in Bootstraps, Policy[b] = "fail"
    PROVE  Creator(postgres', b) /\ \A n \in Nat : Begins(postgres, b, n) => Begins(postgres', b, n)
<1>1. Progress(c) /\ Histories(postgres) /\ executed[c] \in Nat
  BY DEF Ledger
<1>2. phase[c] = "scripts" =>
         Present(postgres, c) /\ (Policy[c] = "fail" => Begins(postgres, c, executed[c]))
  BY <1>1 DEF Progress, FreshInv, Anew, Building, Filling
<1>3. Begins(postgres, c, executed[c]) => Begins(postgres, c, 0)
  BY <1>1 DEF Begins
<1> DEFINE i == executed[c] + 1
<1>4. i \in Nat
  BY <1>1
<1>5. \/ UNCHANGED postgres
      \/ postgres' = WithDatabase(c)
      \/ /\ Present(postgres, c) /\ postgres' = WithScript(c, i)
         /\ Policy[c] = "fail" => Begins(postgres, c, 0)
  BY <1>2, <1>3 DEF Effect
<1> HIDE DEF i
<1> QED BY <1>1, <1>4, <1>5, EveryoneGrows

(* What a step of c means for c itself: what it comes to is left to show.  *)
LEMMA SelfFresh ==
    ASSUME Ledger, FreshInv, NEW b \in Bootstraps, Policy[b] = "fail", Effect(b),
           Building(b)' => /\ Begins(postgres', b, executed'[b])
                           /\ Len(postgres'[Target[b].db]) = executed'[b] + 1
                           /\ Quiet(b)',
           phase'[b] = "register" /\ failure'[b] = "none" => executed'[b] = Scripts[b]
    PROVE  Anew(b)'
<1>1. Creator(postgres', b) /\ \A n \in Nat : Begins(postgres, b, n) => Begins(postgres', b, n)
  BY EffectGrows
<1>2. Anew(b) /\ Scripts[b] \in Nat /\ executed[b] \in Nat
  BY ManagerAssumption DEF FreshInv, Ledger
<1>3. ASSUME NEW o \in orphans', o.by = b, o.script > 0 PROVE Begins(postgres', b, 0)
  <2>1. CASE o \in orphans
    BY <1>1, <1>2, <1>3, <2>1 DEF Anew
  <2>2. CASE o \in UnderWay(b)
    <3>1. phase[b] = "scripts"
      BY <1>3, <2>2, UnderWayFacts
    <3>2. Begins(postgres, b, executed[b])
      BY <1>2, <3>1 DEF Anew, Building, Filling
    <3>3. Begins(postgres, b, 0)
      BY <1>2, <3>2 DEF Begins
    <3> QED BY <1>1, <3>3
  <2> QED BY <2>1, <2>2 DEF Effect
<1>4. ASSUME NEW id \in DOMAIN registry', registry'[id].by = b, registry'[id].failure = "none"
      PROVE  Begins(postgres', b, Scripts[b])
  <2>1. CASE id \in DOMAIN registry /\ registry'[id] = registry[id]
    BY <1>1, <1>2, <1>4, <2>1 DEF Anew
  <2>2. CASE phase[b] = "register" /\ registry'[id] = Entry(b, failure[b], executed[b])
    <3>1. failure[b] = "none"
      BY <1>4, <2>2 DEF Entry
    <3>2. Begins(postgres, b, Scripts[b])
      BY <1>2, <2>2, <3>1 DEF Anew, Building
    <3> QED BY <1>1, <1>2, <3>2
  <2> QED BY <2>1, <2>2 DEF Effect
<1> QED BY <1>1, <1>3, <1>4 DEF Anew

(* And for another: while b builds, c is outside the lock and does nothing *)
(* to databases, registry or orphans.                                      *)
LEMMA OtherFresh ==
    ASSUME IInv, Ledger, FreshInv, NEW b \in Bootstraps, Policy[b] = "fail",
           NEW c \in Bootstraps, c # b, Effect(c)
    PROVE  Anew(b)'
<1>1. Creator(postgres', b) /\ \A n \in Nat : Begins(postgres, b, n) => Begins(postgres', b, n)
  BY EffectGrows
<1>2. Anew(b) /\ Scripts[b] \in Nat
  BY ManagerAssumption DEF FreshInv
<1>3. phase'[b] = phase[b] /\ executed'[b] = executed[b] /\ failure'[b] = failure[b]
  BY DEF Effect
<1>4. Building(b)' = Building(b)
  BY <1>3 DEF Building
<1>5. ASSUME Building(b)
      PROVE  UNCHANGED postgres /\ \A o \in orphans' : o \in orphans
  <2>1. phase[b] \notin Outside
    BY <1>5 DEF Building, Filling, Outside
  <2>2. phase[c] \in Outside
    BY <2>1 DEF IInv, Held
  <2>3. ASSUME NEW o \in UnderWay(c) PROVE FALSE
    <3>1. phase[c] \in {"create", "scripts"}
      BY UnderWayFacts
    <3> QED BY <2>2, <3>1 DEF Outside
  <2> QED BY <2>2, <2>3 DEF Effect, Outside
<1>6. Building(b)' => /\ Begins(postgres', b, executed'[b])
                      /\ Len(postgres'[Target[b].db]) = executed'[b] + 1
                      /\ Quiet(b)'
  <2> SUFFICES ASSUME Building(b) PROVE /\ Begins(postgres', b, executed[b])
                                        /\ Len(postgres'[Target[b].db]) = executed[b] + 1
                                        /\ Quiet(b)'
    BY <1>3, <1>4
  <2>1. Begins(postgres, b, executed[b]) /\ Len(postgres[Target[b].db]) = executed[b] + 1 /\ Quiet(b)
    BY <1>2 DEF Anew
  <2> QED BY <1>5, <2>1 DEF Quiet
<1>7. ASSUME NEW o \in orphans', o.by = b, o.script > 0 PROVE Begins(postgres', b, 0)
  <2>1. o \in orphans
    BY <1>7, UnderWayFacts DEF Effect
  <2> QED BY <1>1, <1>2, <1>7, <2>1 DEF Anew
<1>8. ASSUME NEW id \in DOMAIN registry', registry'[id].by = b, registry'[id].failure = "none"
      PROVE  Begins(postgres', b, Scripts[b])
  <2>1. id \in DOMAIN registry /\ registry'[id] = registry[id]
    BY <1>8 DEF Effect, Entry
  <2> QED BY <1>1, <1>2, <1>8, <2>1 DEF Anew
<1>9. phase'[b] = "register" /\ failure'[b] = "none" => executed'[b] = Scripts[b]
  BY <1>2, <1>3 DEF Anew
<1> QED BY <1>1, <1>6, <1>7, <1>8, <1>9 DEF Anew

LEMMA InitFresh == Init => FreshInv
<1> SUFFICES ASSUME Init, NEW b \in Bootstraps, Policy[b] = "fail" PROVE Anew(b)
  BY DEF FreshInv
<1>1. /\ postgres = [db \in {DefaultDatabase} |-> <<<<None, 0>>>>]
      /\ phase[b] = "new" /\ orphans = {} /\ None \notin Bootstraps
  BY ManagerAssumption DEF Init
<1>2. Creator(postgres, b)
  <2>1. Present(postgres, b) => postgres[Target[b].db] = <<<<None, 0>>>>
    BY <1>1 DEF Present
  <2> QED BY <1>1, <2>1 DEF Creator
<1>3. \A id \in DOMAIN registry : registry[id].by # b
  BY <1>1 DEF Init, DefaultRegistry, DefaultEntry
<1> QED BY <1>1, <1>2, <1>3 DEF Anew, Building, Filling

(* The steps of b itself.  Only the creation lets it begin to build: there *)
(* was no database, so nothing was under way on it but creations.          *)
LEMMA OwnFresh ==
    ASSUME IInv, Ledger, FreshInv, NEW b \in Bootstraps, Policy[b] = "fail",
           Request(b) \/ Serve(b) \/ Drop(b)
    PROVE  Anew(b)'
<1>0. phase \in [Bootstraps -> Phases]
  BY DEF IInv
<1>1. Effect(b)
  BY <1>0, EffectOfStep
<1>2. Anew(b) /\ Progress(b) /\ Histories(postgres) /\ executed \in [Bootstraps -> Nat]
      /\ failure \in [Bootstraps -> Failures] /\ executed[b] \in Nat
  BY DEF FreshInv, Ledger
<1>3. CASE Request(b) \/ Lock(b) \/ Unregistered(b) \/ Missing(b) \/ Conflict(b) \/ Register(b) \/ Drop(b)
  <2>1. phase'[b] \in {"waiting", "check", "exists", "create", "done"}
    BY <1>0, <1>3 DEF Request, Lock, Unregistered, Missing, Conflict, Register, Drop, Step, End, Goto
  <2>2. ~Building(b)'
    BY <2>1 DEF Building, Filling
  <2> QED BY <1>1, <2>1, <2>2, SelfFresh
<1>4. CASE CreateFails(b) \/ ConnectFails(b) \/ ScriptFails(b) \/ IntrospectFails(b)
  <2>1. phase'[b] = "register" /\ failure'[b] # "none"
    BY <1>0, <1>2, <1>4 DEF CreateFails, ConnectFails, ScriptFails, IntrospectFails, Fail, Goto
  <2>2. ~Building(b)'
    BY <2>1 DEF Building, Filling
  <2> QED BY <1>1, <2>1, <2>2, SelfFresh
<1>5. CASE Exists(b)
  BY <1>5 DEF Exists, Reuses
<1>6. CASE Create(b)
  <2>1. /\ phase[b] = "create" /\ phase' = [phase EXCEPT ![b] = "connect"]
        /\ postgres' = WithDatabase(b) /\ ~Present(postgres, b)
        /\ UNCHANGED <<orphans, executed>>
    BY <1>6 DEF Create, Step, Goto, Present
  <2>2. executed'[b] = 0 /\ phase'[b] = "connect"
    BY <1>0, <1>2, <2>1 DEF Progress, Early
  <2>3. Begins(postgres', b, 0) /\ Len(postgres'[Target[b].db]) = 1
    <3>1. Creates(postgres, postgres', b)
      BY <2>1 DEF WithDatabase, Creates
    <3>2. Creator(postgres, b)
      BY <1>2 DEF Anew
    <3> QED BY <1>2, <2>1, <3>1, <3>2, CreatesGrows
  <2>4. ASSUME NEW o \in orphans, Target[o.by].db = Target[b].db PROVE o.script = 0
    <3>1. LeftOver(o) /\ o.script \in Nat
      BY DEF Ledger
    <3> QED BY <2>1, <2>4, <3>1 DEF LeftOver, Present
  <2>5. Quiet(b)'
    BY <2>1, <2>4 DEF Quiet
  <2>6. phase'[b] # "register" /\ executed'[b] + 1 = 1 /\ Begins(postgres', b, executed'[b])
    BY <2>2, <2>3
  <2> QED BY <1>1, <2>3, <2>5, <2>6, SelfFresh
<1>7. CASE Connect(b) \/ ScriptsDone(b) \/ Introspect(b)
  <2>1. /\ Building(b) /\ UNCHANGED <<postgres, orphans, executed>>
        /\ phase'[b] = "register" => executed[b] = Scripts[b]
    BY <1>0, <1>2, <1>7 DEF Connect, ScriptsDone, Introspect, Step, Goto, Building, Filling, Progress
  <2>2. Begins(postgres', b, executed'[b]) /\ Len(postgres'[Target[b].db]) = executed'[b] + 1
    BY <1>2, <2>1 DEF Anew
  <2>3. Quiet(b)'
    BY <1>2, <2>1 DEF Anew, Quiet
  <2> QED BY <1>1, <2>1, <2>2, <2>3, SelfFresh
<1>8. CASE Script(b)
  <2> DEFINE n == executed[b]
             i == n + 1
  <2>1. /\ Building(b) /\ phase'[b] = "scripts" /\ phase[b] = "scripts"
        /\ postgres' = WithScript(b, i) /\ UNCHANGED orphans
        /\ executed'[b] = i /\ i \in Nat /\ n \in Nat
    BY <1>0, <1>2, <1>8 DEF Script, Step, Goto, Building, Filling
  <2>2. Present(postgres, b)
    BY <1>2, <2>1 DEF Progress, Filling
  <2>3. Begins(postgres, b, n) /\ Len(postgres[Target[b].db]) = n + 1 /\ Quiet(b)
        /\ Creator(postgres, b)
    BY <1>2, <2>1 DEF Anew
  <2>4. Begins(postgres, b, 0)
    BY <2>1, <2>3 DEF Begins
  <2>5. Adds(postgres, postgres', b, i)
    BY <2>1 DEF WithScript, Adds
  <2>6. i = n + 1
    OBVIOUS
  <2> HIDE DEF i, n
  <2>7. Begins(postgres', b, i) /\ Len(postgres'[Target[b].db]) = i + 1
    BY <1>2, <2>1, <2>2, <2>3, <2>4, <2>5, <2>6, ScriptGrows
  <2>8. Quiet(b)'
    BY <2>1, <2>3 DEF Quiet
  <2> QED BY <1>1, <2>1, <2>7, <2>8, SelfFresh
<1> QED BY <1>3, <1>4, <1>5, <1>6, <1>7, <1>8 DEF Serve

(* What was left under way is carried out: not on a database that is being *)
(* built anew, where only a creation can still be, which does nothing.     *)
LEMMA OrphanFresh ==
    ASSUME Ledger, FreshInv, NEW o \in orphans, OrphanRuns(o) \/ OrphanDies(o),
           NEW b \in Bootstraps, Policy[b] = "fail"
    PROVE  Anew(b)'
<1> DEFINE c == o.by
           i == o.script
<1>1. c \in Bootstraps /\ i \in Nat /\ Histories(postgres) /\ Anew(b) /\ Scripts[b] \in Nat
      /\ executed[b] \in Nat
  BY ManagerAssumption DEF Ledger, FreshInv
<1>2. i > 0 => Present(postgres, c) /\ (Policy[c] = "fail" => Begins(postgres, c, 0))
  BY <1>1 DEF Ledger, LeftOver, FreshInv, Anew
<1>3. /\ orphans' \subseteq orphans /\ UNCHANGED <<registry, phase, executed, failure>>
      /\ \/ UNCHANGED postgres
         \/ i = 0 /\ postgres' = WithDatabase(c)
         \/ i > 0 /\ postgres' = WithScript(c, i)
  BY <1>1 DEF OrphanRuns, OrphanDies, serverVars
<1>4. Quiet(b) => i = 0 \/ Target[c].db # Target[b].db
  BY DEF Quiet
<1> HIDE DEF c, i
<1>5. Creator(postgres', b) /\ \A n \in Nat : Begins(postgres, b, n) => Begins(postgres', b, n)
  BY <1>1, <1>2, <1>3, EveryoneGrows
<1>6. ASSUME Quiet(b), Present(postgres, b)
      PROVE  postgres'[Target[b].db] = postgres[Target[b].db]
  <2>1. CASE i = 0 /\ postgres' = WithDatabase(c)
    BY <1>6, <2>1 DEF WithDatabase, Present
  <2>2. CASE i > 0 /\ postgres' = WithScript(c, i)
    BY <1>1, <1>4, <1>6, <2>2 DEF WithScript, Present, Histories
  <2> QED BY <1>3, <2>1, <2>2
<1>7. Building(b)' = Building(b)
  BY <1>3 DEF Building
<1>8. Building(b)' => /\ Begins(postgres', b, executed'[b])
                      /\ Len(postgres'[Target[b].db]) = executed'[b] + 1
                      /\ Quiet(b)'
  <2> SUFFICES ASSUME Building(b) PROVE /\ Begins(postgres', b, executed[b])
                                        /\ Len(postgres'[Target[b].db]) = executed[b] + 1
                                        /\ Quiet(b)'
    BY <1>3, <1>7
  <2>1. Begins(postgres, b, executed[b]) /\ Len(postgres[Target[b].db]) = executed[b] + 1 /\ Quiet(b)
    BY <1>1 DEF Anew
  <2>2. Present(postgres, b)
    BY <2>1 DEF Begins
  <2>3. Quiet(b)'
    BY <1>3, <2>1 DEF Quiet
  <2> QED BY <1>1, <1>5, <1>6, <2>1, <2>2, <2>3
<1>9. \A other \in orphans' : other.by = b /\ other.script > 0 => Begins(postgres', b, 0)
  BY <1>1, <1>3, <1>5 DEF Anew
<1>10. \A id \in DOMAIN registry' :
          registry'[id].by = b /\ registry'[id].failure = "none" => Begins(postgres', b, Scripts[b])
  BY <1>1, <1>3, <1>5 DEF Anew
<1>11. phase'[b] = "register" /\ failure'[b] = "none" => executed'[b] = Scripts[b]
  BY <1>1, <1>3 DEF Anew
<1> QED BY <1>5, <1>8, <1>9, <1>10, <1>11 DEF Anew

LEMMA RestartFresh ==
    ASSUME Ledger, FreshInv, Restart, NEW b \in Bootstraps, Policy[b] = "fail"
    PROVE  Anew(b)'
<1>1. Anew(b) /\ executed[b] \in Nat /\ None \notin Bootstraps
  BY ManagerAssumption DEF FreshInv, Ledger
<1>2. /\ postgres' = postgres /\ registry' = DefaultRegistry
      /\ phase'[b] \in {"new", "done"}
      /\ \A o \in orphans' : o \in orphans \/ \E c \in Bootstraps : o \in UnderWay(c)
  BY DEF Restart
<1>3. ASSUME NEW o \in orphans', o.by = b, o.script > 0 PROVE Begins(postgres', b, 0)
  <2>1. CASE o \in orphans
    BY <1>1, <1>2, <1>3, <2>1 DEF Anew
  <2>2. ASSUME NEW c \in Bootstraps, o \in UnderWay(c) PROVE Begins(postgres', b, 0)
    <3>1. c = b /\ phase[c] = "scripts"
      BY <1>3, <2>2, UnderWayFacts
    <3>2. Begins(postgres, b, executed[b])
      BY <1>1, <3>1 DEF Anew, Building, Filling
    <3> QED BY <1>1, <1>2, <3>2 DEF Begins
  <2> QED BY <1>2, <2>1, <2>2
<1>4. \A id \in DOMAIN registry' : registry'[id].by # b
  BY <1>1, <1>2 DEF DefaultRegistry, DefaultEntry
<1>5. Creator(postgres', b)
  BY <1>1, <1>2 DEF Anew
<1> QED BY <1>2, <1>3, <1>4, <1>5 DEF Anew, Building, Filling

LEMMA NextFresh == IInv /\ Ledger /\ FreshInv /\ [Next]_vars => FreshInv'
<1> SUFFICES ASSUME IInv, Ledger, FreshInv, [Next]_vars, NEW b \in Bootstraps, Policy[b] = "fail"
             PROVE  Anew(b)'
  BY DEF FreshInv
<1>0. phase \in [Bootstraps -> Phases]
  BY DEF IInv
<1>1. ASSUME NEW c \in Bootstraps, Request(c) \/ Serve(c) \/ Drop(c) PROVE Anew(b)'
  <2>1. CASE c = b
    BY <1>1, <2>1, OwnFresh
  <2>2. CASE c # b
    <3>1. Effect(c)
      BY <1>0, <1>1, EffectOfStep
    <3> QED BY <2>2, <3>1, OtherFresh
  <2> QED BY <2>1, <2>2
<1>2. CASE Restart
  BY <1>2, RestartFresh
<1>3. ASSUME NEW o \in orphans, OrphanRuns(o) \/ OrphanDies(o) PROVE Anew(b)'
  BY <1>3, OrphanFresh
<1>4. CASE UNCHANGED vars
  <2>1. Anew(b) /\ UNCHANGED <<postgres, phase, failure, executed, orphans, registry>>
    BY <1>4 DEF FreshInv, vars, serverVars
  <2> QED BY <2>1 DEF Anew, Building, Quiet
<1> QED BY <1>1, <1>2, <1>3, <1>4 DEF Next

(* Whatever is asked and dropped when, a bootstrap that has come past its  *)
(* look at the registry finds its id free to the end: register is never    *)
(* refused.                                                                *)
THEOREM RegisterNeverConflicts == Spec => []NobodyRegistersTwice
<1>1. IInv => NobodyRegistersTwice
  BY DEF IInv
<1> QED BY <1>1, InvariantHolds, PTL

(* What an admin was told about a bootstrap stays the registry's entry for *)
(* as long as the server runs.                                             *)
THEOREM AnswersStayRegistered == Spec => []AnsweredIsRegistered
<1>1. IInv => AnsweredIsRegistered
  BY DEF IInv
<1> QED BY <1>1, InvariantHolds, PTL

-----------------------------------------------------------------------------
(* An entry tells what was done to its database: all scripts if it says    *)
(* ready, those it counts if it says failed, with only the one that failed *)
(* in doubt; each once and in order, restarts, dropped requests and what   *)
(* PostgreSQL does after them included.                                    *)
THEOREM EntriesTellWhatRan == Spec => []EntryTellsWhatRan
<1>1. ASSUME Ledger PROVE EntryTellsWhatRan
  <2> SUFFICES ASSUME NEW id \in DOMAIN registry \ {DefaultId}
               PROVE  LET e == registry[id]
                      IN  IF e.failure = "none" \/ e.failure = "introspect_schema"
                          THEN e.db \in DOMAIN postgres /\ Ran(postgres[e.db], e.by, Scripts[e.by])
                          ELSE e.db \in DOMAIN postgres =>
                                  \/ Ran(postgres[e.db], e.by, e.executed)
                                  \/ /\ e.failure = "execute_script"
                                     /\ Ran(postgres[e.db], e.by, e.executed + 1)
    BY DEF EntryTellsWhatRan
  <2>1. Recorded(id)
    BY <1>1 DEF Ledger
  <2> QED BY <2>1 DEF Recorded, Told, Did, Present, Failures
<1> QED BY <1>1, InitIInv, NextIInv, InitLedger, NextLedger, PTL DEF Spec

(* Under the policy `fail' scripts only run in a database of one's own     *)
(* making, and one that is ready begins with its creation and its scripts. *)
THEOREM FailPolicyBuilds == Spec => []FailPolicyBuildsAnew
<1>1. ASSUME FreshInv, Ledger PROVE FailPolicyBuildsAnew
  <2> SUFFICES ASSUME NEW b \in Bootstraps, Policy[b] = "fail", Target[b].db \in DOMAIN postgres
               PROVE  LET history == postgres[Target[b].db]
                      IN  /\ (\E n \in DOMAIN history : history[n][1] = b) => history[1] = <<b, 0>>
                          /\ (\E id \in DOMAIN registry : registry[id].by = b /\ registry[id].failure = "none")
                                => Len(history) > Scripts[b]
                                   /\ \A n \in 0..Scripts[b] : history[n + 1] = <<b, n>>
    BY DEF FailPolicyBuildsAnew
  <2>1. Anew(b)
    BY <1>1 DEF FreshInv
  <2> QED BY <2>1 DEF Anew, Creator, Begins, Present
<1> QED
  BY <1>1, InitIInv, NextIInv, InitLedger, NextLedger, InitFresh, NextFresh, PTL DEF Spec
=============================================================================
