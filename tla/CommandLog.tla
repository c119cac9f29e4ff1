----------------------------- MODULE CommandLog -----------------------------
(***************************************************************************)
(* What the store promises a client of one application: a log of commands, *)
(* each applied once, whole and in revision order.  No handlers, no        *)
(* transactions, no authority: those are how CommandStore keeps it.        *)
(***************************************************************************)
EXTENDS Naturals

CONSTANTS
    Pks,                       \* (actor, key) pairs
    Intents,                   \* command, record, input and expected revision
    Records, From, To, Terminal, Guard, CheckedVals, NoInput, BootFacts

VARIABLES
    rev,     \* the application's revision, 0 before bootstrap
    facts,   \* its rows
    log      \* log[n]: the command that produced revision n

logVars == <<rev, facts, log>>

LogInit ==
    /\ rev = 0
    /\ facts = [rec \in {} |-> rec]
    /\ log = [n \in {} |-> n]

Create ==
    /\ rev = 0
    /\ rev' = 1
    /\ facts' \in BootFacts
    /\ UNCHANGED log

Changed(row, intent) ==
    [state |-> To[intent.cmd],
     val   |-> IF intent.input = NoInput THEN row.val ELSE intent.input]

(* The transition is declared and not out of a terminal state, the guards  *)
(* hold of the row as it was and the constraints of the row as it will be. *)
Legal(row, intent) ==
    /\ row.state = From[intent.cmd]
    /\ row.state \notin Terminal
    /\ row.val \in Guard[intent.cmd]
    /\ Changed(row, intent).val \in CheckedVals

Apply(pk, intent) ==
    /\ rev # 0
    /\ intent.expected = rev
    /\ \A n \in DOMAIN log : log[n].pk # pk
    /\ Legal(facts[intent.rec], intent)
    /\ rev' = rev + 1
    /\ facts' = [facts EXCEPT ![intent.rec] = Changed(@, intent)]
    /\ log' = [n \in DOMAIN log \cup {rev + 1} |->
                 IF n = rev + 1 THEN [pk |-> pk, intent |-> intent] ELSE log[n]]

LogNext == Create \/ \E pk \in Pks, intent \in Intents : Apply(pk, intent)

LogSpec == LogInit /\ [][LogNext]_logVars
==============================================================================
