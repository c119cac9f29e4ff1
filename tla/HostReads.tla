----------------------------- MODULE HostReads -----------------------------
(***************************************************************************)
(* The host's two reads, the list of a table and the Runtime metadata,     *)
(* while commands change the rows and the operator changes the access      *)
(* file.  A read takes its rows and its view of the access file at         *)
(* different moments, works on both as they were, and looks at the live    *)
(* authority again before it answers.  One table is modelled.              *)
(***************************************************************************)
EXTENDS HostAuthority

CONSTANTS
    Readers,              \* request handlers
    Records, States, Commands, From,
    Owner,                \* the owner field of each record
    ReadRoles, WriteRoles,
    MaxRevision,          \* bound on the commands of others
    None

ASSUME ReadsAssumption ==
    /\ Owner \in [Records -> Actors]
    /\ ReadRoles \subseteq Roles /\ WriteRoles \subseteq Roles
    /\ From \in [Commands -> States]
    /\ MaxRevision \in Nat \ {0}
    /\ None \notin AccessFacts

VARIABLES
    rev, rows,    \* the application: its revision and the state of each record
    phase,        \* of each handler
    actor, kind,  \* its request
    snapshot,     \* revision and rows it has read
    frozen,       \* the access facts of its actor it has read
    context,      \* what it resolved from them
    out,          \* what it is going to disclose
    looked        \* history: the live facts its last looks passed with

dataVars == <<rev, rows>>
readerVars == <<phase, actor, kind, snapshot, frozen, context, out, looked>>
vars == <<authorityVars, dataVars, readerVars>>

Init ==
    /\ AuthorityInit
    /\ rev = 1
    /\ rows \in [Records -> States]
    /\ phase = [h \in Readers |-> "idle"]
    /\ actor = [h \in Readers |-> None]
    /\ kind = [h \in Readers |-> None]
    /\ snapshot = [h \in Readers |-> None]
    /\ frozen = [h \in Readers |-> None]
    /\ context = [h \in Readers |-> None]
    /\ out = [h \in Readers |-> None]
    /\ looked = [h \in Readers |-> [read |-> None, write |-> None]]

Goto(h, p) == phase' = [phase EXCEPT ![h] = p]

Denied(h) ==
    /\ Goto(h, "denied")
    /\ out' = [out EXCEPT ![h] = None]

-----------------------------------------------------------------------------
(* The request.                                                            *)

Arrive(h, a, k) ==
    /\ phase[h] = "idle"
    /\ actor' = [actor EXCEPT ![h] = a]
    /\ kind' = [kind EXCEPT ![h] = k]
    /\ Goto(h, IF Resolves(a, NoOrigin, "Read") THEN "store" ELSE "denied")
    /\ UNCHANGED <<authorityVars, dataVars, snapshot, frozen, context, out, looked>>

(* Store::snapshot: revision and rows of one SELECT.                       *)
ReadStore(h) ==
    /\ phase[h] = "store"
    /\ snapshot' = [snapshot EXCEPT ![h] = [rev |-> rev, rows |-> rows]]
    /\ Goto(h, IF kind[h] = "metadata" THEN "again" ELSE "freeze")
    /\ UNCHANGED <<authorityVars, dataVars, actor, kind, frozen, context, out, looked>>

(* runtime_metadata authorizes once more after the snapshot.               *)
AuthorizeAgain(h) ==
    /\ phase[h] = "again"
    /\ Goto(h, IF Resolves(actor[h], NoOrigin, "Read") THEN "freeze" ELSE "denied")
    /\ UNCHANGED <<authorityVars, dataVars, actor, kind, snapshot, frozen, context, out, looked>>

(* snapshot_for_operation: one read of the access file for what follows.   *)
Freeze(h) ==
    /\ phase[h] = "freeze"
    /\ frozen' = [frozen EXCEPT ![h] = access[actor[h]]]
    /\ Goto(h, "project")
    /\ UNCHANGED <<authorityVars, dataVars, actor, kind, snapshot, context, out, looked>>

FrozenGrants(h, grant) == Established(frozen[h]) /\ grant \in frozen[h].grants

Allowed(c, roles) == {rec \in Records : Owner[rec] = c.actor \/ c.roles \cap roles # {}}

(* available_command_records, over the frozen facts and the snapshot.      *)
Eligible(h, c) ==
    IF FrozenGrants(h, "Write")
    THEN {offer \in Commands \X (Allowed(c, ReadRoles) \cap Allowed(c, WriteRoles)) :
             snapshot[h].rows[offer[2]] = From[offer[1]]}
    ELSE {}

FrozenContext(h) ==
    [actor |-> actor[h], roles |-> frozen[h].roles, mrev |-> frozen[h].mrev,
     binding |-> frozen[h].binding]

Project(h) ==
    /\ phase[h] = "project"
    /\ IF FrozenGrants(h, "Read")
       THEN LET c == FrozenContext(h)
            IN  /\ context' = [context EXCEPT ![h] = c]
                /\ out' = [out EXCEPT ![h] =
                      [rev |-> snapshot[h].rev,
                       rows |-> Allowed(c, ReadRoles),
                       commands |-> IF kind[h] = "metadata" THEN Eligible(h, c) ELSE {}]]
                /\ Goto(h, "compare")
       ELSE Denied(h) /\ UNCHANGED context
    /\ UNCHANGED <<authorityVars, dataVars, actor, kind, snapshot, frozen, looked>>

Look(h, grant) == looked' = [looked EXCEPT ![h][grant] = access[actor[h]]]

(* Mutant: the grant is looked at again, the context is not compared.      *)
SameContext_GrantOnly(h, grant) == Resolves(actor[h], NoOrigin, grant)

SameContext(h, grant) ==
    Resolves(actor[h], NoOrigin, grant) /\ ContextOf(actor[h]) = context[h]

(* The live authority once more, for the Read grant.                       *)
Compare(h) ==
    /\ phase[h] = "compare"
    /\ IF SameContext(h, "Read")
       THEN /\ Goto(h, IF out[h].commands = {} THEN "answered" ELSE "write")
            /\ Look(h, "read")
            /\ UNCHANGED out
       ELSE Denied(h) /\ UNCHANGED looked
    /\ UNCHANGED <<authorityVars, dataVars, actor, kind, snapshot, frozen, context>>

MissingWrite(h) == Established(access[actor[h]]) /\ "Write" \notin access[actor[h]].grants

(* Mutant: the commands are what the frozen facts say.                     *)
CompareWrite_Trusts(h) ==
    /\ phase[h] = "write"
    /\ Goto(h, "answered")
    /\ UNCHANGED out
    /\ UNCHANGED <<authorityVars, dataVars, actor, kind, snapshot, frozen, context, looked>>

(* And for Write, if there are commands to offer: without it, none.        *)
CompareWrite(h) ==
    /\ phase[h] = "write"
    /\ \/ /\ SameContext(h, "Write")
          /\ Goto(h, "answered")
          /\ Look(h, "write")
          /\ UNCHANGED out
       \/ /\ MissingWrite(h)
          /\ Goto(h, "answered")
          /\ out' = [out EXCEPT ![h].commands = {}]
          /\ UNCHANGED looked
       \/ /\ ~SameContext(h, "Write") /\ ~MissingWrite(h)
          /\ Denied(h)
          /\ UNCHANGED looked
    /\ UNCHANGED <<authorityVars, dataVars, actor, kind, snapshot, frozen, context>>

-----------------------------------------------------------------------------
(* What changes meanwhile.                                                 *)

ChangeRow(rec, state) ==
    /\ rev < MaxRevision
    /\ rows[rec] # state
    /\ rows' = [rows EXCEPT ![rec] = state]
    /\ rev' = rev + 1
    /\ UNCHANGED <<authorityVars, readerVars>>

PublishAccess == Publish /\ UNCHANGED <<dataVars, readerVars>>

(* The clock is live even where the file is frozen.                        *)
SessionExpires(a) ==
    /\ Expire(a)
    /\ frozen' = [h \in Readers |->
          IF actor[h] = a /\ frozen[h] # None /\ frozen[h].session = "live"
          THEN [frozen[h] EXCEPT !.session = "expired"] ELSE frozen[h]]
    /\ UNCHANGED <<dataVars, phase, actor, kind, snapshot, context, out, looked>>

Read(h) ==
    \/ \E a \in Actors, k \in {"list", "metadata"} : Arrive(h, a, k)
    \/ ReadStore(h) \/ AuthorizeAgain(h) \/ Freeze(h) \/ Project(h)
    \/ Compare(h) \/ CompareWrite(h)

Next ==
    \/ \E h \in Readers : Read(h)
    \/ \E rec \in Records, state \in States : ChangeRow(rec, state)
    \/ PublishAccess
    \/ \E a \in Actors : SessionExpires(a)

Spec == Init /\ [][Next]_vars

-----------------------------------------------------------------------------
(* Properties.                                                             *)

Snapshots == [rev : 1..MaxRevision, rows : [Records -> States]]
Answers == [rev : 1..MaxRevision, rows : SUBSET Records, commands : SUBSET (Commands \X Records)]
Looks == AccessFacts \cup {None}

(* Every variable keeps its type, and a refused read has no output.        *)
TypeOK ==
    /\ rev \in 1..MaxRevision /\ rows \in [Records -> States]
    /\ phase \in [Readers -> {"idle", "store", "again", "freeze", "project",
                              "compare", "write", "answered", "denied"}]
    /\ actor \in [Readers -> Actors \cup {None}]
    /\ \A h \in Readers :
          /\ kind[h] \in {"list", "metadata", None}
          /\ snapshot[h] \in Snapshots \cup {None}
          /\ frozen[h] \in Looks
          /\ context[h] \in Contexts \cup {None}
          /\ out[h] \in Answers \cup {None}
          /\ looked[h] \in [read : Looks, write : Looks]
          /\ phase[h] = "denied" => out[h] = None

Answered(h) == phase[h] = "answered"

Sees(f, a, rec) ==
    Established(f) /\ "Read" \in f.grants /\ (Owner[rec] = a \/ f.roles \cap ReadRoles # {})

Writes(f, a, rec) ==
    Established(f) /\ "Write" \in f.grants /\ (Owner[rec] = a \/ f.roles \cap WriteRoles # {})

(* "A cached context is not current authorization" (policy.rs:194): the    *)
(* rows an answer discloses are exactly those its actor could see by the   *)
(* access facts of the last look, taken after they were computed, though   *)
(* they were computed from an older reading of the file.                   *)
DisclosesWhatIsVisible ==
    \A h \in Readers : Answered(h) =>
        out[h].rows = {rec \in Records : Sees(looked[h].read, actor[h], rec)}

(* Every command an answer offers is for a row it may disclose, and its    *)
(* actor could run it by the facts of the very last look.                  *)
OffersWhatIsAllowed ==
    \A h \in Readers : Answered(h) =>
        \A offer \in out[h].commands :
            /\ offer[2] \in out[h].rows
            /\ looked[h].write # None
            /\ Writes(looked[h].write, actor[h], offer[2])
=============================================================================
