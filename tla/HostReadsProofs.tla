-------------------------- MODULE HostReadsProofs --------------------------
(***************************************************************************)
(* The host's reads, for any actors, access files, readers and rows: what  *)
(* is disclosed and offered is what the live authority allows at the last  *)
(* look.                                                                   *)
(***************************************************************************)
EXTENDS HostReads, TLAPS

Phases == {"idle", "store", "again", "freeze", "project",
           "compare", "write", "answered", "denied"}

Shared ==
    /\ access \in [Actors -> AccessFacts]
    /\ rev \in 1..MaxRevision /\ rows \in [Records -> States]
    /\ phase \in [Readers -> Phases]
    /\ actor \in [Readers -> Actors \cup {None}]
    /\ DOMAIN kind = Readers /\ DOMAIN snapshot = Readers /\ DOMAIN frozen = Readers
    /\ DOMAIN context = Readers /\ DOMAIN out = Readers /\ DOMAIN looked = Readers

(* What was computed from the frozen facts and is not compared yet: the    *)
(* rows and the offers are those of the context.                           *)
Computed(h) ==
    /\ context[h] \in Contexts /\ context[h].actor = actor[h]
    /\ out[h] \in Answers /\ out[h].rows = Allowed(context[h], ReadRoles)
    /\ \A offer \in out[h].commands :
          offer[2] \in Allowed(context[h], ReadRoles) \cap Allowed(context[h], WriteRoles)

(* The look for the Read grant was passed with the facts it remembers.     *)
Shown(h) ==
    /\ out[h] \in Answers
    /\ out[h].rows = {rec \in Records : Sees(looked[h].read, actor[h], rec)}

Offered(h) ==
    \A offer \in out[h].commands :
        /\ offer[2] \in out[h].rows
        /\ looked[h].write # None
        /\ Writes(looked[h].write, actor[h], offer[2])

(* What a reader has by the time it is in a phase.                         *)
ReaderOK(h) ==
    /\ kind[h] \in {"list", "metadata", None}
    /\ snapshot[h] \in Snapshots \cup {None}
    /\ frozen[h] \in Looks
    /\ context[h] \in Contexts \cup {None}
    /\ out[h] \in Answers \cup {None}
    /\ looked[h] \in [read : Looks, write : Looks]
    /\ phase[h] # "idle" => actor[h] \in Actors
    /\ phase[h] \in {"idle", "store", "again", "freeze", "project", "denied"} => out[h] = None
    /\ phase[h] \in {"again", "freeze", "project"} => snapshot[h] \in Snapshots
    /\ phase[h] = "project" => frozen[h] \in AccessFacts
    /\ phase[h] \in {"compare", "write"} => Computed(h)
    /\ phase[h] \in {"write", "answered"} => Shown(h)
    /\ phase[h] = "answered" => Offered(h)

IInv == Shared /\ \A h \in Readers : ReaderOK(h)

ReaderState(h) ==
    <<phase[h], actor[h], kind[h], snapshot[h], frozen[h], context[h], out[h], looked[h]>>

LEMMA InitIInv == Init => IInv
<1> SUFFICES ASSUME Init PROVE IInv
  OBVIOUS
<1>1. Shared
  BY AuthorityAssumption, ReadsAssumption DEF Init, AuthorityInit, Shared, Phases
<1>2. ASSUME NEW h \in Readers PROVE ReaderOK(h)
  BY DEF Init, ReaderOK, Looks
<1> QED BY <1>1, <1>2 DEF IInv

(* A reader nobody touches keeps what it has.                              *)
LEMMA Untouched ==
    ASSUME NEW h \in Readers, ReaderOK(h), UNCHANGED ReaderState(h)
    PROVE  ReaderOK(h)'
BY DEF ReaderState, ReaderOK, Computed, Shown, Offered, Allowed, Sees, Writes, Answers,
       Snapshots, Looks

(* A step of one reader.                                                   *)
LEMMA OneReader ==
    ASSUME IInv, NEW h \in Readers, Shared', ReaderOK(h)',
           \A g \in Readers \ {h} : UNCHANGED ReaderState(g)
    PROVE  IInv'
BY Untouched DEF IInv

(* The access facts an actor has are of their type, and a context that     *)
(* still resolves says what the live facts say.                            *)
LEMMA SameFacts ==
    ASSUME Shared, NEW h \in Readers, NEW grant, actor[h] \in Actors, SameContext(h, grant)
    PROVE  /\ access[actor[h]] \in AccessFacts /\ access[actor[h]] # None
           /\ Established(access[actor[h]]) /\ grant \in access[actor[h]].grants
           /\ context[h].roles = access[actor[h]].roles
<1>1. access[actor[h]] \in AccessFacts
  BY DEF Shared
<1>2. access[actor[h]] # None
  BY <1>1, ReadsAssumption
<1>3. Established(access[actor[h]]) /\ grant \in access[actor[h]].grants
  BY DEF SameContext, Resolves
<1>4. context[h].roles = access[actor[h]].roles
  BY DEF SameContext, ContextOf
<1> QED BY <1>1, <1>2, <1>3, <1>4

LEMMA ArriveStep ==
    ASSUME IInv, NEW h \in Readers, NEW a \in Actors, NEW k \in {"list", "metadata"},
           Arrive(h, a, k)
    PROVE  IInv'
<1>1. Shared'
  BY DEF IInv, Shared, Arrive, Goto, authorityVars, dataVars, Phases
<1>2. ReaderOK(h)'
  BY DEF IInv, Shared, ReaderOK, Arrive, Goto, authorityVars, dataVars
<1>3. \A g \in Readers \ {h} : UNCHANGED ReaderState(g)
  BY DEF IInv, Shared, Arrive, Goto, ReaderState
<1> QED BY <1>1, <1>2, <1>3, OneReader

LEMMA ReadStoreStep ==
    ASSUME IInv, NEW h \in Readers, ReadStore(h)
    PROVE  IInv'
<1>1. Shared'
  BY DEF IInv, Shared, ReadStore, Goto, authorityVars, dataVars, Phases
<1>2. ReaderOK(h)'
  BY DEF IInv, Shared, ReaderOK, ReadStore, Goto, Snapshots
<1>3. \A g \in Readers \ {h} : UNCHANGED ReaderState(g)
  BY DEF IInv, Shared, ReadStore, Goto, ReaderState
<1> QED BY <1>1, <1>2, <1>3, OneReader

LEMMA AuthorizeAgainStep ==
    ASSUME IInv, NEW h \in Readers, AuthorizeAgain(h)
    PROVE  IInv'
<1>1. Shared'
  BY DEF IInv, Shared, AuthorizeAgain, Goto, authorityVars, dataVars, Phases
<1>2. ReaderOK(h)'
  BY DEF IInv, Shared, ReaderOK, AuthorizeAgain, Goto
<1>3. \A g \in Readers \ {h} : UNCHANGED ReaderState(g)
  BY DEF IInv, Shared, AuthorizeAgain, Goto, ReaderState
<1> QED BY <1>1, <1>2, <1>3, OneReader

LEMMA FreezeStep ==
    ASSUME IInv, NEW h \in Readers, Freeze(h)
    PROVE  IInv'
<1>1. Shared'
  BY DEF IInv, Shared, Freeze, Goto, authorityVars, dataVars, Phases
<1>2. ReaderOK(h)'
  BY DEF IInv, Shared, ReaderOK, Freeze, Goto, Looks
<1>3. \A g \in Readers \ {h} : UNCHANGED ReaderState(g)
  BY DEF IInv, Shared, Freeze, Goto, ReaderState
<1> QED BY <1>1, <1>2, <1>3, OneReader

(* What the frozen facts and the snapshot give.                            *)
LEMMA ProjectComputes ==
    ASSUME NEW h \in Readers, actor[h] \in Actors, frozen[h] \in AccessFacts,
           snapshot[h] \in Snapshots
    PROVE  LET c == FrozenContext(h)
               answer == [rev |-> snapshot[h].rev, rows |-> Allowed(c, ReadRoles),
                          commands |-> IF kind[h] = "metadata" THEN Eligible(h, c) ELSE {}]
           IN  /\ c \in Contexts /\ c.actor = actor[h]
               /\ answer \in Answers
               /\ \A offer \in answer.commands :
                     offer[2] \in Allowed(c, ReadRoles) \cap Allowed(c, WriteRoles)
<1> DEFINE c == FrozenContext(h)
           both == Allowed(c, ReadRoles) \cap Allowed(c, WriteRoles)
           offers == IF kind[h] = "metadata" THEN Eligible(h, c) ELSE {}
<1>1. c \in Contexts /\ c.actor = actor[h]
  BY DEF FrozenContext, Contexts, AccessFacts
<1>2. Allowed(c, ReadRoles) \in SUBSET Records
  BY DEF Allowed
<1>3. \A offer \in Eligible(h, c) : offer \in Commands \X both
  BY DEF Eligible
<1>4. \A offer \in offers : offer \in Commands \X both
  BY <1>3
<1>5. offers \in SUBSET (Commands \X Records)
  BY <1>2, <1>4
<1>6. snapshot[h].rev \in 1..MaxRevision
  BY DEF Snapshots
<1>7. \A offer \in offers : offer[2] \in both
  BY <1>4
<1>8. [rev |-> snapshot[h].rev, rows |-> Allowed(c, ReadRoles), commands |-> offers] \in Answers
  BY <1>2, <1>5, <1>6 DEF Answers
<1> QED BY <1>1, <1>7, <1>8

LEMMA ProjectStep ==
    ASSUME IInv, NEW h \in Readers, Project(h)
    PROVE  IInv'
<1> DEFINE c == FrozenContext(h)
           answer == [rev |-> snapshot[h].rev, rows |-> Allowed(c, ReadRoles),
                      commands |-> IF kind[h] = "metadata" THEN Eligible(h, c) ELSE {}]
<1>0. /\ ReaderOK(h) /\ Shared /\ phase[h] = "project" /\ actor[h] \in Actors
      /\ frozen[h] \in AccessFacts /\ snapshot[h] \in Snapshots
  BY DEF IInv, ReaderOK, Project
<1>1. UNCHANGED <<access, rev, rows, actor, kind, snapshot, frozen, looked>>
  BY DEF Project, authorityVars, dataVars
<1>2. /\ c \in Contexts /\ c.actor = actor[h] /\ answer \in Answers
      /\ \A offer \in answer.commands :
            offer[2] \in Allowed(c, ReadRoles) \cap Allowed(c, WriteRoles)
  BY <1>0, ProjectComputes
<1> HIDE DEF c
<1>3. \/ /\ context' = [context EXCEPT ![h] = c]
         /\ out' = [out EXCEPT ![h] = answer]
         /\ phase' = [phase EXCEPT ![h] = "compare"]
      \/ /\ UNCHANGED context
         /\ out' = [out EXCEPT ![h] = None]
         /\ phase' = [phase EXCEPT ![h] = "denied"]
  BY DEF Project, Goto, Denied, c
<1>4. answer.rows = Allowed(c, ReadRoles)
  OBVIOUS
<1> HIDE DEF answer
<1>5. Shared'
  BY <1>0, <1>1, <1>3 DEF Shared, Phases
<1>6. ReaderOK(h)'
  <2>1. CASE phase' = [phase EXCEPT ![h] = "denied"]
    <3>1. phase'[h] = "denied" /\ out'[h] = None /\ context'[h] = context[h]
      BY <2>1, <1>0, <1>3 DEF Shared
    <3> QED BY <3>1, <1>0, <1>1 DEF ReaderOK
  <2>2. CASE phase' # [phase EXCEPT ![h] = "denied"]
    <3>1. phase'[h] = "compare" /\ out'[h] = answer /\ context'[h] = c
      BY <2>2, <1>0, <1>3 DEF Shared
    <3>2. Computed(h)'
      BY <3>1, <1>1, <1>2, <1>4 DEF Computed, Allowed
    <3> QED BY <3>1, <3>2, <1>0, <1>1, <1>2 DEF ReaderOK
  <2> QED BY <2>1, <2>2
<1>7. \A g \in Readers \ {h} : UNCHANGED ReaderState(g)
  BY <1>0, <1>1, <1>3 DEF Shared, ReaderState
<1> QED BY <1>5, <1>6, <1>7, OneReader

(* Compare: the rows are those of the context, and the live facts have the *)
(* roles of the context.                                                   *)
LEMMA ReadLook ==
    ASSUME Shared, NEW h \in Readers, actor[h] \in Actors, Computed(h), SameContext(h, "Read")
    PROVE  out[h].rows = {rec \in Records : Sees(access[actor[h]], actor[h], rec)}
<1>1. /\ Established(access[actor[h]]) /\ "Read" \in access[actor[h]].grants
      /\ context[h].roles = access[actor[h]].roles
  BY SameFacts
<1> QED BY <1>1 DEF Computed, Allowed, Sees

LEMMA CompareStep ==
    ASSUME IInv, NEW h \in Readers, Compare(h)
    PROVE  IInv'
<1> DEFINE f == access[actor[h]]
<1>0. /\ ReaderOK(h) /\ Shared /\ phase[h] = "compare" /\ actor[h] \in Actors /\ Computed(h)
      /\ looked[h] \in [read : Looks, write : Looks]
  BY DEF IInv, ReaderOK, Compare
<1>1. UNCHANGED <<access, rev, rows, actor, kind, snapshot, frozen, context>>
  BY DEF Compare, authorityVars, dataVars
<1>2. CASE SameContext(h, "Read")
  <2>1. /\ phase' = [phase EXCEPT ![h] = IF out[h].commands = {} THEN "answered" ELSE "write"]
        /\ looked' = [looked EXCEPT ![h]["read"] = f] /\ UNCHANGED out
    BY <1>2 DEF Compare, Goto, Look
  <2>2. f \in AccessFacts
    BY <1>0, <1>2, SameFacts
  <2>3. out[h].rows = {rec \in Records : Sees(f, actor[h], rec)}
    BY <1>0, <1>2, ReadLook
  <2> HIDE DEF f
  <2>4. looked'[h].read = f /\ looked'[h] \in [read : Looks, write : Looks]
    BY <1>0, <2>1, <2>2 DEF Shared, Looks
  <2>5. Shown(h)' /\ Computed(h)'
    BY <1>0, <1>1, <2>1, <2>3, <2>4 DEF Shown, Computed, Sees, Allowed
  <2>6. phase'[h] = "answered" => out'[h].commands = {}
    BY <1>0, <2>1 DEF Shared
  <2>7. phase'[h] \in {"answered", "write"}
    BY <1>0, <2>1 DEF Shared
  <2>8. ReaderOK(h)'
    BY <1>0, <1>1, <2>1, <2>4, <2>5, <2>6, <2>7 DEF ReaderOK, Offered
  <2>9. Shared'
    BY <1>0, <1>1, <2>1 DEF Shared, Phases
  <2>10. \A g \in Readers \ {h} : UNCHANGED ReaderState(g)
    BY <1>0, <1>1, <2>1 DEF Shared, ReaderState
  <2> QED BY <2>8, <2>9, <2>10, OneReader
<1>3. CASE ~SameContext(h, "Read")
  <2>1. /\ phase' = [phase EXCEPT ![h] = "denied"] /\ out' = [out EXCEPT ![h] = None]
        /\ UNCHANGED looked
    BY <1>3 DEF Compare, Denied, Goto
  <2>2. ReaderOK(h)'
    BY <1>0, <1>1, <2>1 DEF Shared, ReaderOK
  <2>3. Shared'
    BY <1>0, <1>1, <2>1 DEF Shared, Phases
  <2>4. \A g \in Readers \ {h} : UNCHANGED ReaderState(g)
    BY <1>0, <1>1, <2>1 DEF Shared, ReaderState
  <2> QED BY <2>2, <2>3, <2>4, OneReader
<1> QED BY <1>2, <1>3

(* The look for the Write grant: each offer is of a row the context may    *)
(* write, and the live facts have its roles and the grant.                 *)
LEMMA WriteLook ==
    ASSUME Shared, NEW h \in Readers, actor[h] \in Actors, Computed(h), SameContext(h, "Write")
    PROVE  \A offer \in out[h].commands :
              /\ offer[2] \in out[h].rows
              /\ Writes(access[actor[h]], actor[h], offer[2])
<1>1. /\ Established(access[actor[h]]) /\ "Write" \in access[actor[h]].grants
      /\ context[h].roles = access[actor[h]].roles
  BY SameFacts
<1> QED BY <1>1 DEF Computed, Allowed, Writes

LEMMA CompareWriteStep ==
    ASSUME IInv, NEW h \in Readers, CompareWrite(h)
    PROVE  IInv'
<1> DEFINE f == access[actor[h]]
<1>0. /\ ReaderOK(h) /\ Shared /\ phase[h] = "write" /\ actor[h] \in Actors
      /\ Computed(h) /\ Shown(h) /\ looked[h] \in [read : Looks, write : Looks]
  BY DEF IInv, ReaderOK, CompareWrite
<1>1. UNCHANGED <<access, rev, rows, actor, kind, snapshot, frozen, context>>
  BY DEF CompareWrite, authorityVars, dataVars
<1>2. CASE /\ SameContext(h, "Write") /\ Goto(h, "answered") /\ Look(h, "write") /\ UNCHANGED out
  <2>1. /\ phase' = [phase EXCEPT ![h] = "answered"]
        /\ looked' = [looked EXCEPT ![h]["write"] = f]
    BY <1>2 DEF Goto, Look
  <2>2. f \in AccessFacts /\ f # None
    BY <1>0, <1>2, SameFacts
  <2>3. \A offer \in out[h].commands : offer[2] \in out[h].rows /\ Writes(f, actor[h], offer[2])
    BY <1>0, <1>2, WriteLook
  <2> HIDE DEF f
  <2>4. /\ looked'[h].write = f /\ looked'[h].read = looked[h].read
        /\ looked'[h] \in [read : Looks, write : Looks]
    BY <1>0, <2>1, <2>2 DEF Shared, Looks
  <2>5. Shown(h)' /\ Offered(h)'
    BY <1>0, <1>1, <1>2, <2>2, <2>3, <2>4 DEF Shown, Offered, Sees, Writes
  <2>6. ReaderOK(h)'
    BY <1>0, <1>1, <1>2, <2>1, <2>4, <2>5 DEF Shared, ReaderOK
  <2>7. Shared'
    BY <1>0, <1>1, <1>2, <2>1 DEF Shared, Phases
  <2>8. \A g \in Readers \ {h} : UNCHANGED ReaderState(g)
    BY <1>0, <1>1, <1>2, <2>1 DEF Shared, ReaderState
  <2> QED BY <2>6, <2>7, <2>8, OneReader
<1>3. CASE /\ Goto(h, "answered") /\ out' = [out EXCEPT ![h].commands = {}] /\ UNCHANGED looked
  <2>1. phase' = [phase EXCEPT ![h] = "answered"]
    BY <1>3 DEF Goto
  <2>2. /\ out'[h] = [out[h] EXCEPT !.commands = {}] /\ out'[h] \in Answers
        /\ out'[h].rows = out[h].rows /\ out'[h].commands = {}
    BY <1>0, <1>3 DEF Shared, Shown, Answers
  <2>3. Shown(h)' /\ Offered(h)'
    BY <1>0, <1>1, <1>3, <2>2 DEF Shown, Offered, Sees
  <2>4. ReaderOK(h)'
    BY <1>0, <1>1, <1>3, <2>1, <2>2, <2>3 DEF Shared, ReaderOK
  <2>5. Shared'
    BY <1>0, <1>1, <1>3, <2>1 DEF Shared, Phases
  <2>6. \A g \in Readers \ {h} : UNCHANGED ReaderState(g)
    BY <1>0, <1>1, <1>3, <2>1 DEF Shared, ReaderState
  <2> QED BY <2>4, <2>5, <2>6, OneReader
<1>4. CASE Denied(h) /\ UNCHANGED looked
  <2>1. phase' = [phase EXCEPT ![h] = "denied"] /\ out' = [out EXCEPT ![h] = None]
    BY <1>4 DEF Denied, Goto
  <2>2. ReaderOK(h)'
    BY <1>0, <1>1, <1>4, <2>1 DEF Shared, ReaderOK
  <2>3. Shared'
    BY <1>0, <1>1, <1>4, <2>1 DEF Shared, Phases
  <2>4. \A g \in Readers \ {h} : UNCHANGED ReaderState(g)
    BY <1>0, <1>1, <1>4, <2>1 DEF Shared, ReaderState
  <2> QED BY <2>2, <2>3, <2>4, OneReader
<1> QED BY <1>2, <1>3, <1>4 DEF CompareWrite

(* What others do reaches a reader only through the live authority, the    *)
(* rows, and the expiry of its session in the facts it has frozen.         *)
LEMMA EnvironmentStep ==
    ASSUME IInv,
           \/ \E rec \in Records, state \in States : ChangeRow(rec, state)
           \/ PublishAccess
           \/ \E a \in Actors : SessionExpires(a)
    PROVE  IInv'
<1>1. ASSUME NEW rec \in Records, NEW state \in States, ChangeRow(rec, state) PROVE IInv'
  <2>1. Shared'
    BY <1>1, ReadsAssumption DEF IInv, Shared, ChangeRow, authorityVars, readerVars
  <2>2. \A g \in Readers : UNCHANGED ReaderState(g)
    BY <1>1 DEF ChangeRow, readerVars, ReaderState
  <2> QED BY <2>1, <2>2, Untouched DEF IInv
<1>2. CASE PublishAccess
  <2>1. Shared'
    BY <1>2, AuthorityAssumption DEF IInv, Shared, PublishAccess, Publish, dataVars, readerVars
  <2>2. \A g \in Readers : UNCHANGED ReaderState(g)
    BY <1>2 DEF PublishAccess, readerVars, ReaderState
  <2> QED BY <2>1, <2>2, Untouched DEF IInv
<1>3. ASSUME NEW a \in Actors, SessionExpires(a) PROVE IInv'
  <2>0. Shared /\ access' = [access EXCEPT ![a].session = "expired"]
    BY <1>3 DEF IInv, SessionExpires, Expire
  <2>1. \A f \in AccessFacts : [f EXCEPT !.session = "expired"] \in AccessFacts
    BY DEF AccessFacts
  <2>2. access' \in [Actors -> AccessFacts]
    BY <2>0, <2>1 DEF Shared
  <2>3. Shared'
    BY <1>3, <2>2 DEF IInv, Shared, SessionExpires, dataVars
  <2>4. ASSUME NEW g \in Readers PROVE ReaderOK(g)'
    <3>1. UNCHANGED <<phase, actor, kind, snapshot, context, out, looked>>
      BY <1>3 DEF SessionExpires
    <3>2. /\ frozen[g] \in AccessFacts => frozen'[g] \in AccessFacts
          /\ frozen'[g] \in Looks
      BY <1>3, <2>1 DEF SessionExpires, IInv, ReaderOK, Looks
    <3> QED
      BY <3>1, <3>2 DEF IInv, ReaderOK, Computed, Shown, Offered, Allowed, Sees, Writes
  <2> QED BY <2>3, <2>4 DEF IInv
<1> QED BY <1>1, <1>2, <1>3

LEMMA NextIInv == IInv /\ [Next]_vars => IInv'
<1> SUFFICES ASSUME IInv, [Next]_vars PROVE IInv'
  OBVIOUS
<1>1. ASSUME NEW h \in Readers, Read(h) PROVE IInv'
  BY <1>1, ArriveStep, ReadStoreStep, AuthorizeAgainStep, FreezeStep, ProjectStep,
     CompareStep, CompareWriteStep DEF Read
<1>2. CASE UNCHANGED vars
  <2>1. Shared'
    BY <1>2 DEF vars, authorityVars, dataVars, readerVars, IInv, Shared
  <2>2. \A g \in Readers : UNCHANGED ReaderState(g)
    BY <1>2 DEF vars, readerVars, ReaderState
  <2> QED BY <2>1, <2>2, Untouched DEF IInv
<1> QED BY <1>1, <1>2, EnvironmentStep DEF Next

LEMMA InvariantHolds == Spec => []IInv
BY InitIInv, NextIInv, PTL DEF Spec

(* Every variable has its type, and a refused read has nothing to disclose *)
(* (ApiFailure::denied).                                                   *)
THEOREM ReadsTyped == Spec => []TypeOK
<1>1. IInv => TypeOK
  BY DEF IInv, Shared, ReaderOK, TypeOK, Phases
<1> QED BY <1>1, InvariantHolds, PTL

(* What a list or the metadata discloses is exactly what its actor could   *)
(* see at the last look at the live authority.                             *)
THEOREM DisclosureIsCurrent == Spec => []DisclosesWhatIsVisible
<1>1. IInv => DisclosesWhatIsVisible
  BY DEF IInv, ReaderOK, Shown, DisclosesWhatIsVisible, Answered
<1> QED BY <1>1, InvariantHolds, PTL

(* The commands the metadata offers could be run at the very last look, on *)
(* rows that it discloses.                                                 *)
THEOREM OffersAreCurrent == Spec => []OffersWhatIsAllowed
<1>1. IInv => OffersWhatIsAllowed
  BY DEF IInv, ReaderOK, Offered, OffersWhatIsAllowed, Answered
<1> QED BY <1>1, InvariantHolds, PTL
=============================================================================
