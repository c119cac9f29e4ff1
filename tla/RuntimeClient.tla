--------------------------- MODULE RuntimeClient ---------------------------
(***************************************************************************)
(* One window of the browser Runtime against one host.  The host keeps the *)
(* promise of CommandLog; between the two is HTTP: a request may be lost,  *)
(* may outlive the client's wait for it, and its answer may come too late. *)
(* Other clients of the host change the application meanwhile.             *)
(*                                                                         *)
(* A task is the coroutine spawned for a button; between Ask and Resume it *)
(* is suspended in runtimeHttp.  A task remembers the generation it was    *)
(* spawned in, which is current until the next invalidate(): stale says    *)
(* that one has happened since.                                            *)
(***************************************************************************)
EXTENDS CommandLog, FiniteSets

CONSTANTS
    States, Vals,   \* of the records
    Actors,         \* who a credential stands for
    NoCredential,   \* the credential field is empty
    Keys,           \* request keys this window may draw
    OtherPks,       \* what everybody else may send
    Tasks,          \* names of coroutines, reused once nothing of them is left
    None

VARIABLES
    credential, metadata, list, attempt, receipt, busy,
    tasks,          \* the suspended coroutines
    network,        \* their requests, until the host has answered or they are lost
    drawn,          \* request keys drawn so far
    acknowledged,   \* keys whose receipt was shown
    refused         \* keys whose attempt was given up on a refusal

view == <<credential, metadata, list, receipt>>
keyVars == <<drawn, acknowledged, refused>>
windowVars == <<credential, metadata, list, attempt, receipt, busy, tasks, keyVars>>
vars == <<logVars, windowVars, network>>

Rows == [state : States, val : Vals]
Attempts == [key : Keys, intent : Intents, uncertain : BOOLEAN]
Credentials == Actors \cup {NoCredential}
Requests ==
    [kind : {"send", "recover", "metadata", "list"},
     actor : Credentials, attempt : Attempts \cup {None}]
Metadata == [actor : Credentials, facts : [Records -> Rows]]

(* Request keys are random: nobody else draws one of this window's.        *)
ASSUME RuntimeAssumption ==
    /\ NoCredential \notin Actors
    /\ None \notin Attempts \cup Metadata
    /\ \A pk \in OtherPks : pk[2] \notin Keys
    /\ Pks = (Actors \X Keys) \cup OtherPks
    /\ CheckedVals \subseteq Vals
    /\ BootFacts \subseteq [Records -> Rows]
    /\ \A intent \in Intents :
          intent.rec \in Records /\ To[intent.cmd] \in States /\ intent.expected \in Nat

(* What one HTTP answer amounts to for the client.  Unknown stands for an  *)
(* aborted or failed fetch, an undecodable body, a receipt of another      *)
(* request and the host's internal error, which dispatch treats alike;     *)
(* Refused for conflict, validation and unsupported.                       *)
Ok(value) == [is |-> "ok", value |-> value]
Failure(code) == [is |-> code, value |-> None]
Waiting == Failure("waiting")
Unknown == Failure("unknown")
Denied == Failure("denied")
Refused == Failure("refused")
NotFound == Failure("not_found")

Load(kind, actor) == [kind |-> kind, actor |-> actor, attempt |-> None]

(* A name is free when neither the coroutine nor a request of it remains.  *)
Free(t) == t \notin DOMAIN tasks \cup DOMAIN network

Put(f, t, v) == [s \in DOMAIN f \cup {t} |-> IF s = t THEN v ELSE f[s]]
Drop(f, t) == [s \in DOMAIN f \ {t} |-> f[s]]

Ask(ts, t, request) ==
    /\ tasks' = Put(ts, t, [request |-> request, stale |-> FALSE, reply |-> Waiting])
    /\ network' = Put(network, t, request)

Init ==
    /\ rev = 1 /\ facts \in BootFacts /\ log = [n \in {} |-> n]
    /\ credential = NoCredential
    /\ metadata = None /\ list = None /\ attempt = None /\ receipt = None
    /\ busy = FALSE
    /\ tasks = [t \in {} |-> t]
    /\ network = [t \in {} |-> t]
    /\ drawn = {} /\ acknowledged = {} /\ refused = {}

-----------------------------------------------------------------------------
(* The window's buttons and fields.                                        *)

(* Mutants of Aborted and Invalidate: the generation is not advanced; the  *)
(* metadata stays.                                                         *)
Aborted_SameGeneration ==
    [t \in DOMAIN tasks |->
        [tasks[t] EXCEPT !.reply = IF @ = Waiting THEN Unknown ELSE @]]

Invalidate_KeepsMetadata ==
    /\ list' = None /\ receipt' = None
    /\ attempt' = IF attempt = None THEN None ELSE [attempt EXCEPT !.uncertain = TRUE]
    /\ UNCHANGED metadata

(* runtimeAbortAll rejects every fetch that is still waiting.              *)
Aborted ==
    [t \in DOMAIN tasks |->
        [tasks[t] EXCEPT !.stale = TRUE, !.reply = IF @ = Waiting THEN Unknown ELSE @]]

Invalidate ==
    /\ metadata' = None
    /\ list' = None
    /\ receipt' = None
    /\ attempt' = IF attempt = None THEN None ELSE [attempt EXCEPT !.uncertain = TRUE]

(* Typing a credential, or anything that ends with the same one, and the   *)
(* disconnect button.                                                      *)
EditCredential(c) ==
    /\ credential' = c
    /\ Invalidate
    /\ busy' = FALSE
    /\ tasks' = Aborted
    /\ UNCHANGED <<logVars, network, keyVars>>

Connect(t) ==
    /\ ~busy
    /\ credential # NoCredential
    /\ Free(t)
    /\ Invalidate
    /\ busy' = TRUE
    /\ Ask(Aborted, t, Load("metadata", credential))
    /\ UNCHANGED <<logVars, credential, keyVars>>

(* locked: what the refresh, table and command controls are disabled by.   *)
Unlocked == ~busy /\ attempt = None /\ metadata # None /\ credential # NoCredential

Refresh(t) ==
    /\ Unlocked
    /\ Free(t)
    /\ metadata' = None
    /\ list' = None
    /\ busy' = TRUE
    /\ Ask(tasks, t, Load("metadata", credential))
    /\ UNCHANGED <<logVars, credential, attempt, receipt, keyVars>>

SelectTable(t) ==
    /\ Unlocked
    /\ Free(t)
    /\ list' = None
    /\ busy' = TRUE
    /\ Ask(tasks, t, Load("list", credential))
    /\ UNCHANGED <<logVars, credential, metadata, attempt, receipt, keyVars>>

(* The commands the form offers are those the metadata calls eligible.     *)
Offered(intent) ==
    LET row == metadata.facts[intent.rec]
    IN  /\ row.state = From[intent.cmd]
        /\ row.state \notin Terminal
        /\ row.val \in Guard[intent.cmd]

Dispatch(t, a, kind) ==
    /\ ~busy
    /\ Free(t)
    /\ busy' = TRUE
    /\ Ask(tasks, t, [kind |-> kind, actor |-> credential, attempt |-> a])

Submit(t, key, intent) ==
    /\ Unlocked
    /\ list # None
    /\ intent.expected = list.rev
    /\ Offered(intent)
    /\ key \notin drawn
    /\ drawn' = drawn \cup {key}
    /\ attempt' = [key |-> key, intent |-> intent, uncertain |-> FALSE]
    /\ receipt' = None
    /\ Dispatch(t, attempt', "send")
    /\ UNCHANGED <<logVars, credential, metadata, list, acknowledged, refused>>

(* Mutant: the request is made anew for the revision now on the screen.    *)
Again_CurrentRevision(t, kind) ==
    /\ attempt # None
    /\ Dispatch(t, IF list = None THEN attempt
                   ELSE [attempt EXCEPT !.intent.expected = list.rev], kind)
    /\ UNCHANGED <<logVars, view, attempt, keyVars>>

(* The two buttons shown for a pending attempt: the same request again, or *)
(* only its receipt, with whatever credential the field holds now.         *)
Again(t, kind) ==
    /\ attempt # None
    /\ Dispatch(t, attempt, kind)
    /\ UNCHANGED <<logVars, view, attempt, keyVars>>

Retry(t) == Again(t, "send")
Recover(t) == Again(t, "recover")

-----------------------------------------------------------------------------
(* The coroutines.                                                         *)

(* The 10 second timer of runtimeHttp, or a transport that fails earlier.  *)
Timeout(t) ==
    /\ t \in DOMAIN tasks
    /\ tasks[t].reply = Waiting
    /\ tasks' = [tasks EXCEPT ![t].reply = Unknown]
    /\ UNCHANGED <<logVars, view, attempt, busy, network, keyVars>>

Answered(t, kinds) ==
    /\ t \in DOMAIN tasks
    /\ tasks[t].reply # Waiting
    /\ tasks[t].request.kind \in kinds

(* Mutant: no generation check.                                            *)
Current_Always(t) == TRUE

Current(t) == ~tasks[t].stale

(* The generation has moved on: the answer is ignored.                     *)
ResumeStale(t) ==
    /\ Answered(t, {"send", "recover", "metadata", "list"})
    /\ ~Current(t)
    /\ tasks' = Drop(tasks, t)
    /\ UNCHANGED <<logVars, view, attempt, busy, network, keyVars>>

(* finish_receipt: show it, forget the attempt, load the application anew. *)
ResumeReceipt(t) ==
    /\ Answered(t, {"send", "recover"})
    /\ Current(t)
    /\ tasks[t].reply.is = "ok"
    /\ receipt' = tasks[t].reply.value
    /\ attempt' = None
    /\ acknowledged' = acknowledged \cup {tasks[t].request.attempt.key}
    /\ Ask(tasks, t, Load("metadata", tasks[t].request.actor))
    /\ UNCHANGED <<logVars, credential, metadata, list, busy, drawn, refused>>

Done(t) ==
    /\ busy' = FALSE
    /\ tasks' = Drop(tasks, t)
    /\ UNCHANGED <<logVars, credential, network, drawn>>

(* The notice NoReceipt: the attempt stays as it is.                       *)
ResumeNoReceipt(t) ==
    /\ Answered(t, {"recover"})
    /\ Current(t)
    /\ tasks[t].reply = NotFound
    /\ Done(t)
    /\ UNCHANGED <<metadata, list, attempt, receipt, acknowledged, refused>>

ResumeUnknown(t) ==
    /\ Answered(t, {"send", "recover"})
    /\ Current(t)
    /\ tasks[t].reply = Unknown
    /\ attempt' = [tasks[t].request.attempt EXCEPT !.uncertain = TRUE]
    /\ Done(t)
    /\ UNCHANGED <<metadata, list, receipt, acknowledged, refused>>

(* Mutant: an error leaves the buttons locked.                             *)
ShowFailure_StaysBusy(t) ==
    /\ IF tasks[t].reply = Denied
       THEN metadata' = None /\ list' = None /\ receipt' = None
       ELSE UNCHANGED <<metadata, list, receipt>>
    /\ tasks' = Drop(tasks, t)
    /\ UNCHANGED <<logVars, credential, network, drawn, busy>>

(* show_failure: a denial takes what was read off the screen.              *)
ShowFailure(t) ==
    /\ IF tasks[t].reply = Denied
       THEN metadata' = None /\ list' = None /\ receipt' = None
       ELSE UNCHANGED <<metadata, list, receipt>>
    /\ Done(t)

(* Mutant: a refusal of a retry gives the request up as well.              *)
GivesUp_AnySending(request) == request.kind = "send"

(* The host refused: only the first sending of a request may be given up.  *)
GivesUp(request) == request.kind = "send" /\ ~request.attempt.uncertain

ResumeRefused(t) ==
    /\ Answered(t, {"send", "recover"})
    /\ Current(t)
    /\ tasks[t].reply \in {Denied, Refused}
    /\ IF GivesUp(tasks[t].request)
       THEN attempt' = None /\ refused' = refused \cup {tasks[t].request.attempt.key}
       ELSE UNCHANGED <<attempt, refused>>
    /\ ShowFailure(t)
    /\ UNCHANGED acknowledged

(* load_application: the metadata, then in the same coroutine the list.    *)
ResumeMetadata(t) ==
    /\ Answered(t, {"metadata"})
    /\ Current(t)
    /\ tasks[t].reply.is = "ok"
    /\ metadata' = tasks[t].reply.value
    /\ Ask(tasks, t, Load("list", tasks[t].request.actor))
    /\ UNCHANGED <<logVars, credential, list, attempt, receipt, busy, keyVars>>

ResumeList(t) ==
    /\ Answered(t, {"list"})
    /\ Current(t)
    /\ tasks[t].reply.is = "ok"
    /\ list' = tasks[t].reply.value
    /\ Done(t)
    /\ UNCHANGED <<metadata, attempt, receipt, acknowledged, refused>>

ResumeLoadFailed(t) ==
    /\ Answered(t, {"metadata", "list"})
    /\ Current(t)
    /\ tasks[t].reply \in {Unknown, Denied}
    /\ ShowFailure(t)
    /\ UNCHANGED <<attempt, acknowledged, refused>>

Resume(t) ==
    \/ ResumeStale(t)
    \/ ResumeReceipt(t)
    \/ ResumeNoReceipt(t)
    \/ ResumeUnknown(t)
    \/ ResumeRefused(t)
    \/ ResumeMetadata(t)
    \/ ResumeList(t)
    \/ ResumeLoadFailed(t)

-----------------------------------------------------------------------------
(* The host and the rest of the world.                                     *)

Arrived(t, kinds) == t \in DOMAIN network /\ network[t].kind \in kinds

(* The answer reaches the coroutine only if it still waits for it.         *)
Reply(t, reply) ==
    /\ network' = Drop(network, t)
    /\ tasks' = IF t \in DOMAIN tasks /\ tasks[t].reply = Waiting
                THEN [tasks EXCEPT ![t].reply = reply] ELSE tasks
    /\ UNCHANGED <<view, attempt, busy, keyVars>>

Lose(t) ==
    /\ t \in DOMAIN network
    /\ network' = Drop(network, t)
    /\ UNCHANGED <<logVars, windowVars>>

(* Authority is the host's affair and may change at any time.              *)
HostDenies(t) ==
    /\ t \in DOMAIN network
    /\ Reply(t, Denied)
    /\ UNCHANGED logVars

HostFails(t) ==
    /\ t \in DOMAIN network
    /\ Reply(t, Unknown)
    /\ UNCHANGED logVars

Committed(pk) == {n \in DOMAIN log : log[n].pk = pk}

ReceiptOf(pk, n) == [pk |-> pk, rev |-> n]

PkOf(request) == <<request.actor, request.attempt.key>>

(* The commit, acknowledged or of unknown outcome to the host itself.      *)
HostCommits(t) ==
    /\ Arrived(t, {"send"})
    /\ network[t].actor \in Actors
    /\ LET pk == PkOf(network[t])
       IN  /\ Apply(pk, network[t].attempt.intent)
           /\ Reply(t, Ok(ReceiptOf(pk, rev'))) \/ Reply(t, Unknown)

(* A replay of a command, or the receipt asked for.                        *)
HostReplays(t) ==
    /\ Arrived(t, {"send", "recover"})
    /\ \E n \in Committed(PkOf(network[t])) : Reply(t, Ok(ReceiptOf(PkOf(network[t]), n)))
    /\ UNCHANGED logVars

HostRefuses(t) ==
    /\ Arrived(t, {"send"})
    /\ network[t].actor \in Actors
    /\ Committed(PkOf(network[t])) = {}
    /\ LET intent == network[t].attempt.intent
       IN  intent.expected # rev \/ ~Legal(facts[intent.rec], intent)
    /\ Reply(t, Refused)
    /\ UNCHANGED logVars

HostHasNoReceipt(t) ==
    /\ Arrived(t, {"recover"})
    /\ network[t].actor \in Actors
    /\ Committed(PkOf(network[t])) = {}
    /\ Reply(t, NotFound)
    /\ UNCHANGED logVars

HostDescribes(t) ==
    /\ Arrived(t, {"metadata"})
    /\ Reply(t, Ok([actor |-> network[t].actor, facts |-> facts]))
    /\ UNCHANGED logVars

HostLists(t) ==
    /\ Arrived(t, {"list"})
    /\ Reply(t, Ok([actor |-> network[t].actor, rev |-> rev]))
    /\ UNCHANGED logVars

OtherClient(pk, intent) ==
    /\ Apply(pk, intent)
    /\ UNCHANGED <<windowVars, network>>

Host(t) ==
    \/ HostDenies(t) \/ HostFails(t)
    \/ HostCommits(t) \/ HostReplays(t) \/ HostRefuses(t) \/ HostHasNoReceipt(t)
    \/ HostDescribes(t) \/ HostLists(t)

Window(t) ==
    \/ Connect(t) \/ Refresh(t) \/ SelectTable(t)
    \/ \E key \in Keys, intent \in Intents : Submit(t, key, intent)
    \/ Retry(t) \/ Recover(t)

Next ==
    \/ \E c \in Credentials : EditCredential(c)
    \/ \E t \in Tasks : Window(t) \/ Timeout(t) \/ Resume(t) \/ Host(t) \/ Lose(t)
    \/ \E pk \in OtherPks, intent \in Intents : OtherClient(pk, intent)

Spec == Init /\ [][Next]_vars

(* The timer fires and the event loop polls what is ready; nothing is      *)
(* assumed of the host, the network or the user.                           *)
FairSpec == Spec /\ \A t \in Tasks : WF_vars(Timeout(t)) /\ WF_vars(Resume(t))
-----------------------------------------------------------------------------
(* Properties.                                                             *)

(* busy is raised and cleared in a dozen places: it is up exactly while    *)
(* one coroutine whose answer still counts is suspended, never two.        *)
BusyIsOneCurrentTask ==
    Cardinality({t \in DOMAIN tasks : Current(t)}) = IF busy THEN 1 ELSE 0

CommittedKey(key) == \E n \in DOMAIN log : log[n].pk[2] = key

Travelling(key) ==
    \E t \in DOMAIN network : network[t].kind = "send" /\ network[t].attempt.key = key

(* No request is forgotten while it may still take effect: it is held, or  *)
(* its receipt was shown, or it was refused, has no effect and no copy of  *)
(* it is under way to have one later.                                      *)
NothingForgotten ==
    \A key \in drawn :
        \/ attempt # None /\ attempt.key = key
        \/ key \in acknowledged /\ CommittedKey(key)
        \/ key \in refused /\ ~CommittedKey(key) /\ ~Travelling(key)

(* However often a request is sent, and under whichever credentials, it    *)
(* takes effect at most once: under another actor its key is free again,   *)
(* and only the revision it was made for stands in the way.                *)
AtMostOnce ==
    \A m, n \in DOMAIN log :
        log[m].pk[2] \in Keys /\ log[m].pk[2] = log[n].pk[2] => m = n

(* "A visible success requires a matching server receipt" (README.md:133): *)
(* the revision shown is that of a command committed for who is signed in. *)
ReceiptIsTrue ==
    receipt # None =>
        /\ log[receipt.rev].pk = receipt.pk
        /\ receipt.pk[1] = credential
        /\ receipt.pk[2] \in acknowledged

(* What is shown was read with the credential the window now holds: an     *)
(* answer that was under way when the credential changed is not shown.     *)
NothingStale ==
    /\ metadata # None => metadata.actor = credential
    /\ list # None => list.actor = credential /\ metadata # None

(* The buttons come back: a window is never busy for ever, whatever the    *)
(* host and the network do.                                                *)
Settles == busy ~> ~busy

=============================================================================
