------------------------ MODULE RuntimeClientProofs ------------------------
(***************************************************************************)
(* A window of the browser Runtime, for any keys, credentials, coroutines  *)
(* and commands, whatever the network loses and other clients do: busy is  *)
(* one coroutine, no request is forgotten or takes effect twice, and what  *)
(* is shown is the host's answer to who is signed in.                      *)
(***************************************************************************)
EXTENDS RuntimeClient, FiniteSetTheorems, TLAPS

Asks(request) == request.kind \in {"send", "recover"}

WellFormed(request) ==
    request \in Requests /\ (Asks(request) => request.attempt \in Attempts)

Suspended(t) == tasks[t] = [request |-> tasks[t].request, stale |-> tasks[t].stale,
                            reply |-> tasks[t].reply]

Coroutines ==
    /\ DOMAIN tasks \cup DOMAIN network \subseteq Tasks
    /\ \A t \in DOMAIN tasks :
          Suspended(t) /\ tasks[t].stale \in BOOLEAN /\ WellFormed(tasks[t].request)
    /\ \A t \in DOMAIN network : WellFormed(network[t])

TypeOK ==
    /\ rev \in Nat /\ facts \in [Records -> Rows]
    /\ credential \in Credentials
    /\ metadata \in Metadata \cup {None}
    /\ attempt \in Attempts \cup {None}
    /\ busy \in BOOLEAN
    /\ Coroutines
    /\ acknowledged \subseteq drawn /\ refused \subseteq drawn /\ drawn \subseteq Keys

(* A good answer is one to the request; a waiting coroutine's request is   *)
(* the one under way.                                                      *)
Good(request, reply) ==
    reply.is = "ok" =>
       /\ request.kind = "metadata" =>
             reply.value \in Metadata /\ reply.value.actor = request.actor
       /\ request.kind = "list" => reply.value.actor = request.actor
       /\ Asks(request) =>
             /\ reply.value.pk = PkOf(request)
             /\ reply.value.rev \in DOMAIN log /\ log[reply.value.rev].pk = reply.value.pk

ReplyOK(t) ==
    /\ tasks[t].reply = Waiting /\ t \in DOMAIN network => network[t] = tasks[t].request
    /\ Good(tasks[t].request, tasks[t].reply)

(* One coroutine at most counts; it asks as who is signed in, and if it    *)
(* asks for a receipt, it is that of the pending attempt.                  *)
CurrentOK(t) ==
    /\ tasks[t].request.actor = credential
    /\ Asks(tasks[t].request) => attempt # None /\ tasks[t].request.attempt = attempt
    /\ tasks[t].request.kind = "list" => metadata # None

Serving ==
    /\ busy <=> \E t \in DOMAIN tasks : Current(t)
    /\ \A s, t \in DOMAIN tasks : Current(s) /\ Current(t) => s = t
    /\ \A t \in DOMAIN tasks : Current(t) => CurrentOK(t)

(* What may still commit under a key of this window, and what has: one     *)
(* intent to a key, which is made for one revision.                        *)
Sends == {t \in DOMAIN network : network[t].kind = "send"}
Carried ==
    ({attempt} \ {None}) \cup {network[t].attempt : t \in Sends}

Intended ==
    /\ \A a \in Carried : a.key \in drawn
    /\ \A a, b \in Carried : a.key = b.key => a.intent = b.intent
    /\ \A n \in DOMAIN log :
          /\ n \in Nat /\ n <= rev
          /\ log[n].pk[2] \in Keys =>
                /\ log[n].pk[2] \in drawn
                /\ log[n].intent.expected + 1 = n
                /\ \A a \in Carried : a.key = log[n].pk[2] => a.intent = log[n].intent
    /\ AtMostOnce

(* A request not known to be uncertain was sent once, by the coroutine     *)
(* that still waits for its answer; a refusal of it is final.              *)
SentOnce(t) ==
    /\ Current(t) /\ tasks[t].request.kind = "send"
    /\ \A s \in Sends : network[s].attempt.key = attempt.key => s = t
    /\ tasks[t].reply \in {Denied, Refused} =>
          ~Travelling(attempt.key) /\ ~CommittedKey(attempt.key)
    /\ Travelling(attempt.key) => ~CommittedKey(attempt.key)

FirstSending ==
    attempt # None /\ ~attempt.uncertain => \E t \in DOMAIN tasks : SentOnce(t)

Receipted == receipt # None => receipt.rev \in DOMAIN log /\ ReceiptIsTrue

IInv ==
    /\ TypeOK
    /\ \A t \in DOMAIN tasks : ReplyOK(t)
    /\ Serving
    /\ Intended
    /\ FirstSending
    /\ NothingForgotten
    /\ Receipted
    /\ NothingStale

-----------------------------------------------------------------------------
(* Coroutines and requests as functions.                                   *)

(* t begins to wait for an answer, and no other coroutine counts any more. *)
Begins(t, request) ==
    /\ DOMAIN tasks' = DOMAIN tasks \cup {t}
    /\ tasks'[t].request = request /\ tasks'[t].stale = FALSE /\ tasks'[t].reply = Waiting
    /\ \A s \in DOMAIN tasks \ {t} :
          /\ tasks'[s].request = tasks[s].request /\ tasks'[s].stale = TRUE
          /\ tasks'[s].reply \in {tasks[s].reply, Unknown}
    /\ DOMAIN network' = DOMAIN network \cup {t} /\ network'[t] = request
    /\ \A s \in DOMAIN network \ {t} : network'[s] = network[s]

(* t has its answer and is done.                                           *)
Ends(t) ==
    /\ DOMAIN tasks' = DOMAIN tasks \ {t}
    /\ \A s \in DOMAIN tasks' : tasks'[s] = tasks[s]
    /\ network' = network

(* t hears an answer, if it still waits for one.                           *)
Hears(t, reply) ==
    /\ DOMAIN tasks' = DOMAIN tasks
    /\ \A s \in DOMAIN tasks :
          /\ tasks'[s].request = tasks[s].request /\ tasks'[s].stale = tasks[s].stale
          /\ tasks'[s].reply = IF s = t /\ tasks[s].reply = Waiting THEN reply
                               ELSE tasks[s].reply

(* The request of t is answered or lost.                                   *)
Leaves(t) ==
    /\ DOMAIN network' = DOMAIN network \ {t}
    /\ \A s \in DOMAIN network' : network'[s] = network[s]

(* A coroutine gets its answer.                                            *)
Replied(t, reply) == [tasks EXCEPT ![t].reply = reply]

LEMMA RepliedEffect ==
    ASSUME NEW t \in DOMAIN tasks, NEW reply, Suspended(t)
    PROVE  /\ DOMAIN Replied(t, reply) = DOMAIN tasks
           /\ Replied(t, reply)[t] = [request |-> tasks[t].request, stale |-> tasks[t].stale,
                                      reply |-> reply]
           /\ \A s \in DOMAIN tasks \ {t} : Replied(t, reply)[s] = tasks[s]
<1> DEFINE task == tasks[t]
<1>1. task = [request |-> task.request, stale |-> task.stale, reply |-> task.reply]
  BY DEF Suspended
<1>2. Replied(t, reply)[t] = [task EXCEPT !.reply = reply]
  BY DEF Replied
<1>3. Replied(t, reply)[t] = [request |-> task.request, stale |-> task.stale, reply |-> reply]
  BY <1>1, <1>2
<1> QED BY <1>3 DEF Replied

LEMMA AbortedEffect ==
    ASSUME \A t \in DOMAIN tasks : Suspended(t)
    PROVE  /\ DOMAIN Aborted = DOMAIN tasks
           /\ \A t \in DOMAIN tasks :
                 /\ Aborted[t] = [request |-> tasks[t].request, stale |-> TRUE,
                                  reply |-> Aborted[t].reply]
                 /\ Aborted[t].request = tasks[t].request /\ Aborted[t].stale = TRUE
                 /\ Aborted[t].reply \in {tasks[t].reply, Unknown}
                 /\ Aborted[t].reply # Waiting
<1>1. Unknown # Waiting
  BY DEF Unknown, Waiting, Failure
<1>2. \A t \in DOMAIN tasks :
        Aborted[t] = [request |-> tasks[t].request, stale |-> TRUE,
                      reply |-> IF tasks[t].reply = Waiting THEN Unknown ELSE tasks[t].reply]
  <2> SUFFICES ASSUME NEW t \in DOMAIN tasks
               PROVE  Aborted[t] = [request |-> tasks[t].request, stale |-> TRUE,
                         reply |-> IF tasks[t].reply = Waiting THEN Unknown ELSE tasks[t].reply]
    OBVIOUS
  <2> DEFINE task == tasks[t]
  <2>1. Aborted[t] = [task EXCEPT !.stale = TRUE, !.reply = IF @ = Waiting THEN Unknown ELSE @]
    BY DEF Aborted
  <2>2. task = [request |-> task.request, stale |-> task.stale, reply |-> task.reply]
    BY DEF Suspended
  <2> QED BY <2>1, <2>2
<1> QED BY <1>1, <1>2 DEF Aborted

(* The answers differ.                                                     *)
LEMMA Answers ==
    /\ Waiting \notin {Unknown, Denied, Refused, NotFound}
    /\ Unknown \notin {Denied, Refused, NotFound}
    /\ \A a \in {Waiting, Unknown, Denied, Refused, NotFound} : a.is # "ok"
    /\ \A v : Ok(v).is = "ok" /\ Ok(v).value = v
               /\ Ok(v) \notin {Waiting, Unknown, Denied, Refused, NotFound}
BY DEF Waiting, Unknown, Denied, Refused, NotFound, Failure, Ok

(* A command of the log.                                                   *)
LEMMA ApplyEffect ==
    ASSUME TypeOK, NEW pk, NEW intent \in Intents, Apply(pk, intent)
    PROVE  /\ rev' = rev + 1 /\ intent.expected = rev /\ rev' \in Nat
           /\ facts' \in [Records -> Rows]
           /\ DOMAIN log' = DOMAIN log \cup {rev + 1}
           /\ log'[rev + 1] = [pk |-> pk, intent |-> intent]
           /\ \A n \in DOMAIN log \ {rev + 1} : log'[n] = log[n]
           /\ \A n \in DOMAIN log : log[n].pk # pk
<1>1. Changed(facts[intent.rec], intent) \in Rows
  <2>1. Changed(facts[intent.rec], intent).val \in Vals /\ To[intent.cmd] \in States
    BY RuntimeAssumption DEF Apply, Legal
  <2> QED BY <2>1 DEF Changed, Rows
<1>2. facts' = [facts EXCEPT ![intent.rec] = Changed(facts[intent.rec], intent)]
  BY DEF Apply
<1>3. facts' \in [Records -> Rows]
  BY <1>1, <1>2 DEF TypeOK
<1> QED BY <1>3 DEF Apply, TypeOK

LEMMA AskBegins ==
    ASSUME Coroutines, NEW t, NEW request, Ask(tasks, t, request),
           \A s \in DOMAIN tasks \ {t} : ~Current(s)
    PROVE  Begins(t, request)
<1>1. \A s \in DOMAIN tasks \ {t} : tasks'[s] = tasks[s] /\ tasks[s].stale = TRUE
  BY DEF Coroutines, Ask, Put, Current
<1> QED BY <1>1 DEF Ask, Put, Begins

LEMMA AbortBegins ==
    ASSUME Coroutines, NEW t, NEW request, Ask(Aborted, t, request)
    PROVE  Begins(t, request)
<1>1. \A s \in DOMAIN tasks \ {t} : tasks'[s] = Aborted[s]
  BY DEF Ask, Put, Aborted
<1>2. DOMAIN Aborted = DOMAIN tasks
  BY DEF Aborted
<1>3. \A s \in DOMAIN tasks \ {t} :
          /\ tasks'[s].request = tasks[s].request /\ tasks'[s].stale = TRUE
          /\ tasks'[s].reply \in {tasks[s].reply, Unknown}
  BY <1>1, AbortedEffect DEF Coroutines
<1> QED BY <1>2, <1>3 DEF Ask, Put, Begins

-----------------------------------------------------------------------------
(* Coroutines and requests keep their types, whatever happens to them.     *)

LEMMA AskTypes ==
    ASSUME Coroutines, NEW ts, NEW t \in Tasks, NEW request, WellFormed(request),
           ts \in {tasks, Aborted}, Ask(ts, t, request)
    PROVE  Coroutines'
<1>1. \A s \in DOMAIN tasks : Suspended(s)
  BY DEF Coroutines
<1>2. /\ DOMAIN ts = DOMAIN tasks
      /\ \A s \in DOMAIN ts :
            /\ ts[s] = [request |-> ts[s].request, stale |-> ts[s].stale, reply |-> ts[s].reply]
            /\ ts[s].stale \in BOOLEAN /\ WellFormed(ts[s].request)
  <2>1. CASE ts = tasks
    BY <2>1 DEF Coroutines, Suspended
  <2>2. CASE ts = Aborted
    BY <1>1, <2>2, AbortedEffect DEF Coroutines
  <2> QED BY <2>1, <2>2
<1>3. /\ DOMAIN tasks' = DOMAIN ts \cup {t}
      /\ tasks'[t] = [request |-> request, stale |-> FALSE, reply |-> Waiting]
      /\ \A s \in DOMAIN ts \ {t} : tasks'[s] = ts[s]
      /\ DOMAIN network' = DOMAIN network \cup {t} /\ network'[t] = request
      /\ \A s \in DOMAIN network \ {t} : network'[s] = network[s]
  BY DEF Ask, Put
<1>4. ASSUME NEW s \in DOMAIN tasks'
      PROVE  Suspended(s)' /\ tasks'[s].stale \in BOOLEAN /\ WellFormed(tasks'[s].request)
  <2>1. CASE s = t
    <3>1. tasks'[s] = [request |-> request, stale |-> FALSE, reply |-> Waiting]
      BY <2>1, <1>3
    <3>2. tasks'[s].request = request /\ tasks'[s].stale = FALSE /\ tasks'[s].reply = Waiting
      BY <3>1
    <3> QED BY <3>1, <3>2 DEF Suspended
  <2>2. CASE s # t
    BY <2>2, <1>2, <1>3 DEF Suspended
  <2> QED BY <2>1, <2>2
<1>5. \A s \in DOMAIN network' : WellFormed(network'[s])
  BY <1>3 DEF Coroutines
<1>6. DOMAIN tasks' \cup DOMAIN network' \subseteq Tasks
  BY <1>2, <1>3 DEF Coroutines
<1> QED BY <1>4, <1>5, <1>6 DEF Coroutines

LEMMA AbortTypes ==
    ASSUME Coroutines, tasks' = Aborted, network' = network
    PROVE  Coroutines'
<1>1. \A s \in DOMAIN tasks : Suspended(s)
  BY DEF Coroutines
<1>2. DOMAIN tasks' = DOMAIN tasks
  BY DEF Aborted
<1>3. ASSUME NEW s \in DOMAIN tasks'
      PROVE  Suspended(s)' /\ tasks'[s].stale \in BOOLEAN /\ WellFormed(tasks'[s].request)
  BY <1>1, <1>2, AbortedEffect DEF Coroutines, Suspended
<1> QED BY <1>2, <1>3 DEF Coroutines

LEMMA DropTypes ==
    ASSUME Coroutines, NEW t, tasks' = Drop(tasks, t), network' = network
    PROVE  Coroutines' /\ Ends(t)
<1>1. /\ DOMAIN tasks' = DOMAIN tasks \ {t}
      /\ \A s \in DOMAIN tasks' : tasks'[s] = tasks[s]
  BY DEF Drop
<1>2. \A s \in DOMAIN tasks' :
         Suspended(s)' /\ tasks'[s].stale \in BOOLEAN /\ WellFormed(tasks'[s].request)
  BY <1>1 DEF Coroutines, Suspended
<1> QED BY <1>1, <1>2 DEF Coroutines, Ends

LEMMA LoseTypes ==
    ASSUME Coroutines, NEW t, network' = Drop(network, t)
    PROVE  /\ Leaves(t)
           /\ DOMAIN network' \subseteq Tasks
           /\ \A s \in DOMAIN network' : WellFormed(network'[s])
<1>1. Leaves(t)
  BY DEF Drop, Leaves
<1> QED BY <1>1 DEF Leaves, Coroutines

LEMMA HearTypes ==
    ASSUME Coroutines, NEW t, NEW reply,
           tasks' = IF t \in DOMAIN tasks /\ tasks[t].reply = Waiting
                    THEN Replied(t, reply) ELSE tasks
    PROVE  /\ Hears(t, reply)
           /\ DOMAIN tasks' \subseteq Tasks
           /\ \A s \in DOMAIN tasks' :
                 Suspended(s)' /\ tasks'[s].stale \in BOOLEAN /\ WellFormed(tasks'[s].request)
<1>1. CASE t \in DOMAIN tasks /\ tasks[t].reply = Waiting
  <2>1. Suspended(t)
    BY <1>1 DEF Coroutines
  <2>2. /\ DOMAIN tasks' = DOMAIN tasks
        /\ tasks'[t] = [request |-> tasks[t].request, stale |-> tasks[t].stale, reply |-> reply]
        /\ \A s \in DOMAIN tasks \ {t} : tasks'[s] = tasks[s]
    BY <1>1, <2>1, RepliedEffect
  <2>3. tasks'[t].request = tasks[t].request /\ tasks'[t].stale = tasks[t].stale
        /\ tasks'[t].reply = reply
    BY <2>2
  <2>4. Hears(t, reply)
    BY <1>1, <2>2, <2>3 DEF Hears
  <2>5. \A s \in DOMAIN tasks' : Suspended(s)'
    BY <2>2, <2>3 DEF Coroutines, Suspended
  <2> QED BY <2>2, <2>3, <2>4, <2>5 DEF Coroutines
<1>2. CASE ~(t \in DOMAIN tasks /\ tasks[t].reply = Waiting)
  BY <1>2 DEF Coroutines, Suspended, Hears
<1> QED BY <1>1, <1>2

-----------------------------------------------------------------------------
(* The answers that have come are true.                                    *)

(* The log only grows.                                                     *)
LogGrows ==
    /\ DOMAIN log \subseteq DOMAIN log'
    /\ \A n \in DOMAIN log : log'[n] = log[n]

LEMMA BeginsReplies ==
    ASSUME \A s \in DOMAIN tasks : ReplyOK(s), NEW t, NEW request, Begins(t, request),
           log' = log
    PROVE  \A s \in DOMAIN tasks' : ReplyOK(s)'
<1> SUFFICES ASSUME NEW s \in DOMAIN tasks'
             PROVE  ReplyOK(s)'
  OBVIOUS
<1>1. CASE s = t
  <2>1. tasks'[s].reply.is # "ok"
    BY <1>1, Answers DEF Begins
  <2> QED BY <1>1, <2>1 DEF Begins, ReplyOK, Good
<1>2. CASE s # t
  <2>1. s \in DOMAIN tasks \ {t} /\ ReplyOK(s)
    BY <1>2 DEF Begins
  <2>2. tasks'[s].reply = tasks[s].reply \/ tasks'[s].reply = Unknown
    BY <2>1 DEF Begins
  <2>3. tasks'[s].request = tasks[s].request
    BY <2>1 DEF Begins
  <2>4. tasks'[s].reply = Waiting => tasks[s].reply = Waiting
    BY <2>2, Answers
  <2>5. s \in DOMAIN network' => s \in DOMAIN network /\ network'[s] = network[s]
    BY <1>2 DEF Begins
  <2>6. tasks'[s].reply.is = "ok" => tasks'[s].reply = tasks[s].reply
    BY <2>2, Answers
  <2> QED BY <2>1, <2>3, <2>4, <2>5, <2>6 DEF ReplyOK, Good, Asks, PkOf
<1> QED BY <1>1, <1>2

LEMMA EndsReplies ==
    ASSUME \A s \in DOMAIN tasks : ReplyOK(s), NEW t, Ends(t), log' = log
    PROVE  \A s \in DOMAIN tasks' : ReplyOK(s)'
BY DEF Ends, ReplyOK, Good, Asks, PkOf

LEMMA AbortReplies ==
    ASSUME Coroutines, \A s \in DOMAIN tasks : ReplyOK(s), tasks' = Aborted, log' = log
    PROVE  \A s \in DOMAIN tasks' : ReplyOK(s)'
<1> SUFFICES ASSUME NEW s \in DOMAIN tasks'
             PROVE  ReplyOK(s)'
  OBVIOUS
<1>1. s \in DOMAIN tasks /\ ReplyOK(s)
  BY DEF Aborted
<1>2. /\ tasks'[s].request = tasks[s].request /\ tasks'[s].reply # Waiting
      /\ tasks'[s].reply = tasks[s].reply \/ tasks'[s].reply = Unknown
  BY <1>1, AbortedEffect DEF Coroutines
<1>3. tasks'[s].reply.is = "ok" => tasks'[s].reply = tasks[s].reply
  BY <1>2, Answers
<1> QED BY <1>1, <1>2, <1>3 DEF ReplyOK, Good, Asks, PkOf

LEMMA HearsReplies ==
    ASSUME \A s \in DOMAIN tasks : ReplyOK(s), NEW t, NEW reply, Hears(t, reply), LogGrows,
           network' = network \/ Leaves(t),
           reply # Waiting,
           t \in DOMAIN tasks /\ tasks[t].reply = Waiting => Good(tasks[t].request, reply)'
    PROVE  \A s \in DOMAIN tasks' : ReplyOK(s)'
<1> SUFFICES ASSUME NEW s \in DOMAIN tasks'
             PROVE  ReplyOK(s)'
  OBVIOUS
<1>1. s \in DOMAIN tasks /\ ReplyOK(s) /\ tasks'[s].request = tasks[s].request
  BY DEF Hears
<1>2. CASE s = t /\ tasks[s].reply = Waiting
  BY <1>1, <1>2 DEF Hears, ReplyOK
<1>3. CASE ~(s = t /\ tasks[s].reply = Waiting)
  <2>1. tasks'[s].reply = tasks[s].reply
    BY <1>1, <1>3 DEF Hears
  <2>2. s \in DOMAIN network' => s \in DOMAIN network /\ network'[s] = network[s]
    BY DEF Leaves
  <2> QED BY <1>1, <2>1, <2>2 DEF ReplyOK, Good, Asks, PkOf, LogGrows
<1> QED BY <1>2, <1>3

LEMMA StillReplies ==
    ASSUME \A s \in DOMAIN tasks : ReplyOK(s), tasks' = tasks, LogGrows,
           NEW t, network' = network \/ Leaves(t)
    PROVE  \A s \in DOMAIN tasks' : ReplyOK(s)'
<1> SUFFICES ASSUME NEW s \in DOMAIN tasks
             PROVE  ReplyOK(s)'
  OBVIOUS
<1>1. s \in DOMAIN network' => s \in DOMAIN network /\ network'[s] = network[s]
  BY DEF Leaves
<1> QED BY <1>1 DEF ReplyOK, Good, Asks, PkOf, LogGrows

-----------------------------------------------------------------------------
(* One coroutine counts, if any.                                           *)

LEMMA BeginsServing ==
    ASSUME NEW t, NEW request, Begins(t, request), busy' = TRUE,
           request.actor = credential',
           Asks(request) => attempt' # None /\ request.attempt = attempt',
           request.kind = "list" => metadata' # None
    PROVE  Serving'
<1>1. t \in DOMAIN tasks' /\ Current(t)' /\ CurrentOK(t)'
  BY DEF Begins, Current, CurrentOK, Asks
<1>2. \A s \in DOMAIN tasks' : Current(s)' => s = t
  BY DEF Begins, Current
<1> QED BY <1>1, <1>2 DEF Serving

(* The coroutine that counted is done; or one that did not.                *)
LEMMA EndsServing ==
    ASSUME Serving, NEW t \in DOMAIN tasks, Current(t), Ends(t), busy' = FALSE
    PROVE  Serving'
<1>1. \A s \in DOMAIN tasks' : ~Current(s)'
  BY DEF Serving, Ends, Current
<1> QED BY <1>1 DEF Serving

LEMMA EndsStaleServing ==
    ASSUME Serving, NEW t \in DOMAIN tasks, ~Current(t), Ends(t),
           UNCHANGED <<busy, credential, attempt, metadata>>
    PROVE  Serving'
BY DEF Serving, Ends, Current, CurrentOK, Asks

LEMMA AbortServing ==
    ASSUME Coroutines, tasks' = Aborted, busy' = FALSE
    PROVE  Serving'
<1>1. \A s \in DOMAIN tasks' : ~Current(s)'
  BY AbortedEffect DEF Coroutines, Current, Aborted
<1> QED BY <1>1 DEF Serving

LEMMA HearsServing ==
    ASSUME Serving, NEW t, NEW reply, Hears(t, reply),
           UNCHANGED <<busy, credential, attempt, metadata>>
    PROVE  Serving'
BY DEF Serving, Hears, Current, CurrentOK, Asks

(* A button was free: nobody counts.                                       *)
LEMMA Idle ==
    ASSUME Serving, ~busy
    PROVE  \A s \in DOMAIN tasks : ~Current(s)
BY DEF Serving

LEMMA Sole ==
    ASSUME Serving, NEW t \in DOMAIN tasks, Current(t)
    PROVE  busy /\ CurrentOK(t) /\ \A s \in DOMAIN tasks \ {t} : ~Current(s)
BY DEF Serving

-----------------------------------------------------------------------------
(* A key has one intent, and is committed once.                            *)

LEMMA CarriedForm ==
    /\ \A a : a \in Carried <=>
             \/ a = attempt /\ attempt # None
             \/ \E s \in DOMAIN network : network[s].kind = "send" /\ a = network[s].attempt
BY DEF Carried, Sends

LEMMA CarriedForm1 ==
    /\ \A a : a \in Carried' <=>
             \/ a = attempt' /\ attempt' # None
             \/ \E s \in DOMAIN network' : network'[s].kind = "send" /\ a = network'[s].attempt
BY DEF Carried, Sends

LEMMA IntendedKept ==
    ASSUME Intended, UNCHANGED <<rev, log, drawn>>,
           \A a \in Carried' : \E b \in Carried : a.key = b.key /\ a.intent = b.intent
    PROVE  Intended'
<1>1. \A a \in Carried' : a.key \in drawn'
  BY DEF Intended
<1>2. \A a, b \in Carried' : a.key = b.key => a.intent = b.intent
  BY DEF Intended
<1>3. ASSUME NEW n \in DOMAIN log'
      PROVE  /\ n \in Nat /\ n <= rev'
             /\ log'[n].pk[2] \in Keys =>
                   /\ log'[n].pk[2] \in drawn'
                   /\ log'[n].intent.expected + 1 = n
                   /\ \A a \in Carried' : a.key = log'[n].pk[2] => a.intent = log'[n].intent
  BY DEF Intended
<1>4. AtMostOnce'
  BY DEF Intended, AtMostOnce
<1> QED BY <1>1, <1>2, <1>3, <1>4 DEF Intended

(* The pending attempt stays, at most in doubt, or is forgotten.           *)
KeepsAttempt ==
    attempt' # None =>
        attempt # None /\ attempt'.key = attempt.key /\ attempt'.intent = attempt.intent

(* At most the network loses a request.                                    *)
LEMMA LessIntended ==
    ASSUME Intended, UNCHANGED <<rev, log, drawn>>, KeepsAttempt,
           NEW t, network' = network \/ Leaves(t)
    PROVE  Intended'
<1>1. \A a \in Carried' : \E b \in Carried : a.key = b.key /\ a.intent = b.intent
  BY CarriedForm, CarriedForm1 DEF Leaves, KeepsAttempt
<1> QED BY <1>1, IntendedKept

(* What is begun is a load, or carries the pending attempt.                *)
LEMMA BeginsIntended ==
    ASSUME Intended, UNCHANGED <<rev, log, drawn>>, KeepsAttempt,
           NEW t, NEW request, Begins(t, request),
           request.kind = "send" => attempt # None /\ request.attempt = attempt
    PROVE  Intended'
<1>1. ASSUME NEW a \in Carried'
      PROVE  \E b \in Carried : a.key = b.key /\ a.intent = b.intent
  <2>1. CASE a = attempt' /\ attempt' # None
    BY <2>1, CarriedForm DEF KeepsAttempt
  <2>2. ASSUME NEW s \in DOMAIN network', network'[s].kind = "send", a = network'[s].attempt
        PROVE  a \in Carried
    <3>1. CASE s = t
      BY <2>2, <3>1, CarriedForm DEF Begins
    <3>2. CASE s # t
      BY <2>2, <3>2, CarriedForm DEF Begins
    <3> QED BY <3>1, <3>2
  <2> QED BY <2>1, <2>2, CarriedForm1
<1> QED BY <1>1, IntendedKept

(* A key drawn for the first time.                                         *)
LEMMA DrawnIntended ==
    ASSUME Intended, UNCHANGED <<rev, log>>, NEW key, key \notin drawn,
           drawn' = drawn \cup {key},
           NEW t, NEW request, Begins(t, request), request.attempt = attempt',
           attempt'.key = key
    PROVE  Intended'
<1>1. \A a \in Carried' : a = attempt' \/ a \in Carried
  <2> SUFFICES ASSUME NEW s \in DOMAIN network', network'[s].kind = "send"
               PROVE  network'[s].attempt = attempt' \/ network'[s].attempt \in Carried
    BY CarriedForm1
  <2>1. CASE s = t
    BY <2>1 DEF Begins
  <2>2. CASE s # t
    BY <2>2, CarriedForm DEF Begins
  <2> QED BY <2>1, <2>2
<1>2. \A a \in Carried : a.key \in drawn /\ a.key # key
  BY DEF Intended
<1>3. \A a \in Carried' : a.key \in drawn'
  BY <1>1, <1>2
<1>4. \A a, b \in Carried' : a.key = b.key => a.intent = b.intent
  BY <1>1, <1>2 DEF Intended
<1>5. ASSUME NEW n \in DOMAIN log'
      PROVE  /\ n \in Nat /\ n <= rev'
             /\ log'[n].pk[2] \in Keys =>
                   /\ log'[n].pk[2] \in drawn'
                   /\ log'[n].intent.expected + 1 = n
                   /\ \A a \in Carried' : a.key = log'[n].pk[2] => a.intent = log'[n].intent
  BY <1>1, <1>2 DEF Intended
<1>6. AtMostOnce'
  BY DEF Intended, AtMostOnce
<1> QED BY <1>3, <1>4, <1>5, <1>6 DEF Intended

(* A commit under a key of this window: of the one intent of that key.     *)
LEMMA CommitIntended ==
    ASSUME TypeOK, Intended, NEW t \in Sends,
           Apply(PkOf(network[t]), network[t].attempt.intent),
           UNCHANGED <<attempt, drawn>>, Leaves(t)
    PROVE  Intended'
<1> DEFINE a0 == network[t].attempt
<1>1. a0 \in Carried /\ a0 \in Attempts
  BY CarriedForm DEF Sends, TypeOK, Coroutines, WellFormed, Asks
<1>2. PkOf(network[t])[2] = a0.key
  BY DEF PkOf
<1>3. a0.intent \in Intents
  BY <1>1 DEF Attempts
<1>4. /\ rev' = rev + 1 /\ a0.intent.expected = rev
      /\ DOMAIN log' = DOMAIN log \cup {rev + 1}
      /\ log'[rev + 1] = [pk |-> PkOf(network[t]), intent |-> a0.intent]
      /\ \A n \in DOMAIN log : n # rev + 1 => log'[n] = log[n]
  BY <1>3, ApplyEffect
<1>5. rev \in Nat /\ \A n \in DOMAIN log : n \in Nat /\ n <= rev /\ n # rev + 1
  BY DEF TypeOK, Intended
<1>6. \A a \in Carried' : a \in Carried
  BY CarriedForm, CarriedForm1 DEF Leaves
<1>7. \A n \in DOMAIN log : log[n].pk[2] # a0.key \/ a0.key \notin Keys
  <2> SUFFICES ASSUME NEW n \in DOMAIN log, log[n].pk[2] = a0.key, a0.key \in Keys
               PROVE  FALSE
    OBVIOUS
  <2>1. log[n].intent = a0.intent /\ log[n].intent.expected + 1 = n
    BY <1>1 DEF Intended
  <2> QED BY <2>1, <1>4, <1>5
<1>8. \A a \in Carried' : a.key \in drawn'
  BY <1>6 DEF Intended
<1>9. \A a, b \in Carried' : a.key = b.key => a.intent = b.intent
  BY <1>6 DEF Intended
<1>10. ASSUME NEW n \in DOMAIN log'
       PROVE  /\ n \in Nat /\ n <= rev'
              /\ log'[n].pk[2] \in Keys =>
                    /\ log'[n].pk[2] \in drawn'
                    /\ log'[n].intent.expected + 1 = n
                    /\ \A a \in Carried' : a.key = log'[n].pk[2] => a.intent = log'[n].intent
  <2>1. CASE n = rev + 1
    <3>1. log'[n].pk[2] = a0.key /\ log'[n].intent = a0.intent
      BY <2>1, <1>2, <1>4
    <3>2. \A a \in Carried' : a.key = a0.key => a.intent = a0.intent
      BY <1>1, <1>6 DEF Intended
    <3>3. a0.key \in drawn'
      BY <1>1 DEF Intended
    <3> QED BY <2>1, <3>1, <3>2, <3>3, <1>4, <1>5
  <2>2. CASE n # rev + 1
    <3>1. n \in DOMAIN log /\ log'[n] = log[n]
      BY <2>2, <1>4
    <3>2. n \in Nat /\ n <= rev'
      BY <3>1, <1>4, <1>5
    <3> QED BY <3>1, <3>2, <1>6 DEF Intended
  <2> QED BY <2>1, <2>2
<1>11. AtMostOnce'
  <2> SUFFICES ASSUME NEW m \in DOMAIN log', NEW n \in DOMAIN log',
                      log'[m].pk[2] \in Keys, log'[m].pk[2] = log'[n].pk[2]
               PROVE  m = n
    BY DEF AtMostOnce
  <2>1. CASE m = rev + 1 \/ n = rev + 1
    BY <2>1, <1>2, <1>4, <1>7
  <2>2. CASE ~(m = rev + 1 \/ n = rev + 1)
    BY <2>2, <1>4 DEF Intended, AtMostOnce
  <2> QED BY <2>1, <2>2
<1> QED BY <1>8, <1>9, <1>10, <1>11 DEF Intended

(* Nobody else commits under a key of this window.                         *)
LEMMA OtherIntended ==
    ASSUME TypeOK, Intended, NEW pk \in OtherPks, NEW intent \in Intents, Apply(pk, intent),
           UNCHANGED <<attempt, network, drawn>>
    PROVE  Intended'
<1>1. /\ rev' = rev + 1
      /\ DOMAIN log' = DOMAIN log \cup {rev + 1}
      /\ log'[rev + 1] = [pk |-> pk, intent |-> intent]
      /\ \A n \in DOMAIN log : n # rev + 1 => log'[n] = log[n]
  BY ApplyEffect
<1>2. rev \in Nat /\ \A n \in DOMAIN log : n \in Nat /\ n <= rev /\ n # rev + 1
  BY DEF TypeOK, Intended
<1>3. Carried' = Carried
  BY DEF Carried, Sends
<1>4. log'[rev + 1].pk[2] \notin Keys
  BY <1>1, RuntimeAssumption
<1>5. ASSUME NEW n \in DOMAIN log'
      PROVE  /\ n \in Nat /\ n <= rev'
             /\ log'[n].pk[2] \in Keys =>
                   /\ log'[n].pk[2] \in drawn'
                   /\ log'[n].intent.expected + 1 = n
                   /\ \A a \in Carried' : a.key = log'[n].pk[2] => a.intent = log'[n].intent
  <2>1. CASE n = rev + 1
    BY <2>1, <1>1, <1>2, <1>4
  <2>2. CASE n # rev + 1
    <3>1. n \in DOMAIN log /\ log'[n] = log[n]
      BY <2>2, <1>1
    <3>2. n \in Nat /\ n <= rev'
      BY <3>1, <1>1, <1>2
    <3> QED BY <3>1, <3>2, <1>3 DEF Intended
  <2> QED BY <2>1, <2>2
<1>6. AtMostOnce'
  BY <1>1, <1>4 DEF Intended, AtMostOnce
<1> QED BY <1>3, <1>5, <1>6 DEF Intended

-----------------------------------------------------------------------------
(* What is committed, and what may still be.                               *)

LEMMA CommitGrows ==
    ASSUME TypeOK, Intended, NEW pk, NEW intent \in Intents, Apply(pk, intent)
    PROVE  /\ LogGrows
           /\ \A key : CommittedKey(key)' <=> CommittedKey(key) \/ pk[2] = key
<1>1. /\ DOMAIN log' = DOMAIN log \cup {rev + 1}
      /\ log'[rev + 1] = [pk |-> pk, intent |-> intent]
      /\ \A n \in DOMAIN log : n # rev + 1 => log'[n] = log[n]
  BY ApplyEffect
<1>2. \A n \in DOMAIN log : n # rev + 1
  BY DEF TypeOK, Intended
<1>3. log'[rev + 1].pk = pk
  BY <1>1
<1> QED BY <1>1, <1>2, <1>3 DEF LogGrows, CommittedKey

LEMMA FewerTravel ==
    ASSUME NEW t, network' = network \/ Leaves(t)
    PROVE  \A key : Travelling(key)' => Travelling(key)
BY DEF Travelling, Leaves

(* What is begun sends at most the pending attempt.                        *)
LEMMA BeginsTravel ==
    ASSUME NEW t, NEW request, Begins(t, request)
    PROVE  \A key : Travelling(key)' =>
                       Travelling(key) \/ (request.kind = "send" /\ request.attempt.key = key)
<1> SUFFICES ASSUME NEW key, NEW s \in DOMAIN network',
                    network'[s].kind = "send", network'[s].attempt.key = key
             PROVE  Travelling(key) \/ (request.kind = "send" /\ request.attempt.key = key)
  BY DEF Travelling
<1>1. CASE s = t
  BY <1>1 DEF Begins
<1>2. CASE s # t
  BY <1>2 DEF Begins, Travelling
<1> QED BY <1>1, <1>2

-----------------------------------------------------------------------------
(* The first sending of a request.                                         *)

(* Only the coroutine that sent it holds an attempt out of doubt.          *)
LEMMA InDoubt ==
    ASSUME Serving, FirstSending,
           \A t \in DOMAIN tasks :
              Current(t) => tasks[t].request.kind # "send" \/ tasks[t].request.attempt.uncertain
    PROVE  attempt = None \/ attempt.uncertain
<1> SUFFICES ASSUME attempt # None, ~attempt.uncertain
             PROVE  FALSE
  OBVIOUS
<1>1. PICK t \in DOMAIN tasks : SentOnce(t)
  BY DEF FirstSending
<1>2. Current(t) /\ tasks[t].request.kind = "send" /\ tasks[t].request.attempt = attempt
  BY <1>1 DEF SentOnce, Serving, CurrentOK, Asks
<1> QED BY <1>2

LEMMA DrawnFirst ==
    ASSUME Intended, UNCHANGED log, NEW key \in Keys, key \notin drawn,
           NEW t, NEW request, Begins(t, request), request.kind = "send",
           request.attempt = attempt', attempt'.key = key
    PROVE  FirstSending'
<1>1. t \in DOMAIN tasks' /\ Current(t)' /\ tasks'[t].request.kind = "send"
      /\ tasks'[t].reply \notin {Denied, Refused}
  BY Answers DEF Begins, Current
<1>2. ASSUME NEW s \in Sends', network'[s].attempt.key = key
      PROVE  s = t
  <2> SUFFICES ASSUME s # t
               PROVE  FALSE
    OBVIOUS
  <2>1. network[s].attempt \in Carried
    BY CarriedForm DEF Begins, Sends
  <2> QED BY <1>2, <2>1 DEF Begins, Sends, Intended
<1>3. ~CommittedKey(key)'
  BY DEF CommittedKey, Intended
<1>4. SentOnce(t)'
  BY <1>1, <1>2, <1>3 DEF SentOnce
<1> QED BY <1>1, <1>4 DEF FirstSending

(* The coroutines that count are as they were, and of this window nothing  *)
(* is sent or committed.                                                   *)
LEMMA StillFirst ==
    ASSUME TypeOK, FirstSending, attempt' = attempt,
           \A s \in DOMAIN tasks : Current(s) => s \in DOMAIN tasks' /\ tasks'[s] = tasks[s],
           NEW t, network' = network \/ Leaves(t),
           \A key \in Keys : CommittedKey(key)' => CommittedKey(key)
    PROVE  FirstSending'
<1> SUFFICES ASSUME attempt # None, ~attempt.uncertain
             PROVE  \E s \in DOMAIN tasks' : SentOnce(s)'
  BY DEF FirstSending
<1>1. PICK t0 \in DOMAIN tasks : SentOnce(t0)
  BY DEF FirstSending
<1>2. t0 \in DOMAIN tasks' /\ tasks'[t0] = tasks[t0]
  BY <1>1 DEF SentOnce
<1>3. attempt.key \in Keys
  BY DEF TypeOK, Attempts
<1>4. Travelling(attempt.key)' => Travelling(attempt.key)
  BY FewerTravel DEF Travelling
<1>5. CommittedKey(attempt.key)' => CommittedKey(attempt.key)
  BY <1>3 DEF CommittedKey
<1>6. \A s \in Sends' : s \in Sends /\ network'[s] = network[s]
  BY DEF Sends, Leaves
<1>7. SentOnce(t0)'
  BY <1>1, <1>2, <1>4, <1>5, <1>6 DEF SentOnce, Current
<1> QED BY <1>2, <1>7

(* An answer to its only sending: after a commit it is none of refusal, and *)
(* after a refusal no request of its key is under way.                     *)
LEMMA HearsFirst ==
    ASSUME TypeOK, Serving, FirstSending, \A s \in DOMAIN tasks : ReplyOK(s),
           attempt' = attempt, NEW t, NEW reply, Hears(t, reply),
           \/ network' = network /\ reply = Unknown
           \/ Leaves(t) /\ t \in DOMAIN network,
           \A key \in Keys :
              CommittedKey(key)' =>
                 \/ CommittedKey(key)
                 \/ /\ t \in Sends /\ network[t].attempt.key = key
                    /\ Leaves(t) /\ reply \notin {Denied, Refused}
    PROVE  FirstSending'
<1> SUFFICES ASSUME attempt # None, ~attempt.uncertain
             PROVE  \E s \in DOMAIN tasks' : SentOnce(s)'
  BY DEF FirstSending
<1> DEFINE k == attempt.key
<1>1. PICK t0 \in DOMAIN tasks : SentOnce(t0)
  BY DEF FirstSending
<1>2. /\ t0 \in DOMAIN tasks' /\ tasks'[t0].request = tasks[t0].request
      /\ tasks'[t0].stale = tasks[t0].stale
      /\ tasks'[t0].reply = IF t0 = t /\ tasks[t0].reply = Waiting THEN reply
                            ELSE tasks[t0].reply
  BY DEF Hears
<1>3. k \in Keys
  BY DEF TypeOK, Attempts
<1>4. \A s \in Sends' : s \in Sends /\ network'[s] = network[s] /\ (Leaves(t) => s # t)
  BY DEF Sends, Leaves
<1>5. Travelling(k)' => Travelling(k) /\ t0 \in Sends'
  BY <1>1, <1>4 DEF Travelling, SentOnce, Sends
<1>6. CommittedKey(k)' => \/ CommittedKey(k)
                         \/ /\ t = t0 /\ Travelling(k) /\ Leaves(t)
                            /\ reply \notin {Denied, Refused}
  <2>1. CommittedKey(k)' => \/ CommittedKey(k)
                           \/ /\ t \in Sends /\ network[t].attempt.key = k
                              /\ Leaves(t) /\ reply \notin {Denied, Refused}
    BY <1>3 DEF CommittedKey
  <2> QED BY <2>1, <1>1 DEF SentOnce, Travelling, Sends
<1>7. Travelling(k)' => ~CommittedKey(k)'
  BY <1>1, <1>4, <1>5, <1>6 DEF SentOnce
<1>8. ASSUME tasks'[t0].reply \in {Denied, Refused}
      PROVE  ~Travelling(k)' /\ ~CommittedKey(k)'
  <2>1. CASE tasks[t0].reply \in {Denied, Refused}
    BY <2>1, <1>1, <1>5, <1>6 DEF SentOnce
  <2>2. CASE tasks[t0].reply \notin {Denied, Refused}
    <3>1. t0 = t /\ tasks[t].reply = Waiting /\ reply \in {Denied, Refused}
      BY <1>2, <1>8, <2>2
    <3>2. Leaves(t) /\ t \in DOMAIN network
      BY <3>1, Answers
    <3>3. ~Travelling(k)'
      BY <1>4, <1>5, <3>1, <3>2
    <3>4. network[t] = tasks[t].request /\ tasks[t].request.attempt = attempt
          /\ tasks[t].request.kind = "send"
      BY <1>1, <3>1, <3>2 DEF ReplyOK, Serving, CurrentOK, SentOnce, Asks
    <3>5. Travelling(k)
      BY <3>2, <3>4 DEF Travelling
    <3> QED BY <1>1, <1>6, <3>1, <3>3, <3>5 DEF SentOnce
  <2> QED BY <2>1, <2>2
<1>9. SentOnce(t0)'
  <2>1. Current(t0)' /\ tasks'[t0].request.kind = "send"
    BY <1>1, <1>2 DEF SentOnce, Current
  <2>2. \A s \in Sends' : network'[s].attempt.key = attempt'.key => s = t0
    BY <1>1, <1>4 DEF SentOnce
  <2> QED BY <2>1, <2>2, <1>7, <1>8 DEF SentOnce
<1> QED BY <1>2, <1>9

-----------------------------------------------------------------------------
(* Nothing is forgotten, and a receipt stays true.                         *)

(* The pending request leaves its place only with a receipt of a commit,   *)
(* or refused for good; what was refused stays without effect.             *)
LEMMA ForgetsNothing ==
    ASSUME NothingForgotten,
           acknowledged \subseteq acknowledged', refused \subseteq refused',
           \A key \in drawn' \ drawn : attempt' # None /\ attempt'.key = key,
           \A key \in drawn : CommittedKey(key) => CommittedKey(key)',
           \A key \in drawn : CommittedKey(key)' => CommittedKey(key) \/ Travelling(key),
           \A key \in drawn :
              Travelling(key)' => Travelling(key) \/ (attempt' # None /\ attempt'.key = key),
           attempt # None =>
              \/ attempt' # None /\ attempt'.key = attempt.key
              \/ \E key : /\ key = attempt.key
                          /\ \/ key \in acknowledged' /\ CommittedKey(key)'
                             \/ key \in refused' /\ ~CommittedKey(key)' /\ ~Travelling(key)'
    PROVE  NothingForgotten'
<1> SUFFICES ASSUME NEW key \in drawn'
             PROVE  \/ attempt' # None /\ attempt'.key = key
                    \/ key \in acknowledged' /\ CommittedKey(key)'
                    \/ key \in refused' /\ ~CommittedKey(key)' /\ ~Travelling(key)'
  BY DEF NothingForgotten
<1>1. CASE key \notin drawn
  BY <1>1
<1>2. CASE key \in drawn /\ attempt # None /\ attempt.key = key
  BY <1>2
<1>3. CASE key \in drawn /\ key \in acknowledged /\ CommittedKey(key)
  BY <1>3
<1>4. CASE key \in drawn /\ key \in refused /\ ~CommittedKey(key) /\ ~Travelling(key)
  BY <1>4
<1> QED BY <1>1, <1>2, <1>3, <1>4 DEF NothingForgotten

LEMMA KeptReceipt ==
    ASSUME Receipted, LogGrows, credential' = credential, receipt' \in {receipt, None},
           acknowledged \subseteq acknowledged'
    PROVE  Receipted'
BY DEF Receipted, ReceiptIsTrue, LogGrows

LEMMA SameLog ==
    ASSUME log' = log
    PROVE  LogGrows /\ \A key : CommittedKey(key)' <=> CommittedKey(key)
BY DEF LogGrows, CommittedKey

-----------------------------------------------------------------------------
(* The window's buttons.                                                   *)

LEMMA InvalidateEffect ==
    ASSUME TypeOK, Invalidate
    PROVE  /\ attempt' \in Attempts \cup {None} /\ KeepsAttempt
           /\ attempt # None => attempt' # None
           /\ attempt' = None \/ attempt'.uncertain
<1>1. CASE attempt = None
  BY <1>1 DEF Invalidate, KeepsAttempt
<1>2. CASE attempt # None
  <2>1. attempt \in Attempts /\ attempt' = [attempt EXCEPT !.uncertain = TRUE]
    BY <1>2 DEF Invalidate, TypeOK
  <2>2. /\ attempt' \in Attempts /\ attempt'.key = attempt.key
        /\ attempt'.intent = attempt.intent /\ attempt'.uncertain = TRUE
    BY <2>1 DEF Attempts
  <2>3. attempt' # None
    BY <2>2, RuntimeAssumption
  <2> QED BY <1>2, <2>2, <2>3 DEF KeepsAttempt
<1> QED BY <1>1, <1>2

LEMMA EditCredentialStep ==
    ASSUME IInv, NEW c \in Credentials, EditCredential(c)
    PROVE  IInv'
<1> USE DEF IInv
<1>1. /\ attempt' \in Attempts \cup {None} /\ KeepsAttempt
      /\ attempt # None => attempt' # None
      /\ attempt' = None \/ attempt'.uncertain
  BY InvalidateEffect DEF EditCredential
<1>2. /\ UNCHANGED <<rev, facts, log, network, drawn, acknowledged, refused>>
      /\ tasks' = Aborted /\ busy' = FALSE /\ credential' = c
      /\ metadata' = None /\ list' = None /\ receipt' = None
  BY DEF EditCredential, Invalidate, logVars, keyVars
<1>3. Coroutines /\ Coroutines'
  BY <1>2, AbortTypes DEF TypeOK
<1>4. TypeOK'
  BY <1>1, <1>2, <1>3 DEF TypeOK
<1>5. \A s \in DOMAIN tasks' : ReplyOK(s)'
  BY <1>2, <1>3, AbortReplies
<1>6. Serving'
  BY <1>2, <1>3, AbortServing
<1>7. Intended'
  BY <1>1, <1>2, LessIntended
<1>8. FirstSending'
  BY <1>1 DEF FirstSending
<1>9. NothingForgotten'
  <2>1. \A key : Travelling(key)' <=> Travelling(key)
    BY <1>2 DEF Travelling
  <2>2. \A key : CommittedKey(key)' <=> CommittedKey(key)
    BY <1>2, SameLog
  <2> QED BY <1>1, <1>2, <2>1, <2>2, ForgetsNothing DEF KeepsAttempt
<1>10. Receipted' /\ NothingStale'
  BY <1>2 DEF Receipted, NothingStale
<1> QED BY <1>4, <1>5, <1>6, <1>7, <1>8, <1>9, <1>10

LEMMA LoadForm ==
    ASSUME NEW kind \in {"metadata", "list"}, NEW actor \in Credentials
    PROVE  WellFormed(Load(kind, actor)) /\ ~Asks(Load(kind, actor))
           /\ Load(kind, actor).kind = kind /\ Load(kind, actor).actor = actor
BY DEF WellFormed, Load, Requests, Asks

(* Every request but the first sending of an attempt.                      *)
LEMMA BeginStep ==
    ASSUME IInv, TypeOK', Receipted', NothingStale',
           UNCHANGED <<rev, log, drawn, refused>>, acknowledged \subseteq acknowledged',
           NEW t, NEW request, Begins(t, request), busy' = TRUE,
           request.actor = credential',
           Asks(request) => attempt # None /\ request.attempt = attempt /\ attempt' = attempt,
           request.kind = "list" => metadata' # None,
           KeepsAttempt, attempt' = None \/ attempt'.uncertain,
           attempt # None => \/ attempt' # None
                             \/ \E key : /\ key = attempt.key /\ key \in acknowledged'
                                         /\ CommittedKey(key)
    PROVE  IInv'
<1>1. \A s \in DOMAIN tasks' : ReplyOK(s)'
  BY BeginsReplies DEF IInv
<1>2. Serving'
  BY BeginsServing
<1>3. Intended'
  BY BeginsIntended DEF IInv, Asks
<1>4. FirstSending'
  BY DEF FirstSending
<1>5. NothingForgotten'
  <2>1. \A key : Travelling(key)' => Travelling(key) \/ (attempt' # None /\ attempt'.key = key)
    BY BeginsTravel DEF Asks
  <2>2. \A key : CommittedKey(key)' <=> CommittedKey(key)
    BY SameLog
  <2> QED BY <2>1, <2>2, ForgetsNothing DEF IInv, KeepsAttempt
<1> QED BY <1>1, <1>2, <1>3, <1>4, <1>5 DEF IInv

LEMMA ConnectStep ==
    ASSUME IInv, NEW t \in Tasks, Connect(t)
    PROVE  IInv'
<1> DEFINE request == Load("metadata", credential)
<1>1. /\ attempt' \in Attempts \cup {None} /\ KeepsAttempt
      /\ attempt # None => attempt' # None
      /\ attempt' = None \/ attempt'.uncertain
  BY InvalidateEffect DEF Connect, IInv
<1>2. /\ UNCHANGED <<rev, facts, log, drawn, acknowledged, refused, credential>>
      /\ busy' = TRUE
      /\ metadata' = None /\ list' = None /\ receipt' = None
      /\ Ask(Aborted, t, request)
  BY DEF Connect, Invalidate, logVars, keyVars
<1>3. credential \in Credentials /\ Coroutines
  BY DEF IInv, TypeOK
<1>4. WellFormed(request) /\ ~Asks(request) /\ request.kind = "metadata"
      /\ request.actor = credential
  BY <1>3, LoadForm
<1> HIDE DEF request
<1>5. Coroutines' /\ Begins(t, request)
  BY <1>2, <1>3, <1>4, AskTypes, AbortBegins
<1>6. TypeOK'
  BY <1>1, <1>2, <1>5 DEF IInv, TypeOK
<1>7. Receipted' /\ NothingStale'
  BY <1>2 DEF Receipted, NothingStale
<1> QED BY <1>1, <1>2, <1>4, <1>5, <1>6, <1>7, BeginStep

LEMMA RefreshStep ==
    ASSUME IInv, NEW t \in Tasks, Refresh(t)
    PROVE  IInv'
<1> DEFINE request == Load("metadata", credential)
<1>1. /\ UNCHANGED <<rev, facts, log, drawn, acknowledged, refused, credential, attempt, receipt>>
      /\ attempt = None /\ ~busy /\ busy' = TRUE
      /\ metadata' = None /\ list' = None
      /\ Ask(tasks, t, request)
  BY DEF Refresh, Unlocked, logVars, keyVars
<1>2. credential \in Credentials /\ Coroutines /\ \A s \in DOMAIN tasks \ {t} : ~Current(s)
  BY <1>1, Idle DEF IInv, TypeOK
<1>3. WellFormed(request) /\ ~Asks(request) /\ request.kind = "metadata"
      /\ request.actor = credential
  BY <1>2, LoadForm
<1> HIDE DEF request
<1>4. Coroutines' /\ Begins(t, request)
  BY <1>1, <1>2, <1>3, AskTypes, AskBegins
<1>5. TypeOK'
  BY <1>1, <1>4 DEF IInv, TypeOK
<1>6. Receipted' /\ NothingStale'
  BY <1>1, KeptReceipt, SameLog DEF IInv, NothingStale
<1> QED BY <1>1, <1>3, <1>4, <1>5, <1>6, BeginStep DEF KeepsAttempt

LEMMA SelectTableStep ==
    ASSUME IInv, NEW t \in Tasks, SelectTable(t)
    PROVE  IInv'
<1> DEFINE request == Load("list", credential)
<1>1. /\ UNCHANGED <<rev, facts, log, drawn, acknowledged, refused, credential, attempt, receipt,
                     metadata>>
      /\ attempt = None /\ ~busy /\ busy' = TRUE
      /\ metadata # None /\ list' = None
      /\ Ask(tasks, t, request)
  BY DEF SelectTable, Unlocked, logVars, keyVars
<1>2. credential \in Credentials /\ Coroutines /\ \A s \in DOMAIN tasks \ {t} : ~Current(s)
  BY <1>1, Idle DEF IInv, TypeOK
<1>3. WellFormed(request) /\ ~Asks(request) /\ request.kind = "list"
      /\ request.actor = credential
  BY <1>2, LoadForm
<1> HIDE DEF request
<1>4. Coroutines' /\ Begins(t, request)
  BY <1>1, <1>2, <1>3, AskTypes, AskBegins
<1>5. TypeOK'
  BY <1>1, <1>4 DEF IInv, TypeOK
<1>6. Receipted' /\ NothingStale'
  BY <1>1, KeptReceipt, SameLog DEF IInv, NothingStale
<1> QED BY <1>1, <1>3, <1>4, <1>5, <1>6, BeginStep DEF KeepsAttempt

(* Sending again is never the first sending: had the window not heard of   *)
(* the first, its coroutine would count and the buttons be locked.         *)
LEMMA AgainStep ==
    ASSUME IInv, NEW t \in Tasks, NEW kind \in {"send", "recover"}, Again(t, kind)
    PROVE  IInv'
<1> DEFINE request == [kind |-> kind, actor |-> credential, attempt |-> attempt]
<1>1. /\ UNCHANGED <<rev, facts, log, drawn, acknowledged, refused, credential, attempt, receipt,
                     metadata, list>>
      /\ attempt # None /\ ~busy /\ busy' = TRUE
      /\ Ask(tasks, t, request)
  BY DEF Again, Dispatch, logVars, keyVars, view
<1>2. credential \in Credentials /\ Coroutines /\ attempt \in Attempts
  BY <1>1 DEF IInv, TypeOK
<1>3. \A s \in DOMAIN tasks : ~Current(s)
  BY <1>1, Idle DEF IInv
<1>4. WellFormed(request) /\ request.kind = kind /\ request.actor = credential
      /\ request.attempt = attempt
  BY <1>2 DEF WellFormed, Requests
<1> HIDE DEF request
<1>5. Coroutines' /\ Begins(t, request)
  BY <1>1, <1>2, <1>3, <1>4, AskTypes, AskBegins
<1>6. TypeOK'
  BY <1>1, <1>5 DEF IInv, TypeOK
<1>7. Receipted' /\ NothingStale'
  BY <1>1, KeptReceipt, SameLog DEF IInv, NothingStale
<1>8. attempt.uncertain
  BY <1>1, <1>3, InDoubt DEF IInv
<1>9. request.kind # "list"
  BY <1>4
<1> QED BY <1>1, <1>4, <1>5, <1>6, <1>7, <1>8, <1>9, BeginStep DEF KeepsAttempt

LEMMA SubmitStep ==
    ASSUME IInv, NEW t \in Tasks, NEW key \in Keys, NEW intent \in Intents,
           Submit(t, key, intent)
    PROVE  IInv'
<1> DEFINE a == [key |-> key, intent |-> intent, uncertain |-> FALSE]
           request == [kind |-> "send", actor |-> credential, attempt |-> a]
<1>1. /\ UNCHANGED <<rev, facts, log, acknowledged, refused, credential, metadata, list>>
      /\ attempt = None /\ ~busy /\ busy' = TRUE /\ attempt' = a /\ receipt' = None
      /\ key \notin drawn /\ drawn' = drawn \cup {key}
      /\ Ask(tasks, t, request)
  BY DEF Submit, Unlocked, Dispatch, logVars
<1>2. credential \in Credentials /\ Coroutines
  BY DEF IInv, TypeOK
<1>3. \A s \in DOMAIN tasks \ {t} : ~Current(s)
  BY <1>1, Idle DEF IInv
<1>4. a \in Attempts /\ a.key = key /\ a # None
  <2>1. a \in Attempts /\ a.key = key
    BY DEF Attempts
  <2> QED BY <2>1, RuntimeAssumption
<1>5. WellFormed(request) /\ request.kind = "send" /\ request.actor = credential
      /\ request.attempt = a
  BY <1>2, <1>4 DEF WellFormed, Requests
<1> HIDE DEF a, request
<1>6. Coroutines' /\ Begins(t, request)
  BY <1>1, <1>2, <1>3, <1>5, AskTypes, AskBegins
<1>7. TypeOK'
  BY <1>1, <1>4, <1>6 DEF IInv, TypeOK
<1>8. \A s \in DOMAIN tasks' : ReplyOK(s)'
  BY <1>1, <1>6, BeginsReplies DEF IInv
<1>9. Serving'
  <2>1. request.kind # "list"
    BY <1>5
  <2> QED BY <2>1, <1>1, <1>4, <1>5, <1>6, BeginsServing
<1>10. Intended' /\ FirstSending'
  BY <1>1, <1>4, <1>5, <1>6, DrawnIntended, DrawnFirst DEF IInv
<1>11. NothingForgotten'
  <2>1. \A k : Travelling(k)' => Travelling(k) \/ (attempt' # None /\ attempt'.key = k)
    BY <1>1, <1>4, <1>5, <1>6, BeginsTravel
  <2>2. \A k : CommittedKey(k)' <=> CommittedKey(k)
    BY <1>1, SameLog
  <2> QED BY <1>1, <1>4, <2>1, <2>2, ForgetsNothing DEF IInv
<1>12. Receipted' /\ NothingStale'
  BY <1>1 DEF IInv, Receipted, NothingStale
<1> QED BY <1>7, <1>8, <1>9, <1>10, <1>11, <1>12 DEF IInv

-----------------------------------------------------------------------------
(* The coroutines.                                                         *)

LEMMA TimeoutStep ==
    ASSUME IInv, NEW t \in Tasks, Timeout(t)
    PROVE  IInv'
<1>1. /\ UNCHANGED <<rev, facts, log, drawn, acknowledged, refused, credential, attempt, receipt,
                     metadata, list, busy, network>>
      /\ tasks' = IF t \in DOMAIN tasks /\ tasks[t].reply = Waiting
                  THEN Replied(t, Unknown) ELSE tasks
  BY DEF Timeout, logVars, keyVars, view, Replied
<1>2. Coroutines
  BY DEF IInv, TypeOK
<1>3. /\ Hears(t, Unknown)
      /\ DOMAIN tasks' \subseteq Tasks
      /\ \A s \in DOMAIN tasks' :
            Suspended(s)' /\ tasks'[s].stale \in BOOLEAN /\ WellFormed(tasks'[s].request)
  BY <1>1, <1>2, HearTypes
<1>4. TypeOK'
  BY <1>1, <1>2, <1>3 DEF IInv, TypeOK, Coroutines
<1>5. LogGrows /\ \A key : CommittedKey(key)' <=> CommittedKey(key)
  BY <1>1, SameLog
<1>6. \A s \in DOMAIN tasks' : ReplyOK(s)'
  <2>1. Good(tasks[t].request, Unknown)'
    BY Answers DEF Good
  <2> QED BY <1>1, <1>3, <1>5, <2>1, Answers, HearsReplies DEF IInv
<1>7. Serving'
  BY <1>1, <1>3, HearsServing DEF IInv
<1>8. Intended'
  BY <1>1, LessIntended DEF IInv, KeepsAttempt
<1>9. FirstSending'
  BY <1>1, <1>3, <1>5, HearsFirst DEF IInv
<1>10. NothingForgotten'
  <2>1. \A key : Travelling(key)' => Travelling(key)
    BY <1>1 DEF Travelling
  <2> QED BY <1>1, <1>5, <2>1, ForgetsNothing DEF IInv
<1>11. Receipted' /\ NothingStale'
  BY <1>1, <1>5, KeptReceipt DEF IInv, NothingStale
<1> QED BY <1>4, <1>6, <1>7, <1>8, <1>9, <1>10, <1>11 DEF IInv

LEMMA ResumeStaleStep ==
    ASSUME IInv, NEW t \in Tasks, ResumeStale(t)
    PROVE  IInv'
<1>1. /\ UNCHANGED <<rev, facts, log, drawn, acknowledged, refused, credential, attempt, receipt,
                     metadata, list, busy, network>>
      /\ t \in DOMAIN tasks /\ ~Current(t) /\ tasks' = Drop(tasks, t)
  BY DEF ResumeStale, Answered, logVars, keyVars, view
<1>2. Coroutines' /\ Ends(t)
  BY <1>1, DropTypes DEF IInv, TypeOK
<1>3. TypeOK'
  BY <1>1, <1>2 DEF IInv, TypeOK
<1>4. LogGrows /\ \A key : CommittedKey(key)' <=> CommittedKey(key)
  BY <1>1, SameLog
<1>5. \A s \in DOMAIN tasks' : ReplyOK(s)'
  BY <1>1, <1>2, EndsReplies DEF IInv
<1>6. Serving'
  BY <1>1, <1>2, EndsStaleServing DEF IInv
<1>7. Intended'
  BY <1>1, LessIntended DEF IInv, KeepsAttempt
<1>8. FirstSending'
  <2>1. \A s \in DOMAIN tasks : Current(s) => s \in DOMAIN tasks' /\ tasks'[s] = tasks[s]
    BY <1>1, <1>2 DEF Ends
  <2> QED BY <1>1, <1>4, <2>1, StillFirst DEF IInv
<1>9. NothingForgotten'
  <2>1. \A key : Travelling(key)' => Travelling(key)
    BY <1>1 DEF Travelling
  <2> QED BY <1>1, <1>4, <2>1, ForgetsNothing DEF IInv
<1>10. Receipted' /\ NothingStale'
  BY <1>1, <1>4, KeptReceipt DEF IInv, NothingStale
<1> QED BY <1>3, <1>5, <1>6, <1>7, <1>8, <1>9, <1>10 DEF IInv

(* The answer is a receipt: the host's, of the pending request.            *)
LEMMA ResumeReceiptStep ==
    ASSUME IInv, NEW t \in Tasks, ResumeReceipt(t)
    PROVE  IInv'
<1> DEFINE asked == tasks[t].request
           value == tasks[t].reply.value
           request == Load("metadata", asked.actor)
<1>1. /\ UNCHANGED <<rev, facts, log, drawn, refused, credential, metadata, list, busy>>
      /\ t \in DOMAIN tasks /\ Current(t) /\ asked.kind \in {"send", "recover"}
      /\ tasks[t].reply.is = "ok"
      /\ receipt' = value /\ attempt' = None
      /\ acknowledged' = acknowledged \cup {asked.attempt.key}
      /\ Ask(tasks, t, request)
  BY DEF ResumeReceipt, Answered, logVars
<1>2. /\ busy /\ \A s \in DOMAIN tasks \ {t} : ~Current(s)
      /\ asked.actor = credential /\ attempt # None /\ asked.attempt = attempt
  BY <1>1, Sole DEF IInv, CurrentOK, Asks
<1>3. credential \in Credentials /\ Coroutines /\ busy = TRUE
  BY <1>2 DEF IInv, TypeOK
<1>4. WellFormed(request) /\ ~Asks(request) /\ request.kind = "metadata"
      /\ request.actor = credential
  BY <1>2, <1>3, LoadForm
<1>5. value.pk = <<credential, attempt.key>> /\ value.rev \in DOMAIN log
      /\ log[value.rev].pk = value.pk
  BY <1>1, <1>2 DEF IInv, ReplyOK, Good, Asks, PkOf
<1> HIDE DEF request, value
<1>6. Coroutines' /\ Begins(t, request)
  BY <1>1, <1>2, <1>3, <1>4, AskTypes, AskBegins
<1>7. attempt.key \in drawn /\ CommittedKey(attempt.key) /\ attempt.key \in acknowledged'
  BY <1>1, <1>2, <1>5, CarriedForm DEF IInv, Intended, CommittedKey
<1>8. TypeOK'
  BY <1>1, <1>2, <1>6, <1>7 DEF IInv, TypeOK
<1>9. Receipted' /\ NothingStale'
  BY <1>1, <1>5, <1>7 DEF IInv, Receipted, ReceiptIsTrue, NothingStale
<1> QED BY <1>1, <1>3, <1>4, <1>6, <1>7, <1>8, <1>9, BeginStep DEF KeepsAttempt

LEMMA ResumeMetadataStep ==
    ASSUME IInv, NEW t \in Tasks, ResumeMetadata(t)
    PROVE  IInv'
<1> DEFINE asked == tasks[t].request
           value == tasks[t].reply.value
           request == Load("list", asked.actor)
<1>1. /\ UNCHANGED <<rev, facts, log, drawn, acknowledged, refused, credential, attempt, receipt,
                     list, busy>>
      /\ t \in DOMAIN tasks /\ Current(t) /\ asked.kind = "metadata"
      /\ tasks[t].reply.is = "ok"
      /\ metadata' = value
      /\ Ask(tasks, t, request)
  BY DEF ResumeMetadata, Answered, logVars, keyVars
<1>2. /\ busy /\ \A s \in DOMAIN tasks \ {t} : ~Current(s)
      /\ asked.actor = credential
  BY <1>1, Sole DEF IInv, CurrentOK
<1>3. credential \in Credentials /\ Coroutines /\ busy = TRUE
  BY <1>2 DEF IInv, TypeOK
<1>4. WellFormed(request) /\ ~Asks(request) /\ request.kind = "list"
      /\ request.actor = credential
  BY <1>2, <1>3, LoadForm
<1>5. value \in Metadata /\ value.actor = credential
  BY <1>1, <1>2 DEF IInv, ReplyOK, Good
<1>6. attempt = None \/ attempt.uncertain
  BY <1>1, <1>2, InDoubt DEF IInv
<1> HIDE DEF request, value
<1>7. Coroutines' /\ Begins(t, request)
  BY <1>1, <1>2, <1>3, <1>4, AskTypes, AskBegins
<1>8. TypeOK'
  BY <1>1, <1>5, <1>7 DEF IInv, TypeOK
<1>9. metadata' # None
  BY <1>1, <1>5, RuntimeAssumption
<1>10. Receipted' /\ NothingStale'
  BY <1>1, <1>5, <1>9, KeptReceipt, SameLog DEF IInv, NothingStale
<1> QED BY <1>1, <1>3, <1>4, <1>6, <1>7, <1>8, <1>9, <1>10, BeginStep DEF KeepsAttempt

(* The coroutine that counted is done.                                     *)
LEMMA DoneStep ==
    ASSUME IInv, TypeOK', Receipted', NothingStale',
           UNCHANGED <<rev, log, drawn, acknowledged>>, refused \subseteq refused',
           NEW t \in DOMAIN tasks, Current(t), Ends(t), busy' = FALSE,
           KeepsAttempt, attempt' = None \/ attempt'.uncertain,
           attempt # None => \/ attempt' # None
                             \/ \E key : /\ key = attempt.key /\ key \in refused'
                                         /\ ~CommittedKey(key) /\ ~Travelling(key)
    PROVE  IInv'
<1>1. \A s \in DOMAIN tasks' : ReplyOK(s)'
  BY EndsReplies DEF IInv
<1>2. Serving'
  BY EndsServing DEF IInv
<1>3. network' = network
  BY DEF Ends
<1>4. Intended'
  BY <1>3, LessIntended DEF IInv
<1>5. FirstSending'
  BY DEF FirstSending
<1>6. NothingForgotten'
  <2>1. \A key : Travelling(key)' <=> Travelling(key)
    BY <1>3 DEF Travelling
  <2>2. \A key : CommittedKey(key)' <=> CommittedKey(key)
    BY SameLog
  <2> QED BY <2>1, <2>2, ForgetsNothing DEF IInv, KeepsAttempt
<1> QED BY <1>1, <1>2, <1>4, <1>5, <1>6 DEF IInv

LEMMA ResumeNoReceiptStep ==
    ASSUME IInv, NEW t \in Tasks, ResumeNoReceipt(t)
    PROVE  IInv'
<1>1. /\ UNCHANGED <<rev, facts, log, drawn, acknowledged, refused, credential, attempt, receipt,
                     metadata, list, network>>
      /\ t \in DOMAIN tasks /\ Current(t) /\ tasks[t].request.kind = "recover"
      /\ busy' = FALSE /\ tasks' = Drop(tasks, t)
  BY DEF ResumeNoReceipt, Answered, Done, logVars
<1>2. Coroutines' /\ Ends(t)
  BY <1>1, DropTypes DEF IInv, TypeOK
<1>3. TypeOK'
  BY <1>1, <1>2 DEF IInv, TypeOK
<1>4. attempt = None \/ attempt.uncertain
  BY <1>1, Sole, InDoubt DEF IInv
<1>5. Receipted' /\ NothingStale'
  BY <1>1, KeptReceipt, SameLog DEF IInv, NothingStale
<1> QED BY <1>1, <1>2, <1>3, <1>4, <1>5, DoneStep DEF KeepsAttempt

(* The outcome is unknown: the request stays, in doubt.                    *)
LEMMA ResumeUnknownStep ==
    ASSUME IInv, NEW t \in Tasks, ResumeUnknown(t)
    PROVE  IInv'
<1> DEFINE a == tasks[t].request.attempt
<1>1. /\ UNCHANGED <<rev, facts, log, drawn, acknowledged, refused, credential, receipt,
                     metadata, list, network>>
      /\ t \in DOMAIN tasks /\ Current(t) /\ tasks[t].request.kind \in {"send", "recover"}
      /\ attempt' = [a EXCEPT !.uncertain = TRUE]
      /\ busy' = FALSE /\ tasks' = Drop(tasks, t)
  BY DEF ResumeUnknown, Answered, Done, logVars
<1>2. attempt # None /\ a = attempt /\ a \in Attempts
  BY <1>1, Sole DEF IInv, CurrentOK, Asks, TypeOK
<1> HIDE DEF a
<1>3. /\ attempt' \in Attempts /\ attempt'.key = attempt.key
      /\ attempt'.intent = attempt.intent /\ attempt'.uncertain = TRUE
  BY <1>1, <1>2 DEF Attempts
<1>4. attempt' # None
  BY <1>3, RuntimeAssumption
<1>5. Coroutines' /\ Ends(t)
  BY <1>1, DropTypes DEF IInv, TypeOK
<1>6. TypeOK'
  BY <1>1, <1>3, <1>5 DEF IInv, TypeOK
<1>7. Receipted' /\ NothingStale'
  BY <1>1, KeptReceipt, SameLog DEF IInv, NothingStale
<1> QED BY <1>1, <1>2, <1>3, <1>4, <1>5, <1>6, <1>7, DoneStep DEF KeepsAttempt

(* A refusal takes nothing off the screen but what was read.               *)
LEMMA FailureShown ==
    ASSUME IInv, NEW t, ShowFailure(t), log' = log, acknowledged' = acknowledged
    PROVE  /\ UNCHANGED <<rev, facts, log, credential, network, drawn>>
           /\ busy' = FALSE /\ tasks' = Drop(tasks, t)
           /\ metadata' \in {metadata, None} /\ Receipted' /\ NothingStale'
<1>1. /\ UNCHANGED <<rev, facts, log, credential, network, drawn>>
      /\ busy' = FALSE /\ tasks' = Drop(tasks, t)
  BY DEF ShowFailure, Done, logVars
<1>2. \/ metadata' = None /\ list' = None /\ receipt' = None
      \/ UNCHANGED <<metadata, list, receipt>>
  BY DEF ShowFailure
<1>3. Receipted'
  BY <1>1, <1>2, KeptReceipt, SameLog DEF IInv
<1>4. NothingStale'
  BY <1>1, <1>2 DEF IInv, NothingStale
<1> QED BY <1>1, <1>2, <1>3, <1>4

(* A first sending is refused: it has had no effect, and as it was the only *)
(* one, it will have none.  A retry may be refused while the first sending *)
(* is still under way: it stays.                                           *)
LEMMA ResumeRefusedStep ==
    ASSUME IInv, NEW t \in Tasks, ResumeRefused(t)
    PROVE  IInv'
<1> DEFINE asked == tasks[t].request
<1>1. /\ UNCHANGED <<rev, facts, log, credential, network, drawn, acknowledged>>
      /\ t \in DOMAIN tasks /\ Current(t) /\ asked.kind \in {"send", "recover"}
      /\ tasks[t].reply \in {Denied, Refused}
      /\ busy' = FALSE /\ tasks' = Drop(tasks, t)
      /\ metadata' \in {metadata, None} /\ Receipted' /\ NothingStale'
      /\ \/ /\ asked.kind = "send" /\ ~asked.attempt.uncertain
            /\ attempt' = None /\ refused' = refused \cup {asked.attempt.key}
         \/ /\ asked.kind # "send" \/ asked.attempt.uncertain
            /\ UNCHANGED <<attempt, refused>>
  <2>1. /\ t \in DOMAIN tasks /\ Current(t) /\ asked.kind \in {"send", "recover"}
        /\ tasks[t].reply \in {Denied, Refused} /\ ShowFailure(t)
        /\ acknowledged' = acknowledged
        /\ \/ /\ asked.kind = "send" /\ ~asked.attempt.uncertain
              /\ attempt' = None /\ refused' = refused \cup {asked.attempt.key}
           \/ /\ asked.kind # "send" \/ asked.attempt.uncertain
              /\ UNCHANGED <<attempt, refused>>
    BY DEF ResumeRefused, Answered, GivesUp
  <2>2. log' = log
    BY <2>1 DEF ShowFailure, Done, logVars
  <2> QED BY <2>1, <2>2, FailureShown
<1>2. attempt # None /\ asked.attempt = attempt
  BY <1>1, Sole DEF IInv, CurrentOK, Asks
<1>3. attempt.key \in drawn
  BY <1>2, CarriedForm DEF IInv, Intended
<1>4. Coroutines' /\ Ends(t)
  BY <1>1, DropTypes DEF IInv, TypeOK
<1>5. TypeOK'
  BY <1>1, <1>2, <1>3, <1>4 DEF IInv, TypeOK
<1>6. CASE asked.kind = "send" /\ ~asked.attempt.uncertain
  <2>1. PICK t0 \in DOMAIN tasks : SentOnce(t0)
    BY <1>2, <1>6 DEF IInv, FirstSending
  <2>2. t0 = t
    BY <1>1, <2>1 DEF IInv, Serving, SentOnce
  <2>3. ~CommittedKey(attempt.key) /\ ~Travelling(attempt.key)
    BY <1>1, <2>1, <2>2 DEF SentOnce
  <2> QED BY <1>1, <1>2, <1>4, <1>5, <1>6, <2>3, DoneStep DEF KeepsAttempt
<1>7. CASE ~(asked.kind = "send" /\ ~asked.attempt.uncertain)
  <2>1. attempt = None \/ attempt.uncertain
    BY <1>1, <1>7, Sole, InDoubt DEF IInv
  <2> QED BY <1>1, <1>4, <1>5, <1>7, <2>1, DoneStep DEF KeepsAttempt
<1> QED BY <1>6, <1>7

LEMMA ResumeListStep ==
    ASSUME IInv, NEW t \in Tasks, ResumeList(t)
    PROVE  IInv'
<1>1. /\ UNCHANGED <<rev, facts, log, drawn, acknowledged, refused, credential, attempt, receipt,
                     metadata, network>>
      /\ t \in DOMAIN tasks /\ Current(t) /\ tasks[t].request.kind = "list"
      /\ tasks[t].reply.is = "ok" /\ list' = tasks[t].reply.value
      /\ busy' = FALSE /\ tasks' = Drop(tasks, t)
  BY DEF ResumeList, Answered, Done, logVars
<1>2. /\ metadata # None
      /\ tasks[t].reply.value.actor = credential
  BY <1>1, Sole DEF IInv, ReplyOK, Good, CurrentOK
<1>3. Coroutines' /\ Ends(t)
  BY <1>1, DropTypes DEF IInv, TypeOK
<1>4. TypeOK'
  BY <1>1, <1>3 DEF IInv, TypeOK
<1>5. attempt = None \/ attempt.uncertain
  BY <1>1, Sole, InDoubt DEF IInv
<1>6. Receipted' /\ NothingStale'
  BY <1>1, <1>2, KeptReceipt, SameLog DEF IInv, NothingStale
<1> QED BY <1>1, <1>3, <1>4, <1>5, <1>6, DoneStep DEF KeepsAttempt

LEMMA ResumeLoadFailedStep ==
    ASSUME IInv, NEW t \in Tasks, ResumeLoadFailed(t)
    PROVE  IInv'
<1>1. /\ UNCHANGED <<attempt, acknowledged, refused>>
      /\ t \in DOMAIN tasks /\ Current(t) /\ tasks[t].request.kind \in {"metadata", "list"}
      /\ ShowFailure(t)
  BY DEF ResumeLoadFailed, Answered
<1>2. log' = log
  BY <1>1 DEF ShowFailure, Done, logVars
<1>3. /\ UNCHANGED <<rev, facts, log, credential, network, drawn>>
      /\ busy' = FALSE /\ tasks' = Drop(tasks, t)
      /\ metadata' \in {metadata, None} /\ Receipted' /\ NothingStale'
  BY <1>1, <1>2, FailureShown
<1>4. Coroutines' /\ Ends(t)
  BY <1>3, DropTypes DEF IInv, TypeOK
<1>5. TypeOK'
  BY <1>1, <1>3, <1>4 DEF IInv, TypeOK
<1>6. attempt = None \/ attempt.uncertain
  BY <1>1, Sole, InDoubt DEF IInv
<1> QED BY <1>1, <1>3, <1>4, <1>5, <1>6, DoneStep DEF KeepsAttempt

-----------------------------------------------------------------------------
(* The host and the rest of the world.                                     *)

LEMMA ReplyEffect ==
    ASSUME IInv, NEW t, NEW reply, Reply(t, reply)
    PROVE  /\ UNCHANGED <<credential, metadata, list, receipt, attempt, busy, drawn,
                          acknowledged, refused>>
           /\ Leaves(t) /\ Hears(t, reply) /\ Coroutines'
<1>1. /\ network' = Drop(network, t)
      /\ tasks' = IF t \in DOMAIN tasks /\ tasks[t].reply = Waiting
                  THEN Replied(t, reply) ELSE tasks
      /\ UNCHANGED <<credential, metadata, list, receipt, attempt, busy, drawn,
                     acknowledged, refused>>
  BY DEF Reply, Replied, view, keyVars
<1>2. Coroutines
  BY DEF IInv, TypeOK
<1>3. /\ Leaves(t) /\ DOMAIN network' \subseteq Tasks
      /\ \A s \in DOMAIN network' : WellFormed(network'[s])
  BY <1>1, <1>2, LoseTypes
<1>4. /\ Hears(t, reply) /\ DOMAIN tasks' \subseteq Tasks
      /\ \A s \in DOMAIN tasks' :
            Suspended(s)' /\ tasks'[s].stale \in BOOLEAN /\ WellFormed(tasks'[s].request)
  BY <1>1, <1>2, HearTypes
<1> QED BY <1>1, <1>3, <1>4 DEF Coroutines

(* An answer that comes with no commit.                                    *)
LEMMA AnswerStep ==
    ASSUME IInv, NEW t \in DOMAIN network, NEW reply, Reply(t, reply),
           UNCHANGED <<rev, facts, log>>, reply # Waiting, Good(network[t], reply)
    PROVE  IInv'
<1>1. /\ UNCHANGED <<credential, metadata, list, receipt, attempt, busy, drawn,
                     acknowledged, refused>>
      /\ Leaves(t) /\ Hears(t, reply) /\ Coroutines'
  BY ReplyEffect
<1>2. LogGrows /\ \A key : CommittedKey(key)' <=> CommittedKey(key)
  BY SameLog
<1>3. TypeOK'
  BY <1>1 DEF IInv, TypeOK
<1>4. \A s \in DOMAIN tasks' : ReplyOK(s)'
  <2>1. t \in DOMAIN tasks /\ tasks[t].reply = Waiting => Good(tasks'[t].request, reply)
    BY <1>1 DEF IInv, ReplyOK, Hears
  <2>2. t \in DOMAIN tasks /\ tasks[t].reply = Waiting => Good(tasks[t].request, reply)'
    BY <2>1 DEF Good, Asks, PkOf
  <2> QED BY <1>1, <1>2, <2>2, HearsReplies DEF IInv
<1>5. Serving'
  BY <1>1, HearsServing DEF IInv
<1>6. Intended'
  BY <1>1, LessIntended DEF IInv, KeepsAttempt
<1>7. FirstSending'
  BY <1>1, <1>2, HearsFirst DEF IInv
<1>8. NothingForgotten'
  <2>1. \A key : Travelling(key)' => Travelling(key)
    BY <1>1, FewerTravel
  <2> QED BY <1>1, <1>2, <2>1, ForgetsNothing DEF IInv
<1>9. Receipted' /\ NothingStale'
  BY <1>1, <1>2, KeptReceipt DEF IInv, NothingStale
<1> QED BY <1>3, <1>4, <1>5, <1>6, <1>7, <1>8, <1>9 DEF IInv

LEMMA LoseStep ==
    ASSUME IInv, NEW t \in Tasks, Lose(t)
    PROVE  IInv'
<1>1. /\ UNCHANGED <<rev, facts, log, credential, metadata, list, receipt, attempt, busy, drawn,
                     acknowledged, refused, tasks>>
      /\ network' = Drop(network, t)
  BY DEF Lose, logVars, windowVars, keyVars
<1>2. Leaves(t) /\ Coroutines'
  <2>1. Coroutines
    BY DEF IInv, TypeOK
  <2>2. Leaves(t) /\ DOMAIN network' \subseteq Tasks
        /\ \A s \in DOMAIN network' : WellFormed(network'[s])
    BY <1>1, <2>1, LoseTypes
  <2> QED BY <1>1, <2>1, <2>2 DEF Coroutines, Suspended
<1>3. LogGrows /\ \A key : CommittedKey(key)' <=> CommittedKey(key)
  BY <1>1, SameLog
<1>4. TypeOK'
  BY <1>1, <1>2 DEF IInv, TypeOK
<1>5. \A s \in DOMAIN tasks' : ReplyOK(s)'
  BY <1>1, <1>2, <1>3, StillReplies DEF IInv
<1>6. Serving'
  BY <1>1 DEF IInv, Serving, Current, CurrentOK
<1>7. Intended'
  BY <1>1, <1>2, LessIntended DEF IInv, KeepsAttempt
<1>8. FirstSending'
  BY <1>1, <1>2, <1>3, StillFirst DEF IInv
<1>9. NothingForgotten'
  <2>1. \A key : Travelling(key)' => Travelling(key)
    BY <1>2, FewerTravel
  <2> QED BY <1>1, <1>3, <2>1, ForgetsNothing DEF IInv
<1>10. Receipted' /\ NothingStale'
  BY <1>1, <1>3, KeptReceipt DEF IInv, NothingStale
<1> QED BY <1>4, <1>5, <1>6, <1>7, <1>8, <1>9, <1>10 DEF IInv

LEMMA OtherClientStep ==
    ASSUME IInv, NEW pk \in OtherPks, NEW intent \in Intents, OtherClient(pk, intent)
    PROVE  IInv'
<1>1. /\ UNCHANGED <<credential, metadata, list, receipt, attempt, busy, drawn,
                     acknowledged, refused, tasks, network>>
      /\ Apply(pk, intent)
  BY DEF OtherClient, windowVars, keyVars
<1>2. LogGrows /\ \A key : CommittedKey(key)' <=> CommittedKey(key) \/ pk[2] = key
  BY <1>1, CommitGrows DEF IInv
<1>3. \A key \in Keys : CommittedKey(key)' <=> CommittedKey(key)
  BY <1>2, RuntimeAssumption
<1>4. TypeOK'
  <2>1. rev' \in Nat /\ facts' \in [Records -> Rows]
    BY <1>1, ApplyEffect DEF IInv
  <2> QED BY <1>1, <2>1 DEF IInv, TypeOK, Coroutines, Suspended
<1>5. \A s \in DOMAIN tasks' : ReplyOK(s)'
  BY <1>1, <1>2, StillReplies DEF IInv
<1>6. Serving'
  BY <1>1 DEF IInv, Serving, Current, CurrentOK
<1>7. Intended'
  BY <1>1, OtherIntended DEF IInv
<1>8. FirstSending'
  BY <1>1, <1>3, StillFirst DEF IInv
<1>9. NothingForgotten'
  <2>1. \A key : Travelling(key)' => Travelling(key)
    BY <1>1 DEF Travelling
  <2>2. drawn \subseteq Keys
    BY DEF IInv, TypeOK
  <2> QED BY <1>1, <1>3, <2>1, <2>2, ForgetsNothing DEF IInv
<1>10. Receipted' /\ NothingStale'
  BY <1>1, <1>2, KeptReceipt DEF IInv, NothingStale
<1> QED BY <1>4, <1>5, <1>6, <1>7, <1>8, <1>9, <1>10 DEF IInv

(* A commit: of a request under way, which is answered with its receipt,   *)
(* or with an error that leaves its outcome unknown.                       *)
LEMMA HostCommitsStep ==
    ASSUME IInv, NEW t \in Tasks, HostCommits(t)
    PROVE  IInv'
<1> DEFINE pk == PkOf(network[t])
           intent == network[t].attempt.intent
<1>1. t \in Sends /\ t \in DOMAIN network /\ Apply(pk, intent)
  BY DEF HostCommits, Arrived, Sends
<1>2. PICK reply : Reply(t, reply) /\ reply \in {Ok(ReceiptOf(pk, rev')), Unknown}
  BY DEF HostCommits
<1>3. network[t].kind = "send" /\ network[t].attempt \in Attempts /\ intent \in Intents
  BY <1>1 DEF IInv, TypeOK, Coroutines, WellFormed, Asks, Sends, Attempts
<1>4. pk[2] = network[t].attempt.key
  BY DEF PkOf
<1>5. /\ UNCHANGED <<credential, metadata, list, receipt, attempt, busy, drawn,
                     acknowledged, refused>>
      /\ Leaves(t) /\ Hears(t, reply) /\ Coroutines'
  BY <1>2, ReplyEffect
<1>6. /\ rev' = rev + 1 /\ rev' \in Nat /\ facts' \in [Records -> Rows]
      /\ rev' \in DOMAIN log' /\ log'[rev'].pk = pk
  <2> HIDE DEF pk, intent
  <2>1. /\ rev' = rev + 1 /\ rev' \in Nat /\ facts' \in [Records -> Rows]
        /\ DOMAIN log' = DOMAIN log \cup {rev + 1}
        /\ log'[rev + 1] = [pk |-> pk, intent |-> intent]
    BY <1>1, <1>3, ApplyEffect DEF IInv
  <2>2. log'[rev + 1].pk = pk
    BY <2>1
  <2> QED BY <2>1, <2>2
<1> HIDE DEF pk, intent
<1>7. LogGrows /\ \A key : CommittedKey(key)' <=> CommittedKey(key) \/ pk[2] = key
  BY <1>1, <1>3, CommitGrows DEF IInv
<1>8. reply \notin {Waiting, Denied, Refused}
  BY <1>2, Answers
<1>9. TypeOK'
  BY <1>5, <1>6 DEF IInv, TypeOK
<1>10. \A s \in DOMAIN tasks' : ReplyOK(s)'
  <2>1. ASSUME t \in DOMAIN tasks, tasks[t].reply = Waiting
        PROVE  Good(tasks[t].request, reply)'
    <3>1. tasks'[t].request = network[t]
      BY <1>1, <1>5, <2>1 DEF IInv, ReplyOK, Hears
    <3>2. reply.is = "ok" => reply.value.pk = pk /\ reply.value.rev = rev'
      BY <1>2, Answers DEF ReceiptOf
    <3>3. PkOf(network[t]) = pk
      BY DEF pk
    <3>4. PkOf(tasks'[t].request) = pk
      BY <3>1, <3>3 DEF PkOf
    <3> QED BY <1>3, <1>6, <3>1, <3>2, <3>4 DEF Good, PkOf
  <2> QED BY <1>5, <1>7, <1>8, <2>1, HearsReplies DEF IInv
<1>11. Serving'
  BY <1>5, HearsServing DEF IInv
<1>12. Intended'
  BY <1>1, <1>5, CommitIntended DEF IInv, pk, intent
<1>13. FirstSending'
  BY <1>1, <1>4, <1>5, <1>7, <1>8, HearsFirst DEF IInv
<1>14. NothingForgotten'
  <2>1. \A key : Travelling(key)' => Travelling(key)
    BY <1>5, FewerTravel
  <2>2. \A key : pk[2] = key => Travelling(key)
    BY <1>1, <1>3, <1>4 DEF Travelling
  <2> QED BY <1>5, <1>7, <2>1, <2>2, ForgetsNothing DEF IInv
<1>15. Receipted' /\ NothingStale'
  BY <1>5, <1>7, KeptReceipt DEF IInv, NothingStale
<1> QED BY <1>9, <1>10, <1>11, <1>12, <1>13, <1>14, <1>15 DEF IInv

LEMMA HostStep ==
    ASSUME IInv, NEW t \in Tasks, Host(t)
    PROVE  IInv'
<1> DEFINE pk == PkOf(network[t])
<1>2. \A reply \in {Unknown, Denied, Refused, NotFound} :
         reply # Waiting /\ Good(network[t], reply)
  BY Answers DEF Good
<1>3. CASE HostDenies(t)
  BY <1>2, <1>3, AnswerStep DEF HostDenies, logVars
<1>4. CASE HostFails(t)
  BY <1>2, <1>4, AnswerStep DEF HostFails, logVars
<1>5. CASE HostCommits(t)
  BY <1>5, HostCommitsStep
<1>6. CASE HostReplays(t)
  <2>1. /\ t \in DOMAIN network /\ network[t].kind \in {"send", "recover"}
        /\ UNCHANGED <<rev, facts, log>>
    BY <1>6 DEF HostReplays, Arrived, logVars
  <2>2. PICK n \in Committed(pk) : Reply(t, Ok(ReceiptOf(pk, n)))
    BY <1>6 DEF HostReplays
  <2>3. PICK reply : reply = Ok(ReceiptOf(pk, n))
    OBVIOUS
  <2>4. reply # Waiting /\ reply.value.pk = pk /\ reply.value.rev = n
    BY <2>3, Answers DEF ReceiptOf
  <2>5. Good(network[t], reply)
    BY <2>1, <2>2, <2>4 DEF Good, Committed
  <2> QED BY <2>1, <2>2, <2>3, <2>4, <2>5, AnswerStep
<1>7. CASE HostRefuses(t)
  BY <1>2, <1>7, AnswerStep DEF HostRefuses, Arrived, logVars
<1>8. CASE HostHasNoReceipt(t)
  BY <1>2, <1>8, AnswerStep DEF HostHasNoReceipt, Arrived, logVars
<1>9. CASE HostDescribes(t)
  <2>1. /\ t \in DOMAIN network /\ network[t].kind = "metadata"
        /\ UNCHANGED <<rev, facts, log>>
    BY <1>9 DEF HostDescribes, Arrived, logVars
  <2>2. PICK value : value = [actor |-> network[t].actor, facts |-> facts] /\ Reply(t, Ok(value))
    BY <1>9 DEF HostDescribes
  <2>3. value \in Metadata /\ value.actor = network[t].actor
    BY <2>1, <2>2 DEF IInv, TypeOK, Coroutines, WellFormed, Requests, Metadata
  <2>4. Ok(value) # Waiting /\ Good(network[t], Ok(value))
    BY <2>1, <2>3, Answers DEF Good, Asks
  <2> QED BY <2>1, <2>2, <2>4, AnswerStep
<1>10. CASE HostLists(t)
  <2>1. /\ t \in DOMAIN network /\ network[t].kind = "list"
        /\ UNCHANGED <<rev, facts, log>>
    BY <1>10 DEF HostLists, Arrived, logVars
  <2>2. PICK value : value = [actor |-> network[t].actor, rev |-> rev] /\ Reply(t, Ok(value))
    BY <1>10 DEF HostLists
  <2>3. value.actor = network[t].actor
    BY <2>2
  <2>4. Ok(value) # Waiting /\ Good(network[t], Ok(value))
    BY <2>1, <2>3, Answers DEF Good, Asks
  <2> QED BY <2>1, <2>2, <2>4, AnswerStep
<1> QED BY <1>3, <1>4, <1>5, <1>6, <1>7, <1>8, <1>9, <1>10 DEF Host

-----------------------------------------------------------------------------
(* The invariant and what it implies.                                      *)

LEMMA InitIInv ==
    ASSUME Init
    PROVE  IInv
<1>1. TypeOK
  BY RuntimeAssumption DEF Init, TypeOK, Coroutines, Credentials
<1>2. Carried = {} /\ DOMAIN log = {} /\ DOMAIN tasks = {} /\ DOMAIN network = {}
  BY DEF Init, Carried, Sends
<1>3. Intended
  BY <1>2 DEF Intended, AtMostOnce
<1> QED BY <1>1, <1>2, <1>3 DEF Init, IInv, Serving, FirstSending, NothingForgotten, Receipted,
                                NothingStale

LEMMA StepIInv ==
    ASSUME IInv, [Next]_vars
    PROVE  IInv'
<1>1. ASSUME NEW c \in Credentials, EditCredential(c)
      PROVE  IInv'
  BY <1>1, EditCredentialStep
<1>2. ASSUME NEW t \in Tasks, Window(t)
      PROVE  IInv'
  BY <1>2, ConnectStep, RefreshStep, SelectTableStep, SubmitStep, AgainStep
     DEF Window, Retry, Recover
<1>3. ASSUME NEW t \in Tasks, Timeout(t)
      PROVE  IInv'
  BY <1>3, TimeoutStep
<1>4. ASSUME NEW t \in Tasks, Resume(t)
      PROVE  IInv'
  BY <1>4, ResumeStaleStep, ResumeReceiptStep, ResumeNoReceiptStep, ResumeUnknownStep,
     ResumeRefusedStep, ResumeMetadataStep, ResumeListStep, ResumeLoadFailedStep DEF Resume
<1>5. ASSUME NEW t \in Tasks, Host(t)
      PROVE  IInv'
  BY <1>5, HostStep
<1>6. ASSUME NEW t \in Tasks, Lose(t)
      PROVE  IInv'
  BY <1>6, LoseStep
<1>7. ASSUME NEW pk \in OtherPks, NEW intent \in Intents, OtherClient(pk, intent)
      PROVE  IInv'
  BY <1>7, OtherClientStep
<1>8. CASE UNCHANGED vars
  <2>1. UNCHANGED <<rev, facts, log, credential, metadata, list, attempt, receipt, busy, tasks,
                    network, drawn, acknowledged, refused>>
    BY <1>8 DEF vars, logVars, windowVars, keyVars
  <2>2. TypeOK'
    BY <2>1 DEF IInv, TypeOK, Coroutines, Suspended
  <2>3. \A s \in DOMAIN tasks' : ReplyOK(s)'
    BY <2>1 DEF IInv, ReplyOK, Good, PkOf
  <2>4. Serving'
    BY <2>1 DEF IInv, Serving, Current, CurrentOK
  <2>5. Intended'
    BY <2>1, LessIntended DEF IInv, KeepsAttempt
  <2>6. FirstSending' /\ NothingForgotten'
    BY <2>1 DEF IInv, FirstSending, SentOnce, Sends, Current, Travelling, CommittedKey,
                NothingForgotten
  <2>7. Receipted' /\ NothingStale'
    BY <2>1 DEF IInv, Receipted, ReceiptIsTrue, NothingStale
  <2> QED BY <2>2, <2>3, <2>4, <2>5, <2>6, <2>7 DEF IInv
<1> QED BY <1>1, <1>2, <1>3, <1>4, <1>5, <1>6, <1>7, <1>8 DEF Next

LEMMA BusyCounts ==
    ASSUME Serving
    PROVE  BusyIsOneCurrentTask
<1> DEFINE counting == {t \in DOMAIN tasks : Current(t)}
<1>1. CASE busy
  <2>1. PICK t \in DOMAIN tasks : Current(t)
    BY <1>1 DEF Serving
  <2>2. counting = {t}
    BY <2>1 DEF Serving
  <2>3. Cardinality({t}) = 1
    BY FS_Singleton
  <2> QED BY <1>1, <2>2, <2>3 DEF BusyIsOneCurrentTask
<1>2. CASE ~busy
  <2>1. counting = {}
    BY <1>2 DEF Serving
  <2> QED BY <1>2, <2>1, FS_EmptySet DEF BusyIsOneCurrentTask
<1> QED BY <1>1, <1>2

THEOREM Invariance == Spec => []IInv
<1>1. Init => IInv
  BY InitIInv
<1>2. IInv /\ [Next]_vars => IInv'
  BY StepIInv
<1> QED BY <1>1, <1>2, PTL DEF Spec

(* The buttons are locked exactly while one coroutine counts: however the  *)
(* credential is edited, connections repeated and answers delayed, there   *)
(* are never two, and the window is never left locked with none (busy of   *)
(* runtime.rs, raised by every request and cleared by every end of one).   *)
THEOREM BusyIsOne == Spec => []BusyIsOneCurrentTask
<1>1. IInv => BusyIsOneCurrentTask
  BY BusyCounts DEF IInv
<1> QED BY <1>1, Invariance, PTL

(* A request whose key was drawn is pending, or its receipt was shown and  *)
(* it is committed, or it was given up on a refusal, is not committed and  *)
(* never will be (dispatch and finish_receipt of runtime.rs).              *)
THEOREM NothingIsForgotten == Spec => []NothingForgotten
<1>1. IInv => NothingForgotten
  BY DEF IInv
<1> QED BY <1>1, Invariance, PTL

(* However often the same request is sent, lost, repeated or sent under    *)
(* another credential, the host has at most one command of its key.        *)
THEOREM TakesEffectOnce == Spec => []AtMostOnce
<1>1. IInv => AtMostOnce
  BY DEF IInv, Intended
<1> QED BY <1>1, Invariance, PTL

(* The receipt on the screen is the host's, of a command of the one who is *)
(* signed in now.                                                          *)
THEOREM ShownReceiptIsTrue == Spec => []ReceiptIsTrue
<1>1. IInv => ReceiptIsTrue
  BY DEF IInv, Receipted, ReceiptIsTrue
<1> QED BY <1>1, Invariance, PTL

(* What is shown was read with the credential the window now holds: an     *)
(* answer under way when it changed is ignored (generation, runtime.rs).   *)
THEOREM NothingShownIsStale == Spec => []NothingStale
<1>1. IInv => NothingStale
  BY DEF IInv
<1> QED BY <1>1, Invariance, PTL

(* The host this window talks to is the one CommandStore is shown to       *)
(* implement: whatever changes it is a command of the log.                 *)
THEOREM HostKeepsTheLog == Spec => [][LogNext]_logVars
<1>1. IInv /\ [Next]_vars => [LogNext]_logVars
  <2> SUFFICES ASSUME IInv, Next, ~UNCHANGED logVars
               PROVE  LogNext
    BY DEF vars
  <2>1. \A t \in Tasks : ~Window(t)
    BY DEF Window, Connect, Refresh, SelectTable, Submit, Retry, Recover, Again, Dispatch
  <2>2. \A t \in Tasks : ~Timeout(t) /\ ~Lose(t)
    BY DEF Timeout, Lose
  <2>3. \A t \in Tasks : ~Resume(t)
    BY DEF Resume, ResumeStale, ResumeReceipt, ResumeNoReceipt, ResumeUnknown, ResumeRefused,
           ResumeMetadata, ResumeList, ResumeLoadFailed, ShowFailure, Done
  <2>4. \A c \in Credentials : ~EditCredential(c)
    BY DEF EditCredential
  <2>5. CASE \E t \in Tasks : Host(t)
    <3>1. PICK t \in Tasks : HostCommits(t)
      BY <2>5 DEF Host, HostDenies, HostFails, HostReplays, HostRefuses, HostHasNoReceipt,
                  HostDescribes, HostLists
    <3>2. /\ t \in DOMAIN network /\ network[t].kind = "send" /\ network[t].actor \in Actors
          /\ Apply(PkOf(network[t]), network[t].attempt.intent)
      BY <3>1 DEF HostCommits, Arrived
    <3>3. network[t].attempt \in Attempts
      BY <3>2 DEF IInv, TypeOK, Coroutines, WellFormed, Asks
    <3>4. PkOf(network[t]) \in Pks /\ network[t].attempt.intent \in Intents
      BY <3>2, <3>3, RuntimeAssumption DEF PkOf, Attempts
    <3> QED BY <3>2, <3>4 DEF LogNext
  <2>6. CASE \E pk \in OtherPks, intent \in Intents : OtherClient(pk, intent)
    BY <2>6, RuntimeAssumption DEF OtherClient, LogNext
  <2> QED BY <2>1, <2>2, <2>3, <2>4, <2>5, <2>6 DEF Next
<1> QED BY <1>1, Invariance, PTL DEF Spec

=============================================================================
