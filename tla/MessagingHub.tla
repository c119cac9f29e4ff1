---------------------------- MODULE MessagingHub ----------------------------
(***************************************************************************)
(* The in-memory hub of the legacy backend and the SSE streams that read   *)
(* from it: a message for a user goes to every connection of that user, or *)
(* waits in the user's queue until one connects or it expires.             *)
(*                                                                         *)
(* One write lock guards connections and queue: connect, send, disconnect  *)
(* and the cleanup tick are each one step, except that connect replays the *)
(* queue it took after it has released the lock.                           *)
(***************************************************************************)
EXTENDS Naturals, Sequences, FiniteSets, Functions

CONSTANTS Users, Connections, Messages, None,
          Ttl,        \* offline_message_ttl
          MaxTime     \* bound on the clock

ASSUME HubAssumption == Ttl \in Nat \ {0} /\ MaxTime \in Nat

VARIABLES
    now,          \* Instant::now()
    connections,  \* per user, the registered connections
    queue,        \* per user, the messages waiting for one
    owner,        \* per connection, its user
    status,       \* per connection, see below
    replaying,    \* per connection, what connect took and has not yet passed on
    channel,      \* per connection, its unbounded mpsc channel
    received,     \* per connection, what its stream has yielded
    sent,         \* every message accepted so far, in order
    stored,       \* those that were queued
    expired,      \* those pruned from a queue
    lost          \* those still in a channel when its receiver was dropped

hubVars == <<connections, queue>>
streamVars == <<owner, status, replaying, channel, received>>
historyVars == <<sent, stored, expired, lost>>
vars == <<now, hubVars, streamVars, historyVars>>

(* new        the id is not drawn yet                                      *)
(* connecting registered, replaying, the handler has not returned          *)
(* connected  the response has begun, its stream is not polled yet         *)
(* streaming  polled at least once                                         *)
(* abandoned  dropped before the first poll: receiver and guard go in      *)
(*            either order                                                 *)
(* deaf       the receiver went first, the guard is still to come          *)
(* closing    dropped later: the guard goes first                          *)
(* closed                                                                  *)
Leaving == {"abandoned", "deaf", "closing"}

Init ==
    /\ now = 0
    /\ connections = [u \in Users |-> {}]
    /\ queue = [u \in Users |-> <<>>]
    /\ owner = [c \in Connections |-> None]
    /\ status = [c \in Connections |-> "new"]
    /\ replaying = [c \in Connections |-> <<>>]
    /\ channel = [c \in Connections |-> <<>>]
    /\ received = [c \in Connections |-> <<>>]
    /\ sent = <<>> /\ stored = {} /\ expired = {} /\ lost = {}

-----------------------------------------------------------------------------
(* What the hub does under its lock.                                       *)

Fresh(entry) == entry.expires > now

(* messages.retain: the fresh ones, in their order.                        *)
Retained(entries) ==
    LET kept[n \in 0..Len(entries)] ==
            IF n = 0 THEN <<>>
            ELSE IF Fresh(entries[n]) THEN Append(kept[n - 1], entries[n])
            ELSE kept[n - 1]
    IN  kept[Len(entries)]

Pruned(u) == Retained(queue[u])

(* prune_expired_messages, and then the queue of one user is rest.         *)
PruneAndSet(u, rest) ==
    /\ queue' = [v \in Users |-> IF v = u THEN rest ELSE Pruned(v)]
    /\ expired' = expired \cup
          {e.msg : e \in UNION {Range(queue[v]) \ Range(Pruned(v)) : v \in Users}}

Prune == \E u \in Users : PruneAndSet(u, Pruned(u))

Payloads(entries) == [i \in DOMAIN entries |-> entries[i].msg]

Connect(u, c) ==
    /\ status[c] = "new"
    /\ connections' = [connections EXCEPT ![u] = @ \cup {c}]
    /\ PruneAndSet(u, <<>>)
    /\ replaying' = [replaying EXCEPT ![c] = Payloads(Pruned(u))]
    /\ owner' = [owner EXCEPT ![c] = u]
    /\ status' = [status EXCEPT ![c] = "connecting"]
    /\ UNCHANGED <<now, channel, received, sent, stored, lost>>

(* Mutant: a send to a dropped receiver counts as a delivery.              *)
Listening_Registered(u) == connections[u]

(* deliver_to_active_connections: a sender whose receiver is gone fails    *)
(* and is unregistered.                                                    *)
Listening(u) == {c \in connections[u] : status[c] # "deaf"}

(* Mutants: the message is queued as well when one of several senders has  *)
(* failed; the queue is filled from the front.                             *)
Send_QueuesOnAnyFailure(u, m) ==
    /\ m \notin Range(sent)
    /\ connections' = [connections EXCEPT ![u] = Listening(u)]
    /\ channel' = [c \in Connections |->
          IF c \in Listening(u) THEN Append(channel[c], m) ELSE channel[c]]
    /\ IF Listening(u) = {} \/ Listening(u) # connections[u]
       THEN /\ PruneAndSet(u, Append(Pruned(u), [msg |-> m, expires |-> now + Ttl]))
            /\ stored' = stored \cup {m}
       ELSE Prune /\ UNCHANGED stored
    /\ sent' = Append(sent, m)
    /\ UNCHANGED <<now, owner, status, replaying, received, lost>>

Send_PushFront(u, m) ==
    /\ m \notin Range(sent)
    /\ connections' = [connections EXCEPT ![u] = Listening(u)]
    /\ channel' = [c \in Connections |->
          IF c \in Listening(u) THEN Append(channel[c], m) ELSE channel[c]]
    /\ IF Listening(u) = {}
       THEN /\ PruneAndSet(u, <<[msg |-> m, expires |-> now + Ttl]>> \o Pruned(u))
            /\ stored' = stored \cup {m}
       ELSE Prune /\ UNCHANGED stored
    /\ sent' = Append(sent, m)
    /\ UNCHANGED <<now, owner, status, replaying, received, lost>>

Send(u, m) ==
    /\ m \notin Range(sent)
    /\ connections' = [connections EXCEPT ![u] = Listening(u)]
    /\ channel' = [c \in Connections |->
          IF c \in Listening(u) THEN Append(channel[c], m) ELSE channel[c]]
    /\ IF Listening(u) = {}
       THEN /\ PruneAndSet(u, Append(Pruned(u), [msg |-> m, expires |-> now + Ttl]))
            /\ stored' = stored \cup {m}
       ELSE Prune /\ UNCHANGED stored
    /\ sent' = Append(sent, m)
    /\ UNCHANGED <<now, owner, status, replaying, received, lost>>

(* Dropping the receiver drops what its channel still holds.               *)
CloseChannel(c) ==
    /\ channel' = [channel EXCEPT ![c] = <<>>]
    /\ lost' = lost \cup Range(channel[c])

(* Mutant: the connection's id stays registered.                           *)
Disconnect_KeepsId(c) ==
    /\ status[c] \in Leaving
    /\ Prune
    /\ status' = [status EXCEPT ![c] = "closed"]
    /\ CloseChannel(c)
    /\ UNCHANGED <<now, connections, owner, replaying, received, sent, stored>>

(* disconnect, called when the stream's guard is dropped.                  *)
Disconnect(c) ==
    /\ status[c] \in Leaving
    /\ connections' = [connections EXCEPT ![owner[c]] = @ \ {c}]
    /\ Prune
    /\ status' = [status EXCEPT ![c] = "closed"]
    /\ CloseChannel(c)
    /\ UNCHANGED <<now, owner, replaying, received, sent, stored>>

(* The cleanup task's tick.                                                *)
Cleanup ==
    /\ Prune
    /\ UNCHANGED <<now, connections, streamVars, sent, stored, lost>>

-----------------------------------------------------------------------------
(* What happens outside the lock.                                          *)

(* One turn of connect's replay loop.                                      *)
Replay(c) ==
    /\ status[c] = "connecting"
    /\ replaying[c] # <<>>
    /\ channel' = [channel EXCEPT ![c] = Append(@, Head(replaying[c]))]
    /\ replaying' = [replaying EXCEPT ![c] = Tail(@)]
    /\ UNCHANGED <<now, hubVars, owner, status, received, historyVars>>

Connected(c) ==
    /\ status[c] = "connecting"
    /\ replaying[c] = <<>>
    /\ status' = [status EXCEPT ![c] = "connected"]
    /\ UNCHANGED <<now, hubVars, owner, replaying, channel, received, historyVars>>

(* The first poll yields system.ready, the later ones a message each.      *)
FirstPoll(c) ==
    /\ status[c] = "connected"
    /\ status' = [status EXCEPT ![c] = "streaming"]
    /\ UNCHANGED <<now, hubVars, owner, replaying, channel, received, historyVars>>

Poll(c) ==
    /\ status[c] = "streaming"
    /\ channel[c] # <<>>
    /\ received' = [received EXCEPT ![c] = Append(@, Head(channel[c]))]
    /\ channel' = [channel EXCEPT ![c] = Tail(@)]
    /\ UNCHANGED <<now, hubVars, owner, status, replaying, historyVars>>

(* The client is gone and the server drops the stream.                     *)
HangUp(c) ==
    /\ status[c] \in {"connected", "streaming"}
    /\ status' = [status EXCEPT ![c] = IF @ = "connected" THEN "abandoned" ELSE "closing"]
    /\ UNCHANGED <<now, hubVars, owner, replaying, channel, received, historyVars>>

DropReceiver(c) ==
    /\ status[c] = "abandoned"
    /\ status' = [status EXCEPT ![c] = "deaf"]
    /\ CloseChannel(c)
    /\ UNCHANGED <<now, hubVars, owner, replaying, received, sent, stored, expired>>

Tick ==
    /\ now < MaxTime
    /\ now' = now + 1
    /\ UNCHANGED <<hubVars, streamVars, historyVars>>

Stream(c) ==
    \/ Replay(c) \/ Connected(c) \/ FirstPoll(c) \/ Poll(c)
    \/ DropReceiver(c) \/ Disconnect(c)

Next ==
    \/ \E u \in Users, c \in Connections : Connect(u, c)
    \/ \E u \in Users, m \in Messages : Send(u, m)
    \/ \E c \in Connections : Stream(c) \/ HangUp(c)
    \/ Cleanup
    \/ Tick

Spec == Init /\ [][Next]_vars

(* A handler in the middle of connect goes on, a dropped stream is dropped *)
(* to the end, and the server polls a stream that has something to yield.  *)
(* No client need ever connect or hang up, and the cleanup need not run.   *)
FairSpec ==
    /\ Spec
    /\ \A c \in Connections :
          /\ WF_vars(Replay(c) \/ Connected(c))
          /\ WF_vars(FirstPoll(c) \/ Poll(c))
          /\ WF_vars(Disconnect(c))

-----------------------------------------------------------------------------
(* Properties.                                                             *)

(* Whoever is connected has nothing waiting: connect takes the queue in    *)
(* the step in which it registers, and send queues only for a user whose   *)
(* last connection turned out to be gone, which it unregisters.            *)
NobodyConnectedWaits ==
    \A u \in Users : queue[u] # <<>> => connections[u] = {}

Queues(m) == {u \in Users : m \in {e.msg : e \in Range(queue[u])}}

Holders(m) ==
    {c \in Connections :
        \/ m \in Range(replaying[c]) \cup Range(received[c])
        \/ status[c] # "deaf" /\ m \in Range(channel[c])}

(* No message disappears at the moment it is sent, expires or is taken     *)
(* from the queue; a queued one is at any time in exactly one place: one   *)
(* queue, one connection, expired or lost with its connection.             *)
Conserved ==
    \A m \in Range(sent) :
        IF m \in stored
        THEN Cardinality(Queues(m)) + Cardinality(Holders(m))
                + Cardinality({m} \cap expired) + Cardinality({m} \cap lost) = 1
        ELSE Queues(m) = {} /\ m \notin expired /\ (Holders(m) # {} \/ m \in lost)

Before(m, n, seq) ==
    \E i, j \in DOMAIN seq : i < j /\ seq[i] = m /\ seq[j] = n

(* A stream yields messages in the order they were sent, with one          *)
(* exception: what is sent while connect is still replaying may overtake   *)
(* what it replays.                                                        *)
OrderKept ==
    \A c \in Connections : \A m, n \in Range(received[c]) :
        Before(m, n, sent) /\ Before(n, m, received[c])
            => m \in stored /\ n \notin stored

(* What a connection holds reaches its stream, or the connection leaves    *)
(* the registry: none that is gone stays there to be sent to.              *)
HandedOn ==
    \A c \in Connections, m \in Messages :
        m \in Range(replaying[c]) \cup Range(channel[c])
            ~> m \in Range(received[c]) \/ \A u \in Users : c \notin connections[u]

(* "... and replayed on the next SSE connection before being removed from  *)
(* the queue" (LEGACY_BACKEND.md:92-93): a queued message leaves the queue *)
(* by being replayed or by expiring.  Connect removes it first, and a      *)
(* stream dropped before it is polled loses it.                            *)
ReplayedBeforeRemoved == stored \cap lost = {}
=============================================================================
