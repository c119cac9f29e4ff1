------------------------------ MODULE TopicHub ------------------------------
(***************************************************************************)
(* One topic of the gateway's topic hub.  A publish with nobody subscribed *)
(* waits in a bounded queue that drops its oldest; otherwise it goes into  *)
(* tokio's broadcast ring, where a slow receiver loses what is overwritten *)
(* before it reads.  Publish and subscribe take the hub's write lock, but  *)
(* a stream reads, and is dropped, without it: the last receiver may go    *)
(* between receiver_count and send.                                        *)
(***************************************************************************)
EXTENDS Naturals, Sequences, FiniteSets, Functions

CONSTANTS Streams,
          ChannelCapacity,   \* TOPIC_CHANNEL_CAPACITY
          QueueCapacity,     \* TOPIC_QUEUE_CAPACITY
          MaxPublished       \* bound on the messages, which are 1, 2, ...

ASSUME TopicAssumption ==
    /\ ChannelCapacity \in Nat \ {0}
    /\ QueueCapacity \in Nat \ {0}
    /\ MaxPublished \in Nat

VARIABLES
    published,   \* messages so far
    queued,      \* queued_messages
    ring,        \* everything ever sent to the channel; the last ones are readable
    sending,     \* the publisher between receiver_count and send, or 0
    state,       \* per stream: new, open or closed
    first,       \* per stream, the ring's length when it subscribed
    next,        \* per stream, how much of the ring it has passed
    backlog,     \* per stream, queued messages it has not yielded yet
    yielded,     \* per stream, its output
    displaced,   \* messages pushed out of a full queue
    vanished     \* messages sent when the last receiver had just gone

topicHubVars == <<published, queued, ring, sending, displaced, vanished>>
topicStreamVars == <<state, first, next, backlog, yielded>>
topicVars == <<topicHubVars, topicStreamVars>>

Receivers == {s \in Streams : state[s] = "open"}

TopicInit ==
    /\ published = 0 /\ queued = <<>> /\ ring = <<>> /\ sending = 0
    /\ state = [s \in Streams |-> "new"]
    /\ first = [s \in Streams |-> 0]
    /\ next = [s \in Streams |-> 0]
    /\ backlog = [s \in Streams |-> <<>>]
    /\ yielded = [s \in Streams |-> <<>>]
    /\ displaced = {} /\ vanished = {}

Kept_OffByOne == IF Len(queued) > QueueCapacity THEN Tail(queued) ELSE queued

(* Room for one more: a full queue loses its oldest.                       *)
Kept == IF Len(queued) >= QueueCapacity THEN Tail(queued) ELSE queued

PublishToQueue ==
    /\ published < MaxPublished
    /\ sending = 0
    /\ Receivers = {}
    /\ published' = published + 1
    /\ queued' = Append(Kept, published')
    /\ displaced' = displaced \cup (Range(queued) \ Range(Kept))
    /\ UNCHANGED <<ring, sending, vanished, topicStreamVars>>

PublishCounts ==
    /\ published < MaxPublished
    /\ sending = 0
    /\ Receivers # {}
    /\ published' = published + 1
    /\ sending' = published'
    /\ UNCHANGED <<queued, ring, displaced, vanished, topicStreamVars>>

(* The result of send is ignored: without receivers nothing is stored.     *)
PublishSends ==
    /\ sending # 0
    /\ IF Receivers = {}
       THEN vanished' = vanished \cup {sending} /\ UNCHANGED ring
       ELSE ring' = Append(ring, sending) /\ UNCHANGED vanished
    /\ sending' = 0
    /\ UNCHANGED <<published, queued, displaced, topicStreamVars>>

(* Mutant: the queue is copied, not drained.                               *)
Subscribe_KeepsQueue(s) ==
    /\ state[s] = "new"
    /\ sending = 0
    /\ state' = [state EXCEPT ![s] = "open"]
    /\ first' = [first EXCEPT ![s] = Len(ring)]
    /\ next' = [next EXCEPT ![s] = Len(ring)]
    /\ backlog' = [backlog EXCEPT ![s] = queued]
    /\ UNCHANGED <<topicHubVars, yielded>>

Subscribe(s) ==
    /\ state[s] = "new"
    /\ sending = 0
    /\ state' = [state EXCEPT ![s] = "open"]
    /\ first' = [first EXCEPT ![s] = Len(ring)]
    /\ next' = [next EXCEPT ![s] = Len(ring)]
    /\ backlog' = [backlog EXCEPT ![s] = queued]
    /\ queued' = <<>>
    /\ UNCHANGED <<published, ring, sending, displaced, vanished, yielded>>

YieldQueued(s) ==
    /\ state[s] = "open"
    /\ backlog[s] # <<>>
    /\ yielded' = [yielded EXCEPT ![s] = Append(@, Head(backlog[s]))]
    /\ backlog' = [backlog EXCEPT ![s] = Tail(@)]
    /\ UNCHANGED <<topicHubVars, state, first, next>>

(* Mutant: the stream reads the channel before its backlog is yielded.     *)
Listens_AtOnce(s) == state[s] = "open"

Listens(s) == state[s] = "open" /\ backlog[s] = <<>>

Overwritten == IF Len(ring) > ChannelCapacity THEN Len(ring) - ChannelCapacity ELSE 0

(* recv: the oldest message that can still be read.                        *)
Receive(s) ==
    /\ Listens(s)
    /\ next[s] < Len(ring)
    /\ next[s] >= Overwritten
    /\ yielded' = [yielded EXCEPT ![s] = Append(@, ring[next[s] + 1])]
    /\ next' = [next EXCEPT ![s] = @ + 1]
    /\ UNCHANGED <<topicHubVars, state, first, backlog>>

(* Mutant: a lagging receiver starts over with what comes next.            *)
Lagged_ToTail(s) ==
    /\ Listens(s)
    /\ next[s] < Overwritten
    /\ next' = [next EXCEPT ![s] = Len(ring)]
    /\ UNCHANGED <<topicHubVars, state, first, backlog, yielded>>

(* RecvError::Lagged moves the receiver to the oldest, and is ignored.     *)
Lagged(s) ==
    /\ Listens(s)
    /\ next[s] < Overwritten
    /\ next' = [next EXCEPT ![s] = Overwritten]
    /\ UNCHANGED <<topicHubVars, state, first, backlog, yielded>>

(* The client is gone: stream and receiver are dropped, without the lock.  *)
DropStream(s) ==
    /\ state[s] = "open"
    /\ state' = [state EXCEPT ![s] = "closed"]
    /\ backlog' = [backlog EXCEPT ![s] = <<>>]
    /\ UNCHANGED <<topicHubVars, first, next, yielded>>

PollStream(s) == YieldQueued(s) \/ Receive(s) \/ Lagged(s)

TopicNext ==
    \/ PublishToQueue \/ PublishCounts \/ PublishSends
    \/ \E s \in Streams : Subscribe(s) \/ PollStream(s) \/ DropStream(s)

TopicSpec == TopicInit /\ [][TopicNext]_topicVars

-----------------------------------------------------------------------------
(* Properties.                                                             *)

(* Every variable keeps its type, and the queue its capacity.              *)
TypeOK ==
    /\ published \in 0..MaxPublished
    /\ queued \in Seq(1..published) /\ Len(queued) <= QueueCapacity
    /\ ring \in Seq(1..published)
    /\ sending \in 0..published
    /\ state \in [Streams -> {"new", "open", "closed"}]
    /\ \A s \in Streams :
          /\ first[s] \in 0..Len(ring) /\ next[s] \in first[s]..Len(ring)
          /\ backlog[s] \in Seq(1..published) /\ yielded[s] \in Seq(1..published)
    /\ displaced \cup vanished \subseteq 1..published

(* Nobody who subscribes leaves messages behind, and nothing is queued     *)
(* once somebody has.                                                      *)
NobodySubscribedWaits == queued # <<>> => Receivers = {}

Increasing(seq) == \A i, j \in DOMAIN seq : i < j => seq[i] < seq[j]

(* A stream yields in the order of publishing and never twice, across the  *)
(* change from the backlog to the channel and across lags.                 *)
InOrder == \A s \in Streams : Increasing(yielded[s])

(* What a stream has passed over without yielding it was overwritten: a    *)
(* lag costs the oldest messages and no others.                            *)
MissesOnlyOverwritten ==
    \A s \in Streams : \A i \in first[s] + 1..next[s] :
        ring[i] \in Range(yielded[s]) \/ i <= Overwritten

(* Of the messages nobody has heard, a full queue gives up the oldest.     *)
DisplacesOldest ==
    \A m \in displaced, i \in DOMAIN queued : m < queued[i]
=============================================================================
