----------------------------- MODULE EventStream -----------------------------
(***************************************************************************)
(* The event stream of one workflow: internal/streaming/manager.go, the    *)
(* SSE endpoint that serves it (internal/httpapi/streaming.go), the rows   *)
(* it leaves in PostgreSQL (internal/db/event_log.go), and the gateway     *)
(* that writes to the same stream (cmd/gateway/internal/handlers/review.go)*)
(*                                                                         *)
(* A publisher takes a sequence number (INCR), appends to a Redis stream   *)
(* (XADD) and queues a row; three steps that interleave with those of      *)
(* other publishers.  Each connected client has a reader goroutine that    *)
(* polls the stream (XREAD), queues rows for what it reads, and offers the *)
(* events to a bounded channel; the handler writes them out.  A client     *)
(* that reconnects sends the id of its last event.                         *)
(*                                                                         *)
(* The id of an entry is its position in log, which keeps the entries that *)
(* Redis has trimmed.  The optional filter on event types is left out, and *)
(* so are the TTLs of the keys (24 h, 48 h).                               *)
(***************************************************************************)
EXTENDS Naturals, Sequences, FiniteSets

CONSTANTS
    Publishers,  \* activities of the workflow, and gateways
    Gateways,    \* those in the gateway, which queue no row
    Script,      \* the kinds of events each publishes, in order
    Clients,     \* SSE clients
    Capacity,    \* MaxLen of the stream
    Count,       \* entries per XREAD
    Buffer,      \* size of a subscriber's channel
    QueueSize,   \* size of persistCh
    MaxSessions, \* bound: connections per client
    Faults,      \* the faults the environment may produce
    Latest       \* "$", the id of the latest entry when XREAD runs

Kinds == {"update", "partial", "completed", "end"}

ASSUME StreamAssumption ==
    /\ Gateways \subseteq Publishers
    /\ Script \in [Publishers -> Seq(Kinds)]
    /\ {Capacity, Count, Buffer, QueueSize, MaxSessions} \subseteq Nat \ {0}
    /\ Faults \subseteq {"redis", "db", "disconnect"}
    /\ Latest \notin Nat

VARIABLES
    counter,   \* the seq key in Redis
    log,       \* the stream in Redis, with the entries trimmed from it
    trimmed,   \* how many entries were trimmed
    step,      \* where a publisher stands in Publish
    next,      \* the event it publishes
    seq,       \* the sequence number it has taken
    queue,     \* persistCh
    rows,      \* event_logs
    saved,     \* history: events whose INSERT was executed
    session,   \* the connection of a client
    sessions,  \* connections of a client so far
    armed,     \* its handler has seen the completion: the timer runs
    received,  \* ids of the events a client got, in order
    reader,    \* where the reader of a client stands
    lastID,    \* the id the reader reads from
    from,      \* the id its blocked XREAD waits at
    batch,     \* ids of the entries read and not forwarded yet
    channel,   \* ids in the channel to the handler
    dropped,   \* history: ids that did not fit into the channel
    tailed     \* history: clients that resumed at "$"

redisVars     == <<counter, log, trimmed>>
publisherVars == <<step, next, seq>>
storeVars     == <<queue, rows, saved>>
clientVars    == <<session, sessions, armed, received, tailed>>
readerVars    == <<reader, lastID, from, batch>>
channelVars   == <<channel, dropped>>
vars == <<redisVars, publisherVars, storeVars, clientVars, readerVars, channelVars>>

Event(p) == [by |-> p, n |-> next[p], seq |-> seq[p]]
Kind(e)  == Script[e.by][e.n]
Fault(f) == f \in Faults

AtLeast(a, b) == IF a > b THEN a ELSE b
AtMost(a, b)  == IF a < b THEN a ELSE b
Ids(a, b)     == [i \in 1 .. (AtLeast(a, b) - a) |-> a + i]   \* a+1, ..., b

Init ==
    /\ counter = 0
    /\ log = <<>>
    /\ trimmed = 0
    /\ step = [p \in Publishers |-> "incr"]
    /\ next = [p \in Publishers |-> 1]
    /\ seq = [p \in Publishers |-> 0]
    /\ queue = <<>>
    /\ rows = <<>>
    /\ saved = {}
    /\ session = [c \in Clients |-> "away"]
    /\ sessions = [c \in Clients |-> 0]
    /\ armed = [c \in Clients |-> FALSE]
    /\ received = [c \in Clients |-> <<>>]
    /\ reader = [c \in Clients |-> "none"]
    /\ lastID = [c \in Clients |-> 0]
    /\ from = [c \in Clients |-> 0]
    /\ batch = [c \in Clients |-> <<>>]
    /\ channel = [c \in Clients |-> <<>>]
    /\ dropped = [c \in Clients |-> {}]
    /\ tailed = {}

-----------------------------------------------------------------------------
(* Publish, and publishStreamEvent of the gateway.                          *)

GoOn(p, s) == step' = [step EXCEPT ![p] = s] /\ UNCHANGED next

NextEvent(p) ==
    /\ step' = [step EXCEPT ![p] = "incr"]
    /\ next' = [next EXCEPT ![p] = @ + 1]
    /\ seq' = [seq EXCEPT ![p] = 0]

(* INCR is atomic.  When it fails, the manager goes on with 0 and the       *)
(* gateway gives up; a reply may be lost after the command was executed.    *)
NextSeq(p) == counter' = counter + 1 /\ seq' = [seq EXCEPT ![p] = counter']

Incr(p) ==
    /\ step[p] = "incr"
    /\ next[p] \in DOMAIN Script[p]
    /\ \/ NextSeq(p) /\ GoOn(p, "add")
       \/ /\ Fault("redis")
          /\ counter' \in {counter, counter + 1}
          /\ IF p \in Gateways THEN NextEvent(p) ELSE GoOn(p, "add") /\ UNCHANGED seq
    /\ UNCHANGED <<log, trimmed, storeVars, clientVars, readerVars, channelVars>>

(* XADD trims the stream, when it is convenient, not below Capacity.        *)
Trimmed == trimmed .. AtLeast(trimmed, IF Len(log') > Capacity THEN Len(log') - Capacity ELSE 0)

Add(p) ==
    /\ step[p] = "add"
    /\ \/ log' = Append(log, Event(p)) /\ trimmed' \in Trimmed
       \/ Fault("redis") /\ UNCHANGED <<log, trimmed>>
    /\ IF p \in Gateways THEN NextEvent(p) ELSE GoOn(p, "persist") /\ UNCHANGED seq
    /\ UNCHANGED <<counter, storeVars, clientVars, readerVars, channelVars>>

(* shouldPersistEvent, and enqueuePersistEvent: a full queue drops.         *)
Persistent(e) == Kind(e) # "partial"

Enqueue(e) ==
    /\ queue' = IF Persistent(e) /\ Len(queue) < QueueSize THEN Append(queue, e) ELSE queue
    /\ UNCHANGED <<rows, saved>>

Persist(p) ==
    /\ step[p] = "persist"
    /\ Enqueue(Event(p))
    /\ NextEvent(p)
    /\ UNCHANGED <<redisVars, clientVars, readerVars, channelVars>>

(* SaveEventLog: INSERT ... ON CONFLICT (workflow_id, type, seq) DO NOTHING.*)
Inserted_Always(e) == Append(rows, e)

Inserted(e) ==
    IF \E i \in DOMAIN rows : Kind(rows[i]) = Kind(e) /\ rows[i].seq = e.seq
      THEN rows
      ELSE Append(rows, e)

Save ==
    /\ queue # <<>>
    /\ queue' = Tail(queue)
    /\ \/ rows' = Inserted(Head(queue)) /\ saved' = saved \cup {Head(queue)}
       \/ Fault("db") /\ UNCHANGED <<rows, saved>>
    /\ UNCHANGED <<redisVars, publisherVars, clientVars, readerVars, channelVars>>

-----------------------------------------------------------------------------
(* handleSSE.                                                               *)

LastEventID(c) == IF received[c] = <<>> THEN 0 ELSE received[c][Len(received[c])]

(* The replay of what the stream still has after the client's last event    *)
(* (nothing, when XRANGE fails), and then a reader that goes on from there. *)
StartFrom(c, replay) ==
    IF replay # <<>> THEN replay[Len(replay)]
    ELSE IF LastEventID(c) = 0 THEN 0
    ELSE Latest

Replay(c) ==
    IF LastEventID(c) = 0 THEN <<>> ELSE Ids(AtLeast(LastEventID(c), trimmed), Len(log))

Connect(c) ==
    /\ session[c] = "away" /\ sessions[c] < MaxSessions
    /\ reader[c] = "none"
    /\ \E replay \in {Replay(c)} \cup IF Fault("redis") THEN {<<>>} ELSE {} :
          /\ received' = [received EXCEPT ![c] = @ \o replay]
          /\ lastID' = [lastID EXCEPT ![c] = StartFrom(c, replay)]
    /\ tailed' = IF lastID'[c] = Latest THEN tailed \cup {c} ELSE tailed
    /\ session' = [session EXCEPT ![c] = "live"]
    /\ sessions' = [sessions EXCEPT ![c] = @ + 1]
    /\ armed' = [armed EXCEPT ![c] = FALSE]
    /\ reader' = [reader EXCEPT ![c] = "read"]
    /\ UNCHANGED <<from, batch, redisVars, publisherVars, storeVars, channelVars>>

EndsAt_Never(i) == FALSE

EndsAt(i) == Kind(log[i]) = "end"

(* An event is written to the client.  STREAM_END closes the connection,    *)
(* WORKFLOW_COMPLETED starts the timer that will.                           *)
Deliver(c) ==
    /\ session[c] = "live"
    /\ channel[c] # <<>>
    /\ LET i == Head(channel[c])
       IN  /\ received' = [received EXCEPT ![c] = Append(@, i)]
           /\ armed' = [armed EXCEPT ![c] = @ \/ Kind(log[i]) = "completed"]
           /\ session' = [session EXCEPT ![c] = IF EndsAt(i) THEN "closed" ELSE "live"]
    /\ channel' = [channel EXCEPT ![c] = Tail(@)]
    /\ UNCHANGED <<sessions, tailed, dropped, redisVars, publisherVars, storeVars, readerVars>>

(* The timer after the completion.                                          *)
CloseIdle(c) ==
    /\ session[c] = "live"
    /\ armed[c]
    /\ session' = [session EXCEPT ![c] = "closed"]
    /\ UNCHANGED <<sessions, armed, received, tailed,
                   redisVars, publisherVars, storeVars, readerVars, channelVars>>

(* The connection breaks; what is in the channel is lost.                   *)
Disconnect(c) ==
    /\ Fault("disconnect")
    /\ session[c] = "live"
    /\ session' = [session EXCEPT ![c] = "away"]
    /\ UNCHANGED <<sessions, armed, received, tailed,
                   redisVars, publisherVars, storeVars, readerVars, channelVars>>

-----------------------------------------------------------------------------
(* streamReaderFrom.                                                        *)

(* XREAD starts; "$" is resolved by every XREAD anew.                       *)
StartRead(c) ==
    /\ reader[c] = "read"
    /\ session[c] = "live"
    /\ from' = [from EXCEPT ![c] = IF lastID[c] = Latest THEN Len(log) ELSE lastID[c]]
    /\ reader' = [reader EXCEPT ![c] = "blocked"]
    /\ UNCHANGED <<lastID, batch, redisVars, publisherVars, storeVars, clientVars, channelVars>>

Unread_OffByOne(c) == Ids(AtLeast(from[c], trimmed) + 1, Len(log))

Unread(c) == Ids(AtLeast(from[c], trimmed), Len(log))

ReadSome(c) ==
    /\ reader[c] = "blocked"
    /\ Unread(c) # <<>>
    /\ batch' = [batch EXCEPT ![c] = SubSeq(Unread(c), 1, AtMost(Count, Len(Unread(c))))]
    /\ reader' = [reader EXCEPT ![c] = "forward"]
    /\ from' = [from EXCEPT ![c] = 0]
    /\ UNCHANGED <<lastID, redisVars, publisherVars, storeVars, clientVars, channelVars>>

(* The block times out, or XREAD fails.                                     *)
ReadNothing(c) ==
    /\ reader[c] = "blocked"
    /\ Unread(c) = <<>> \/ Fault("redis")
    /\ reader' = [reader EXCEPT ![c] = "read"]
    /\ from' = [from EXCEPT ![c] = 0]
    /\ UNCHANGED <<lastID, batch,
                   redisVars, publisherVars, storeVars, clientVars, channelVars>>

(* One entry of the batch: a row is queued, and the event is offered to the *)
(* channel, whoever may still listen.                                       *)
Offer(c, i) ==
    IF Len(channel[c]) < Buffer
      THEN channel' = [channel EXCEPT ![c] = Append(@, i)] /\ UNCHANGED dropped
      ELSE dropped' = [dropped EXCEPT ![c] = @ \cup {i}] /\ UNCHANGED channel

Forward_KeepsID(c) ==
    /\ reader[c] = "forward"
    /\ LET i == Head(batch[c])
       IN  Enqueue(log[i]) /\ Offer(c, i)
    /\ batch' = [batch EXCEPT ![c] = Tail(@)]
    /\ reader' = [reader EXCEPT ![c] = IF batch'[c] = <<>> THEN "read" ELSE "forward"]
    /\ UNCHANGED <<lastID, from, redisVars, publisherVars, clientVars>>

Forward(c) ==
    /\ reader[c] = "forward"
    /\ LET i == Head(batch[c])
       IN  /\ lastID' = [lastID EXCEPT ![c] = i]
           /\ Enqueue(log[i])
           /\ Offer(c, i)
    /\ batch' = [batch EXCEPT ![c] = Tail(@)]
    /\ reader' = [reader EXCEPT ![c] = IF batch'[c] = <<>> THEN "read" ELSE "forward"]
    /\ UNCHANGED <<from, redisVars, publisherVars, clientVars>>

(* Unsubscribe has cancelled the context: the reader closes the channel.    *)
StopReading(c) ==
    /\ reader[c] = "read"
    /\ session[c] # "live"
    /\ reader' = [reader EXCEPT ![c] = "none"]
    /\ channel' = [channel EXCEPT ![c] = <<>>]
    /\ lastID' = [lastID EXCEPT ![c] = 0]
    /\ UNCHANGED <<from, batch, dropped, redisVars, publisherVars, storeVars, clientVars>>

-----------------------------------------------------------------------------

PublishStep(p) == Incr(p) \/ Add(p) \/ Persist(p)
ReaderStep(c)  == StartRead(c) \/ ReadSome(c) \/ ReadNothing(c) \/ Forward(c) \/ StopReading(c)
HandlerStep(c) == Deliver(c) \/ CloseIdle(c)

Next ==
    \/ \E p \in Publishers : PublishStep(p)
    \/ \E c \in Clients : Connect(c) \/ HandlerStep(c) \/ Disconnect(c) \/ ReaderStep(c)
    \/ Save

Spec == Init /\ [][Next]_vars

(* The goroutines run, and an XREAD that is tried again and again succeeds. *)
(* Nobody has to connect, and the timer after the completion need not fire. *)
FairSpec ==
    /\ Spec
    /\ \A p \in Publishers : WF_vars(PublishStep(p))
    /\ \A c \in Clients : WF_vars(ReaderStep(c)) /\ SF_vars(ReadSome(c)) /\ WF_vars(Deliver(c))
    /\ WF_vars(Save)

-----------------------------------------------------------------------------
(* Properties.                                                              *)

Events == [by : Publishers, n : Nat \ {0}, seq : Nat]

RedisTyped ==
    /\ counter \in Nat
    /\ log \in Seq(Events)
    /\ trimmed \in 0 .. Len(log)

PublishersTyped ==
    /\ step \in [Publishers -> {"incr", "add", "persist"}]
    /\ next \in [Publishers -> Nat \ {0}]
    /\ seq \in [Publishers -> Nat]
    /\ \A p \in Publishers : next[p] <= Len(Script[p]) + 1 /\ seq[p] <= counter

StoreTyped ==
    /\ queue \in Seq(Events) /\ Len(queue) <= QueueSize
    /\ rows \in Seq(Events)
    /\ saved \subseteq Events

ClientsTyped ==
    /\ session \in [Clients -> {"away", "live", "closed"}]
    /\ sessions \in [Clients -> 0 .. MaxSessions]
    /\ armed \in [Clients -> BOOLEAN]
    /\ received \in [Clients -> Seq(1 .. Len(log))]
    /\ tailed \subseteq Clients

ReadersTyped ==
    /\ reader \in [Clients -> {"none", "read", "blocked", "forward"}]
    /\ lastID \in [Clients -> 0 .. Len(log) \cup {Latest}]
    /\ from \in [Clients -> 0 .. Len(log)]
    /\ batch \in [Clients -> Seq(1 .. Len(log))]

ChannelsTyped ==
    /\ channel \in [Clients -> Seq(1 .. Len(log))]
    /\ \A c \in Clients : Len(channel[c]) <= Buffer
    /\ dropped \in [Clients -> SUBSET (1 .. Len(log))]

(* Every variable has its type, and the bounded queues their bound.         *)
TypeOK ==
    RedisTyped /\ PublishersTyped /\ StoreTyped /\ ClientsTyped /\ ReadersTyped /\ ChannelsTyped

(* A client receives events in the order of the stream and none twice,      *)
(* across failed reads, full channels and replays after a reconnect.        *)
InOrder ==
    \A c \in Clients : \A i, j \in DOMAIN received[c] :
        i < j => received[c][i] < received[c][j]

Received(c) == {received[c][i] : i \in DOMAIN received[c]}

(* An event older than the last one a client got was received, did not fit  *)
(* into its channel or has been trimmed, unless the client ever resumed     *)
(* with nothing to replay and so at "$".                                    *)
NoUnexplainedGap ==
    \A c \in Clients \ tailed : \A i \in 1 .. LastEventID(c) :
        i \in Received(c) \cup dropped[c] \/ i <= trimmed

(* Events are queued by their publisher and by every reader, and saved in   *)
(* any order: each saved event that got a sequence number has one row, not  *)
(* two, and not the row of another event.                                   *)
StoredOnce ==
    \A e \in saved :
        e.seq # 0 => Cardinality({i \in DOMAIN rows : rows[i].by = e.by /\ rows[i].n = e.n}) = 1

(* A client that is connected from the beginning is let go after the end of *)
(* the stream, unless its channel overflowed or entries were trimmed.       *)
SessionEnds ==
    \A c \in Clients :
        session[c] = "live" /\ sessions[c] = 1 /\ (\E i \in DOMAIN log : Kind(log[i]) = "end")
        ~> session[c] # "live" \/ dropped[c] # {} \/ trimmed > 0

-----------------------------------------------------------------------------
(* What the documents say and the code does not do.                         *)

(* docs/streaming-api.md:525 and 642-644, a client that reconnects with the *)
(* id of its last event catches up, but for events that have been pruned.   *)
NoGap ==
    \A c \in Clients : \A i \in 1 .. LastEventID(c) : i \in Received(c) \/ i <= trimmed
=============================================================================
