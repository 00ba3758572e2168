------------------------- MODULE EventStream_proofs -------------------------
(***************************************************************************)
(* Proofs about EventStream, for any publishers, scripts, clients, sizes   *)
(* and faults.                                                             *)
(*                                                                         *)
(* InOrder is not inductive: what a client receives comes from the channel,*)
(* the channel from the batch and the batch from the position of the       *)
(* reader.  The invariant orders these four, Ordered, and says when they   *)
(* are empty, so that a reconnect starts behind what was received.         *)
(* GapInv accounts in the same way for every entry up to that position.    *)
(* Numbered and Stored, about events and rows, stand on their own.         *)
(***************************************************************************)
EXTENDS EventStream, SequenceTheorems, FiniteSetTheorems, TLAPS

Increasing(s) == \A i, j \in DOMAIN s : i < j => s[i] < s[j]
Upto(s, n)    == \A i \in DOMAIN s : s[i] <= n
Above(s, n)   == \A i \in DOMAIN s : n < s[i]
Before(s, t)  == \A i \in DOMAIN s, j \in DOMAIN t : s[i] < t[j]

(* A publisher past INCR has an event to publish.                           *)
Working ==
    \A p \in Publishers : step[p] # "incr" => next[p] <= Len(Script[p])

(* What a reader holds at each of its steps; one that resumes at "$" has    *)
(* forwarded nothing yet.                                                   *)
Phases ==
    \A c \in Clients :
        /\ batch[c] # <<>> <=> reader[c] = "forward"
        /\ reader[c] = "none" \/ lastID[c] = Latest => channel[c] = <<>>

Ordered(c) ==
    /\ Increasing(received[c]) /\ Increasing(channel[c]) /\ Increasing(batch[c])
    /\ Before(received[c], channel[c])
    /\ Before(received[c], batch[c])
    /\ Before(channel[c], batch[c])

(* The reader has read no further than what it has passed on.               *)
Behind(c) ==
    /\ reader[c] # "none" /\ lastID[c] # Latest =>
          Upto(received[c], lastID[c]) /\ Upto(channel[c], lastID[c]) /\ Above(batch[c], lastID[c])
    /\ reader[c] = "blocked" =>
          /\ Upto(received[c], from[c]) /\ Upto(channel[c], from[c])
          /\ lastID[c] # Latest => from[c] = lastID[c]

Types == TypeOK /\ Working /\ Phases

Inv == Types /\ \A c \in Clients : Ordered(c) /\ Behind(c)
-----------------------------------------------------------------------------
(* Increasing sequences of positions.                                       *)

LEMMA EmptyFacts ==
    ASSUME NEW t, NEW n
    PROVE  Increasing(<<>>) /\ Upto(<<>>, n) /\ Above(<<>>, n) /\ Before(<<>>, t) /\ Before(t, <<>>)
  BY DEF Increasing, Upto, Above, Before

LEMMA AppendFacts ==
    ASSUME NEW s \in Seq(Nat), NEW n \in Nat
    PROVE  /\ Append(s, n) \in Seq(Nat) /\ Append(s, n) # <<>>
           /\ DOMAIN Append(s, n) = DOMAIN s \cup {Len(s) + 1}
           /\ \A i \in DOMAIN s : Append(s, n)[i] = s[i]
           /\ Append(s, n)[Len(s) + 1] = n
           /\ (\A i \in DOMAIN s : s[i] < n) /\ Increasing(s) => Increasing(Append(s, n))
<1>1. /\ Append(s, n) \in Seq(Nat) /\ Append(s, n) # <<>>
      /\ DOMAIN Append(s, n) = DOMAIN s \cup {Len(s) + 1}
      /\ \A i \in DOMAIN s : Append(s, n)[i] = s[i]
      /\ Append(s, n)[Len(s) + 1] = n
  OBVIOUS
<1>2. ASSUME \A i \in DOMAIN s : s[i] < n, Increasing(s)
      PROVE  Increasing(Append(s, n))
  <2> SUFFICES ASSUME NEW i \in DOMAIN Append(s, n), NEW j \in DOMAIN Append(s, n), i < j
               PROVE  Append(s, n)[i] < Append(s, n)[j]
    BY DEF Increasing
  <2>1. DOMAIN s = 1 .. Len(s) /\ Len(s) \in Nat
    OBVIOUS
  <2>2. i \in DOMAIN s
    BY <1>1, <2>1
  <2>3. CASE j \in DOMAIN s
    BY <1>1, <1>2, <2>2, <2>3 DEF Increasing
  <2>4. CASE j = Len(s) + 1
    BY <1>1, <1>2, <2>2, <2>4
  <2> QED
    BY <1>1, <2>3, <2>4
<1> QED
  BY <1>1, <1>2

LEMMA TailFacts ==
    ASSUME NEW S \in SUBSET Nat, NEW s \in Seq(S), s # <<>>
    PROVE  /\ Head(s) \in S /\ Head(s) = s[1] /\ 1 \in DOMAIN s
           /\ Tail(s) \in Seq(S) /\ Len(Tail(s)) = Len(s) - 1
           /\ \A i \in DOMAIN Tail(s) : i + 1 \in DOMAIN s /\ Tail(s)[i] = s[i + 1]
           /\ Increasing(s) => Increasing(Tail(s)) /\ Above(Tail(s), Head(s))
<1>1. /\ Head(s) \in S /\ Head(s) = s[1] /\ 1 \in DOMAIN s
      /\ Tail(s) \in Seq(S) /\ Len(Tail(s)) = Len(s) - 1
  OBVIOUS
<1>2. \A i \in DOMAIN Tail(s) : i \in Nat \ {0} /\ i + 1 \in DOMAIN s /\ Tail(s)[i] = s[i + 1]
  OBVIOUS
<1>3. ASSUME Increasing(s) PROVE Increasing(Tail(s)) /\ Above(Tail(s), Head(s))
  BY <1>1, <1>2, <1>3 DEF Increasing, Above
<1> QED
  BY <1>1, <1>2, <1>3

LEMMA PrefixFacts ==
    ASSUME NEW S \in SUBSET Nat, NEW s \in Seq(S), NEW k \in 1 .. Len(s)
    PROVE  /\ SubSeq(s, 1, k) \in Seq(S) /\ SubSeq(s, 1, k) # <<>>
           /\ \A i \in DOMAIN SubSeq(s, 1, k) : i \in DOMAIN s /\ SubSeq(s, 1, k)[i] = s[i]
           /\ Increasing(s) => Increasing(SubSeq(s, 1, k))
           /\ \A n \in Nat : Above(s, n) => Above(SubSeq(s, 1, k), n)
<1>1. DOMAIN s = 1 .. Len(s) /\ Len(s) \in Nat
  OBVIOUS
<1>2. \A i \in 1 .. k : s[i] \in S
  BY <1>1
<1>3. /\ SubSeq(s, 1, k) \in Seq(S) /\ Len(SubSeq(s, 1, k)) = k
      /\ \A i \in 1 .. k : SubSeq(s, 1, k)[i] = s[i]
  BY <1>1, <1>2
<1>4. DOMAIN SubSeq(s, 1, k) = 1 .. k
  BY <1>1, <1>3
<1> QED
  BY <1>1, <1>3, <1>4 DEF Increasing, Above

LEMMA IdsFacts ==
    ASSUME NEW a \in Nat, NEW b \in Nat
    PROVE  /\ Ids(a, b) \in Seq(1 .. b)
           /\ Len(Ids(a, b)) = AtLeast(a, b) - a
           /\ \A i \in DOMAIN Ids(a, b) : Ids(a, b)[i] = a + i
           /\ Ids(a, b) # <<>> => a < b /\ Ids(a, b)[Len(Ids(a, b))] = b
           /\ Increasing(Ids(a, b)) /\ Above(Ids(a, b), a) /\ Upto(Ids(a, b), b)
<1> DEFINE n == AtLeast(a, b) - a
<1>1. n \in Nat /\ a + n = AtLeast(a, b)
  BY DEF AtLeast
<1>2. \A i \in 1 .. n : a + i \in 1 .. b /\ a < b
  BY DEF AtLeast
<1>3. Ids(a, b) \in [1 .. n -> 1 .. b]
  BY <1>2 DEF Ids
<1>4. Ids(a, b) \in Seq(1 .. b)
  BY <1>1, <1>3, SeqDef
<1>5. DOMAIN Ids(a, b) = 1 .. n /\ Len(Ids(a, b)) = n /\ \A i \in 1 .. n : Ids(a, b)[i] = a + i
  BY <1>1, <1>3, <1>4 DEF Ids
<1>6. ASSUME Ids(a, b) # <<>> PROVE a < b /\ Ids(a, b)[n] = b
  <2>1. n # 0
    BY <1>4, <1>5, <1>6
  <2> QED
    BY <1>1, <1>2, <1>5, <2>1 DEF AtLeast
<1>7. Increasing(Ids(a, b)) /\ Above(Ids(a, b), a) /\ Upto(Ids(a, b), b)
  BY <1>1, <1>2, <1>5 DEF Increasing, Above, Upto
<1> QED
  BY <1>4, <1>5, <1>6, <1>7

-----------------------------------------------------------------------------
(* Types.                                                                   *)

LEMMA ScriptFacts ==
    ASSUME NEW p \in Publishers
    PROVE  Len(Script[p]) \in Nat /\ DOMAIN Script[p] = 1 .. Len(Script[p])
  BY StreamAssumption

LEMMA InitInv == Init => Inv
<1> SUFFICES ASSUME Init PROVE Inv
  OBVIOUS
<1>1. RedisTyped /\ PublishersTyped /\ StoreTyped
  BY ScriptFacts, StreamAssumption DEF Init, RedisTyped, PublishersTyped, StoreTyped
<1>2. ClientsTyped /\ ReadersTyped /\ ChannelsTyped
  BY StreamAssumption DEF Init, ClientsTyped, ReadersTyped, ChannelsTyped
<1>3. Working /\ Phases
  BY DEF Init, Working, Phases
<1>4. ASSUME NEW c \in Clients PROVE Ordered(c) /\ Behind(c)
  BY EmptyFacts DEF Init, Ordered, Behind
<1> QED
  BY <1>1, <1>2, <1>3, <1>4 DEF Inv, Types, TypeOK

(* The stream only grows, so that its positions remain positions.           *)
LEMMA StreamGrows ==
    ASSUME ClientsTyped, ReadersTyped, ChannelsTyped, Len(log) \in Nat, Len(log') \in Nat, Len(log) <= Len(log'),
           UNCHANGED <<clientVars, readerVars, channelVars>>
    PROVE  ClientsTyped' /\ ReadersTyped' /\ ChannelsTyped'
<1>1. 1 .. Len(log) \subseteq 1 .. Len(log') /\ 0 .. Len(log) \subseteq 0 .. Len(log')
  OBVIOUS
<1>2. \A s \in Seq(1 .. Len(log)) : s \in Seq(1 .. Len(log'))
  BY <1>1, SeqMonotonic
<1>3. ClientsTyped'
  BY <1>2 DEF ClientsTyped, clientVars
<1>4. ReadersTyped'
  BY <1>1, <1>2 DEF ReadersTyped, readerVars
<1>5. ChannelsTyped'
  BY <1>1, <1>2 DEF ChannelsTyped, channelVars
<1> QED
  BY <1>3, <1>4, <1>5

LEMMA EnqueueTyped ==
    ASSUME StoreTyped, NEW e \in Events, Enqueue(e)
    PROVE  StoreTyped'
  BY StreamAssumption DEF StoreTyped, Enqueue

(* How a publisher goes on.                                                 *)
LEMMA PublisherGoesOn ==
    ASSUME PublishersTyped, Working, NEW p \in Publishers, next[p] <= Len(Script[p]),
           counter \in Nat, counter' \in Nat, counter <= counter',
           \/ NextSeq(p) /\ GoOn(p, "add")
           \/ NextEvent(p)
           \/ (GoOn(p, "add") \/ GoOn(p, "persist")) /\ UNCHANGED seq
    PROVE  PublishersTyped' /\ Working'
<1> USE ScriptFacts DEF PublishersTyped, Working
<1>1. CASE NextSeq(p) /\ GoOn(p, "add")
  BY <1>1 DEF NextSeq, GoOn
<1>2. CASE NextEvent(p)
  BY <1>2 DEF NextEvent
<1>3. CASE (GoOn(p, "add") \/ GoOn(p, "persist")) /\ UNCHANGED seq
  BY <1>3 DEF GoOn
<1> QED
  BY <1>1, <1>2, <1>3

LEMMA IncrTypes ==
    ASSUME Types, NEW p \in Publishers, Incr(p)
    PROVE  Types'
<1>1. next[p] <= Len(Script[p])
  BY ScriptFacts DEF Incr, Types, TypeOK, PublishersTyped
<1>2. counter \in Nat /\ counter' \in Nat /\ counter <= counter'
  BY DEF Incr, NextSeq, Types, TypeOK, RedisTyped
<1>3. PublishersTyped' /\ Working'
  BY <1>1, <1>2, PublisherGoesOn DEF Incr, Types, TypeOK
<1>4. RedisTyped'
  BY <1>2 DEF Incr, Types, TypeOK, RedisTyped
<1>5. StoreTyped' /\ ClientsTyped' /\ ReadersTyped' /\ ChannelsTyped' /\ Phases'
  BY DEF Incr, Types, TypeOK, StoreTyped, ClientsTyped, ReadersTyped, ChannelsTyped, Phases,
         storeVars, clientVars, readerVars, channelVars
<1> QED
  BY <1>3, <1>4, <1>5 DEF Types, TypeOK

LEMMA EventTyped ==
    ASSUME PublishersTyped, NEW p \in Publishers
    PROVE  Event(p) \in Events
  BY DEF PublishersTyped, Event, Events

LEMMA AddTypes ==
    ASSUME Types, NEW p \in Publishers, Add(p)
    PROVE  Types'
<1>1. next[p] <= Len(Script[p])
  BY DEF Add, Types, Working
<1>2. counter \in Nat /\ counter' = counter
  BY DEF Add, Types, TypeOK, RedisTyped
<1>3. PublishersTyped' /\ Working'
  BY <1>1, <1>2, PublisherGoesOn DEF Add, Types, TypeOK
<1>4. RedisTyped' /\ Len(log') \in Nat /\ Len(log) \in Nat /\ Len(log) <= Len(log')
  <2>1. CASE log' = Append(log, Event(p)) /\ trimmed' \in Trimmed
    <3>1. /\ log' \in Seq(Events) /\ Len(log') = Len(log) + 1
          /\ Len(log) \in Nat /\ trimmed \in 0 .. Len(log)
      BY <2>1, EventTyped DEF Types, TypeOK, RedisTyped
    <3>2. trimmed' \in 0 .. Len(log')
      BY <2>1, <3>1, StreamAssumption DEF Trimmed, AtLeast
    <3> QED
      BY <1>2, <3>1, <3>2 DEF RedisTyped
  <2>2. CASE UNCHANGED <<log, trimmed>>
    BY <1>2, <2>2 DEF Types, TypeOK, RedisTyped
  <2> QED
    BY <2>1, <2>2 DEF Add
<1>5. ClientsTyped' /\ ReadersTyped' /\ ChannelsTyped'
  BY <1>4, StreamGrows DEF Add, Types, TypeOK
<1>6. StoreTyped' /\ Phases'
  BY DEF Add, Types, TypeOK, StoreTyped, Phases, storeVars, readerVars, channelVars
<1> QED
  BY <1>3, <1>4, <1>5, <1>6 DEF Types, TypeOK

LEMMA PersistTypes ==
    ASSUME Types, NEW p \in Publishers, Persist(p)
    PROVE  Types'
<1>1. next[p] <= Len(Script[p])
  BY DEF Persist, Types, Working
<1>2. counter \in Nat /\ counter' = counter
  BY DEF Persist, Types, TypeOK, RedisTyped, redisVars
<1>3. PublishersTyped' /\ Working'
  BY <1>1, <1>2, PublisherGoesOn DEF Persist, Types, TypeOK
<1>4. StoreTyped'
  BY EventTyped, EnqueueTyped DEF Persist, Types, TypeOK
<1>5. RedisTyped' /\ ClientsTyped' /\ ReadersTyped' /\ ChannelsTyped' /\ Phases'
  BY DEF Persist, Types, TypeOK, RedisTyped, ClientsTyped, ReadersTyped, ChannelsTyped, Phases,
         redisVars, clientVars, readerVars, channelVars
<1> QED
  BY <1>3, <1>4, <1>5 DEF Types, TypeOK

LEMMA SaveTypes ==
    ASSUME Types, Save
    PROVE  Types'
<1>1. Head(queue) \in Events /\ Tail(queue) \in Seq(Events) /\ Len(Tail(queue)) <= QueueSize
  BY StreamAssumption DEF Save, Types, TypeOK, StoreTyped
<1>2. Inserted(Head(queue)) \in Seq(Events)
  BY <1>1 DEF Inserted, Types, TypeOK, StoreTyped
<1>3. StoreTyped'
  BY <1>1, <1>2 DEF Save, Types, TypeOK, StoreTyped
<1>4. RedisTyped' /\ PublishersTyped' /\ Working'
  BY DEF Save, Types, TypeOK, RedisTyped, PublishersTyped, Working, redisVars, publisherVars
<1>5. ClientsTyped' /\ ReadersTyped' /\ ChannelsTyped' /\ Phases'
  BY DEF Save, Types, TypeOK, ClientsTyped, ReadersTyped, ChannelsTyped, Phases,
         redisVars, clientVars, readerVars, channelVars
<1> QED
  BY <1>3, <1>4, <1>5 DEF Types, TypeOK

LEMMA SessionTypes ==
    ASSUME Types, NEW c \in Clients, CloseIdle(c) \/ Disconnect(c)
    PROVE  Types'
<1>1. ClientsTyped'
  BY DEF CloseIdle, Disconnect, Types, TypeOK, ClientsTyped, redisVars
<1>2. RedisTyped' /\ PublishersTyped' /\ StoreTyped' /\ Working'
  BY DEF CloseIdle, Disconnect, Types, TypeOK, RedisTyped, PublishersTyped, StoreTyped, Working,
         redisVars, publisherVars, storeVars
<1>3. ReadersTyped' /\ ChannelsTyped' /\ Phases'
  BY DEF CloseIdle, Disconnect, Types, TypeOK, ReadersTyped, ChannelsTyped, Phases,
         redisVars, readerVars, channelVars
<1> QED
  BY <1>1, <1>2, <1>3 DEF Types, TypeOK

LEMMA ReplayFacts ==
    ASSUME Types, NEW c \in Clients
    PROVE  /\ Replay(c) \in Seq(1 .. Len(log))
           /\ Increasing(Replay(c)) /\ Above(Replay(c), LastEventID(c))
           /\ Replay(c) # <<>> => Replay(c)[Len(Replay(c))] = Len(log)
           /\ LastEventID(c) \in 0 .. Len(log)
           /\ LastEventID(c) = 0 <=> received[c] = <<>>
<1>1. /\ LastEventID(c) \in 0 .. Len(log)
      /\ LastEventID(c) = 0 <=> received[c] = <<>>
  <2>1. received[c] \in Seq(1 .. Len(log))
    BY DEF Types, TypeOK, ClientsTyped
  <2>2. CASE received[c] = <<>>
    BY <2>2 DEF LastEventID, Types, TypeOK, RedisTyped
  <2>3. CASE received[c] # <<>>
    <3>1. received[c][Len(received[c])] \in 1 .. Len(log)
      BY <2>1, <2>3
    <3> QED
      BY <2>3, <3>1 DEF LastEventID
  <2> QED
    BY <2>2, <2>3
<1>2. Len(log) \in Nat /\ trimmed \in Nat
  BY DEF Types, TypeOK, RedisTyped
<1>3. CASE LastEventID(c) = 0
  BY <1>1, <1>3, EmptyFacts DEF Replay
<1>4. CASE LastEventID(c) # 0
  <2> DEFINE a == AtLeast(LastEventID(c), trimmed)
  <2>1. a \in Nat /\ LastEventID(c) <= a
    BY <1>1, <1>2 DEF AtLeast
  <2>2. Replay(c) = Ids(a, Len(log))
    BY <1>4 DEF Replay
  <2>3. /\ Above(Ids(a, Len(log)), a) /\ Increasing(Ids(a, Len(log)))
        /\ Ids(a, Len(log)) \in Seq(1 .. Len(log))
        /\ Ids(a, Len(log)) # <<>> => Ids(a, Len(log))[Len(Ids(a, Len(log)))] = Len(log)
    BY <1>2, <2>1, IdsFacts
  <2>4. \A i \in DOMAIN Ids(a, Len(log)) : Ids(a, Len(log))[i] \in Nat
    BY <2>3
  <2>5. Above(Ids(a, Len(log)), LastEventID(c))
    BY <1>1, <2>1, <2>3, <2>4 DEF Above
  <2> HIDE DEF a
  <2> QED
    BY <1>1, <2>2, <2>3, <2>5
<1> QED
  BY <1>3, <1>4

LEMMA ConnectTypes ==
    ASSUME Types, NEW c \in Clients, Connect(c)
    PROVE  Types'
<1>1. PICK replay \in {Replay(c), <<>>} :
          /\ received' = [received EXCEPT ![c] = @ \o replay]
          /\ lastID' = [lastID EXCEPT ![c] = StartFrom(c, replay)]
  BY DEF Connect
<1>2. replay \in Seq(1 .. Len(log)) /\ (replay # <<>> => replay[Len(replay)] = Len(log)) /\ Len(log) \in Nat
  <2>1. replay = <<>> \/ replay = Replay(c)
    BY <1>1
  <2>2. Len(log) \in Nat
    BY DEF Types, TypeOK, RedisTyped
  <2>3. CASE replay = <<>>
    BY <2>2, <2>3
  <2>4. CASE replay = Replay(c)
    BY <2>2, <2>4, ReplayFacts
  <2> QED
    BY <2>1, <2>3, <2>4
<1>3. StartFrom(c, replay) \in {0, Len(log), Latest}
  BY <1>2 DEF StartFrom
<1>4. RedisTyped' /\ PublishersTyped' /\ StoreTyped' /\ Working'
  BY DEF Connect, Types, TypeOK, RedisTyped, PublishersTyped, StoreTyped, Working,
         redisVars, publisherVars, storeVars
<1>5. ClientsTyped'
  <2>1. received' \in [Clients -> Seq(1 .. Len(log))]
    BY <1>1, <1>2 DEF Types, TypeOK, ClientsTyped
  <2>2. session' \in [Clients -> {"away", "live", "closed"}] /\ armed' \in [Clients -> BOOLEAN] /\ tailed' \subseteq Clients
    BY DEF Connect, Types, TypeOK, ClientsTyped
  <2>3. sessions' \in [Clients -> 0 .. MaxSessions]
    BY StreamAssumption DEF Connect, Types, TypeOK, ClientsTyped
  <2> QED
    BY <2>1, <2>2, <2>3 DEF Connect, ClientsTyped, redisVars
<1>6. ReadersTyped'
  BY <1>1, <1>2, <1>3 DEF Connect, Types, TypeOK, ReadersTyped, redisVars
<1>7. ChannelsTyped'
  BY DEF Connect, Types, TypeOK, ChannelsTyped, redisVars, channelVars
<1>8. Phases'
  BY <1>1 DEF Connect, Types, TypeOK, Phases, ReadersTyped, channelVars
<1> QED
  BY <1>4, <1>5, <1>6, <1>7, <1>8 DEF Types, TypeOK

LEMMA DeliverTypes ==
    ASSUME Types, NEW c \in Clients, Deliver(c)
    PROVE  Types'
<1>1. /\ Head(channel[c]) \in 1 .. Len(log)
      /\ Tail(channel[c]) \in Seq(1 .. Len(log))
      /\ Len(Tail(channel[c])) <= Buffer
  BY StreamAssumption DEF Deliver, Types, TypeOK, ChannelsTyped
<1>2. RedisTyped' /\ PublishersTyped' /\ StoreTyped' /\ Working'
  BY DEF Deliver, Types, TypeOK, RedisTyped, PublishersTyped, StoreTyped, Working,
         redisVars, publisherVars, storeVars
<1>3. ClientsTyped'
  <2>1. received' = [received EXCEPT ![c] = Append(@, Head(channel[c]))]
    BY DEF Deliver
  <2>2. received' \in [Clients -> Seq(1 .. Len(log))]
    BY <1>1, <2>1 DEF Types, TypeOK, ClientsTyped
  <2> QED
    BY <2>2 DEF Deliver, Types, TypeOK, ClientsTyped, redisVars
<1>4. ReadersTyped'
  BY DEF Deliver, Types, TypeOK, ReadersTyped, redisVars, readerVars
<1>5. ChannelsTyped'
  BY <1>1 DEF Deliver, Types, TypeOK, ChannelsTyped, redisVars
<1>6. Phases'
  BY DEF Deliver, Types, TypeOK, Phases, ChannelsTyped, readerVars
<1> QED
  BY <1>2, <1>3, <1>4, <1>5, <1>6 DEF Types, TypeOK

(* The steps of a reader that leave the queue of rows alone.                *)
LEMMA PollTypes ==
    ASSUME Types, NEW c \in Clients, StartRead(c) \/ ReadNothing(c) \/ StopReading(c)
    PROVE  Types'
<1>1. RedisTyped' /\ PublishersTyped' /\ StoreTyped' /\ ClientsTyped' /\ Working'
  BY DEF StartRead, ReadNothing, StopReading, Types, TypeOK, RedisTyped, PublishersTyped, StoreTyped,
         ClientsTyped, Working, redisVars, publisherVars, storeVars, clientVars
<1>2. Len(log) \in Nat
  BY DEF Types, TypeOK, RedisTyped
<1>3. ReadersTyped'
  <2>1. CASE StartRead(c)
    BY <1>2, <2>1 DEF StartRead, Types, TypeOK, ReadersTyped, redisVars
  <2>2. CASE ReadNothing(c)
    BY <1>2, <2>2 DEF ReadNothing, Types, TypeOK, ReadersTyped, redisVars
  <2>3. CASE StopReading(c)
    BY <1>2, <2>3 DEF StopReading, Types, TypeOK, ReadersTyped, redisVars
  <2> QED
    BY <2>1, <2>2, <2>3
<1>4. ChannelsTyped'
  <2>1. CASE StopReading(c)
    BY <2>1, StreamAssumption DEF StopReading, Types, TypeOK, ChannelsTyped, redisVars
  <2>2. CASE StartRead(c) \/ ReadNothing(c)
    BY <2>2 DEF StartRead, ReadNothing, Types, TypeOK, ChannelsTyped, redisVars, channelVars
  <2> QED
    BY <2>1, <2>2
<1>5. Phases'
  <2>1. CASE StartRead(c)
    BY <2>1 DEF StartRead, Types, TypeOK, Phases, ReadersTyped, channelVars
  <2>2. CASE ReadNothing(c)
    BY <2>2 DEF ReadNothing, Types, TypeOK, Phases, ReadersTyped, channelVars
  <2>3. CASE StopReading(c)
    BY <2>3 DEF StopReading, Types, TypeOK, Phases, ReadersTyped, ChannelsTyped
  <2> QED
    BY <2>1, <2>2, <2>3
<1> QED
  BY <1>1, <1>3, <1>4, <1>5 DEF Types, TypeOK

(* What an XREAD returns.                                                   *)
LEMMA BatchFacts ==
    ASSUME Types, NEW c \in Clients, ReadSome(c)
    PROVE  /\ batch'[c] \in Seq(1 .. Len(log)) /\ batch'[c] # <<>>
           /\ Increasing(batch'[c]) /\ Above(batch'[c], from[c])
<1> DEFINE a == AtLeast(from[c], trimmed)
           m == AtMost(Count, Len(Unread(c)))
<1>1. Len(log) \in Nat /\ trimmed \in Nat /\ from[c] \in Nat
  BY DEF Types, TypeOK, RedisTyped, ReadersTyped
<1>2. a \in Nat /\ from[c] <= a
  BY <1>1 DEF AtLeast
<1>3. /\ Unread(c) \in Seq(1 .. Len(log)) /\ Unread(c) # <<>>
      /\ Increasing(Unread(c)) /\ Above(Unread(c), a)
  BY <1>1, <1>2, IdsFacts DEF ReadSome, Unread
<1>4. m \in 1 .. Len(Unread(c))
  BY <1>3, StreamAssumption DEF AtMost
<1>5. batch'[c] = SubSeq(Unread(c), 1, m)
  BY DEF ReadSome, Types, TypeOK, ReadersTyped
<1>6. 1 .. Len(log) \in SUBSET Nat
  BY <1>1
<1>7. Above(Unread(c), from[c])
  <2>1. \A i \in DOMAIN Unread(c) : Unread(c)[i] \in Nat
    BY <1>3
  <2> QED
    BY <1>1, <1>2, <1>3, <2>1 DEF Above
<1> HIDE DEF a, m
<1>8. /\ SubSeq(Unread(c), 1, m) \in Seq(1 .. Len(log)) /\ SubSeq(Unread(c), 1, m) # <<>>
      /\ Increasing(SubSeq(Unread(c), 1, m))
      /\ \A n \in Nat : Above(Unread(c), n) => Above(SubSeq(Unread(c), 1, m), n)
  BY <1>3, <1>4, <1>6, PrefixFacts
<1> QED
  BY <1>1, <1>5, <1>7, <1>8

LEMMA ReadSomeTypes ==
    ASSUME Types, NEW c \in Clients, ReadSome(c)
    PROVE  Types'
<1>1. RedisTyped' /\ PublishersTyped' /\ StoreTyped' /\ ClientsTyped' /\ Working'
  BY DEF ReadSome, Types, TypeOK, RedisTyped, PublishersTyped, StoreTyped,
         ClientsTyped, Working, redisVars, publisherVars, storeVars, clientVars
<1>2. Len(log) \in Nat /\ log' = log
  BY DEF ReadSome, Types, TypeOK, RedisTyped, redisVars
<1>3. ReadersTyped'
  <2>1. batch' \in [Clients -> Seq(1 .. Len(log))]
    BY BatchFacts DEF ReadSome, Types, TypeOK, ReadersTyped
  <2> QED
    BY <1>2, <2>1 DEF ReadSome, Types, TypeOK, ReadersTyped
<1>4. ChannelsTyped'
  BY <1>2 DEF ReadSome, Types, TypeOK, ChannelsTyped, channelVars
<1>5. Phases'
  BY BatchFacts DEF ReadSome, Types, TypeOK, ReadersTyped, Phases, channelVars
<1> QED
  BY <1>1, <1>3, <1>4, <1>5 DEF Types, TypeOK

(* An entry that is forwarded.                                              *)
LEMMA ForwardFacts ==
    ASSUME Types, NEW c \in Clients, Forward(c)
    PROVE  /\ batch[c] \in Seq(1 .. Len(log)) /\ batch[c] # <<>>
           /\ Head(batch[c]) \in 1 .. Len(log)
           /\ batch'[c] = Tail(batch[c]) /\ Tail(batch[c]) \in Seq(1 .. Len(log))
           /\ lastID'[c] = Head(batch[c])
           /\ channel'[c] = channel[c] \/ channel'[c] = Append(channel[c], Head(batch[c]))
           /\ reader'[c] = IF Tail(batch[c]) = <<>> THEN "read" ELSE "forward"
           /\ received' = received
<1>1. batch[c] \in Seq(1 .. Len(log)) /\ batch[c] # <<>>
  BY DEF Forward, Types, TypeOK, ReadersTyped, Phases
<1>2. Head(batch[c]) \in 1 .. Len(log) /\ Tail(batch[c]) \in Seq(1 .. Len(log))
  BY <1>1, HeadTailProperties
<1>3. /\ batch'[c] = Tail(batch[c]) /\ lastID'[c] = Head(batch[c])
      /\ reader'[c] = IF Tail(batch[c]) = <<>> THEN "read" ELSE "forward"
      /\ received' = received
  BY DEF Forward, Types, TypeOK, ReadersTyped, clientVars
<1>4. channel'[c] = channel[c] \/ channel'[c] = Append(channel[c], Head(batch[c]))
  BY DEF Forward, Offer, Types, TypeOK, ChannelsTyped
<1> QED
  BY <1>1, <1>2, <1>3, <1>4

LEMMA ForwardTypes ==
    ASSUME Types, NEW c \in Clients, Forward(c)
    PROVE  Types'
<1>1. RedisTyped' /\ PublishersTyped' /\ ClientsTyped' /\ Working'
  BY DEF Forward, Types, TypeOK, RedisTyped, PublishersTyped, ClientsTyped, Working,
         redisVars, publisherVars, clientVars
<1>2. Len(log) \in Nat /\ log' = log
  BY DEF Forward, Types, TypeOK, RedisTyped, redisVars
<1>3. StoreTyped'
  <2>1. log[Head(batch[c])] \in Events
    BY ForwardFacts DEF Types, TypeOK, RedisTyped
  <2> QED
    BY <2>1, EnqueueTyped DEF Forward, Types, TypeOK
<1>4. ReadersTyped'
  <2>1. batch' \in [Clients -> Seq(1 .. Len(log))]
    BY ForwardFacts DEF Forward, Types, TypeOK, ReadersTyped
  <2>2. lastID' \in [Clients -> 0 .. Len(log) \cup {Latest}]
    <3>1. Head(batch[c]) \in 0 .. Len(log) \cup {Latest}
      BY <1>2, ForwardFacts
    <3>2. lastID' = [lastID EXCEPT ![c] = Head(batch[c])]
      BY DEF Forward
    <3> QED
      BY <3>1, <3>2 DEF Types, TypeOK, ReadersTyped
  <2> QED
    BY <1>2, <2>1, <2>2 DEF Forward, Types, TypeOK, ReadersTyped
<1>5. ChannelsTyped'
  <2> DEFINE i == Head(batch[c])
  <2>1. i \in 1 .. Len(log)
    BY ForwardFacts
  <2>2. Offer(c, i)
    BY DEF Forward
  <2> HIDE DEF i
  <2>3. CASE Len(channel[c]) < Buffer
    <3>1. channel' = [channel EXCEPT ![c] = Append(@, i)] /\ dropped' = dropped
      BY <2>2, <2>3 DEF Offer
    <3>2. channel[c] \in Seq(1 .. Len(log)) /\ Buffer \in Nat
      BY StreamAssumption DEF Types, TypeOK, ChannelsTyped
    <3>3. Append(channel[c], i) \in Seq(1 .. Len(log)) /\ Len(Append(channel[c], i)) <= Buffer
      BY <2>1, <2>3, <3>2
    <3> QED
      BY <1>2, <3>1, <3>3 DEF Types, TypeOK, ChannelsTyped
  <2>4. CASE ~(Len(channel[c]) < Buffer)
    BY <1>2, <2>1, <2>2, <2>4 DEF Offer, Types, TypeOK, ChannelsTyped
  <2> QED
    BY <2>3, <2>4
<1>6. Phases'
  <2>1. lastID'[c] # Latest
    <3>1. lastID'[c] \in Nat
      BY <1>2, ForwardFacts
    <3> QED
      BY <3>1, StreamAssumption
  <2>2. \A d \in Clients : d # c => channel'[d] = channel[d]
    BY DEF Forward, Offer, Types, TypeOK, ChannelsTyped
  <2>3. reader'[c] # "none" /\ (batch'[c] # <<>> <=> reader'[c] = "forward")
    BY ForwardFacts
  <2>4. \A d \in Clients : d # c => batch'[d] = batch[d] /\ reader'[d] = reader[d] /\ lastID'[d] = lastID[d]
    BY DEF Forward, Types, TypeOK, ReadersTyped
  <2> QED
    BY <2>1, <2>2, <2>3, <2>4 DEF Types, Phases
<1> QED
  BY <1>1, <1>3, <1>4, <1>5, <1>6 DEF Types, TypeOK

-----------------------------------------------------------------------------
(* Order.                                                                   *)

(* A step that leaves what a client has received and what is on its way.    *)
Same(c) ==
    /\ received'[c] = received[c] /\ channel'[c] = channel[c] /\ batch'[c] = batch[c]
    /\ reader'[c] = reader[c] /\ lastID'[c] = lastID[c] /\ from'[c] = from[c]

LEMMA SameFlow ==
    ASSUME NEW c \in Clients, Ordered(c), Behind(c), Same(c)
    PROVE  Ordered(c)' /\ Behind(c)'
  BY DEF Same, Ordered, Behind

(* Steps of publishers, and of the sessions, move no event.                 *)
LEMMA QuietFlow ==
    ASSUME Inv, \/ \E p \in Publishers : PublishStep(p)
                \/ Save
                \/ \E c \in Clients : CloseIdle(c) \/ Disconnect(c)
                \/ UNCHANGED vars
    PROVE  \A c \in Clients : Ordered(c)' /\ Behind(c)'
<1>1. UNCHANGED <<received, readerVars, channel>>
  BY DEF PublishStep, Incr, Add, Persist, Save, CloseIdle, Disconnect, vars, clientVars, channelVars
<1>2. \A c \in Clients : Same(c)
  BY <1>1 DEF Same, readerVars
<1> QED
  BY <1>2, SameFlow DEF Inv

(* A step of one client leaves the others.                                  *)
LEMMA OthersSame ==
    ASSUME Types, NEW c \in Clients, Connect(c) \/ Deliver(c) \/ ReaderStep(c), NEW d \in Clients, d # c
    PROVE  Same(d)
<1> USE DEF Types, TypeOK, ClientsTyped, ReadersTyped, ChannelsTyped, Same
<1>1. CASE Connect(c)
  BY <1>1 DEF Connect, channelVars
<1>2. CASE Deliver(c)
  BY <1>2 DEF Deliver, readerVars
<1>3. CASE StartRead(c) \/ ReadSome(c) \/ ReadNothing(c) \/ StopReading(c)
  BY <1>3 DEF StartRead, ReadSome, ReadNothing, StopReading, clientVars, channelVars
<1>4. CASE Forward(c)
  BY <1>4 DEF Forward, Offer, clientVars
<1> QED
  BY <1>1, <1>2, <1>3, <1>4 DEF ReaderStep

LEMMA StartReadFlow ==
    ASSUME Inv, NEW c \in Clients, StartRead(c)
    PROVE  Ordered(c)' /\ Behind(c)'
<1>1. /\ received' = received /\ channel' = channel /\ batch' = batch /\ lastID' = lastID
      /\ reader[c] = "read" /\ reader'[c] = "blocked"
      /\ from'[c] = IF lastID[c] = Latest THEN Len(log) ELSE lastID[c]
  BY DEF StartRead, Inv, Types, TypeOK, ReadersTyped, clientVars, channelVars
<1>2. Ordered(c)'
  BY <1>1 DEF Inv, Ordered
<1>3. Upto(received[c], Len(log))
  BY DEF Inv, Types, TypeOK, ClientsTyped, RedisTyped, Upto
<1>4. lastID[c] = Latest => Upto(channel[c], Len(log))
  BY EmptyFacts DEF Inv, Types, Phases
<1>5. Behind(c)'
  BY <1>1, <1>3, <1>4 DEF Inv, Behind
<1> QED
  BY <1>2, <1>5

LEMMA ReadNothingFlow ==
    ASSUME Inv, NEW c \in Clients, ReadNothing(c)
    PROVE  Ordered(c)' /\ Behind(c)'
<1>1. /\ received' = received /\ channel' = channel /\ batch' = batch /\ lastID' = lastID
      /\ reader[c] = "blocked" /\ reader'[c] = "read"
  BY DEF ReadNothing, Inv, Types, TypeOK, ReadersTyped, clientVars, channelVars
<1> QED
  BY <1>1 DEF Inv, Ordered, Behind

LEMMA StopReadingFlow ==
    ASSUME Inv, NEW c \in Clients, StopReading(c)
    PROVE  Ordered(c)' /\ Behind(c)'
<1>1. /\ received' = received /\ channel'[c] = <<>> /\ batch' = batch
      /\ reader'[c] = "none"
  BY DEF StopReading, Inv, Types, TypeOK, ReadersTyped, ChannelsTyped, clientVars
<1>2. Ordered(c)'
  BY <1>1, EmptyFacts DEF Inv, Ordered
<1>3. Behind(c)'
  BY <1>1 DEF Behind
<1> QED
  BY <1>2, <1>3

(* If s is up to n and t is above, s comes before t.                        *)
LEMMA Between ==
    ASSUME NEW n \in Nat, NEW s \in Seq(Nat), NEW t \in Seq(Nat), Upto(s, n), Above(t, n)
    PROVE  Before(s, t)
<1> SUFFICES ASSUME NEW i \in DOMAIN s, NEW j \in DOMAIN t PROVE s[i] < t[j]
  BY DEF Before
<1>1. s[i] \in Nat /\ t[j] \in Nat /\ s[i] <= n /\ n < t[j]
  BY DEF Upto, Above
<1> QED
  BY <1>1

LEMMA Positions ==
    ASSUME Types, NEW c \in Clients
    PROVE  /\ Len(log) \in Nat /\ 1 .. Len(log) \in SUBSET Nat
           /\ received[c] \in Seq(1 .. Len(log)) /\ received[c] \in Seq(Nat)
           /\ channel[c] \in Seq(1 .. Len(log)) /\ channel[c] \in Seq(Nat)
           /\ batch[c] \in Seq(1 .. Len(log)) /\ batch[c] \in Seq(Nat)
<1>1. Len(log) \in Nat /\ 1 .. Len(log) \in SUBSET Nat
  BY DEF Types, TypeOK, RedisTyped
<1>2. \A s \in Seq(1 .. Len(log)) : s \in Seq(Nat)
  BY <1>1, SeqMonotonic
<1> QED
  BY <1>1, <1>2 DEF Types, TypeOK, ClientsTyped, ReadersTyped, ChannelsTyped

LEMMA ReadSomeFlow ==
    ASSUME Inv, NEW c \in Clients, ReadSome(c)
    PROVE  Ordered(c)' /\ Behind(c)'
<1>1. /\ received' = received /\ channel' = channel /\ lastID' = lastID
      /\ reader[c] = "blocked" /\ reader'[c] = "forward"
  BY DEF ReadSome, Inv, Types, TypeOK, ReadersTyped, clientVars, channelVars
<1>2. from[c] \in Nat
  BY DEF Inv, Types, TypeOK, RedisTyped, ReadersTyped
<1>3. /\ Increasing(batch'[c]) /\ Above(batch'[c], from[c])
      /\ batch'[c] \in Seq(Nat)
  <2>1. batch'[c] \in Seq(1 .. Len(log))
    BY BatchFacts DEF Inv
  <2> QED
    BY <2>1, BatchFacts, Positions, SeqMonotonic DEF Inv
<1>4. Upto(received[c], from[c]) /\ Upto(channel[c], from[c]) /\ (lastID[c] # Latest => from[c] = lastID[c])
  BY <1>1 DEF Inv, Behind
<1>5. Before(received[c], batch'[c]) /\ Before(channel[c], batch'[c])
  BY <1>2, <1>3, <1>4, Between, Positions DEF Inv
<1>6. Ordered(c)'
  BY <1>1, <1>3, <1>5 DEF Inv, Ordered
<1>7. Behind(c)'
  BY <1>1, <1>3, <1>4 DEF Behind
<1> QED
  BY <1>6, <1>7

LEMMA ForwardFlow ==
    ASSUME Inv, NEW c \in Clients, Forward(c)
    PROVE  Ordered(c)' /\ Behind(c)'
<1> DEFINE i == Head(batch[c])
           rest == Tail(batch[c])
<1> USE DEF Inv
<1>1. /\ i \in Nat /\ i \in 1 .. Len(log) /\ rest \in Seq(Nat)
      /\ 1 \in DOMAIN batch[c] /\ batch[c][1] = i
      /\ Increasing(rest) /\ Above(rest, i)
  <2>1. batch[c] \in Seq(1 .. Len(log)) /\ batch[c] # <<>> /\ Increasing(batch[c])
    BY ForwardFacts DEF Ordered
  <2>2. i \in 1 .. Len(log) /\ rest \in Seq(Nat)
    BY ForwardFacts, Positions, SeqMonotonic
  <2> QED
    BY <2>1, <2>2, TailFacts, Positions
<1> HIDE DEF i, rest
<1>2. /\ batch'[c] = rest /\ lastID'[c] = i /\ received' = received /\ reader'[c] \in {"read", "forward"}
      /\ channel'[c] = channel[c] \/ channel'[c] = Append(channel[c], i)
  BY ForwardFacts DEF i, rest
<1>3. /\ \A k \in DOMAIN received[c] : received[c][k] < i
      /\ \A k \in DOMAIN channel[c] : channel[c][k] < i
  BY <1>1 DEF Ordered, Before
<1>4. /\ channel'[c] \in Seq(Nat) /\ Increasing(channel'[c]) /\ Upto(channel'[c], i)
      /\ Before(received[c], channel'[c])
  <2>1. channel[c] \in Seq(Nat) /\ Increasing(channel[c]) /\ Before(received[c], channel[c])
    BY Positions DEF Ordered
  <2>2. CASE channel'[c] = channel[c]
    <3>1. \A k \in DOMAIN channel[c] : channel[c][k] \in Nat
      BY <2>1
    <3> QED
      BY <1>1, <1>3, <2>1, <2>2, <3>1 DEF Upto
  <2>3. CASE channel'[c] = Append(channel[c], i)
    <3>1. /\ Append(channel[c], i) \in Seq(Nat) /\ Increasing(Append(channel[c], i))
          /\ DOMAIN Append(channel[c], i) = DOMAIN channel[c] \cup {Len(channel[c]) + 1}
          /\ \A k \in DOMAIN channel[c] : Append(channel[c], i)[k] = channel[c][k] /\ channel[c][k] \in Nat
          /\ Append(channel[c], i)[Len(channel[c]) + 1] = i
      BY <1>1, <1>3, <2>1, AppendFacts
    <3>2. Upto(channel'[c], i)
      BY <1>1, <1>3, <2>3, <3>1 DEF Upto
    <3>3. Before(received[c], channel'[c])
      BY <1>3, <2>1, <2>3, <3>1 DEF Before
    <3> QED
      BY <2>3, <3>1, <3>2, <3>3
  <2> QED
    BY <1>2, <2>2, <2>3
<1>5. Upto(received[c], i)
  <2>1. \A k \in DOMAIN received[c] : received[c][k] \in Nat
    BY Positions
  <2> QED
    BY <1>1, <1>3, <2>1 DEF Upto
<1>6. Before(received[c], rest) /\ Before(channel'[c], rest)
  BY <1>1, <1>4, <1>5, Between, Positions
<1>7. Ordered(c)'
  BY <1>1, <1>2, <1>4, <1>6 DEF Ordered
<1>8. Behind(c)'
  BY <1>1, <1>2, <1>4, <1>5 DEF Behind
<1> QED
  BY <1>7, <1>8

LEMMA DeliverFlow ==
    ASSUME Inv, NEW c \in Clients, Deliver(c)
    PROVE  Ordered(c)' /\ Behind(c)'
<1> DEFINE i == Head(channel[c])
           got == Append(received[c], i)
           rest == Tail(channel[c])
<1> USE DEF Inv
<1>1. /\ i \in Nat /\ rest \in Seq(Nat)
      /\ 1 \in DOMAIN channel[c] /\ channel[c][1] = i
      /\ Increasing(rest) /\ Above(rest, i)
      /\ \A k \in DOMAIN rest : k + 1 \in DOMAIN channel[c] /\ rest[k] = channel[c][k + 1]
  BY TailFacts, Positions DEF Deliver, Ordered
<1> HIDE DEF i, rest
<1>2. \A k \in DOMAIN received[c] : received[c][k] < i /\ received[c][k] \in Nat
  BY <1>1, Positions DEF Ordered, Before
<1>3. /\ got \in Seq(Nat) /\ Increasing(got)
      /\ DOMAIN got = DOMAIN received[c] \cup {Len(received[c]) + 1}
      /\ \A k \in DOMAIN received[c] : got[k] = received[c][k]
      /\ got[Len(received[c]) + 1] = i
  BY <1>1, <1>2, AppendFacts, Positions DEF Ordered
<1> HIDE DEF got
<1>4. /\ received'[c] = got /\ channel'[c] = rest /\ batch' = batch
      /\ reader' = reader /\ lastID' = lastID /\ from' = from
  BY DEF Deliver, Types, TypeOK, ClientsTyped, ChannelsTyped, readerVars, got, i, rest
<1>5. Upto(got, i)
  BY <1>1, <1>2, <1>3 DEF Upto
<1>6. Before(got, rest)
  BY <1>1, <1>3, <1>5, Between
<1>7. Before(got, batch[c])
  BY <1>1, <1>3 DEF Ordered, Before
<1>8. Before(rest, batch[c])
  BY <1>1 DEF Ordered, Before
<1>9. \A n : Upto(received[c], n) /\ Upto(channel[c], n) => Upto(got, n) /\ Upto(rest, n)
  BY <1>1, <1>3 DEF Upto
<1>10. Ordered(c)'
  BY <1>1, <1>3, <1>4, <1>6, <1>7, <1>8 DEF Ordered
<1>11. Behind(c)'
  BY <1>4, <1>9 DEF Behind
<1> QED
  BY <1>10, <1>11

LEMMA ConcatIncreasing ==
    ASSUME NEW s \in Seq(Nat), NEW t \in Seq(Nat), Increasing(s), Increasing(t), Before(s, t)
    PROVE  Increasing(s \o t)
<1> SUFFICES ASSUME NEW i \in DOMAIN (s \o t), NEW j \in DOMAIN (s \o t), i < j
             PROVE  (s \o t)[i] < (s \o t)[j]
  BY DEF Increasing
<1>1. /\ DOMAIN s = 1 .. Len(s) /\ DOMAIN t = 1 .. Len(t) /\ Len(s) \in Nat /\ Len(t) \in Nat
      /\ DOMAIN (s \o t) = 1 .. Len(s) + Len(t)
      /\ \A k \in DOMAIN (s \o t) : (s \o t)[k] = IF k <= Len(s) THEN s[k] ELSE t[k - Len(s)]
  BY ConcatProperties
<1>2. CASE j <= Len(s)
  BY <1>1, <1>2 DEF Increasing
<1>3. CASE i <= Len(s) /\ ~(j <= Len(s))
  BY <1>1, <1>3 DEF Before
<1>4. CASE ~(i <= Len(s))
  BY <1>1, <1>4 DEF Increasing
<1> QED
  BY <1>1, <1>2, <1>3, <1>4

LEMMA ConnectFlow ==
    ASSUME Inv, NEW c \in Clients, Connect(c)
    PROVE  Ordered(c)' /\ Behind(c)'
<1> USE DEF Inv
<1>1. PICK replay \in {Replay(c), <<>>} :
          /\ received' = [received EXCEPT ![c] = @ \o replay]
          /\ lastID' = [lastID EXCEPT ![c] = StartFrom(c, replay)]
  BY DEF Connect
<1>2. /\ received'[c] = received[c] \o replay /\ lastID'[c] = StartFrom(c, replay)
      /\ channel'[c] = <<>> /\ batch'[c] = <<>> /\ reader'[c] = "read"
  BY <1>1 DEF Connect, Types, TypeOK, ClientsTyped, ReadersTyped, Phases, channelVars
<1>3. /\ replay \in Seq(Nat) /\ replay \in Seq(1 .. Len(log)) /\ Increasing(replay) /\ Above(replay, LastEventID(c))
      /\ replay # <<>> => replay[Len(replay)] = Len(log)
  <2>1. CASE replay = <<>>
    BY <2>1, EmptyFacts
  <2>2. CASE replay = Replay(c)
    BY <2>2, ReplayFacts, Positions, SeqMonotonic
  <2> QED
    BY <1>1, <2>1, <2>2
<1>4. Upto(received[c], LastEventID(c)) /\ LastEventID(c) \in Nat
  <2>1. received[c] \in Seq(Nat) /\ Increasing(received[c])
    BY Positions DEF Ordered
  <2>2. Upto(received[c], LastEventID(c))
    BY <2>1 DEF Upto, Increasing, LastEventID
  <2> QED
    BY <2>2, ReplayFacts, Positions
<1>5. Increasing(received'[c])
  BY <1>2, <1>3, <1>4, Between, ConcatIncreasing, Positions DEF Ordered
<1>6. Ordered(c)'
  BY <1>2, <1>5, EmptyFacts DEF Ordered
<1>7. ASSUME lastID'[c] # Latest PROVE Upto(received'[c], lastID'[c])
  <2>1. CASE replay # <<>>
    <3>1. lastID'[c] = Len(log)
      BY <1>2, <1>3, <2>1 DEF StartFrom
    <3>2. received[c] \o replay \in Seq(1 .. Len(log))
      BY <1>3, Positions, ConcatProperties
    <3>3. \A k \in DOMAIN (received[c] \o replay) : (received[c] \o replay)[k] \in 1 .. Len(log)
      BY <3>2
    <3> QED
      BY <1>2, <3>1, <3>3, Positions DEF Upto
  <2>2. CASE replay = <<>>
    <3>1. received[c] = <<>>
      BY <1>2, <1>7, <2>2, ReplayFacts DEF StartFrom
    <3>2. received'[c] = <<>>
      BY <1>2, <2>2, <3>1
    <3> QED
      BY <3>2, EmptyFacts
  <2> QED
    BY <2>1, <2>2
<1>8. Behind(c)'
  BY <1>2, <1>7, EmptyFacts DEF Behind
<1> QED
  BY <1>6, <1>8

-----------------------------------------------------------------------------

LEMMA TypesStep ==
    ASSUME Types, [Next]_vars
    PROVE  Types'
<1>1. ASSUME NEW p \in Publishers, PublishStep(p) PROVE Types'
  BY <1>1, IncrTypes, AddTypes, PersistTypes DEF PublishStep
<1>2. ASSUME NEW c \in Clients, Connect(c) \/ HandlerStep(c) \/ Disconnect(c) PROVE Types'
  BY <1>2, ConnectTypes, DeliverTypes, SessionTypes DEF HandlerStep
<1>3. ASSUME NEW c \in Clients, ReaderStep(c) PROVE Types'
  BY <1>3, PollTypes, ReadSomeTypes, ForwardTypes DEF ReaderStep
<1>4. CASE Save
  BY <1>4, SaveTypes
<1>5. CASE UNCHANGED vars
  BY <1>5 DEF Types, TypeOK, RedisTyped, PublishersTyped, StoreTyped, ClientsTyped, ReadersTyped, ChannelsTyped,
              Working, Phases, vars, redisVars, publisherVars, storeVars, clientVars, readerVars, channelVars
<1> QED
  BY <1>1, <1>2, <1>3, <1>4, <1>5 DEF Next

LEMMA FlowStep ==
    ASSUME Inv, [Next]_vars
    PROVE  \A c \in Clients : Ordered(c)' /\ Behind(c)'
<1>1. ASSUME NEW c \in Clients, Connect(c) \/ Deliver(c) \/ ReaderStep(c)
      PROVE  \A d \in Clients : Ordered(d)' /\ Behind(d)'
  <2>1. Ordered(c)' /\ Behind(c)'
    BY <1>1, ConnectFlow, DeliverFlow, StartReadFlow, ReadSomeFlow, ReadNothingFlow, ForwardFlow,
       StopReadingFlow DEF ReaderStep
  <2>2. \A d \in Clients : d # c => Same(d)
    BY <1>1, OthersSame DEF Inv
  <2>3. \A d \in Clients : d # c => Ordered(d)' /\ Behind(d)'
    BY <2>2, SameFlow DEF Inv
  <2> QED
    BY <2>1, <2>3
<1> QED
  BY <1>1, QuietFlow DEF Next, HandlerStep

LEMMA Inductive == Spec => []Inv
<1>1. Inv /\ [Next]_vars => Inv'
  <2> SUFFICES ASSUME Inv, [Next]_vars PROVE Inv'
    OBVIOUS
  <2>1. Types'
    BY TypesStep DEF Inv
  <2>2. \A c \in Clients : Ordered(c)' /\ Behind(c)'
    BY FlowStep
  <2> QED
    BY <2>1, <2>2 DEF Inv
<1> QED
  BY <1>1, InitInv, PTL DEF Spec

(* Every variable keeps its type; the queue of rows and the channels keep   *)
(* their bounds.                                                            *)
THEOREM TypeCorrect == Spec => []TypeOK
<1>1. Inv => TypeOK
  BY DEF Inv, Types
<1> QED
  BY <1>1, Inductive, PTL

(* A client receives events in the order of the stream and none twice.      *)
THEOREM OrderCorrect == Spec => []InOrder
<1>1. Inv => InOrder
  BY DEF Inv, Ordered, Increasing, InOrder
<1> QED
  BY <1>1, Inductive, PTL

-----------------------------------------------------------------------------
(* Gaps.                                                                    *)

In(s, i) == \E k \in DOMAIN s : s[k] = i

Explained(c, i) == In(received[c], i) \/ i \in dropped[c] \/ i <= trimmed

(* NoUnexplainedGap is not inductive: there must be no gap in what is on    *)
(* its way either, between the client and the channel, below the position   *)
(* of the reader, and between that position and the entries it has read.    *)
Complete(c) ==
    /\ lastID[c] # Latest
    /\ \A i \in 1 .. LastEventID(c) : Explained(c, i)
    /\ reader[c] # "none" => \A i \in 1 .. lastID[c] : Explained(c, i) \/ In(channel[c], i)
    /\ \A n \in Nat : In(batch[c], n) =>
          \A i \in lastID[c] + 1 .. n : i <= trimmed \/ In(batch[c], i)

GapInv == \A c \in Clients \ tailed : Complete(c)

(* The elements of the sequences the steps make.                            *)
LEMMA InAppend ==
    ASSUME NEW s \in Seq(Nat), NEW n \in Nat, NEW i
    PROVE  In(Append(s, n), i) <=> In(s, i) \/ i = n
  BY AppendFacts DEF In

LEMMA InTail ==
    ASSUME NEW s \in Seq(Nat), s # <<>>, NEW i
    PROVE  In(s, i) <=> i = Head(s) \/ In(Tail(s), i)
<1>1. DOMAIN s = 1 .. Len(s) /\ Len(s) \in Nat \ {0} /\ Head(s) = s[1]
  OBVIOUS
<1>2. /\ Tail(s) \in Seq(Nat) /\ Len(Tail(s)) = Len(s) - 1
      /\ \A k \in 1 .. Len(Tail(s)) : Tail(s)[k] = s[k + 1]
  BY HeadTailProperties
<1>3. DOMAIN Tail(s) = 1 .. (Len(s) - 1)
  BY <1>2
<1>4. ASSUME NEW k \in DOMAIN s, s[k] = i PROVE i = Head(s) \/ In(Tail(s), i)
  <2>1. CASE k = 1
    BY <1>1, <1>4, <2>1
  <2>2. CASE k # 1
    <3>1. k - 1 \in DOMAIN Tail(s) /\ Tail(s)[k - 1] = s[(k - 1) + 1] /\ (k - 1) + 1 = k
      BY <1>1, <1>2, <1>3, <2>2
    <3> QED
      BY <1>4, <3>1 DEF In
  <2> QED
    BY <2>1, <2>2
<1>5. ASSUME NEW k \in DOMAIN Tail(s), Tail(s)[k] = i PROVE In(s, i)
  BY <1>1, <1>2, <1>3, <1>5 DEF In
<1> QED
  BY <1>1, <1>4, <1>5 DEF In

LEMMA InConcat ==
    ASSUME NEW s \in Seq(Nat), NEW t \in Seq(Nat), NEW i
    PROVE  In(s \o t, i) <=> In(s, i) \/ In(t, i)
<1>1. /\ DOMAIN s = 1 .. Len(s) /\ DOMAIN t = 1 .. Len(t) /\ Len(s) \in Nat /\ Len(t) \in Nat
      /\ DOMAIN (s \o t) = 1 .. Len(s) + Len(t)
      /\ \A k \in DOMAIN (s \o t) : (s \o t)[k] = IF k <= Len(s) THEN s[k] ELSE t[k - Len(s)]
  BY ConcatProperties
<1>2. ASSUME NEW k \in DOMAIN (s \o t), (s \o t)[k] = i PROVE In(s, i) \/ In(t, i)
  <2>1. CASE k <= Len(s)
    BY <1>1, <1>2, <2>1 DEF In
  <2>2. CASE ~(k <= Len(s))
    <3>1. k - Len(s) \in DOMAIN t /\ t[k - Len(s)] = i
      BY <1>1, <1>2, <2>2
    <3> QED
      BY <3>1 DEF In
  <2> QED
    BY <2>1, <2>2
<1>3. ASSUME NEW k \in DOMAIN s PROVE k \in DOMAIN (s \o t) /\ (s \o t)[k] = s[k]
  BY <1>1
<1>4. ASSUME NEW k \in DOMAIN t PROVE k + Len(s) \in DOMAIN (s \o t) /\ (s \o t)[k + Len(s)] = t[k]
  BY <1>1
<1> QED
  BY <1>2, <1>3, <1>4 DEF In

LEMMA InIds ==
    ASSUME NEW a \in Nat, NEW b \in Nat, NEW i
    PROVE  In(Ids(a, b), i) <=> i \in a + 1 .. b
<1>1. /\ DOMAIN Ids(a, b) = 1 .. (AtLeast(a, b) - a)
      /\ \A k \in DOMAIN Ids(a, b) : Ids(a, b)[k] = a + k
  BY IdsFacts DEF Ids
<1>2. ASSUME NEW k \in DOMAIN Ids(a, b) PROVE a + k \in a + 1 .. b
  BY <1>1 DEF AtLeast
<1>3. ASSUME i \in a + 1 .. b PROVE i - a \in DOMAIN Ids(a, b) /\ a + (i - a) = i
  BY <1>1, <1>3 DEF AtLeast
<1> QED
  BY <1>1, <1>2, <1>3 DEF In

(* What was explained or dropped remains so.                                *)
LEMMA HistoryGrows ==
    ASSUME Types, [Next]_vars
    PROVE  /\ trimmed \in Nat /\ trimmed' \in Nat /\ trimmed <= trimmed'
           /\ \A c \in Clients : dropped[c] \subseteq dropped'[c]
           /\ tailed \subseteq tailed'
<1>1. /\ trimmed \in Nat /\ Len(log) \in Nat
      /\ trimmed' \in Nat /\ Len(log') \in Nat
      /\ Capacity \in Nat
  BY TypesStep, StreamAssumption DEF Types, TypeOK, RedisTyped
<1>2. ASSUME NEW p \in Publishers, PublishStep(p)
      PROVE  trimmed <= trimmed' /\ dropped' = dropped /\ tailed' = tailed
  <2>1. CASE Add(p)
    <3>1. ASSUME trimmed' \in Trimmed PROVE trimmed <= trimmed'
      BY <1>1, <3>1 DEF Trimmed, AtLeast
    <3>2. ASSUME trimmed' = trimmed PROVE trimmed <= trimmed'
      BY <1>1, <3>2
    <3>3. (trimmed' \in Trimmed \/ trimmed' = trimmed) /\ dropped' = dropped /\ tailed' = tailed
      BY <2>1 DEF Add, clientVars, channelVars
    <3> QED
      BY <3>1, <3>2, <3>3
  <2>2. CASE Incr(p)
    BY <1>1, <2>2 DEF Incr, clientVars, channelVars
  <2>3. CASE Persist(p)
    BY <1>1, <2>3 DEF Persist, redisVars, clientVars, channelVars
  <2> QED
    BY <1>2, <2>1, <2>2, <2>3 DEF PublishStep
<1>3. ASSUME NEW c \in Clients, Connect(c)
      PROVE  trimmed' = trimmed /\ dropped' = dropped /\ tailed \subseteq tailed'
  BY <1>3 DEF Connect, redisVars, channelVars
<1>4. ASSUME NEW c \in Clients, HandlerStep(c) \/ Disconnect(c)
      PROVE  trimmed' = trimmed /\ dropped' = dropped /\ tailed' = tailed
  BY <1>4 DEF HandlerStep, Deliver, CloseIdle, Disconnect, redisVars, channelVars
<1>5. ASSUME NEW c \in Clients, StartRead(c) \/ ReadSome(c) \/ ReadNothing(c) \/ StopReading(c)
      PROVE  trimmed' = trimmed /\ dropped' = dropped /\ tailed' = tailed
  BY <1>5 DEF StartRead, ReadSome, ReadNothing, StopReading, redisVars, clientVars, channelVars
<1>6. ASSUME NEW c \in Clients, Forward(c)
      PROVE  /\ trimmed' = trimmed /\ tailed' = tailed
             /\ \A d \in Clients : dropped[d] \subseteq dropped'[d]
  BY <1>6 DEF Types, TypeOK, ChannelsTyped, Forward, Offer, redisVars, clientVars
<1>7. CASE Save \/ UNCHANGED vars
  BY <1>1, <1>7 DEF Save, vars, redisVars, clientVars, channelVars
<1> QED
  BY <1>1, <1>2, <1>3, <1>4, <1>5, <1>6, <1>7 DEF Next, ReaderStep

(* The numbers a client is at.                                              *)
LEMMA CompleteNumbers ==
    ASSUME Types, NEW c \in Clients, lastID[c] # Latest
    PROVE  lastID[c] \in Nat /\ LastEventID(c) \in Nat
<1>1. Len(log) \in Nat
  BY DEF Types, TypeOK, RedisTyped
<1>2. lastID[c] \in 0 .. Len(log) \cup {Latest}
  BY DEF Types, TypeOK, ReadersTyped
<1> QED
  BY <1>1, <1>2, ReplayFacts

(* A step that moves nothing of c.                                          *)
LEMMA CompleteFrame ==
    ASSUME Types, NEW c \in Clients, Complete(c),
           received'[c] = received[c], channel'[c] = channel[c], batch'[c] = batch[c],
           lastID'[c] = lastID[c], reader'[c] # "none" => reader[c] # "none",
           trimmed \in Nat, trimmed' \in Nat, trimmed <= trimmed', dropped[c] \subseteq dropped'[c]
    PROVE  Complete(c)'
<1>1. lastID[c] \in Nat /\ LastEventID(c) \in Nat /\ LastEventID(c)' = LastEventID(c)
  BY CompleteNumbers DEF Complete, LastEventID
<1>2. \A i \in Nat : Explained(c, i) => Explained(c, i)'
  BY DEF Explained
<1>3. \A i \in Nat : i <= trimmed => i <= trimmed'
  OBVIOUS
<1>4. \A n \in Nat : \A i \in 1 .. n : i \in Nat
  OBVIOUS
<1>5. \A n \in Nat : \A i \in lastID[c] + 1 .. n : i \in Nat
  BY <1>1
<1> QED
  BY <1>1, <1>2, <1>3, <1>4, <1>5 DEF Complete

LEMMA DeliverComplete ==
    ASSUME Inv, NEW c \in Clients, Complete(c), Deliver(c)
    PROVE  Complete(c)'
<1> DEFINE i == Head(channel[c])
           rest == Tail(channel[c])
           got == Append(received[c], i)
<1>1. /\ channel[c] \in Seq(Nat) /\ channel[c] # <<>> /\ received[c] \in Seq(Nat)
      /\ Increasing(channel[c])
  BY Positions DEF Inv, Ordered, Deliver
<1>2. /\ i \in Nat /\ i = channel[c][1] /\ 1 \in DOMAIN channel[c] /\ rest \in Seq(Nat) /\ Above(rest, i)
  BY <1>1, TailFacts
<1>3. \A n : In(channel[c], n) <=> n = i \/ In(rest, n)
  BY <1>1, InTail
<1>4. \A n : In(got, n) <=> In(received[c], n) \/ n = i
  BY <1>1, <1>2, InAppend
<1>5. got # <<>> /\ got[Len(got)] = i
  BY <1>1, <1>2
<1>6. /\ received'[c] = got /\ channel'[c] = rest
      /\ UNCHANGED <<batch, reader, lastID, dropped, trimmed>>
  BY DEF Deliver, Inv, Types, TypeOK, ClientsTyped, ChannelsTyped, readerVars, redisVars
<1> HIDE DEF i, rest, got
<1>7. LastEventID(c)' = i
  BY <1>5, <1>6 DEF LastEventID
<1>8. reader[c] # "none" /\ lastID[c] \in Nat /\ i <= lastID[c]
  <2>1. reader[c] # "none"
    BY <1>1 DEF Inv, Types, Phases
  <2>2. Upto(channel[c], lastID[c])
    BY <2>1 DEF Inv, Behind, Complete
  <2> QED
    BY <1>2, <2>1, <2>2, CompleteNumbers DEF Inv, Complete, Upto
<1>9. \A j \in 1 .. lastID[c] : Explained(c, j) \/ j = i \/ In(rest, j)
  BY <1>3, <1>8 DEF Complete
<1>10. \A j \in Nat : In(rest, j) => i < j
  BY <1>2 DEF In, Above
<1>11. \A j \in Nat : Explained(c, j)' <=> Explained(c, j) \/ j = i
  BY <1>4, <1>6 DEF Explained
<1>12. \A j \in 1 .. i : Explained(c, j)'
  <2> SUFFICES ASSUME NEW j \in 1 .. i PROVE Explained(c, j)'
    OBVIOUS
  <2>1. j \in Nat /\ j \in 1 .. lastID[c] /\ ~(i < j)
    BY <1>2, <1>8
  <2> QED
    BY <2>1, <1>9, <1>10, <1>11
<1>13. \A j \in 1 .. lastID[c] : Explained(c, j)' \/ In(rest, j)
  <2>1. \A j \in 1 .. lastID[c] : j \in Nat
    BY <1>8
  <2> QED
    BY <1>9, <1>11, <2>1
<1> QED
  BY <1>6, <1>7, <1>12, <1>13 DEF Complete

LEMMA ReadSomeComplete ==
    ASSUME Inv, NEW c \in Clients, Complete(c), ReadSome(c)
    PROVE  Complete(c)'
<1> DEFINE a == AtLeast(from[c], trimmed)
           m == AtMost(Count, Len(Unread(c)))
<1>1. Len(log) \in Nat /\ trimmed \in Nat /\ from[c] \in Nat
  BY DEF Inv, Types, TypeOK, RedisTyped, ReadersTyped
<1>2. lastID[c] \in Nat /\ lastID[c] # Latest /\ from[c] = lastID[c]
  BY CompleteNumbers DEF Inv, Behind, Complete, ReadSome
<1>3. a \in Nat /\ \A i \in Nat : from[c] < i /\ i <= a => i <= trimmed
  BY <1>1 DEF AtLeast
<1>4. /\ Unread(c) \in Seq(Nat) /\ Unread(c) # <<>>
      /\ \A i \in DOMAIN Unread(c) : Unread(c)[i] = a + i
  <2>1. /\ Ids(a, Len(log)) \in Seq(1 .. Len(log))
        /\ \A i \in DOMAIN Ids(a, Len(log)) : Ids(a, Len(log))[i] = a + i
    BY <1>1, <1>3, IdsFacts
  <2>2. Unread(c) = Ids(a, Len(log))
    BY DEF Unread
  <2>3. 1 .. Len(log) \subseteq Nat
    BY <1>1
  <2> QED
    BY <2>1, <2>2, <2>3, SeqMonotonic DEF ReadSome
<1> HIDE DEF a
<1>5. m \in 1 .. Len(Unread(c)) /\ m \in Nat
  <2>1. Len(Unread(c)) \in Nat \ {0}
    BY <1>4
  <2> QED
    BY <2>1, StreamAssumption DEF AtMost
<1>6. batch'[c] = SubSeq(Unread(c), 1, m)
  BY DEF ReadSome, Inv, Types, TypeOK, ReadersTyped
<1> HIDE DEF m
<1>7. DOMAIN batch'[c] = 1 .. m /\ \A i \in 1 .. m : batch'[c][i] = a + i
  <2>1. DOMAIN SubSeq(Unread(c), 1, m) = 1 .. m /\ \A i \in 1 .. m : SubSeq(Unread(c), 1, m)[i] = Unread(c)[i]
    BY <1>4, <1>5, SubSeqProperties
  <2>2. \A i \in 1 .. m : i \in DOMAIN Unread(c)
    BY <1>4, <1>5
  <2> QED
    BY <1>4, <1>6, <2>1, <2>2
<1>8. \A n \in Nat : In(batch'[c], n) <=> n \in a + 1 .. a + m
  <2>1. ASSUME NEW n \in a + 1 .. a + m PROVE n - a \in 1 .. m /\ a + (n - a) = n
    BY <1>3, <1>5
  <2>2. ASSUME NEW k \in 1 .. m PROVE a + k \in a + 1 .. a + m
    BY <1>3, <1>5
  <2> QED
    BY <1>7, <2>1, <2>2 DEF In
<1>9. UNCHANGED <<received, channel, lastID, dropped, trimmed>> /\ reader[c] # "none"
  BY DEF ReadSome, clientVars, channelVars, redisVars
<1>10. ASSUME NEW n \in Nat, In(batch'[c], n), NEW i \in lastID[c] + 1 .. n
       PROVE  i <= trimmed \/ In(batch'[c], i)
  <2>1. i \in Nat /\ lastID[c] < i /\ i <= n /\ n <= a + m
    BY <1>2, <1>3, <1>5, <1>8, <1>10
  <2>2. CASE i <= a
    BY <1>2, <1>3, <2>1, <2>2
  <2>3. CASE ~(i <= a)
    BY <1>3, <1>5, <1>8, <2>1, <2>3
  <2> QED
    BY <2>2, <2>3
<1> QED
  BY <1>9, <1>10 DEF Complete, Explained, LastEventID

LEMMA ForwardComplete ==
    ASSUME Inv, NEW c \in Clients, Complete(c), Forward(c)
    PROVE  Complete(c)'
<1> DEFINE i == Head(batch[c])
           rest == Tail(batch[c])
<1>1. /\ batch[c] \in Seq(Nat) /\ batch[c] # <<>> /\ channel[c] \in Seq(Nat) /\ Increasing(batch[c])
      /\ reader[c] = "forward"
  BY Positions DEF Inv, Types, Phases, Ordered, Forward
<1>2. /\ i \in Nat /\ i = batch[c][1] /\ 1 \in DOMAIN batch[c] /\ Above(rest, i)
  BY <1>1, TailFacts
<1>3. \A n : In(batch[c], n) <=> n = i \/ In(rest, n)
  BY <1>1, InTail
<1>4. \A n : In(Append(channel[c], i), n) <=> In(channel[c], n) \/ n = i
  BY <1>1, <1>2, InAppend
<1>5. /\ batch'[c] = rest /\ lastID'[c] = i
      /\ \/ channel'[c] = channel[c] /\ i \in dropped'[c] /\ dropped[c] \subseteq dropped'[c]
         \/ channel'[c] = Append(channel[c], i) /\ dropped' = dropped
      /\ received' = received /\ trimmed' = trimmed
  BY DEF Forward, Offer, Inv, Types, TypeOK, ReadersTyped, ChannelsTyped, clientVars, redisVars
<1> HIDE DEF i, rest
<1>6. \A n : In(rest, n) /\ n \in Nat => i < n
  BY <1>2 DEF In, Above
<1>7. lastID[c] \in Nat /\ lastID[c] < i
  <2>1. Above(batch[c], lastID[c])
    BY <1>1 DEF Inv, Behind, Complete
  <2> QED
    BY <1>2, <2>1, CompleteNumbers DEF Inv, Complete, Above
<1>8. \A n : Explained(c, n) => Explained(c, n)'
  BY <1>5 DEF Explained
<1>9. \A n : In(channel[c], n) => In(channel'[c], n)
  BY <1>4, <1>5
<1>10. ASSUME NEW n \in 1 .. i PROVE Explained(c, n)' \/ In(channel'[c], n)
  <2>1. CASE n <= lastID[c]
    <3>1. n \in 1 .. lastID[c]
      BY <1>7, <2>1
    <3> QED
      BY <1>1, <1>8, <1>9, <3>1 DEF Complete
  <2>2. CASE n = i
    BY <1>4, <1>5, <2>2 DEF Explained
  <2>3. CASE ~(n <= lastID[c]) /\ n # i
    <3>1. n \in lastID[c] + 1 .. i /\ n \in Nat /\ ~(i < n)
      BY <1>2, <1>7, <2>3
    <3>2. n <= trimmed \/ In(batch[c], n)
      BY <1>2, <1>3, <3>1 DEF Complete
    <3>3. n <= trimmed
      BY <1>3, <1>6, <2>3, <3>1, <3>2
    <3> QED
      BY <1>5, <3>3 DEF Explained
  <2> QED
    BY <2>1, <2>2, <2>3
<1>11. ASSUME NEW n \in Nat, In(rest, n), NEW k \in i + 1 .. n
       PROVE  k <= trimmed \/ In(rest, k)
  <2>1. k \in lastID[c] + 1 .. n /\ k # i
    BY <1>2, <1>7
  <2>2. k <= trimmed \/ In(batch[c], k)
    BY <1>3, <1>11, <2>1 DEF Complete
  <2> QED
    BY <1>3, <2>1, <2>2
<1>12. i # Latest
  BY <1>2, StreamAssumption
<1>13. LastEventID(c)' = LastEventID(c)
  BY <1>5 DEF LastEventID
<1> QED
  BY <1>5, <1>8, <1>10, <1>11, <1>12, <1>13 DEF Complete

LEMMA ConnectComplete ==
    ASSUME Inv, NEW c \in Clients, c \notin tailed', c \notin tailed => Complete(c), Connect(c)
    PROVE  Complete(c)'
<1>1. PICK replay \in {Replay(c), <<>>} :
          /\ received' = [received EXCEPT ![c] = @ \o replay]
          /\ lastID' = [lastID EXCEPT ![c] = StartFrom(c, replay)]
  BY DEF Connect
<1>2. /\ received'[c] = received[c] \o replay /\ lastID'[c] = StartFrom(c, replay)
      /\ lastID'[c] # Latest /\ c \notin tailed
      /\ batch'[c] = <<>> /\ dropped' = dropped /\ trimmed' = trimmed
  BY <1>1 DEF Connect, Inv, Types, TypeOK, ClientsTyped, ReadersTyped, Phases, channelVars, redisVars
<1>3. Complete(c)
  BY <1>2
<1>4. Len(log) \in Nat /\ trimmed \in Nat /\ LastEventID(c) \in Nat /\ received[c] \in Seq(Nat)
  BY <1>3, CompleteNumbers, Positions DEF Inv, Types, TypeOK, RedisTyped, Complete
<1>5. \A n : ~In(<<>>, n)
  BY DEF In
<1>6. ASSUME LastEventID(c)' = lastID'[c], lastID'[c] \in Nat,
             \A i \in 1 .. lastID'[c] : Explained(c, i)'
      PROVE  Complete(c)'
  BY <1>2, <1>5, <1>6 DEF Complete
<1>7. CASE replay = <<>>
  <2>1. received[c] = <<>>
    BY <1>2, <1>7, ReplayFacts DEF StartFrom, Inv
  <2>2. received'[c] = <<>> /\ lastID'[c] = 0
    BY <1>2, <1>7, <2>1 DEF StartFrom, LastEventID
  <2>3. LastEventID(c)' = 0 /\ \A i : ~(i \in 1 .. 0)
    BY <2>2 DEF LastEventID
  <2> QED
    BY <1>6, <2>2, <2>3
<1>8. CASE replay # <<>>
  <2> DEFINE a == AtLeast(LastEventID(c), trimmed)
  <2>1. replay = Ids(a, Len(log))
    BY <1>1, <1>8 DEF Replay
  <2>2. a \in Nat /\ \A i \in Nat : LastEventID(c) < i /\ i <= a => i <= trimmed
    BY <1>4 DEF AtLeast
  <2> HIDE DEF a
  <2>3. \A n : In(replay, n) <=> n \in a + 1 .. Len(log)
    BY <1>4, <2>1, <2>2, InIds
  <2>4. replay \in Seq(1 .. Len(log)) /\ replay[Len(replay)] = Len(log)
    BY <1>4, <1>8, <2>1, <2>2, IdsFacts
  <2>5. replay \in Seq(Nat)
    BY <1>4, <2>4, SeqMonotonic
  <2>6. \A n : In(received'[c], n) <=> In(received[c], n) \/ In(replay, n)
    BY <1>2, <1>4, <2>5, InConcat
  <2>7. lastID'[c] = Len(log)
    BY <1>2, <1>8, <2>4 DEF StartFrom
  <2>8. LastEventID(c)' = Len(log)
    <3>1. /\ Len(received[c] \o replay) = Len(received[c]) + Len(replay)
          /\ Len(received[c]) \in Nat /\ Len(replay) \in Nat \ {0}
          /\ (received[c] \o replay)[Len(received[c]) + Len(replay)] = replay[Len(replay)]
      BY <1>4, <1>8, <2>5, ConcatProperties
    <3>2. received[c] \o replay # <<>>
      BY <1>4, <2>5, <3>1
    <3> QED
      BY <1>2, <2>4, <3>1, <3>2 DEF LastEventID
  <2>9. ASSUME NEW i \in 1 .. Len(log) PROVE Explained(c, i)'
    <3>1. CASE i <= LastEventID(c)
      <4>1. Explained(c, i)
        BY <1>3, <1>4, <3>1 DEF Complete
      <4> QED
        BY <1>2, <2>6, <4>1 DEF Explained
    <3>2. CASE ~(i <= LastEventID(c)) /\ i <= a
      <4>1. i <= trimmed
        BY <1>4, <2>2, <3>2
      <4> QED
        BY <1>2, <4>1 DEF Explained
    <3>3. CASE ~(i <= a)
      BY <1>4, <2>2, <2>3, <2>6, <3>3 DEF Explained
    <3> QED
      BY <3>1, <3>2, <3>3
  <2> QED
    BY <1>4, <1>6, <2>7, <2>8, <2>9
<1> QED
  BY <1>7, <1>8

LEMMA StopReadingComplete ==
    ASSUME Inv, NEW c \in Clients, Complete(c), StopReading(c)
    PROVE  Complete(c)'
<1>1. /\ lastID'[c] = 0 /\ reader'[c] = "none" /\ batch'[c] = <<>>
      /\ UNCHANGED <<received, dropped, trimmed>>
  BY DEF StopReading, Inv, Types, TypeOK, Phases, ReadersTyped, clientVars, redisVars
<1>2. 0 # Latest /\ \A n : ~In(<<>>, n)
  BY StreamAssumption DEF In
<1> QED
  BY <1>1, <1>2 DEF Complete, Explained, LastEventID

LEMMA GapStep == Inv /\ GapInv /\ [Next]_vars => GapInv'
<1> SUFFICES ASSUME Inv, GapInv, [Next]_vars
             PROVE  GapInv'
  OBVIOUS
<1>1. /\ Types /\ tailed \subseteq tailed' /\ \A c \in Clients \ tailed : Complete(c)
      /\ trimmed \in Nat /\ trimmed' \in Nat /\ trimmed <= trimmed'
      /\ \A c \in Clients : dropped[c] \subseteq dropped'[c]
  BY HistoryGrows DEF Inv, GapInv
<1>2. ASSUME NEW c \in Clients \ tailed', Same(c) PROVE Complete(c)'
  BY <1>1, <1>2, CompleteFrame DEF Same
<1>3. ASSUME NEW c \in Clients, Connect(c) \/ Deliver(c) \/ ReaderStep(c) PROVE GapInv'
  <2>1. ASSUME c \notin tailed' PROVE Complete(c)'
    <3>1. CASE Connect(c)
      BY <1>1, <2>1, <3>1, ConnectComplete
    <3>2. CASE Deliver(c)
      BY <1>1, <2>1, <3>2, DeliverComplete
    <3>3. CASE StartRead(c) \/ ReadNothing(c)
      <4>1. /\ received' = received /\ channel' = channel /\ batch' = batch /\ lastID' = lastID
            /\ reader[c] # "none"
        BY <3>3 DEF StartRead, ReadNothing, clientVars, channelVars
      <4> QED
        BY <1>1, <2>1, <4>1, CompleteFrame
    <3>4. CASE ReadSome(c) \/ Forward(c) \/ StopReading(c)
      BY <1>1, <2>1, <3>4, ReadSomeComplete, ForwardComplete, StopReadingComplete
    <3> QED
      BY <1>3, <3>1, <3>2, <3>3, <3>4 DEF ReaderStep
  <2>2. ASSUME NEW d \in Clients \ tailed', d # c PROVE Complete(d)'
    BY <1>1, <1>2, <1>3, <2>2, OthersSame
  <2> QED
    BY <2>1, <2>2 DEF GapInv
<1>4. CASE \/ \E p \in Publishers : PublishStep(p)
           \/ Save
           \/ \E c \in Clients : CloseIdle(c) \/ Disconnect(c)
           \/ UNCHANGED vars
  <2>1. UNCHANGED <<received, readerVars, channel>>
    BY <1>4 DEF PublishStep, Incr, Add, Persist, Save, CloseIdle, Disconnect, vars, clientVars, channelVars
  <2> QED
    BY <1>2, <2>1 DEF GapInv, Same, readerVars
<1> QED
  BY <1>3, <1>4 DEF Next, HandlerStep

(* A client that never resumed at "$" misses no event before the last it    *)
(* got, but those that did not fit into its channel or were trimmed: across *)
(* failed reads, batches in flight when it disconnects, and replays.        *)
THEOREM GapsExplained == Spec => []NoUnexplainedGap
<1>1. Init => GapInv
  <2> SUFFICES ASSUME Init, NEW c \in Clients PROVE Complete(c)
    BY DEF GapInv
  <2>1. /\ lastID[c] = 0 /\ received[c] = <<>> /\ batch[c] = <<>> /\ 0 # Latest
        /\ \A n : ~In(<<>>, n)
    BY StreamAssumption DEF Init, In
  <2> QED
    BY <2>1 DEF Complete, LastEventID
<1>2. GapInv => NoUnexplainedGap
  BY DEF GapInv, Complete, Explained, In, NoUnexplainedGap, Received
<1> QED
  BY <1>1, <1>2, Inductive, GapStep, PTL DEF Spec

-----------------------------------------------------------------------------
(* Rows.                                                                    *)

(* The events that are published, read, queued or stored.                   *)
Underway(p) == step[p] # "incr"

Existing ==
    {log[i] : i \in DOMAIN log} \cup {queue[i] : i \in DOMAIN queue}
        \cup {rows[i] : i \in DOMAIN rows} \cup saved
        \cup {Event(p) : p \in {q \in Publishers : Underway(q)}}

Akin(e, f) == (e.seq # 0 /\ e.seq = f.seq) \/ (e.by = f.by /\ e.n = f.n)

(* StoredOnce is not inductive: that a row with the number of an event is   *)
(* that event's takes that no number was given out twice, which the counter *)
(* is ahead of, and that no event was published twice, which its publisher  *)
(* is past.                                                                 *)
Numbered ==
    /\ \A p \in Publishers : ~Underway(p) => seq[p] = 0
    /\ \A e \in Existing :
          /\ e.seq <= counter
          /\ e.n <= next[e.by] /\ (e.n = next[e.by] => Underway(e.by))
    /\ \A e, f \in Existing : Akin(e, f) => e = f

Stored ==
    /\ \A i, j \in DOMAIN rows :
          Kind(rows[i]) = Kind(rows[j]) /\ rows[i].seq = rows[j].seq => i = j
    /\ \A e \in saved : e.seq # 0 => In(rows, e)

LEMMA ExistingTyped ==
    ASSUME Types
    PROVE  /\ Existing \subseteq Events
           /\ \A e \in Events : e.by \in Publishers /\ e.n \in Nat /\ e.seq \in Nat
           /\ counter \in Nat
           /\ \A p \in Publishers : next[p] \in Nat /\ seq[p] \in Nat
<1>1. \A p \in Publishers : Event(p) \in Events
  BY EventTyped DEF Types, TypeOK
<1>2. \A s \in Seq(Events) : \A i \in DOMAIN s : s[i] \in Events
  OBVIOUS
<1>3. Existing \subseteq Events
  BY <1>1, <1>2 DEF Existing, Types, TypeOK, RedisTyped, StoreTyped
<1> QED
  BY <1>3 DEF Types, TypeOK, RedisTyped, PublishersTyped, Events

(* A step after which there is no new event, and no publisher is back where *)
(* it was.                                                                  *)
LEMMA NumberedFrame ==
    ASSUME Types, Types', Numbered, Existing' \subseteq Existing, counter <= counter',
           \A p \in Publishers : Underway(p)' \/ seq'[p] = 0,
           \A p \in Publishers : next[p] < next'[p] \/ (next'[p] = next[p] /\ (Underway(p) => Underway(p)'))
    PROVE  Numbered'
<1>1. ASSUME NEW e \in Existing'
      PROVE  /\ e.seq <= counter'
             /\ e.n <= next'[e.by] /\ (e.n = next'[e.by] => Underway(e.by)')
  <2>1. /\ e \in Existing /\ e.by \in Publishers /\ e.n \in Nat /\ e.seq \in Nat
        /\ next[e.by] \in Nat /\ counter \in Nat
    BY ExistingTyped
  <2>3. next'[e.by] \in Nat /\ counter' \in Nat
    BY <2>1 DEF Types, TypeOK, RedisTyped, PublishersTyped
  <2>2. e.seq <= counter /\ e.n <= next[e.by] /\ (e.n = next[e.by] => Underway(e.by))
    BY <2>1 DEF Numbered
  <2> QED
    BY <2>1, <2>2, <2>3
<1> QED
  BY <1>1 DEF Numbered, Akin

LEMMA SequenceElements ==
    ASSUME NEW S, NEW s \in Seq(S)
    PROVE  /\ \A e \in S : \A i \in DOMAIN Append(s, e) :
                  Append(s, e)[i] = e \/ \E j \in DOMAIN s : Append(s, e)[i] = s[j]
           /\ s # <<>> => /\ \E j \in DOMAIN s : Head(s) = s[j]
                          /\ \A i \in DOMAIN Tail(s) : \E j \in DOMAIN s : Tail(s)[i] = s[j]
<1>1. ASSUME NEW e \in S, NEW i \in DOMAIN Append(s, e)
      PROVE  Append(s, e)[i] = e \/ \E j \in DOMAIN s : Append(s, e)[i] = s[j]
  <2>1. i \in DOMAIN s \/ i = Len(s) + 1
    OBVIOUS
  <2>2. CASE i \in DOMAIN s
    <3>1. Append(s, e)[i] = s[i]
      BY <2>2
    <3> QED
      BY <2>2, <3>1
  <2>3. CASE i = Len(s) + 1
    BY <2>3
  <2> QED
    BY <2>1, <2>2, <2>3
<1>2. ASSUME s # <<>>
      PROVE  /\ \E j \in DOMAIN s : Head(s) = s[j]
             /\ \A i \in DOMAIN Tail(s) : \E j \in DOMAIN s : Tail(s)[i] = s[j]
  <2>1. 1 \in DOMAIN s /\ Head(s) = s[1]
    BY <1>2
  <2>2. \A i \in DOMAIN Tail(s) : i + 1 \in DOMAIN s /\ Tail(s)[i] = s[i + 1]
    BY <1>2
  <2> QED
    BY <2>1, <2>2
<1> QED
  BY <1>1, <1>2

LEMMA ExistsWhere ==
    ASSUME NEW e
    PROVE  e \in Existing <=> \/ In(log, e) \/ In(queue, e) \/ In(rows, e) \/ e \in saved
                              \/ \E p \in Publishers : Underway(p) /\ e = Event(p)
  BY DEF Existing, In

LEMMA ExistsWhereNext ==
    ASSUME NEW e
    PROVE  e \in Existing' <=> \/ In(log', e) \/ In(queue', e) \/ In(rows', e) \/ e \in saved'
                               \/ \E p \in Publishers : Underway(p)' /\ e = Event(p)'
  BY DEF Existing, In

(* How the publishers stand after p has gone on.                            *)
LEMMA PublishersMove ==
    ASSUME Types, NEW p \in Publishers, Underway(p) \/ ~Underway(p)
    PROVE  /\ NextEvent(p) =>
                /\ \A q \in Publishers \ {p} :
                      Event(q)' = Event(q) /\ (Underway(q)' <=> Underway(q)) /\ next'[q] = next[q]
                      /\ seq'[q] = seq[q]
                /\ ~Underway(p)' /\ seq'[p] = 0 /\ next[p] < next'[p]
           /\ \A s \in {"add", "persist"} : GoOn(p, s) =>
                /\ \A q \in Publishers \ {p} : Underway(q)' <=> Underway(q)
                /\ Underway(p)' /\ next' = next
           /\ UNCHANGED <<next, seq>> => \A q \in Publishers : Event(q)' = Event(q)
<1>1. /\ step \in [Publishers -> {"incr", "add", "persist"}] /\ next \in [Publishers -> Nat \ {0}]
      /\ seq \in [Publishers -> Nat]
  BY DEF Types, TypeOK, PublishersTyped
<1>2. ASSUME NextEvent(p)
      PROVE  /\ \A q \in Publishers \ {p} :
                   Event(q)' = Event(q) /\ (Underway(q)' <=> Underway(q)) /\ next'[q] = next[q]
                   /\ seq'[q] = seq[q]
             /\ ~Underway(p)' /\ seq'[p] = 0 /\ next[p] < next'[p]
  BY <1>1, <1>2 DEF NextEvent, Event, Underway
<1>3. ASSUME NEW s \in {"add", "persist"}, GoOn(p, s)
      PROVE  /\ \A q \in Publishers \ {p} : Underway(q)' <=> Underway(q)
             /\ Underway(p)' /\ next' = next
  BY <1>1, <1>3 DEF GoOn, Underway
<1>4. UNCHANGED <<next, seq>> => \A q \in Publishers : Event(q)' = Event(q)
  BY DEF Event
<1> QED
  BY <1>2, <1>3, <1>4

(* The new event of a publisher is like no other.                           *)
LEMMA NumberedIncr ==
    ASSUME Types, Types', Numbered, NEW p \in Publishers, Incr(p)
    PROVE  Numbered'
<1>1. /\ ~Underway(p) /\ seq[p] = 0 /\ counter \in Nat /\ counter' \in Nat /\ counter <= counter'
      /\ next[p] \in Nat
      /\ UNCHANGED <<log, queue, rows, saved>>
  BY ExistingTyped DEF Incr, NextSeq, Underway, Numbered, storeVars
<1>2. CASE NextEvent(p)
  <2>1. /\ \A q \in Publishers \ {p} :
              Event(q)' = Event(q) /\ (Underway(q)' <=> Underway(q)) /\ next'[q] = next[q] /\ seq'[q] = seq[q]
        /\ ~Underway(p)' /\ seq'[p] = 0 /\ next[p] < next'[p]
    BY <1>2, PublishersMove
  <2>2. Existing' \subseteq Existing
    BY <1>1, <2>1, ExistsWhere, ExistsWhereNext
  <2> QED
    BY <1>1, <2>1, <2>2, NumberedFrame DEF Numbered
<1>3. CASE GoOn(p, "add") /\ (NextSeq(p) \/ UNCHANGED seq)
  <2> DEFINE f == Event(p)'
  <2>1. /\ \A q \in Publishers \ {p} : Underway(q)' <=> Underway(q)
        /\ Underway(p)' /\ next' = next
    BY <1>3, PublishersMove
  <2>2. /\ \A q \in Publishers \ {p} : seq'[q] = seq[q]
        /\ seq'[p] = 0 \/ (seq'[p] = counter' /\ counter' = counter + 1)
    BY <1>1, <1>3 DEF NextSeq, Types, TypeOK, PublishersTyped
  <2>3. \A q \in Publishers \ {p} : Event(q)' = Event(q)
    BY <2>1, <2>2 DEF Event
  <2>4. f.by = p /\ f.n = next[p] /\ f.seq = seq'[p]
    BY <2>1 DEF Event
  <2> HIDE DEF f
  <2>5. \A e \in Existing' : e \in Existing \/ e = f
    BY <1>1, <2>1, <2>3, ExistsWhere, ExistsWhereNext DEF f
  <2>6. ASSUME NEW e \in Existing
        PROVE  /\ ~Akin(e, f) /\ ~Akin(f, e)
               /\ e.seq <= counter' /\ e.n <= next'[e.by] /\ (e.n = next'[e.by] => Underway(e.by)')
    <3>1. e.by \in Publishers /\ e.n \in Nat /\ e.seq \in Nat
      BY ExistingTyped
    <3>2. e.seq <= counter /\ e.n <= next[e.by] /\ (e.n = next[e.by] => Underway(e.by))
      BY DEF Numbered
    <3>3. e.seq # 0 \/ f.seq # 0 => e.seq # f.seq
      BY <1>1, <2>2, <2>4, <3>1, <3>2
    <3>4. ~(e.by = f.by /\ e.n = f.n)
      BY <1>1, <2>4, <3>2
    <3> QED
      BY <1>1, <2>1, <3>1, <3>2, <3>3, <3>4 DEF Akin
  <2>7. f.seq <= counter' /\ f.n <= next'[f.by] /\ f.by = p /\ Underway(p)'
    BY <1>1, <2>1, <2>2, <2>4
  <2>8. \A q \in Publishers : ~Underway(q)' => seq'[q] = 0
    BY <2>1, <2>2 DEF Numbered
  <2>9. ASSUME NEW e \in Existing'
        PROVE  /\ e.seq <= counter'
               /\ e.n <= next'[e.by] /\ (e.n = next'[e.by] => Underway(e.by)')
    <3>1. CASE e \in Existing
      BY <2>6, <3>1
    <3>2. CASE e = f
      BY <2>7, <3>2 DEF Underway
    <3> QED
      BY <2>5, <3>1, <3>2
  <2>10. \A e, g \in Existing' : Akin(e, g) => e = g
    BY <2>5, <2>6 DEF Numbered
  <2> QED
    BY <2>8, <2>9, <2>10 DEF Numbered, Akin
<1> QED
  BY <1>2, <1>3 DEF Incr

(* A step that queues an event that exists.                                 *)
LEMMA EnqueueExists ==
    ASSUME Types, NEW e \in Existing, Enqueue(e)
    PROVE  /\ \A x : In(queue', x) => x \in Existing
           /\ rows' = rows /\ saved' = saved
<1>1. queue \in Seq(Events) /\ e \in Events
  BY ExistingTyped DEF Types, TypeOK, StoreTyped
<1>2. ASSUME NEW i \in DOMAIN Append(queue, e) PROVE Append(queue, e)[i] \in Existing
  BY <1>1, <1>2, SequenceElements DEF Existing
<1>3. \A x : In(queue, x) => x \in Existing
  BY DEF Existing, In
<1>4. queue' = queue \/ queue' = Append(queue, e)
  BY DEF Enqueue
<1> QED
  BY <1>2, <1>3, <1>4 DEF Enqueue, In

LEMMA NumberedAdd ==
    ASSUME Types, Types', Numbered, NEW p \in Publishers, Add(p)
    PROVE  Numbered'
<1>1. /\ Underway(p) /\ counter' = counter /\ counter \in Nat
      /\ UNCHANGED <<queue, rows, saved>>
      /\ log' = log \/ log' = Append(log, Event(p))
  BY ExistingTyped DEF Add, Underway, storeVars
<1>2. /\ \A q \in Publishers \ {p} :
            Event(q)' = Event(q) /\ (Underway(q)' <=> Underway(q)) /\ next'[q] = next[q] /\ seq'[q] = seq[q]
      /\ \/ ~Underway(p)' /\ seq'[p] = 0 /\ next[p] < next'[p]
         \/ Underway(p)' /\ next'[p] = next[p] /\ Event(p)' = Event(p)
  <2>1. CASE NextEvent(p)
    BY <2>1, PublishersMove
  <2>2. CASE GoOn(p, "persist") /\ UNCHANGED seq
    <3>1. next' = next
      BY <2>2 DEF GoOn
    <3> QED
      BY <2>2, <3>1, PublishersMove
  <2> QED
    BY <2>1, <2>2 DEF Add
<1>3. Event(p) \in Existing /\ Event(p) \in Events /\ log \in Seq(Events)
  BY <1>1, ExistingTyped, ExistsWhere DEF Types, TypeOK, RedisTyped
<1>4. \A x : In(log', x) => x \in Existing
  <2>1. ASSUME NEW i \in DOMAIN Append(log, Event(p)) PROVE Append(log, Event(p))[i] \in Existing
    BY <1>3, <2>1, SequenceElements DEF Existing
  <2>2. \A x : In(log, x) => x \in Existing
    BY DEF Existing, In
  <2> QED
    BY <1>1, <2>1, <2>2 DEF In
<1>5. Existing' \subseteq Existing
  BY <1>1, <1>2, <1>4, ExistsWhere, ExistsWhereNext
<1> QED
  BY <1>1, <1>2, <1>5, NumberedFrame DEF Numbered

LEMMA NumberedPersist ==
    ASSUME Types, Types', Numbered, NEW p \in Publishers, Persist(p)
    PROVE  Numbered'
<1>1. /\ Underway(p) /\ counter' = counter /\ counter \in Nat /\ log' = log
      /\ Enqueue(Event(p)) /\ NextEvent(p)
  BY ExistingTyped DEF Persist, Underway, redisVars
<1>2. /\ \A q \in Publishers \ {p} :
            Event(q)' = Event(q) /\ (Underway(q)' <=> Underway(q)) /\ next'[q] = next[q] /\ seq'[q] = seq[q]
      /\ ~Underway(p)' /\ seq'[p] = 0 /\ next[p] < next'[p]
  BY <1>1, PublishersMove
<1>3. (\A x : In(queue', x) => x \in Existing) /\ rows' = rows /\ saved' = saved
  <2>1. Event(p) \in Existing
    BY <1>1, ExistsWhere
  <2> QED
    BY <1>1, <2>1, EnqueueExists
<1>4. Existing' \subseteq Existing
  BY <1>1, <1>2, <1>3, ExistsWhere, ExistsWhereNext
<1> QED
  BY <1>1, <1>2, <1>4, NumberedFrame DEF Numbered

(* Every other step leaves the counter and the publishers alone, and makes  *)
(* no event.                                                                *)
LEMMA NumberedQuiet ==
    ASSUME Types, Types', Numbered, UNCHANGED <<counter, publisherVars, log>>,
           \A x : In(queue', x) \/ In(rows', x) \/ x \in saved' => x \in Existing
    PROVE  Numbered'
<1>1. \A q \in Publishers : Event(q)' = Event(q) /\ (Underway(q)' <=> Underway(q))
  BY DEF Event, Underway, publisherVars
<1>2. Existing' \subseteq Existing
  BY <1>1, ExistsWhere, ExistsWhereNext
<1>3. counter \in Nat /\ counter' = counter /\ seq' = seq /\ next' = next
  BY ExistingTyped DEF publisherVars
<1> QED
  BY <1>1, <1>2, <1>3, NumberedFrame DEF Numbered

(* SaveEventLog stores an event once.                                       *)
LEMMA SaveStored ==
    ASSUME Types, Numbered, Stored, Save
    PROVE  /\ Stored'
           /\ \A x : In(queue', x) \/ In(rows', x) \/ x \in saved' => x \in Existing
<1> DEFINE e == Head(queue)
<1>1. /\ queue \in Seq(Events) /\ queue # <<>> /\ rows \in Seq(Events)
      /\ queue' = Tail(queue)
      /\ \/ rows' = Inserted(e) /\ saved' = saved \cup {e}
         \/ rows' = rows /\ saved' = saved
  BY DEF Save, Types, TypeOK, StoreTyped
<1>2. e \in Existing /\ e \in Events
  BY <1>1, SequenceElements, ExistingTyped DEF Existing
<1>3. \A x : In(queue', x) => x \in Existing
  BY <1>1, SequenceElements DEF In, Existing
<1> HIDE DEF e
<1>4. \A x : In(rows, x) \/ x \in saved => x \in Existing
  BY ExistsWhere
<1>5. CASE rows' = rows /\ saved' = saved
  BY <1>3, <1>4, <1>5 DEF Stored, Kind
<1>6. CASE rows' = rows /\ saved' = saved \cup {e}
             /\ \E i \in DOMAIN rows : Kind(rows[i]) = Kind(e) /\ rows[i].seq = e.seq
  <2>1. e.seq # 0 => In(rows, e)
    <3>1. PICK i \in DOMAIN rows : rows[i].seq = e.seq
      BY <1>6
    <3>2. rows[i] \in Existing
      BY <1>4 DEF In
    <3>3. e.seq # 0 => Akin(rows[i], e)
      BY <3>1 DEF Akin
    <3> QED
      BY <1>2, <3>2, <3>3 DEF Numbered, In
  <2>2. Stored'
    BY <1>6, <2>1 DEF Stored, Kind
  <2> QED
    BY <1>2, <1>3, <1>4, <1>6, <2>2
<1>7. CASE rows' = Append(rows, e) /\ saved' = saved \cup {e}
             /\ ~\E i \in DOMAIN rows : Kind(rows[i]) = Kind(e) /\ rows[i].seq = e.seq
  <2>1. /\ DOMAIN rows' = DOMAIN rows \cup {Len(rows) + 1}
        /\ \A i \in DOMAIN rows : rows'[i] = rows[i]
        /\ rows'[Len(rows) + 1] = e
    BY <1>1, <1>2, <1>7
  <2>2. \A x : In(rows', x) <=> In(rows, x) \/ x = e
    BY <2>1 DEF In
  <2>3. \A i, j \in DOMAIN rows' :
            Kind(rows'[i]) = Kind(rows'[j]) /\ rows'[i].seq = rows'[j].seq => i = j
    BY <1>7, <2>1 DEF Stored
  <2>4. \A x \in saved' : x.seq # 0 => In(rows', x)
    BY <1>7, <2>2 DEF Stored
  <2>5. Stored'
    BY <2>3, <2>4 DEF Stored, Kind
  <2> QED
    BY <1>2, <1>3, <1>4, <1>7, <2>2, <2>5
<1> QED
  BY <1>1, <1>5, <1>6, <1>7 DEF Inserted

LEMMA RowsStep == Types /\ Numbered /\ Stored /\ [Next]_vars => Numbered' /\ Stored'
<1> SUFFICES ASSUME Types, Numbered, Stored, [Next]_vars
             PROVE  Numbered' /\ Stored'
  OBVIOUS
<1>1. Types'
  BY TypesStep
<1>2. rows' = rows /\ saved' = saved => Stored'
  BY DEF Stored, Kind
<1>3. ASSUME NEW p \in Publishers, PublishStep(p) PROVE Numbered' /\ Stored'
  <2>1. rows' = rows /\ saved' = saved
    BY <1>3 DEF PublishStep, Incr, Add, Persist, Enqueue, storeVars
  <2> QED
    BY <1>1, <1>2, <1>3, <2>1, NumberedIncr, NumberedAdd, NumberedPersist DEF PublishStep
<1>4. CASE Save
  <2>1. UNCHANGED <<counter, publisherVars, log>>
    BY <1>4 DEF Save, redisVars
  <2> QED
    BY <1>1, <1>4, <2>1, SaveStored, NumberedQuiet
<1>5. ASSUME NEW c \in Clients, Forward(c) PROVE Numbered' /\ Stored'
  <2>1. UNCHANGED <<counter, publisherVars, log>> /\ Enqueue(log[Head(batch[c])])
    BY <1>5 DEF Forward, redisVars
  <2>2. log[Head(batch[c])] \in Existing
    <3>1. Head(batch[c]) \in DOMAIN log
      BY <1>5, ForwardFacts DEF Types, TypeOK, RedisTyped
    <3> QED
      BY <3>1, ExistsWhere DEF In
  <2>3. (\A x : In(queue', x) => x \in Existing) /\ rows' = rows /\ saved' = saved
    BY <2>1, <2>2, EnqueueExists
  <2>4. \A x : In(queue', x) \/ In(rows', x) \/ x \in saved' => x \in Existing
    BY <2>3, ExistsWhere
  <2> QED
    BY <1>1, <1>2, <2>1, <2>3, <2>4, NumberedQuiet
<1>6. ASSUME UNCHANGED <<redisVars, publisherVars, storeVars>> PROVE Numbered' /\ Stored'
  BY <1>1, <1>2, <1>6, ExistsWhere, NumberedQuiet DEF redisVars, storeVars
<1>7. ASSUME NEW c \in Clients, Connect(c) \/ HandlerStep(c) \/ Disconnect(c) PROVE Numbered' /\ Stored'
  BY <1>6, <1>7 DEF Connect, HandlerStep, Deliver, CloseIdle, Disconnect
<1>8. ASSUME NEW c \in Clients, StartRead(c) \/ ReadSome(c) \/ ReadNothing(c) \/ StopReading(c)
      PROVE  Numbered' /\ Stored'
  BY <1>6, <1>8 DEF StartRead, ReadSome, ReadNothing, StopReading
<1>9. CASE UNCHANGED vars
  BY <1>6, <1>9 DEF vars
<1> QED
  BY <1>3, <1>4, <1>5, <1>7, <1>8, <1>9 DEF Next, ReaderStep

(* Each saved event that got a number has one row, although its publisher   *)
(* and every reader queue it and INCR may fail: a row that ON CONFLICT      *)
(* finds for its number is its own.                                         *)
THEOREM RowsOnce == Spec => []StoredOnce
<1>1. Init => Numbered /\ Stored
  BY DEF Init, Numbered, Stored, Existing, Underway, In
<1>2. Types /\ Numbered /\ Stored => StoredOnce
  <2> SUFFICES ASSUME Types, Numbered, Stored, NEW e \in saved, e.seq # 0
               PROVE  Cardinality({i \in DOMAIN rows : rows[i].by = e.by /\ rows[i].n = e.n}) = 1
    BY DEF StoredOnce
  <2>1. PICK k \in DOMAIN rows : rows[k] = e
    BY DEF Stored, In
  <2>2. ASSUME NEW i \in DOMAIN rows, rows[i].by = e.by, rows[i].n = e.n PROVE i = k
    <3>1. rows[i] \in Existing /\ e \in Existing
      BY DEF Existing
    <3>2. rows[i] = e
      BY <2>2, <3>1 DEF Numbered, Akin
    <3> QED
      BY <2>1, <2>2, <3>2 DEF Stored
  <2>3. {i \in DOMAIN rows : rows[i].by = e.by /\ rows[i].n = e.n} = {k}
    BY <2>1, <2>2
  <2> QED
    BY <2>3, FS_Singleton
<1>3. Spec => []Types
  BY Inductive, PTL DEF Inv
<1>4. Types /\ Numbered /\ Stored /\ [Next]_vars => Numbered' /\ Stored'
  BY RowsStep
<1> QED
  BY <1>1, <1>2, <1>3, <1>4, PTL DEF Spec
=============================================================================
