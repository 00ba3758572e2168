----------------------------- MODULE DaemonHub -----------------------------
(***************************************************************************)
(* The gateway's daemon hub: go/orchestrator/internal/daemon/hub.go,       *)
(* claims.go and conn_handler.go, with the daemon_dispatch bridge that     *)
(* feeds it.                                                               *)
(*                                                                         *)
(* A daemon is a user's own agent process, connected by WebSocket.  The    *)
(* hub sends it messages, daemons race to claim them (SETNX on a Redis key *)
(* with a TTL), the winner sends progress and finally one reply, and the   *)
(* reply is signalled to the workflow that dispatched the message.         *)
(*                                                                         *)
(* Concurrency in the model is the concurrency of the code:                *)
(*   - one goroutine per connection handles that connection's messages one *)
(*     at a time (HandleConnection); pc[c] is where it stands;             *)
(*   - one goroutine (SubscribeDispatches) dispatches, one message at a    *)
(*     time;                                                               *)
(*   - what runs under Hub.mu is one step, every Redis command is one step;*)
(*   - Redis expires a claim whose TTL was not extended.                   *)
(* Message ids are fresh uuids, so a message is dispatched once.  Routing  *)
(* metadata is a function of the message: only whether a party carries it  *)
(* is state.                                                               *)
(***************************************************************************)
EXTENDS Naturals, FiniteSets

CONSTANTS
    Conns,      \* connection ids; an id is never reused (uuid)
    Daemons,    \* daemon processes
    Users,      \* tenant:user keys of Hub.index
    Messages,   \* message ids
    Threads,    \* channel_type:thread_id keys of Hub.sticky
    DaemonOf,   \* the daemon behind a connection
    UserOf,     \* the user a daemon authenticates as
    OwnerOf,    \* the user a message is dispatched to
    ThreadOf,   \* the thread of a message, or None
    System,     \* messages of the system channel: broadcast, never claimed
    Scheduled,  \* messages whose metadata names a Temporal workflow
    Faults,     \* the faults the environment may produce
    None

Workflows == {"none", "task", "stream"}

(* ClaimMetadata.  routed: it carries the channel and thread stored by      *)
(* Dispatch.  workflow: "task" is the WorkflowID of the dispatching         *)
(* workflow, "stream" the id a daemon reported or a daemon:<id> stream.     *)
Claim == [conn : Conns, routed : BOOLEAN, workflow : Workflows]

ASSUME ClaimAssumption == None \notin Claim

ASSUME FaultsAssumption == Faults \subseteq {"expiry", "redis", "crash"}

ASSUME WiringAssumption ==
    /\ DaemonOf \in [Conns -> Daemons]
    /\ UserOf \in [Daemons -> Users]
    /\ OwnerOf \in [Messages -> Users]
    /\ ThreadOf \in [Messages -> Threads \cup {None}]
    /\ System \subseteq Messages
    /\ Scheduled \subseteq Messages
    /\ None \notin Conns \cup Messages \cup Threads

(* A thread belongs to one user: the workflow that owns it runs for one user.*)
ASSUME ThreadAssumption ==
    \A m, n \in Messages :
        ThreadOf[m] = ThreadOf[n] /\ ThreadOf[m] # None => OwnerOf[m] = OwnerOf[n]

VARIABLES
    conns,        \* Hub.conns
    index,        \* Hub.index
    sticky,       \* Hub.sticky
    pendingMeta,  \* Hub.pendingMeta: messages whose metadata waits for a claim
    sending,      \* the message Dispatch is sending outside the lock, or None
    targets,      \* connections it has still to send it to
    dispatched,   \* messages Dispatch was called for
    claim,        \* the Redis claim of each message, or None
    stale,        \* claims whose TTL is running out
    pc,           \* where the goroutine of a connection stands
    cur,          \* the message it is handling
    copy,         \* the claim metadata it has in memory
    todo,         \* keys ReleaseAllForConn has not visited yet
    offered,      \* messages a daemon has received and not yet claimed
    work,         \* messages a daemon was granted and has not yet replied to
    granted,      \* history: connections whose SETNX on a message succeeded
    signals,      \* workflow signals sent for each message (OnReply)
    lapsed        \* history: messages whose claim expired or was released by a
                  \* disconnect at least once

hubVars      == <<conns, index, sticky, pendingMeta>>
dispatchVars == <<sending, targets, dispatched>>
redisVars    == <<claim, stale>>
handlerVars  == <<pc, cur, copy, todo>>
daemonVars   == <<offered, work>>
history      == <<granted, signals, lapsed>>
vars == <<hubVars, dispatchVars, redisVars, handlerVars, daemonVars, history>>

PCs == {"new", "idle", "claim", "sticky", "ack", "get", "ttl", "set", "del",
        "scan", "release", "gone", "lost"}

UserOfConn(c) == UserOf[DaemonOf[c]]
Fault(f)      == f \in Faults

Init ==
    /\ conns = {}
    /\ index = [u \in Users |-> {}]
    /\ sticky = [t \in Threads |-> None]
    /\ pendingMeta = {}
    /\ sending = None
    /\ targets = {}
    /\ dispatched = {}
    /\ claim = [m \in Messages |-> None]
    /\ stale = {}
    /\ pc = [c \in Conns |-> "new"]
    /\ cur = [c \in Conns |-> None]
    /\ copy = [c \in Conns |-> None]
    /\ todo = [c \in Conns |-> {}]
    /\ offered = [d \in Daemons |-> {}]
    /\ work = [d \in Daemons |-> {}]
    /\ granted = [m \in Messages |-> {}]
    /\ signals = [m \in Messages |-> 0]
    /\ lapsed = {}

-----------------------------------------------------------------------------
(* Handler bookkeeping: where the goroutine of c goes next.                 *)

Goto(c, label, m, meta) ==
    /\ pc' = [pc EXCEPT ![c] = label]
    /\ cur' = [cur EXCEPT ![c] = m]
    /\ copy' = [copy EXCEPT ![c] = meta]
    /\ UNCHANGED todo

Done(c) == Goto(c, "idle", None, None)

-----------------------------------------------------------------------------
(* Connections.                                                             *)

(* HandleConnection registers the connection before it reads anything.      *)
Register(c) ==
    /\ pc[c] = "new"
    /\ conns' = conns \cup {c}
    /\ index' = [index EXCEPT ![UserOfConn(c)] = @ \cup {c}]
    /\ Done(c)
    /\ UNCHANGED <<sticky, pendingMeta, dispatchVars, redisVars, daemonVars, history>>

(* clearStickyForConnLocked.                                                *)
ClearSticky_Forgotten(c) == sticky

ClearSticky(c) == [t \in Threads |-> IF sticky[t] = c THEN None ELSE sticky[t]]

(* The read loop ends and the deferred HandleDisconnect starts.             *)
Unregister(c) ==
    /\ pc[c] = "idle"
    /\ conns' = conns \ {c}
    /\ index' = [index EXCEPT ![UserOfConn(c)] = @ \ {c}]
    /\ sticky' = ClearSticky(c)
    /\ pc' = [pc EXCEPT ![c] = "scan"]
    /\ todo' = [todo EXCEPT ![c] = Messages]
    /\ UNCHANGED <<pendingMeta, cur, copy, dispatchVars, redisVars, daemonVars, history>>

(* ReleaseAllForConn visits one key of the SCAN: GET, compare the owner.    *)
ReleaseGet(c, m) ==
    /\ pc[c] = "scan"
    /\ m \in todo[c]
    /\ todo' = [todo EXCEPT ![c] = @ \ {m}]
    /\ IF claim[m] # None /\ claim[m].conn = c
         THEN /\ pc' = [pc EXCEPT ![c] = "release"]
              /\ cur' = [cur EXCEPT ![c] = m]
         ELSE UNCHANGED <<pc, cur>>
    /\ UNCHANGED <<copy, hubVars, dispatchVars, redisVars, daemonVars, history>>

(* ... then DEL, whose error is ignored.                                    *)
ReleaseDel(c) ==
    /\ pc[c] = "release"
    /\ \/ /\ claim' = [claim EXCEPT ![cur[c]] = None]
          /\ stale' = stale \ {cur[c]}
          /\ lapsed' = lapsed \cup {cur[c]}
       \/ /\ Fault("redis")
          /\ UNCHANGED <<redisVars, lapsed>>
    /\ Goto(c, "scan", None, None)
    /\ UNCHANGED <<granted, signals, hubVars, dispatchVars, daemonVars>>

ReleaseEnd_FirstKey(c) ==
    /\ pc[c] = "scan"
    /\ Goto(c, "gone", None, None)
    /\ UNCHANGED <<hubVars, dispatchVars, redisVars, daemonVars, history>>

ReleaseEnd(c) ==
    /\ pc[c] = "scan"
    /\ todo[c] = {}
    /\ Goto(c, "gone", None, None)
    /\ UNCHANGED <<hubVars, dispatchVars, redisVars, daemonVars, history>>

-----------------------------------------------------------------------------
(* Dispatch: the part under Hub.mu chooses the targets.                     *)

StickyConn(m) ==
    IF m \in System \/ ThreadOf[m] = None THEN None ELSE sticky[ThreadOf[m]]

StickyHit(m) == StickyConn(m) # None /\ StickyConn(m) \in conns

DispatchStart(m) ==
    /\ m \notin dispatched
    /\ sending = None
    /\ dispatched' = dispatched \cup {m}

DispatchSticky(m) ==
    /\ DispatchStart(m)
    /\ StickyHit(m)
    /\ pendingMeta' = pendingMeta \cup {m}
    /\ sending' = m
    /\ targets' = {StickyConn(m)}
    /\ UNCHANGED <<conns, index, sticky, redisVars, handlerVars, daemonVars, history>>

(* A sticky entry whose connection is gone is dropped on the way.           *)
DropStaleSticky(m) ==
    sticky' = IF StickyConn(m) # None
                THEN [sticky EXCEPT ![ThreadOf[m]] = None]
                ELSE sticky

BroadcastTargets_Everyone(m) == conns

BroadcastTargets(m) == index[OwnerOf[m]] \cap conns

DispatchBroadcast(m) ==
    /\ DispatchStart(m)
    /\ ~StickyHit(m)
    /\ DropStaleSticky(m)
    /\ index[OwnerOf[m]] # {}
    /\ pendingMeta' = IF m \in System THEN pendingMeta ELSE pendingMeta \cup {m}
    /\ targets' = BroadcastTargets(m)
    /\ sending' = IF targets' = {} THEN None ELSE m
    /\ UNCHANGED <<conns, index, redisVars, handlerVars, daemonVars, history>>

(* ErrNoDaemonConnected: the stream entry is acknowledged all the same.     *)
DispatchNobody(m) ==
    /\ DispatchStart(m)
    /\ ~StickyHit(m)
    /\ DropStaleSticky(m)
    /\ index[OwnerOf[m]] = {}
    /\ UNCHANGED <<conns, index, pendingMeta, sending, targets,
                   redisVars, handlerVars, daemonVars, history>>

(* One conn.Send, outside the lock.  The write may fail or be lost; on a    *)
(* closed socket it always fails.                                           *)
DispatchSend(c) ==
    /\ c \in targets
    /\ targets' = targets \ {c}
    /\ sending' = IF targets' = {} THEN None ELSE sending
    /\ \/ UNCHANGED offered
       \/ /\ pc[c] \notin {"gone", "lost"}
          /\ offered' = [offered EXCEPT ![DaemonOf[c]] = @ \cup {sending}]
    /\ UNCHANGED <<dispatched, work, hubVars, redisVars, handlerVars, history>>

(* The 90 s timer of storePendingMeta.                                      *)
PendingMetaExpires(m) ==
    /\ Fault("expiry")
    /\ m \in pendingMeta
    /\ pendingMeta' = pendingMeta \ {m}
    /\ UNCHANGED <<conns, index, sticky, dispatchVars, redisVars, handlerVars,
                   daemonVars, history>>

-----------------------------------------------------------------------------
(* HandleClaim.                                                             *)

(* consumePendingMeta.                                                      *)
ConsumePending_Kept(m) == pendingMeta

ConsumePending(m) == pendingMeta \ {m}

(* Under Hub.mu: the pending metadata is consumed before the claim is tried.*)
ClaimMerge(c, m) ==
    /\ pc[c] = "idle"
    /\ m \in offered[DaemonOf[c]] \ System
    /\ offered' = [offered EXCEPT ![DaemonOf[c]] = @ \ {m}]
    /\ pendingMeta' = ConsumePending(m)
    /\ Goto(c, "claim", m,
            [conn |-> c,
             routed |-> m \in pendingMeta,
             workflow |-> IF m \in pendingMeta \cap Scheduled THEN "task" ELSE "none"])
    /\ UNCHANGED <<conns, index, sticky, work, dispatchVars, redisVars, history>>

(* TryClaim: SETNX.                                                         *)
KeyFree_Overwrite(m) == TRUE

KeyFree(m) == claim[m] = None

ClaimGranted(c) ==
    /\ pc[c] = "claim"
    /\ KeyFree(cur[c])
    /\ claim' = [claim EXCEPT ![cur[c]] = copy[c]]
    /\ UNCHANGED stale
    /\ IF copy[c].routed /\ ThreadOf[cur[c]] # None
         THEN Goto(c, "sticky", cur[c], None)
         ELSE Goto(c, "ack", cur[c], None)
    /\ granted' = [granted EXCEPT ![cur[c]] = @ \cup {c}]
    /\ UNCHANGED <<signals, lapsed, hubVars, dispatchVars, daemonVars>>

ClaimDenied_AckedGranted(c) ==
    /\ pc[c] = "claim"
    /\ claim[cur[c]] # None
    /\ Goto(c, "ack", cur[c], None)
    /\ UNCHANGED <<hubVars, dispatchVars, redisVars, daemonVars, history>>

ClaimDenied(c) ==
    /\ pc[c] = "claim"
    /\ claim[cur[c]] # None
    /\ Done(c)
    /\ UNCHANGED <<hubVars, dispatchVars, redisVars, daemonVars, history>>

(* Redis answers with an error, having executed the SETNX or not: no ack.   *)
ClaimFails(c) ==
    /\ Fault("redis")
    /\ pc[c] = "claim"
    /\ \/ UNCHANGED <<claim, granted>>
       \/ /\ claim[cur[c]] = None
          /\ claim' = [claim EXCEPT ![cur[c]] = copy[c]]
          /\ granted' = [granted EXCEPT ![cur[c]] = @ \cup {c}]
    /\ Done(c)
    /\ UNCHANGED <<stale, signals, lapsed, hubVars, dispatchVars, daemonVars>>

SetSticky(c) ==
    /\ pc[c] = "sticky"
    /\ sticky' = [sticky EXCEPT ![ThreadOf[cur[c]]] = c]
    /\ Goto(c, "ack", cur[c], None)
    /\ UNCHANGED <<conns, index, pendingMeta, dispatchVars, redisVars, daemonVars, history>>

(* The claim_ack reaches the daemon, which starts working, or is lost.      *)
ClaimAck(c) ==
    /\ pc[c] = "ack"
    /\ \/ work' = [work EXCEPT ![DaemonOf[c]] = @ \cup {cur[c]}]
       \/ UNCHANGED work
    /\ Done(c)
    /\ UNCHANGED <<offered, hubVars, dispatchVars, redisVars, history>>

-----------------------------------------------------------------------------
(* HandleProgress.                                                          *)

Extend(m) == stale' = stale \ {m}

(* A heartbeat without workflow id: EXPIRE only.                            *)
Heartbeat(c, m) ==
    /\ pc[c] = "idle"
    /\ m \in work[DaemonOf[c]]
    /\ m \in stale
    /\ Extend(m)
    /\ UNCHANGED <<claim, hubVars, dispatchVars, handlerVars, daemonVars, history>>

(* A progress with a workflow id, or the first event of a stream.           *)
ProgressExtend(c, m) ==
    /\ pc[c] = "idle"
    /\ m \in work[DaemonOf[c]]
    /\ Extend(m)
    /\ Goto(c, "get", m, None)
    /\ UNCHANGED <<claim, hubVars, dispatchVars, daemonVars, history>>

(* GetClaim; the workflow id is only set once.                              *)
ProgressGet(c) ==
    /\ pc[c] = "get"
    /\ IF claim[cur[c]] # None /\ claim[cur[c]].workflow = "none"
         THEN Goto(c, "ttl", cur[c], [claim[cur[c]] EXCEPT !.workflow = "stream"])
         ELSE Done(c)
    /\ UNCHANGED <<hubVars, dispatchVars, redisVars, daemonVars, history>>

(* UpdateClaim reads the TTL ...                                            *)
UpdateTTL(c) ==
    /\ pc[c] = "ttl"
    /\ IF claim[cur[c]] # None
         THEN Goto(c, "set", cur[c], copy[c])
         ELSE Done(c)
    /\ UNCHANGED <<hubVars, dispatchVars, redisVars, daemonVars, history>>

(* ... and writes with a plain SET, whatever the key holds by now.          *)
UpdateSet(c) ==
    /\ pc[c] = "set"
    /\ claim' = [claim EXCEPT ![cur[c]] = copy[c]]
    /\ UNCHANGED stale
    /\ Done(c)
    /\ UNCHANGED <<hubVars, dispatchVars, daemonVars, history>>

(* Any of the commands fails: the handler logs and returns.                 *)
ProgressFails(c) ==
    /\ Fault("redis")
    /\ pc[c] \in {"get", "ttl", "set"}
    /\ Done(c)
    /\ UNCHANGED <<hubVars, dispatchVars, redisVars, daemonVars, history>>

-----------------------------------------------------------------------------
(* HandleReply: GET, DEL, then OnReply.                                     *)

ReplyGet(c, m) ==
    /\ pc[c] = "idle"
    /\ m \in work[DaemonOf[c]]
    /\ work' = [work EXCEPT ![DaemonOf[c]] = @ \ {m}]
    /\ \/ /\ claim[m] # None
          /\ Goto(c, "del", m, claim[m])
       \/ /\ claim[m] = None \/ Fault("redis")
          /\ UNCHANGED handlerVars
    /\ UNCHANGED <<offered, hubVars, dispatchVars, redisVars, history>>

(* OnReply signals the workflow named by the claim; a daemon stream has none.*)
ReplyDel(c) ==
    /\ pc[c] = "del"
    /\ claim' = [claim EXCEPT ![cur[c]] = None]
    /\ stale' = stale \ {cur[c]}
    /\ signals' = IF copy[c].workflow = "task"
                    THEN [signals EXCEPT ![cur[c]] = @ + 1]
                    ELSE signals
    /\ Done(c)
    /\ UNCHANGED <<granted, lapsed, hubVars, dispatchVars, daemonVars>>

(* DEL fails: HandleReply returns the error and OnReply is not called.      *)
ReplyFails(c) ==
    /\ Fault("redis")
    /\ pc[c] = "del"
    /\ Done(c)
    /\ UNCHANGED <<hubVars, dispatchVars, redisVars, daemonVars, history>>

-----------------------------------------------------------------------------
(* Redis and the process.                                                   *)

ClaimAges_NoTTL(m) == FALSE /\ UNCHANGED vars

ClaimAges(m) ==
    /\ Fault("expiry")
    /\ claim[m] # None
    /\ m \notin stale
    /\ stale' = stale \cup {m}
    /\ UNCHANGED <<claim, hubVars, dispatchVars, handlerVars, daemonVars, history>>

ClaimExpires(m) ==
    /\ claim[m] # None
    /\ m \in stale
    /\ claim' = [claim EXCEPT ![m] = None]
    /\ stale' = stale \ {m}
    /\ lapsed' = lapsed \cup {m}
    /\ UNCHANGED <<granted, signals, hubVars, dispatchVars, handlerVars, daemonVars>>

(* The gateway dies: the hub's memory and every handler are lost, Redis and *)
(* the daemons keep what they have.                                         *)
Crash ==
    /\ Fault("crash")
    /\ conns' = {}
    /\ index' = [u \in Users |-> {}]
    /\ sticky' = [t \in Threads |-> None]
    /\ pendingMeta' = {}
    /\ sending' = None
    /\ targets' = {}
    /\ pc' = [c \in Conns |-> IF pc[c] \in {"new", "gone"} THEN pc[c] ELSE "lost"]
    /\ cur' = [c \in Conns |-> None]
    /\ copy' = [c \in Conns |-> None]
    /\ todo' = [c \in Conns |-> {}]
    /\ UNCHANGED <<dispatched, redisVars, daemonVars, history>>

-----------------------------------------------------------------------------

ConnStep(c) ==
    \/ Register(c) \/ Unregister(c)
    \/ \E m \in Messages : ReleaseGet(c, m)
    \/ ReleaseDel(c) \/ ReleaseEnd(c)
    \/ \E m \in Messages : ClaimMerge(c, m)
    \/ ClaimGranted(c) \/ ClaimDenied(c) \/ ClaimFails(c)
    \/ SetSticky(c) \/ ClaimAck(c)
    \/ \E m \in Messages : Heartbeat(c, m) \/ ProgressExtend(c, m)
    \/ ProgressGet(c) \/ UpdateTTL(c) \/ UpdateSet(c) \/ ProgressFails(c)
    \/ \E m \in Messages : ReplyGet(c, m)
    \/ ReplyDel(c) \/ ReplyFails(c)

DispatchStep ==
    \/ \E m \in Messages :
          DispatchSticky(m) \/ DispatchBroadcast(m) \/ DispatchNobody(m)
    \/ \E c \in Conns : DispatchSend(c)

RedisStep ==
    \E m \in Messages : PendingMetaExpires(m) \/ ClaimAges(m) \/ ClaimExpires(m)

Next ==
    \/ \E c \in Conns : ConnStep(c)
    \/ DispatchStep
    \/ RedisStep
    \/ Crash

Spec == Init /\ [][Next]_vars
-----------------------------------------------------------------------------
(* Properties.                                                              *)

(* Every variable has its type.                                             *)
TypeOK ==
    /\ conns \subseteq Conns
    /\ index \in [Users -> SUBSET Conns]
    /\ sticky \in [Threads -> Conns \cup {None}]
    /\ pendingMeta \subseteq Messages
    /\ sending \in Messages \cup {None}
    /\ targets \subseteq Conns
    /\ dispatched \subseteq Messages
    /\ claim \in [Messages -> Claim \cup {None}]
    /\ stale \subseteq Messages
    /\ pc \in [Conns -> PCs]
    /\ cur \in [Conns -> Messages \cup {None}]
    /\ copy \in [Conns -> Claim \cup {None}]
    /\ todo \in [Conns -> SUBSET Messages]
    /\ offered \in [Daemons -> SUBSET Messages]
    /\ work \in [Daemons -> SUBSET Messages]
    /\ granted \in [Messages -> SUBSET Conns]
    /\ signals \in [Messages -> Nat]
    /\ lapsed \subseteq Messages

Closed(c) == pc[c] \in {"new", "scan", "release", "gone", "lost"}

(* The three routing tables agree: the hub knows exactly the connections    *)
(* whose goroutine serves them, the index files each under its user, and    *)
(* a sticky route never outlives its connection, although SetSticky runs    *)
(* after the lock of HandleClaim was given up.                              *)
RoutingConsistent ==
    /\ conns = {c \in Conns : ~Closed(c)}
    /\ \A u \in Users : index[u] = {c \in conns : UserOfConn(c) = u}
    /\ \A t \in Threads : sticky[t] # None => sticky[t] \in conns

(* A message is only ever sent to, held by or worked on by daemons of the   *)
(* user it was dispatched to; sticky routing does not look at the user.     *)
DeliveredToOwner ==
    /\ \A c \in targets : UserOfConn(c) = OwnerOf[sending]
    /\ \A d \in Daemons : \A m \in offered[d] \cup work[d] : OwnerOf[m] = UserOf[d]

(* Parties that carry the routing metadata Dispatch stored for m: the       *)
(* pending entry, a handler between merging and SETNX, the claim.           *)
ClaimCarries(m) == claim[m] # None /\ claim[m].routed
HandlersWith(m) == {c \in Conns : pc[c] = "claim" /\ cur[c] = m /\ copy[c].routed}

HeldOnce(m) ==
    /\ m \in pendingMeta => HandlersWith(m) = {} /\ ~ClaimCarries(m)
    /\ ClaimCarries(m) => HandlersWith(m) = {}
    /\ \A c, e \in HandlersWith(m) : c = e

(* The routing metadata of a scheduled task has one holder at a time, under *)
(* every fault: it is moved from hand to hand, never copied, so that at     *)
(* most one claim can ever lead a reply back to the workflow.               *)
MetadataHeldOnce == \A m \in Scheduled : HeldOnce(m)

(* Two daemons work on one message at the same time only if the claim of    *)
(* the first expired or was released by a disconnect.                       *)
ExclusiveWork ==
    \A d, e \in Daemons : \A m \in work[d] \cap work[e] : d # e => m \in lapsed

(* A workflow is signalled twice for one dispatch only in the same case:    *)
(* HandleReply reads and deletes the claim in two commands.                 *)
SignalOnce == \A m \in Messages : signals[m] > 1 => m \in lapsed

(* When HandleDisconnect has finished, no claim names the connection; or it *)
(* is one that an UpdateSet of another connection of the user brought back, *)
(* which no longer leads to a workflow.                                     *)
Sole(c) == \A e \in Conns : UserOfConn(e) = UserOfConn(c) => e = c

NoClaimOfGone ==
    \A c \in Conns, m \in Messages :
        pc[c] = "gone" /\ claim[m] # None /\ claim[m].conn = c =>
            ~Sole(c) /\ claim[m].workflow = "stream"

(* A claim whose connection is gone or lost, and that nobody works on, is   *)
(* given up in the end, though the gateway died or its DEL failed.          *)
Orphan(c, m) == pc[c] \in {"gone", "lost"} /\ claim[m] # None /\ claim[m].conn = c

OrphanFreed ==
    \A c \in Conns, m \in Messages :
        Orphan(c, m) ~> (~Orphan(c, m) \/ \E d \in Daemons : m \in work[d])

(* Redis keeps its clock running: this is all the fairness assumed.         *)
FairSpec ==
    /\ Spec
    /\ \A m \in Messages : WF_vars(ClaimAges(m)) /\ WF_vars(ClaimExpires(m))

-----------------------------------------------------------------------------
(* What the comments say and the code does not do.                          *)

(* claims.go:6, claims ensure a unique processor of a message: also when no *)
(* claim expired or was released, at most one connection is granted it.     *)
UniqueProcessor == \A m \in Messages \ lapsed : Cardinality(granted[m]) <= 1
=============================================================================
