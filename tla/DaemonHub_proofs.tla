--------------------------- MODULE DaemonHub_proofs ---------------------------
(* Theorems about DaemonHub, for any number of connections, daemons, users  *)
(* and messages and under every fault.                                      *)
EXTENDS DaemonHub, TLAPS

(* Labels at which a goroutine is handling a message, and at which it has a *)
(* copy of a claim in memory.                                               *)
Handling == {"claim", "sticky", "ack", "get", "ttl", "set", "del", "release"}
Carrying == {"claim", "ttl", "set", "del"}

HandlerTypeOK ==
    /\ pc \in [Conns -> PCs]
    /\ cur \in [Conns -> Messages \cup {None}]
    /\ copy \in [Conns -> Claim \cup {None}]
    /\ todo \in [Conns -> SUBSET Messages]
    /\ \A c \in Conns : pc[c] \in Handling => cur[c] \in Messages
    /\ \A c \in Conns : pc[c] \in Carrying => copy[c] \in Claim

(* TypeOK is not inductive: a handler must also have a message in hand when *)
(* it uses one, and Dispatch when it sends one.                             *)
IndType ==
    /\ TypeOK
    /\ HandlerTypeOK
    /\ targets # {} => sending \in Messages

(* Moving a goroutine to a label keeps its local state typed.               *)
LEMMA GotoType ==
    ASSUME HandlerTypeOK, NEW c \in Conns, NEW label \in PCs,
           NEW m \in Messages \cup {None}, NEW meta \in Claim \cup {None},
           label \in Handling => m \in Messages,
           label \in Carrying => meta \in Claim,
           Goto(c, label, m, meta)
    PROVE  HandlerTypeOK'
  BY DEF HandlerTypeOK, Goto

(* So does the end of a handler.                                            *)
LEMMA DoneType ==
    ASSUME HandlerTypeOK, NEW c \in Conns, Done(c)
    PROVE  HandlerTypeOK'
  BY GotoType DEF Done, PCs, Handling, Carrying

(* A field update of a claim is a claim.                                    *)
LEMMA ClaimWithWorkflow ==
    ASSUME NEW k \in Claim
    PROVE  [k EXCEPT !.workflow = "stream"] \in Claim
  BY DEF Claim, Workflows

(* The strengthened type invariant is inductive.                            *)
LEMMA IndTypeInit == Init => IndType
  BY WiringAssumption DEF Init, IndType, HandlerTypeOK, TypeOK, PCs, Handling, Carrying

LEMMA IndTypeStep == IndType /\ [Next]_vars => IndType'
  <1> SUFFICES ASSUME IndType, [Next]_vars
               PROVE  IndType'
    OBVIOUS
  <1>h. HandlerTypeOK
    BY DEF IndType
  <1> USE WiringAssumption DEF IndType, TypeOK, PCs, hubVars, dispatchVars, redisVars, handlerVars, daemonVars, history
  <1>1. ASSUME NEW c \in Conns, Register(c) PROVE IndType'
    <2>1. HandlerTypeOK'
      BY <1>1, <1>h, DoneType DEF Register, Handling, Carrying
    <2> QED
      BY <1>1, <2>1 DEF Register, UserOfConn, HandlerTypeOK
  <1>2. ASSUME NEW c \in Conns, Unregister(c) PROVE IndType'
    <2>1. HandlerTypeOK'
      BY <1>2, <1>h DEF Unregister, HandlerTypeOK, Handling, Carrying
    <2>2. sticky' \in [Threads -> Conns \cup {None}]
      BY <1>2 DEF Unregister, ClearSticky
    <2>3. index' \in [Users -> SUBSET Conns]
      BY <1>2 DEF Unregister, UserOfConn
    <2> QED
      BY <1>2, <2>1, <2>2, <2>3 DEF Unregister, HandlerTypeOK
  <1>3. ASSUME NEW c \in Conns, NEW m \in Messages, ReleaseGet(c, m) PROVE IndType'
    <2>1. HandlerTypeOK'
      <3>1. CASE claim[m] # None /\ claim[m].conn = c
        BY <1>3, <1>h, <3>1 DEF ReleaseGet, HandlerTypeOK, Handling, Carrying
      <3>2. CASE ~(claim[m] # None /\ claim[m].conn = c)
        BY <1>3, <1>h, <3>2 DEF ReleaseGet, HandlerTypeOK, Handling, Carrying
      <3> QED
        BY <3>1, <3>2
    <2> QED
      BY <1>3, <2>1 DEF ReleaseGet, HandlerTypeOK
  <1>4. ASSUME NEW c \in Conns, ReleaseDel(c) PROVE IndType'
    <2>1. HandlerTypeOK'
      BY <1>4, <1>h, GotoType DEF ReleaseDel, Handling, Carrying
    <2>2. claim' \in [Messages -> Claim \cup {None}]
      BY <1>4, <1>h DEF ReleaseDel, HandlerTypeOK, Handling, Carrying
    <2>3. stale' \subseteq Messages /\ lapsed' \subseteq Messages
      BY <1>4, <1>h DEF ReleaseDel, HandlerTypeOK, Handling, Carrying
    <2> QED
      BY <1>4, <2>1, <2>2, <2>3 DEF ReleaseDel, HandlerTypeOK
  <1>5. ASSUME NEW c \in Conns, ReleaseEnd(c) PROVE IndType'
    <2>1. HandlerTypeOK'
      BY <1>5, <1>h, GotoType DEF ReleaseEnd, Handling, Carrying
    <2> QED
      BY <1>5, <2>1 DEF ReleaseEnd, HandlerTypeOK
  <1>6. ASSUME NEW m \in Messages, DispatchSticky(m) PROVE IndType'
    BY <1>6 DEF DispatchSticky, DispatchStart, StickyHit, HandlerTypeOK, Handling, Carrying
  <1>7. ASSUME NEW m \in Messages, DispatchBroadcast(m) PROVE IndType'
    BY <1>7 DEF DispatchBroadcast, DispatchStart, DropStaleSticky, BroadcastTargets, HandlerTypeOK, Handling, Carrying
  <1>8. ASSUME NEW m \in Messages, DispatchNobody(m) PROVE IndType'
    BY <1>8 DEF DispatchNobody, DispatchStart, DropStaleSticky, HandlerTypeOK, Handling, Carrying
  <1>9. ASSUME NEW c \in Conns, DispatchSend(c) PROVE IndType'
    <2>1. sending \in Messages /\ sending' \in Messages \cup {None}
      BY <1>9 DEF DispatchSend
    <2>2. targets' # {} => sending' \in Messages
      BY <1>9, <2>1 DEF DispatchSend
    <2>3. offered' \in [Daemons -> SUBSET Messages]
      BY <1>9, <2>1 DEF DispatchSend
    <2>4. HandlerTypeOK'
      BY <1>9, <1>h DEF DispatchSend, HandlerTypeOK
    <2> QED
      BY <1>9, <2>1, <2>2, <2>3, <2>4 DEF DispatchSend
  <1>10. ASSUME NEW m \in Messages, PendingMetaExpires(m) PROVE IndType'
    BY <1>10 DEF PendingMetaExpires, HandlerTypeOK, Handling, Carrying
  <1>11. ASSUME NEW c \in Conns, NEW m \in Messages, ClaimMerge(c, m) PROVE IndType'
    <2> DEFINE meta == [conn |-> c, routed |-> m \in pendingMeta,
                        workflow |-> IF m \in pendingMeta \cap Scheduled THEN "task" ELSE "none"]
    <2>1. meta \in Claim
      BY DEF Claim, Workflows
    <2>2. Goto(c, "claim", m, meta)
      BY <1>11 DEF ClaimMerge
    <2>3. HandlerTypeOK'
      <3> HIDE DEF meta
      <3> QED
        BY <2>1, <2>2, <1>h, GotoType DEF Handling, Carrying
    <2> QED
      BY <1>11, <2>3 DEF ClaimMerge, ConsumePending, HandlerTypeOK
  <1>12. ASSUME NEW c \in Conns, ClaimGranted(c) PROVE IndType'
    <2>1. HandlerTypeOK'
      BY <1>12, <1>h, GotoType DEF ClaimGranted, HandlerTypeOK, Handling, Carrying
    <2>2. claim' \in [Messages -> Claim \cup {None}]
      BY <1>12, <1>h DEF ClaimGranted, HandlerTypeOK, Handling, Carrying
    <2>3. granted' \in [Messages -> SUBSET Conns]
      BY <1>12, <1>h DEF ClaimGranted, HandlerTypeOK, Handling, Carrying
    <2> QED
      BY <1>12, <2>1, <2>2, <2>3 DEF ClaimGranted, HandlerTypeOK
  <1>13. ASSUME NEW c \in Conns, ClaimDenied(c) PROVE IndType'
    <2>1. HandlerTypeOK'
      BY <1>13, <1>h, DoneType DEF ClaimDenied, Handling, Carrying
    <2> QED
      BY <1>13, <2>1 DEF ClaimDenied, HandlerTypeOK
  <1>14. ASSUME NEW c \in Conns, ClaimFails(c) PROVE IndType'
    <2>1. HandlerTypeOK'
      BY <1>14, <1>h, DoneType DEF ClaimFails, Handling, Carrying
    <2>2. claim' \in [Messages -> Claim \cup {None}]
      BY <1>14, <1>h DEF ClaimFails, HandlerTypeOK, Handling, Carrying
    <2>3. granted' \in [Messages -> SUBSET Conns]
      BY <1>14, <1>h DEF ClaimFails, HandlerTypeOK, Handling, Carrying
    <2> QED
      BY <1>14, <2>1, <2>2, <2>3 DEF ClaimFails, HandlerTypeOK
  <1>15. ASSUME NEW c \in Conns, SetSticky(c) PROVE IndType'
    <2>1. HandlerTypeOK'
      BY <1>15, <1>h, GotoType DEF SetSticky, HandlerTypeOK, Handling, Carrying
    <2> QED
      BY <1>15, <2>1 DEF SetSticky, HandlerTypeOK
  <1>16. ASSUME NEW c \in Conns, ClaimAck(c) PROVE IndType'
    <2>1. HandlerTypeOK'
      BY <1>16, <1>h, DoneType DEF ClaimAck, Handling, Carrying
    <2>2. work' \in [Daemons -> SUBSET Messages]
      BY <1>16, <1>h DEF ClaimAck, HandlerTypeOK, Handling, Carrying
    <2> QED
      BY <1>16, <2>1, <2>2 DEF ClaimAck, HandlerTypeOK
  <1>17. ASSUME NEW c \in Conns, NEW m \in Messages, Heartbeat(c, m) PROVE IndType'
    BY <1>17 DEF Heartbeat, Extend, HandlerTypeOK, Handling, Carrying
  <1>18. ASSUME NEW c \in Conns, NEW m \in Messages, ProgressExtend(c, m) PROVE IndType'
    <2>1. HandlerTypeOK'
      BY <1>18, <1>h, GotoType DEF ProgressExtend, Handling, Carrying
    <2> QED
      BY <1>18, <2>1 DEF ProgressExtend, Extend, HandlerTypeOK
  <1>19. ASSUME NEW c \in Conns, ProgressGet(c) PROVE IndType'
    <2>1. HandlerTypeOK'
      BY <1>19, <1>h, GotoType, DoneType, ClaimWithWorkflow DEF ProgressGet, HandlerTypeOK, Handling, Carrying
    <2> QED
      BY <1>19, <2>1 DEF ProgressGet, HandlerTypeOK
  <1>20. ASSUME NEW c \in Conns, UpdateTTL(c) PROVE IndType'
    <2>1. HandlerTypeOK'
      BY <1>20, <1>h, GotoType, DoneType DEF UpdateTTL, HandlerTypeOK, Handling, Carrying
    <2> QED
      BY <1>20, <2>1 DEF UpdateTTL, HandlerTypeOK
  <1>21. ASSUME NEW c \in Conns, UpdateSet(c) PROVE IndType'
    <2>1. HandlerTypeOK'
      BY <1>21, <1>h, DoneType DEF UpdateSet, Handling, Carrying
    <2> QED
      BY <1>21, <2>1 DEF UpdateSet, HandlerTypeOK
  <1>22. ASSUME NEW c \in Conns, ProgressFails(c) PROVE IndType'
    <2>1. HandlerTypeOK'
      BY <1>22, <1>h, DoneType DEF ProgressFails, Handling, Carrying
    <2> QED
      BY <1>22, <2>1 DEF ProgressFails, HandlerTypeOK
  <1>23. ASSUME NEW c \in Conns, NEW m \in Messages, ReplyGet(c, m) PROVE IndType'
    <2>1. work' \in [Daemons -> SUBSET Messages]
      BY <1>23 DEF ReplyGet
    <2>2. CASE claim[m] # None /\ Goto(c, "del", m, claim[m])
      <3>1. HandlerTypeOK'
        BY <1>23, <1>h, <2>2, GotoType DEF ReplyGet, Handling, Carrying
      <3> QED
        BY <1>23, <2>1, <3>1 DEF ReplyGet, HandlerTypeOK
    <2>3. CASE UNCHANGED handlerVars
      BY <1>23, <2>1, <2>3, <1>h DEF ReplyGet, HandlerTypeOK
    <2> QED
      BY <1>23, <2>2, <2>3 DEF ReplyGet
  <1>24. ASSUME NEW c \in Conns, ReplyDel(c) PROVE IndType'
    <2>1. HandlerTypeOK'
      BY <1>24, <1>h, DoneType DEF ReplyDel, Handling, Carrying
    <2>2. signals' \in [Messages -> Nat]
      BY <1>24, <1>h DEF ReplyDel, HandlerTypeOK, Handling, Carrying
    <2>3. claim' \in [Messages -> Claim \cup {None}]
      BY <1>24, <1>h DEF ReplyDel, HandlerTypeOK, Handling, Carrying
    <2> QED
      BY <1>24, <2>1, <2>2, <2>3 DEF ReplyDel, HandlerTypeOK
  <1>25. ASSUME NEW c \in Conns, ReplyFails(c) PROVE IndType'
    <2>1. HandlerTypeOK'
      BY <1>25, <1>h, DoneType DEF ReplyFails, Handling, Carrying
    <2> QED
      BY <1>25, <2>1 DEF ReplyFails, HandlerTypeOK
  <1>26. ASSUME NEW m \in Messages, ClaimAges(m) PROVE IndType'
    BY <1>26 DEF ClaimAges, HandlerTypeOK, Handling, Carrying
  <1>27. ASSUME NEW m \in Messages, ClaimExpires(m) PROVE IndType'
    BY <1>27 DEF ClaimExpires, HandlerTypeOK, Handling, Carrying
  <1>28. ASSUME Crash PROVE IndType'
    BY <1>28 DEF Crash, HandlerTypeOK, Handling, Carrying
  <1>29. CASE UNCHANGED vars
    BY <1>29 DEF vars, HandlerTypeOK, Handling, Carrying
  <1> QED
    BY <1>1, <1>2, <1>3, <1>4, <1>5, <1>6, <1>7, <1>8, <1>9, <1>10, <1>11, <1>12, <1>13, <1>14, <1>15, <1>16, <1>17, <1>18, <1>19, <1>20, <1>21, <1>22, <1>23, <1>24, <1>25, <1>26, <1>27, <1>28, <1>29 DEF Next, ConnStep, DispatchStep, RedisStep

LEMMA TypeInductive == Spec => []IndType
  BY IndTypeInit, IndTypeStep, PTL DEF Spec

(* Every variable keeps its type.                                           *)
THEOREM TypeCorrect == Spec => []TypeOK
<1>1. IndType => TypeOK
  BY DEF IndType
<1> QED
  BY <1>1, TypeInductive, PTL

-----------------------------------------------------------------------------
(* Routing.                                                                 *)

(* A step that leaves the tables alone and opens or closes no connection    *)
(* keeps them consistent.                                                   *)
LEMMA RoutingFrame ==
    ASSUME RoutingConsistent, UNCHANGED <<conns, index, sticky>>,
           \A c \in Conns : Closed(c)' <=> Closed(c)
    PROVE  RoutingConsistent'
  BY DEF RoutingConsistent

(* Every step keeps the tables consistent.                                  *)
LEMMA RoutingStep == IndType /\ RoutingConsistent /\ [Next]_vars => RoutingConsistent'
  <1> SUFFICES ASSUME IndType, RoutingConsistent, [Next]_vars
               PROVE  RoutingConsistent'
    OBVIOUS
  <1> USE WiringAssumption DEF hubVars, dispatchVars, redisVars, handlerVars, daemonVars, history
  <1>1. ASSUME NEW c \in Conns, Register(c) PROVE RoutingConsistent'
    <2>1. \A e \in Conns : Closed(e)' <=> Closed(e) /\ e # c
      BY <1>1 DEF Register, Goto, Done, Closed, IndType, TypeOK
    <2>2. conns' = {e \in Conns : ~Closed(e)'}
      BY <1>1, <2>1 DEF Register, RoutingConsistent
    <2>3. UserOfConn(c) \in Users
      BY DEF UserOfConn
    <2>4. \A u \in Users : index'[u] = {e \in conns' : UserOfConn(e) = u}
      BY <1>1, <2>3 DEF Register, RoutingConsistent, IndType, TypeOK
    <2> QED
      BY <1>1, <2>2, <2>4 DEF Register, RoutingConsistent, UserOfConn
  <1>2. ASSUME NEW c \in Conns, Unregister(c) PROVE RoutingConsistent'
    <2>1. \A e \in Conns : Closed(e)' <=> Closed(e) \/ e = c
      BY <1>2 DEF Unregister, Closed, IndType, TypeOK
    <2>2. conns' = {e \in Conns : ~Closed(e)'}
      BY <1>2, <2>1 DEF Unregister, RoutingConsistent
    <2>3. UserOfConn(c) \in Users
      BY DEF UserOfConn
    <2>4. \A u \in Users : index'[u] = {e \in conns' : UserOfConn(e) = u}
      BY <1>2, <2>3 DEF Unregister, RoutingConsistent, IndType, TypeOK
    <2>5. \A t \in Threads : sticky'[t] # None => sticky'[t] \in conns'
      BY <1>2 DEF Unregister, ClearSticky, RoutingConsistent, IndType, TypeOK
    <2> QED
      BY <1>2, <2>2, <2>4, <2>5 DEF Unregister, RoutingConsistent, UserOfConn
  <1>3. ASSUME NEW c \in Conns, NEW m \in Messages, ReleaseGet(c, m) PROVE RoutingConsistent'
    <2>1. \A e \in Conns : Closed(e)' <=> Closed(e)
      <3>1. CASE UNCHANGED pc
        BY <3>1 DEF Closed
      <3>2. CASE pc' = [pc EXCEPT ![c] = "release"]
        BY <1>3, <3>2 DEF ReleaseGet, Closed, IndType, TypeOK
      <3> QED
        BY <1>3, <3>1, <3>2 DEF ReleaseGet
    <2> QED
      BY <1>3, <2>1, RoutingFrame DEF ReleaseGet
  <1>4. ASSUME NEW c \in Conns, ReleaseDel(c) PROVE RoutingConsistent'
    <2>1. \A e \in Conns : Closed(e)' <=> Closed(e)
      BY <1>4 DEF ReleaseDel, Goto, Done, PCs, Closed, IndType, TypeOK
    <2>2. UNCHANGED <<conns, index, sticky>>
      BY <1>4 DEF ReleaseDel
    <2> QED
      BY <2>1, <2>2, RoutingFrame
  <1>5. ASSUME NEW c \in Conns, ReleaseEnd(c) PROVE RoutingConsistent'
    <2>1. \A e \in Conns : Closed(e)' <=> Closed(e)
      BY <1>5 DEF ReleaseEnd, Goto, Done, PCs, Closed, IndType, TypeOK
    <2>2. UNCHANGED <<conns, index, sticky>>
      BY <1>5 DEF ReleaseEnd
    <2> QED
      BY <2>1, <2>2, RoutingFrame
  <1>6. ASSUME NEW m \in Messages, DispatchSticky(m) PROVE RoutingConsistent'
    BY <1>6, RoutingFrame DEF DispatchSticky, Closed
  <1>7. ASSUME NEW m \in Messages, DispatchBroadcast(m) PROVE RoutingConsistent'
    <2>1. UNCHANGED pc /\ UNCHANGED <<conns, index>>
      BY <1>7 DEF DispatchBroadcast
    <2>2. \A t \in Threads : sticky'[t] # None => sticky'[t] \in conns
      BY <1>7 DEF DispatchBroadcast, DropStaleSticky, RoutingConsistent, IndType, TypeOK
    <2> QED
      BY <2>1, <2>2 DEF RoutingConsistent, Closed
  <1>8. ASSUME NEW m \in Messages, DispatchNobody(m) PROVE RoutingConsistent'
    <2>1. UNCHANGED pc /\ UNCHANGED <<conns, index>>
      BY <1>8 DEF DispatchNobody
    <2>2. \A t \in Threads : sticky'[t] # None => sticky'[t] \in conns
      BY <1>8 DEF DispatchNobody, DropStaleSticky, RoutingConsistent, IndType, TypeOK
    <2> QED
      BY <2>1, <2>2 DEF RoutingConsistent, Closed
  <1>9. ASSUME NEW c \in Conns, DispatchSend(c) PROVE RoutingConsistent'
    BY <1>9, RoutingFrame DEF DispatchSend, Closed
  <1>10. ASSUME NEW m \in Messages, PendingMetaExpires(m) PROVE RoutingConsistent'
    BY <1>10, RoutingFrame DEF PendingMetaExpires, Closed
  <1>11. ASSUME NEW c \in Conns, NEW m \in Messages, ClaimMerge(c, m) PROVE RoutingConsistent'
    <2>1. \A e \in Conns : Closed(e)' <=> Closed(e)
      BY <1>11 DEF ClaimMerge, Goto, Done, PCs, Closed, IndType, TypeOK
    <2>2. UNCHANGED <<conns, index, sticky>>
      BY <1>11 DEF ClaimMerge
    <2> QED
      BY <2>1, <2>2, RoutingFrame
  <1>12. ASSUME NEW c \in Conns, ClaimGranted(c) PROVE RoutingConsistent'
    <2>1. \A e \in Conns : Closed(e)' <=> Closed(e)
      BY <1>12 DEF ClaimGranted, Goto, Done, PCs, Closed, IndType, TypeOK
    <2>2. UNCHANGED <<conns, index, sticky>>
      BY <1>12 DEF ClaimGranted
    <2> QED
      BY <2>1, <2>2, RoutingFrame
  <1>13. ASSUME NEW c \in Conns, ClaimDenied(c) PROVE RoutingConsistent'
    <2>1. \A e \in Conns : Closed(e)' <=> Closed(e)
      BY <1>13 DEF ClaimDenied, Goto, Done, PCs, Closed, IndType, TypeOK
    <2>2. UNCHANGED <<conns, index, sticky>>
      BY <1>13 DEF ClaimDenied
    <2> QED
      BY <2>1, <2>2, RoutingFrame
  <1>14. ASSUME NEW c \in Conns, ClaimFails(c) PROVE RoutingConsistent'
    <2>1. \A e \in Conns : Closed(e)' <=> Closed(e)
      BY <1>14 DEF ClaimFails, Goto, Done, PCs, Closed, IndType, TypeOK
    <2>2. UNCHANGED <<conns, index, sticky>>
      BY <1>14 DEF ClaimFails
    <2> QED
      BY <2>1, <2>2, RoutingFrame
  <1>15. ASSUME NEW c \in Conns, SetSticky(c) PROVE RoutingConsistent'
    <2>1. \A e \in Conns : Closed(e)' <=> Closed(e)
      BY <1>15 DEF SetSticky, Goto, Closed, IndType, TypeOK
    <2>2. c \in conns
      BY <1>15 DEF SetSticky, Closed, RoutingConsistent
    <2>3. \A t \in Threads : sticky'[t] # None => sticky'[t] \in conns
      BY <1>15, <2>2 DEF SetSticky, RoutingConsistent, IndType, TypeOK
    <2> QED
      BY <1>15, <2>1, <2>3 DEF SetSticky, RoutingConsistent
  <1>16. ASSUME NEW c \in Conns, ClaimAck(c) PROVE RoutingConsistent'
    <2>1. \A e \in Conns : Closed(e)' <=> Closed(e)
      BY <1>16 DEF ClaimAck, Goto, Done, PCs, Closed, IndType, TypeOK
    <2>2. UNCHANGED <<conns, index, sticky>>
      BY <1>16 DEF ClaimAck
    <2> QED
      BY <2>1, <2>2, RoutingFrame
  <1>17. ASSUME NEW c \in Conns, NEW m \in Messages, Heartbeat(c, m) PROVE RoutingConsistent'
    BY <1>17, RoutingFrame DEF Heartbeat, Closed
  <1>18. ASSUME NEW c \in Conns, NEW m \in Messages, ProgressExtend(c, m) PROVE RoutingConsistent'
    <2>1. \A e \in Conns : Closed(e)' <=> Closed(e)
      BY <1>18 DEF ProgressExtend, Goto, Done, PCs, Closed, IndType, TypeOK
    <2>2. UNCHANGED <<conns, index, sticky>>
      BY <1>18 DEF ProgressExtend, Extend
    <2> QED
      BY <2>1, <2>2, RoutingFrame
  <1>19. ASSUME NEW c \in Conns, ProgressGet(c) PROVE RoutingConsistent'
    <2>1. \A e \in Conns : Closed(e)' <=> Closed(e)
      BY <1>19 DEF ProgressGet, Goto, Done, PCs, Closed, IndType, TypeOK
    <2>2. UNCHANGED <<conns, index, sticky>>
      BY <1>19 DEF ProgressGet
    <2> QED
      BY <2>1, <2>2, RoutingFrame
  <1>20. ASSUME NEW c \in Conns, UpdateTTL(c) PROVE RoutingConsistent'
    <2>1. \A e \in Conns : Closed(e)' <=> Closed(e)
      BY <1>20 DEF UpdateTTL, Goto, Done, PCs, Closed, IndType, TypeOK
    <2>2. UNCHANGED <<conns, index, sticky>>
      BY <1>20 DEF UpdateTTL
    <2> QED
      BY <2>1, <2>2, RoutingFrame
  <1>21. ASSUME NEW c \in Conns, UpdateSet(c) PROVE RoutingConsistent'
    <2>1. \A e \in Conns : Closed(e)' <=> Closed(e)
      BY <1>21 DEF UpdateSet, Goto, Done, PCs, Closed, IndType, TypeOK
    <2>2. UNCHANGED <<conns, index, sticky>>
      BY <1>21 DEF UpdateSet
    <2> QED
      BY <2>1, <2>2, RoutingFrame
  <1>22. ASSUME NEW c \in Conns, ProgressFails(c) PROVE RoutingConsistent'
    <2>1. \A e \in Conns : Closed(e)' <=> Closed(e)
      BY <1>22 DEF ProgressFails, Goto, Done, PCs, Closed, IndType, TypeOK
    <2>2. UNCHANGED <<conns, index, sticky>>
      BY <1>22 DEF ProgressFails
    <2> QED
      BY <2>1, <2>2, RoutingFrame
  <1>23. ASSUME NEW c \in Conns, NEW m \in Messages, ReplyGet(c, m) PROVE RoutingConsistent'
    <2>1. \A e \in Conns : Closed(e)' <=> Closed(e)
      <3>1. CASE UNCHANGED pc
        BY <3>1 DEF Closed
      <3>2. CASE pc' = [pc EXCEPT ![c] = "del"]
        BY <1>23, <3>2 DEF ReplyGet, Closed, IndType, TypeOK
      <3> QED
        BY <1>23, <3>1, <3>2 DEF ReplyGet, Goto
    <2> QED
      BY <1>23, <2>1, RoutingFrame DEF ReplyGet
  <1>24. ASSUME NEW c \in Conns, ReplyDel(c) PROVE RoutingConsistent'
    <2>1. \A e \in Conns : Closed(e)' <=> Closed(e)
      BY <1>24 DEF ReplyDel, Goto, Done, PCs, Closed, IndType, TypeOK
    <2>2. UNCHANGED <<conns, index, sticky>>
      BY <1>24 DEF ReplyDel
    <2> QED
      BY <2>1, <2>2, RoutingFrame
  <1>25. ASSUME NEW c \in Conns, ReplyFails(c) PROVE RoutingConsistent'
    <2>1. \A e \in Conns : Closed(e)' <=> Closed(e)
      BY <1>25 DEF ReplyFails, Goto, Done, PCs, Closed, IndType, TypeOK
    <2>2. UNCHANGED <<conns, index, sticky>>
      BY <1>25 DEF ReplyFails
    <2> QED
      BY <2>1, <2>2, RoutingFrame
  <1>26. ASSUME NEW m \in Messages, ClaimAges(m) PROVE RoutingConsistent'
    BY <1>26, RoutingFrame DEF ClaimAges, Closed
  <1>27. ASSUME NEW m \in Messages, ClaimExpires(m) PROVE RoutingConsistent'
    BY <1>27, RoutingFrame DEF ClaimExpires, Closed
  <1>28. ASSUME Crash PROVE RoutingConsistent'
    <2>1. \A e \in Conns : Closed(e)'
      BY <1>28 DEF Crash, Closed, IndType, TypeOK
    <2> QED
      BY <1>28, <2>1 DEF Crash, RoutingConsistent
  <1>29. CASE UNCHANGED vars
    BY <1>29, RoutingFrame DEF vars, Closed
  <1> QED
    BY <1>1, <1>2, <1>3, <1>4, <1>5, <1>6, <1>7, <1>8, <1>9, <1>10, <1>11, <1>12, <1>13, <1>14, <1>15, <1>16, <1>17, <1>18, <1>19, <1>20, <1>21, <1>22, <1>23, <1>24, <1>25, <1>26, <1>27, <1>28, <1>29 DEF Next, ConnStep, DispatchStep, RedisStep

(* The routing tables of the hub agree with each other and with the         *)
(* goroutines that are running, in every reachable state: Register,         *)
(* Unregister, the sticky update after a claim and a crash keep them so.    *)
THEOREM RoutingCorrect == Spec => []RoutingConsistent
<1>1. Init => RoutingConsistent
  BY WiringAssumption DEF Init, RoutingConsistent, Closed
<1> QED
  BY <1>1, TypeInductive, RoutingStep, PTL DEF Spec

-----------------------------------------------------------------------------
(* Ownership.                                                               *)

(* DeliveredToOwner is not inductive: sticky routing does not look at the   *)
(* user, so every sticky entry must lead to the user its thread belongs to, *)
(* and a handler that may become sticky must handle a message of its user.  *)
OwnerInv ==
    /\ DeliveredToOwner
    /\ \A t \in Threads, m \in Messages :
          sticky[t] # None /\ ThreadOf[m] = t => OwnerOf[m] = UserOfConn(sticky[t])
    /\ \A c \in Conns :
          pc[c] \in {"claim", "sticky", "ack"} => OwnerOf[cur[c]] = UserOfConn(c)

(* The step of an action that sends, offers and routes nothing, and moves   *)
(* no goroutine to a claim.                                                 *)
LEMMA OwnerFrame ==
    ASSUME IndType, OwnerInv, UNCHANGED <<sending, targets, sticky, offered>>,
           \A d \in Daemons : work'[d] \subseteq work[d],
           \A c \in Conns : pc'[c] \in {"claim", "sticky", "ack"}
                            => /\ pc[c] \in {"claim", "sticky", "ack"}
                               /\ cur'[c] = cur[c]
    PROVE  OwnerInv'
  BY DEF OwnerInv, DeliveredToOwner, UserOfConn

(* Every step keeps messages with their owner.                              *)
LEMMA OwnerStep == IndType /\ RoutingConsistent /\ OwnerInv /\ [Next]_vars => OwnerInv'
  <1> SUFFICES ASSUME IndType, RoutingConsistent, OwnerInv, [Next]_vars
               PROVE  OwnerInv'
    OBVIOUS
  <1> USE WiringAssumption DEF hubVars, dispatchVars, redisVars, handlerVars, daemonVars, history
  <1>1. ASSUME NEW c \in Conns, Register(c) PROVE OwnerInv'
    <2>1. \A e \in Conns : pc'[e] \in {"claim", "sticky", "ack"}
                          => pc[e] \in {"claim", "sticky", "ack"} /\ cur'[e] = cur[e]
      BY <1>1 DEF Register, Goto, Done, IndType, TypeOK
    <2> QED
      BY <1>1, <2>1, OwnerFrame DEF Register
  <1>2. ASSUME NEW c \in Conns, Unregister(c) PROVE OwnerInv'
    <2>1. \A e \in Conns : pc'[e] \in {"claim", "sticky", "ack"} => pc[e] = pc'[e]
      BY <1>2 DEF Unregister, IndType, TypeOK
    <2>2. \A t \in Threads : sticky'[t] # None => sticky'[t] = sticky[t]
      BY <1>2 DEF Unregister, ClearSticky
    <2> QED
      BY <1>2, <2>1, <2>2 DEF Unregister, OwnerInv, DeliveredToOwner, UserOfConn
  <1>3. ASSUME NEW c \in Conns, NEW m \in Messages, ReleaseGet(c, m) PROVE OwnerInv'
    <2>1. \A e \in Conns : pc'[e] \in {"claim", "sticky", "ack"}
                          => pc[e] \in {"claim", "sticky", "ack"} /\ cur'[e] = cur[e]
      BY <1>3 DEF ReleaseGet, Goto, Done, IndType, TypeOK
    <2> QED
      BY <1>3, <2>1, OwnerFrame DEF ReleaseGet
  <1>4. ASSUME NEW c \in Conns, ReleaseDel(c) PROVE OwnerInv'
    <2>1. \A e \in Conns : pc'[e] \in {"claim", "sticky", "ack"}
                          => pc[e] \in {"claim", "sticky", "ack"} /\ cur'[e] = cur[e]
      BY <1>4 DEF ReleaseDel, Goto, Done, IndType, TypeOK
    <2> QED
      BY <1>4, <2>1, OwnerFrame DEF ReleaseDel
  <1>5. ASSUME NEW c \in Conns, ReleaseEnd(c) PROVE OwnerInv'
    <2>1. \A e \in Conns : pc'[e] \in {"claim", "sticky", "ack"}
                          => pc[e] \in {"claim", "sticky", "ack"} /\ cur'[e] = cur[e]
      BY <1>5 DEF ReleaseEnd, Goto, Done, IndType, TypeOK
    <2> QED
      BY <1>5, <2>1, OwnerFrame DEF ReleaseEnd
  <1>6. ASSUME NEW m \in Messages, DispatchSticky(m) PROVE OwnerInv'
    <2>1. ThreadOf[m] \in Threads /\ targets' = {sticky[ThreadOf[m]]} /\ sticky[ThreadOf[m]] # None
      BY <1>6 DEF DispatchSticky, StickyHit, StickyConn
    <2>2. OwnerOf[m] = UserOfConn(sticky[ThreadOf[m]])
      BY <2>1 DEF OwnerInv
    <2>3. \A e \in targets' : UserOfConn(e) = OwnerOf[sending']
      BY <1>6, <2>1, <2>2 DEF DispatchSticky
    <2> QED
      BY <1>6, <2>3 DEF DispatchSticky, OwnerInv, DeliveredToOwner, UserOfConn
  <1>7. ASSUME NEW m \in Messages, DispatchBroadcast(m) PROVE OwnerInv'
    <2>1. \A e \in targets' : UserOfConn(e) = OwnerOf[sending']
      BY <1>7 DEF DispatchBroadcast, BroadcastTargets, RoutingConsistent
    <2>2. \A t \in Threads : sticky'[t] # None => sticky'[t] = sticky[t]
      BY <1>7 DEF DispatchBroadcast, DropStaleSticky, IndType, TypeOK
    <2> QED
      BY <1>7, <2>1, <2>2 DEF DispatchBroadcast, OwnerInv, DeliveredToOwner, UserOfConn
  <1>8. ASSUME NEW m \in Messages, DispatchNobody(m) PROVE OwnerInv'
    <2>1. \A t \in Threads : sticky'[t] # None => sticky'[t] = sticky[t]
      BY <1>8 DEF DispatchNobody, DropStaleSticky, IndType, TypeOK
    <2> QED
      BY <1>8, <2>1 DEF DispatchNobody, OwnerInv, DeliveredToOwner, UserOfConn
  <1>9. ASSUME NEW c \in Conns, DispatchSend(c) PROVE OwnerInv'
    <2>1. UserOf[DaemonOf[c]] = OwnerOf[sending] /\ DaemonOf[c] \in Daemons
      BY <1>9 DEF DispatchSend, OwnerInv, DeliveredToOwner, UserOfConn
    <2>2. \A e \in targets' : UserOfConn(e) = OwnerOf[sending']
      BY <1>9 DEF DispatchSend, OwnerInv, DeliveredToOwner
    <2>3. \A d \in Daemons : \A m \in offered'[d] : m \in offered[d] \/ (d = DaemonOf[c] /\ m = sending)
      BY <1>9 DEF DispatchSend, IndType, TypeOK
    <2>4. DeliveredToOwner'
      BY <1>9, <2>1, <2>2, <2>3 DEF DispatchSend, OwnerInv, DeliveredToOwner, UserOfConn
    <2> QED
      BY <1>9, <2>4 DEF DispatchSend, OwnerInv, UserOfConn
  <1>10. ASSUME NEW m \in Messages, PendingMetaExpires(m) PROVE OwnerInv'
    BY <1>10, OwnerFrame DEF PendingMetaExpires
  <1>11. ASSUME NEW c \in Conns, NEW m \in Messages, ClaimMerge(c, m) PROVE OwnerInv'
    <2>1. OwnerOf[m] = UserOfConn(c)
      BY <1>11 DEF ClaimMerge, OwnerInv, DeliveredToOwner, UserOfConn
    <2>2. \A e \in Conns : pc'[e] \in {"claim", "sticky", "ack"} => OwnerOf[cur'[e]] = UserOfConn(e)
      BY <1>11, <2>1 DEF ClaimMerge, Goto, OwnerInv, IndType, TypeOK
    <2>3. \A d \in Daemons : offered'[d] \subseteq offered[d]
      BY <1>11 DEF ClaimMerge, IndType, TypeOK
    <2> QED
      BY <1>11, <2>2, <2>3 DEF ClaimMerge, OwnerInv, DeliveredToOwner, UserOfConn
  <1>12. ASSUME NEW c \in Conns, ClaimGranted(c) PROVE OwnerInv'
    <2>1. \A e \in Conns : pc'[e] \in {"claim", "sticky", "ack"}
                          => pc[e] \in {"claim", "sticky", "ack"} /\ cur'[e] = cur[e]
      BY <1>12 DEF ClaimGranted, Goto, Done, IndType, TypeOK
    <2> QED
      BY <1>12, <2>1, OwnerFrame DEF ClaimGranted
  <1>13. ASSUME NEW c \in Conns, ClaimDenied(c) PROVE OwnerInv'
    <2>1. \A e \in Conns : pc'[e] \in {"claim", "sticky", "ack"}
                          => pc[e] \in {"claim", "sticky", "ack"} /\ cur'[e] = cur[e]
      BY <1>13 DEF ClaimDenied, Goto, Done, IndType, TypeOK
    <2> QED
      BY <1>13, <2>1, OwnerFrame DEF ClaimDenied
  <1>14. ASSUME NEW c \in Conns, ClaimFails(c) PROVE OwnerInv'
    <2>1. \A e \in Conns : pc'[e] \in {"claim", "sticky", "ack"}
                          => pc[e] \in {"claim", "sticky", "ack"} /\ cur'[e] = cur[e]
      BY <1>14 DEF ClaimFails, Goto, Done, IndType, TypeOK
    <2> QED
      BY <1>14, <2>1, OwnerFrame DEF ClaimFails
  <1>15. ASSUME NEW c \in Conns, SetSticky(c) PROVE OwnerInv'
    <2>1. OwnerOf[cur[c]] = UserOfConn(c) /\ cur[c] \in Messages
      BY <1>15 DEF SetSticky, OwnerInv, IndType, HandlerTypeOK, Handling
    <2>2. \A m \in Messages : ThreadOf[m] \in Threads /\ ThreadOf[m] = ThreadOf[cur[c]] => OwnerOf[m] = UserOfConn(c)
      BY <2>1, ThreadAssumption
    <2>3. \A t \in Threads : sticky'[t] = IF t = ThreadOf[cur[c]] THEN c ELSE sticky[t]
      BY <1>15 DEF SetSticky, IndType, TypeOK
    <2>4. \A t \in Threads, m \in Messages :
             sticky'[t] # None /\ ThreadOf[m] = t => OwnerOf[m] = UserOfConn(sticky'[t])
      BY <2>2, <2>3 DEF OwnerInv
    <2>5. \A e \in Conns : pc'[e] \in {"claim", "sticky", "ack"} => OwnerOf[cur'[e]] = UserOfConn(e)
      BY <1>15 DEF SetSticky, Goto, OwnerInv, IndType, TypeOK
    <2> QED
      BY <1>15, <2>4, <2>5 DEF SetSticky, OwnerInv, DeliveredToOwner, UserOfConn
  <1>16. ASSUME NEW c \in Conns, ClaimAck(c) PROVE OwnerInv'
    <2>1. OwnerOf[cur[c]] = UserOf[DaemonOf[c]]
      BY <1>16 DEF ClaimAck, OwnerInv, UserOfConn
    <2>2. \A d \in Daemons : \A m \in work'[d] : m \in work[d] \/ (d = DaemonOf[c] /\ m = cur[c])
      BY <1>16 DEF ClaimAck, IndType, TypeOK
    <2>3. \A e \in Conns : pc'[e] \in {"claim", "sticky", "ack"} => OwnerOf[cur'[e]] = UserOfConn(e)
      BY <1>16 DEF ClaimAck, Done, Goto, OwnerInv, IndType, TypeOK
    <2> QED
      BY <1>16, <2>1, <2>2, <2>3 DEF ClaimAck, OwnerInv, DeliveredToOwner, UserOfConn
  <1>17. ASSUME NEW c \in Conns, NEW m \in Messages, Heartbeat(c, m) PROVE OwnerInv'
    BY <1>17, OwnerFrame DEF Heartbeat
  <1>18. ASSUME NEW c \in Conns, NEW m \in Messages, ProgressExtend(c, m) PROVE OwnerInv'
    <2>1. \A e \in Conns : pc'[e] \in {"claim", "sticky", "ack"}
                          => pc[e] \in {"claim", "sticky", "ack"} /\ cur'[e] = cur[e]
      BY <1>18 DEF ProgressExtend, Extend, Goto, Done, IndType, TypeOK
    <2> QED
      BY <1>18, <2>1, OwnerFrame DEF ProgressExtend, Extend
  <1>19. ASSUME NEW c \in Conns, ProgressGet(c) PROVE OwnerInv'
    <2>1. \A e \in Conns : pc'[e] \in {"claim", "sticky", "ack"}
                          => pc[e] \in {"claim", "sticky", "ack"} /\ cur'[e] = cur[e]
      BY <1>19 DEF ProgressGet, Goto, Done, IndType, TypeOK
    <2> QED
      BY <1>19, <2>1, OwnerFrame DEF ProgressGet
  <1>20. ASSUME NEW c \in Conns, UpdateTTL(c) PROVE OwnerInv'
    <2>1. \A e \in Conns : pc'[e] \in {"claim", "sticky", "ack"}
                          => pc[e] \in {"claim", "sticky", "ack"} /\ cur'[e] = cur[e]
      BY <1>20 DEF UpdateTTL, Goto, Done, IndType, TypeOK
    <2> QED
      BY <1>20, <2>1, OwnerFrame DEF UpdateTTL
  <1>21. ASSUME NEW c \in Conns, UpdateSet(c) PROVE OwnerInv'
    <2>1. \A e \in Conns : pc'[e] \in {"claim", "sticky", "ack"}
                          => pc[e] \in {"claim", "sticky", "ack"} /\ cur'[e] = cur[e]
      BY <1>21 DEF UpdateSet, Goto, Done, IndType, TypeOK
    <2> QED
      BY <1>21, <2>1, OwnerFrame DEF UpdateSet
  <1>22. ASSUME NEW c \in Conns, ProgressFails(c) PROVE OwnerInv'
    <2>1. \A e \in Conns : pc'[e] \in {"claim", "sticky", "ack"}
                          => pc[e] \in {"claim", "sticky", "ack"} /\ cur'[e] = cur[e]
      BY <1>22 DEF ProgressFails, Goto, Done, IndType, TypeOK
    <2> QED
      BY <1>22, <2>1, OwnerFrame DEF ProgressFails
  <1>23. ASSUME NEW c \in Conns, NEW m \in Messages, ReplyGet(c, m) PROVE OwnerInv'
    <2>1. \A e \in Conns : pc'[e] \in {"claim", "sticky", "ack"}
                          => pc[e] \in {"claim", "sticky", "ack"} /\ cur'[e] = cur[e]
      BY <1>23 DEF ReplyGet, Goto, IndType, TypeOK
    <2>2. \A d \in Daemons : work'[d] \subseteq work[d]
      BY <1>23 DEF ReplyGet, IndType, TypeOK
    <2> QED
      BY <1>23, <2>1, <2>2, OwnerFrame DEF ReplyGet
  <1>24. ASSUME NEW c \in Conns, ReplyDel(c) PROVE OwnerInv'
    <2>1. \A e \in Conns : pc'[e] \in {"claim", "sticky", "ack"}
                          => pc[e] \in {"claim", "sticky", "ack"} /\ cur'[e] = cur[e]
      BY <1>24 DEF ReplyDel, Goto, Done, IndType, TypeOK
    <2> QED
      BY <1>24, <2>1, OwnerFrame DEF ReplyDel
  <1>25. ASSUME NEW c \in Conns, ReplyFails(c) PROVE OwnerInv'
    <2>1. \A e \in Conns : pc'[e] \in {"claim", "sticky", "ack"}
                          => pc[e] \in {"claim", "sticky", "ack"} /\ cur'[e] = cur[e]
      BY <1>25 DEF ReplyFails, Goto, Done, IndType, TypeOK
    <2> QED
      BY <1>25, <2>1, OwnerFrame DEF ReplyFails
  <1>26. ASSUME NEW m \in Messages, ClaimAges(m) PROVE OwnerInv'
    BY <1>26, OwnerFrame DEF ClaimAges
  <1>27. ASSUME NEW m \in Messages, ClaimExpires(m) PROVE OwnerInv'
    BY <1>27, OwnerFrame DEF ClaimExpires
  <1>28. ASSUME Crash PROVE OwnerInv'
    <2>1. \A e \in Conns : pc'[e] \notin {"claim", "sticky", "ack"}
      BY <1>28 DEF Crash, IndType, TypeOK
    <2> QED
      BY <1>28, <2>1 DEF Crash, OwnerInv, DeliveredToOwner, UserOfConn
  <1>29. CASE UNCHANGED vars
    BY <1>29, OwnerFrame DEF vars
  <1> QED
    BY <1>1, <1>2, <1>3, <1>4, <1>5, <1>6, <1>7, <1>8, <1>9, <1>10, <1>11, <1>12, <1>13, <1>14, <1>15, <1>16, <1>17, <1>18, <1>19, <1>20, <1>21, <1>22, <1>23, <1>24, <1>25, <1>26, <1>27, <1>28, <1>29 DEF Next, ConnStep, DispatchStep, RedisStep

(* A message stays with the daemons of the user it was dispatched to,       *)
(* whether it was broadcast or followed a sticky route.                     *)
THEOREM OwnerCorrect == Spec => []DeliveredToOwner
<1>1. Init => OwnerInv
  BY WiringAssumption DEF Init, OwnerInv, DeliveredToOwner
<1>2. Spec => [](IndType /\ RoutingConsistent)
  BY TypeInductive, RoutingCorrect, PTL
<1>3. OwnerInv => DeliveredToOwner
  BY DEF OwnerInv
<1> QED
  BY <1>1, <1>2, <1>3, OwnerStep, PTL DEF Spec

-----------------------------------------------------------------------------
(* Routing metadata.                                                        *)

Carries(c, m) == pc[c] = "claim" /\ cur[c] = m /\ copy[c].routed
Updates(c, m) == pc[c] \in {"ttl", "set"} /\ cur[c] = m

(* MetadataHeldOnce is not inductive: nobody carries the metadata of a      *)
(* message that was not dispatched, whoever carries it also knows the       *)
(* workflow, and therefore UpdateClaim, which only adds a workflow id that  *)
(* is missing, never writes metadata back.                                  *)
MetaOf(m) ==
    /\ m \notin dispatched => m \notin pendingMeta
    /\ m \in pendingMeta => ~ClaimCarries(m)
    /\ ClaimCarries(m) => m \in dispatched /\ claim[m].workflow = "task"
    /\ \A c \in Conns : Carries(c, m) => /\ m \in dispatched \ pendingMeta
                                        /\ ~ClaimCarries(m)
                                        /\ copy[c].workflow = "task"
    /\ \A c, e \in Conns : Carries(c, m) /\ Carries(e, m) => c = e
    /\ \A c \in Conns : Updates(c, m) => ~copy[c].routed

MetaInv == \A m \in Scheduled : MetaOf(m)

(* Losing the metadata, anywhere, keeps it held at most once.               *)
LEMMA MetaFrame ==
    ASSUME MetaInv, dispatched \subseteq dispatched', pendingMeta' \subseteq pendingMeta,
           \A m \in Scheduled : claim'[m] # None /\ claim'[m].routed => claim'[m] = claim[m],
           \A c \in Conns, m \in Scheduled :
              /\ Carries(c, m)' => Carries(c, m) /\ copy'[c] = copy[c]
              /\ Updates(c, m)' => ~copy'[c].routed
    PROVE  MetaInv'
  <1>1. ASSUME NEW m \in Scheduled PROVE MetaOf(m)'
    BY <1>1 DEF MetaInv, MetaOf, ClaimCarries
  <1> QED
    BY <1>1 DEF MetaInv

(* Every step keeps the metadata in one hand.                               *)
LEMMA MetaStep == IndType /\ MetaInv /\ [Next]_vars => MetaInv'
  <1> SUFFICES ASSUME IndType, MetaInv, [Next]_vars
               PROVE  MetaInv'
    OBVIOUS
  <1> USE WiringAssumption DEF hubVars, dispatchVars, redisVars, handlerVars, daemonVars, history
  <1>1. ASSUME NEW c \in Conns, Register(c) PROVE MetaInv'
    <2>1. \A e \in Conns, n \in Scheduled :
              /\ Carries(e, n)' => Carries(e, n) /\ copy'[e] = copy[e]
              /\ Updates(e, n)' => ~copy'[e].routed
      BY <1>1 DEF Register, Goto, Done, IndType, TypeOK, Carries, Updates, MetaInv, MetaOf
    <2>2. \A n \in Scheduled : claim'[n] # None /\ claim'[n].routed => claim'[n] = claim[n]
      BY <1>1 DEF Register, IndType, TypeOK
    <2> QED
      BY <1>1, <2>1, <2>2, MetaFrame DEF Register
  <1>2. ASSUME NEW c \in Conns, Unregister(c) PROVE MetaInv'
    <2>1. \A e \in Conns, n \in Scheduled :
              /\ Carries(e, n)' => Carries(e, n) /\ copy'[e] = copy[e]
              /\ Updates(e, n)' => ~copy'[e].routed
      BY <1>2 DEF Unregister, Goto, Done, IndType, TypeOK, Carries, Updates, MetaInv, MetaOf
    <2>2. \A n \in Scheduled : claim'[n] # None /\ claim'[n].routed => claim'[n] = claim[n]
      BY <1>2 DEF Unregister, IndType, TypeOK
    <2> QED
      BY <1>2, <2>1, <2>2, MetaFrame DEF Unregister
  <1>3. ASSUME NEW c \in Conns, NEW m \in Messages, ReleaseGet(c, m) PROVE MetaInv'
    <2>1. \A e \in Conns, n \in Scheduled :
              /\ Carries(e, n)' => Carries(e, n) /\ copy'[e] = copy[e]
              /\ Updates(e, n)' => ~copy'[e].routed
      BY <1>3 DEF ReleaseGet, Goto, Done, IndType, TypeOK, Carries, Updates, MetaInv, MetaOf
    <2>2. \A n \in Scheduled : claim'[n] # None /\ claim'[n].routed => claim'[n] = claim[n]
      BY <1>3 DEF ReleaseGet, IndType, TypeOK
    <2> QED
      BY <1>3, <2>1, <2>2, MetaFrame DEF ReleaseGet
  <1>4. ASSUME NEW c \in Conns, ReleaseDel(c) PROVE MetaInv'
    <2>1. \A e \in Conns, n \in Scheduled :
              /\ Carries(e, n)' => Carries(e, n) /\ copy'[e] = copy[e]
              /\ Updates(e, n)' => ~copy'[e].routed
      BY <1>4 DEF ReleaseDel, Goto, Done, IndType, TypeOK, Carries, Updates, MetaInv, MetaOf
    <2>2. \A n \in Scheduled : claim'[n] # None /\ claim'[n].routed => claim'[n] = claim[n]
      BY <1>4 DEF ReleaseDel, IndType, TypeOK
    <2> QED
      BY <1>4, <2>1, <2>2, MetaFrame DEF ReleaseDel
  <1>5. ASSUME NEW c \in Conns, ReleaseEnd(c) PROVE MetaInv'
    <2>1. \A e \in Conns, n \in Scheduled :
              /\ Carries(e, n)' => Carries(e, n) /\ copy'[e] = copy[e]
              /\ Updates(e, n)' => ~copy'[e].routed
      BY <1>5 DEF ReleaseEnd, Goto, Done, IndType, TypeOK, Carries, Updates, MetaInv, MetaOf
    <2>2. \A n \in Scheduled : claim'[n] # None /\ claim'[n].routed => claim'[n] = claim[n]
      BY <1>5 DEF ReleaseEnd, IndType, TypeOK
    <2> QED
      BY <1>5, <2>1, <2>2, MetaFrame DEF ReleaseEnd
  <1>6. ASSUME NEW m \in Messages, DispatchSticky(m) PROVE MetaInv'
    <2>1. ASSUME NEW n \in Scheduled PROVE MetaOf(n)'
      <3>1. MetaOf(n)
        BY DEF MetaInv
      <3> QED
        BY <1>6, <3>1 DEF DispatchSticky, DispatchStart, MetaOf, ClaimCarries, Carries, Updates
    <2> QED
      BY <2>1 DEF MetaInv
  <1>7. ASSUME NEW m \in Messages, DispatchBroadcast(m) PROVE MetaInv'
    <2>1. ASSUME NEW n \in Scheduled PROVE MetaOf(n)'
      <3>1. MetaOf(n)
        BY DEF MetaInv
      <3> QED
        BY <1>7, <3>1 DEF DispatchBroadcast, DispatchStart, MetaOf, ClaimCarries, Carries, Updates
    <2> QED
      BY <2>1 DEF MetaInv
  <1>8. ASSUME NEW m \in Messages, DispatchNobody(m) PROVE MetaInv'
    <2>1. \A e \in Conns, n \in Scheduled :
              /\ Carries(e, n)' => Carries(e, n) /\ copy'[e] = copy[e]
              /\ Updates(e, n)' => ~copy'[e].routed
      BY <1>8 DEF DispatchNobody, Carries, Updates, MetaInv, MetaOf, DispatchStart
    <2> QED
      BY <1>8, <2>1, MetaFrame DEF DispatchNobody, DispatchStart
  <1>9. ASSUME NEW c \in Conns, DispatchSend(c) PROVE MetaInv'
    <2>1. \A e \in Conns, n \in Scheduled :
              /\ Carries(e, n)' => Carries(e, n) /\ copy'[e] = copy[e]
              /\ Updates(e, n)' => ~copy'[e].routed
      BY <1>9 DEF DispatchSend, Carries, Updates, MetaInv, MetaOf
    <2> QED
      BY <1>9, <2>1, MetaFrame DEF DispatchSend
  <1>10. ASSUME NEW m \in Messages, PendingMetaExpires(m) PROVE MetaInv'
    <2>1. \A e \in Conns, n \in Scheduled :
              /\ Carries(e, n)' => Carries(e, n) /\ copy'[e] = copy[e]
              /\ Updates(e, n)' => ~copy'[e].routed
      BY <1>10 DEF PendingMetaExpires, Carries, Updates, MetaInv, MetaOf
    <2> QED
      BY <1>10, <2>1, MetaFrame DEF PendingMetaExpires
  <1>11. ASSUME NEW c \in Conns, NEW m \in Messages, ClaimMerge(c, m) PROVE MetaInv'
    <2> DEFINE meta == [conn |-> c, routed |-> m \in pendingMeta,
                        workflow |-> IF m \in pendingMeta \cap Scheduled THEN "task" ELSE "none"]
    <2>1. /\ pc[c] = "idle" /\ pc' = [pc EXCEPT ![c] = "claim"]
          /\ cur' = [cur EXCEPT ![c] = m]
          /\ copy' = [copy EXCEPT ![c] = meta]
          /\ pendingMeta' = pendingMeta \ {m}
          /\ UNCHANGED <<dispatched, claim>>
      BY <1>11 DEF ClaimMerge, ConsumePending, Goto
    <2>2. ASSUME NEW n \in Scheduled PROVE MetaOf(n)'
      <3>1. MetaOf(n)
        BY DEF MetaInv
      <3>2. \A e \in Conns : Carries(e, n)' <=> Carries(e, n) \/ (e = c /\ n = m /\ m \in pendingMeta)
        BY <2>1 DEF Carries, IndType, TypeOK
      <3>3. \A e \in Conns : e # c => copy'[e] = copy[e]
        BY <2>1 DEF IndType, TypeOK
      <3>4. \A e \in Conns : Updates(e, n)' => Updates(e, n) /\ e # c
        BY <2>1 DEF Updates, IndType, TypeOK
      <3>5. n = m /\ m \in pendingMeta => copy'[c].workflow = "task"
        BY <2>1 DEF IndType, TypeOK
      <3>6. ~Carries(c, n)
        BY <2>1 DEF Carries
      <3>7. ClaimCarries(n)' <=> ClaimCarries(n)
        BY <2>1 DEF ClaimCarries
      <3>8. UNCHANGED <<dispatched, claim>> /\ pendingMeta' = pendingMeta \ {m}
        BY <2>1
      <3> QED
        BY <3>1, <3>2, <3>3, <3>4, <3>5, <3>6, <3>7, <3>8 DEF MetaOf
    <2> QED
      BY <2>2 DEF MetaInv
  <1>12. ASSUME NEW c \in Conns, ClaimGranted(c) PROVE MetaInv'
    <2>1. \A n \in Scheduled, e \in Conns : Carries(e, n)' => Carries(e, n) /\ e # c /\ copy'[e] = copy[e]
      BY <1>12 DEF ClaimGranted, Goto, Done, Carries, IndType, TypeOK
    <2>2. \A n \in Scheduled, e \in Conns : Updates(e, n)' => Updates(e, n) /\ copy'[e] = copy[e]
      BY <1>12 DEF ClaimGranted, Goto, Done, Updates, IndType, TypeOK
    <2>3. \A n \in Scheduled : claim'[n] = claim[n] \/ (n = cur[c] /\ claim'[n] = copy[c] /\ claim[n] = None)
      BY <1>12 DEF ClaimGranted, KeyFree, IndType, TypeOK
    <2>4. pc[c] = "claim" /\ UNCHANGED <<dispatched, pendingMeta>>
      BY <1>12 DEF ClaimGranted
    <2>5. ASSUME NEW n \in Scheduled PROVE MetaOf(n)'
      <3>1. MetaOf(n)
        BY DEF MetaInv
      <3>2. CASE claim'[n] = claim[n]
        BY <2>1, <2>2, <2>4, <3>1, <3>2 DEF MetaOf, ClaimCarries
      <3>3. CASE n = cur[c] /\ claim'[n] = copy[c] /\ claim[n] = None
        <4>1. ClaimCarries(n)' => Carries(c, n)
          BY <2>4, <3>3 DEF ClaimCarries, Carries
        <4> QED
          BY <2>1, <2>2, <2>4, <3>1, <3>3, <4>1 DEF MetaOf, ClaimCarries
      <3> QED
        BY <2>3, <3>2, <3>3
    <2> QED
      BY <2>5 DEF MetaInv
  <1>13. ASSUME NEW c \in Conns, ClaimDenied(c) PROVE MetaInv'
    <2>1. \A e \in Conns, n \in Scheduled :
              /\ Carries(e, n)' => Carries(e, n) /\ copy'[e] = copy[e]
              /\ Updates(e, n)' => ~copy'[e].routed
      BY <1>13 DEF ClaimDenied, Goto, Done, IndType, TypeOK, Carries, Updates, MetaInv, MetaOf
    <2>2. \A n \in Scheduled : claim'[n] # None /\ claim'[n].routed => claim'[n] = claim[n]
      BY <1>13 DEF ClaimDenied, IndType, TypeOK
    <2> QED
      BY <1>13, <2>1, <2>2, MetaFrame DEF ClaimDenied
  <1>14. ASSUME NEW c \in Conns, ClaimFails(c) PROVE MetaInv'
    <2>1. \A n \in Scheduled, e \in Conns : Carries(e, n)' => Carries(e, n) /\ e # c /\ copy'[e] = copy[e]
      BY <1>14 DEF ClaimFails, Goto, Done, Carries, IndType, TypeOK
    <2>2. \A n \in Scheduled, e \in Conns : Updates(e, n)' => Updates(e, n) /\ copy'[e] = copy[e]
      BY <1>14 DEF ClaimFails, Goto, Done, Updates, IndType, TypeOK
    <2>3. \A n \in Scheduled : claim'[n] = claim[n] \/ (n = cur[c] /\ claim'[n] = copy[c] /\ claim[n] = None)
      BY <1>14 DEF ClaimFails, IndType, TypeOK
    <2>4. pc[c] = "claim" /\ UNCHANGED <<dispatched, pendingMeta>>
      BY <1>14 DEF ClaimFails
    <2>5. ASSUME NEW n \in Scheduled PROVE MetaOf(n)'
      <3>1. MetaOf(n)
        BY DEF MetaInv
      <3>2. CASE claim'[n] = claim[n]
        BY <2>1, <2>2, <2>4, <3>1, <3>2 DEF MetaOf, ClaimCarries
      <3>3. CASE n = cur[c] /\ claim'[n] = copy[c] /\ claim[n] = None
        <4>1. ClaimCarries(n)' => Carries(c, n)
          BY <2>4, <3>3 DEF ClaimCarries, Carries
        <4> QED
          BY <2>1, <2>2, <2>4, <3>1, <3>3, <4>1 DEF MetaOf, ClaimCarries
      <3> QED
        BY <2>3, <3>2, <3>3
    <2> QED
      BY <2>5 DEF MetaInv
  <1>15. ASSUME NEW c \in Conns, SetSticky(c) PROVE MetaInv'
    <2>1. \A e \in Conns, n \in Scheduled :
              /\ Carries(e, n)' => Carries(e, n) /\ copy'[e] = copy[e]
              /\ Updates(e, n)' => ~copy'[e].routed
      BY <1>15 DEF SetSticky, Goto, Done, IndType, TypeOK, Carries, Updates, MetaInv, MetaOf
    <2>2. \A n \in Scheduled : claim'[n] # None /\ claim'[n].routed => claim'[n] = claim[n]
      BY <1>15 DEF SetSticky, IndType, TypeOK
    <2> QED
      BY <1>15, <2>1, <2>2, MetaFrame DEF SetSticky
  <1>16. ASSUME NEW c \in Conns, ClaimAck(c) PROVE MetaInv'
    <2>1. \A e \in Conns, n \in Scheduled :
              /\ Carries(e, n)' => Carries(e, n) /\ copy'[e] = copy[e]
              /\ Updates(e, n)' => ~copy'[e].routed
      BY <1>16 DEF ClaimAck, Goto, Done, IndType, TypeOK, Carries, Updates, MetaInv, MetaOf
    <2>2. \A n \in Scheduled : claim'[n] # None /\ claim'[n].routed => claim'[n] = claim[n]
      BY <1>16 DEF ClaimAck, IndType, TypeOK
    <2> QED
      BY <1>16, <2>1, <2>2, MetaFrame DEF ClaimAck
  <1>17. ASSUME NEW c \in Conns, NEW m \in Messages, Heartbeat(c, m) PROVE MetaInv'
    <2>1. \A e \in Conns, n \in Scheduled :
              /\ Carries(e, n)' => Carries(e, n) /\ copy'[e] = copy[e]
              /\ Updates(e, n)' => ~copy'[e].routed
      BY <1>17 DEF Heartbeat, Carries, Updates, MetaInv, MetaOf, Extend
    <2> QED
      BY <1>17, <2>1, MetaFrame DEF Heartbeat
  <1>18. ASSUME NEW c \in Conns, NEW m \in Messages, ProgressExtend(c, m) PROVE MetaInv'
    <2>1. \A e \in Conns, n \in Scheduled :
              /\ Carries(e, n)' => Carries(e, n) /\ copy'[e] = copy[e]
              /\ Updates(e, n)' => ~copy'[e].routed
      BY <1>18 DEF ProgressExtend, Extend, Goto, Done, IndType, TypeOK, Carries, Updates, MetaInv, MetaOf
    <2>2. \A n \in Scheduled : claim'[n] # None /\ claim'[n].routed => claim'[n] = claim[n]
      BY <1>18 DEF ProgressExtend, Extend, IndType, TypeOK
    <2> QED
      BY <1>18, <2>1, <2>2, MetaFrame DEF ProgressExtend, Extend
  <1>19. ASSUME NEW c \in Conns, ProgressGet(c) PROVE MetaInv'
    <2>1. \A n \in Scheduled : claim[n] # None /\ claim[n].workflow = "none" => ~claim[n].routed
      BY DEF MetaInv, MetaOf, ClaimCarries
    <2>2. CASE claim[cur[c]] # None /\ claim[cur[c]].workflow = "none"
      <3>1. copy' = [copy EXCEPT ![c] = [claim[cur[c]] EXCEPT !.workflow = "stream"]]
        BY <1>19, <2>2 DEF ProgressGet, Goto
      <3>2. claim[cur[c]] \in Claim
        BY <1>19, <2>2 DEF ProgressGet, IndType, TypeOK, HandlerTypeOK, Handling
      <3>3. copy'[c].routed = claim[cur[c]].routed
        BY <3>1, <3>2 DEF IndType, TypeOK, Claim
      <3>4. \A e \in Conns, n \in Scheduled :
              /\ Carries(e, n)' => Carries(e, n) /\ copy'[e] = copy[e]
              /\ Updates(e, n)' => ~copy'[e].routed
        BY <1>19, <2>1, <2>2, <3>1, <3>3 DEF ProgressGet, Goto, IndType, TypeOK, Carries, Updates, MetaInv, MetaOf
      <3> QED
        BY <1>19, <3>4, MetaFrame DEF ProgressGet
    <2>3. CASE ~(claim[cur[c]] # None /\ claim[cur[c]].workflow = "none")
      <3>1. \A e \in Conns, n \in Scheduled :
              /\ Carries(e, n)' => Carries(e, n) /\ copy'[e] = copy[e]
              /\ Updates(e, n)' => ~copy'[e].routed
        BY <1>19, <2>3 DEF ProgressGet, Done, Goto, IndType, TypeOK, Carries, Updates, MetaInv, MetaOf
      <3> QED
        BY <1>19, <3>1, MetaFrame DEF ProgressGet
    <2> QED
      BY <2>2, <2>3
  <1>20. ASSUME NEW c \in Conns, UpdateTTL(c) PROVE MetaInv'
    <2>1. \A e \in Conns, n \in Scheduled :
              /\ Carries(e, n)' => Carries(e, n) /\ copy'[e] = copy[e]
              /\ Updates(e, n)' => ~copy'[e].routed
      BY <1>20 DEF UpdateTTL, Goto, Done, IndType, TypeOK, Carries, Updates, MetaInv, MetaOf
    <2>2. \A n \in Scheduled : claim'[n] # None /\ claim'[n].routed => claim'[n] = claim[n]
      BY <1>20 DEF UpdateTTL, IndType, TypeOK
    <2> QED
      BY <1>20, <2>1, <2>2, MetaFrame DEF UpdateTTL
  <1>21. ASSUME NEW c \in Conns, UpdateSet(c) PROVE MetaInv'
    <2>1. \A e \in Conns, n \in Scheduled :
              /\ Carries(e, n)' => Carries(e, n) /\ copy'[e] = copy[e]
              /\ Updates(e, n)' => ~copy'[e].routed
      BY <1>21 DEF UpdateSet, Goto, Done, IndType, TypeOK, Carries, Updates, MetaInv, MetaOf
    <2>2. cur[c] \in Scheduled => ~copy[c].routed
      BY <1>21 DEF UpdateSet, Updates, MetaInv, MetaOf
    <2>3. \A n \in Scheduled : claim'[n] # None /\ claim'[n].routed => claim'[n] = claim[n]
      BY <1>21, <2>2 DEF UpdateSet, IndType, TypeOK
    <2> QED
      BY <1>21, <2>1, <2>3, MetaFrame DEF UpdateSet
  <1>22. ASSUME NEW c \in Conns, ProgressFails(c) PROVE MetaInv'
    <2>1. \A e \in Conns, n \in Scheduled :
              /\ Carries(e, n)' => Carries(e, n) /\ copy'[e] = copy[e]
              /\ Updates(e, n)' => ~copy'[e].routed
      BY <1>22 DEF ProgressFails, Goto, Done, IndType, TypeOK, Carries, Updates, MetaInv, MetaOf
    <2>2. \A n \in Scheduled : claim'[n] # None /\ claim'[n].routed => claim'[n] = claim[n]
      BY <1>22 DEF ProgressFails, IndType, TypeOK
    <2> QED
      BY <1>22, <2>1, <2>2, MetaFrame DEF ProgressFails
  <1>23. ASSUME NEW c \in Conns, NEW m \in Messages, ReplyGet(c, m) PROVE MetaInv'
    <2>1. \A e \in Conns, n \in Scheduled :
              /\ Carries(e, n)' => Carries(e, n) /\ copy'[e] = copy[e]
              /\ Updates(e, n)' => ~copy'[e].routed
      <3>1. CASE UNCHANGED handlerVars
        BY <3>1 DEF Carries, Updates, MetaInv, MetaOf
      <3>2. CASE Goto(c, "del", m, claim[m])
        BY <1>23, <3>2 DEF ReplyGet, Goto, IndType, TypeOK, Carries, Updates, MetaInv, MetaOf
      <3> QED
        BY <1>23, <3>1, <3>2 DEF ReplyGet
    <2> QED
      BY <1>23, <2>1, MetaFrame DEF ReplyGet
  <1>24. ASSUME NEW c \in Conns, ReplyDel(c) PROVE MetaInv'
    <2>1. \A e \in Conns, n \in Scheduled :
              /\ Carries(e, n)' => Carries(e, n) /\ copy'[e] = copy[e]
              /\ Updates(e, n)' => ~copy'[e].routed
      BY <1>24 DEF ReplyDel, Goto, Done, IndType, TypeOK, Carries, Updates, MetaInv, MetaOf
    <2>2. \A n \in Scheduled : claim'[n] # None /\ claim'[n].routed => claim'[n] = claim[n]
      BY <1>24 DEF ReplyDel, IndType, TypeOK
    <2> QED
      BY <1>24, <2>1, <2>2, MetaFrame DEF ReplyDel
  <1>25. ASSUME NEW c \in Conns, ReplyFails(c) PROVE MetaInv'
    <2>1. \A e \in Conns, n \in Scheduled :
              /\ Carries(e, n)' => Carries(e, n) /\ copy'[e] = copy[e]
              /\ Updates(e, n)' => ~copy'[e].routed
      BY <1>25 DEF ReplyFails, Goto, Done, IndType, TypeOK, Carries, Updates, MetaInv, MetaOf
    <2>2. \A n \in Scheduled : claim'[n] # None /\ claim'[n].routed => claim'[n] = claim[n]
      BY <1>25 DEF ReplyFails, IndType, TypeOK
    <2> QED
      BY <1>25, <2>1, <2>2, MetaFrame DEF ReplyFails
  <1>26. ASSUME NEW m \in Messages, ClaimAges(m) PROVE MetaInv'
    <2>1. \A e \in Conns, n \in Scheduled :
              /\ Carries(e, n)' => Carries(e, n) /\ copy'[e] = copy[e]
              /\ Updates(e, n)' => ~copy'[e].routed
      BY <1>26 DEF ClaimAges, Carries, Updates, MetaInv, MetaOf
    <2> QED
      BY <1>26, <2>1, MetaFrame DEF ClaimAges
  <1>27. ASSUME NEW m \in Messages, ClaimExpires(m) PROVE MetaInv'
    <2>1. \A e \in Conns, n \in Scheduled :
              /\ Carries(e, n)' => Carries(e, n) /\ copy'[e] = copy[e]
              /\ Updates(e, n)' => ~copy'[e].routed
      BY <1>27 DEF ClaimExpires, Goto, Done, IndType, TypeOK, Carries, Updates, MetaInv, MetaOf
    <2>2. \A n \in Scheduled : claim'[n] # None /\ claim'[n].routed => claim'[n] = claim[n]
      BY <1>27 DEF ClaimExpires, IndType, TypeOK
    <2> QED
      BY <1>27, <2>1, <2>2, MetaFrame DEF ClaimExpires
  <1>28. ASSUME Crash PROVE MetaInv'
    <2>1. \A e \in Conns, n \in Scheduled :
              /\ Carries(e, n)' => Carries(e, n) /\ copy'[e] = copy[e]
              /\ Updates(e, n)' => ~copy'[e].routed
      BY <1>28 DEF Crash, Goto, Done, IndType, TypeOK, Carries, Updates, MetaInv, MetaOf
    <2>2. \A n \in Scheduled : claim'[n] # None /\ claim'[n].routed => claim'[n] = claim[n]
      BY <1>28 DEF Crash, IndType, TypeOK
    <2> QED
      BY <1>28, <2>1, <2>2, MetaFrame DEF Crash
  <1>29. CASE UNCHANGED vars
    <2>1. \A e \in Conns, n \in Scheduled :
              /\ Carries(e, n)' => Carries(e, n) /\ copy'[e] = copy[e]
              /\ Updates(e, n)' => ~copy'[e].routed
      BY <1>29 DEF vars, Carries, Updates, MetaInv, MetaOf
    <2> QED
      BY <1>29, <2>1, MetaFrame DEF vars
  <1> QED
    BY <1>1, <1>2, <1>3, <1>4, <1>5, <1>6, <1>7, <1>8, <1>9, <1>10, <1>11, <1>12, <1>13, <1>14, <1>15, <1>16, <1>17, <1>18, <1>19, <1>20, <1>21, <1>22, <1>23, <1>24, <1>25, <1>26, <1>27, <1>28, <1>29 DEF Next, ConnStep, DispatchStep, RedisStep

(* The routing metadata of a scheduled task has one holder at a time, so    *)
(* that at most one claim leads a reply back to the workflow, under expiry, *)
(* Redis errors, crashes and every interleaving of claims and progress.     *)
THEOREM MetadataCorrect == Spec => []MetadataHeldOnce
<1>1. Init => MetaInv
  BY WiringAssumption DEF Init, MetaInv, MetaOf, Carries, Updates, ClaimCarries
<1>2. MetaInv => MetadataHeldOnce
  BY DEF MetaInv, MetaOf, Carries, MetadataHeldOnce, HeldOnce, HandlersWith
<1> QED
  BY <1>1, <1>2, TypeInductive, MetaStep, PTL DEF Spec

-----------------------------------------------------------------------------
(* Work and signals.                                                        *)

(* A goroutine that was granted a message and has not told the daemon, or   *)
(* that has a reply in hand.                                                *)
Holds(c, m) == pc[c] \in {"sticky", "ack", "del"} /\ cur[c] = m

(* ExclusiveWork is not inductive: as long as its claim has not lapsed, a   *)
(* message is in one hand, of a goroutine or of a daemon, and then its key  *)
(* is taken, so that no other daemon is granted it.                         *)
WorkOf(m) ==
    /\ \A c \in Conns : Holds(c, m) => claim[m] # None /\ \A d \in Daemons : m \notin work[d]
    /\ \A c, e \in Conns : Holds(c, m) /\ Holds(e, m) => c = e
    /\ \A d \in Daemons : m \in work[d] => claim[m] # None
    /\ \A d, e \in Daemons : m \in work[d] /\ m \in work[e] => d = e

WorkInv == \A m \in Messages \ lapsed : WorkOf(m)

(* Only metadata that Dispatch stored for a scheduled task names a task's   *)
(* workflow, and UpdateClaim never writes such a claim.                     *)
TaskInv ==
    /\ \A m \in Messages :
          claim[m] # None /\ claim[m].workflow = "task" => claim[m].routed /\ m \in Scheduled
    /\ \A c \in Conns :
          pc[c] \in {"claim", "del"} /\ copy[c].workflow = "task" =>
              copy[c].routed /\ cur[c] \in Scheduled
    /\ \A c \in Conns : pc[c] \in {"ttl", "set"} => copy[c].workflow = "stream"

(* A reply on its way to the workflow.                                      *)
Returns(c, m) == pc[c] = "del" /\ cur[c] = m /\ copy[c].workflow = "task"

(* Once a reply is on its way to the workflow, or has got there, the        *)
(* metadata is used up.                                                     *)
SignalOf(m) ==
    /\ signals[m] <= 1
    /\ signals[m] > 0 \/ (\E c \in Conns : Returns(c, m)) =>
          /\ m \in Scheduled /\ m \in dispatched \ pendingMeta
          /\ \A c \in Conns : ~Carries(c, m)
    /\ signals[m] > 0 => ~ClaimCarries(m) /\ \A c \in Conns : ~Returns(c, m)

SignalInv == \A m \in Messages \ lapsed : SignalOf(m)

(* What Goto does to the goroutines.                                        *)
LEMMA GotoMoves ==
    ASSUME IndType, NEW c \in Conns, NEW label, NEW m, NEW meta, Goto(c, label, m, meta)
    PROVE  /\ pc'[c] = label /\ cur'[c] = m /\ copy'[c] = meta
           /\ \A e \in Conns \ {c} : pc'[e] = pc[e] /\ cur'[e] = cur[e] /\ copy'[e] = copy[e]
  BY DEF Goto, IndType, TypeOK

LEMMA NoneIsNoClaim ==
    ASSUME NEW k \in Claim
    PROVE  k # None
  BY ClaimAssumption

(* A step by which nobody gets a message in hand and no claim is dropped.   *)
LEMMA WorkFrame ==
    ASSUME WorkInv, lapsed \subseteq lapsed',
           \A d \in Daemons : work'[d] \subseteq work[d],
           \A c \in Conns, m \in Messages : Holds(c, m)' => Holds(c, m),
           \A m \in Messages \ lapsed' : claim[m] # None => claim'[m] # None
    PROVE  WorkInv'
  BY DEF WorkInv, WorkOf

(* The same of one whose goroutine goes where it holds nothing.             *)
LEMMA WorkGoto ==
    ASSUME IndType, WorkInv, lapsed \subseteq lapsed', work' = work,
           \A m \in Messages \ lapsed' : claim[m] # None => claim'[m] # None,
           NEW c \in Conns, NEW label, NEW m, NEW meta, Goto(c, label, m, meta),
           label \notin {"sticky", "ack", "del"}
    PROVE  WorkInv'
  BY GotoMoves, WorkFrame DEF Holds

LEMMA WorkStep == IndType /\ WorkInv /\ [Next]_vars => WorkInv'
  <1> SUFFICES ASSUME IndType, WorkInv, [Next]_vars
               PROVE  WorkInv'
    OBVIOUS
  <1> USE DEF hubVars, dispatchVars, redisVars, handlerVars, daemonVars, history
  <1>t. /\ pc \in [Conns -> PCs] /\ cur \in [Conns -> Messages \cup {None}]
        /\ claim \in [Messages -> Claim \cup {None}] /\ work \in [Daemons -> SUBSET Messages]
        /\ \A c \in Conns : pc[c] \in Carrying => copy[c] \in Claim
        /\ \A c \in Conns : pc[c] \in Handling => cur[c] \in Messages
    BY DEF IndType, TypeOK, HandlerTypeOK
  <1>1. ASSUME UNCHANGED <<pc, cur, claim, work, lapsed>> PROVE WorkInv'
    BY <1>1, WorkFrame DEF Holds
  <1>2. CASE DispatchStep \/ UNCHANGED vars
    BY <1>1, <1>2 DEF DispatchStep, DispatchSticky, DispatchBroadcast, DispatchNobody, DispatchSend, vars
  <1>3. ASSUME NEW m \in Messages, PendingMetaExpires(m) \/ ClaimAges(m) PROVE WorkInv'
    BY <1>1, <1>3 DEF PendingMetaExpires, ClaimAges
  <1>4. ASSUME NEW m \in Messages, ClaimExpires(m) PROVE WorkInv'
    <2>1. \A n \in Messages \ lapsed' : claim[n] # None => claim'[n] # None
      BY <1>t, <1>4 DEF ClaimExpires
    <2> QED
      BY <1>4, <2>1, WorkFrame DEF ClaimExpires, Holds
  <1>5. CASE Crash
    <2>1. \A c \in Conns : pc'[c] \notin {"sticky", "ack", "del"}
      BY <1>t, <1>5 DEF Crash
    <2> QED
      BY <1>5, <2>1, WorkFrame DEF Crash, Holds
  <1>6. ASSUME NEW c \in Conns, Register(c) \/ ReleaseEnd(c) \/ ClaimDenied(c) \/ ProgressGet(c)
                                \/ UpdateTTL(c) \/ ProgressFails(c) \/ ReplyFails(c)
        PROVE  WorkInv'
    BY <1>6, WorkGoto DEF Register, ReleaseEnd, ClaimDenied, ProgressGet, UpdateTTL, ProgressFails,
                          ReplyFails, Done
  <1>7. ASSUME NEW c \in Conns, NEW m \in Messages, ClaimMerge(c, m) \/ ProgressExtend(c, m)
        PROVE  WorkInv'
    BY <1>7, WorkGoto DEF ClaimMerge, ProgressExtend
  <1>8. ASSUME NEW c \in Conns, NEW m \in Messages, Heartbeat(c, m) PROVE WorkInv'
    BY <1>1, <1>8 DEF Heartbeat
  <1>9. ASSUME NEW c \in Conns, Unregister(c) PROVE WorkInv'
    <2>1. \A e \in Conns, n \in Messages : Holds(e, n)' => Holds(e, n)
      BY <1>t, <1>9 DEF Unregister, Holds
    <2> QED
      BY <1>9, <2>1, WorkFrame DEF Unregister
  <1>10. ASSUME NEW c \in Conns, NEW m \in Messages, ReleaseGet(c, m) PROVE WorkInv'
    <2>1. \A e \in Conns, n \in Messages : Holds(e, n)' => Holds(e, n)
      BY <1>t, <1>10 DEF ReleaseGet, Holds
    <2> QED
      BY <1>10, <2>1, WorkFrame DEF ReleaseGet
  <1>11. ASSUME NEW c \in Conns, ReleaseDel(c) PROVE WorkInv'
    <2>1. \A n \in Messages \ lapsed' : claim[n] # None => claim'[n] # None
      BY <1>t, <1>11 DEF ReleaseDel
    <2> QED
      BY <1>11, <2>1, WorkGoto DEF ReleaseDel
  <1>12. ASSUME NEW c \in Conns, ClaimFails(c) PROVE WorkInv'
    <2>1. copy[c] # None
      BY <1>t, <1>12, NoneIsNoClaim DEF ClaimFails, Carrying
    <2>2. \A n \in Messages : claim[n] # None => claim'[n] # None
      BY <1>t, <1>12, <2>1 DEF ClaimFails
    <2> QED
      BY <1>12, <2>2, WorkGoto DEF ClaimFails, Done
  <1>13. ASSUME NEW c \in Conns, UpdateSet(c) PROVE WorkInv'
    <2>1. copy[c] # None
      BY <1>t, <1>13, NoneIsNoClaim DEF UpdateSet, Carrying
    <2>2. \A n \in Messages : claim[n] # None => claim'[n] # None
      BY <1>t, <1>13, <2>1 DEF UpdateSet
    <2> QED
      BY <1>13, <2>2, WorkGoto DEF UpdateSet, Done
  <1>14. ASSUME NEW c \in Conns, SetSticky(c) PROVE WorkInv'
    <2>1. \A e \in Conns, n \in Messages : Holds(e, n)' => Holds(e, n)
      BY <1>14, GotoMoves DEF SetSticky, Holds
    <2> QED
      BY <1>14, <2>1, WorkFrame DEF SetSticky
  <1>15. ASSUME NEW c \in Conns, ClaimGranted(c) PROVE WorkInv'
    <2>1. cur[c] \in Messages /\ copy[c] # None /\ claim[cur[c]] = None
      BY <1>t, <1>15, NoneIsNoClaim DEF ClaimGranted, KeyFree, Handling, Carrying
    <2>2. \A n \in Messages : claim'[n] = IF n = cur[c] THEN copy[c] ELSE claim[n]
      BY <1>t, <1>15, <2>1 DEF ClaimGranted
    <2>3. \A e \in Conns, n \in Messages : Holds(e, n)' => Holds(e, n) \/ (e = c /\ n = cur[c])
      BY <1>15, GotoMoves DEF ClaimGranted, Holds
    <2> QED
      BY <1>15, <2>1, <2>2, <2>3 DEF ClaimGranted, WorkInv, WorkOf
  <1>16. ASSUME NEW c \in Conns, ClaimAck(c) PROVE WorkInv'
    <2>1. cur[c] \in Messages /\ Holds(c, cur[c]) /\ DaemonOf[c] \in Daemons
      BY <1>t, <1>16, WiringAssumption DEF ClaimAck, Handling, Holds
    <2>2. \A e \in Conns, n \in Messages : Holds(e, n)' => Holds(e, n) /\ e # c
      BY <1>16, GotoMoves DEF ClaimAck, Done, Holds
    <2>3. \A d \in Daemons, n \in Messages :
              n \in work'[d] => n \in work[d] \/ (d = DaemonOf[c] /\ n = cur[c])
      BY <1>t, <1>16 DEF ClaimAck
    <2>4. claim' = claim /\ lapsed' = lapsed
      BY <1>16 DEF ClaimAck
    <2> QED
      BY <2>1, <2>2, <2>3, <2>4 DEF WorkInv, WorkOf
  <1>17. ASSUME NEW c \in Conns, NEW m \in Messages, ReplyGet(c, m) PROVE WorkInv'
    <2>1. DaemonOf[c] \in Daemons /\ m \in work[DaemonOf[c]] /\ claim' = claim /\ lapsed' = lapsed
      BY <1>17, WiringAssumption DEF ReplyGet
    <2>2. \A d \in Daemons : work'[d] = IF d = DaemonOf[c] THEN work[d] \ {m} ELSE work[d]
      BY <1>t, <1>17 DEF ReplyGet
    <2>3. \A e \in Conns, n \in Messages :
              Holds(e, n)' => Holds(e, n) \/ (e = c /\ n = m /\ claim[m] # None)
      BY <1>17, GotoMoves DEF ReplyGet, Holds
    <2>4. SUFFICES ASSUME NEW n \in Messages \ lapsed
                   PROVE  WorkOf(n)'
      BY <2>1 DEF WorkInv
    <2>5. WorkOf(n)
      BY DEF WorkInv
    <2>6. CASE n = m
      <3>1. \A e \in Conns : ~Holds(e, n)
        BY <2>1, <2>5, <2>6 DEF WorkOf
      <3>2. \A d \in Daemons : n \notin work'[d]
        BY <2>1, <2>2, <2>5, <2>6 DEF WorkOf
      <3> QED
        BY <2>1, <2>3, <2>6, <3>1, <3>2 DEF WorkOf
    <2>7. CASE n # m
      <3>1. \A d \in Daemons : n \in work'[d] => n \in work[d]
        BY <2>2
      <3>2. \A e \in Conns : Holds(e, n)' => Holds(e, n)
        BY <2>3, <2>7
      <3> QED
        BY <2>1, <2>5, <3>1, <3>2 DEF WorkOf
    <2> QED
      BY <2>6, <2>7
  <1>18. ASSUME NEW c \in Conns, ReplyDel(c) PROVE WorkInv'
    <2>1. cur[c] \in Messages /\ Holds(c, cur[c])
      BY <1>t, <1>18 DEF ReplyDel, Handling, Holds
    <2>2. \A e \in Conns, n \in Messages : Holds(e, n)' => Holds(e, n) /\ e # c
      BY <1>18, GotoMoves DEF ReplyDel, Done, Holds
    <2>3. \A n \in Messages : n # cur[c] => claim'[n] = claim[n]
      BY <1>t, <1>18 DEF ReplyDel
    <2>4. work' = work /\ lapsed' = lapsed
      BY <1>18 DEF ReplyDel
    <2> QED
      BY <2>1, <2>2, <2>3, <2>4 DEF WorkInv, WorkOf
  <1> QED
    BY <1>2, <1>3, <1>4, <1>5, <1>6, <1>7, <1>8, <1>9, <1>10, <1>11, <1>12, <1>13, <1>14, <1>15, <1>16,
       <1>17, <1>18 DEF Next, ConnStep, RedisStep

(* Two daemons never work on one message, until its claim lapses: whatever  *)
(* the interleaving of claims, progress, replies, disconnects and crashes.  *)
THEOREM WorkExclusive == Spec => []ExclusiveWork
<1>1. Init => WorkInv
  BY WiringAssumption DEF Init, WorkInv, WorkOf, Holds
<1>2. IndType /\ WorkInv => ExclusiveWork
  BY DEF WorkInv, WorkOf, ExclusiveWork, IndType, TypeOK
<1> QED
  BY <1>1, <1>2, TypeInductive, WorkStep, PTL DEF Spec

(* A step that makes no claim and no copy of one.                           *)
LEMMA TaskFrame ==
    ASSUME TaskInv,
           \A m \in Messages : claim'[m] = claim[m] \/ claim'[m] = None,
           \A c \in Conns : pc'[c] \in Carrying =>
               pc'[c] = pc[c] /\ cur'[c] = cur[c] /\ copy'[c] = copy[c]
    PROVE  TaskInv'
  BY DEF TaskInv, Carrying

LEMMA TaskGoto ==
    ASSUME IndType, TaskInv, \A m \in Messages : claim'[m] = claim[m] \/ claim'[m] = None,
           NEW c \in Conns, NEW label, NEW m, NEW meta, Goto(c, label, m, meta),
           label \notin Carrying
    PROVE  TaskInv'
  BY GotoMoves, TaskFrame

LEMMA TaskStep == IndType /\ TaskInv /\ [Next]_vars => TaskInv'
  <1> SUFFICES ASSUME IndType, TaskInv, [Next]_vars
               PROVE  TaskInv'
    OBVIOUS
  <1> USE DEF hubVars, dispatchVars, redisVars, handlerVars, daemonVars, history
  <1>t. /\ pc \in [Conns -> PCs] /\ cur \in [Conns -> Messages \cup {None}]
        /\ claim \in [Messages -> Claim \cup {None}] /\ work \in [Daemons -> SUBSET Messages]
        /\ \A c \in Conns : pc[c] \in Carrying => copy[c] \in Claim
        /\ \A c \in Conns : pc[c] \in Handling => cur[c] \in Messages
    BY DEF IndType, TypeOK, HandlerTypeOK
  <1>1. ASSUME UNCHANGED <<pc, cur, copy, claim>> PROVE TaskInv'
    BY <1>1, TaskFrame
  <1>2. CASE DispatchStep \/ UNCHANGED vars
    BY <1>1, <1>2 DEF DispatchStep, DispatchSticky, DispatchBroadcast, DispatchNobody, DispatchSend, vars
  <1>3. ASSUME NEW m \in Messages, PendingMetaExpires(m) \/ ClaimAges(m) PROVE TaskInv'
    BY <1>1, <1>3 DEF PendingMetaExpires, ClaimAges
  <1>4. ASSUME NEW m \in Messages, ClaimExpires(m) PROVE TaskInv'
    BY <1>t, <1>4, TaskFrame DEF ClaimExpires
  <1>5. CASE Crash
    <2>1. \A c \in Conns : pc'[c] \notin Carrying
      BY <1>t, <1>5 DEF Crash, Carrying
    <2> QED
      BY <1>5, <2>1, TaskFrame DEF Crash
  <1>6. ASSUME NEW c \in Conns, Register(c) \/ ReleaseEnd(c) \/ ClaimDenied(c) \/ ProgressFails(c)
                                \/ ReplyFails(c) \/ SetSticky(c) \/ ClaimAck(c)
        PROVE  TaskInv'
    BY <1>6, TaskGoto DEF Register, ReleaseEnd, ClaimDenied, ProgressFails, ReplyFails, SetSticky,
                          ClaimAck, Done, Carrying
  <1>7. ASSUME NEW c \in Conns, NEW m \in Messages, ProgressExtend(c, m) PROVE TaskInv'
    BY <1>7, TaskGoto DEF ProgressExtend, Carrying
  <1>8. ASSUME NEW c \in Conns, NEW m \in Messages, Heartbeat(c, m) PROVE TaskInv'
    BY <1>1, <1>8 DEF Heartbeat
  <1>9. ASSUME NEW c \in Conns, Unregister(c) PROVE TaskInv'
    BY <1>t, <1>9, TaskFrame DEF Unregister, Carrying
  <1>10. ASSUME NEW c \in Conns, NEW m \in Messages, ReleaseGet(c, m) PROVE TaskInv'
    BY <1>t, <1>10, TaskFrame DEF ReleaseGet, Carrying
  <1>11. ASSUME NEW c \in Conns, ReleaseDel(c) \/ ReplyDel(c) PROVE TaskInv'
    <2>1. \A n \in Messages : claim'[n] = claim[n] \/ claim'[n] = None
      BY <1>t, <1>11 DEF ReleaseDel, ReplyDel
    <2> QED
      BY <1>11, <2>1, TaskGoto DEF ReleaseDel, ReplyDel, Done, Carrying
  <1>12. ASSUME NEW c \in Conns, pc[c] \in {"claim", "set"},
                claim' = claim \/ claim' = [claim EXCEPT ![cur[c]] = copy[c]],
                NEW label, NEW m, Goto(c, label, m, None), label \notin Carrying
         PROVE  TaskInv'
    <2>1. \A n \in Messages : claim'[n] = claim[n] \/ (n = cur[c] /\ claim'[n] = copy[c])
      BY <1>t, <1>12
    <2>2. /\ \A e \in Conns : pc'[e] \in Carrying =>
                 pc'[e] = pc[e] /\ cur'[e] = cur[e] /\ copy'[e] = copy[e]
      BY <1>12, GotoMoves
    <2>3. copy[c].workflow = "task" => copy[c].routed /\ cur[c] \in Scheduled
      BY <1>12 DEF TaskInv
    <2> QED
      BY <2>1, <2>2, <2>3 DEF TaskInv, Carrying
  <1>13. ASSUME NEW c \in Conns, ClaimGranted(c) \/ ClaimFails(c) \/ UpdateSet(c) PROVE TaskInv'
    BY <1>12, <1>13 DEF ClaimGranted, ClaimFails, UpdateSet, Done, Carrying
  <1>14. ASSUME NEW c \in Conns, NEW m \in Messages, ClaimMerge(c, m) PROVE TaskInv'
    <2> DEFINE meta == [conn |-> c, routed |-> m \in pendingMeta,
                        workflow |-> IF m \in pendingMeta \cap Scheduled THEN "task" ELSE "none"]
    <2>1. meta.workflow = "task" => meta.routed /\ m \in Scheduled
      OBVIOUS
    <2>2. Goto(c, "claim", m, meta) /\ claim' = claim
      BY <1>14 DEF ClaimMerge
    <2> HIDE DEF meta
    <2> QED
      BY <2>1, <2>2, GotoMoves DEF TaskInv
  <1>15. ASSUME NEW c \in Conns, ProgressGet(c) PROVE TaskInv'
    <2>1. CASE claim[cur[c]] # None /\ claim[cur[c]].workflow = "none"
      <3> DEFINE meta == [claim[cur[c]] EXCEPT !.workflow = "stream"]
      <3>1. cur[c] \in Messages
        BY <1>t, <1>15 DEF ProgressGet, Handling
      <3>2. meta.workflow = "stream"
        BY <1>t, <2>1, <3>1 DEF Claim
      <3>3. Goto(c, "ttl", cur[c], meta) /\ claim' = claim
        BY <1>15, <2>1 DEF ProgressGet
      <3> HIDE DEF meta
      <3> QED
        BY <3>2, <3>3, GotoMoves DEF TaskInv
    <2>2. CASE ~(claim[cur[c]] # None /\ claim[cur[c]].workflow = "none")
      BY <1>15, <2>2, TaskGoto DEF ProgressGet, Done, Carrying
    <2> QED
      BY <2>1, <2>2
  <1>16. ASSUME NEW c \in Conns, UpdateTTL(c) PROVE TaskInv'
    <2>1. CASE Goto(c, "set", cur[c], copy[c])
      BY <1>16, <2>1, GotoMoves DEF UpdateTTL, TaskInv
    <2>2. CASE Done(c)
      BY <1>16, <2>2, TaskGoto DEF UpdateTTL, Done, Carrying
    <2> QED
      BY <1>16, <2>1, <2>2 DEF UpdateTTL
  <1>17. ASSUME NEW c \in Conns, NEW m \in Messages, ReplyGet(c, m) PROVE TaskInv'
    <2>1. CASE Goto(c, "del", m, claim[m]) /\ claim[m] # None
      BY <1>17, <2>1, GotoMoves DEF ReplyGet, TaskInv
    <2>2. CASE UNCHANGED handlerVars
      BY <1>1, <1>17, <2>2 DEF ReplyGet
    <2> QED
      BY <1>17, <2>1, <2>2 DEF ReplyGet
  <1> QED
    BY <1>2, <1>3, <1>4, <1>5, <1>6, <1>7, <1>8, <1>9, <1>10, <1>11, <1>13, <1>14, <1>15, <1>16, <1>17
       DEF Next, ConnStep, RedisStep

(* A step that signals nobody moves the metadata on, from the pending entry *)
(* to a handler, a claim and a reply, or loses it.                          *)
Passes ==
    /\ signals' = signals /\ lapsed \subseteq lapsed' /\ dispatched \subseteq dispatched'
    /\ pendingMeta' \subseteq pendingMeta \cup (Messages \ dispatched)
    /\ \A c \in Conns, m \in Messages :
          /\ Carries(c, m)' => Carries(c, m) \/ m \in pendingMeta
          /\ Returns(c, m)' => Returns(c, m) \/ (claim[m] # None /\ claim[m].workflow = "task")
    /\ \A m \in Scheduled :
          ClaimCarries(m)' => ClaimCarries(m) \/ \E c \in Conns : Carries(c, m)

LEMMA SignalFrame ==
    ASSUME MetaInv, TaskInv, SignalInv, Passes
    PROVE  SignalInv'
  <1>1. SUFFICES ASSUME NEW m \in Messages \ lapsed
                 PROVE  SignalOf(m)'
    BY DEF SignalInv, Passes
  <1>2. SignalOf(m)
    BY DEF SignalInv
  <1>3. claim[m] # None /\ claim[m].workflow = "task" =>
            /\ ClaimCarries(m) /\ m \in Scheduled /\ m \in dispatched \ pendingMeta
            /\ \A c \in Conns : ~Carries(c, m)
    BY DEF TaskInv, MetaInv, MetaOf, ClaimCarries
  <1>4. CASE ~(signals[m] > 0 \/ \E c \in Conns : Returns(c, m)')
    BY <1>2, <1>4 DEF Passes, SignalOf
  <1>5. CASE signals[m] > 0 \/ \E c \in Conns : Returns(c, m)'
    <2>1. /\ m \in Scheduled /\ m \in dispatched \ pendingMeta
          /\ \A c \in Conns : ~Carries(c, m)
      BY <1>2, <1>3, <1>5 DEF Passes, SignalOf
    <2>2. m \in dispatched' \ pendingMeta' /\ \A c \in Conns : ~Carries(c, m)'
      BY <2>1 DEF Passes
    <2>3. ASSUME signals[m] > 0
          PROVE  ~ClaimCarries(m)' /\ \A c \in Conns : ~Returns(c, m)'
      <3>1. ~ClaimCarries(m) /\ \A c \in Conns : ~Returns(c, m)
        BY <1>2, <2>3 DEF SignalOf
      <3>2. ~ClaimCarries(m)'
        BY <2>1, <3>1 DEF Passes
      <3>3. \A c \in Conns : ~Returns(c, m)'
        BY <1>3, <3>1 DEF Passes
      <3> QED
        BY <3>2, <3>3
    <2> QED
      BY <1>2, <2>1, <2>2, <2>3 DEF Passes, SignalOf
  <1> QED
    BY <1>4, <1>5

(* The same of a goroutine that goes where it carries nothing, and of a step *)
(* of nobody.                                                               *)
LEMMA SignalGoto ==
    ASSUME IndType, MetaInv, TaskInv, SignalInv,
           UNCHANGED <<signals, dispatched, pendingMeta>>, lapsed \subseteq lapsed',
           \A m \in Scheduled : ClaimCarries(m)' => ClaimCarries(m) \/ \E c \in Conns : Carries(c, m),
           NEW c \in Conns, NEW label, NEW m, NEW meta, Goto(c, label, m, meta),
           label \notin {"claim", "del"}
    PROVE  SignalInv'
  BY GotoMoves, SignalFrame DEF Passes, Carries, Returns

LEMMA SignalApart ==
    ASSUME MetaInv, TaskInv, SignalInv, UNCHANGED <<pc, cur, copy, signals>>,
           dispatched \subseteq dispatched', lapsed \subseteq lapsed',
           pendingMeta' \subseteq pendingMeta \cup (Messages \ dispatched),
           \A m \in Scheduled : claim'[m] = claim[m] \/ claim'[m] = None
    PROVE  SignalInv'
  BY SignalFrame DEF Passes, Carries, Returns, ClaimCarries

LEMMA SignalStep == IndType /\ MetaInv /\ TaskInv /\ WorkInv /\ SignalInv /\ [Next]_vars => SignalInv'
  <1> SUFFICES ASSUME IndType, MetaInv, TaskInv, WorkInv, SignalInv, [Next]_vars
               PROVE  SignalInv'
    OBVIOUS
  <1> USE DEF hubVars, dispatchVars, redisVars, handlerVars, daemonVars, history
  <1>t. /\ pc \in [Conns -> PCs] /\ cur \in [Conns -> Messages \cup {None}]
        /\ claim \in [Messages -> Claim \cup {None}] /\ work \in [Daemons -> SUBSET Messages]
        /\ \A c \in Conns : pc[c] \in Carrying => copy[c] \in Claim
        /\ \A c \in Conns : pc[c] \in Handling => cur[c] \in Messages
        /\ signals \in [Messages -> Nat] /\ Scheduled \subseteq Messages
        /\ pendingMeta \subseteq Messages
    BY WiringAssumption DEF IndType, TypeOK, HandlerTypeOK
  <1>2. CASE DispatchStep \/ UNCHANGED vars
    <2>1. ASSUME NEW m \in Messages, DispatchSticky(m) \/ DispatchBroadcast(m) \/ DispatchNobody(m)
          PROVE  SignalInv'
      BY <2>1, SignalApart DEF DispatchSticky, DispatchBroadcast, DispatchNobody, DispatchStart
    <2>2. ASSUME NEW c \in Conns, DispatchSend(c) PROVE SignalInv'
      BY <2>2, SignalApart DEF DispatchSend
    <2>3. CASE UNCHANGED vars
      BY <2>3, SignalApart DEF vars
    <2> QED
      BY <1>2, <2>1, <2>2, <2>3 DEF DispatchStep
  <1>3. ASSUME NEW m \in Messages, PendingMetaExpires(m) \/ ClaimAges(m) PROVE SignalInv'
    BY <1>3, SignalApart DEF PendingMetaExpires, ClaimAges
  <1>4. ASSUME NEW m \in Messages, ClaimExpires(m) PROVE SignalInv'
    <2>1. \A n \in Scheduled : claim'[n] = claim[n] \/ claim'[n] = None
      BY <1>t, <1>4 DEF ClaimExpires
    <2> QED
      BY <1>4, <2>1, SignalApart DEF ClaimExpires
  <1>5. CASE Crash
    <2>1. \A c \in Conns : pc'[c] \notin {"claim", "del"}
      BY <1>t, <1>5 DEF Crash
    <2> QED
      BY <1>5, <2>1, SignalFrame DEF Crash, Passes, Carries, Returns, ClaimCarries
  <1>6. ASSUME NEW c \in Conns, Register(c) \/ ReleaseEnd(c) \/ ClaimDenied(c) \/ ProgressFails(c)
                                \/ ReplyFails(c) \/ SetSticky(c) \/ ClaimAck(c) \/ ProgressGet(c)
                                \/ UpdateTTL(c)
        PROVE  SignalInv'
    <2>1. UNCHANGED <<signals, dispatched, pendingMeta, lapsed, claim>>
      BY <1>6 DEF Register, ReleaseEnd, ClaimDenied, ProgressFails, ReplyFails, SetSticky, ClaimAck,
                  ProgressGet, UpdateTTL
    <2> QED
      BY <1>6, <2>1, SignalGoto DEF Register, ReleaseEnd, ClaimDenied, ProgressFails, ReplyFails,
            SetSticky, ClaimAck, ProgressGet, UpdateTTL, Done, ClaimCarries
  <1>7. ASSUME NEW c \in Conns, NEW m \in Messages, ProgressExtend(c, m) PROVE SignalInv'
    BY <1>7, SignalGoto DEF ProgressExtend, ClaimCarries
  <1>8. ASSUME NEW c \in Conns, NEW m \in Messages, Heartbeat(c, m) PROVE SignalInv'
    BY <1>8, SignalApart DEF Heartbeat
  <1>9. ASSUME NEW c \in Conns, Unregister(c) PROVE SignalInv'
    <2>1. \A e \in Conns, n \in Messages : (Carries(e, n)' => Carries(e, n)) /\ (Returns(e, n)' => Returns(e, n))
      BY <1>t, <1>9 DEF Unregister, Carries, Returns
    <2> QED
      BY <1>9, <2>1, SignalFrame DEF Unregister, Passes, ClaimCarries
  <1>10. ASSUME NEW c \in Conns, NEW m \in Messages, ReleaseGet(c, m) PROVE SignalInv'
    <2>1. \A e \in Conns, n \in Messages : (Carries(e, n)' => Carries(e, n)) /\ (Returns(e, n)' => Returns(e, n))
      BY <1>t, <1>10 DEF ReleaseGet, Carries, Returns
    <2> QED
      BY <1>10, <2>1, SignalFrame DEF ReleaseGet, Passes, ClaimCarries
  <1>11. ASSUME NEW c \in Conns, ReleaseDel(c) PROVE SignalInv'
    <2>1. \A n \in Scheduled : ClaimCarries(n)' => ClaimCarries(n)
      BY <1>t, <1>11 DEF ReleaseDel, ClaimCarries
    <2> QED
      BY <1>11, <2>1, SignalGoto DEF ReleaseDel
  <1>12. ASSUME NEW c \in Conns, ClaimGranted(c) \/ ClaimFails(c) PROVE SignalInv'
    <2>1. \A n \in Messages : claim'[n] = claim[n] \/ (n = cur[c] /\ claim'[n] = copy[c] /\ pc[c] = "claim")
      BY <1>t, <1>12 DEF ClaimGranted, ClaimFails
    <2>2. \A n \in Scheduled : ClaimCarries(n)' => ClaimCarries(n) \/ \E e \in Conns : Carries(e, n)
      BY <1>t, <2>1 DEF ClaimCarries, Carries
    <2>3. UNCHANGED <<signals, dispatched, pendingMeta, lapsed>>
      BY <1>12 DEF ClaimGranted, ClaimFails
    <2> QED
      BY <1>12, <2>2, <2>3, SignalGoto DEF ClaimGranted, ClaimFails, Done
  <1>13. ASSUME NEW c \in Conns, UpdateSet(c) PROVE SignalInv'
    <2>1. \A n \in Messages : claim'[n] = claim[n] \/ (n = cur[c] /\ claim'[n] = copy[c])
      BY <1>t, <1>13 DEF UpdateSet
    <2>2. cur[c] \in Scheduled => ~copy[c].routed
      BY <1>13 DEF UpdateSet, MetaInv, MetaOf, Updates
    <2>3. \A n \in Scheduled : ClaimCarries(n)' => ClaimCarries(n)
      BY <1>t, <2>1, <2>2 DEF ClaimCarries
    <2> QED
      BY <1>13, <2>3, SignalGoto DEF UpdateSet, Done
  <1>14. ASSUME NEW c \in Conns, NEW m \in Messages, ClaimMerge(c, m) PROVE SignalInv'
    <2> DEFINE meta == [conn |-> c, routed |-> m \in pendingMeta,
                        workflow |-> IF m \in pendingMeta \cap Scheduled THEN "task" ELSE "none"]
    <2>1. meta.routed => m \in pendingMeta
      OBVIOUS
    <2>2. Goto(c, "claim", m, meta) /\ UNCHANGED <<claim, dispatched, signals, lapsed>>
          /\ pendingMeta' \subseteq pendingMeta
      BY <1>14 DEF ClaimMerge, ConsumePending
    <2> HIDE DEF meta
    <2>3. \A e \in Conns, n \in Messages :
              /\ Carries(e, n)' => Carries(e, n) \/ n \in pendingMeta
              /\ Returns(e, n)' => Returns(e, n)
      BY <2>1, <2>2, GotoMoves DEF Carries, Returns
    <2> QED
      BY <2>2, <2>3, SignalFrame DEF Passes, ClaimCarries
  <1>15. ASSUME NEW c \in Conns, NEW m \in Messages, ReplyGet(c, m) PROVE SignalInv'
    <2>1. UNCHANGED <<claim, dispatched, signals, lapsed, pendingMeta>>
      BY <1>15 DEF ReplyGet
    <2>2. \A e \in Conns, n \in Messages :
              /\ Carries(e, n)' => Carries(e, n)
              /\ Returns(e, n)' => Returns(e, n) \/ (claim[n] # None /\ claim[n].workflow = "task")
      BY <1>15, GotoMoves DEF ReplyGet, Carries, Returns
    <2> QED
      BY <2>1, <2>2, SignalFrame DEF Passes, ClaimCarries
  <1>16. ASSUME NEW c \in Conns, ReplyDel(c) PROVE SignalInv'
    <2>1. cur[c] \in Messages /\ pc[c] = "del" /\ UNCHANGED <<dispatched, lapsed, pendingMeta>>
      BY <1>t, <1>16 DEF ReplyDel, Handling
    <2>2. \A e \in Conns, n \in Messages :
              /\ Carries(e, n)' => Carries(e, n)
              /\ Returns(e, n)' => Returns(e, n) /\ e # c
      BY <1>16, GotoMoves DEF ReplyDel, Done, Carries, Returns
    <2>3. \A n \in Messages : claim'[n] = IF n = cur[c] THEN None ELSE claim[n]
      BY <1>t, <1>16, <2>1 DEF ReplyDel
    <2>4. CASE copy[c].workflow # "task"
      BY <1>16, <2>1, <2>2, <2>3, <2>4, SignalFrame DEF ReplyDel, Passes, ClaimCarries
    <2>5. CASE copy[c].workflow = "task"
      <3>1. \A n \in Messages : signals'[n] = IF n = cur[c] THEN signals[n] + 1 ELSE signals[n]
        BY <1>t, <1>16, <2>1, <2>5 DEF ReplyDel
      <3>2. SUFFICES ASSUME NEW n \in Messages \ lapsed
                     PROVE  SignalOf(n)'
        BY <2>1 DEF SignalInv
      <3>3. SignalOf(n) /\ signals[n] \in Nat
        BY <1>t DEF SignalInv
      <3>4. CASE n # cur[c]
        BY <2>1, <2>2, <2>3, <3>1, <3>3, <3>4 DEF SignalOf, ClaimCarries
      <3>5. CASE n = cur[c]
        <4>1. Returns(c, n)
          BY <2>1, <2>5, <3>5 DEF Returns
        <4>2. /\ signals[n] = 0 /\ n \in Scheduled /\ n \in dispatched \ pendingMeta
              /\ \A e \in Conns : ~Carries(e, n)
          BY <3>3, <4>1 DEF SignalOf
        <4>3. \A e \in Conns : ~Returns(e, n)'
          <5>1. \A e \in Conns : Holds(e, n) => e = c
            BY <4>1 DEF WorkInv, WorkOf, Holds, Returns
          <5> QED
            BY <2>2, <5>1 DEF Holds, Returns
        <4>4. ~ClaimCarries(n)' /\ signals'[n] = 1
          BY <2>3, <3>1, <3>5, <4>2 DEF ClaimCarries
        <4> QED
          BY <2>1, <2>2, <4>2, <4>3, <4>4 DEF SignalOf
      <3> QED
        BY <3>4, <3>5
    <2> QED
      BY <2>4, <2>5
  <1> QED
    BY <1>2, <1>3, <1>4, <1>5, <1>6, <1>7, <1>8, <1>9, <1>10, <1>11, <1>12, <1>13, <1>14, <1>15, <1>16
       DEF Next, ConnStep, RedisStep

(* The workflow that dispatched a message gets at most one reply to it,     *)
(* until its claim lapses, although HandleReply reads and deletes the claim *)
(* in two commands.                                                         *)
THEOREM SignalledOnce == Spec => []SignalOnce
<1>1. Init => MetaInv /\ TaskInv /\ WorkInv /\ SignalInv
  BY WiringAssumption DEF Init, MetaInv, MetaOf, Carries, Updates, ClaimCarries, TaskInv, WorkInv,
        WorkOf, Holds, SignalInv, SignalOf, Returns
<1>2. IndType /\ SignalInv => SignalOnce
  <2> SUFFICES ASSUME IndType, SignalInv, NEW m \in Messages, m \notin lapsed
               PROVE  ~(signals[m] > 1)
    BY DEF SignalOnce
  <2>1. signals[m] \in Nat
    BY DEF IndType, TypeOK
  <2> QED
    BY <2>1 DEF SignalInv, SignalOf
<1>3. /\ IndType /\ MetaInv /\ [Next]_vars => MetaInv'
      /\ IndType /\ TaskInv /\ [Next]_vars => TaskInv'
      /\ IndType /\ WorkInv /\ [Next]_vars => WorkInv'
  BY MetaStep, TaskStep, WorkStep
<1> QED
  BY <1>1, <1>2, <1>3, TypeInductive, SignalStep, PTL DEF Spec

-----------------------------------------------------------------------------
(* Claims of closed connections.                                            *)

(* A claim, and a copy of one on its way back to Redis, names a connection  *)
(* of the user the message was dispatched to.                               *)
RouteInv ==
    /\ \A c \in Conns : pc[c] = "claim" => copy[c].conn = c
    /\ \A c \in Conns : pc[c] \in {"get", "ttl", "set"} => OwnerOf[cur[c]] = UserOfConn(c)
    /\ \A c \in Conns : pc[c] \in {"ttl", "set"} => OwnerOf[cur[c]] = UserOfConn(copy[c].conn)
    /\ \A m \in Messages : claim[m] # None => OwnerOf[m] = UserOfConn(claim[m].conn)

(* A step that makes no claim and no copy of one.                           *)
LEMMA RouteFrame ==
    ASSUME RouteInv,
           \A m \in Messages : claim'[m] = claim[m] \/ claim'[m] = None,
           \A c \in Conns : pc'[c] \in {"claim", "get", "ttl", "set"} =>
               pc'[c] = pc[c] /\ cur'[c] = cur[c] /\ copy'[c] = copy[c]
    PROVE  RouteInv'
  BY DEF RouteInv, UserOfConn

LEMMA RouteGoto ==
    ASSUME IndType, RouteInv, \A m \in Messages : claim'[m] = claim[m] \/ claim'[m] = None,
           NEW c \in Conns, NEW label, NEW m, NEW meta, Goto(c, label, m, meta),
           label \notin {"claim", "get", "ttl", "set"}
    PROVE  RouteInv'
  BY GotoMoves, RouteFrame

LEMMA RouteStep == IndType /\ OwnerInv /\ RouteInv /\ [Next]_vars => RouteInv'
  <1> SUFFICES ASSUME IndType, OwnerInv, RouteInv, [Next]_vars
               PROVE  RouteInv'
    OBVIOUS
  <1> USE DEF hubVars, dispatchVars, redisVars, handlerVars, daemonVars, history
  <1>t. /\ pc \in [Conns -> PCs] /\ cur \in [Conns -> Messages \cup {None}]
        /\ claim \in [Messages -> Claim \cup {None}] /\ work \in [Daemons -> SUBSET Messages]
        /\ \A c \in Conns : pc[c] \in Carrying => copy[c] \in Claim
        /\ \A c \in Conns : pc[c] \in Handling => cur[c] \in Messages
    BY DEF IndType, TypeOK, HandlerTypeOK
  <1>1. ASSUME UNCHANGED <<pc, cur, copy, claim>> PROVE RouteInv'
    BY <1>1, RouteFrame
  <1>2. CASE DispatchStep \/ UNCHANGED vars
    BY <1>1, <1>2 DEF DispatchStep, DispatchSticky, DispatchBroadcast, DispatchNobody, DispatchSend, vars
  <1>3. ASSUME NEW m \in Messages, PendingMetaExpires(m) \/ ClaimAges(m) PROVE RouteInv'
    BY <1>1, <1>3 DEF PendingMetaExpires, ClaimAges
  <1>4. ASSUME NEW m \in Messages, ClaimExpires(m) PROVE RouteInv'
    BY <1>t, <1>4, RouteFrame DEF ClaimExpires
  <1>5. CASE Crash
    <2>1. \A c \in Conns : pc'[c] \notin {"claim", "get", "ttl", "set"}
      BY <1>t, <1>5 DEF Crash
    <2> QED
      BY <1>5, <2>1, RouteFrame DEF Crash
  <1>6. ASSUME NEW c \in Conns, Register(c) \/ ReleaseEnd(c) \/ ClaimDenied(c) \/ ProgressFails(c)
                                \/ ReplyFails(c) \/ SetSticky(c) \/ ClaimAck(c)
        PROVE  RouteInv'
    BY <1>6, RouteGoto DEF Register, ReleaseEnd, ClaimDenied, ProgressFails, ReplyFails, SetSticky,
                           ClaimAck, Done
  <1>7. ASSUME NEW c \in Conns, NEW m \in Messages, ProgressExtend(c, m) PROVE RouteInv'
    <2>1. OwnerOf[m] = UserOfConn(c)
      BY <1>7, WiringAssumption DEF ProgressExtend, OwnerInv, DeliveredToOwner, UserOfConn
    <2>2. Goto(c, "get", m, None) /\ claim' = claim
      BY <1>7 DEF ProgressExtend
    <2> QED
      BY <2>1, <2>2, GotoMoves DEF RouteInv, UserOfConn
  <1>8. ASSUME NEW c \in Conns, NEW m \in Messages, Heartbeat(c, m) PROVE RouteInv'
    BY <1>1, <1>8 DEF Heartbeat
  <1>9. ASSUME NEW c \in Conns, Unregister(c) PROVE RouteInv'
    BY <1>t, <1>9, RouteFrame DEF Unregister
  <1>10. ASSUME NEW c \in Conns, NEW m \in Messages, ReleaseGet(c, m) PROVE RouteInv'
    BY <1>t, <1>10, RouteFrame DEF ReleaseGet
  <1>11. ASSUME NEW c \in Conns, ReleaseDel(c) \/ ReplyDel(c) PROVE RouteInv'
    <2>1. \A n \in Messages : claim'[n] = claim[n] \/ claim'[n] = None
      BY <1>t, <1>11 DEF ReleaseDel, ReplyDel
    <2> QED
      BY <1>11, <2>1, RouteGoto DEF ReleaseDel, ReplyDel, Done
  <1>12. ASSUME NEW c \in Conns, pc[c] \in {"claim", "set"},
                claim' = claim \/ claim' = [claim EXCEPT ![cur[c]] = copy[c]],
                NEW label, NEW m, Goto(c, label, m, None),
                label \notin {"claim", "get", "ttl", "set"}
         PROVE  RouteInv'
    <2>1. \A n \in Messages : claim'[n] = claim[n] \/ (n = cur[c] /\ claim'[n] = copy[c])
      BY <1>t, <1>12
    <2>2. \A e \in Conns : pc'[e] \in {"claim", "get", "ttl", "set"} =>
              pc'[e] = pc[e] /\ cur'[e] = cur[e] /\ copy'[e] = copy[e]
      BY <1>12, GotoMoves
    <2>3. OwnerOf[cur[c]] = UserOfConn(copy[c].conn)
      BY <1>12 DEF RouteInv, OwnerInv
    <2> QED
      BY <2>1, <2>2, <2>3 DEF RouteInv, UserOfConn
  <1>13. ASSUME NEW c \in Conns, ClaimGranted(c) \/ ClaimFails(c) \/ UpdateSet(c) PROVE RouteInv'
    BY <1>12, <1>13 DEF ClaimGranted, ClaimFails, UpdateSet, Done
  <1>14. ASSUME NEW c \in Conns, NEW m \in Messages, ClaimMerge(c, m) PROVE RouteInv'
    <2> DEFINE meta == [conn |-> c, routed |-> m \in pendingMeta,
                        workflow |-> IF m \in pendingMeta \cap Scheduled THEN "task" ELSE "none"]
    <2>1. meta.conn = c
      OBVIOUS
    <2>2. Goto(c, "claim", m, meta) /\ claim' = claim
      BY <1>14 DEF ClaimMerge
    <2> HIDE DEF meta
    <2> QED
      BY <2>1, <2>2, GotoMoves DEF RouteInv, UserOfConn
  <1>15. ASSUME NEW c \in Conns, ProgressGet(c) PROVE RouteInv'
    <2>1. CASE claim[cur[c]] # None /\ claim[cur[c]].workflow = "none"
      <3> DEFINE meta == [claim[cur[c]] EXCEPT !.workflow = "stream"]
      <3>1. cur[c] \in Messages
        BY <1>t, <1>15 DEF ProgressGet, Handling
      <3>2. meta.conn = claim[cur[c]].conn
        BY <1>t, <2>1, <3>1 DEF Claim
      <3>3. Goto(c, "ttl", cur[c], meta) /\ claim' = claim
        BY <1>15, <2>1 DEF ProgressGet
      <3>4. OwnerOf[cur[c]] = UserOfConn(c) /\ OwnerOf[cur[c]] = UserOfConn(meta.conn)
        BY <1>15, <2>1, <3>1, <3>2 DEF ProgressGet, RouteInv
      <3> HIDE DEF meta
      <3>5. /\ pc'[c] = "ttl" /\ cur'[c] = cur[c] /\ copy'[c] = meta
            /\ \A e \in Conns \ {c} : pc'[e] = pc[e] /\ cur'[e] = cur[e] /\ copy'[e] = copy[e]
        BY <3>3, GotoMoves
      <3>6. \A e \in Conns : pc'[e] = "claim" => copy'[e].conn = e
        BY <3>5 DEF RouteInv
      <3>7. \A e \in Conns : pc'[e] \in {"get", "ttl", "set"} => OwnerOf[cur'[e]] = UserOfConn(e)
        BY <3>4, <3>5 DEF RouteInv
      <3>8. \A e \in Conns :
                pc'[e] \in {"ttl", "set"} => OwnerOf[cur'[e]] = UserOfConn(copy'[e].conn)
        BY <3>4, <3>5 DEF RouteInv
      <3> QED
        BY <3>3, <3>6, <3>7, <3>8 DEF RouteInv, UserOfConn
    <2>2. CASE ~(claim[cur[c]] # None /\ claim[cur[c]].workflow = "none")
      BY <1>15, <2>2, RouteGoto DEF ProgressGet, Done
    <2> QED
      BY <2>1, <2>2
  <1>16. ASSUME NEW c \in Conns, UpdateTTL(c) PROVE RouteInv'
    <2>1. CASE Goto(c, "set", cur[c], copy[c])
      BY <1>16, <2>1, GotoMoves DEF UpdateTTL, RouteInv, UserOfConn
    <2>2. CASE Done(c)
      BY <1>16, <2>2, RouteGoto DEF UpdateTTL, Done
    <2> QED
      BY <1>16, <2>1, <2>2 DEF UpdateTTL
  <1>17. ASSUME NEW c \in Conns, NEW m \in Messages, ReplyGet(c, m) PROVE RouteInv'
    BY <1>1, <1>17, RouteGoto DEF ReplyGet
  <1> QED
    BY <1>2, <1>3, <1>4, <1>5, <1>6, <1>7, <1>8, <1>9, <1>10, <1>11, <1>13, <1>14, <1>15, <1>16, <1>17
       DEF Next, ConnStep, RedisStep

(* What ReleaseAllForConn of c has visited and found not to be c's, or has  *)
(* released.                                                                *)
Visited(c, m) ==
    /\ pc[c] \in {"scan", "release", "gone"}
    /\ m \notin todo[c]
    /\ ~(pc[c] = "release" /\ cur[c] = m)

(* What an UpdateSet of another connection of the user may bring back.      *)
Revived(c, m) == ~Sole(c) /\ claim[m].workflow = "stream"

(* NoClaimOfGone is not inductive: it must hold of a key from the moment    *)
(* the scan has passed it, and the scan must end with no key left.          *)
GoneInv ==
    /\ \A c \in Conns : pc[c] = "gone" => todo[c] = {}
    /\ \A c \in Conns, m \in Messages :
          Visited(c, m) /\ claim[m] # None /\ claim[m].conn = c => Revived(c, m)

(* A step that makes no claim and visits no key.                            *)
LEMMA GoneFrame ==
    ASSUME GoneInv,
           \A m \in Messages : claim'[m] = claim[m] \/ claim'[m] = None,
           \A c \in Conns : pc'[c] = "gone" => todo'[c] = {},
           \A c \in Conns, m \in Messages : Visited(c, m)' => Visited(c, m)
    PROVE  GoneInv'
  BY DEF GoneInv, Revived, Sole, UserOfConn

(* The same of a goroutine that goes where nothing is visited.              *)
LEMMA GoneGoto ==
    ASSUME IndType, GoneInv, \A m \in Messages : claim'[m] = claim[m] \/ claim'[m] = None,
           NEW c \in Conns, NEW label, NEW m, NEW meta, Goto(c, label, m, meta),
           label \notin {"scan", "release", "gone"}
    PROVE  GoneInv'
  <1>1. todo' = todo
    BY DEF Goto
  <1>2. \A e \in Conns, n \in Messages : Visited(e, n)' => Visited(e, n)
    BY <1>1, GotoMoves DEF Visited
  <1>3. \A e \in Conns : pc'[e] = "gone" => todo'[e] = {}
    BY <1>1, GotoMoves DEF GoneInv
  <1> QED
    BY <1>2, <1>3, GoneFrame

LEMMA GoneStep ==
    ASSUME "redis" \notin Faults
    PROVE  IndType /\ TaskInv /\ RouteInv /\ GoneInv /\ [Next]_vars => GoneInv'
  <1> SUFFICES ASSUME IndType, TaskInv, RouteInv, GoneInv, [Next]_vars
               PROVE  GoneInv'
    OBVIOUS
  <1> USE DEF hubVars, dispatchVars, redisVars, handlerVars, daemonVars, history
  <1>t. /\ pc \in [Conns -> PCs] /\ cur \in [Conns -> Messages \cup {None}]
        /\ todo \in [Conns -> SUBSET Messages]
        /\ claim \in [Messages -> Claim \cup {None}] /\ work \in [Daemons -> SUBSET Messages]
        /\ \A c \in Conns : pc[c] \in Carrying => copy[c] \in Claim
        /\ \A c \in Conns : pc[c] \in Handling => cur[c] \in Messages
    BY DEF IndType, TypeOK, HandlerTypeOK
  <1>1. ASSUME UNCHANGED <<pc, cur, todo, claim>> PROVE GoneInv'
    BY <1>1 DEF GoneInv, Visited, Revived, Sole, UserOfConn
  <1>2. CASE DispatchStep \/ UNCHANGED vars
    BY <1>1, <1>2 DEF DispatchStep, DispatchSticky, DispatchBroadcast, DispatchNobody, DispatchSend, vars
  <1>3. ASSUME NEW m \in Messages, PendingMetaExpires(m) \/ ClaimAges(m) PROVE GoneInv'
    BY <1>1, <1>3 DEF PendingMetaExpires, ClaimAges
  <1>4. ASSUME NEW m \in Messages, ClaimExpires(m) PROVE GoneInv'
    <2>1. \A n \in Messages : claim'[n] = claim[n] \/ claim'[n] = None
      BY <1>t, <1>4 DEF ClaimExpires
    <2>2. UNCHANGED <<pc, cur, todo>>
      BY <1>4 DEF ClaimExpires
    <2> QED
      BY <2>1, <2>2, GoneFrame DEF Visited, GoneInv
  <1>5. CASE Crash
    <2>1. \A c \in Conns : pc'[c] \notin {"scan", "release"} /\ todo'[c] = {}
                           /\ (pc'[c] = "gone" => pc[c] = "gone")
      BY <1>t, <1>5 DEF Crash
    <2>2. \A c \in Conns, m \in Messages : Visited(c, m)' => Visited(c, m)
      BY <2>1 DEF Visited, GoneInv
    <2> QED
      BY <1>5, <2>1, <2>2, GoneFrame DEF Crash
  <1>6. ASSUME NEW c \in Conns, Register(c) \/ ClaimDenied(c) \/ ProgressFails(c)
                                \/ ReplyFails(c) \/ SetSticky(c) \/ ClaimAck(c) \/ UpdateTTL(c)
                                \/ ProgressGet(c)
        PROVE  GoneInv'
    BY <1>6, GoneGoto DEF Register, ClaimDenied, ProgressFails, ReplyFails, SetSticky, ClaimAck,
                          UpdateTTL, ProgressGet, Done
  <1>7. ASSUME NEW c \in Conns, NEW m \in Messages, ProgressExtend(c, m) \/ ClaimMerge(c, m)
        PROVE  GoneInv'
    BY <1>7, GoneGoto DEF ProgressExtend, ClaimMerge
  <1>8. ASSUME NEW c \in Conns, NEW m \in Messages, Heartbeat(c, m) PROVE GoneInv'
    BY <1>1, <1>8 DEF Heartbeat
  <1>9. ASSUME NEW c \in Conns, Unregister(c) PROVE GoneInv'
    <2>1. \A e \in Conns : pc'[e] = "gone" => todo'[e] = {}
      BY <1>t, <1>9 DEF Unregister, GoneInv
    <2>2. \A e \in Conns, n \in Messages : Visited(e, n)' => Visited(e, n)
      BY <1>t, <1>9 DEF Unregister, Visited
    <2>3. claim' = claim
      BY <1>9 DEF Unregister
    <2> QED
      BY <2>1, <2>2, <2>3, GoneFrame
  <1>10. ASSUME NEW c \in Conns, NEW m \in Messages, ReleaseGet(c, m) PROVE GoneInv'
    <2>1. claim' = claim /\ pc[c] = "scan" /\ todo' = [todo EXCEPT ![c] = @ \ {m}]
      BY <1>10 DEF ReleaseGet
    <2>2. \A e \in Conns : pc'[e] = "gone" => todo'[e] = {}
      BY <1>t, <1>10, <2>1 DEF ReleaseGet, GoneInv
    <2>3. \A e \in Conns, n \in Messages :
              Visited(e, n)' => Visited(e, n) \/ (e = c /\ n = m)
      BY <1>t, <1>10, <2>1 DEF ReleaseGet, Visited
    <2>4. claim[m] # None /\ claim[m].conn = c => ~Visited(c, m)'
      BY <1>t, <1>10 DEF ReleaseGet, Visited
    <2> QED
      BY <2>1, <2>2, <2>3, <2>4 DEF GoneInv, Revived, Sole, UserOfConn
  <1>11. ASSUME NEW c \in Conns, ReleaseDel(c) PROVE GoneInv'
    <2>1. claim' = [claim EXCEPT ![cur[c]] = None] /\ Goto(c, "scan", None, None) /\ pc[c] = "release"
      BY <1>11 DEF ReleaseDel, Fault
    <2>2. \A n \in Messages : claim'[n] = IF n = cur[c] THEN None ELSE claim[n]
      BY <1>t, <2>1
    <2>3. todo' = todo
      BY <2>1 DEF Goto
    <2>4. \A e \in Conns, n \in Messages :
              Visited(e, n)' => Visited(e, n) \/ (e = c /\ n = cur[c])
      BY <2>1, <2>3, GotoMoves DEF Visited
    <2>5. \A e \in Conns : pc'[e] = "gone" => todo'[e] = {}
      BY <2>1, <2>3, GotoMoves DEF GoneInv
    <2> QED
      BY <2>2, <2>4, <2>5 DEF GoneInv, Revived, Sole, UserOfConn
  <1>12. ASSUME NEW c \in Conns, ReleaseEnd(c) PROVE GoneInv'
    <2>1. Goto(c, "gone", None, None) /\ todo' = todo /\ todo[c] = {} /\ pc[c] = "scan" /\ claim' = claim
      BY <1>12 DEF ReleaseEnd, Goto
    <2>2. \A e \in Conns, n \in Messages : Visited(e, n)' => Visited(e, n)
      BY <2>1, GotoMoves DEF Visited
    <2>3. \A e \in Conns : pc'[e] = "gone" => todo'[e] = {}
      BY <2>1, GotoMoves DEF GoneInv
    <2> QED
      BY <2>1, <2>2, <2>3, GoneFrame
  <1>13. ASSUME NEW c \in Conns, ReplyDel(c) PROVE GoneInv'
    <2>1. \A n \in Messages : claim'[n] = claim[n] \/ claim'[n] = None
      BY <1>t, <1>13 DEF ReplyDel
    <2> QED
      BY <1>13, <2>1, GoneGoto DEF ReplyDel, Done
  <1>14. ASSUME NEW c \in Conns, NEW m \in Messages, ReplyGet(c, m) PROVE GoneInv'
    BY <1>1, <1>14, GoneGoto DEF ReplyGet
  <1>15. ASSUME NEW c \in Conns, pc[c] \in {"claim", "set"},
                claim' = claim \/ claim' = [claim EXCEPT ![cur[c]] = copy[c]],
                NEW label, NEW m, Goto(c, label, m, None),
                label \notin {"scan", "release", "gone"}
         PROVE  GoneInv'
    <2>1. \A n \in Messages : claim'[n] = claim[n] \/ (n = cur[c] /\ claim'[n] = copy[c])
      BY <1>t, <1>15
    <2>2. todo' = todo
      BY <1>15 DEF Goto
    <2>3. \A e \in Conns, n \in Messages : Visited(e, n)' => Visited(e, n) /\ e # c
      BY <1>15, <2>2, GotoMoves DEF Visited
    <2>4. \A e \in Conns : pc'[e] = "gone" => todo'[e] = {}
      BY <1>15, <2>2, GotoMoves DEF GoneInv
    <2>5. ASSUME NEW e \in Conns, e # c, copy[c].conn = e
          PROVE  ~Sole(e) /\ copy[c].workflow = "stream"
      <3>1. pc[c] = "set"
        BY <1>15, <2>5 DEF RouteInv
      <3> QED
        BY <2>5, <3>1 DEF RouteInv, TaskInv, Sole
    <2> QED
      BY <2>1, <2>3, <2>4, <2>5 DEF GoneInv, Revived, Sole, UserOfConn
  <1>16. ASSUME NEW c \in Conns, ClaimGranted(c) \/ ClaimFails(c) \/ UpdateSet(c) PROVE GoneInv'
    BY <1>15, <1>16 DEF ClaimGranted, ClaimFails, UpdateSet, Done
  <1>17. ASSUME NEW c \in Conns, ConnStep(c) PROVE GoneInv'
    BY <1>6, <1>7, <1>8, <1>9, <1>10, <1>11, <1>12, <1>13, <1>14, <1>16, <1>17 DEF ConnStep
  <1> QED
    BY <1>2, <1>3, <1>4, <1>5, <1>17 DEF Next, RedisStep

(* While Redis answers, a daemon that disconnected leaves no claim behind:  *)
(* ReleaseAllForConn gives up all that name its connection, however claims  *)
(* and replies of other connections come between its commands.  Only an     *)
(* UpdateSet by another daemon of the user can bring one back, and that     *)
(* claim leads to no workflow.  With failing commands nothing of the kind   *)
(* can be said: the error of DEL is ignored.                                *)
THEOREM GoneLeavesNoClaim == "redis" \notin Faults => (Spec => []NoClaimOfGone)
<1> SUFFICES ASSUME "redis" \notin Faults
             PROVE  Spec => []NoClaimOfGone
  OBVIOUS
<1>1. Init => OwnerInv /\ TaskInv /\ RouteInv /\ GoneInv
  BY WiringAssumption DEF Init, OwnerInv, DeliveredToOwner, TaskInv, RouteInv, GoneInv, Visited
<1>2. IndType /\ GoneInv => NoClaimOfGone
  BY DEF GoneInv, NoClaimOfGone, Visited, Revived
<1>3. Spec => [](IndType /\ RoutingConsistent)
  BY TypeInductive, RoutingCorrect, PTL
<1>4. IndType /\ TaskInv /\ RouteInv /\ GoneInv /\ [Next]_vars => GoneInv'
  BY GoneStep
<1> QED
  BY <1>1, <1>2, <1>3, <1>4, OwnerStep, TaskStep, RouteStep, PTL DEF Spec
=============================================================================
