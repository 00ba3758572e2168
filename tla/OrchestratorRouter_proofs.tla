--------------------- MODULE OrchestratorRouter_proofs ---------------------
(***************************************************************************)
(* Proofs about OrchestratorRouter, for any number of signals and children.*)
(*                                                                         *)
(* StreamEndLast rests on ChildQuiet: away from the two steps at which the *)
(* router has a child, the child is over, unless the context was cancelled *)
(* and nobody waited for it.  CancelTold rests on what is known when a     *)
(* child ends as cancelled.  ChildFollows rests on Follows, which looks at *)
(* the mail of the child as if it had been taken, and on what the handler  *)
(* has in hand.                                                            *)
(***************************************************************************)
EXTENDS OrchestratorRouter, TLAPS

(* A paused router knows the checkpoint it goes on from.                    *)
PausedAt == pc = "paused" => at \in Checkpoints

(* A handler that has something in hand has a signal.                       *)
HoldsSignal == handler.pc # "idle" => handler.sig \in Signals

KidStates == {"none", "asked", "stillborn", "work", "held", "good", "bad", "cancelled"}

KidType == [n : Nat, pc : KidStates, paused : BOOLEAN, cancelled : BOOLEAN, cut : BOOLEAN]

Types == TypeOK /\ PausedAt /\ HoldsSignal

Busy == Alive \/ kid.pc = "asked"

(* Away from the two steps at which it has a child, the child is over.      *)
ChildQuiet == ~cut /\ pc \notin {"starting", "await"} => ~Busy

StreamInv ==
    /\ ChildQuiet
    /\ closed => pc = "end"
    /\ StreamEndLast

(* A child that was cancelled has said so, and so has what is returned.     *)
Word ==
    Running /\ ~cut =>
        /\ ~kid.cut
        /\ kid.pc = "cancelled" => told
        /\ pc = "finish" /\ ends = "cancelled" => told

CancelInv == (closed => pc = "end") /\ Word /\ CancelTold

(* What the handler holds when it passes a signal on, and who gets it.      *)
Registered == registered => pc = "await" /\ kid.pc # "asked"

HandlerSays == handler.pc # "idle" /\ handler.sig = "pause" => IsPaused

Addressee ==
    handler.pc = "send" =>
        /\ handler.to <= kid.n
        /\ handler.to = kid.n /\ ~cut /\ Running => registered \/ ~Busy

(* Only a registered child has been told anything.                          *)
Untold == ~cut /\ Running /\ Busy => registered \/ (~kid.paused /\ mail = {})

(* A child that is paused, or will be when it has read its mail, belongs to *)
(* a paused task, or to one whose handler is about to tell it to resume.    *)
WillPause == "resume" \notin mail /\ (kid.paused \/ "pause" \in mail)

Resuming ==
    /\ handler.sig = "resume"
    /\ handler.pc = "emit" \/ (handler.pc = "send" /\ handler.to = kid.n)

Follows == ~cut /\ Running /\ Alive /\ WillPause => IsPaused \/ Resuming

FollowInv == Registered /\ HandlerSays /\ Addressee /\ Untold /\ Follows

-----------------------------------------------------------------------------
(* The steps of the router without a child.                                 *)

Planning ==
    \/ Begin \/ Configure \/ Recommend \/ Route \/ MakePlan \/ Reviewed \/ Decompose \/ Plan
    \/ CheckBudget \/ Approve \/ Switch

LEMMA PlanningSteps ==
    ASSUME Planning
    PROVE  /\ UNCHANGED <<registered, streamVars, kidVars, controlVars, chan, handler, userVars>>
           /\ pc \notin {"starting", "await", "finish", "paused", "end"}
           /\ pc' \notin {"starting", "await", "paused"}
           /\ pc' = "end" /\ verdict' = "cancelled" => cut
           /\ pc' # "end" => verdict' = verdict
           /\ pc' = "finish" /\ ends' = "cancelled" => cut
<1> USE DEF Quietly, Elsewhere, Goto, Return, Finish, Delegate, Finds
<1>1. CASE Begin \/ Configure \/ Recommend
  BY <1>1 DEF Begin, Configure, Recommend
<1>2. CASE Route \/ MakePlan \/ Reviewed
  BY <1>2 DEF Route, MakePlan, Reviewed
<1>3. CASE Decompose \/ Plan \/ CheckBudget
  BY <1>3 DEF Decompose, Plan, CheckBudget
<1>4. CASE Approve \/ Switch
  BY <1>4 DEF Approve, Switch
<1> QED
  BY <1>1, <1>2, <1>3, <1>4 DEF Planning

LEMMA PlanningTypes ==
    ASSUME TypeOK, Planning
    PROVE  TypeOK'
<1> USE DEF TypeOK, Quietly, Elsewhere, Goto, Return, Finish, Delegate, Finds, Checkpoints, Kinds,
            streamVars, kidVars, controlVars, userVars
<1>1. CASE Configure
  <2>1. template' \in BOOLEAN /\ fallback' \in BOOLEAN
    BY <1>1, Zenon DEF Configure
  <2> QED
    BY <1>1, <2>1 DEF Configure
<1>2. CASE Begin \/ Recommend
  BY <1>2 DEF Begin, Recommend
<1>3. CASE Route \/ MakePlan \/ Reviewed
  BY <1>3 DEF Route, MakePlan, Reviewed
<1>4. CASE Decompose \/ Plan \/ CheckBudget
  BY <1>4 DEF Decompose, Plan, CheckBudget
<1>5. CASE Approve \/ Switch
  BY <1>5 DEF Approve, Switch
<1> QED
  BY <1>1, <1>2, <1>3, <1>4, <1>5 DEF Planning

LEMMA AfterCheckpoint ==
    ASSUME NEW l \in Checkpoints
    PROVE  After(l) \in {"paths", "plan", "delegate"}
  BY DEF After, Checkpoints

LEMMA NextCases ==
    ASSUME Next
    PROVE  \/ Planning
           \/ StartChild \/ RegisterChildWorkflow \/ CollectChild \/ StreamEnd
           \/ CheckPausePoint \/ Unpause
           \/ (\E s \in Signals : TakeSignal(s)) \/ Emitted \/ PropagateSignal
           \/ \E s \in Signals : KidTake(s)
           \/ KidStart \/ KidCheck \/ KidUnpause
           \/ \E o \in {"good", "bad", "cancelled"} : KidEnd(o)
           \/ KidCut \/ CancelWorkflow
           \/ \E s \in Signals : Send(s)
  BY DEF Next, Router, Handler, KidHandler, KidMain, Planning

-----------------------------------------------------------------------------
(* Types.                                                                   *)

LEMMA RouterTypes ==
    ASSUME Types,
           \/ StartChild \/ RegisterChildWorkflow \/ CollectChild \/ StreamEnd
           \/ CheckPausePoint \/ Unpause
    PROVE  Types'
<1> USE DEF Types, TypeOK, PausedAt, HoldsSignal, Elsewhere, Goto, Return, Finish, Cancelled,
            streamVars, kidVars, controlVars, userVars
<1>1. CASE StartChild
  <2>1. kid \in KidType /\ NoKid \in KidType
    BY DEF KidType, KidStates, NoKid
  <2>2. kid' = kid \/ kid' = [NoKid EXCEPT !.n = kid.n + 1, !.pc = "asked"]
    BY <1>1 DEF StartChild
  <2>3. [NoKid EXCEPT !.n = kid.n + 1] \in KidType
    BY <2>1 DEF KidType
  <2>4. [NoKid EXCEPT !.n = kid.n + 1, !.pc = "asked"] \in KidType
    BY <2>3 DEF KidType, KidStates
  <2>5. kid' \in KidType
    BY <2>1, <2>2, <2>4
  <2> QED
    BY <1>1, <2>5 DEF StartChild, Checkpoints, KidType, KidStates
<1>2. CASE RegisterChildWorkflow
  <2>1. registered' \in BOOLEAN
    BY <1>2, Zenon DEF RegisterChildWorkflow
  <2> QED
    BY <1>2, <2>1 DEF RegisterChildWorkflow, Checkpoints
<1>3. CASE CollectChild
  <2>1. template' \in BOOLEAN
    BY <1>3, Zenon DEF CollectChild
  <2>2. registered' = FALSE
    BY <1>3 DEF CollectChild
  <2>3. /\ pc' \in {"paths", "finish", "end"}
        /\ ends' \in {None, "done", "failed", "cancelled"}
        /\ verdict' \in {None, "done", "failed", "cancelled"}
    BY <1>3 DEF CollectChild, Outcomes, Failure
  <2>4. UNCHANGED <<dest, fallback, at, IsPaused, IsCancelled, chan, handler, asked, cut, sent,
                    closed, told, kid, mail>>
    BY <1>3 DEF CollectChild
  <2>5. PausedAt' /\ HoldsSignal'
    BY <2>3, <2>4
  <2>6. registered' \in BOOLEAN
    BY <2>2, Zenon
  <2>7. UNCHANGED dest /\ UNCHANGED fallback /\ UNCHANGED at /\ UNCHANGED IsPaused
        /\ UNCHANGED IsCancelled /\ UNCHANGED chan /\ UNCHANGED handler /\ UNCHANGED asked
        /\ UNCHANGED cut /\ UNCHANGED sent /\ UNCHANGED closed /\ UNCHANGED told
        /\ UNCHANGED kid /\ UNCHANGED mail
    BY <2>4
  <2>8. TypeOK'
    BY <2>1, <2>3, <2>6, <2>7, SMT
  <2> QED
    BY <2>5, <2>8
<1>4. CASE StreamEnd
  BY <1>4 DEF StreamEnd, Checkpoints
<1>5. CASE CheckPausePoint
  <2>1. After(pc) \in {"paths", "plan", "delegate"}
    BY <1>5, AfterCheckpoint DEF CheckPausePoint
  <2> QED
    BY <1>5, <2>1 DEF CheckPausePoint, Checkpoints
<1>6. CASE Unpause
  <2>1. After(at) \in {"paths", "plan", "delegate"}
    BY <1>6, AfterCheckpoint DEF Unpause
  <2> QED
    BY <1>6, <2>1 DEF Unpause, Checkpoints
<1> QED
  BY <1>1, <1>2, <1>3, <1>4, <1>5, <1>6

LEMMA HandlerTypes ==
    ASSUME Types, (\E s \in Signals : TakeSignal(s)) \/ Emitted \/ PropagateSignal
    PROVE  Types'
<1> USE DEF Types, TypeOK, PausedAt, HoldsSignal, routerVars, streamVars, kidVars, controlVars, userVars
<1>1. ASSUME NEW s \in Signals, TakeSignal(s) PROVE Types'
  <2>1. IsPaused' \in BOOLEAN /\ IsCancelled' \in BOOLEAN
    BY <1>1, Zenon DEF TakeSignal
  <2>2. handler' = handler \/ handler' = [pc |-> "emit", sig |-> s, to |-> 0]
    BY <1>1 DEF TakeSignal
  <2>3. chan' \subseteq Signals
    BY <1>1 DEF TakeSignal
  <2> QED
    BY <1>1, <2>1, <2>2, <2>3 DEF TakeSignal
<1>2. CASE Emitted
  <2>1. handler' = Asleep \/ handler' = [pc |-> "send", sig |-> handler.sig, to |-> kid.n]
    BY <1>2 DEF Emitted
  <2> QED
    BY <1>2, <2>1 DEF Emitted, Asleep
<1>3. CASE PropagateSignal
  <2>1. handler.pc = "send" /\ handler' = Asleep /\ (mail' = mail \cup {handler.sig} \/ mail' = mail)
    BY <1>3 DEF PropagateSignal
  <2> QED
    BY <1>3, <2>1 DEF PropagateSignal, Asleep
<1> QED
  BY <1>1, <1>2, <1>3

LEMMA KidTypes ==
    ASSUME Types,
           \/ (\E s \in Signals : KidTake(s)) \/ KidStart \/ KidCheck \/ KidUnpause
           \/ (\E o \in {"good", "bad", "cancelled"} : KidEnd(o))
           \/ KidCut
    PROVE  Types'
<1> USE DEF Types, TypeOK, PausedAt, HoldsSignal, OnlyKid, ToKid, KidCancelled,
            routerVars, streamVars, kidVars, controlVars, userVars
<1>1. ASSUME NEW s \in Signals, KidTake(s) PROVE Types'
  <2>1. \/ kid' = [kid EXCEPT !.paused = TRUE]
        \/ kid' = [kid EXCEPT !.paused = FALSE]
        \/ kid' = [kid EXCEPT !.cancelled = TRUE]
    BY <1>1 DEF KidTake, Signals
  <2>2. mail' \subseteq Signals
    BY <1>1 DEF KidTake
  <2>3. kid' \in KidType
    BY <2>1 DEF KidType, KidStates
  <2>4. UNCHANGED <<routerVars, controlVars, registered, chan, handler, userVars, closed, told>>
    BY <1>1 DEF KidTake
  <2> QED
    BY <2>2, <2>3, <2>4 DEF KidType, KidStates
<1>2. CASE KidStart
  BY <1>2 DEF KidStart
<1>3. CASE KidCheck \/ KidUnpause
  BY <1>3 DEF KidCheck, KidUnpause
<1>4. ASSUME NEW o \in {"good", "bad", "cancelled"}, KidEnd(o) PROVE Types'
  BY <1>4 DEF KidEnd
<1>5. CASE KidCut
  <2>1. kid' = [kid EXCEPT !.cut = TRUE]
    BY <1>5 DEF KidCut
  <2>2. kid' \in KidType
    BY <2>1 DEF KidType, KidStates
  <2>3. UNCHANGED <<routerVars, controlVars, registered, chan, handler, userVars, closed, mail, told>>
    BY <1>5 DEF KidCut
  <2> QED
    BY <2>2, <2>3 DEF KidType, KidStates
<1> QED
  BY <1>1, <1>2, <1>3, <1>4, <1>5

LEMMA UserTypes ==
    ASSUME Types, CancelWorkflow \/ \E s \in Signals : Send(s)
    PROVE  Types'
<1> USE DEF Types, TypeOK, PausedAt, HoldsSignal, routerVars, streamVars, kidVars, controlVars
<1>1. CASE CancelWorkflow
  BY <1>1 DEF CancelWorkflow
<1>2. ASSUME NEW s \in Signals, Send(s) PROVE Types'
  <2>1. asked' \in BOOLEAN
    BY <1>2, Zenon DEF Send
  <2>2. chan' \subseteq Signals /\ sent' \in Nat
    BY <1>2 DEF Send
  <2> QED
    BY <1>2, <2>1, <2>2 DEF Send
<1> QED
  BY <1>1, <1>2

LEMMA TypesStep ==
    ASSUME Types, [Next]_vars
    PROVE  Types'
<1>1. CASE Planning
  <2>1. PausedAt' /\ HoldsSignal'
    BY <1>1, PlanningSteps DEF Types, PausedAt, HoldsSignal
  <2> QED
    BY <1>1, <2>1, PlanningTypes DEF Types
<1>2. CASE UNCHANGED vars
  BY <1>2 DEF Types, TypeOK, PausedAt, HoldsSignal, vars, routerVars, streamVars, kidVars, controlVars, userVars
<1> QED
  BY <1>1, <1>2, NextCases, RouterTypes, HandlerTypes, KidTypes, UserTypes

LEMMA TypesInit == Init => Types
<1> SUFFICES ASSUME Init PROVE Types
  OBVIOUS
<1>1. handler \in [pc : {"idle", "emit", "send"}, sig : Signals \cup {None}, to : Nat]
  BY DEF Init, Asleep
<1>2. kid \in KidType
  BY DEF Init, NoKid, KidType, KidStates
<1> QED
  BY <1>1, <1>2 DEF Init, Types, TypeOK, PausedAt, HoldsSignal, Asleep, KidType, KidStates

(* Every variable of the task, its handler and its child keeps its type.    *)
THEOREM TypeCorrect == Spec => []TypeOK
<1>1. Types => TypeOK
  BY DEF Types
<1> QED
  BY <1>1, TypesInit, TypesStep, PTL DEF Spec

-----------------------------------------------------------------------------
(* What the other steps leave alone.                                        *)

LEMMA CheckpointSteps ==
    ASSUME Types, CheckPausePoint \/ Unpause
    PROVE  /\ UNCHANGED <<registered, closed, kid, mail, IsPaused, IsCancelled, chan, handler,
                          asked, cut, sent, ends>>
           /\ pc \notin {"starting", "await", "end"}
           /\ pc' \notin {"starting", "await", "finish"}
           /\ told => told'
           /\ verdict' = verdict \/ (pc' = "end" /\ (~cut /\ ~closed => told'))
<1> USE DEF Elsewhere, Goto, Return, Cancelled, streamVars, kidVars, controlVars, userVars
<1>1. CASE CheckPausePoint
  <2>1. After(pc) \in {"paths", "plan", "delegate"}
    BY <1>1, AfterCheckpoint DEF CheckPausePoint
  <2> QED
    BY <1>1, <2>1 DEF CheckPausePoint, Checkpoints
<1>2. CASE Unpause
  <2>1. After(at) \in {"paths", "plan", "delegate"}
    BY <1>2, AfterCheckpoint DEF Unpause, Types, PausedAt
  <2> QED
    BY <1>2, <2>1 DEF Unpause
<1> QED
  BY <1>1, <1>2

HandlerStep == (\E s \in Signals : TakeSignal(s)) \/ Emitted \/ PropagateSignal

LEMMA HandlerSteps ==
    ASSUME HandlerStep
    PROVE  UNCHANGED <<pc, dest, ends, verdict, registered, asked, cut, sent, closed, told, kid>>
<1> USE DEF routerVars, userVars, streamVars, kidVars
<1>1. ASSUME NEW s \in Signals, TakeSignal(s) PROVE UNCHANGED <<routerVars, registered, userVars, streamVars, kid>>
  BY <1>1 DEF TakeSignal
<1>2. CASE Emitted
  BY <1>2 DEF Emitted
<1>3. CASE PropagateSignal
  BY <1>3 DEF PropagateSignal
<1> QED
  BY <1>1, <1>2, <1>3 DEF HandlerStep

KidStep ==
    \/ (\E s \in Signals : KidTake(s)) \/ KidStart \/ KidCheck \/ KidUnpause
    \/ (\E o \in {"good", "bad", "cancelled"} : KidEnd(o))
    \/ KidCut

LEMMA KidSteps ==
    ASSUME Types, KidStep
    PROVE  /\ UNCHANGED <<pc, dest, ends, verdict, IsPaused, IsCancelled, registered, chan,
                          handler, asked, cut, sent, closed>>
           /\ kid'.n = kid.n
           /\ Busy' => Busy
           /\ kid'.cut # kid.cut => cut \/ ~Running
           /\ told => told'
           /\ kid'.pc = "cancelled" =>
                 kid.pc = "cancelled" \/ kid.cut \/ closed \/ told'
<1> USE DEF Types, TypeOK, OnlyKid, ToKid, KidCancelled, Busy, Alive, routerVars, controlVars, userVars
<1>1. ASSUME NEW s \in Signals, KidTake(s)
      PROVE  /\ kid'.n = kid.n /\ kid'.pc = kid.pc /\ kid'.cut = kid.cut
             /\ UNCHANGED <<routerVars, controlVars, registered, chan, handler, userVars, closed, told>>
  <2>1. \/ kid' = [kid EXCEPT !.paused = TRUE]
        \/ kid' = [kid EXCEPT !.paused = FALSE]
        \/ kid' = [kid EXCEPT !.cancelled = TRUE]
    BY <1>1 DEF KidTake, Signals
  <2>2. UNCHANGED <<routerVars, controlVars, registered, chan, handler, userVars, closed, told>>
    BY <1>1 DEF KidTake
  <2> QED
    BY <2>1, <2>2
<1>2. CASE KidStart
  BY <1>2 DEF KidStart
<1>3. CASE KidCheck
  BY <1>3 DEF KidCheck
<1>4. CASE KidUnpause
  BY <1>4 DEF KidUnpause
<1>5. ASSUME NEW o \in {"good", "bad", "cancelled"}, KidEnd(o)
      PROVE  /\ kid' = [kid EXCEPT !.pc = o]
             /\ o = "cancelled" => kid.cut
             /\ kid.pc = "work"
             /\ UNCHANGED <<routerVars, controlVars, registered, chan, handler, userVars, closed, told>>
  BY <1>5 DEF KidEnd
<1>6. CASE KidCut
  BY <1>6 DEF KidCut
<1>7. CASE \E s \in Signals : KidTake(s)
  BY <1>1, <1>7
<1>8. CASE \E o \in {"good", "bad", "cancelled"} : KidEnd(o)
  BY <1>5, <1>8
<1> QED
  BY <1>2, <1>3, <1>4, <1>6, <1>7, <1>8 DEF KidStep

UserStep == CancelWorkflow \/ \E s \in Signals : Send(s)

LEMMA UserSteps ==
    ASSUME UserStep
    PROVE  /\ UNCHANGED <<pc, dest, ends, verdict, IsPaused, IsCancelled, registered, handler,
                          closed, told, kid, mail>>
           /\ cut => cut'
  BY DEF UserStep, CancelWorkflow, Send, routerVars, controlVars, streamVars, kidVars

-----------------------------------------------------------------------------
(* Nothing works on a task when its stream has ended.                       *)

LEMMA StreamStep ==
    ASSUME Types, StreamInv, [Next]_vars
    PROVE  StreamInv'
<1> USE DEF StreamInv, ChildQuiet, StreamEndLast, Busy, Alive
<1>1. CASE Planning
  BY <1>1, PlanningSteps DEF streamVars, kidVars, userVars
<1>2. CASE StartChild
  BY <1>2 DEF StartChild, Goto, Return, Elsewhere, streamVars, userVars
<1>3. CASE RegisterChildWorkflow
  BY <1>3 DEF RegisterChildWorkflow, Goto, Return, Elsewhere, streamVars, kidVars, userVars
<1>4. CASE CollectChild
  BY <1>4 DEF CollectChild, Outcomes, Goto, Return, Finish, Elsewhere, streamVars, kidVars, userVars
<1>5. CASE StreamEnd
  <2>1. pc = "finish" /\ pc' = "end" /\ closed' = (closed \/ ~cut) /\ kid' = kid /\ cut' = cut
    BY <1>5 DEF StreamEnd, Return, Elsewhere, kidVars, userVars
  <2> QED
    BY <2>1
<1>6. CASE CheckPausePoint \/ Unpause
  BY <1>6, CheckpointSteps
<1>7. CASE HandlerStep
  BY <1>7, HandlerSteps
<1>8. CASE KidStep
  BY <1>8, KidSteps
<1>9. CASE UserStep
  BY <1>9, UserSteps
<1>10. CASE UNCHANGED vars
  BY <1>10 DEF vars, routerVars, streamVars, kidVars, userVars
<1> QED
  BY <1>1, <1>2, <1>3, <1>4, <1>5, <1>6, <1>7, <1>8, <1>9, <1>10, NextCases
     DEF HandlerStep, KidStep, UserStep

LEMMA StreamInit == Init => StreamInv
  BY DEF Init, NoKid, StreamInv, ChildQuiet, StreamEndLast, Busy, Alive

(* Nothing works on a task any more when its stream has ended.              *)
THEOREM NothingAfterStreamEnd == Spec => []StreamEndLast
<1>1. StreamInv => StreamEndLast
  BY DEF StreamInv
<1> QED
  BY <1>1, TypesInit, TypesStep, StreamInit, StreamStep, PTL DEF Spec

-----------------------------------------------------------------------------
(* A cancelled task never ends without word.                                *)

LEMMA CancelStep ==
    ASSUME Types, CancelInv, [Next]_vars
    PROVE  CancelInv'
<1> USE DEF CancelInv, Word, CancelTold, Running
<1>1. CASE Planning
  BY <1>1, PlanningSteps DEF streamVars, kidVars, userVars
<1>2. CASE StartChild
  BY <1>2 DEF StartChild, NoKid, Goto, Return, Elsewhere, streamVars, userVars
<1>3. CASE RegisterChildWorkflow
  BY <1>3 DEF RegisterChildWorkflow, Goto, Return, Elsewhere, streamVars, kidVars, userVars
<1>4. CASE CollectChild
  BY <1>4 DEF CollectChild, Outcomes, Failure, Goto, Return, Finish, Elsewhere, streamVars,
              kidVars, userVars
<1>5. CASE StreamEnd
  <2>1. /\ pc = "finish" /\ pc' = "end" /\ verdict' = ends
        /\ closed' = (closed \/ ~cut) /\ told' = told /\ kid' = kid /\ cut' = cut
    BY <1>5 DEF StreamEnd, Return, Elsewhere, kidVars, userVars
  <2> QED
    BY <2>1
<1>6. CASE CheckPausePoint \/ Unpause
  BY <1>6, CheckpointSteps
<1>7. CASE HandlerStep
  BY <1>7, HandlerSteps
<1>8. CASE KidStep
  BY <1>8, KidSteps
<1>9. CASE UserStep
  BY <1>9, UserSteps
<1>10. CASE UNCHANGED vars
  BY <1>10 DEF vars, routerVars, streamVars, kidVars, userVars
<1> QED
  BY <1>1, <1>2, <1>3, <1>4, <1>5, <1>6, <1>7, <1>8, <1>9, <1>10, NextCases
     DEF HandlerStep, KidStep, UserStep

LEMMA CancelInit == Init => CancelInv
  BY RouterAssumption DEF Init, NoKid, CancelInv, Word, CancelTold, Running

(* A task that its signal cancelled leaves a cancellation in the stream, or *)
(* the stream's end.                                                        *)
THEOREM CancellationTold == Spec => []CancelTold
<1>1. CancelInv => CancelTold
  BY DEF CancelInv
<1> QED
  BY <1>1, TypesInit, TypesStep, CancelInit, CancelStep, PTL DEF Spec

-----------------------------------------------------------------------------
(* A child is not left paused by a task that is not.                        *)

(* Steps of the router before and between its children.                     *)
LEMMA FollowAside ==
    ASSUME FollowInv, pc # "await", pc # "end", pc' # "await" \/ kid.pc # "asked",
           UNCHANGED <<kid, mail, IsPaused, handler, registered, cut>>
    PROVE  FollowInv'
  BY DEF FollowInv, Registered, HandlerSays, Addressee, Untold, Follows, WillPause, Resuming,
         Running, Busy, Alive

LEMMA FollowTake ==
    ASSUME Types, FollowInv, NEW s \in Signals, TakeSignal(s)
    PROVE  FollowInv'
<1> USE DEF FollowInv, Registered, HandlerSays, Addressee, Untold, Follows, WillPause, Resuming,
            Running, Busy, Alive
<1>1. UNCHANGED <<pc, registered, cut, kid, mail>> /\ handler.pc = "idle"
  BY DEF TakeSignal, routerVars, userVars, kidVars
<1>2. CASE IsPaused' = IsPaused /\ handler' = handler
  BY <1>1, <1>2
<1>3. CASE ~(IsPaused' = IsPaused /\ handler' = handler)
  <2>1. /\ handler' = [pc |-> "emit", sig |-> s, to |-> 0]
        /\ s = "pause" => IsPaused'
        /\ s = "cancel" => IsPaused' = IsPaused
    BY <1>3 DEF TakeSignal, controlVars
  <2>2. s \in {"pause", "resume", "cancel"}
    BY DEF Signals
  <2> QED
    BY <1>1, <2>1, <2>2
<1> QED
  BY <1>2, <1>3

LEMMA FollowEmitted ==
    ASSUME Types, FollowInv, Emitted
    PROVE  FollowInv'
<1> USE DEF FollowInv, Registered, HandlerSays, Addressee, Untold, Follows, WillPause, Resuming,
            Running, Busy, Alive
<1>1. UNCHANGED <<pc, registered, cut, kid, mail, IsPaused>> /\ handler.pc = "emit"
  BY DEF Emitted, routerVars, controlVars, userVars, kidVars
<1>2. kid.n \in Nat
  BY DEF Types, TypeOK
<1>3. CASE registered
  <2>1. handler' = [handler EXCEPT !.pc = "send", !.to = kid.n]
    BY <1>3 DEF Emitted
  <2>2. handler'.pc = "send" /\ handler'.sig = handler.sig /\ handler'.to = kid.n
    BY <2>1 DEF Types, TypeOK
  <2> QED
    BY <1>1, <1>2, <1>3, <2>2
<1>4. CASE ~registered
  <2>1. handler' = Asleep
    BY <1>4 DEF Emitted
  <2> QED
    BY <1>1, <1>4, <2>1 DEF Asleep
<1> QED
  BY <1>3, <1>4

LEMMA FollowPropagate ==
    ASSUME Types, FollowInv, PropagateSignal
    PROVE  FollowInv'
<1> USE DEF FollowInv, Registered, HandlerSays, Addressee, Untold, Follows, WillPause, Resuming,
            Running, Busy, Alive
<1>1. /\ UNCHANGED <<pc, registered, cut, kid, IsPaused>>
      /\ handler.pc = "send" /\ handler'.pc = "idle"
  BY DEF PropagateSignal, Asleep, routerVars, controlVars, userVars
<1>2. CASE handler.to = kid.n /\ Alive /\ mail' = mail \cup {handler.sig}
  <2>1. handler.sig \in {"pause", "resume", "cancel"}
    BY <1>1 DEF Types, HoldsSignal, Signals
  <2>2. "resume" \notin mail' => "resume" \notin mail /\ handler.sig # "resume"
    BY <1>2
  <2>3. "pause" \in mail' => "pause" \in mail \/ handler.sig = "pause"
    BY <1>2
  <2>4. Registered' /\ HandlerSays' /\ Addressee'
    BY <1>1
  <2>5. Untold'
    BY <1>1, <1>2
  <2>6. Follows'
    BY <1>1, <1>2, <2>1, <2>2, <2>3
  <2> QED
    BY <2>4, <2>5, <2>6
<1>3. CASE ~(handler.to = kid.n /\ Alive) /\ mail' = mail
  BY <1>1, <1>3
<1>4. CASE cut /\ mail' = mail
  BY <1>1, <1>4
<1> QED
  BY <1>2, <1>3, <1>4 DEF PropagateSignal

LEMMA FollowKidTake ==
    ASSUME Types, FollowInv, NEW s \in Signals, KidTake(s)
    PROVE  FollowInv'
<1> USE DEF FollowInv, Registered, HandlerSays, Addressee, Untold, Follows, WillPause, Resuming,
            Running, Busy, Alive
<1>1. /\ UNCHANGED <<pc, registered, cut, IsPaused, handler>>
      /\ s \in mail /\ mail' = mail \ {s} /\ Alive
      /\ s = "resume" => "pause" \notin mail
      /\ s = "cancel" => mail = {"cancel"}
  BY DEF KidTake, OnlyKid, First, routerVars, controlVars, userVars
<1>2. s \in {"pause", "resume", "cancel"}
  BY DEF Signals
<1>3. /\ kid'.n = kid.n /\ kid'.pc = kid.pc
      /\ s = "resume" => ~kid'.paused
      /\ s = "cancel" => kid'.paused = kid.paused
  <2>1. CASE s = "pause"
    <3>1. kid' = [kid EXCEPT !.paused = TRUE]
      BY <2>1 DEF KidTake
    <3> QED
      BY <2>1, <3>1 DEF Types, TypeOK
  <2>2. CASE s = "resume"
    <3>1. kid' = [kid EXCEPT !.paused = FALSE]
      BY <2>2 DEF KidTake
    <3> QED
      BY <2>2, <3>1 DEF Types, TypeOK
  <2>3. CASE s = "cancel"
    <3>1. kid' = [kid EXCEPT !.cancelled = TRUE]
      BY <2>3 DEF KidTake
    <3> QED
      BY <2>3, <3>1 DEF Types, TypeOK
  <2> QED
    BY <1>2, <2>1, <2>2, <2>3
<1>4. Registered' /\ HandlerSays' /\ Addressee' /\ Untold'
  BY <1>1, <1>3
<1>5. WillPause' => WillPause
  BY <1>1, <1>2, <1>3
<1> QED
  BY <1>1, <1>3, <1>4, <1>5

(* What else the child does leaves it told what it was told.                *)
LEMMA FollowKid ==
    ASSUME Types, FollowInv,
           \/ KidStart \/ KidCheck \/ KidUnpause
           \/ (\E o \in {"good", "bad", "cancelled"} : KidEnd(o))
           \/ KidCut
    PROVE  FollowInv'
<1> USE DEF FollowInv, Registered, HandlerSays, Addressee, Untold, Follows, WillPause, Resuming,
            Running, Busy, Alive
<1>1. /\ UNCHANGED <<pc, registered, cut, IsPaused, handler>>
      /\ kid'.n = kid.n /\ (Busy' => Busy)
  BY KidSteps DEF KidStep
<1>2. /\ mail' = mail /\ kid'.paused = kid.paused
      /\ kid'.pc = "asked" => kid.pc = "asked"
      /\ Alive' => Alive \/ kid.pc = "asked"
  BY DEF KidStart, KidCheck, KidUnpause, KidEnd, KidCut, KidCancelled, ToKid, Types, TypeOK
<1> QED
  BY <1>1, <1>2

LEMMA FollowStep ==
    ASSUME Types, FollowInv, [Next]_vars
    PROVE  FollowInv'
<1> USE DEF streamVars, kidVars, controlVars, userVars, Elsewhere
<1>1. CASE Planning
  BY <1>1, FollowAside, PlanningSteps
<1>2. CASE StartChild
  <2> USE DEF FollowInv, Registered, HandlerSays, Addressee, Untold, Follows, WillPause, Resuming,
              Running, Busy, Alive
  <2>1. UNCHANGED <<registered, cut, IsPaused, handler>> /\ pc = "delegate"
    BY <1>2 DEF StartChild
  <2>2. CASE kid' = kid /\ pc' = "end"
    BY <2>1, <2>2
  <2>3. CASE ~cut /\ mail' = {} /\ kid' = [NoKid EXCEPT !.n = kid.n + 1, !.pc = "asked"]
    <3>1. kid'.n = kid.n + 1 /\ kid'.pc = "asked" /\ kid'.paused = FALSE
      BY <2>3 DEF NoKid
    <3>2. kid.n \in Nat /\ handler.to \in Nat
      BY DEF Types, TypeOK
    <3> QED
      BY <2>1, <2>3, <3>1, <3>2
  <2> QED
    BY <1>2, <2>2, <2>3 DEF StartChild, Goto, Return
<1>3. CASE RegisterChildWorkflow
  BY <1>3 DEF RegisterChildWorkflow, Goto, Return, FollowInv, Registered, HandlerSays, Addressee,
              Untold, Follows, WillPause, Resuming, Running, Busy, Alive
<1>4. CASE CollectChild
  <2>1. /\ UNCHANGED <<kid, mail, IsPaused, handler, cut>> /\ ~registered'
        /\ pc = "await" /\ (cut \/ kid.pc \in {"good", "bad", "cancelled"})
    BY <1>4 DEF CollectChild, Outcomes
  <2> QED
    BY <2>1 DEF FollowInv, Registered, HandlerSays, Addressee, Untold, Follows, WillPause,
                Resuming, Running, Busy, Alive
<1>5. CASE StreamEnd
  BY <1>5, FollowAside DEF StreamEnd, Return
<1>6. CASE CheckPausePoint \/ Unpause
  BY <1>6, FollowAside, CheckpointSteps
<1>7. CASE KidStep
  BY <1>7, FollowKid, FollowKidTake DEF KidStep
<1>8. CASE UserStep
  BY <1>8, UserSteps DEF FollowInv, Registered, HandlerSays, Addressee, Untold, Follows,
                         WillPause, Resuming, Running, Busy, Alive
<1>9. CASE UNCHANGED vars
  BY <1>9 DEF vars, routerVars, FollowInv, Registered, HandlerSays, Addressee, Untold, Follows,
              WillPause, Resuming, Running, Busy, Alive
<1> QED
  BY <1>1, <1>2, <1>3, <1>4, <1>5, <1>6, <1>7, <1>8, <1>9, NextCases, FollowTake, FollowEmitted,
     FollowPropagate DEF KidStep, UserStep

LEMMA FollowInit == Init => FollowInv
  BY DEF Init, NoKid, Asleep, FollowInv, Registered, HandlerSays, Addressee, Untold, Follows,
         WillPause, Resuming, Running, Busy, Alive

(* However pauses and resumes follow and overtake each other, or meet the   *)
(* start of a child, no child stays paused under a task that is not.        *)
THEOREM NoChildLeftPaused == Spec => []ChildFollows
<1>1. FollowInv => ChildFollows
  BY DEF FollowInv, Follows, WillPause, Resuming, ChildFollows
<1> QED
  BY <1>1, TypesInit, TypesStep, FollowInit, FollowStep, PTL DEF Spec
=============================================================================
