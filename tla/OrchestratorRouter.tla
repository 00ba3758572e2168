------------------------- MODULE OrchestratorRouter -------------------------
(***************************************************************************)
(* One task as a tree of Temporal workflows:                               *)
(* go/orchestrator/internal/workflows/orchestrator_router.go, which plans  *)
(* a task and passes it on to a child workflow, and the handler of pause,  *)
(* resume and cancel (internal/workflows/control/handler.go), which runs   *)
(* beside the router, and beside each child.                               *)
(*                                                                         *)
(* A workflow's coroutines run one at a time, and change over where they   *)
(* await something: a step here is the code between two awaits.  Signals   *)
(* wait in one channel per name; a channel is a set member here, because a *)
(* second signal of a name finds the state the first has left.  What       *)
(* planning finds out is left open.                                        *)
(*                                                                         *)
(* Events of the stream are taken to arrive, unless the context they are   *)
(* sent with is cancelled.                                                 *)
(***************************************************************************)
EXTENDS Naturals

CONSTANTS
    MaxSignals,    \* bound: signals of the users
    None

ASSUME RouterAssumption == MaxSignals \in Nat /\ None # "cancelled"

(* What the router passes a task on to.  Swarms and single agents have no   *)
(* handler; "bare" is the simple workflow of skip_synthesis.                *)
Kinds == {"template", "bare", "swarm", "research", "strategy", "simple", "dag", "agent"}
Deaf  == {"swarm", "agent"}
Signals == {"pause", "resume", "cancel"}
Checkpoints == {"pre_routing", "post_role", "post_decomposition", "pre_child"}

VARIABLES
    pc,          \* where the router is
    dest,        \* the kind of child it has decided on
    template,    \* templateFound
    fallback,    \* TemplateFallbackEnabled
    at,          \* the checkpoint it is paused at
    ends,        \* what it is about to return
    verdict,     \* the status it was closed with
    IsPaused, IsCancelled,
    registered,  \* childWorkflowIDs: the present child is in it
    chan,        \* signals that wait for the handler
    handler,     \* where the handler is: [pc, sig, to]
    asked,       \* Temporal was asked to cancel the workflow
    cut,         \* its context is cancelled
    closed,      \* STREAM_END is in the stream
    told,        \* WORKFLOW_CANCELLED was in the stream before
    kid,         \* the child: [n, pc, paused, cancelled, cut]
    mail,        \* signals that wait for its handler
    sent         \* bound: signals of the users

routerVars  == <<pc, dest, template, fallback, at, ends, verdict>>
controlVars == <<IsPaused, IsCancelled>>
userVars    == <<asked, cut, sent>>
streamVars  == <<closed, told>>
kidVars     == <<kid, mail>>
vars == <<routerVars, controlVars, registered, chan, handler, userVars, streamVars, kidVars>>

Asleep == [pc |-> "idle", sig |-> None, to |-> 0]
NoKid  == [n |-> 0, pc |-> "none", paused |-> FALSE, cancelled |-> FALSE, cut |-> FALSE]

Init ==
    /\ pc = "start" /\ dest = None /\ template = FALSE /\ fallback = FALSE
    /\ at = None /\ ends = None /\ verdict = None
    /\ IsPaused = FALSE /\ IsCancelled = FALSE
    /\ registered = FALSE /\ chan = {} /\ handler = Asleep
    /\ asked = FALSE /\ cut = FALSE
    /\ closed = FALSE /\ told = FALSE
    /\ kid = NoKid /\ mail = {} /\ sent = 0

(* What an activity finds out is not known when its context is cancelled.   *)
Finds == ~cut

-----------------------------------------------------------------------------
(* OrchestratorWorkflow.                                                    *)

Elsewhere == UNCHANGED <<controlVars, chan, handler, userVars>>

Return(v) ==
    /\ pc' = "end"
    /\ verdict' = v

Goto(l) ==
    /\ pc' = l
    /\ UNCHANGED verdict

(* scheduleStreamEnd comes before the return.                               *)
Finish(v) ==
    /\ pc' = "finish"
    /\ ends' = v
    /\ UNCHANGED verdict

Quietly == UNCHANGED <<registered, streamVars, kidVars>> /\ Elsewhere

Begin ==
    /\ pc = "start"
    /\ Goto("config")
    /\ UNCHANGED <<dest, template, fallback, at, ends>> /\ Quietly

(* Without AI there must be a template.                                     *)
Configure ==
    /\ pc = "config"
    /\ template' \in BOOLEAN
    /\ fallback' \in (IF Finds THEN BOOLEAN ELSE {FALSE})
    /\ \/ Goto("pre_routing")
       \/ ~template' /\ Finds /\ Goto("recommend")
       \/ ~template' /\ Return("done")
    /\ UNCHANGED <<dest, at, ends>> /\ Quietly

Delegate(kind, l) ==
    /\ dest' = kind
    /\ Goto(l)

Recommend ==
    /\ pc = "recommend"
    /\ \/ Finds /\ Delegate("strategy", "pre_child")
       \/ Goto("pre_routing") /\ UNCHANGED dest
    /\ UNCHANGED <<template, fallback, at, ends>> /\ Quietly

(* Early routes, by the context of the task.                                *)
Route ==
    /\ pc = "paths"
    /\ \/ template /\ Delegate("template", "delegate")
       \/ /\ ~template
          /\ \/ Delegate("bare", "delegate")
             \/ Delegate("swarm", "delegate")
             \/ Delegate("research", "review") \/ Delegate("research", "budget")
             \/ \E l \in {"plan", "post_role", "decompose"} : Goto(l) /\ UNCHANGED dest
    /\ UNCHANGED <<template, fallback, at, ends>> /\ Quietly

(* Review of a research plan: a plan that cannot be made fails the task; a  *)
(* review that times out returns without the end of the stream.             *)
MakePlan ==
    /\ pc = "review"
    /\ \/ Finds /\ Goto("reviewing")
       \/ Return(IF cut THEN "cancelled" ELSE "failed")
    /\ UNCHANGED <<dest, template, fallback, at, ends>> /\ Quietly

Reviewed ==
    /\ pc = "reviewing"
    /\ \/ Goto("budget")
       \/ Return("done")
    /\ UNCHANGED <<dest, template, fallback, at, ends>> /\ Quietly

(* A decomposition that fails is replaced by a single subtask.              *)
Decompose ==
    /\ pc = "decompose"
    /\ Goto("post_decomposition")
    /\ UNCHANGED <<dest, template, fallback, at, ends>> /\ Quietly

Plan ==
    /\ pc = "plan"
    /\ Goto("budget")
    /\ UNCHANGED <<dest, template, fallback, at, ends>> /\ Quietly

(* BudgetPreflight: a budget that cannot be checked is taken for granted.   *)
CheckBudget ==
    /\ pc = "budget"
    /\ \/ Finds /\ Finish("done")
       \/ Goto(IF dest = "research" THEN "delegate" ELSE "approve") /\ UNCHANGED ends
    /\ UNCHANGED <<dest, template, fallback, at>> /\ Quietly

Approve ==
    /\ pc = "approve"
    /\ \/ Goto("switch") /\ UNCHANGED ends
       \/ Finish("done")
       \/ Finish(IF cut THEN "cancelled" ELSE "failed")
    /\ UNCHANGED <<dest, template, fallback, at>> /\ Quietly

(* An agent is named, or the strategy, or the plan has one subtask or more. *)
Switch ==
    /\ pc = "switch"
    /\ \/ Delegate("agent", "delegate")
       \/ \E kind \in {"strategy", "simple", "dag"} : Delegate(kind, "pre_child")
    /\ UNCHANGED <<template, fallback, at, ends>> /\ Quietly

(* The child is started after events are emitted, ...                       *)
StartChild ==
    /\ pc = "delegate"
    /\ IF cut
         THEN Return("cancelled") /\ UNCHANGED kid
         ELSE /\ Goto("starting")
              /\ kid' = [NoKid EXCEPT !.n = kid.n + 1, !.pc = "asked"]
    /\ mail' = {}
    /\ UNCHANGED <<dest, template, fallback, at, ends, registered, streamVars>> /\ Elsewhere

(* ... and registered once it has started; a single agent and the bare      *)
(* workflow are not.                                                        *)
RegisterChildWorkflow ==
    /\ pc = "starting"
    /\ \/ /\ kid.pc # "asked"
          /\ kid.pc # "stillborn"
          /\ registered' = (dest \notin {"bare", "agent"})
          /\ Goto("await")
       \/ /\ kid.pc = "stillborn" \/ cut
          /\ Return(IF cut THEN "cancelled" ELSE "failed")
          /\ UNCHANGED registered
    /\ UNCHANGED <<dest, template, fallback, at, ends, streamVars, kidVars>> /\ Elsewhere

(* What comes of the child; nobody waits for it when the context is         *)
(* cancelled.  A template that fails may be replaced by planning; only some *)
(* paths end the stream after a failure.                                    *)
Outcomes ==
    (IF kid.pc \in {"good", "bad", "cancelled"} THEN {kid.pc} ELSE {})
        \cup (IF cut THEN {"cancelled"} ELSE {})

FailsSilently == {"template", "bare", "swarm"}

Failure(o) == IF o = "bad" THEN "failed" ELSE "cancelled"

CollectChild_Early ==
    /\ pc = "await"
    /\ registered' = FALSE
    /\ Finish("done")
    /\ UNCHANGED <<dest, template, fallback, at, streamVars, kidVars>> /\ Elsewhere

CollectChild ==
    /\ pc = "await"
    /\ registered' = FALSE
    /\ \E o \in Outcomes :
          \/ /\ dest = "template" /\ fallback /\ o # "good"
             /\ template' = FALSE
             /\ Goto("paths")
             /\ UNCHANGED ends
          \/ /\ ~(dest = "template" /\ fallback /\ o # "good")
             /\ UNCHANGED template
             /\ IF dest = "agent" \/ (o # "good" /\ dest \in FailsSilently)
                  THEN Return(IF o = "good" THEN "done" ELSE Failure(o)) /\ UNCHANGED ends
                  ELSE Finish(IF o = "good" THEN "done" ELSE Failure(o))
    /\ UNCHANGED <<dest, fallback, at, streamVars, kidVars>> /\ Elsewhere

(* scheduleStreamEnd; a cancellation is emitted after it, when nobody may   *)
(* be listening any more.                                                   *)
StreamEnd ==
    /\ pc = "finish"
    /\ closed' = (closed \/ ~cut)
    /\ Return(ends)
    /\ UNCHANGED <<dest, template, fallback, at, ends, told, registered, kidVars>> /\ Elsewhere

-----------------------------------------------------------------------------
(* CheckPausePoint.                                                         *)

After(l) ==
    CASE l = "pre_routing" -> "paths"
      [] l \in {"post_role", "post_decomposition"} -> "plan"
      [] l = "pre_child" -> "delegate"

Cancelled ==
    /\ Return("cancelled")
    /\ told' = (told \/ (~cut /\ ~closed))

CheckPausePoint ==
    /\ pc \in Checkpoints
    /\ IF IsCancelled THEN Cancelled /\ UNCHANGED at
       ELSE /\ UNCHANGED told
            /\ IF IsPaused THEN Goto("paused") /\ at' = pc
                           ELSE Goto(After(pc)) /\ UNCHANGED at
    /\ UNCHANGED <<dest, template, fallback, ends, registered, closed, kidVars>> /\ Elsewhere

(* A cancelled context ends the pause, too, and the router goes on.         *)
Unpause ==
    /\ pc = "paused"
    /\ ~IsPaused \/ IsCancelled \/ cut
    /\ IF IsCancelled THEN Cancelled ELSE Goto(After(at)) /\ UNCHANGED told
    /\ UNCHANGED <<dest, template, fallback, at, ends, registered, closed, kidVars>> /\ Elsewhere

-----------------------------------------------------------------------------
(* The handler: it takes the signals of the first channel that has some,    *)
(* changes the state, emits an event and passes the signal on.              *)

First_Resume(s, queue) ==
    /\ s \in queue
    /\ s = "pause" => "resume" \notin queue
    /\ s = "cancel" => queue = {"cancel"}

First(s, queue) ==
    /\ s \in queue
    /\ s = "resume" => "pause" \notin queue
    /\ s = "cancel" => queue = {"cancel"}

Running == pc # "end"

TakeSignal(s) ==
    /\ Running
    /\ handler.pc = "idle"
    /\ First(s, chan)
    /\ chan' = chan \ {s}
    /\ IF (s = "pause" /\ IsPaused) \/ (s = "resume" /\ ~IsPaused)
         THEN UNCHANGED <<controlVars, handler>>
         ELSE /\ IsPaused' = (IF s = "cancel" THEN IsPaused ELSE s = "pause")
              /\ IsCancelled' = (IsCancelled \/ s = "cancel")
              /\ handler' = [pc |-> "emit", sig |-> s, to |-> 0]
    /\ UNCHANGED <<routerVars, registered, userVars, streamVars, kidVars>>

(* The list of children is copied when the event has been emitted.          *)
Emitted_Paused ==
    /\ Running
    /\ handler.pc = "emit"
    /\ handler' = IF registered /\ (IsPaused \/ IsCancelled)
                    THEN [handler EXCEPT !.pc = "send", !.to = kid.n] ELSE Asleep
    /\ UNCHANGED <<routerVars, controlVars, registered, chan, userVars, streamVars, kidVars>>

Emitted ==
    /\ Running
    /\ handler.pc = "emit"
    /\ handler' = IF registered THEN [handler EXCEPT !.pc = "send", !.to = kid.n] ELSE Asleep
    /\ UNCHANGED <<routerVars, controlVars, registered, chan, userVars, streamVars, kidVars>>

Alive == kid.pc \in {"work", "held"}

(* Children that have ended, and signals of a cancelled context, fail.      *)
PropagateSignal ==
    /\ Running
    /\ handler.pc = "send"
    /\ handler' = Asleep
    /\ \/ handler.to = kid.n /\ Alive /\ mail' = mail \cup {handler.sig}
       \/ ~(handler.to = kid.n /\ Alive) /\ UNCHANGED mail
       \/ cut /\ UNCHANGED mail
    /\ UNCHANGED <<routerVars, controlVars, registered, chan, userVars, streamVars, kid>>

-----------------------------------------------------------------------------
(* The child: a strategy with checkpoints and a handler of its own, which   *)
(* emits no event when it takes a signal, and has no children.              *)

ToKid(l) == kid' = [kid EXCEPT !.pc = l]

OnlyKid == UNCHANGED <<routerVars, controlVars, registered, chan, handler, userVars, closed>>

KidStart ==
    /\ kid.pc = "asked"
    /\ \E l \in {"work", "stillborn"} : ToKid(l)
    /\ UNCHANGED <<mail, told>> /\ OnlyKid

KidTake(s) ==
    /\ Alive
    /\ dest \notin Deaf
    /\ First(s, mail)
    /\ mail' = mail \ {s}
    /\ kid' = CASE s = "pause"  -> [kid EXCEPT !.paused = TRUE]
                [] s = "resume" -> [kid EXCEPT !.paused = FALSE]
                [] s = "cancel" -> [kid EXCEPT !.cancelled = TRUE]
    /\ UNCHANGED told /\ OnlyKid

(* The cancellation is emitted by the child, too.                           *)
KidCancelled_Silent ==
    /\ ToKid("cancelled")
    /\ UNCHANGED told

KidCancelled ==
    /\ ToKid("cancelled")
    /\ told' = (told \/ (~kid.cut /\ ~closed))

(* A checkpoint of the child that does not let it pass.                     *)
KidCheck ==
    /\ kid.pc = "work"
    /\ IF kid.cancelled THEN KidCancelled
                        ELSE kid.paused /\ ~kid.cut /\ ToKid("held") /\ UNCHANGED told
    /\ UNCHANGED mail /\ OnlyKid

KidUnpause ==
    /\ kid.pc = "held"
    /\ ~kid.paused \/ kid.cancelled \/ kid.cut
    /\ IF kid.cancelled THEN KidCancelled ELSE ToKid("work") /\ UNCHANGED told
    /\ UNCHANGED mail /\ OnlyKid

KidEnd(o) ==
    /\ kid.pc = "work"
    /\ o = "cancelled" => kid.cut
    /\ ToKid(o)
    /\ UNCHANGED <<mail, told>> /\ OnlyKid

(* Its context is cancelled with its parent's, and when its parent closes.  *)
KidCut ==
    /\ cut \/ ~Running
    /\ Alive \/ kid.pc = "asked"
    /\ ~kid.cut
    /\ kid' = [kid EXCEPT !.cut = TRUE]
    /\ UNCHANGED <<mail, told>> /\ OnlyKid

-----------------------------------------------------------------------------
(* Users.  Two of them may send what one of them could not.                 *)

Send(s) ==
    /\ Running
    /\ sent < MaxSignals
    /\ sent' = sent + 1
    /\ chan' = chan \cup {s}
    /\ asked' = (asked \/ s = "cancel")
    /\ UNCHANGED <<routerVars, controlVars, registered, handler, cut, streamVars, kidVars>>

(* CancelTask asks Temporal after the signal, which may fail.               *)
CancelWorkflow ==
    /\ Running
    /\ asked /\ ~cut
    /\ cut' = TRUE
    /\ UNCHANGED <<routerVars, controlVars, registered, chan, handler, asked, sent,
                   streamVars, kidVars>>

-----------------------------------------------------------------------------

Router ==
    \/ Begin \/ Configure \/ Recommend \/ Route \/ MakePlan \/ Reviewed \/ Decompose \/ Plan
    \/ CheckBudget \/ Approve \/ Switch \/ StartChild \/ RegisterChildWorkflow
    \/ CollectChild \/ StreamEnd \/ CheckPausePoint \/ Unpause

Handler == (\E s \in Signals : TakeSignal(s)) \/ Emitted \/ PropagateSignal

KidHandler == \E s \in Signals : KidTake(s)

KidMain ==
    \/ KidStart \/ KidCheck \/ KidUnpause
    \/ \E o \in {"good", "bad", "cancelled"} : KidEnd(o)

Next ==
    \/ Router \/ Handler \/ KidHandler \/ KidMain \/ KidCut \/ CancelWorkflow
    \/ \E s \in Signals : Send(s)

Spec == Init /\ [][Next]_vars

(* Temporal keeps workflows going and ends every activity; users, and what  *)
(* they ask Temporal for, need not come.                                    *)
FairSpec ==
    /\ Spec
    /\ WF_vars(Router) /\ WF_vars(Handler)
    /\ WF_vars(KidHandler) /\ WF_vars(KidMain) /\ WF_vars(KidCut)

-----------------------------------------------------------------------------
(* Properties.                                                              *)

(* Every variable has its type.                                             *)
TypeOK ==
    /\ pc \in Checkpoints \cup {"start", "config", "recommend", "paths", "review", "reviewing",
              "decompose", "plan", "budget", "approve", "switch", "delegate", "starting",
              "await", "finish", "paused", "end"}
    /\ dest \in Kinds \cup {None}
    /\ template \in BOOLEAN /\ fallback \in BOOLEAN
    /\ at \in Checkpoints \cup {None}
    /\ ends \in {None, "done", "failed", "cancelled"}
    /\ verdict \in {None, "done", "failed", "cancelled"}
    /\ IsPaused \in BOOLEAN /\ IsCancelled \in BOOLEAN /\ registered \in BOOLEAN
    /\ chan \subseteq Signals /\ mail \subseteq Signals
    /\ handler \in [pc : {"idle", "emit", "send"}, sig : Signals \cup {None}, to : Nat]
    /\ asked \in BOOLEAN /\ cut \in BOOLEAN /\ closed \in BOOLEAN /\ told \in BOOLEAN
    /\ kid \in [n : Nat,
                pc : {"none", "asked", "stillborn", "work", "held", "good", "bad", "cancelled"},
                paused : BOOLEAN, cancelled : BOOLEAN, cut : BOOLEAN]
    /\ sent \in Nat

(* A child is never left paused by a task that is not: however pauses and   *)
(* resumes follow each other, overtake each other in the channels, or meet  *)
(* the start of a child, once all of them are handled.                      *)
ChildFollows ==
    Running /\ Alive /\ ~IsPaused /\ handler.pc = "idle" /\ mail = {} /\ ~cut => ~kid.paused

(* Nothing works on a task any more when its stream has ended.              *)
StreamEndLast == closed => ~Alive /\ kid.pc # "asked"

(* A task that was cancelled by its signal, not by Temporal, never ends     *)
(* without word: either the cancellation was in the stream or its end.      *)
CancelTold == verdict = "cancelled" /\ ~cut => told \/ closed

(* A task ends, and its child with it, unless it stays paused: no signal,   *)
(* race with the start of a child or failure leaves one of them waiting.    *)
Ends == <>[](~Running /\ ~Alive /\ kid.pc # "asked") \/ <>[]IsPaused

-----------------------------------------------------------------------------
(* What the comments say and the code does not do.                          *)

(* handler.go:11: a pause reaches the child workflows.                      *)
PauseReaches ==
    Running /\ Alive /\ IsPaused /\ handler.pc = "idle" /\ mail = {} /\ pc = "await" /\ ~cut =>
        kid.paused

(* orchestrator_router.go:1245: every path ends the stream.                 *)
StreamEnded == verdict = "done" => closed
=============================================================================
