---------------------------- MODULE ReviewSession ----------------------------
(***************************************************************************)
(* Human review of a research plan.  The workflow (OrchestratorWorkflow in *)
(* workflows/orchestrator_router.go) has a plan drafted by an activity     *)
(* (activities/research_plan.go), which stores the review in Redis, and    *)
(* waits for a signal or a timer.  HTTP requests to the gateway            *)
(* (cmd/gateway/internal/handlers/review.go) give feedback, which calls    *)
(* the LLM for a new plan, or approve, which signals the workflow.         *)
(*                                                                         *)
(* Each request runs on its own goroutine, and there may be several        *)
(* gateways: the only exclusion is the lock key in Redis, with a TTL.      *)
(* Every Redis command, LLM call and RPC is one step.                      *)
(*                                                                         *)
(* A plan is identified by the conversation it was made from, so that      *)
(* rounds stands for Rounds, CurrentPlan and ResearchBrief; Round and      *)
(* Version start at 1 and grow together.                                   *)
(***************************************************************************)
EXTENDS Naturals, FiniteSets, Sequences

CONSTANTS
    Feedbacks,   \* requests with action "feedback"
    Approvals,   \* requests with action "approve"
    Matching,    \* requests that carry If-Match
    MaxRounds,   \* MaxReviewRounds
    MaxDrafts,   \* attempts of the GenerateResearchPlan activity
    Faults,      \* the faults the environment may produce
    Fragile,     \* bound: requests whose client may hang up and whose commands may fail
    None

Requests == Feedbacks \cup Approvals

ASSUME ReviewAssumption ==
    /\ Feedbacks \cap Approvals = {}
    /\ Matching \subseteq Requests /\ Fragile \subseteq Requests
    /\ MaxRounds \in Nat \ {0} /\ MaxDrafts \in Nat \ {0}
    /\ Faults \subseteq {"lock", "hangup", "llm", "network", "expiry"}
    /\ None \notin Requests

VARIABLES
    stored,     \* review:<workflow> in Redis, or None
    lock,       \* review:<workflow>:lock, or None
    lapsed,     \* history: requests whose lock expired in use
    workflow,   \* what the workflow does
    drafts,     \* attempts of the activity so far
    sent,       \* the plans signalled to the workflow, in order
    confirmed,  \* the plan the workflow received, or None
    pc,         \* where a request stands
    seen,       \* the version its user saw, while If-Match carries it, or None
    snap,       \* the state it works on
    hungup,     \* requests whose client has disconnected
    answer      \* the answer to a request

redisVars    == <<stored, lock>>
workflowVars == <<workflow, drafts, confirmed>>
requestVars  == <<pc, seen, snap, hungup, answer>>
vars == <<redisVars, lapsed, workflowVars, sent, requestVars>>

(* A round is known by the request that caused it, the first by its draft.  *)
Authors == Requests \cup 1 .. MaxDrafts

Review == [status  : {"reviewing", "approved"},
           version : Nat,
           rounds  : Seq(Authors)]

Critical == {"check", "llm", "save", "submit", "mark", "unlock"}

Fault(f) == f \in Faults

Init ==
    /\ stored = None
    /\ lock = None
    /\ lapsed = {}
    /\ workflow = "drafting"
    /\ drafts = 0
    /\ sent = <<>>
    /\ confirmed = None
    /\ pc = [r \in Requests |-> "new"]
    /\ seen = [r \in Requests |-> None]
    /\ snap = [r \in Requests |-> None]
    /\ hungup = {}
    /\ answer = [r \in Requests |-> "none"]

-----------------------------------------------------------------------------
(* The workflow.                                                            *)

NewReview(d) == [status |-> "reviewing", version |-> 1, rounds |-> <<d>>]

(* An attempt of GenerateResearchPlan stores the review, over whatever is   *)
(* stored by then, unless it fails before.                                  *)
Draft ==
    /\ workflow = "drafting"
    /\ drafts' = drafts + 1
    /\ \/ /\ stored' = NewReview(drafts')
          /\ workflow' = "drafted"
       \/ /\ Fault("llm")
          /\ workflow' = IF drafts' = MaxDrafts THEN "failed" ELSE "drafting"
          /\ UNCHANGED stored
    /\ UNCHANGED <<lock, lapsed, confirmed, sent, requestVars>>

(* The attempt is reported, and the workflow waits.  If the report is lost  *)
(* or too late, the activity is retried.                                    *)
Report ==
    /\ workflow = "drafted"
    /\ \/ workflow' = "waiting"
       \/ /\ Fault("network")
          /\ workflow' = IF drafts = MaxDrafts THEN "failed" ELSE "drafting"
    /\ UNCHANGED <<redisVars, lapsed, drafts, confirmed, sent, requestVars>>

(* The selector takes the first signal.  The others are never read.         *)
Receive ==
    /\ workflow = "waiting"
    /\ sent # <<>>
    /\ workflow' = "confirmed"
    /\ confirmed' = Head(sent)
    /\ UNCHANGED <<redisVars, lapsed, drafts, sent, requestVars>>

(* The timer wins; two events are emitted before the workflow returns, and  *)
(* until then it still accepts signals.                                     *)
TimeOut ==
    /\ workflow = "waiting"
    /\ sent = <<>>
    /\ workflow' = "closing"
    /\ UNCHANGED <<redisVars, lapsed, drafts, confirmed, sent, requestVars>>

Close ==
    /\ workflow = "closing"
    /\ workflow' = "timedout"
    /\ UNCHANGED <<redisVars, lapsed, drafts, confirmed, sent, requestVars>>

Closed == workflow \in {"timedout", "failed"}

-----------------------------------------------------------------------------
(* Requests.                                                                *)

(* The user looks at the review and sends a request.                        *)
Send(r) ==
    /\ pc[r] = "new"
    /\ stored # None
    /\ seen' = [seen EXCEPT ![r] = IF r \in Matching THEN stored.version ELSE None]
    /\ pc' = [pc EXCEPT ![r] = "sent"]
    /\ UNCHANGED <<redisVars, lapsed, workflowVars, sent, snap, hungup, answer>>

Go(r, p) == pc' = [pc EXCEPT ![r] = p] /\ UNCHANGED <<seen, snap, hungup, answer>>

(* The answer is given and the deferred unlock remains.                     *)
Answer(r, a) ==
    /\ pc' = [pc EXCEPT ![r] = "unlock"]
    /\ answer' = [answer EXCEPT ![r] = a]
    /\ UNCHANGED <<seen, snap, hungup>>

(* The handler returns.                                                     *)
Return(r) ==
    /\ pc' = [pc EXCEPT ![r] = "done"]
    /\ seen' = [seen EXCEPT ![r] = None]
    /\ snap' = [snap EXCEPT ![r] = None]
    /\ hungup' = hungup \ {r}

Finish(r, a) == Return(r) /\ answer' = [answer EXCEPT ![r] = a]

(* The version check of If-Match.                                           *)
MatchFails(r, s) == r \in Matching /\ seen[r] # s.version

(* The reply to a command may be lost, ...                                  *)
Loses(r) == Fault("network") /\ r \in Fragile

(* ... and on the context of the request it fails when its client is gone.  *)
Unreachable(r) == r \in hungup \/ Loses(r)

(* HandleReview loads the state and both handlers check it, before they     *)
(* take the lock.                                                           *)
Load(r) ==
    /\ pc[r] = "sent"
    /\ \/ Unreachable(r) /\ Finish(r, "failed")
       \/ /\ r \notin hungup
          /\ IF stored = None THEN Finish(r, "failed")
             ELSE IF stored.status = "approved"
                    THEN Finish(r, IF r \in Approvals THEN "ok" ELSE "failed")
             ELSE IF MatchFails(r, stored) THEN Finish(r, "failed")
             ELSE /\ pc' = [pc EXCEPT ![r] = "lock"]
                  /\ snap' = [snap EXCEPT ![r] = stored]
                  /\ seen' = [seen EXCEPT ![r] = None]
                  /\ UNCHANGED <<hungup, answer>>
    /\ UNCHANGED <<redisVars, lapsed, workflowVars, sent>>

(* SETNX on the lock key.  Without the reply, the request fails and the     *)
(* lock may have been taken.                                                *)
Enter(r) == lock' = r /\ Go(r, IF r \in Feedbacks THEN "check" ELSE "submit")

Lock(r) ==
    /\ pc[r] = "lock"
    /\ \/ r \notin hungup /\ lock = None /\ Enter(r)
       \/ r \notin hungup /\ lock # None /\ Finish(r, "failed") /\ UNCHANGED lock
       \/ Loses(r) /\ lock = None /\ lock' = r /\ Finish(r, "failed")
       \/ Unreachable(r) /\ Finish(r, "failed") /\ UNCHANGED lock
    /\ UNCHANGED <<stored, lapsed, workflowVars, sent>>

RoundsLeft_OneMore(r) == snap[r].version <= MaxRounds

RoundsLeft(r) == snap[r].version < MaxRounds

(* An empty message is answered in the same way as one too many.            *)
Check(r) ==
    /\ pc[r] = "check"
    /\ IF RoundsLeft(r) THEN Go(r, "llm") ELSE Answer(r, "failed")
    /\ UNCHANGED <<redisVars, lapsed, workflowVars, sent>>

(* The LLM answers with a new plan, on a context of its own, or fails.      *)
Replanned(s, r) ==
    [status |-> s.status, version |-> s.version + 1, rounds |-> Append(s.rounds, r)]

Replan(r) ==
    /\ pc[r] = "llm"
    /\ \/ /\ snap' = [snap EXCEPT ![r] = Replanned(@, r)]
          /\ pc' = [pc EXCEPT ![r] = "save"]
          /\ UNCHANGED <<seen, hungup, answer>>
       \/ Fault("llm") /\ Answer(r, "failed")
    /\ UNCHANGED <<redisVars, lapsed, workflowVars, sent>>

(* The SET of the new state, on the context of the request.                 *)
Save(r) ==
    /\ pc[r] = "save"
    /\ \/ r \notin hungup /\ stored' = snap[r] /\ Answer(r, "ok")
       \/ Loses(r) /\ stored' = snap[r] /\ Answer(r, "failed")
       \/ Unreachable(r) /\ UNCHANGED stored /\ Answer(r, "failed")
    /\ UNCHANGED <<lock, lapsed, workflowVars, sent>>

(* SubmitReviewDecision signals the workflow, and fails when it is closed.  *)
(* The RPC is on the context of the request; when it fails, the signal may  *)
(* have been sent.                                                          *)
Submit_AnswersFirst(r) ==
    /\ pc[r] = "submit"
    /\ Go(r, "mark")
    /\ UNCHANGED <<redisVars, lapsed, workflowVars, sent>>

Submit(r) ==
    /\ pc[r] = "submit"
    /\ \/ /\ ~Closed
          /\ sent' = Append(sent, snap[r].rounds)
          /\ \/ Go(r, "mark")
             \/ Unreachable(r) /\ Answer(r, "failed")
       \/ /\ Closed \/ Unreachable(r)
          /\ Answer(r, "failed")
          /\ UNCHANGED sent
    /\ UNCHANGED <<redisVars, lapsed, workflowVars>>

(* The review is marked as approved, if Redis answers: best effort.         *)
Approved(s) == [s EXCEPT !.status = "approved"]

Mark(r) ==
    /\ pc[r] = "mark"
    /\ \/ r \notin hungup /\ stored' = Approved(snap[r])
       \/ Unreachable(r) /\ UNCHANGED stored
    /\ Answer(r, "ok")
    /\ UNCHANGED <<lock, lapsed, workflowVars, sent>>

(* The deferred script deletes the lock if it is still this request's; on   *)
(* the context of a client that hung up it does not run.                    *)
Released_Anyway(r) == IF r \in hungup THEN lock ELSE None

Released(r) == IF lock = r /\ r \notin hungup THEN None ELSE lock

Unlock(r) ==
    /\ pc[r] = "unlock"
    /\ \/ lock' = Released(r)
       \/ Loses(r) /\ UNCHANGED lock
    /\ Return(r)
    /\ UNCHANGED <<stored, lapsed, workflowVars, sent, answer>>

-----------------------------------------------------------------------------
(* The environment.                                                         *)

HangUp(r) ==
    /\ Fault("hangup") /\ r \in Fragile
    /\ pc[r] \notin {"new", "done"}
    /\ r \notin hungup
    /\ hungup' = hungup \cup {r}
    /\ UNCHANGED <<redisVars, lapsed, workflowVars, sent, pc, seen, snap, answer>>

(* The TTL of the lock: 90 s for feedback, whose LLM call takes at most     *)
(* 60 s, and 30 s for an approval, whose RPC has no deadline.  The lock of  *)
(* a request that is done always expires.                                   *)
LockExpires_Never == FALSE /\ UNCHANGED vars

LockExpires ==
    /\ lock # None
    /\ Fault("lock") \/ pc[lock] = "done"
    /\ lapsed' = lapsed \cup ({lock} \cap {r \in Requests : pc[r] \in Critical})
    /\ lock' = None
    /\ UNCHANGED <<stored, workflowVars, sent, requestVars>>

(* The review outlives the workflow's timer by five minutes.                *)
ReviewExpires ==
    /\ Fault("expiry")
    /\ workflow \notin {"drafting", "drafted", "waiting"}
    /\ stored # None
    /\ stored' = None
    /\ UNCHANGED <<lock, lapsed, workflowVars, sent, requestVars>>

RequestStep(r) ==
    Load(r) \/ Lock(r) \/ Check(r) \/ Replan(r) \/ Save(r) \/ Submit(r) \/ Mark(r) \/ Unlock(r)

Next ==
    \/ Draft \/ Report \/ Receive \/ TimeOut \/ Close
    \/ \E r \in Requests : Send(r) \/ RequestStep(r) \/ HangUp(r)
    \/ LockExpires \/ ReviewExpires

Spec == Init /\ [][Next]_vars

(* Goroutines run, Temporal retries the activity and fires the timer, Redis *)
(* expires keys.  Nobody has to send a request.                             *)
FairSpec ==
    /\ Spec
    /\ WF_vars(Draft) /\ WF_vars(Report)
    /\ WF_vars(Receive) /\ WF_vars(TimeOut) /\ WF_vars(Close)
    /\ \A r \in Requests : WF_vars(RequestStep(r))
    /\ WF_vars(LockExpires)

-----------------------------------------------------------------------------
(* Properties.                                                              *)

(* Every variable has its type.                                             *)
TypeOK ==
    /\ stored \in Review \cup {None}
    /\ lock \in Requests \cup {None}
    /\ lapsed \subseteq Requests
    /\ workflow \in {"drafting", "drafted", "waiting", "confirmed", "closing", "timedout", "failed"}
    /\ drafts \in 0 .. MaxDrafts
    /\ sent \in Seq(Seq(Authors))
    /\ confirmed \in Seq(Authors) \cup {None}
    /\ pc \in [Requests -> Critical \cup {"new", "sent", "lock", "done"}]
    /\ seen \in [Requests -> Nat \cup {None}]
    /\ snap \in [Requests -> Review \cup {None}]
    /\ hungup \subseteq Requests
    /\ answer \in [Requests -> {"none", "ok", "failed"}]

(* Two requests are past the lock at the same time only if the lock of one  *)
(* of them expired in use: a request that lost its lock so never frees the  *)
(* lock of a third one.                                                     *)
Exclusive ==
    \A r, s \in Requests :
        pc[r] \in Critical /\ pc[s] \in Critical /\ r # s => {r, s} \cap lapsed # {}

(* Whoever is told that the plan is approved, be it by a state that another *)
(* request stored, can rely on a decision having been sent.                 *)
ApprovalBacked ==
    /\ stored # None /\ stored.status = "approved" => sent # <<>>
    /\ \A r \in Approvals : answer[r] = "ok" => sent # <<>>

(* However requests interleave, locks expire and the review is drafted      *)
(* again, Version counts the rounds, and neither the stored conversation    *)
(* nor one signalled to the workflow is longer than MaxReviewRounds.        *)
PlanBounded ==
    /\ stored # None => Len(stored.rounds) = stored.version /\ stored.version <= MaxRounds
    /\ \A i \in DOMAIN sent : Len(sent[i]) <= MaxRounds

(* The lock is not held for ever, although a client that hangs up keeps it. *)
LockFreed == \A r \in Requests : (lock = r) ~> (lock # r)

-----------------------------------------------------------------------------
(* What the comments say and the code does not do.                          *)

(* review.go:192-194, the lock prevents feedback from clobbering feedback:  *)
(* what was answered with ok is in the conversation, while no lock expired. *)
FeedbackKept ==
    \A r \in Feedbacks :
        answer[r] = "ok" /\ stored # None /\ drafts = 1 /\ lapsed = {}
        => \E i \in DOMAIN stored.rounds : stored.rounds[i] = r
=============================================================================
