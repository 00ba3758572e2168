------------------------ MODULE ReviewSession_proofs ------------------------
(***************************************************************************)
(* Proofs about ReviewSession, for any requests, rounds, drafts and faults.*)
(*                                                                         *)
(* Exclusive is not inductive: it rests on LockHeld, which says who holds  *)
(* the lock while a request is past it.  ApprovalBacked rests on what the  *)
(* copies of the review say that requests carry from step to step, and so  *)
(* does PlanBounded.  Every conjunct is preserved on its own, given the    *)
(* types.                                                                  *)
(***************************************************************************)
EXTENDS ReviewSession, TLAPS

(* The steps at which a request carries a copy of the review.               *)
Loaded == {"lock", "check", "llm", "save", "submit", "mark"}

(* What the types rest on: a copy is there when it is used, and there are   *)
(* attempts left while the activity is retried.                             *)
CopiesTyped == \A r \in Requests : pc[r] \in Loaded => snap[r] \in Review

FeedbackSteps == \A r \in Requests : pc[r] \in {"check", "llm", "save"} => r \in Feedbacks

Attempts ==
    /\ workflow = "drafting" => drafts < MaxDrafts
    /\ workflow = "drafted" => drafts > 0

(* A request past the lock holds it, unless the lock expired in use.        *)
LockHeld ==
    \A r \in Requests : pc[r] \in Critical => lock = r \/ r \in lapsed

(* No request carries an approved copy, and one that is about to mark the   *)
(* review has sent its decision.                                            *)
CopiesOpen == \A r \in Requests : pc[r] \in Loaded => snap[r].status = "reviewing"

DecisionSent == \A r \in Requests : pc[r] = "mark" => sent # <<>>

(* A copy has as many rounds as its version says, and at most MaxRounds;    *)
(* one that the LLM is asked about has fewer.                               *)
Bounded(s) == Len(s.rounds) = s.version /\ s.version <= MaxRounds

CopiesBounded ==
    \A r \in Requests :
        /\ pc[r] \in Loaded => Bounded(snap[r])
        /\ pc[r] = "llm" => snap[r].version < MaxRounds

Types == TypeOK /\ CopiesTyped /\ FeedbackSteps /\ Attempts

Approval == CopiesOpen /\ DecisionSent /\ ApprovalBacked

Bound == CopiesBounded /\ PlanBounded

(* What is done to copies of the review.                                    *)
LEMMA ReviewFacts ==
    ASSUME NEW s \in Review
    PROVE  /\ s.status \in {"reviewing", "approved"}
           /\ s.version \in Nat
           /\ s.rounds \in Seq(Authors)
  BY DEF Review

LEMMA NewReviewFacts ==
    ASSUME NEW d \in 1 .. MaxDrafts
    PROVE  /\ NewReview(d) \in Review
           /\ NewReview(d).status = "reviewing"
           /\ NewReview(d).rounds \in Seq(Authors)
           /\ Bounded(NewReview(d))
  BY ReviewAssumption DEF NewReview, Review, Authors, Bounded

LEMMA ReplannedFacts ==
    ASSUME NEW s \in Review, NEW r \in Requests
    PROVE  /\ Replanned(s, r) \in Review
           /\ Replanned(s, r).status = s.status
           /\ Bounded(s) /\ s.version < MaxRounds => Bounded(Replanned(s, r))
<1>1. /\ Replanned(s, r).status = s.status
      /\ Replanned(s, r).version = s.version + 1
      /\ Replanned(s, r).rounds = Append(s.rounds, r)
  BY DEF Replanned, Review
<1>2. Append(s.rounds, r) \in Seq(Authors)
  BY ReviewFacts DEF Authors
<1>3. Replanned(s, r) \in Review
  <2>1. s.version + 1 \in Nat
    BY ReviewFacts
  <2> QED
    BY <1>2, <2>1, ReviewFacts DEF Replanned, Review
<1>4. Len(Append(s.rounds, r)) = Len(s.rounds) + 1
  BY ReviewFacts
<1>5. Bounded(s) /\ s.version < MaxRounds => Bounded(Replanned(s, r))
  BY <1>1, <1>4, ReviewFacts, ReviewAssumption DEF Bounded
<1> QED
  BY <1>1, <1>3, <1>5

LEMMA ApprovedFacts ==
    ASSUME NEW s \in Review
    PROVE  /\ Approved(s) \in Review
           /\ Approved(s).status = "approved"
           /\ Bounded(s) => Bounded(Approved(s))
  BY DEF Approved, Review, Bounded

(* What each step of a request does to the request and to the review.       *)
LEMMA Others ==
    ASSUME TypeOK, NEW r \in Requests, Send(r) \/ RequestStep(r) \/ HangUp(r), NEW s \in Requests, s # r
    PROVE  pc'[s] = pc[s] /\ snap'[s] = snap[s] /\ answer'[s] = answer[s]
<1> USE DEF TypeOK, requestVars
<1>1. Load(r) \/ Lock(r) => pc'[s] = pc[s] /\ snap'[s] = snap[s] /\ answer'[s] = answer[s]
  BY DEF Load, Lock, Finish, Return, Enter, Go
<1>2. Check(r) \/ Replan(r) \/ Save(r) => pc'[s] = pc[s] /\ snap'[s] = snap[s] /\ answer'[s] = answer[s]
  BY DEF Check, Replan, Save, Answer, Go
<1>3. Submit(r) \/ Mark(r) \/ Unlock(r) => pc'[s] = pc[s] /\ snap'[s] = snap[s] /\ answer'[s] = answer[s]
  BY DEF Submit, Mark, Unlock, Return, Answer, Go
<1>4. Send(r) \/ HangUp(r) => pc'[s] = pc[s] /\ snap'[s] = snap[s] /\ answer'[s] = answer[s]
  BY DEF Send, HangUp
<1> QED
  BY <1>1, <1>2, <1>3, <1>4 DEF RequestStep

LEMMA LoadEffect ==
    ASSUME TypeOK, NEW r \in Requests, Load(r)
    PROVE  /\ stored' = stored /\ sent' = sent /\ workflow' = workflow /\ drafts' = drafts
           /\ \/ pc'[r] = "done"
              \/ /\ pc'[r] = "lock" /\ snap'[r] = stored
                 /\ stored # None /\ stored.status # "approved"
           /\ answer'[r] = "ok" => answer[r] = "ok" \/ (stored # None /\ stored.status = "approved")
<1> USE DEF TypeOK, Load, Finish, Return, redisVars, workflowVars
<1>1. stored' = stored /\ sent' = sent /\ workflow' = workflow /\ drafts' = drafts
  OBVIOUS
<1>2. CASE Finish(r, "failed")
  BY <1>1, <1>2
<1>3. CASE stored # None /\ stored.status = "approved" /\ Finish(r, IF r \in Approvals THEN "ok" ELSE "failed")
  BY <1>1, <1>3
<1>4. CASE /\ stored # None /\ stored.status # "approved"
           /\ pc' = [pc EXCEPT ![r] = "lock"]
           /\ snap' = [snap EXCEPT ![r] = stored]
           /\ seen' = [seen EXCEPT ![r] = None]
           /\ UNCHANGED <<hungup, answer>>
  BY <1>1, <1>4
<1> QED
  BY <1>2, <1>3, <1>4

LEMMA LockEffect ==
    ASSUME TypeOK, NEW r \in Requests, Lock(r)
    PROVE  /\ pc[r] = "lock"
           /\ stored' = stored /\ sent' = sent /\ workflow' = workflow /\ drafts' = drafts
           /\ \/ pc'[r] = "done" /\ answer'[r] # "ok"
              \/ /\ pc'[r] \in {"check", "submit"}
                 /\ pc'[r] = "check" => r \in Feedbacks
                 /\ snap'[r] = snap[r] /\ answer'[r] = answer[r]
  BY DEF TypeOK, Lock, Finish, Return, Enter, Go, workflowVars

LEMMA CheckEffect ==
    ASSUME TypeOK, NEW r \in Requests, Check(r)
    PROVE  /\ pc[r] = "check"
           /\ stored' = stored /\ sent' = sent /\ workflow' = workflow /\ drafts' = drafts
           /\ snap' = snap
           /\ \/ pc'[r] = "unlock" /\ answer'[r] # "ok"
              \/ pc'[r] = "llm" /\ snap[r].version < MaxRounds /\ answer'[r] = answer[r]
  BY DEF TypeOK, Check, RoundsLeft, Answer, Go, redisVars, workflowVars

LEMMA ReplanEffect ==
    ASSUME TypeOK, NEW r \in Requests, Replan(r)
    PROVE  /\ pc[r] = "llm"
           /\ stored' = stored /\ sent' = sent /\ workflow' = workflow /\ drafts' = drafts
           /\ \/ pc'[r] = "unlock" /\ answer'[r] # "ok" /\ snap'[r] = snap[r]
              \/ pc'[r] = "save" /\ snap'[r] = Replanned(snap[r], r) /\ answer'[r] = answer[r]
  BY DEF TypeOK, Replan, Answer, redisVars, workflowVars

LEMMA SaveEffect ==
    ASSUME TypeOK, NEW r \in Requests, Save(r)
    PROVE  /\ pc[r] = "save"
           /\ stored' \in {stored, snap[r]} /\ sent' = sent /\ workflow' = workflow /\ drafts' = drafts
           /\ pc'[r] = "unlock" /\ snap' = snap
  BY DEF TypeOK, Save, Answer, workflowVars

LEMMA SubmitEffect ==
    ASSUME TypeOK, NEW r \in Requests, Submit(r)
    PROVE  /\ pc[r] = "submit"
           /\ stored' = stored /\ workflow' = workflow /\ drafts' = drafts /\ snap' = snap
           /\ answer'[r] = "ok" => answer[r] = "ok"
           /\ \/ pc'[r] = "unlock" /\ sent' \in {sent, Append(sent, snap[r].rounds)}
              \/ pc'[r] = "mark" /\ sent' = Append(sent, snap[r].rounds)
  BY DEF TypeOK, Submit, Answer, Go, redisVars, workflowVars

LEMMA MarkEffect ==
    ASSUME TypeOK, NEW r \in Requests, Mark(r)
    PROVE  /\ pc[r] = "mark"
           /\ stored' \in {stored, Approved(snap[r])} /\ sent' = sent
           /\ workflow' = workflow /\ drafts' = drafts
           /\ pc'[r] = "unlock" /\ snap' = snap
  BY DEF TypeOK, Mark, Answer, workflowVars

LEMMA DraftEffect ==
    ASSUME TypeOK, workflow = "drafting" => drafts < MaxDrafts, Draft
    PROVE  /\ drafts' \in 1 .. MaxDrafts
           /\ stored' \in {stored, NewReview(drafts')}
           /\ stored' \in Review \cup {None}
           /\ sent' = sent /\ pc' = pc /\ snap' = snap /\ answer' = answer
<1>1. drafts' \in 1 .. MaxDrafts
  BY ReviewAssumption DEF Draft, TypeOK
<1>2. stored' \in {stored, NewReview(drafts')}
  BY DEF Draft
<1>3. stored' \in Review \cup {None}
  BY <1>1, <1>2, NewReviewFacts DEF TypeOK
<1> QED
  BY <1>1, <1>2, <1>3 DEF Draft, requestVars

LEMMA InitInv == Init => Types /\ LockHeld /\ Approval /\ Bound
<1> SUFFICES ASSUME Init PROVE Types /\ LockHeld /\ Approval /\ Bound
  OBVIOUS
<1> USE ReviewAssumption DEF Init
<1>1. TypeOK
  <2>1. sent \in Seq(Seq(Authors))
    OBVIOUS
  <2> QED
    BY <2>1 DEF TypeOK
<1>2. CopiesTyped /\ FeedbackSteps /\ Attempts /\ LockHeld /\ CopiesOpen /\ DecisionSent /\ CopiesBounded
  BY DEF CopiesTyped, FeedbackSteps, Attempts, LockHeld, CopiesOpen, DecisionSent, CopiesBounded, Critical, Loaded
<1>3. ApprovalBacked
  BY DEF ApprovalBacked, Requests
<1>4. PlanBounded
  BY DEF PlanBounded
<1> QED
  BY <1>1, <1>2, <1>3, <1>4 DEF Types, Approval, Bound

(* Types and copies.                                                        *)
LEMMA TypesStep ==
    ASSUME Types, [Next]_vars
    PROVE  Types'
<1>1. CASE Draft
  <2>1. /\ TypeOK /\ Draft
        /\ workflow = "drafting" => drafts < MaxDrafts
    BY <1>1 DEF Types, Attempts
  <2>2. TypeOK'
    BY <2>1, DraftEffect DEF TypeOK, Draft, Critical, requestVars
  <2>3. CopiesTyped' /\ FeedbackSteps'
    BY <2>1, DraftEffect DEF Types, CopiesTyped, FeedbackSteps
  <2>4. Attempts'
    BY <2>1, DraftEffect, ReviewAssumption DEF Attempts, Draft
  <2> QED
    BY <2>2, <2>3, <2>4 DEF Types
<1>2. CASE Report
  <2>1. TypeOK'
    BY <1>2 DEF Types, TypeOK, Report, redisVars, requestVars
  <2>2. CopiesTyped' /\ FeedbackSteps'
    BY <1>2 DEF Types, CopiesTyped, FeedbackSteps, Report, requestVars
  <2>3. Attempts'
    BY <1>2, ReviewAssumption DEF Types, TypeOK, Attempts, Report
  <2> QED
    BY <2>1, <2>2, <2>3 DEF Types
<1>3. CASE Receive
  BY <1>3 DEF Receive, Types, TypeOK, CopiesTyped, FeedbackSteps, Attempts, Loaded, Critical, redisVars, workflowVars, requestVars
<1>4. CASE TimeOut
  BY <1>4 DEF TimeOut, Types, TypeOK, CopiesTyped, FeedbackSteps, Attempts, Loaded, Critical, redisVars, workflowVars, requestVars
<1>5. CASE Close
  BY <1>5 DEF Close, Types, TypeOK, CopiesTyped, FeedbackSteps, Attempts, Loaded, Critical, redisVars, workflowVars, requestVars
<1>6. CASE LockExpires
  BY <1>6 DEF LockExpires, Types, TypeOK, CopiesTyped, FeedbackSteps, Attempts, Loaded, Critical, redisVars, workflowVars, requestVars
<1>7. CASE ReviewExpires
  BY <1>7 DEF ReviewExpires, Types, TypeOK, CopiesTyped, FeedbackSteps, Attempts, Loaded, Critical, redisVars, workflowVars, requestVars
<1>8. ASSUME NEW r \in Requests, Send(r) PROVE Types'
  BY <1>8, ReviewFacts DEF Send, Types, TypeOK, CopiesTyped, FeedbackSteps, Attempts, Loaded, Critical, redisVars, workflowVars, requestVars
<1>9. ASSUME NEW r \in Requests, Load(r) PROVE Types'
  <2>1. \A s \in Requests : s # r => pc'[s] = pc[s] /\ snap'[s] = snap[s] /\ answer'[s] = answer[s]
    BY <1>9, Others DEF RequestStep, Types
  <2>2. TypeOK /\ Load(r)
    BY <1>9 DEF Types
  <2>3. TypeOK'
    <3> USE DEF TypeOK, Critical, redisVars, workflowVars
    <3>1. ASSUME NEW a \in {"ok", "failed"}, Finish(r, a) PROVE TypeOK'
      BY <2>2, <3>1 DEF Load, Finish, Return
    <3>2. CASE /\ stored # None
               /\ pc' = [pc EXCEPT ![r] = "lock"]
               /\ snap' = [snap EXCEPT ![r] = stored]
               /\ seen' = [seen EXCEPT ![r] = None]
               /\ UNCHANGED <<hungup, answer>>
      BY <2>2, <3>2 DEF Load
    <3> QED
      BY <2>2, <3>1, <3>2 DEF Load
  <2>4. CopiesTyped'
    BY <2>1, <2>2, LoadEffect, ReviewFacts DEF Types, TypeOK, CopiesTyped, FeedbackSteps, Attempts, Loaded, Critical
  <2>5. FeedbackSteps'
    BY <2>1, <2>2, LoadEffect, ReviewFacts DEF Types, TypeOK, CopiesTyped, FeedbackSteps, Attempts, Loaded, Critical
  <2>6. Attempts'
    BY <2>1, <2>2, LoadEffect, ReviewFacts DEF Types, TypeOK, CopiesTyped, FeedbackSteps, Attempts, Loaded, Critical
  <2> QED
    BY <2>3, <2>4, <2>5, <2>6 DEF Types
<1>10. ASSUME NEW r \in Requests, Lock(r) PROVE Types'
  <2>1. \A s \in Requests : s # r => pc'[s] = pc[s] /\ snap'[s] = snap[s] /\ answer'[s] = answer[s]
    BY <1>10, Others DEF RequestStep, Types
  <2>2. TypeOK /\ Lock(r)
    BY <1>10 DEF Types
  <2>3. TypeOK'
    BY <1>10 DEF Lock, Enter, Go, Finish, Return, Types, TypeOK, CopiesTyped, Loaded, Critical, redisVars, workflowVars, requestVars
  <2>4. CopiesTyped'
    BY <2>1, <2>2, LockEffect DEF Types, TypeOK, CopiesTyped, FeedbackSteps, Attempts, Loaded, Critical
  <2>5. FeedbackSteps'
    BY <2>1, <2>2, LockEffect DEF Types, TypeOK, CopiesTyped, FeedbackSteps, Attempts, Loaded, Critical
  <2>6. Attempts'
    BY <2>1, <2>2, LockEffect DEF Types, TypeOK, CopiesTyped, FeedbackSteps, Attempts, Loaded, Critical
  <2> QED
    BY <2>3, <2>4, <2>5, <2>6 DEF Types
<1>11. ASSUME NEW r \in Requests, Check(r) PROVE Types'
  <2>1. \A s \in Requests : s # r => pc'[s] = pc[s] /\ snap'[s] = snap[s] /\ answer'[s] = answer[s]
    BY <1>11, Others DEF RequestStep, Types
  <2>2. TypeOK /\ Check(r)
    BY <1>11 DEF Types
  <2>3. TypeOK'
    BY <1>11 DEF Check, RoundsLeft, Go, Answer, Types, TypeOK, CopiesTyped, Loaded, Critical, redisVars, workflowVars, requestVars
  <2>4. CopiesTyped'
    BY <2>1, <2>2, CheckEffect DEF Types, TypeOK, CopiesTyped, FeedbackSteps, Attempts, Loaded, Critical
  <2>5. FeedbackSteps'
    BY <2>1, <2>2, CheckEffect DEF Types, TypeOK, CopiesTyped, FeedbackSteps, Attempts, Loaded, Critical
  <2>6. Attempts'
    BY <2>1, <2>2, CheckEffect DEF Types, TypeOK, CopiesTyped, FeedbackSteps, Attempts, Loaded, Critical
  <2> QED
    BY <2>3, <2>4, <2>5, <2>6 DEF Types
<1>12. ASSUME NEW r \in Requests, Replan(r) PROVE Types'
  <2>1. \A s \in Requests : s # r => pc'[s] = pc[s] /\ snap'[s] = snap[s] /\ answer'[s] = answer[s]
    BY <1>12, Others DEF RequestStep, Types
  <2>2. TypeOK /\ Replan(r)
    BY <1>12 DEF Types
  <2>3. TypeOK'
    <3>1. Replanned(snap[r], r) \in Review
      BY <2>2, <1>12, ReplannedFacts, ReplanEffect DEF Types, CopiesTyped, Loaded, Critical
    <3>2. snap' \in [Requests -> Review \cup {None}]
      BY <2>2, <3>1 DEF Replan, Answer, TypeOK
    <3> QED
      BY <2>2, <3>2 DEF Replan, Answer, TypeOK, Critical, redisVars, workflowVars
  <2>4. CopiesTyped'
    <3>1. Replanned(snap[r], r) \in Review
      BY <2>2, <1>12, ReplannedFacts, ReplanEffect DEF Types, CopiesTyped, Loaded, Critical
    <3> QED
      BY <2>1, <2>2, <3>1, ReplanEffect DEF Types, CopiesTyped, Loaded, Critical
  <2>5. FeedbackSteps'
    BY <2>1, <2>2, ReplanEffect, ReplannedFacts, ReviewFacts DEF Types, TypeOK, CopiesTyped, FeedbackSteps, Attempts, Loaded, Critical
  <2>6. Attempts'
    BY <2>1, <2>2, ReplanEffect, ReplannedFacts, ReviewFacts DEF Types, TypeOK, CopiesTyped, FeedbackSteps, Attempts, Loaded, Critical
  <2> QED
    BY <2>3, <2>4, <2>5, <2>6 DEF Types
<1>13. ASSUME NEW r \in Requests, Save(r) PROVE Types'
  <2>1. \A s \in Requests : s # r => pc'[s] = pc[s] /\ snap'[s] = snap[s] /\ answer'[s] = answer[s]
    BY <1>13, Others DEF RequestStep, Types
  <2>2. TypeOK /\ Save(r)
    BY <1>13 DEF Types
  <2>3. TypeOK'
    BY <1>13 DEF Save, Answer, Types, TypeOK, CopiesTyped, Loaded, Critical, redisVars, workflowVars, requestVars
  <2>4. CopiesTyped'
    BY <2>1, <2>2, SaveEffect DEF Types, TypeOK, CopiesTyped, FeedbackSteps, Attempts, Loaded, Critical
  <2>5. FeedbackSteps'
    BY <2>1, <2>2, SaveEffect DEF Types, TypeOK, CopiesTyped, FeedbackSteps, Attempts, Loaded, Critical
  <2>6. Attempts'
    BY <2>1, <2>2, SaveEffect DEF Types, TypeOK, CopiesTyped, FeedbackSteps, Attempts, Loaded, Critical
  <2> QED
    BY <2>3, <2>4, <2>5, <2>6 DEF Types
<1>14. ASSUME NEW r \in Requests, Submit(r) PROVE Types'
  <2>1. \A s \in Requests : s # r => pc'[s] = pc[s] /\ snap'[s] = snap[s] /\ answer'[s] = answer[s]
    BY <1>14, Others DEF RequestStep, Types
  <2>2. TypeOK /\ Submit(r)
    BY <1>14 DEF Types
  <2>3. TypeOK'
    <3>1. Append(sent, snap[r].rounds) \in Seq(Seq(Authors))
      <4>1. snap[r].rounds \in Seq(Authors)
        BY <2>2, SubmitEffect, ReviewFacts DEF Types, CopiesTyped, Loaded, Critical
      <4> QED
        BY <4>1, <2>2 DEF TypeOK
    <3>2. sent' \in Seq(Seq(Authors))
      BY <2>2, <3>1, SubmitEffect DEF TypeOK
    <3> QED
      BY <2>2, <3>2 DEF Submit, Go, Answer, TypeOK, Critical, redisVars, workflowVars
  <2>4. CopiesTyped'
    BY <2>1, <2>2, SubmitEffect DEF Types, TypeOK, CopiesTyped, FeedbackSteps, Attempts, Loaded, Critical
  <2>5. FeedbackSteps'
    BY <2>1, <2>2, SubmitEffect DEF Types, TypeOK, CopiesTyped, FeedbackSteps, Attempts, Loaded, Critical
  <2>6. Attempts'
    BY <2>1, <2>2, SubmitEffect DEF Types, TypeOK, CopiesTyped, FeedbackSteps, Attempts, Loaded, Critical
  <2> QED
    BY <2>3, <2>4, <2>5, <2>6 DEF Types
<1>15. ASSUME NEW r \in Requests, Mark(r) PROVE Types'
  <2>1. \A s \in Requests : s # r => pc'[s] = pc[s] /\ snap'[s] = snap[s] /\ answer'[s] = answer[s]
    BY <1>15, Others DEF RequestStep, Types
  <2>2. TypeOK /\ Mark(r)
    BY <1>15 DEF Types
  <2>3. TypeOK'
    <3>1. stored' \in Review \cup {None}
      BY <2>2, MarkEffect, ApprovedFacts DEF Types, TypeOK, CopiesTyped, Loaded, Critical
    <3> QED
      BY <2>2, <3>1 DEF Mark, Answer, TypeOK, Critical, workflowVars
  <2>4. CopiesTyped'
    BY <2>1, <2>2, MarkEffect, ApprovedFacts, ReviewFacts DEF Types, TypeOK, CopiesTyped, FeedbackSteps, Attempts, Loaded, Critical
  <2>5. FeedbackSteps'
    BY <2>1, <2>2, MarkEffect, ApprovedFacts, ReviewFacts DEF Types, TypeOK, CopiesTyped, FeedbackSteps, Attempts, Loaded, Critical
  <2>6. Attempts'
    BY <2>1, <2>2, MarkEffect, ApprovedFacts, ReviewFacts DEF Types, TypeOK, CopiesTyped, FeedbackSteps, Attempts, Loaded, Critical
  <2> QED
    BY <2>3, <2>4, <2>5, <2>6 DEF Types
<1>16. ASSUME NEW r \in Requests, Unlock(r) PROVE Types'
  BY <1>16 DEF Unlock, Return, Released, Types, TypeOK, CopiesTyped, FeedbackSteps, Attempts, Loaded, Critical, redisVars, workflowVars, requestVars
<1>17. ASSUME NEW r \in Requests, HangUp(r) PROVE Types'
  BY <1>17 DEF HangUp, Types, TypeOK, CopiesTyped, FeedbackSteps, Attempts, Loaded, Critical, redisVars, workflowVars, requestVars
<1>18. CASE UNCHANGED vars
  BY <1>18 DEF vars, Types, TypeOK, CopiesTyped, FeedbackSteps, Attempts, Loaded, Critical, redisVars, workflowVars, requestVars
<1> QED
  BY <1>1, <1>2, <1>3, <1>4, <1>5, <1>6, <1>7, <1>8, <1>9, <1>10, <1>11, <1>12, <1>13, <1>14, <1>15, <1>16, <1>17, <1>18 DEF Next, RequestStep

(* The lock.                                                                *)
LEMMA LockHeldStep ==
    ASSUME Types, LockHeld, [Next]_vars
    PROVE  LockHeld'
<1>1. CASE Draft
  BY <1>1 DEF Draft, LockHeld, requestVars
<1>2. CASE Report
  BY <1>2 DEF Report, Types, LockHeld, TypeOK, CopiesTyped, Loaded, Critical, redisVars, workflowVars, requestVars
<1>3. CASE Receive
  BY <1>3 DEF Receive, Types, LockHeld, TypeOK, CopiesTyped, Loaded, Critical, redisVars, workflowVars, requestVars
<1>4. CASE TimeOut
  BY <1>4 DEF TimeOut, Types, LockHeld, TypeOK, CopiesTyped, Loaded, Critical, redisVars, workflowVars, requestVars
<1>5. CASE Close
  BY <1>5 DEF Close, Types, LockHeld, TypeOK, CopiesTyped, Loaded, Critical, redisVars, workflowVars, requestVars
<1>6. CASE LockExpires
  BY <1>6 DEF LockExpires, Types, LockHeld, TypeOK, CopiesTyped, Loaded, Critical, redisVars, workflowVars, requestVars
<1>7. CASE ReviewExpires
  BY <1>7 DEF ReviewExpires, Types, LockHeld, TypeOK, CopiesTyped, Loaded, Critical, redisVars, workflowVars, requestVars
<1>8. ASSUME NEW r \in Requests, Send(r) PROVE LockHeld'
  BY <1>8 DEF Send, Types, LockHeld, TypeOK, CopiesTyped, Loaded, Critical, redisVars, workflowVars, requestVars
<1>9. ASSUME NEW r \in Requests, Load(r) PROVE LockHeld'
  BY <1>9, ReviewAssumption DEF Load, Finish, Return, MatchFails, Types, TypeOK, LockHeld, Critical, redisVars, workflowVars, requestVars
<1>10. ASSUME NEW r \in Requests, Lock(r) PROVE LockHeld'
  BY <1>10, ReviewAssumption DEF Lock, Enter, Go, Finish, Return, Types, TypeOK, LockHeld, Critical, redisVars, workflowVars, requestVars
<1>11. ASSUME NEW r \in Requests, Check(r) PROVE LockHeld'
  BY <1>11, ReviewAssumption DEF Check, RoundsLeft, Go, Answer, Types, TypeOK, LockHeld, Critical, redisVars, workflowVars, requestVars
<1>12. ASSUME NEW r \in Requests, Replan(r) PROVE LockHeld'
  BY <1>12, ReviewAssumption DEF Replan, Answer, Fault, Types, TypeOK, LockHeld, Critical, redisVars, workflowVars, requestVars
<1>13. ASSUME NEW r \in Requests, Save(r) PROVE LockHeld'
  BY <1>13, ReviewAssumption DEF Save, Answer, Types, TypeOK, LockHeld, Critical, redisVars, workflowVars, requestVars
<1>14. ASSUME NEW r \in Requests, Submit(r) PROVE LockHeld'
  BY <1>14, ReviewAssumption DEF Submit, Go, Answer, Closed, Types, TypeOK, LockHeld, Critical, redisVars, workflowVars, requestVars
<1>15. ASSUME NEW r \in Requests, Mark(r) PROVE LockHeld'
  BY <1>15, ReviewAssumption DEF Mark, Answer, Types, TypeOK, LockHeld, Critical, redisVars, workflowVars, requestVars
<1>16. ASSUME NEW r \in Requests, Unlock(r) PROVE LockHeld'
  BY <1>16 DEF Unlock, Return, Released, Types, LockHeld, TypeOK, CopiesTyped, Loaded, Critical, redisVars, workflowVars, requestVars
<1>17. ASSUME NEW r \in Requests, HangUp(r) PROVE LockHeld'
  BY <1>17 DEF HangUp, Types, LockHeld, TypeOK, CopiesTyped, Loaded, Critical, redisVars, workflowVars, requestVars
<1>18. CASE UNCHANGED vars
  BY <1>18 DEF vars, Types, LockHeld, TypeOK, CopiesTyped, Loaded, Critical, redisVars, workflowVars, requestVars
<1> QED
  BY <1>1, <1>2, <1>3, <1>4, <1>5, <1>6, <1>7, <1>8, <1>9, <1>10, <1>11, <1>12, <1>13, <1>14, <1>15, <1>16, <1>17, <1>18 DEF Next, RequestStep

(* The approval.                                                            *)
LEMMA ApprovalStep ==
    ASSUME Types, Approval, [Next]_vars
    PROVE  Approval'
<1>1. CASE Draft
  <2>1. /\ TypeOK /\ Draft
        /\ workflow = "drafting" => drafts < MaxDrafts
    BY <1>1 DEF Types, Attempts
  <2> QED
    BY <2>1, DraftEffect, NewReviewFacts, ReviewFacts DEF Types, Approval, CopiesOpen, CopiesTyped, DecisionSent, ApprovalBacked, Requests, FeedbackSteps, Loaded, Critical
<1>2. CASE Report
  BY <1>2 DEF Report, Types, Approval, CopiesOpen, CopiesTyped, DecisionSent, ApprovalBacked, Requests, FeedbackSteps, TypeOK, Loaded, Critical, redisVars, workflowVars, requestVars
<1>3. CASE Receive
  BY <1>3 DEF Receive, Types, Approval, CopiesOpen, CopiesTyped, DecisionSent, ApprovalBacked, Requests, FeedbackSteps, TypeOK, Loaded, Critical, redisVars, workflowVars, requestVars
<1>4. CASE TimeOut
  BY <1>4 DEF TimeOut, Types, Approval, CopiesOpen, CopiesTyped, DecisionSent, ApprovalBacked, Requests, FeedbackSteps, TypeOK, Loaded, Critical, redisVars, workflowVars, requestVars
<1>5. CASE Close
  BY <1>5 DEF Close, Types, Approval, CopiesOpen, CopiesTyped, DecisionSent, ApprovalBacked, Requests, FeedbackSteps, TypeOK, Loaded, Critical, redisVars, workflowVars, requestVars
<1>6. CASE LockExpires
  BY <1>6 DEF LockExpires, Types, Approval, CopiesOpen, CopiesTyped, DecisionSent, ApprovalBacked, Requests, FeedbackSteps, TypeOK, Loaded, Critical, redisVars, workflowVars, requestVars
<1>7. CASE ReviewExpires
  BY <1>7 DEF ReviewExpires, Types, Approval, CopiesOpen, CopiesTyped, DecisionSent, ApprovalBacked, Requests, FeedbackSteps, TypeOK, Loaded, Critical, redisVars, workflowVars, requestVars
<1>8. ASSUME NEW r \in Requests, Send(r) PROVE Approval'
  BY <1>8 DEF Send, Types, Approval, CopiesOpen, CopiesTyped, DecisionSent, ApprovalBacked, Requests, FeedbackSteps, TypeOK, Loaded, Critical, redisVars, workflowVars, requestVars
<1>9. ASSUME NEW r \in Requests, Load(r) PROVE Approval'
  <2>1. \A s \in Requests : s # r => pc'[s] = pc[s] /\ snap'[s] = snap[s] /\ answer'[s] = answer[s]
    BY <1>9, Others DEF RequestStep, Types
  <2>2. TypeOK /\ Load(r)
    BY <1>9 DEF Types
  <2>3. CopiesOpen'
    <3>1. pc'[r] \in Loaded => snap'[r].status = "reviewing"
      BY <2>2, LoadEffect, ReviewFacts DEF TypeOK, Loaded
    <3> QED
      BY <2>1, <3>1 DEF Approval, CopiesOpen
  <2>4. DecisionSent'
    BY <2>1, <2>2, LoadEffect, ReviewFacts DEF Types, Approval, CopiesOpen, CopiesTyped, DecisionSent, ApprovalBacked, Requests, FeedbackSteps, Loaded, Critical
  <2>5. ApprovalBacked'
    BY <2>1, <2>2, LoadEffect, ReviewFacts DEF Types, Approval, CopiesOpen, CopiesTyped, DecisionSent, ApprovalBacked, Requests, FeedbackSteps, Loaded, Critical
  <2> QED
    BY <2>3, <2>4, <2>5 DEF Approval
<1>10. ASSUME NEW r \in Requests, Lock(r) PROVE Approval'
  <2>1. \A s \in Requests : s # r => pc'[s] = pc[s] /\ snap'[s] = snap[s] /\ answer'[s] = answer[s]
    BY <1>10, Others DEF RequestStep, Types
  <2>2. TypeOK /\ Lock(r)
    BY <1>10 DEF Types
  <2>3. CopiesOpen'
    BY <2>1, <2>2, LockEffect DEF Types, Approval, CopiesOpen, CopiesTyped, DecisionSent, ApprovalBacked, Requests, FeedbackSteps, Loaded, Critical
  <2>4. DecisionSent'
    BY <2>1, <2>2, LockEffect DEF Types, Approval, CopiesOpen, CopiesTyped, DecisionSent, ApprovalBacked, Requests, FeedbackSteps, Loaded, Critical
  <2>5. ApprovalBacked'
    BY <2>1, <2>2, LockEffect DEF Types, Approval, CopiesOpen, CopiesTyped, DecisionSent, ApprovalBacked, Requests, FeedbackSteps, Loaded, Critical
  <2> QED
    BY <2>3, <2>4, <2>5 DEF Approval
<1>11. ASSUME NEW r \in Requests, Check(r) PROVE Approval'
  <2>1. \A s \in Requests : s # r => pc'[s] = pc[s] /\ snap'[s] = snap[s] /\ answer'[s] = answer[s]
    BY <1>11, Others DEF RequestStep, Types
  <2>2. TypeOK /\ Check(r)
    BY <1>11 DEF Types
  <2>3. CopiesOpen'
    BY <2>1, <2>2, CheckEffect DEF Types, Approval, CopiesOpen, CopiesTyped, DecisionSent, ApprovalBacked, Requests, FeedbackSteps, Loaded, Critical
  <2>4. DecisionSent'
    BY <2>1, <2>2, CheckEffect DEF Types, Approval, CopiesOpen, CopiesTyped, DecisionSent, ApprovalBacked, Requests, FeedbackSteps, Loaded, Critical
  <2>5. ApprovalBacked'
    BY <2>1, <2>2, CheckEffect DEF Types, Approval, CopiesOpen, CopiesTyped, DecisionSent, ApprovalBacked, Requests, FeedbackSteps, Loaded, Critical
  <2> QED
    BY <2>3, <2>4, <2>5 DEF Approval
<1>12. ASSUME NEW r \in Requests, Replan(r) PROVE Approval'
  <2>1. \A s \in Requests : s # r => pc'[s] = pc[s] /\ snap'[s] = snap[s] /\ answer'[s] = answer[s]
    BY <1>12, Others DEF RequestStep, Types
  <2>2. TypeOK /\ Replan(r)
    BY <1>12 DEF Types
  <2>3. CopiesOpen'
    BY <2>1, <2>2, ReplanEffect, ReplannedFacts, ReviewFacts DEF Types, Approval, CopiesOpen, CopiesTyped, DecisionSent, ApprovalBacked, Requests, FeedbackSteps, Loaded, Critical
  <2>4. DecisionSent'
    BY <2>1, <2>2, ReplanEffect, ReplannedFacts, ReviewFacts DEF Types, Approval, CopiesOpen, CopiesTyped, DecisionSent, ApprovalBacked, Requests, FeedbackSteps, Loaded, Critical
  <2>5. ApprovalBacked'
    BY <2>1, <2>2, ReplanEffect, ReplannedFacts, ReviewFacts DEF Types, Approval, CopiesOpen, CopiesTyped, DecisionSent, ApprovalBacked, Requests, FeedbackSteps, Loaded, Critical
  <2> QED
    BY <2>3, <2>4, <2>5 DEF Approval
<1>13. ASSUME NEW r \in Requests, Save(r) PROVE Approval'
  <2>1. \A s \in Requests : s # r => pc'[s] = pc[s] /\ snap'[s] = snap[s] /\ answer'[s] = answer[s]
    BY <1>13, Others DEF RequestStep, Types
  <2>2. TypeOK /\ Save(r)
    BY <1>13 DEF Types
  <2>3. CopiesOpen'
    BY <2>1, <2>2, SaveEffect DEF Types, Approval, CopiesOpen, CopiesTyped, DecisionSent, ApprovalBacked, Requests, FeedbackSteps, Loaded, Critical
  <2>4. DecisionSent'
    BY <2>1, <2>2, SaveEffect DEF Types, Approval, CopiesOpen, CopiesTyped, DecisionSent, ApprovalBacked, Requests, FeedbackSteps, Loaded, Critical
  <2>5. ApprovalBacked'
    BY <2>1, <2>2, SaveEffect, ReviewAssumption DEF Types, Approval, CopiesOpen, ApprovalBacked, Requests, FeedbackSteps, Loaded, Critical
  <2> QED
    BY <2>3, <2>4, <2>5 DEF Approval
<1>14. ASSUME NEW r \in Requests, Submit(r) PROVE Approval'
  <2>1. \A s \in Requests : s # r => pc'[s] = pc[s] /\ snap'[s] = snap[s] /\ answer'[s] = answer[s]
    BY <1>14, Others DEF RequestStep, Types
  <2>2. TypeOK /\ Submit(r)
    BY <1>14 DEF Types
  <2>3. CopiesOpen'
    BY <2>1, <2>2, SubmitEffect DEF Types, Approval, CopiesOpen, CopiesTyped, DecisionSent, ApprovalBacked, Requests, FeedbackSteps, Loaded, Critical
  <2>4. DecisionSent'
    BY <2>1, <2>2, SubmitEffect DEF Types, Approval, CopiesOpen, CopiesTyped, DecisionSent, ApprovalBacked, Requests, FeedbackSteps, Loaded, Critical
  <2>5. ApprovalBacked'
    BY <2>1, <2>2, SubmitEffect DEF Types, Approval, CopiesOpen, CopiesTyped, DecisionSent, ApprovalBacked, Requests, FeedbackSteps, Loaded, Critical
  <2> QED
    BY <2>3, <2>4, <2>5 DEF Approval
<1>15. ASSUME NEW r \in Requests, Mark(r) PROVE Approval'
  <2>1. \A s \in Requests : s # r => pc'[s] = pc[s] /\ snap'[s] = snap[s] /\ answer'[s] = answer[s]
    BY <1>15, Others DEF RequestStep, Types
  <2>2. TypeOK /\ Mark(r)
    BY <1>15 DEF Types
  <2>3. CopiesOpen'
    BY <2>1, <2>2, MarkEffect, ApprovedFacts, ReviewFacts DEF Types, Approval, CopiesOpen, CopiesTyped, DecisionSent, ApprovalBacked, Requests, FeedbackSteps, Loaded, Critical
  <2>4. DecisionSent'
    BY <2>1, <2>2, MarkEffect, ApprovedFacts, ReviewFacts DEF Types, Approval, CopiesOpen, CopiesTyped, DecisionSent, ApprovalBacked, Requests, FeedbackSteps, Loaded, Critical
  <2>5. ApprovalBacked'
    BY <2>1, <2>2, MarkEffect, ApprovedFacts, ReviewFacts DEF Types, Approval, CopiesOpen, CopiesTyped, DecisionSent, ApprovalBacked, Requests, FeedbackSteps, Loaded, Critical
  <2> QED
    BY <2>3, <2>4, <2>5 DEF Approval
<1>16. ASSUME NEW r \in Requests, Unlock(r) PROVE Approval'
  BY <1>16 DEF Unlock, Return, Released, Types, Approval, CopiesOpen, CopiesTyped, DecisionSent, ApprovalBacked, Requests, FeedbackSteps, TypeOK, Loaded, Critical, redisVars, workflowVars, requestVars
<1>17. ASSUME NEW r \in Requests, HangUp(r) PROVE Approval'
  BY <1>17 DEF HangUp, Types, Approval, CopiesOpen, CopiesTyped, DecisionSent, ApprovalBacked, Requests, FeedbackSteps, TypeOK, Loaded, Critical, redisVars, workflowVars, requestVars
<1>18. CASE UNCHANGED vars
  BY <1>18 DEF vars, Types, Approval, CopiesOpen, CopiesTyped, DecisionSent, ApprovalBacked, Requests, FeedbackSteps, TypeOK, Loaded, Critical, redisVars, workflowVars, requestVars
<1> QED
  BY <1>1, <1>2, <1>3, <1>4, <1>5, <1>6, <1>7, <1>8, <1>9, <1>10, <1>11, <1>12, <1>13, <1>14, <1>15, <1>16, <1>17, <1>18 DEF Next, RequestStep

(* The bound on rounds.                                                     *)
LEMMA BoundStep ==
    ASSUME Types, Bound, [Next]_vars
    PROVE  Bound'
<1>1. CASE Draft
  <2>1. /\ TypeOK /\ Draft
        /\ workflow = "drafting" => drafts < MaxDrafts
    BY <1>1 DEF Types, Attempts
  <2> QED
    BY <2>1, DraftEffect, NewReviewFacts, ReviewFacts DEF Types, Bound, CopiesBounded, CopiesTyped, Bounded, PlanBounded, Loaded, Critical
<1>2. CASE Report
  BY <1>2 DEF Report, Types, Bound, CopiesBounded, CopiesTyped, Bounded, PlanBounded, TypeOK, Loaded, Critical, redisVars, workflowVars, requestVars
<1>3. CASE Receive
  BY <1>3 DEF Receive, Types, Bound, CopiesBounded, CopiesTyped, Bounded, PlanBounded, TypeOK, Loaded, Critical, redisVars, workflowVars, requestVars
<1>4. CASE TimeOut
  BY <1>4 DEF TimeOut, Types, Bound, CopiesBounded, CopiesTyped, Bounded, PlanBounded, TypeOK, Loaded, Critical, redisVars, workflowVars, requestVars
<1>5. CASE Close
  BY <1>5 DEF Close, Types, Bound, CopiesBounded, CopiesTyped, Bounded, PlanBounded, TypeOK, Loaded, Critical, redisVars, workflowVars, requestVars
<1>6. CASE LockExpires
  BY <1>6 DEF LockExpires, Types, Bound, CopiesBounded, CopiesTyped, Bounded, PlanBounded, TypeOK, Loaded, Critical, redisVars, workflowVars, requestVars
<1>7. CASE ReviewExpires
  BY <1>7 DEF ReviewExpires, Types, Bound, CopiesBounded, CopiesTyped, Bounded, PlanBounded, TypeOK, Loaded, Critical, redisVars, workflowVars, requestVars
<1>8. ASSUME NEW r \in Requests, Send(r) PROVE Bound'
  BY <1>8 DEF Send, Types, Bound, CopiesBounded, CopiesTyped, Bounded, PlanBounded, TypeOK, Loaded, Critical, redisVars, workflowVars, requestVars
<1>9. ASSUME NEW r \in Requests, Load(r) PROVE Bound'
  <2>1. \A s \in Requests : s # r => pc'[s] = pc[s] /\ snap'[s] = snap[s] /\ answer'[s] = answer[s]
    BY <1>9, Others DEF RequestStep, Types
  <2>2. TypeOK /\ Load(r)
    BY <1>9 DEF Types
  <2>3. CopiesBounded'
    BY <2>1, <2>2, LoadEffect, ReviewFacts DEF Types, Bound, CopiesBounded, CopiesTyped, Bounded, PlanBounded, Loaded, Critical
  <2>4. PlanBounded'
    BY <2>1, <2>2, LoadEffect, ReviewFacts DEF Types, Bound, CopiesBounded, CopiesTyped, Bounded, PlanBounded, Loaded, Critical
  <2> QED
    BY <2>3, <2>4 DEF Bound
<1>10. ASSUME NEW r \in Requests, Lock(r) PROVE Bound'
  <2>1. \A s \in Requests : s # r => pc'[s] = pc[s] /\ snap'[s] = snap[s] /\ answer'[s] = answer[s]
    BY <1>10, Others DEF RequestStep, Types
  <2>2. TypeOK /\ Lock(r)
    BY <1>10 DEF Types
  <2>3. CopiesBounded'
    BY <2>1, <2>2, LockEffect DEF Types, Bound, CopiesBounded, CopiesTyped, Bounded, PlanBounded, Loaded, Critical
  <2>4. PlanBounded'
    BY <2>1, <2>2, LockEffect DEF Types, Bound, CopiesBounded, CopiesTyped, Bounded, PlanBounded, Loaded, Critical
  <2> QED
    BY <2>3, <2>4 DEF Bound
<1>11. ASSUME NEW r \in Requests, Check(r) PROVE Bound'
  <2>1. \A s \in Requests : s # r => pc'[s] = pc[s] /\ snap'[s] = snap[s] /\ answer'[s] = answer[s]
    BY <1>11, Others DEF RequestStep, Types
  <2>2. TypeOK /\ Check(r)
    BY <1>11 DEF Types
  <2>3. CopiesBounded'
    BY <2>1, <2>2, CheckEffect DEF Types, Bound, CopiesBounded, CopiesTyped, Bounded, PlanBounded, Loaded, Critical
  <2>4. PlanBounded'
    BY <2>1, <2>2, CheckEffect DEF Types, Bound, CopiesBounded, CopiesTyped, Bounded, PlanBounded, Loaded, Critical
  <2> QED
    BY <2>3, <2>4 DEF Bound
<1>12. ASSUME NEW r \in Requests, Replan(r) PROVE Bound'
  <2>1. \A s \in Requests : s # r => pc'[s] = pc[s] /\ snap'[s] = snap[s] /\ answer'[s] = answer[s]
    BY <1>12, Others DEF RequestStep, Types
  <2>2. TypeOK /\ Replan(r)
    BY <1>12 DEF Types
  <2>3. CopiesBounded'
    BY <2>1, <2>2, ReplanEffect, ReplannedFacts, ReviewFacts DEF Types, Bound, CopiesBounded, CopiesTyped, Bounded, PlanBounded, Loaded, Critical
  <2>4. PlanBounded'
    BY <2>1, <2>2, ReplanEffect, ReplannedFacts, ReviewFacts DEF Types, Bound, CopiesBounded, CopiesTyped, Bounded, PlanBounded, Loaded, Critical
  <2> QED
    BY <2>3, <2>4 DEF Bound
<1>13. ASSUME NEW r \in Requests, Save(r) PROVE Bound'
  <2>1. \A s \in Requests : s # r => pc'[s] = pc[s] /\ snap'[s] = snap[s] /\ answer'[s] = answer[s]
    BY <1>13, Others DEF RequestStep, Types
  <2>2. TypeOK /\ Save(r)
    BY <1>13 DEF Types
  <2>3. CopiesBounded'
    BY <2>1, <2>2, SaveEffect DEF Types, Bound, CopiesBounded, CopiesTyped, Bounded, PlanBounded, Loaded, Critical
  <2>4. PlanBounded'
    BY <2>1, <2>2, SaveEffect DEF Types, Bound, CopiesBounded, CopiesTyped, Bounded, PlanBounded, Loaded, Critical
  <2> QED
    BY <2>3, <2>4 DEF Bound
<1>14. ASSUME NEW r \in Requests, Submit(r) PROVE Bound'
  <2>1. \A s \in Requests : s # r => pc'[s] = pc[s] /\ snap'[s] = snap[s] /\ answer'[s] = answer[s]
    BY <1>14, Others DEF RequestStep, Types
  <2>2. TypeOK /\ Submit(r)
    BY <1>14 DEF Types
  <2>3. CopiesBounded'
    BY <2>1, <2>2, SubmitEffect DEF Types, Bound, CopiesBounded, CopiesTyped, Bounded, PlanBounded, Loaded, Critical
  <2>4. PlanBounded'
    BY <2>1, <2>2, SubmitEffect DEF Types, Bound, CopiesBounded, CopiesTyped, Bounded, PlanBounded, Loaded, Critical
  <2> QED
    BY <2>3, <2>4 DEF Bound
<1>15. ASSUME NEW r \in Requests, Mark(r) PROVE Bound'
  <2>1. \A s \in Requests : s # r => pc'[s] = pc[s] /\ snap'[s] = snap[s] /\ answer'[s] = answer[s]
    BY <1>15, Others DEF RequestStep, Types
  <2>2. TypeOK /\ Mark(r)
    BY <1>15 DEF Types
  <2>3. CopiesBounded'
    BY <2>1, <2>2, MarkEffect, ApprovedFacts, ReviewFacts DEF Types, Bound, CopiesBounded, CopiesTyped, Bounded, PlanBounded, Loaded, Critical
  <2>4. PlanBounded'
    BY <2>1, <2>2, MarkEffect, ApprovedFacts, ReviewFacts DEF Types, Bound, CopiesBounded, CopiesTyped, Bounded, PlanBounded, Loaded, Critical
  <2> QED
    BY <2>3, <2>4 DEF Bound
<1>16. ASSUME NEW r \in Requests, Unlock(r) PROVE Bound'
  BY <1>16 DEF Unlock, Return, Released, Types, Bound, CopiesBounded, CopiesTyped, Bounded, PlanBounded, TypeOK, Loaded, Critical, redisVars, workflowVars, requestVars
<1>17. ASSUME NEW r \in Requests, HangUp(r) PROVE Bound'
  BY <1>17 DEF HangUp, Types, Bound, CopiesBounded, CopiesTyped, Bounded, PlanBounded, TypeOK, Loaded, Critical, redisVars, workflowVars, requestVars
<1>18. CASE UNCHANGED vars
  BY <1>18 DEF vars, Types, Bound, CopiesBounded, CopiesTyped, Bounded, PlanBounded, TypeOK, Loaded, Critical, redisVars, workflowVars, requestVars
<1> QED
  BY <1>1, <1>2, <1>3, <1>4, <1>5, <1>6, <1>7, <1>8, <1>9, <1>10, <1>11, <1>12, <1>13, <1>14, <1>15, <1>16, <1>17, <1>18 DEF Next, RequestStep

(* Every variable has its type, in every reachable state of the review.     *)
THEOREM TypeCorrect == Spec => []TypeOK
<1>1. Init => Types
  BY InitInv
<1>2. Types /\ [Next]_vars => Types'
  BY TypesStep
<1>3. Types => TypeOK
  BY DEF Types
<1> QED
  BY <1>1, <1>2, <1>3, PTL DEF Spec

(* The lock of review.go excludes: two requests are past it together only   *)
(* if the lock of one of them expired in use.                               *)
THEOREM ExclusionCorrect == Spec => []Exclusive
<1>1. Init => Types /\ LockHeld
  BY InitInv
<1>2. Types /\ LockHeld /\ [Next]_vars => (Types /\ LockHeld)'
  BY TypesStep, LockHeldStep
<1>3. LockHeld => Exclusive
  BY DEF LockHeld, Exclusive
<1> QED
  BY <1>1, <1>2, <1>3, PTL DEF Spec

(* An approval that is confirmed to somebody was sent to the workflow.      *)
THEOREM ApprovalCorrect == Spec => []ApprovalBacked
<1>1. Init => Types /\ Approval
  BY InitInv
<1>2. Types /\ Approval /\ [Next]_vars => (Types /\ Approval)'
  BY TypesStep, ApprovalStep
<1>3. Approval => ApprovalBacked
  BY DEF Approval
<1> QED
  BY <1>1, <1>2, <1>3, PTL DEF Spec

(* No conversation gets longer than MaxReviewRounds.                        *)
THEOREM BoundCorrect == Spec => []PlanBounded
<1>1. Init => Types /\ Bound
  BY InitInv
<1>2. Types /\ Bound /\ [Next]_vars => (Types /\ Bound)'
  BY TypesStep, BoundStep
<1>3. Bound => PlanBounded
  BY DEF Bound
<1> QED
  BY <1>1, <1>2, <1>3, PTL DEF Spec
=============================================================================
