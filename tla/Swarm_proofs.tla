---------------------------- MODULE Swarm_proofs ----------------------------
(***************************************************************************)
(* Proofs about Swarm, for any number of agents and tasks.                 *)
(*                                                                         *)
(* Swarm implements FanOut (FansOut), no agent is lost or counted twice    *)
(* (Accounted), what an agent has answered counts (AnswersKept), tasks are *)
(* begun in the order of their dependencies (DependencyOrder), and agents  *)
(* work a bounded number of rounds (BoundedWork).  Of these, all but the   *)
(* order of tasks rest on ReportInv: an agent's end leads to one entry in  *)
(* the lead's queue, and until the lead closes up it holds no other result *)
(* of that agent.                                                          *)
(***************************************************************************)
EXTENDS Swarm, FiniteSetTheorems, SequenceTheorems, TLAPS

IdleEntry == [agent : Agents, text : BOOLEAN]
DoneEntry == [agent : Agents, result : {"good", "bad"}, rounds : Nat]

(* The types of what an agent's end is about.                               *)
Types ==
    /\ spawned \subseteq Agents
    /\ snaps \subseteq spawned
    /\ results \in [Agents -> {None, "good", "bad"}]
    /\ completed \in Nat
    /\ idleQ \in Seq(IdleEntry)
    /\ doneQ \in Seq(DoneEntry)
    /\ apc \in [Agents -> {"unborn", "poll", "act", "idle", "over"}]
    /\ iter \in [Agents -> Nat]

(* The lead has not begun to close up.                                      *)
Open == pc \notin {"close", "reply", "synthesize", "end"}

Stages ==
    /\ pc # "end" => verdict = None
    /\ pc = "plan" => spawned = {}
    /\ pc \in {"reply", "synthesize"} => Usable

Born ==
    /\ \A a \in Agents : apc[a] = "unborn" <=> a \notin spawned
    /\ \A i \in 1 .. Len(idleQ) : idleQ[i].agent \in spawned
    /\ \A i \in 1 .. Len(doneQ) : doneQ[i].agent \in spawned /\ apc[doneQ[i].agent] = "over"

(* A result that the lead has still to take is the only one of its agent.   *)
Once ==
    Open =>
        /\ \A a \in Agents : apc[a] # "over" => results[a] = None
        /\ \A i \in 1 .. Len(doneQ) :
              /\ results[doneQ[i].agent] = None
              /\ \A j \in 1 .. Len(doneQ) : i # j => doneQ[i].agent # doneQ[j].agent

ReportInv == Types /\ Stages /\ Born /\ Once

IInv == ReportInv /\ Accounted

-----------------------------------------------------------------------------
(* What the steps of the lead do to its agents.                             *)

team == <<spawned, results, completed, doneQ, apc, iter>>

(* The lead goes on, and may have read idle signals.                        *)
Reads ==
    /\ UNCHANGED <<team, verdict>>
    /\ idleQ' \in {idleQ, <<>>} \/ (idleQ # <<>> /\ idleQ' = Tail(idleQ))
    /\ snaps' \subseteq snaps \cup WithText(ToSet(idleQ))
    /\ pc # "end" /\ pc' \notin {"plan", "end"}
    /\ pc' = "reply" => Usable
    /\ pc' = "synthesize" => pc = "reply"
    /\ pc \in {"close", "reply", "synthesize"} =>
          pc' \in {"close", "reply", "synthesize"} /\ UNCHANGED snaps

(* It ends, with a verdict.                                                 *)
Returns ==
    /\ UNCHANGED <<team, idleQ, snaps>>
    /\ pc # "end" /\ pc' = "end"
    /\ \/ verdict' = "answer" /\ pc \in {"plan", "reply", "synthesize"}
       \/ verdict' = "failed"

(* It spawns an agent, or tries to.                                         *)
Spawns(a) ==
    /\ pc \in {"hire", "act"} /\ pc' = pc
    /\ UNCHANGED <<results, completed, iter, verdict, idleQ, snaps>>
    /\ a \notin spawned /\ spawned' = spawned \cup {a}
    /\ \/ apc' = [apc EXCEPT ![a] = "poll"] /\ UNCHANGED doneQ
       \/ apc' = [apc EXCEPT ![a] = "over"] /\ FailedStart(a)

(* It takes a result.                                                       *)
Collects ==
    /\ pc \in {"wait", "drain"} /\ pc' \in {"forward", "drain"}
    /\ doneQ # <<>> /\ doneQ' = Tail(doneQ)
    /\ results' = [results EXCEPT ![Head(doneQ).agent] = Head(doneQ).result]
    /\ completed' = completed + 1
    /\ UNCHANGED <<spawned, apc, iter, verdict, idleQ, snaps>>

(* It sends the agents home and takes what they last said.                  *)
WrapsUp ==
    /\ pc = "judge" /\ pc' = "close"
    /\ results' = Wrapped(snaps)
    /\ UNCHANGED <<spawned, completed, doneQ, apc, iter, verdict, idleQ, snaps>>

LEMMA HeadInSet ==
    ASSUME Types, idleQ # <<>>
    PROVE  Head(idleQ) \in ToSet(idleQ)
<1>1. Len(idleQ) \in Nat /\ Len(idleQ) # 0 /\ Head(idleQ) = idleQ[1]
  BY EmptySeq DEF Types
<1> QED
  BY <1>1 DEF ToSet, Types

LEMMA LoopReads ==
    ASSUME Types, WakeIdle \/ WakeCheckpoint \/ WakeHuman \/ Forward \/ Coalesce \/ DrainIdle
    PROVE  Reads
<1> USE DEF Reads, team, teamVars, signalVars, agentVars, leadVars
<1>1. CASE WakeIdle
  <2>1. WithText({Head(idleQ)}) \subseteq WithText(ToSet(idleQ))
    BY <1>1, HeadInSet DEF WakeIdle, WithText
  <2> QED
    BY <1>1, <2>1 DEF WakeIdle, Waiting, Woken, FinishTasksOf, SetIdle
<1>2. CASE WakeCheckpoint \/ WakeHuman
  BY <1>2 DEF WakeCheckpoint, WakeHuman, Waiting, Woken
<1>3. CASE Forward
  BY <1>3 DEF Forward
<1>4. CASE Coalesce
  BY <1>4 DEF Coalesce, FinishTasksOf, SetIdle
<1>5. CASE DrainIdle
  BY <1>5 DEF DrainIdle
<1> QED
  BY <1>1, <1>2, <1>3, <1>4, <1>5

Judges == JudgeBudget \/ JudgeIdly \/ JudgeAsk \/ Think \/ AllReported \/ DecisionEnds \/ HistoryFull

Orders ==
    \/ \E a \in Agents, t \in Tasks \cup {None} : DoAssign(a, t)
    \/ \E as \in {{a} : a \in Agents} \cup {Broadcast} : DoMessage(as)
    \/ \E new, cancelled \in SUBSET Tasks : DoRevise(new, cancelled)
    \/ \E a \in Agents : DoShutdown(a)

LEMMA OtherReads ==
    ASSUME Plan \/ StartMonitoring \/ Judges \/ Orders \/ Accept \/ DrainEnds
    PROVE  Reads
<1> USE DEF Reads, team, teamVars, signalVars, agentVars, leadVars
<1>1. CASE Plan \/ StartMonitoring
  BY <1>1 DEF Plan, StartMonitoring
<1>2. CASE JudgeBudget \/ JudgeIdly \/ JudgeAsk
  BY <1>2 DEF JudgeBudget, JudgeIdly, JudgeAsk, JudgeOn, Judging, Leave
<1>3. CASE Think \/ AllReported \/ DecisionEnds \/ HistoryFull
  BY <1>3 DEF Think, AllReported, DecisionEnds, HistoryFull, Leave
<1>4. CASE Accept \/ DrainEnds
  BY <1>4 DEF Accept, DrainEnds, Shutdown, Leave
<1>5. CASE Orders
  <2>1. ASSUME NEW a \in Agents, NEW t \in Tasks \cup {None}, DoAssign(a, t) PROVE Reads
    BY <2>1 DEF DoAssign, Acting
  <2>2. ASSUME NEW as, DoMessage(as) PROVE Reads
    BY <2>2 DEF DoMessage, Acting
  <2>3. ASSUME NEW new, NEW cancelled, DoRevise(new, cancelled) PROVE Reads
    BY <2>3 DEF DoRevise, Acting
  <2>4. ASSUME NEW a \in Agents, DoShutdown(a) PROVE Reads
    BY <2>4 DEF DoShutdown, Acting
  <2> QED
    BY <1>5, <2>1, <2>2, <2>3, <2>4 DEF Orders
<1> QED
  BY <1>1, <1>2, <1>3, <1>4, <1>5 DEF Judges

LEMMA LeadCases ==
    ASSUME Types, LeadStep
    PROVE  Reads \/ Returns \/ (\E a \in Agents : Spawns(a)) \/ Collects \/ WrapsUp
<1> USE DEF team, teamVars, signalVars, agentVars, leadVars
<1>1. CASE PlanEnds \/ NobodyHired
  BY <1>1 DEF PlanEnds, NobodyHired, Returns
<1>2. CASE CloseUp
  <2>1. CASE Usable
    BY <1>2, <2>1 DEF CloseUp, Reads
  <2>2. CASE ~Usable
    BY <1>2, <2>2 DEF CloseUp, Returns
  <2> QED
    BY <2>1, <2>2
<1>3. CASE Reply
  <2>1. CASE pc' = "end"
    BY <1>3, <2>1 DEF Reply, Returns
  <2>2. CASE pc' = "synthesize" /\ UNCHANGED verdict
    BY <1>3, <2>2 DEF Reply, Reads
  <2> QED
    BY <1>3, <2>1, <2>2 DEF Reply
<1>4. CASE Synthesize
  BY <1>4 DEF Synthesize, Returns
<1>5. ASSUME NEW a \in Agents, NEW t, SpawnAgent(a, t), pc \in {"hire", "act"}, pc' = pc,
             UNCHANGED verdict
      PROVE  Spawns(a)
  BY <1>5 DEF SpawnAgent, Spawns
<1>6. ASSUME NEW a \in Agents, NEW t \in Tasks \cup {None}, Hire(a, t) \/ DoSpawn(a, t)
      PROVE  Spawns(a)
  BY <1>5, <1>6 DEF Hire, DoSpawn, Acting
<1>7. CASE WakeCompleted
  BY <1>7 DEF WakeCompleted, CollectResult, Waiting, Woken, Collects
<1>8. CASE DrainResult
  BY <1>8 DEF DrainResult, CollectResult, Collects
<1>9. CASE JudgeWrapUp
  BY <1>9 DEF JudgeWrapUp, Judging, Leave, WrapsUp
<1> QED
  BY <1>1, <1>2, <1>3, <1>4, <1>6, <1>7, <1>8, <1>9, LoopReads, OtherReads
  DEF LeadStep, Judges, Orders

-----------------------------------------------------------------------------
(* What the steps of an agent do.                                           *)

Working == {"poll", "act", "idle"}

Apart == UNCHANGED <<spawned, results, completed, verdict, pc, snaps>>

GoesOn(a) ==
    /\ Apart /\ apc[a] \in Working
    /\ \E p \in Working : apc' = [apc EXCEPT ![a] = p]
    /\ iter' \in {iter, [iter EXCEPT ![a] = @ + 1]}
    /\ UNCHANGED <<doneQ, late>>
    /\ UNCHANGED idleQ \/ \E text \in BOOLEAN : idleQ' = Append(idleQ, [agent |-> a, text |-> text])

Finishes(a) ==
    /\ Apart /\ apc[a] \in Working
    /\ apc' = [apc EXCEPT ![a] = "over"]
    /\ iter' \in {iter, [iter EXCEPT ![a] = @ + 1]}
    /\ UNCHANGED idleQ
    /\ \E result \in {"good", "bad"}, rounds \in Nat :
          /\ doneQ' = Append(doneQ, [agent |-> a, rounds |-> rounds, result |-> result])
          /\ a \in snaps => result = "good"
    /\ late' = IF a \notin snaps /\ a \in WithText(ToSet(idleQ)) THEN late \cup {a} ELSE late

LEMMA EndFinishes ==
    ASSUME Types, NEW a \in Agents, NEW result \in {"good", "bad"}, NEW rounds \in Nat,
           End(a, result, rounds), Apart, apc[a] \in Working, UNCHANGED idleQ,
           iter' \in {iter, [iter EXCEPT ![a] = @ + 1]}
    PROVE  Finishes(a)
  BY DEF End, Finishes

LEMMA NextIterationCases ==
    ASSUME Types, NEW a \in Agents, NextIteration(a), Apart, apc[a] \in Working, UNCHANGED idleQ
    PROVE  GoesOn(a) \/ Finishes(a)
<1>1. iter[a] + 1 \in Nat
  BY DEF Types
<1>2. CASE iter[a] + 1 < limit'[a]
  BY <1>2 DEF NextIteration, GoesOn, Working
<1>3. CASE ~(iter[a] + 1 < limit'[a])
  BY <1>1, <1>3, EndFinishes DEF NextIteration
<1> QED
  BY <1>2, <1>3

LEMMA AgentCases ==
    ASSUME Types, NEW a \in Agents, AgentStep(a)
    PROVE  GoesOn(a) \/ Finishes(a)
<1> USE DEF Others, leadVars, teamVars, Apart, Working
<1>1. iter[a] \in Nat /\ iter[a] + 1 \in Nat
  BY DEF Types
<1>2. CASE Poll(a)
  <2>1. CASE a \in stop
    BY <1>1, <1>2, <2>1, EndFinishes DEF Poll
  <2>2. CASE a \notin stop
    BY <1>2, <2>2 DEF Poll, GoesOn
  <2> QED
    BY <2>1, <2>2
<1>3. CASE Work(a) \/ \E b \in Agents \ {a} : Send(a, b)
  BY <1>3, NextIterationCases DEF Work, Send
<1>4. CASE GiveUp(a) \/ TakeShutdown(a) \/ IdleTimeout(a)
  BY <1>1, <1>4, EndFinishes DEF GiveUp, TakeShutdown, IdleTimeout
<1>5. CASE StepFails(a) \/ Kill(a)
  BY <1>1, <1>5, EndFinishes DEF StepFails, Kill
<1>6. CASE ForcedIdle(a)
  BY <1>6 DEF ForcedIdle, Report, GoesOn
<1>7. ASSUME NEW text \in BOOLEAN, GoIdle(a, text) PROVE GoesOn(a) \/ Finishes(a)
  <2>1. CASE a \in stop
    BY <1>1, <1>7, <2>1, EndFinishes DEF GoIdle
  <2>2. CASE a \notin stop
    BY <1>7, <2>2 DEF GoIdle, Report, GoesOn
  <2> QED
    BY <2>1, <2>2
<1>8. CASE TakeOrder(a) \/ TakeWake(a)
  BY <1>8, NextIterationCases DEF TakeOrder, TakeWake
<1> QED
  BY <1>2, <1>3, <1>4, <1>5, <1>6, <1>7, <1>8 DEF AgentStep

-----------------------------------------------------------------------------
(* Types.                                                                   *)

LEMMA ReadsTypes ==
    ASSUME Types, Born, Reads
    PROVE  Types'
<1>1. idleQ' \in Seq(IdleEntry)
  <2>1. idleQ # <<>> => Tail(idleQ) \in Seq(IdleEntry)
    BY HeadTailProperties DEF Types
  <2>2. <<>> \in Seq(IdleEntry)
    BY EmptySeq
  <2> QED
    BY <2>1, <2>2 DEF Reads, Types
<1>2. snaps' \subseteq spawned
  <2>1. WithText(ToSet(idleQ)) \subseteq spawned
    BY LenProperties DEF ToSet, WithText, Born, Types
  <2> QED
    BY <2>1 DEF Reads, Types
<1> QED
  BY <1>1, <1>2 DEF Types, Reads, team

LEMMA SpawnsTypes ==
    ASSUME Types, NEW a \in Agents, Spawns(a)
    PROVE  Types'
<1>1. apc' \in [Agents -> {"unborn", "poll", "act", "idle", "over"}]
  BY DEF Types, Spawns
<1>2. doneQ' \in Seq(DoneEntry)
  <2> DEFINE e == [agent |-> a, result |-> "bad", rounds |-> 0]
  <2>1. e \in DoneEntry
    BY DEF DoneEntry
  <2> HIDE DEF e
  <2>2. Append(doneQ, e) \in Seq(DoneEntry)
    BY <2>1, AppendProperties DEF Types
  <2>3. doneQ' = doneQ \/ doneQ' = Append(doneQ, e)
    BY DEF Spawns, FailedStart, e
  <2> QED
    BY <2>2, <2>3 DEF Types
<1> QED
  BY <1>1, <1>2 DEF Types, Spawns

LEMMA CollectsTypes ==
    ASSUME Types, Collects
    PROVE  /\ Types'
           /\ Head(doneQ) \in DoneEntry /\ Head(doneQ) = doneQ[1]
           /\ Len(doneQ) \in Nat \ {0} /\ Len(doneQ') = Len(doneQ) - 1
           /\ \A i \in 1 .. Len(doneQ') : i + 1 \in 1 .. Len(doneQ) /\ doneQ'[i] = doneQ[i + 1]
<1>1. /\ Head(doneQ) \in DoneEntry /\ doneQ' \in Seq(DoneEntry)
      /\ Len(doneQ') = Len(doneQ) - 1
      /\ \A i \in 1 .. Len(doneQ') : doneQ'[i] = doneQ[i + 1]
  BY HeadTailProperties DEF Types, Collects
<1>2. Len(doneQ) \in Nat \ {0}
  BY EmptySeq, LenProperties DEF Types, Collects
<1>3. Head(doneQ) = doneQ[1]
  BY DEF Types, Collects
<1>4. results' \in [Agents -> {None, "good", "bad"}]
  BY <1>1 DEF Types, Collects, DoneEntry
<1> QED
  BY <1>1, <1>2, <1>3, <1>4 DEF Types, Collects

LEMMA AgentTypes ==
    ASSUME Types, Born, NEW a \in Agents, GoesOn(a) \/ Finishes(a)
    PROVE  /\ Types'
           /\ GoesOn(a) => \A i \in 1 .. Len(idleQ') : idleQ'[i].agent \in spawned
           /\ Finishes(a) => /\ Len(doneQ) \in Nat /\ Len(doneQ') = Len(doneQ) + 1
                             /\ \A i \in 1 .. Len(doneQ) : doneQ'[i] = doneQ[i]
                             /\ doneQ'[Len(doneQ) + 1].agent = a
<1>1. apc' \in [Agents -> {"unborn", "poll", "act", "idle", "over"}]
  BY DEF Types, GoesOn, Finishes, Working
<1>2. iter' \in [Agents -> Nat]
  <2>1. [iter EXCEPT ![a] = @ + 1] \in [Agents -> Nat]
    BY DEF Types
  <2>2. iter' = iter \/ iter' = [iter EXCEPT ![a] = @ + 1]
    BY DEF GoesOn, Finishes
  <2> QED
    BY <2>1, <2>2 DEF Types
<1>3. CASE GoesOn(a)
  <2>1. \A text \in BOOLEAN : [agent |-> a, text |-> text] \in IdleEntry
    BY DEF IdleEntry
  <2>2. idleQ' \in Seq(IdleEntry)
    <3>1. \A text \in BOOLEAN : Append(idleQ, [agent |-> a, text |-> text]) \in Seq(IdleEntry)
      BY <2>1, AppendProperties DEF Types
    <3>2. idleQ' = idleQ \/ \E text \in BOOLEAN : idleQ' = Append(idleQ, [agent |-> a, text |-> text])
      BY <1>3 DEF GoesOn
    <3> QED
      BY <3>1, <3>2 DEF Types
  <2>3. a \in spawned
    BY <1>3 DEF GoesOn, Born, Working
  <2>4. ASSUME NEW text \in BOOLEAN, idleQ' = Append(idleQ, [agent |-> a, text |-> text])
        PROVE  \A i \in 1 .. Len(idleQ') : idleQ'[i].agent \in spawned
    <3>1. /\ Len(idleQ') = Len(idleQ) + 1 /\ Len(idleQ) \in Nat
          /\ \A i \in 1 .. Len(idleQ) : idleQ'[i] = idleQ[i]
          /\ idleQ'[Len(idleQ) + 1] = [agent |-> a, text |-> text]
      BY <2>1, <2>4, AppendProperties, LenProperties DEF Types
    <3> QED
      BY <2>3, <3>1 DEF Born
  <2>5. \A i \in 1 .. Len(idleQ') : idleQ'[i].agent \in spawned
    BY <1>3, <2>4 DEF GoesOn, Born
  <2>6. ~Finishes(a)
    BY <1>3 DEF GoesOn, Finishes, Types, Working
  <2> QED
    BY <1>1, <1>2, <1>3, <2>2, <2>5, <2>6 DEF GoesOn, Apart, Types
<1>4. CASE Finishes(a)
  <2>1. PICK result \in {"good", "bad"}, rounds \in Nat :
          doneQ' = Append(doneQ, [agent |-> a, rounds |-> rounds, result |-> result])
    BY <1>4 DEF Finishes
  <2>2. [agent |-> a, rounds |-> rounds, result |-> result] \in DoneEntry
    BY DEF DoneEntry
  <2>3. /\ doneQ' \in Seq(DoneEntry)
        /\ Len(doneQ) \in Nat /\ Len(doneQ') = Len(doneQ) + 1
        /\ \A i \in 1 .. Len(doneQ) : doneQ'[i] = doneQ[i]
        /\ doneQ'[Len(doneQ) + 1] = [agent |-> a, rounds |-> rounds, result |-> result]
    BY <2>1, <2>2, AppendProperties, LenProperties DEF Types
  <2>4. ~GoesOn(a)
    BY <1>4 DEF GoesOn, Finishes, Types, Working
  <2> QED
    BY <1>1, <1>2, <1>4, <2>3, <2>4 DEF Finishes, Apart, Types
<1> QED
  BY <1>3, <1>4

-----------------------------------------------------------------------------
(* ReportInv is inductive.                                                  *)

LEMMA ReadsKeeps ==
    ASSUME ReportInv, Reads
    PROVE  ReportInv'
<1>1. Types'
  BY ReadsTypes DEF ReportInv
<1>2. Stages'
  BY DEF ReportInv, Stages, Usable, Reads, team
<1>3. Born'
  <2>1. CASE idleQ' = idleQ
    BY <2>1 DEF ReportInv, Born, Reads, team
  <2>2. CASE idleQ' = <<>>
    BY <2>2 DEF ReportInv, Born, Reads, team
  <2>3. CASE idleQ # <<>> /\ idleQ' = Tail(idleQ)
    <3>1. /\ Len(idleQ) \in Nat /\ Len(idleQ') = Len(idleQ) - 1
          /\ \A i \in 1 .. Len(idleQ') : idleQ'[i] = idleQ[i + 1]
      BY <2>3, HeadTailProperties, LenProperties DEF ReportInv, Types
    <3>2. \A i \in 1 .. Len(idleQ') : i + 1 \in 1 .. Len(idleQ)
      BY <3>1
    <3> QED
      BY <3>1, <3>2 DEF ReportInv, Born, Reads, team
  <2> QED
    BY <2>1, <2>2, <2>3 DEF Reads
<1>4. Once'
  BY DEF ReportInv, Once, Open, Reads, team
<1> QED
  BY <1>1, <1>2, <1>3, <1>4 DEF ReportInv

LEMMA ReturnsKeeps ==
    ASSUME ReportInv, Returns
    PROVE  ReportInv'
  BY DEF ReportInv, Types, Stages, Born, Once, Open, Usable, Returns, team

LEMMA SpawnsKeeps ==
    ASSUME ReportInv, NEW a \in Agents, Spawns(a)
    PROVE  ReportInv'
<1>1. Types'
  BY SpawnsTypes DEF ReportInv
<1>2. Stages'
  BY DEF ReportInv, Stages, Usable, Spawns
<1>3. apc[a] = "unborn"
  BY DEF ReportInv, Born, Spawns
<1>4. \A b \in Agents : apc'[b] = "unborn" <=> b \notin spawned'
  BY DEF ReportInv, Types, Born, Spawns
<1>5. \A b \in Agents : apc[b] = "over" => apc'[b] = "over"
  BY <1>3 DEF ReportInv, Types, Spawns
<1>6. Len(doneQ) \in Nat /\ spawned \subseteq Agents
  BY LenProperties DEF ReportInv, Types
<1>7. CASE UNCHANGED doneQ
  <2>1. Born'
    BY <1>4, <1>5, <1>6, <1>7 DEF ReportInv, Born, Spawns
  <2>2. \A b \in Agents : apc'[b] # "over" => apc[b] # "over"
    BY <1>5
  <2>3. Once'
    BY <1>7, <2>2 DEF ReportInv, Once, Open, Spawns
  <2> QED
    BY <1>1, <1>2, <2>1, <2>3 DEF ReportInv
<1>8. CASE FailedStart(a)
  <2> DEFINE e == [agent |-> a, result |-> "bad", rounds |-> 0]
  <2>1. e \in DoneEntry /\ e.agent = a
    BY DEF DoneEntry
  <2>2. doneQ' = Append(doneQ, e)
    BY <1>8 DEF FailedStart
  <2> HIDE DEF e
  <2>3. /\ Len(doneQ') = Len(doneQ) + 1
        /\ \A i \in 1 .. Len(doneQ) : doneQ'[i] = doneQ[i]
        /\ doneQ'[Len(doneQ) + 1] = e
    BY <2>1, <2>2, AppendProperties DEF ReportInv, Types
  <2>4. \A i \in 1 .. Len(doneQ') : i \in 1 .. Len(doneQ) \/ i = Len(doneQ) + 1
    BY <1>6, <2>3
  <2>5. CASE doneQ' = doneQ
    BY <1>6, <2>3, <2>5
  <2>6. CASE apc' = [apc EXCEPT ![a] = "over"]
    <3>1. apc'[a] = "over"
      BY <2>6 DEF ReportInv, Types
    <3>2. Born'
      BY <1>4, <1>5, <1>6, <2>1, <2>3, <2>4, <3>1 DEF ReportInv, Born, Spawns
    <3>3. \A i \in 1 .. Len(doneQ) : doneQ[i].agent # a
      BY DEF ReportInv, Born, Spawns
    <3>4. Open /\ results' = results /\ results[a] = None
      BY <1>3 DEF ReportInv, Once, Open, Spawns
    <3>5. \A b \in Agents : apc'[b] # "over" => results'[b] = None
      BY <1>5, <3>4 DEF ReportInv, Once
    <3>6. \A i \in 1 .. Len(doneQ') : results'[doneQ'[i].agent] = None
      BY <2>1, <2>3, <2>4, <3>4 DEF ReportInv, Once
    <3>7. \A i, j \in 1 .. Len(doneQ') : i # j => doneQ'[i].agent # doneQ'[j].agent
      BY <2>1, <2>3, <2>4, <3>3, <3>4 DEF ReportInv, Once
    <3> QED
      BY <1>1, <1>2, <3>2, <3>5, <3>6, <3>7 DEF ReportInv, Once
  <2> QED
    BY <2>5, <2>6 DEF Spawns
<1> QED
  BY <1>7, <1>8 DEF Spawns

LEMMA CollectsKeeps ==
    ASSUME ReportInv, Collects
    PROVE  ReportInv'
<1> DEFINE h == doneQ[1].agent
<1>1. /\ Types'
      /\ Head(doneQ) \in DoneEntry /\ Head(doneQ) = doneQ[1]
      /\ Len(doneQ) \in Nat \ {0} /\ Len(doneQ') = Len(doneQ) - 1
      /\ \A i \in 1 .. Len(doneQ') : i + 1 \in 1 .. Len(doneQ) /\ doneQ'[i] = doneQ[i + 1]
  BY CollectsTypes DEF ReportInv
<1>2. Stages'
  BY DEF ReportInv, Stages, Collects
<1>3. Born'
  BY <1>1 DEF ReportInv, Born, Collects
<1>4. h \in Agents /\ apc[h] = "over"
  BY <1>1 DEF ReportInv, Born, DoneEntry
<1>5. \A b \in Agents : b # h => results'[b] = results[b]
  BY <1>1 DEF ReportInv, Types, Collects
<1>6. \A i \in 1 .. Len(doneQ') : doneQ'[i].agent # h /\ doneQ'[i].agent \in Agents
  <2> SUFFICES ASSUME NEW i \in 1 .. Len(doneQ')
               PROVE  doneQ'[i].agent # h /\ doneQ'[i].agent \in Agents
    OBVIOUS
  <2>1. i + 1 \in 1 .. Len(doneQ) /\ i + 1 # 1 /\ 1 \in 1 .. Len(doneQ)
    BY <1>1
  <2>2. doneQ[i + 1].agent # h
    BY <2>1 DEF ReportInv, Once, Open, Collects
  <2>3. doneQ[i + 1].agent \in spawned
    BY <2>1 DEF ReportInv, Born
  <2>4. doneQ'[i] = doneQ[i + 1]
    BY <1>1
  <2> QED
    BY <2>2, <2>3, <2>4 DEF ReportInv, Types
<1>7. \A b \in Agents : apc'[b] # "over" => results'[b] = None
  BY <1>4, <1>5 DEF ReportInv, Once, Open, Collects
<1>8. \A i \in 1 .. Len(doneQ') : results'[doneQ'[i].agent] = None
  BY <1>1, <1>5, <1>6 DEF ReportInv, Once, Open, Collects
<1>9. \A i, j \in 1 .. Len(doneQ') : i # j => doneQ'[i].agent # doneQ'[j].agent
  BY <1>1 DEF ReportInv, Once, Open, Collects
<1> QED
  BY <1>1, <1>2, <1>3, <1>7, <1>8, <1>9 DEF ReportInv, Once

LEMMA WrapsUpKeeps ==
    ASSUME ReportInv, WrapsUp
    PROVE  ReportInv'
<1>1. results' \in [Agents -> {None, "good", "bad"}]
  BY DEF ReportInv, Types, WrapsUp, Wrapped
<1> QED
  BY <1>1 DEF ReportInv, Types, Stages, Born, Once, Open, WrapsUp

LEMMA AgentKeeps ==
    ASSUME ReportInv, NEW a \in Agents, GoesOn(a) \/ Finishes(a)
    PROVE  ReportInv'
<1>1. Types'
  BY AgentTypes DEF ReportInv
<1>2. Stages'
  BY DEF ReportInv, Stages, Usable, GoesOn, Finishes, Apart
<1>3. spawned' = spawned /\ results' = results /\ pc' = pc /\ apc[a] \in Working
  BY DEF GoesOn, Finishes, Apart
<1>4. a \in spawned
  BY <1>3 DEF ReportInv, Born, Working
<1>5. \A b \in Agents : b # a => apc'[b] = apc[b]
  BY DEF ReportInv, Types, GoesOn, Finishes
<1>6. spawned \subseteq Agents /\ Len(doneQ) \in Nat
  BY LenProperties DEF ReportInv, Types
<1>7. \A i \in 1 .. Len(doneQ) : doneQ[i].agent # a
  BY <1>3 DEF ReportInv, Born, Working
<1>8. CASE GoesOn(a)
  <2>1. apc'[a] \in Working /\ doneQ' = doneQ
    BY <1>8 DEF GoesOn, ReportInv, Types, Working
  <2>2. \A b \in Agents : apc'[b] = "unborn" <=> b \notin spawned'
    BY <1>3, <1>4, <1>5, <2>1 DEF ReportInv, Born, Working
  <2>3. \A i \in 1 .. Len(idleQ') : idleQ'[i].agent \in spawned
    BY <1>8, AgentTypes DEF ReportInv
  <2>4. Born'
    BY <1>3, <1>5, <1>6, <1>7, <2>1, <2>2, <2>3 DEF ReportInv, Born
  <2>5. Once'
    BY <1>3, <1>5, <2>1 DEF ReportInv, Once, Open, Working
  <2> QED
    BY <1>1, <1>2, <2>4, <2>5 DEF ReportInv
<1>9. CASE Finishes(a)
  <2>1. apc'[a] = "over" /\ idleQ' = idleQ
    BY <1>9 DEF Finishes, ReportInv, Types
  <2>2. \A b \in Agents : apc'[b] = "unborn" <=> b \notin spawned'
    BY <1>3, <1>4, <1>5, <2>1 DEF ReportInv, Born
  <2>3. /\ Len(doneQ') = Len(doneQ) + 1
        /\ \A i \in 1 .. Len(doneQ) : doneQ'[i] = doneQ[i]
        /\ doneQ'[Len(doneQ) + 1].agent = a
    BY <1>9, AgentTypes DEF ReportInv
  <2>4. \A i \in 1 .. Len(doneQ') : i \in 1 .. Len(doneQ) \/ i = Len(doneQ) + 1
    BY <1>6, <2>3
  <2>5. Born'
    BY <1>3, <1>4, <1>5, <1>6, <1>7, <2>1, <2>2, <2>3, <2>4 DEF ReportInv, Born
  <2>6. Once'
    <3> SUFFICES ASSUME Open
                 PROVE  /\ \A b \in Agents : apc'[b] # "over" => results'[b] = None
                        /\ \A i \in 1 .. Len(doneQ') : results'[doneQ'[i].agent] = None
                        /\ \A i, j \in 1 .. Len(doneQ') :
                              i # j => doneQ'[i].agent # doneQ'[j].agent
      BY <1>3 DEF Once, Open
    <3>1. results[a] = None
      BY <1>3 DEF ReportInv, Once, Working
    <3>2. \A b \in Agents : apc'[b] # "over" => results'[b] = None
      BY <1>3, <1>5, <2>1 DEF ReportInv, Once
    <3>3. \A i \in 1 .. Len(doneQ') : results'[doneQ'[i].agent] = None
      BY <1>3, <2>3, <2>4, <3>1 DEF ReportInv, Once
    <3>4. \A i, j \in 1 .. Len(doneQ') : i # j => doneQ'[i].agent # doneQ'[j].agent
      BY <1>7, <2>3, <2>4 DEF ReportInv, Once
    <3> QED
      BY <3>2, <3>3, <3>4
  <2> QED
    BY <1>1, <1>2, <2>5, <2>6 DEF ReportInv
<1> QED
  BY <1>8, <1>9

LEMMA InitReports ==
    Init => ReportInv
<1> SUFFICES ASSUME Init PROVE ReportInv
  OBVIOUS
<1>1. <<>> \in Seq(IdleEntry) /\ <<>> \in Seq(DoneEntry) /\ Len(<<>>) = 0
  BY EmptySeq
<1> QED
  BY <1>1 DEF Init, ReportInv, Types, Stages, Born, Once, Open

LEMMA StepReports ==
    ASSUME ReportInv, [Next]_vars
    PROVE  ReportInv'
<1>1. CASE LeadStep
  BY <1>1, LeadCases, ReadsKeeps, ReturnsKeeps, SpawnsKeeps, CollectsKeeps, WrapsUpKeeps
  DEF ReportInv
<1>2. ASSUME NEW a \in Agents, AgentStep(a) PROVE ReportInv'
  BY <1>2, AgentCases, AgentKeeps DEF ReportInv
<1>3. CASE UNCHANGED vars
  BY <1>3 DEF vars, leadVars, teamVars, signalVars, agentVars, ReportInv, Types, Stages, Born,
              Once, Open, Usable
<1> QED
  BY <1>1, <1>2, <1>3 DEF Next

(* What the swarm holds of its agents fits together: every end of an agent  *)
(* is one entry of the completion channel, whose result no other has        *)
(* preceded.                                                                *)
THEOREM ReportsFit == Spec => []ReportInv
  BY InitReports, StepReports, PTL DEF Spec

-----------------------------------------------------------------------------
(* Nobody is lost or counted twice.                                         *)

LEMMA UnderwayFinite ==
    ASSUME Types
    PROVE  /\ IsFiniteSet(Underway) /\ IsFiniteSet(spawned)
           /\ Cardinality(Underway) \in Nat /\ Cardinality(spawned) \in Nat
           /\ Len(doneQ) \in Nat /\ completed \in Nat
<1>1. IsFiniteSet(Agents)
  BY SwarmAssumption
<1>2. IsFiniteSet(spawned) /\ Underway \subseteq spawned
  BY <1>1, FS_Subset DEF Types, Underway
<1>3. IsFiniteSet(Underway)
  BY <1>2, FS_Subset
<1> QED
  BY <1>2, <1>3, FS_CardinalityType, LenProperties DEF Types

LEMMA SpawnsCounted ==
    ASSUME IInv, NEW a \in Agents, Spawns(a)
    PROVE  Accounted'
<1>1. apc[a] = "unborn" /\ a \notin spawned /\ spawned' = spawned \cup {a}
  BY DEF IInv, ReportInv, Born, Spawns
<1>2. IsFiniteSet(Underway) /\ IsFiniteSet(spawned) /\ Cardinality(Underway) \in Nat
      /\ Cardinality(spawned) \in Nat /\ Len(doneQ) \in Nat /\ completed' = completed
      /\ completed \in Nat
  BY UnderwayFinite DEF IInv, ReportInv, Spawns
<1>3. Cardinality(spawned') = Cardinality(spawned) + 1
  BY <1>1, <1>2, FS_AddElement
<1>4. \A b \in spawned : apc'[b] = apc[b]
  BY <1>1 DEF IInv, ReportInv, Types, Spawns
<1>5. CASE apc' = [apc EXCEPT ![a] = "poll"] /\ UNCHANGED doneQ
  <2>1. apc'[a] = "poll"
    BY <1>5 DEF IInv, ReportInv, Types
  <2>2. Underway' = Underway \cup {a} /\ a \notin Underway
    BY <1>1, <1>4, <2>1 DEF Underway
  <2>3. Cardinality(Underway') = Cardinality(Underway) + 1
    BY <1>2, <2>2, FS_AddElement
  <2> QED
    BY <1>2, <1>3, <1>5, <2>3 DEF IInv, Accounted
<1>6. CASE apc' = [apc EXCEPT ![a] = "over"] /\ FailedStart(a)
  <2>1. apc'[a] = "over"
    BY <1>6 DEF IInv, ReportInv, Types
  <2>2. Underway' = Underway
    BY <1>1, <1>4, <2>1 DEF Underway
  <2> DEFINE e == [agent |-> a, result |-> "bad", rounds |-> 0]
  <2>3. e \in DoneEntry
    BY DEF DoneEntry
  <2>4. doneQ' = Append(doneQ, e)
    BY <1>6 DEF FailedStart
  <2> HIDE DEF e
  <2>5. Len(doneQ') = Len(doneQ) + 1
    BY <2>3, <2>4, AppendProperties DEF IInv, ReportInv, Types
  <2> QED
    BY <1>2, <1>3, <2>2, <2>5 DEF IInv, Accounted
<1> QED
  BY <1>5, <1>6 DEF Spawns

LEMMA CollectsCounted ==
    ASSUME IInv, Collects
    PROVE  Accounted'
<1>1. Len(doneQ) \in Nat \ {0} /\ Len(doneQ') = Len(doneQ) - 1
  BY CollectsTypes DEF IInv, ReportInv
<1>2. Underway' = Underway /\ spawned' = spawned /\ completed' = completed + 1
  BY DEF Collects, Underway
<1>3. Cardinality(Underway) \in Nat /\ Cardinality(spawned) \in Nat /\ completed \in Nat
  BY UnderwayFinite DEF IInv, ReportInv
<1> QED
  BY <1>1, <1>2, <1>3 DEF IInv, Accounted

LEMMA AgentCounted ==
    ASSUME IInv, NEW a \in Agents, GoesOn(a) \/ Finishes(a)
    PROVE  Accounted'
<1>1. spawned' = spawned /\ completed' = completed /\ apc[a] \in Working /\ a \in spawned
  BY DEF GoesOn, Finishes, Apart, IInv, ReportInv, Born, Working
<1>2. IsFiniteSet(Underway) /\ Cardinality(Underway) \in Nat
      /\ Cardinality(spawned) \in Nat /\ Len(doneQ) \in Nat /\ completed \in Nat
  BY UnderwayFinite DEF IInv, ReportInv
<1>3. \A b \in spawned : b # a => apc'[b] = apc[b]
  BY DEF IInv, ReportInv, Types, GoesOn, Finishes
<1>4. CASE GoesOn(a)
  <2>1. apc'[a] \in Working /\ doneQ' = doneQ
    BY <1>4 DEF GoesOn, IInv, ReportInv, Types, Working
  <2>2. Underway' = Underway
    BY <1>1, <1>3, <2>1 DEF Underway, Working
  <2> QED
    BY <1>1, <2>1, <2>2 DEF IInv, Accounted
<1>5. CASE Finishes(a)
  <2>1. apc'[a] = "over"
    BY <1>5 DEF Finishes, IInv, ReportInv, Types
  <2>2. Underway' = Underway \ {a} /\ a \in Underway
    BY <1>1, <1>3, <2>1 DEF Underway, Working
  <2>3. Cardinality(Underway') = Cardinality(Underway) - 1
    BY <1>2, <2>2, FS_RemoveElement
  <2>4. Len(doneQ') = Len(doneQ) + 1
    BY <1>5, AgentTypes DEF IInv, ReportInv
  <2> QED
    BY <1>1, <1>2, <2>3, <2>4 DEF IInv, Accounted
<1> QED
  BY <1>4, <1>5

LEMMA InitCounted ==
    Init => Accounted
<1> SUFFICES ASSUME Init PROVE Accounted
  OBVIOUS
<1>1. Underway = {} /\ spawned = {} /\ completed = 0 /\ doneQ = <<>>
  BY DEF Init, Underway
<1>2. Cardinality({}) = 0 /\ Len(<<>>) = 0
  BY FS_EmptySet, EmptySeq
<1> QED
  BY <1>1, <1>2 DEF Accounted

LEMMA StepCounted ==
    ASSUME IInv, [Next]_vars
    PROVE  Accounted'
<1>1. CASE LeadStep
  <2>1. CASE Reads \/ Returns \/ WrapsUp
    BY <2>1 DEF Reads, Returns, WrapsUp, team, IInv, Accounted, Underway
  <2> QED
    BY <1>1, <2>1, LeadCases, SpawnsCounted, CollectsCounted DEF IInv, ReportInv
<1>2. ASSUME NEW a \in Agents, AgentStep(a) PROVE Accounted'
  BY <1>2, AgentCases, AgentCounted DEF IInv, ReportInv
<1>3. CASE UNCHANGED vars
  BY <1>3 DEF vars, leadVars, teamVars, signalVars, agentVars, IInv, Accounted, Underway
<1> QED
  BY <1>1, <1>2, <1>3 DEF Next

(* The lead waits for exactly the results that are still to come, so that   *)
(* completedCount reaches the number of agents when all have ended, and not *)
(* before: neither a failed start nor a killed child is missed.             *)
THEOREM AllAccounted == Spec => []Accounted
<1>1. Init => IInv
  BY InitReports, InitCounted DEF IInv
<1>2. IInv /\ [Next]_vars => IInv'
  BY StepReports, StepCounted DEF IInv
<1>3. IInv => Accounted
  BY DEF IInv
<1> QED
  BY <1>1, <1>2, <1>3, PTL DEF Spec

-----------------------------------------------------------------------------
(* The swarm is a fan-out.                                                  *)

LEMMA ReturnsVerdict ==
    ASSUME ReportInv, Returns
    PROVE  Promise!Next
<1>1. verdict = None /\ UNCHANGED <<spawned, results>>
  BY DEF Returns, team, ReportInv, Stages
<1>2. CASE verdict' = "answer" /\ pc \in {"plan", "reply", "synthesize"}
  <2>1. Usable \/ spawned = {}
    BY <1>2 DEF ReportInv, Stages
  <2> QED
    BY <1>1, <1>2, <2>1 DEF Promise!Next, Promise!Answer, Promise!Usable, Usable
<1>3. CASE verdict' = "failed"
  BY <1>1, <1>3 DEF Promise!Next, Promise!Fail
<1> QED
  BY <1>2, <1>3 DEF Returns

LEMMA SpawnsStarts ==
    ASSUME ReportInv, NEW a \in Agents, Spawns(a)
    PROVE  Promise!Next
<1>1. verdict = None
  BY DEF Spawns, ReportInv, Stages
<1>2. Promise!Start(a)
  BY <1>1 DEF Spawns, Promise!Start
<1> QED
  BY <1>2 DEF Promise!Next

LEMMA CollectsReport ==
    ASSUME ReportInv, Collects
    PROVE  Promise!Next
<1> DEFINE h == Head(doneQ).agent
<1>1. /\ Head(doneQ) \in DoneEntry /\ Head(doneQ) = doneQ[1]
      /\ Len(doneQ) \in Nat \ {0}
  BY CollectsTypes DEF ReportInv
<1>2. h \in spawned /\ h \in Agents /\ results[h] = None
  BY <1>1 DEF ReportInv, Born, Types, Once, Open, Collects
<1>3. Head(doneQ).result \in {"good", "bad"}
  BY <1>1 DEF DoneEntry
<1>4. verdict = None /\ UNCHANGED <<spawned, verdict>>
  BY DEF ReportInv, Stages, Collects
<1> DEFINE r == [w \in {h} |-> Head(doneQ).result]
<1>5. r \in [{h} -> {"good", "bad"}]
  BY <1>3
<1>6. results' = [w \in Agents |-> IF w \in {h} THEN r[w] ELSE results[w]]
  BY DEF ReportInv, Types, Collects
<1>7. Promise!Collect({h})
  BY <1>2, <1>4, <1>5, <1>6 DEF Promise!Collect
<1>8. {h} \in SUBSET Agents
  BY <1>2
<1> QED
  BY <1>7, <1>8 DEF Promise!Next

LEMMA WrapsUpReport ==
    ASSUME ReportInv, WrapsUp
    PROVE  [Promise!Next]_Promise!vars
<1> DEFINE new == {a \in snaps : results[a] = None}
           r   == [w \in new |-> "good"]
<1>1. verdict = None /\ UNCHANGED <<spawned, verdict>>
  BY DEF ReportInv, Stages, WrapsUp
<1>2. new \subseteq spawned /\ new \subseteq Agents
  BY DEF ReportInv, Types
<1>3. results' = [w \in Agents |-> IF w \in new THEN r[w] ELSE results[w]]
  BY DEF WrapsUp, Wrapped
<1>4. CASE new = {}
  <2>1. results' = results
    BY <1>3, <1>4 DEF ReportInv, Types
  <2> QED
    BY <1>1, <2>1 DEF Promise!vars
<1>5. CASE new # {}
  <2>1. r \in [new -> {"good", "bad"}]
    OBVIOUS
  <2>2. \A w \in new : w \in spawned /\ results[w] = None
    BY <1>2
  <2> HIDE DEF new, r
  <2>3. Promise!Collect(new)
    BY <1>1, <1>3, <1>5, <2>1, <2>2 DEF Promise!Collect
  <2> QED
    BY <1>2, <2>3 DEF Promise!Next
<1> QED
  BY <1>4, <1>5

LEMMA StepFansOut ==
    ASSUME ReportInv, [Next]_vars
    PROVE  [Promise!Next]_Promise!vars
<1>1. CASE LeadStep
  <2>1. CASE Reads
    BY <2>1 DEF Reads, team, Promise!vars
  <2> QED
    BY <1>1, <2>1, LeadCases, ReturnsVerdict, SpawnsStarts, CollectsReport, WrapsUpReport
    DEF ReportInv
<1>2. ASSUME NEW a \in Agents, AgentStep(a) PROVE [Promise!Next]_Promise!vars
  <2>1. GoesOn(a) \/ Finishes(a)
    BY <1>2, AgentCases DEF ReportInv
  <2> QED
    BY <2>1 DEF GoesOn, Finishes, Apart, Promise!vars
<1>3. CASE UNCHANGED vars
  BY <1>3 DEF vars, leadVars, teamVars, Promise!vars
<1> QED
  BY <1>1, <1>2, <1>3 DEF Next

(* The swarm implements FanOut: agents are only spawned while no verdict is *)
(* out, what it holds of an agent is never replaced, not even by the        *)
(* snapshots merged at the end, and an answer rests on a usable result.     *)
THEOREM ImplementsFanOut == Spec => FansOut
<1>1. Init => Promise!Init
  BY DEF Init, Promise!Init
<1>2. ReportInv /\ [Next]_vars => [Promise!Next]_Promise!vars
  BY StepFansOut
<1> QED
  BY <1>1, <1>2, ReportsFit, PTL DEF Spec, FansOut, Promise!Spec

-----------------------------------------------------------------------------
(* Tasks are begun in the order of their dependencies.                      *)

Closed == {"reply", "synthesize", "end"}

(* What the lead may have seen completed was: in Redis, until it completes  *)
(* what is left there itself, and in its own list.                          *)
TaskInv ==
    /\ pc \notin Closed => \A t \in Tasks : tasks[t] = "completed" => t \in ever
    /\ \A t \in Tasks : view[t] = "completed" => t \in ever
    /\ DependencyOrder

(* What a step may do to the task list.                                     *)
Orderly ==
    /\ ever \subseteq ever'
    /\ pc \in Closed => pc' \in Closed
    /\ pc' \notin Closed =>
          \A t \in Tasks : tasks'[t] = "completed" => tasks[t] = "completed" \/ t \in ever'
    /\ \A t \in Tasks :
          view'[t] = "completed" =>
              view[t] = "completed" \/ (pc \notin Closed /\ tasks[t] = "completed") \/ t \in ever'
    /\ \A t \in begun' \ begun : t \in Tasks /\ \A n \in Needs[t] : view[n] = "completed"

LEMMA OrderlyKeeps ==
    ASSUME TaskInv, Orderly
    PROVE  TaskInv'
<1>1. \A t \in Tasks : view'[t] = "completed" => t \in ever'
  BY DEF TaskInv, Orderly
<1>2. pc' \notin Closed => \A t \in Tasks : tasks'[t] = "completed" => t \in ever'
  BY DEF TaskInv, Orderly
<1>3. \A t \in begun' : Needs[t] \subseteq ever'
  <2>1. \A t \in begun : Needs[t] \subseteq ever'
    BY DEF TaskInv, DependencyOrder, Orderly
  <2>2. \A t \in begun' \ begun : Needs[t] \subseteq ever'
    BY SwarmAssumption DEF TaskInv, Orderly
  <2> QED
    BY <2>1, <2>2
<1> QED
  BY <1>1, <1>2, <1>3 DEF TaskInv, DependencyOrder

(* What UpdateTaskStatus completes, if it is not lost.                      *)
LEMMA StoredCompletes ==
    ASSUME NEW board, NEW ts, NEW to, Stored(Moved(board, ts, to))
    PROVE  \A t \in Tasks :
              tasks'[t] = "completed" =>
                  tasks[t] = "completed" \/ board[t] = "completed" \/ (t \in ts /\ to = "completed")
  BY DEF Stored, Moved

LEMMA FinishIsOrderly ==
    ASSUME NEW as, FinishTasksOf(as), pc \notin Closed,
           \A t \in Tasks : view'[t] = "completed" =>
               view[t] = "completed" \/ t \in {linked[a] : a \in as} \ {None}
    PROVE  Orderly
  BY StoredCompletes DEF FinishTasksOf, Orderly, Completed

LEMMA BeginIsOrderly ==
    ASSUME NEW t \in Tasks \cup {None}, t # None => ~HasUnmetDeps(t, view),
           Begin(t, tasks), pc \notin Closed, UNCHANGED <<view, ever>>
    PROVE  Orderly
<1>1. \A u \in Tasks : tasks'[u] = "completed" => tasks[u] = "completed"
  BY StoredCompletes DEF Begin
<1>2. \A u \in begun' \ begun : u \in Tasks /\ \A n \in Needs[u] : view[n] = "completed"
  BY DEF Begin, HasUnmetDeps
<1> QED
  BY <1>1, <1>2 DEF Orderly

LEMMA TaskForIsReady ==
    ASSUME NEW t \in Tasks \cup {None}, t # None => ~HasUnmetDeps(t, view)
    PROVE  /\ TaskFor(t) \in Tasks \cup {None}
           /\ TaskFor(t) # None => ~HasUnmetDeps(TaskFor(t), view)
<1> DEFINE free == {u \in Assignable(view) : \A a \in Agents : linked[a] # u}
<1>1. CASE t = None /\ Cardinality(free) = 1
  <2>1. free # {}
    BY <1>1, FS_EmptySet
  <2>2. (CHOOSE u \in free : TRUE) \in free
    BY <2>1
  <2>3. TaskFor(t) = CHOOSE u \in free : TRUE
    BY <1>1 DEF TaskFor
  <2> QED
    BY <2>2, <2>3 DEF Assignable
<1>2. CASE ~(t = None /\ Cardinality(free) = 1)
  BY <1>2 DEF TaskFor
<1> QED
  BY <1>1, <1>2

LEMMA LeadIsOrderly ==
    ASSUME LeadStep
    PROVE  Orderly
<1> USE DEF Closed, boardVars
<1>1. ASSUME UNCHANGED <<ever, begun, tasks>>, pc \in Closed => pc' \in Closed,
             view' = view \/ (view' \in Shown /\ pc \notin Closed)
      PROVE  Orderly
  BY <1>1 DEF Orderly, Shown
<1>2. CASE Plan
  BY <1>2 DEF Plan, Orderly
<1>3. ASSUME NEW a \in Agents, NEW t \in Tasks \cup {None}, Hire(a, t) PROVE Orderly
  BY <1>3, BeginIsOrderly DEF Hire, SpawnAgent, leadVars
<1>4. ASSUME NEW a \in Agents, NEW t \in Tasks \cup {None}, DoSpawn(a, t) PROVE Orderly
  BY <1>4, BeginIsOrderly, TaskForIsReady DEF DoSpawn, SpawnAgent, Acting
<1>5. ASSUME NEW a \in Agents, NEW t \in Tasks \cup {None}, DoAssign(a, t) PROVE Orderly
  BY <1>5, BeginIsOrderly DEF DoAssign, Acting
<1>6. CASE StartMonitoring
  <2>1. \A t \in Tasks : tasks'[t] = "completed" => tasks[t] = "completed"
    BY <1>6, StoredCompletes DEF StartMonitoring
  <2>2. \A t \in begun' \ begun : t \in Tasks /\ \A n \in Needs[t] : view[n] = "completed"
    BY <1>6 DEF StartMonitoring, Orphans, Assignable, HasUnmetDeps
  <2> QED
    BY <1>6, <2>1, <2>2 DEF StartMonitoring, Orderly
<1>7. CASE WakeIdle \/ WakeCompleted \/ DrainResult \/ Coalesce
  <2>1. pc \notin Closed /\ pc' \notin Closed /\ view' = view
    BY <1>7 DEF WakeIdle, WakeCompleted, DrainResult, Coalesce, Waiting, Woken, leadVars
  <2>2. (\E as : FinishTasksOf(as)) \/ UNCHANGED <<ever, begun, tasks>>
    BY <1>7 DEF WakeIdle, WakeCompleted, DrainResult, Coalesce, CollectResult
  <2> QED
    BY <1>1, <2>1, <2>2, FinishIsOrderly
<1>8. ASSUME NEW new \in SUBSET Tasks, NEW cancelled \in SUBSET Tasks, DoRevise(new, cancelled)
      PROVE  Orderly
  <2>1. \A t \in Tasks : tasks'[t] = "completed" => tasks[t] = "completed" \/ t \in cancelled
    BY <1>8, StoredCompletes DEF DoRevise
  <2> QED
    BY <1>8, <2>1 DEF DoRevise, Acting, Orderly
<1>9. ASSUME NEW a \in Agents, DoShutdown(a) PROVE Orderly
  <2>1. FinishTasksOf({a}) /\ pc \notin Closed
    BY <1>9 DEF DoShutdown, Acting
  <2>2. \A t \in Tasks : view'[t] = "completed" =>
            view[t] = "completed" \/ t \in {linked[b] : b \in {a}} \ {None}
    BY <1>9, SwarmAssumption DEF DoShutdown
  <2> QED
    BY <2>1, <2>2, FinishIsOrderly
<1>10. CASE CloseUp
  BY <1>10 DEF CloseUp, Orderly
<1>11. CASE \/ PlanEnds \/ NobodyHired \/ AllReported \/ WakeCheckpoint \/ WakeHuman \/ Forward
            \/ HistoryFull \/ DecisionEnds \/ Accept \/ DrainIdle \/ DrainEnds \/ Reply \/ Synthesize
  BY <1>1, <1>11
  DEF PlanEnds, NobodyHired, AllReported, WakeCheckpoint, WakeHuman, Waiting, Woken, Forward,
      HistoryFull, DecisionEnds, Accept, DrainIdle, DrainEnds, Reply, Synthesize, Leave, leadVars
<1>12. CASE JudgeBudget \/ JudgeIdly \/ JudgeWrapUp \/ JudgeAsk \/ Think
  <2>1. UNCHANGED <<ever, begun, tasks>> /\ pc \notin Closed
    BY <1>12 DEF JudgeBudget, JudgeIdly, JudgeWrapUp, JudgeAsk, JudgeOn, Judging, Leave, Think
  <2>2. view' = view \/ view' \in Shown
    BY <1>12 DEF JudgeBudget, JudgeIdly, JudgeWrapUp, JudgeAsk, JudgeOn, Think
  <2> QED
    BY <1>1, <2>1, <2>2
<1>13. CASE \E as \in {{a} : a \in Agents} \cup {Broadcast} : DoMessage(as)
  BY <1>1, <1>13 DEF DoMessage, Acting
<1> QED
  BY <1>2, <1>3, <1>4, <1>5, <1>6, <1>7, <1>8, <1>9, <1>10, <1>11, <1>12, <1>13 DEF LeadStep

LEMMA AgentIsApart ==
    ASSUME NEW a \in Agents, AgentStep(a)
    PROVE  UNCHANGED <<leadVars, view, boardVars>>
<1> USE DEF Others
<1>1. CASE Poll(a) \/ Work(a) \/ (\E b \in Agents \ {a} : Send(a, b)) \/ GiveUp(a) \/ StepFails(a)
  BY <1>1 DEF Poll, Work, Send, GiveUp, StepFails
<1>2. CASE ForcedIdle(a) \/ \E text \in BOOLEAN : GoIdle(a, text)
  BY <1>2 DEF ForcedIdle, GoIdle
<1>3. CASE TakeOrder(a) \/ TakeShutdown(a) \/ TakeWake(a) \/ IdleTimeout(a) \/ Kill(a)
  BY <1>3 DEF TakeOrder, TakeShutdown, TakeWake, IdleTimeout, Kill
<1> QED
  BY <1>1, <1>2, <1>3 DEF AgentStep

(* Whoever is put on a task the lead has seen in its list begins it after   *)
(* everything that task depends on, though the list may be stale or empty,  *)
(* and statuses may be lost on their way to Redis.                          *)
THEOREM BegunInOrder == Spec => []DependencyOrder
<1>1. Init => TaskInv
  BY DEF Init, TaskInv, DependencyOrder
<1>2. TaskInv /\ [Next]_vars => TaskInv'
  <2> SUFFICES ASSUME TaskInv, [Next]_vars PROVE TaskInv'
    OBVIOUS
  <2>1. CASE LeadStep
    BY <2>1, LeadIsOrderly, OrderlyKeeps
  <2>2. ASSUME UNCHANGED <<leadVars, view, boardVars>> PROVE TaskInv'
    BY <2>2 DEF leadVars, boardVars, TaskInv, DependencyOrder, Closed
  <2>3. CASE UNCHANGED vars
    BY <2>2, <2>3 DEF vars
  <2> QED
    BY <2>1, <2>2, <2>3, AgentIsApart DEF Next
<1>3. TaskInv => DependencyOrder
  BY DEF TaskInv
<1> QED
  BY <1>1, <1>2, <1>3, PTL DEF Spec

-----------------------------------------------------------------------------
(* Agents work a bounded number of rounds.                                  *)

(* The rounds of an agent that was reassigned n times.                      *)
Allowed(n) == MaxIterations + AtMost(n, MaxReassign) * Extension

WorkInv ==
    /\ iter \in [Agents -> Nat] /\ limit \in [Agents -> Nat] /\ reassigns \in [Agents -> Nat]
    /\ \A a \in Agents :
          /\ apc[a] = "unborn" => iter[a] = 0
          /\ limit[a] >= 1 /\ limit[a] <= IterationCap /\ limit[a] <= Allowed(reassigns[a])
          /\ apc[a] \in {"poll", "act"} => iter[a] < limit[a]

LEMMA Constants ==
    /\ MaxIterations \in Nat \ {0} /\ IterationCap \in Nat /\ MaxIterations <= IterationCap
    /\ Extension \in Nat /\ MaxReassign \in Nat
  BY SwarmAssumption

LEMMA Distributes ==
    ASSUME NEW m \in Nat, NEW n \in Nat, NEW k \in Nat
    PROVE  /\ (m + 1) * k = m * k + k /\ m * k \in Nat
           /\ m <= n => m * k <= n * k
<1>1. (m + 1) * k = m * k + k /\ m * k \in Nat
  OBVIOUS
<1>2. ASSUME m <= n PROVE m * k <= n * k
  <2>1. PICK d \in Nat : n = m + d
    <3>1. n - m \in Nat /\ n = m + (n - m)
      BY <1>2
    <3> QED
      BY <3>1
  <2>2. n * k = m * k + d * k /\ d * k \in Nat /\ m * k \in Nat
    BY <2>1
  <2> QED
    BY <2>2
<1> QED
  BY <1>1, <1>2

LEMMA AllowedGrows ==
    ASSUME NEW n \in Nat
    PROVE  /\ Allowed(n) \in Nat /\ Allowed(n) <= Allowed(n + 1)
           /\ Allowed(n) <= MaxIterations + MaxReassign * Extension
           /\ n + 1 <= MaxReassign => Allowed(n + 1) = Allowed(n) + Extension
<1>1. /\ MaxReassign * Extension \in Nat /\ n * Extension \in Nat
      /\ (n + 1) * Extension = n * Extension + Extension
      /\ n <= MaxReassign => n * Extension <= MaxReassign * Extension
  BY Constants, Distributes
<1>2. CASE n + 1 <= MaxReassign
  <2>1. AtMost(n, MaxReassign) = n
    BY <1>2, Constants DEF AtMost
  <2>2. AtMost(n + 1, MaxReassign) = n + 1
    BY <1>2, Constants DEF AtMost
  <2>3. Allowed(n) = MaxIterations + n * Extension
        /\ Allowed(n + 1) = MaxIterations + (n + 1) * Extension
    BY <2>1, <2>2 DEF Allowed
  <2> QED
    BY <1>1, <1>2, <2>3, Constants
<1>3. CASE ~(n + 1 <= MaxReassign)
  <2>1. AtMost(n, MaxReassign) = MaxReassign
    BY <1>3, Constants DEF AtMost
  <2>2. AtMost(n + 1, MaxReassign) = MaxReassign
    BY <1>3, Constants DEF AtMost
  <2>3. Allowed(n) = MaxIterations + MaxReassign * Extension /\ Allowed(n + 1) = Allowed(n)
    BY <2>1, <2>2 DEF Allowed
  <2> QED
    BY <1>1, <1>3, <2>3, Constants
<1> QED
  BY <1>2, <1>3

LEMMA ExtendedIsAllowed ==
    ASSUME WorkInv, NEW a \in Agents
    PROVE  /\ Extended(a) \in Nat /\ Extended(a) >= 1 /\ Extended(a) <= IterationCap
           /\ Extended(a) <= Allowed(reassigns[a] + 1)
<1> DEFINE n == reassigns[a]
<1>1. n \in Nat /\ limit[a] \in Nat /\ limit[a] >= 1 /\ limit[a] <= IterationCap
      /\ limit[a] <= Allowed(n)
  BY DEF WorkInv
<1>2. /\ Allowed(n) \in Nat /\ Allowed(n + 1) \in Nat /\ Allowed(n) <= Allowed(n + 1)
      /\ n + 1 <= MaxReassign => Allowed(n + 1) = Allowed(n) + Extension
  BY <1>1, AllowedGrows
<1> HIDE DEF n
<1>3. CASE n + 1 > MaxReassign \/ limit[a] >= IterationCap
  <2>1. Extended(a) = limit[a]
    BY <1>3 DEF Extended, n
  <2> QED
    BY <1>1, <1>2, <2>1 DEF n
<1>4. CASE ~(n + 1 > MaxReassign \/ limit[a] >= IterationCap)
  <2>1. Extended(a) = AtMost(limit[a] + Extension, IterationCap)
    BY <1>4 DEF Extended, n
  <2>2. AtMost(limit[a] + Extension, IterationCap) \in {limit[a] + Extension, IterationCap}
        /\ AtMost(limit[a] + Extension, IterationCap) <= limit[a] + Extension
        /\ AtMost(limit[a] + Extension, IterationCap) <= IterationCap
    BY <1>1, Constants DEF AtMost
  <2>3. n + 1 <= MaxReassign
    BY <1>1, <1>4, Constants
  <2> QED
    BY <1>1, <1>2, <2>1, <2>2, <2>3, Constants DEF n
<1> QED
  BY <1>3, <1>4

(* A step of an agent that begins no round, and one that may.               *)
Stays(a) ==
    /\ UNCHANGED <<iter, limit, reassigns>>
    /\ \/ \E p \in {"idle", "over"} : apc' = [apc EXCEPT ![a] = p]
       \/ apc[a] = "poll" /\ apc' = [apc EXCEPT ![a] = "act"]

Renews(a) ==
    /\ NextIteration(a)
    /\ \/ UNCHANGED <<limit, reassigns>>
       \/ /\ reassigns' = [reassigns EXCEPT ![a] = @ + 1]
          /\ limit' = [limit EXCEPT ![a] = Extended(a)]

LEMMA WorkCases ==
    ASSUME NEW a \in Agents, AgentStep(a)
    PROVE  apc[a] # "unborn" /\ (Stays(a) \/ Renews(a))
<1>1. CASE Poll(a)
  BY <1>1 DEF Poll, End, Stays
<1>2. CASE Work(a) \/ \E b \in Agents \ {a} : Send(a, b)
  BY <1>2 DEF Work, Send, Renews
<1>3. CASE GiveUp(a) \/ StepFails(a) \/ TakeShutdown(a) \/ IdleTimeout(a) \/ Kill(a)
  BY <1>3 DEF GiveUp, StepFails, TakeShutdown, IdleTimeout, Kill, End, Stays
<1>4. CASE ForcedIdle(a)
  BY <1>4 DEF ForcedIdle, Report, Stays
<1>5. ASSUME NEW text \in BOOLEAN, GoIdle(a, text) PROVE apc[a] # "unborn" /\ Stays(a)
  <2>1. CASE a \in stop
    BY <1>5, <2>1 DEF GoIdle, End, Stays
  <2>2. CASE a \notin stop
    BY <1>5, <2>2 DEF GoIdle, Report, Stays
  <2> QED
    BY <2>1, <2>2
<1>6. CASE TakeOrder(a) \/ TakeWake(a)
  BY <1>6 DEF TakeOrder, TakeWake, Renews
<1> QED
  BY <1>1, <1>2, <1>3, <1>4, <1>5, <1>6 DEF AgentStep

LEMMA WorkKept ==
    ASSUME ReportInv, WorkInv, NEW a \in Agents, AgentStep(a)
    PROVE  WorkInv'
<1>1. apc[a] # "unborn" /\ (Stays(a) \/ Renews(a))
  BY WorkCases
<1>2. apc \in [Agents -> {"unborn", "poll", "act", "idle", "over"}]
  BY DEF ReportInv, Types
<1>3. CASE Stays(a)
  <2>1. \A b \in Agents : apc'[b] # apc[b] =>
            b = a /\ (apc'[b] \in {"idle", "over"} \/ (apc[b] = "poll" /\ apc'[b] = "act"))
    BY <1>2, <1>3 DEF Stays
  <2>2. iter' = iter /\ limit' = limit /\ reassigns' = reassigns
    BY <1>3 DEF Stays
  <2> QED
    BY <2>1, <2>2 DEF WorkInv, Allowed
<1>4. CASE Renews(a)
  <2>1. /\ iter' = [iter EXCEPT ![a] = @ + 1]
        /\ iter[a] + 1 \in Nat
    BY <1>4 DEF Renews, NextIteration, WorkInv
  <2>2. /\ limit' \in [Agents -> Nat] /\ reassigns' \in [Agents -> Nat]
        /\ limit'[a] >= 1 /\ limit'[a] <= IterationCap /\ limit'[a] <= Allowed(reassigns'[a])
        /\ \A b \in Agents : b # a => limit'[b] = limit[b] /\ reassigns'[b] = reassigns[b]
    <3>1. CASE UNCHANGED <<limit, reassigns>>
      BY <3>1 DEF WorkInv
    <3>2. CASE /\ reassigns' = [reassigns EXCEPT ![a] = @ + 1]
               /\ limit' = [limit EXCEPT ![a] = Extended(a)]
      <4>1. limit'[a] = Extended(a) /\ reassigns'[a] = reassigns[a] + 1 /\ reassigns[a] + 1 \in Nat
        BY <3>2 DEF WorkInv
      <4> QED
        BY <3>2, <4>1, ExtendedIsAllowed DEF WorkInv
    <3> QED
      BY <1>4, <3>1, <3>2 DEF Renews
  <2>3. /\ iter' \in [Agents -> Nat] /\ iter'[a] = iter[a] + 1
        /\ \A b \in Agents : b # a => iter'[b] = iter[b]
    BY <2>1 DEF WorkInv
  <2>4. \A b \in Agents : b # a => apc'[b] = apc[b]
    BY <1>2, <1>4 DEF Renews, NextIteration, End
  <2>5. apc'[a] \in {"poll", "over"} /\ (apc'[a] = "poll" => iter[a] + 1 < limit'[a])
    BY <1>2, <1>4 DEF Renews, NextIteration, End
  <2>6. ASSUME NEW b \in Agents
        PROVE  /\ apc'[b] = "unborn" => iter'[b] = 0
               /\ limit'[b] >= 1 /\ limit'[b] <= IterationCap /\ limit'[b] <= Allowed(reassigns'[b])
               /\ apc'[b] \in {"poll", "act"} => iter'[b] < limit'[b]
    <3>1. CASE b = a
      BY <2>2, <2>3, <2>5, <3>1
    <3>2. CASE b # a
      BY <2>2, <2>3, <2>4, <3>2 DEF WorkInv
    <3> QED
      BY <3>1, <3>2
  <2> QED
    BY <2>2, <2>3, <2>6 DEF WorkInv, Allowed
<1> QED
  BY <1>1, <1>3, <1>4

LEMMA LeadLeavesLimits ==
    ASSUME LeadStep
    PROVE  UNCHANGED <<iter, limit, reassigns>>
<1> USE DEF agentVars
<1>1. CASE Plan \/ PlanEnds \/ StartMonitoring \/ NobodyHired \/ AllReported
  BY <1>1 DEF Plan, PlanEnds, StartMonitoring, NobodyHired, AllReported
<1>2. CASE WakeIdle \/ WakeCompleted \/ WakeCheckpoint \/ WakeHuman \/ Forward \/ Coalesce
  BY <1>2 DEF WakeIdle, WakeCompleted, WakeCheckpoint, WakeHuman, Woken, Forward, Coalesce
<1>3. CASE JudgeBudget \/ JudgeIdly \/ JudgeWrapUp \/ JudgeAsk \/ Think
  BY <1>3 DEF JudgeBudget, JudgeIdly, JudgeWrapUp, JudgeAsk, JudgeOn, Think
<1>4. CASE DecisionEnds \/ Accept \/ HistoryFull \/ DrainResult \/ DrainIdle \/ DrainEnds
  BY <1>4 DEF DecisionEnds, Accept, HistoryFull, DrainResult, DrainIdle, DrainEnds
<1>5. CASE CloseUp \/ Reply \/ Synthesize
  BY <1>5 DEF CloseUp, Reply, Synthesize
<1>6. CASE \E a \in Agents, t \in Tasks \cup {None} : Hire(a, t) \/ DoSpawn(a, t) \/ DoAssign(a, t)
  BY <1>6 DEF Hire, DoSpawn, SpawnAgent, DoAssign
<1>7. CASE \/ \E as \in {{a} : a \in Agents} \cup {Broadcast} : DoMessage(as)
           \/ \E new, cancelled \in SUBSET Tasks : DoRevise(new, cancelled)
           \/ \E a \in Agents : DoShutdown(a)
  BY <1>7 DEF DoMessage, DoRevise, DoShutdown
<1> QED
  BY <1>1, <1>2, <1>3, <1>4, <1>5, <1>6, <1>7 DEF LeadStep

LEMMA LeadKeepsWork ==
    ASSUME ReportInv, WorkInv, LeadStep
    PROVE  WorkInv'
<1>1. iter' = iter /\ limit' = limit /\ reassigns' = reassigns
  BY LeadLeavesLimits
<1>2. CASE \E a \in Agents : Spawns(a)
  <2>1. PICK a \in Agents : Spawns(a)
    BY <1>2
  <2>2. apc[a] = "unborn" /\ apc'[a] # "unborn" /\ \A b \in Agents : b # a => apc'[b] = apc[b]
    BY <2>1 DEF Spawns, ReportInv, Born, Types
  <2>3. iter[a] = 0 /\ limit[a] >= 1 /\ limit[a] \in Nat
    BY <2>2 DEF WorkInv
  <2> QED
    BY <1>1, <2>2, <2>3 DEF WorkInv, Allowed
<1>3. CASE Reads \/ Returns \/ Collects \/ WrapsUp
  <2>1. apc' = apc
    BY <1>3 DEF Reads, Returns, Collects, WrapsUp, team
  <2> QED
    BY <1>1, <2>1 DEF WorkInv, Allowed
<1> QED
  BY <1>2, <1>3, LeadCases DEF ReportInv

LEMMA InitWork ==
    Init => WorkInv
<1> SUFFICES ASSUME Init PROVE WorkInv
  OBVIOUS
<1>1. Allowed(0) \in Nat /\ MaxIterations <= Allowed(0)
  <2>1. AtMost(0, MaxReassign) \in Nat
    BY Constants DEF AtMost
  <2>2. AtMost(0, MaxReassign) * Extension \in Nat
    BY <2>1, Constants, Distributes
  <2> QED
    BY <2>2, Constants DEF Allowed
<1> QED
  BY <1>1, Constants DEF Init, WorkInv

(* However often agents wake each other up, are assigned tasks or message   *)
(* each other, none begins more rounds than its first budget and so many    *)
(* extensions allow, and never more than the cap.                           *)
THEOREM WorkIsBounded == Spec => []BoundedWork
<1> DEFINE WInv == ReportInv /\ WorkInv
<1>1. Init => WInv
  BY InitReports, InitWork
<1>2. WInv /\ [Next]_vars => WInv'
  <2> SUFFICES ASSUME ReportInv, WorkInv, [Next]_vars PROVE ReportInv' /\ WorkInv'
    OBVIOUS
  <2>1. ASSUME UNCHANGED vars PROVE WorkInv'
    BY <2>1 DEF vars, agentVars, WorkInv, Allowed
  <2>2. ReportInv'
    BY StepReports
  <2>3. ASSUME LeadStep PROVE WorkInv'
    BY <2>3, LeadKeepsWork
  <2>4. ASSUME NEW a \in Agents, AgentStep(a) PROVE WorkInv'
    BY <2>4, WorkKept
  <2> QED
    BY <2>1, <2>2, <2>3, <2>4 DEF Next
<1>3. WInv => BoundedWork
  <2> SUFFICES ASSUME WorkInv, NEW a \in Agents, apc[a] \in {"poll", "act"}
               PROVE  iter[a] < AtMost(IterationCap, MaxIterations + MaxReassign * Extension)
    BY DEF BoundedWork
  <2>1. /\ iter[a] \in Nat /\ limit[a] \in Nat /\ iter[a] < limit[a]
        /\ limit[a] <= IterationCap /\ limit[a] <= Allowed(reassigns[a]) /\ reassigns[a] \in Nat
    BY DEF WorkInv
  <2>2. /\ Allowed(reassigns[a]) \in Nat
        /\ Allowed(reassigns[a]) <= MaxIterations + MaxReassign * Extension
        /\ MaxReassign * Extension \in Nat
    BY <2>1, AllowedGrows, Constants, Distributes
  <2> QED
    BY <2>1, <2>2, Constants DEF AtMost
<1> QED
  BY <1>1, <1>2, <1>3, PTL DEF Spec

-----------------------------------------------------------------------------
(* What an agent last said counts.                                          *)

(* Some usable result of a was collected, or can be.                        *)
HasResult(a) ==
    \/ results[a] = "good"
    \/ \E i \in 1 .. Len(doneQ) : doneQ[i].agent = a /\ doneQ[i].result = "good"

(* Agents whose answer the lead has read, or has still to read.             *)
HasAnswered(a) == a \in snaps \cup WithText(ToSet(idleQ))

(* The end of an agent that has answered is a usable result, or is late.    *)
Sound == \A a \in Agents : HasAnswered(a) /\ apc[a] = "over" => a \in late \/ HasResult(a)

AnswerInv ==
    /\ why # None => ~Open
    /\ Sound
    /\ AnswersKept

(* How a step of the lead treats its answers.                               *)
LEMMA LeadAnswers ==
    ASSUME LeadStep
    PROVE  /\ UNCHANGED late
           /\ why' = why \/ (pc' = "close" /\ why' # "all") \/ AllReported
<1>1. CASE Plan \/ PlanEnds \/ StartMonitoring \/ NobodyHired \/ AllReported
  BY <1>1 DEF Plan, PlanEnds, StartMonitoring, NobodyHired, AllReported
<1>2. CASE WakeIdle \/ WakeCompleted \/ WakeCheckpoint \/ WakeHuman \/ Forward \/ Coalesce
  BY <1>2 DEF WakeIdle, WakeCompleted, WakeCheckpoint, WakeHuman, Woken, Forward, Coalesce
<1>3. CASE JudgeBudget \/ JudgeIdly \/ JudgeWrapUp \/ JudgeAsk \/ Think
  BY <1>3 DEF JudgeBudget, JudgeIdly, JudgeWrapUp, JudgeAsk, JudgeOn, Think, Leave
<1>4. CASE DecisionEnds \/ Accept \/ HistoryFull \/ DrainResult \/ DrainIdle \/ DrainEnds
  BY <1>4 DEF DecisionEnds, Accept, HistoryFull, DrainResult, DrainIdle, DrainEnds, Leave, leadVars
<1>5. CASE CloseUp \/ Reply \/ Synthesize
  BY <1>5 DEF CloseUp, Reply, Synthesize
<1>6. CASE \E a \in Agents, t \in Tasks \cup {None} : Hire(a, t) \/ DoSpawn(a, t) \/ DoAssign(a, t)
  BY <1>6 DEF Hire, DoSpawn, DoAssign, Acting, leadVars
<1>7. CASE \/ \E as \in {{a} : a \in Agents} \cup {Broadcast} : DoMessage(as)
           \/ \E new, cancelled \in SUBSET Tasks : DoRevise(new, cancelled)
           \/ \E a \in Agents : DoShutdown(a)
  BY <1>7 DEF DoMessage, DoRevise, DoShutdown, Acting
<1> QED
  BY <1>1, <1>2, <1>3, <1>4, <1>5, <1>6, <1>7 DEF LeadStep

(* When all are collected, nothing is left in the queue.                    *)
LEMMA AllReportedAnswers ==
    ASSUME IInv, AnswerInv, AllCollected
    PROVE  \A a \in snaps : results[a] = "good" \/ a \in late
<1>1. Cardinality(Underway) \in Nat /\ Cardinality(spawned) \in Nat
      /\ Len(doneQ) \in Nat /\ completed \in Nat /\ IsFiniteSet(Underway)
  BY UnderwayFinite DEF IInv, ReportInv
<1>2. Len(doneQ) = 0 /\ Cardinality(Underway) = 0
  BY <1>1 DEF IInv, Accounted, AllCollected
<1>3. Underway = {}
  BY <1>1, <1>2, FS_EmptySet
<1>4. \A a \in snaps : a \in Agents /\ apc[a] = "over" /\ HasAnswered(a)
  BY <1>3 DEF Underway, HasAnswered, IInv, ReportInv, Types
<1> QED
  BY <1>2, <1>4 DEF AnswerInv, Sound, HasResult

LEMMA ReadsAnswers ==
    ASSUME ReportInv, Reads
    PROVE  \A a \in Agents : HasAnswered(a)' => HasAnswered(a)
<1>1. ToSet(idleQ') \subseteq ToSet(idleQ)
  <2>1. CASE idleQ' = idleQ
    BY <2>1
  <2>2. CASE idleQ' = <<>>
    BY <2>2 DEF ToSet
  <2>3. CASE idleQ # <<>> /\ idleQ' = Tail(idleQ)
    <3>1. /\ Len(idleQ) \in Nat /\ Len(idleQ') = Len(idleQ) - 1
          /\ \A i \in 1 .. Len(idleQ') : idleQ'[i] = idleQ[i + 1]
      BY <2>3, HeadTailProperties, LenProperties DEF ReportInv, Types
    <3>2. \A i \in 1 .. Len(idleQ') : i + 1 \in 1 .. Len(idleQ)
      BY <3>1
    <3> QED
      BY <3>1, <3>2 DEF ToSet
  <2> QED
    BY <2>1, <2>2, <2>3 DEF Reads
<1>2. WithText(ToSet(idleQ')) \subseteq WithText(ToSet(idleQ))
  BY <1>1 DEF WithText
<1> QED
  BY <1>2 DEF Reads, HasAnswered

LEMMA LeadIsSound ==
    ASSUME ReportInv, Sound, LeadStep
    PROVE  Sound'
<1>1. late' = late
  BY LeadAnswers
<1>2. CASE Reads
  <2>1. \A a \in Agents : apc'[a] = apc[a] /\ (HasResult(a) => HasResult(a)')
    BY <1>2 DEF Reads, team, HasResult
  <2> QED
    BY <1>1, <1>2, <2>1, ReadsAnswers DEF Sound
<1>3. CASE Returns
  BY <1>1, <1>3 DEF Returns, team, Sound, HasAnswered, HasResult
<1>4. ASSUME NEW a \in Agents, Spawns(a) PROVE Sound'
  <2>1. a \notin spawned /\ apc[a] = "unborn" /\ \A b \in Agents : b # a => apc'[b] = apc[b]
    BY <1>4 DEF Spawns, ReportInv, Born, Types
  <2>2. ~HasAnswered(a)
    BY <2>1, LenProperties DEF HasAnswered, WithText, ToSet, ReportInv, Types, Born
  <2>3. \A b \in Agents : HasAnswered(b)' <=> HasAnswered(b)
    BY <1>4 DEF HasAnswered, Spawns
  <2>4. ASSUME NEW b \in Agents, HasResult(b) PROVE HasResult(b)'
    <3> DEFINE e == [agent |-> a, result |-> "bad", rounds |-> 0]
    <3>1. e \in DoneEntry
      BY DEF DoneEntry
    <3>2. doneQ' = doneQ \/ doneQ' = Append(doneQ, e)
      BY <1>4 DEF Spawns, FailedStart
    <3> HIDE DEF e
    <3>3. Len(doneQ) \in Nat /\ Len(doneQ') >= Len(doneQ) /\ Len(doneQ') \in Nat
          /\ \A i \in 1 .. Len(doneQ) : doneQ'[i] = doneQ[i]
      BY <3>1, <3>2, AppendProperties, LenProperties DEF ReportInv, Types
    <3>4. \A i \in 1 .. Len(doneQ) : i \in 1 .. Len(doneQ')
      BY <3>3
    <3>5. results' = results
      BY <1>4 DEF Spawns
    <3> QED
      BY <2>4, <3>3, <3>4, <3>5 DEF HasResult
  <2> QED
    BY <1>1, <2>1, <2>2, <2>3, <2>4 DEF Sound
<1>5. CASE Collects
  <2> DEFINE h == doneQ[1].agent
  <2>1. /\ Head(doneQ) \in DoneEntry /\ Head(doneQ) = doneQ[1]
        /\ Len(doneQ) \in Nat \ {0} /\ Len(doneQ') = Len(doneQ) - 1
        /\ \A i \in 1 .. Len(doneQ') : doneQ'[i] = doneQ[i + 1]
    BY <1>5, CollectsTypes DEF ReportInv
  <2>2. h \in Agents /\ results[h] = None /\ apc' = apc
        /\ results' = [results EXCEPT ![h] = doneQ[1].result]
    <3>1. 1 \in 1 .. Len(doneQ) /\ h \in Agents
      BY <2>1 DEF DoneEntry
    <3>2. results[h] = None
      BY <1>5, <3>1 DEF ReportInv, Once, Open, Collects
    <3> QED
      BY <1>5, <2>1, <3>1, <3>2 DEF Collects
  <2>3. ASSUME NEW b \in Agents, HasResult(b) PROVE HasResult(b)'
    <3>1. CASE results[b] = "good"
      <4>1. b # h
        BY <2>2, <3>1, SwarmAssumption
      <4> QED
        BY <2>2, <3>1, <4>1 DEF HasResult, ReportInv, Types
    <3>2. CASE b = h /\ doneQ[1].result = "good"
      BY <2>2, <3>2 DEF HasResult, ReportInv, Types
    <3>3. ASSUME NEW i \in 2 .. Len(doneQ), doneQ[i].agent = b, doneQ[i].result = "good"
          PROVE  HasResult(b)'
      <4>1. i - 1 \in 1 .. Len(doneQ') /\ doneQ'[i - 1] = doneQ[i]
        BY <2>1
      <4> QED
        BY <3>3, <4>1 DEF HasResult
    <3>4. \A i \in 1 .. Len(doneQ) : i = 1 \/ i \in 2 .. Len(doneQ)
      BY <2>1
    <3> QED
      BY <2>3, <3>1, <3>2, <3>3, <3>4 DEF HasResult
  <2>4. \A b \in Agents : HasAnswered(b)' <=> HasAnswered(b)
    BY <1>5 DEF HasAnswered, Collects
  <2> QED
    BY <1>1, <2>2, <2>3, <2>4 DEF Sound
<1>6. CASE WrapsUp
  BY <1>1, <1>6 DEF WrapsUp, Wrapped, Sound, HasAnswered, HasResult
<1> QED
  BY <1>2, <1>3, <1>4, <1>5, <1>6, LeadCases DEF ReportInv

LEMMA AgentIsSound ==
    ASSUME ReportInv, Sound, NEW a \in Agents, GoesOn(a) \/ Finishes(a)
    PROVE  Sound' /\ late \subseteq late'
<1>1. late \subseteq late' /\ results' = results /\ snaps' = snaps
  BY DEF GoesOn, Finishes, Apart
<1>2. \A b \in Agents : b # a => apc'[b] = apc[b]
  BY DEF ReportInv, Types, GoesOn, Finishes
<1>3. CASE GoesOn(a)
  <2>1. apc'[a] # "over"
    BY <1>3 DEF GoesOn, ReportInv, Types, Working
  <2>2. \A b \in Agents : HasResult(b)' <=> HasResult(b)
    BY <1>1, <1>3 DEF GoesOn, HasResult
  <2>3. ASSUME NEW b \in Agents, b # a, HasAnswered(b)' PROVE HasAnswered(b)
    <3>1. CASE idleQ' = idleQ
      BY <1>1, <2>3, <3>1 DEF HasAnswered
    <3>2. ASSUME NEW text \in BOOLEAN, idleQ' = Append(idleQ, [agent |-> a, text |-> text])
          PROVE  HasAnswered(b)
      <4> DEFINE e == [agent |-> a, text |-> text]
      <4>1. e \in IdleEntry /\ e.agent = a
        BY DEF IdleEntry
      <4>2. idleQ' = Append(idleQ, e)
        BY <3>2
      <4> HIDE DEF e
      <4>3. /\ Len(idleQ) \in Nat /\ Len(idleQ') = Len(idleQ) + 1
            /\ \A i \in 1 .. Len(idleQ) : idleQ'[i] = idleQ[i]
            /\ idleQ'[Len(idleQ) + 1] = e
        BY <4>1, <4>2, AppendProperties, LenProperties DEF ReportInv, Types
      <4>4. \A i \in 1 .. Len(idleQ') : i \in 1 .. Len(idleQ) \/ i = Len(idleQ) + 1
        BY <4>3
      <4>5. ToSet(idleQ') \subseteq ToSet(idleQ) \cup {e}
        BY <4>3, <4>4 DEF ToSet
      <4>6. b \in WithText(ToSet(idleQ')) => b \in WithText(ToSet(idleQ))
        BY <2>3, <4>1, <4>5 DEF WithText
      <4> QED
        BY <1>1, <2>3, <4>6 DEF HasAnswered
    <3> QED
      BY <1>3, <3>1, <3>2 DEF GoesOn
  <2> QED
    BY <1>1, <1>2, <2>1, <2>2, <2>3 DEF Sound
<1>4. CASE Finishes(a)
  <2>1. PICK result \in {"good", "bad"}, rounds \in Nat :
          /\ doneQ' = Append(doneQ, [agent |-> a, rounds |-> rounds, result |-> result])
          /\ a \in snaps => result = "good"
    BY <1>4 DEF Finishes
  <2> DEFINE e == [agent |-> a, rounds |-> rounds, result |-> result]
  <2>2. e \in DoneEntry /\ e.agent = a /\ e.result = result
    BY DEF DoneEntry
  <2>3. doneQ' = Append(doneQ, e)
    BY <2>1
  <2> HIDE DEF e
  <2>4. /\ Len(doneQ) \in Nat /\ Len(doneQ') = Len(doneQ) + 1
        /\ \A i \in 1 .. Len(doneQ) : doneQ'[i] = doneQ[i]
        /\ doneQ'[Len(doneQ) + 1] = e
    BY <2>2, <2>3, AppendProperties, LenProperties DEF ReportInv, Types
  <2>5. /\ \A i \in 1 .. Len(doneQ) : i \in 1 .. Len(doneQ')
        /\ Len(doneQ) + 1 \in 1 .. Len(doneQ')
    BY <2>4
  <2>6. \A b \in Agents : HasResult(b) => HasResult(b)'
    BY <1>1, <2>4, <2>5 DEF HasResult
  <2>7. \A b \in Agents : HasAnswered(b)' <=> HasAnswered(b)
    BY <1>1, <1>4 DEF Finishes, HasAnswered
  <2>8. a \in snaps => HasResult(a)'
    BY <2>1, <2>2, <2>4, <2>5 DEF HasResult
  <2>9. a \notin snaps /\ HasAnswered(a) => a \in late'
    BY <1>4 DEF Finishes, HasAnswered
  <2> QED
    BY <1>1, <1>2, <2>6, <2>7, <2>8, <2>9 DEF Sound
<1> QED
  BY <1>3, <1>4

LEMMA LeadKeepsAnswers ==
    ASSUME IInv, AnswerInv, LeadStep
    PROVE  AnswerInv'
<1>1. Sound'
  BY LeadIsSound DEF IInv, AnswerInv, Sound
<1>2. late' = late /\ (why' = why \/ (pc' = "close" /\ why' # "all") \/ AllReported)
  BY LeadAnswers
<1>3. CASE AllReported
  <2>1. pc' = "close" /\ snaps' = snaps /\ results' = results /\ AllCollected
    BY <1>3 DEF AllReported, Leave, teamVars
  <2>2. \A a \in snaps' : results'[a] = "good" \/ a \in late'
    BY <1>2, <2>1, AllReportedAnswers
  <2> QED
    BY <1>1, <2>1, <2>2 DEF AnswerInv, Sound, AnswersKept, Open
<1>4. CASE pc' = "close" /\ why' # "all"
  BY <1>1, <1>4 DEF AnswerInv, Sound, AnswersKept, Open
<1>5. CASE why' = why
  <2>1. CASE why = None
    BY <1>1, <1>5, <2>1, SwarmAssumption DEF AnswerInv, Sound, AnswersKept
  <2>2. CASE why # None
    <3>1. ~Open
      BY <2>2 DEF AnswerInv
    <3>2. Reads \/ Returns
      BY <3>1, LeadCases DEF IInv, ReportInv, Open, Spawns, Collects, WrapsUp
    <3>3. results' = results /\ snaps' = snaps /\ ~Open'
      BY <3>1, <3>2 DEF Reads, Returns, team, Open
    <3> QED
      BY <1>1, <1>2, <1>5, <3>3 DEF AnswerInv, Sound, AnswersKept
  <2> QED
    BY <2>1, <2>2
<1> QED
  BY <1>2, <1>3, <1>4, <1>5

(* When all agents have been collected, every agent whose answer was read   *)
(* counts as successful, unless its end overtook that answer: neither a     *)
(* later failure nor a timeout of its child workflow takes it away.         *)
THEOREM AnswersCount == Spec => []AnswersKept
<1> DEFINE AInv == IInv /\ AnswerInv
<1>1. Init => AInv
  <2>1. Init => \A a \in Agents : apc[a] # "over"
    BY DEF Init
  <2> QED
    BY <2>1, InitReports, InitCounted, SwarmAssumption DEF Init, IInv, AnswerInv, Sound, AnswersKept
<1>2. AInv /\ [Next]_vars => AInv'
  <2> SUFFICES ASSUME IInv, AnswerInv, [Next]_vars PROVE IInv' /\ AnswerInv'
    OBVIOUS
  <2>1. IInv'
    BY StepReports, StepCounted DEF IInv
  <2>2. ASSUME LeadStep PROVE AnswerInv'
    BY <2>2, LeadKeepsAnswers
  <2>3. ASSUME NEW a \in Agents, AgentStep(a) PROVE AnswerInv'
    <3>1. GoesOn(a) \/ Finishes(a)
      BY <2>3, AgentCases DEF IInv, ReportInv
    <3>2. Sound' /\ late \subseteq late'
      BY <3>1, AgentIsSound DEF IInv, AnswerInv, Sound
    <3>3. why' = why /\ pc' = pc /\ snaps' = snaps /\ results' = results
      BY <2>3, <3>1, AgentIsApart DEF GoesOn, Finishes, Apart, leadVars
    <3> QED
      BY <3>2, <3>3 DEF AnswerInv, Sound, AnswersKept, Open
  <2>4. ASSUME UNCHANGED vars PROVE AnswerInv'
    BY <2>4 DEF vars, leadVars, teamVars, signalVars, agentVars, AnswerInv, Sound, AnswersKept, Open,
                HasAnswered, HasResult
  <2> QED
    BY <2>1, <2>2, <2>3, <2>4 DEF Next
<1>3. AInv => AnswersKept
  BY DEF AnswerInv
<1> QED
  BY <1>1, <1>2, <1>3, PTL DEF Spec
=============================================================================
