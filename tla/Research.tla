------------------------------ MODULE Research ------------------------------
(***************************************************************************)
(* The research strategy (go/orchestrator/internal/workflows/strategies/   *)
(* research.go, ResearchWorkflow) and the executors it passes its subtasks *)
(* to (workflows/patterns/execution/hybrid.go and parallel.go): refine the *)
(* query, split it into subtasks, run an agent for each in one of six      *)
(* ways, await the domain analysis that runs beside them as a child        *)
(* workflow, synthesise, fill the gaps in rounds, and report.              *)
(*                                                                         *)
(* Coroutines of a Temporal workflow run one at a time and change over     *)
(* where they await something: a step is the code between two awaits.  An  *)
(* agent is one call, or one ReactLoop, that is answered or fails; what    *)
(* the models find out and decide is left open.  Tokens are counted per    *)
(* call: a count is how often the tokens of that call are in the total.    *)
(***************************************************************************)
EXTENDS Naturals, Sequences, FiniteSets, SequencesExt

CONSTANTS
    Tasks,            \* ids of subtasks that agents run
    Domain,           \* id of the domain_analysis subtask
    Languages,        \* target languages of the localized search
    MaxSubqueries,    \* MaxSubqueries: agents of one round of gap filling
    Solo, Searcher,   \* the agents of the simple path and of the fallback search
    Refiner, Decomposer,  \* the calls that refine and decompose the query
    Plans,            \* what decomposition may answer: [list, deps]
    MaxConcurrency,   \* max_concurrent_agents
    GapLimit,         \* agents of one round that run at a time
    MaxIterations,    \* rounds of gap filling
    MaxFaults,        \* bound: agents and activities that fail
    MaxAsked,         \* bound: gap agents of all rounds together
    Unnamed,          \* agents whose answers do not name the entity asked about
    None

Ids  == Tasks \union {Domain}
Gaps == (1 .. MaxIterations) \X (1 .. MaxSubqueries)
Agents == Ids \union Languages \union Gaps \union {Solo, Searcher}
Calls  == Agents \union {Refiner, Decomposer}

ASSUME ResearchAssumption ==
    /\ MaxConcurrency \in Nat \ {0} /\ GapLimit \in Nat \ {0}
    /\ MaxIterations \in Nat \ {0} /\ MaxFaults \in Nat /\ MaxAsked \in Nat
    /\ MaxSubqueries \in Nat /\ IsFiniteSet(Tasks) /\ IsFiniteSet(Languages)
    /\ \A p \in Plans : p.list \in Seq(Ids) /\ p.deps \in [Ids -> SUBSET Ids]

(* An id stands for one call of one agent, and a plan has each of its       *)
(* subtasks once: the decomposer numbers them.                              *)
ASSUME DistinctAssumption ==
    /\ Domain \notin Tasks /\ Ids \intersect Languages = {}
    /\ Solo # Searcher /\ {Solo, Searcher} \intersect (Ids \union Languages) = {}
    /\ Gaps \intersect (Ids \union Languages \union {Solo, Searcher}) = {}
    /\ {Refiner, Decomposer} \intersect Agents = {}
    /\ \A p \in Plans : IsInjective(p.list)
    /\ None \notin {"success", "failed", "cancelled", "react", "reactSeq", "reactPar",
                    "parallel", "hybrid", "phase1", "phase3"}

VARIABLES
    stage,      \* where ResearchWorkflow is
    outcome,    \* what it returned
    company,    \* refineResult.QueryType is "company"
    plan,       \* decomp.Subtasks, without the domain analysis
    deps,       \* their dependencies
    mode,       \* how the subtasks are run
    pool,       \* what the present executor waits for
    order,      \* subtasks not started yet, where they start in order
    co,         \* the coroutine of each agent
    completed,  \* completedTasks of the executor
    entries,    \* keys of taskResults, or of previousResults
    given,      \* the dependencies whose results an agent was given
    analysis,   \* the child workflow: "off", "running", "good", "failed"
    started,    \* domainAnalysisStarted
    round,      \* iteration
    results,    \* agentResults: how often each agent's result is in it
    evidence,   \* originalAgentResults
    spent,      \* calls that were answered: their tokens are spent
    total,      \* totalTokens: how often each call is in it
    filled,     \* gapFillingOccurred
    basis,      \* the results the report in hand was made from
    current,    \* no attempt to make a newer report has failed
    cancelled,  \* State.IsCancelled of the signal handler
    faults      \* bound: what has failed so far

planVars   == <<company, plan, deps, mode>>
poolVars   == <<pool, order, completed, entries, given>>
childVars  == <<analysis, started>>
gatherVars == <<results, evidence, total>>
reportVars == <<filled, basis, current>>
userVars   == <<cancelled, faults>>
vars == <<stage, outcome, planVars, poolVars, co, childVars, round, gatherVars, spent,
          reportVars, userVars>>

Init ==
    /\ stage = "refine" /\ outcome = None
    /\ company = FALSE /\ plan = <<>> /\ deps = [t \in Ids |-> {}] /\ mode = None
    /\ pool = {} /\ order = <<>> /\ completed = {} /\ entries = {}
    /\ given = [t \in Tasks |-> {}]
    /\ co = [a \in Agents |-> "none"]
    /\ analysis = "off" /\ started = FALSE /\ round = 1
    /\ results = [a \in Agents |-> 0] /\ evidence = {}
    /\ spent = {} /\ total = [c \in Calls |-> 0]
    /\ filled = FALSE /\ basis = {} /\ current = TRUE
    /\ cancelled = FALSE /\ faults = 0

-----------------------------------------------------------------------------
(* Coroutines.                                                              *)

Running(s) == {a \in s : co[a] \in {"running", "good", "bad"}}
Settled(s) == \A a \in s : co[a] \in {"counted", "void"}
Kept       == {a \in Agents : results[a] > 0}

(* Every failure takes one of the faults the instance is bounded to.        *)
Fault       == faults < MaxFaults /\ faults' = faults + 1
Outcome(ok) == IF ok THEN UNCHANGED faults ELSE Fault

Add(c, s)  == [x \in DOMAIN c |-> IF x \in s THEN c[x] + 1 ELSE c[x]]
Only(s)    == [x \in Calls |-> IF x \in s THEN 1 ELSE 0]

Goto(s)    == stage' = s
Return(v)  == stage' = "done" /\ outcome' = v
Stay       == UNCHANGED <<stage, outcome>>

(* CheckPausePoint: what comes after it is not reached when the task is     *)
(* cancelled.  Pauses, which hold it up here, are OrchestratorRouter's.     *)
Checkpoints == {"refine", "decompose", "route", "filter", "iterate", "coverage", "subqueries",
                "spawn", "reflect", "cite", "verify", "complete"}
CheckPausePoint == ~cancelled

Cancelled ==
    /\ stage \in Checkpoints /\ cancelled
    /\ Return("cancelled")
    /\ UNCHANGED <<planVars, poolVars, co, childVars, round, gatherVars, spent, reportVars,
                   userVars>>

-----------------------------------------------------------------------------
(* Refinement and decomposition.                                            *)

(* A refinement that fails leaves the query as it is.                       *)
Refine(ok, isCompany) ==
    /\ stage = "refine" /\ CheckPausePoint
    /\ Goto("decompose") /\ Outcome(ok)
    /\ IF ok
          THEN /\ company' = isCompany
               /\ spent' = spent \union {Refiner} /\ total' = Add(total, {Refiner})
          ELSE UNCHANGED <<company, spent, total>>
    /\ UNCHANGED <<outcome, plan, deps, mode, poolVars, co, childVars, round, results, evidence,
                   reportVars, cancelled>>

(* The tokens of decomposition are recorded, but not added to the total.    *)
Decompose(p) ==
    /\ stage = "decompose" /\ CheckPausePoint
    /\ Goto("route")
    /\ plan' = p.list /\ deps' = p.deps /\ spent' = spent \union {Decomposer}
    /\ UNCHANGED <<outcome, company, mode, poolVars, co, childVars, round, gatherVars,
                   reportVars, userVars>>

DecomposeFails ==
    /\ stage = "decompose" /\ CheckPausePoint
    /\ Fault /\ Return("failed")
    /\ UNCHANGED <<planVars, poolVars, co, childVars, round, gatherVars, spent, reportVars,
                   cancelled>>

-----------------------------------------------------------------------------
(* The route: which subtasks are run, and how.                              *)

(* Those of a list that are in s, in the order of the list.                 *)
Among(list, s) ==
    LET first[n \in 0 .. Len(list)] ==
            IF n = 0 THEN <<>>
            ELSE IF list[n] \in s THEN Append(first[n - 1], list[n]) ELSE first[n - 1]
    IN  first[Len(list)]

(* topologicalSort of a list with dependencies d: the queue with all that   *)
(* was ever in it, from a first queue in the order of Go's map iteration.   *)
(* The n-th pop appends those that waited for nothing else; nothing is      *)
(* popped when the queue is empty.                                          *)
Kahn(list, d, queue) ==
    LET pop == [n \in 1 .. Len(list) |-> [q \in Seq(Ids) |->
                  LET freed == {u \in Ids : q[n] \in d[u] /\ d[u] \subseteq {q[i] : i \in 1 .. n}}
                  IN  IF n <= Len(q) THEN q \o Among(list, freed) ELSE q]]
        popped[n \in 0 .. Len(list)] == IF n = 0 THEN queue ELSE pop[n][popped[n - 1]]
    IN  popped[Len(list)]

Sources(list, d)  == {t \in ToSet(list) : d[t] = {}}
Sortable(list, d) == Len(Kahn(list, d, SetToSeq(Sources(list, d)))) = Len(list)

(* The list as it is when the order leaves a subtask out.                   *)
TopologicalSort(list, d) ==
    IF Sortable(list, d) THEN {Kahn(list, d, q) : q \in SetToSeqs(Sources(list, d))} ELSE {list}

Executing == Among(plan, Tasks)
HasDependencies == \E t \in ToSet(Executing) : deps[t] # {}
Dependents == {t \in ToSet(plan) : Domain \in deps[t]}

Modes(analysed) ==
    {"react"} \union (IF ~HasDependencies THEN {"reactPar", "parallel"}
                      ELSE {"reactSeq", IF analysed THEN "phase1" ELSE "hybrid"})

(* ExecuteHybrid starts a coroutine per task; those with dependencies wait  *)
(* for them first.                                                          *)
Enlist(s) == [a \in Agents |-> IF a \notin s THEN co[a]
                               ELSE IF deps[a] = {} THEN "queued" ELSE "waiting"]

Route(analyse, m, seq) ==
    /\ stage = "route" /\ CheckPausePoint
    /\ m \in Modes(analyse) /\ seq \in TopologicalSort(Executing, deps)
    /\ analyse => company /\ Domain \in ToSet(plan)
    /\ started' = analyse /\ analysis' = IF analyse THEN "running" ELSE "off"
    /\ Goto("execute") /\ plan' = Executing /\ mode' = m
    /\ LET all == ToSet(Executing)
       IN  CASE m \in {"reactSeq", "reactPar"} ->
                  /\ order' = IF m = "reactSeq" THEN seq ELSE Executing
                  /\ pool' = all /\ UNCHANGED co
             [] m \in {"hybrid", "phase1"} ->
                  /\ pool' = IF m = "hybrid" THEN all ELSE all \ Dependents
                  /\ co' = Enlist(pool') /\ UNCHANGED order
             [] m = "parallel" ->
                  /\ pool' = all /\ UNCHANGED order
                  /\ co' = [a \in Agents |-> IF a \in all THEN "queued" ELSE co[a]]
             [] OTHER -> UNCHANGED <<pool, order, co>>
    /\ UNCHANGED <<outcome, company, deps, completed, entries, given, round, gatherVars, spent,
                   reportVars, userVars>>

-----------------------------------------------------------------------------
(* Agents.                                                                  *)

Executor == {"hybrid", "phase1", "phase3"}
InOrder  == {"reactSeq", "reactPar"}

Begin(t) == /\ co' = [co EXCEPT ![t] = "running"]
            /\ given' = [given EXCEPT ![t] = deps[t] \intersect entries]

Ready_Any(t) ==
    /\ stage = "execute" /\ co[t] = "waiting"
    /\ deps[t] \intersect completed # {}
    /\ co' = [co EXCEPT ![t] = "queued"]
    /\ Stay
    /\ UNCHANGED <<planVars, poolVars, childVars, round, gatherVars, spent, reportVars, userVars>>

(* waitForDependencies.                                                     *)
Ready(t) ==
    /\ stage = "execute" /\ co[t] = "waiting"
    /\ deps[t] \subseteq completed
    /\ co' = [co EXCEPT ![t] = "queued"]
    /\ Stay
    /\ UNCHANGED <<planVars, poolVars, childVars, round, gatherVars, spent, reportVars, userVars>>

(* Its time limit counts from the start of the executor, however long the   *)
(* dependencies take.                                                       *)
Expire(t) ==
    /\ stage = "execute" /\ co[t] = "waiting"
    /\ ~(deps[t] \subseteq completed)
    /\ co' = [co EXCEPT ![t] = "expired"]
    /\ Stay
    /\ UNCHANGED <<planVars, poolVars, childVars, round, gatherVars, spent, reportVars, userVars>>

(* The semaphore of ExecuteHybrid and ExecuteParallel.                      *)
Acquire(t) ==
    /\ stage = "execute" /\ co[t] = "queued"
    /\ Cardinality(Running(pool)) < MaxConcurrency
    /\ Begin(t)
    /\ Stay
    /\ UNCHANGED <<planVars, pool, order, completed, entries, childVars, round, gatherVars,
                   spent, reportVars, userVars>>

(* A ReactLoop per task: one after the other, or up to the limit at a time. *)
StartNext ==
    /\ stage = "execute" /\ mode \in InOrder /\ order # <<>>
    /\ Cardinality(Running(pool)) < IF mode = "reactSeq" THEN 1 ELSE MaxConcurrency
    /\ Begin(Head(order)) /\ order' = Tail(order)
    /\ Stay
    /\ UNCHANGED <<planVars, pool, completed, entries, childVars, round, gatherVars, spent,
                   reportVars, userVars>>

(* The agent answers or fails; nobody has heard of it yet.                  *)
Answer(a, ok) ==
    /\ stage # "done" /\ co[a] = "running"
    /\ co' = [co EXCEPT ![a] = IF ok THEN "good" ELSE "bad"]
    /\ Outcome(ok) /\ spent' = IF ok THEN spent \union {a} ELSE spent
    /\ Stay
    /\ UNCHANGED <<planVars, poolVars, childVars, round, gatherVars, reportVars, cancelled>>

Heard(a) == co' = [co EXCEPT ![a] = IF @ = "good" THEN "counted" ELSE "void"]

CollectHybrid_Deaf(t) ==
    /\ stage = "execute" /\ mode \in Executor
    /\ t \in pool /\ co[t] \in {"good", "bad"}
    /\ Heard(t)
    /\ completed' = completed \union {t} /\ entries' = entries \union {t}
    /\ Stay
    /\ UNCHANGED <<planVars, pool, order, given, childVars, round, gatherVars, spent,
                   reportVars, userVars>>

(* Receive in ExecuteHybrid.  An agent that failed has an empty result, not *)
(* an error: ExecuteParallel never returns one.                             *)
CollectHybrid(t) ==
    /\ stage = "execute" /\ mode \in Executor
    /\ t \in pool /\ co[t] \in {"good", "bad", "expired"}
    /\ Heard(t)
    /\ completed' = completed \union {t}
    /\ entries' = IF co[t] = "expired" THEN entries ELSE entries \union {t}
    /\ Stay
    /\ UNCHANGED <<planVars, pool, order, given, childVars, round, gatherVars, spent,
                   reportVars, userVars>>

(* The callback of a future in ExecuteParallel.                             *)
CollectParallel(t) ==
    /\ stage = "execute" /\ mode = "parallel"
    /\ t \in pool /\ co[t] \in {"good", "bad"}
    /\ Heard(t)
    /\ Stay
    /\ UNCHANGED <<planVars, poolVars, childVars, round, gatherVars, spent, reportVars, userVars>>

(* A ReactLoop of the strategy's own: its result is added as it comes.      *)
CollectReact(t) ==
    /\ stage = "execute" /\ mode \in InOrder
    /\ t \in pool /\ co[t] \in {"good", "bad"}
    /\ mode = "reactPar" => order = <<>> \/ Cardinality(Running(pool)) >= MaxConcurrency
    /\ Heard(t)
    /\ LET new == IF co[t] = "good" THEN {t} ELSE {}
       IN  /\ results' = Add(results, new) /\ total' = Add(total, new)
           /\ entries' = entries \union new
    /\ Stay
    /\ UNCHANGED <<planVars, pool, order, completed, given, childVars, round, evidence, spent,
                   reportVars, userVars>>

ReactsDone_OneLeft ==
    /\ stage = "execute" /\ mode \in InOrder
    /\ order = <<>> /\ Cardinality(Running(pool)) <= 1
    /\ Goto("await")
    /\ UNCHANGED <<outcome, planVars, poolVars, co, childVars, round, gatherVars, spent,
                   reportVars, userVars>>

ReactsDone ==
    /\ stage = "execute" /\ mode \in InOrder
    /\ order = <<>> /\ Running(pool) = {}
    /\ Goto("await")
    /\ UNCHANGED <<outcome, planVars, poolVars, co, childVars, round, gatherVars, spent,
                   reportVars, userVars>>

(* The simple path.  Its total replaces the one so far.                     *)
React(ok) ==
    /\ stage = "execute" /\ mode = "react"
    /\ Outcome(ok)
    /\ IF ok
          THEN /\ Goto("await") /\ UNCHANGED outcome
               /\ results' = Add(results, {Solo}) /\ total' = Only({Solo})
               /\ spent' = spent \union {Solo}
          ELSE Return("failed") /\ UNCHANGED <<results, total, spent>>
    /\ UNCHANGED <<planVars, poolVars, co, childVars, round, evidence, reportVars, cancelled>>

(* What an executor answers with: its own good results, and those it was    *)
(* given as PrefilledResults.                                               *)
Counted == {t \in pool : co[t] = "counted"}
Answers == {t \in entries : co[t] = "counted" \/ t = Domain}

(* ExecuteHybrid and ExecuteParallel without a domain analysis.  Their      *)
(* total replaces the one so far.                                           *)
ExecutorDone ==
    /\ stage = "execute" /\ mode \in {"hybrid", "parallel"} /\ Settled(pool)
    /\ Goto("await")
    /\ results' = Add(results, Counted) /\ total' = Only(Counted)
    /\ UNCHANGED <<outcome, planVars, poolVars, co, childVars, round, evidence, spent,
                   reportVars, userVars>>

-----------------------------------------------------------------------------
(* The domain analysis.                                                     *)

AnalysisEnds(ok) ==
    /\ stage # "done" /\ analysis = "running"
    /\ analysis' = IF ok THEN "good" ELSE "failed"
    /\ Outcome(ok) /\ spent' = IF ok THEN spent \union {Domain} ELSE spent
    /\ Stay
    /\ UNCHANGED <<planVars, poolVars, co, started, round, gatherVars, reportVars, cancelled>>

Digest == IF analysis = "good" THEN {Domain} ELSE {}

(* First the tasks that do not depend on it; then it is awaited.            *)
Phase1Done ==
    /\ stage = "execute" /\ mode = "phase1" /\ Settled(pool)
    /\ analysis \in {"good", "failed"}
    /\ completed' = entries \union Digest /\ entries' = entries \union Digest
    /\ pool' = Dependents /\ co' = Enlist(Dependents)
    /\ mode' = "phase3"
    /\ results' = Add(results, Counted) /\ total' = Add(total, Counted)
    /\ Stay
    /\ UNCHANGED <<company, plan, deps, order, given, childVars, round, evidence, spent,
                   reportVars, userVars>>

Phase3Done_Replaces ==
    /\ stage = "execute" /\ mode = "phase3" /\ Settled(pool)
    /\ results' = Add(IF pool = {} THEN results ELSE Add(results, Answers), Digest)
    /\ total' = Only(Counted \union Digest)
    /\ started' = FALSE /\ Goto("localize")
    /\ UNCHANGED <<outcome, planVars, poolVars, co, analysis, round, evidence, spent,
                   reportVars, userVars>>

(* Then those that do.  The executor's answer has the prefilled results in  *)
(* it, its total has not.  The digest goes before them, as in Await.        *)
Phase3Done ==
    /\ stage = "execute" /\ mode = "phase3" /\ Settled(pool)
    /\ results' = Add(IF pool = {} THEN results ELSE Add(results, Answers), Digest)
    /\ total' = Add(total, Counted \union Digest)
    /\ started' = FALSE /\ Goto("localize")
    /\ UNCHANGED <<outcome, planVars, poolVars, co, analysis, round, evidence, spent,
                   reportVars, userVars>>

(* The digest goes before the other results.                                *)
Await ==
    /\ stage = "await"
    /\ started => analysis # "running"
    /\ results' = Add(results, Digest) /\ total' = Add(total, Digest)
    /\ started' = FALSE /\ Goto("localize")
    /\ UNCHANGED <<outcome, planVars, poolVars, co, analysis, round, evidence, spent,
                   reportVars, userVars>>

-----------------------------------------------------------------------------
(* What only the execution of the subtasks reads goes out of scope.         *)
Forget ==
    /\ plan' = <<>> /\ deps' = [t \in Ids |-> {}] /\ mode' = None /\ order' = <<>>
    /\ completed' = {} /\ entries' = {} /\ given' = [t \in Tasks |-> {}]
    /\ company' = FALSE /\ analysis' = "off" /\ started' = FALSE

(* Localized search: a ReactLoop per language, with no limit.               *)
Localize(langs) ==
    /\ stage = "localize"
    /\ Goto("languages") /\ pool' = langs /\ Forget
    /\ co' = [a \in Agents |-> IF a \in langs THEN "running" ELSE "none"]
    /\ UNCHANGED <<outcome, round, gatherVars, spent, reportVars, userVars>>

CollectLanguage(l) ==
    /\ stage = "languages" /\ l \in pool /\ co[l] \in {"good", "bad"}
    /\ Heard(l)
    /\ LET new == IF co[l] = "good" THEN {l} ELSE {}
       IN  results' = Add(results, new) /\ total' = Add(total, new)
    /\ Stay
    /\ UNCHANGED <<planVars, poolVars, childVars, round, evidence, spent, reportVars, userVars>>

(* All results are evidence for citations; synthesis gets those the entity  *)
(* filter keeps, or all when it would keep none, or there is no entity.     *)
Filter(entity) ==
    /\ stage = "languages" /\ Settled(pool)
    /\ pool' = {} /\ co' = [a \in Agents |-> "none"]
    /\ evidence' = Kept
    /\ results' = [a \in Agents |-> IF entity /\ a \in Unnamed /\ ~(Kept \subseteq Unnamed)
                                       THEN 0 ELSE results[a]]
    /\ Goto("filter")
    /\ UNCHANGED <<outcome, planVars, order, completed, entries, given, childVars, round, total,
                   spent, reportVars, userVars>>

(* Without one successful use of a tool a fallback agent searches.          *)
Fallback(ok) ==
    /\ stage = "filter" /\ CheckPausePoint
    /\ Goto("synthesis") /\ Outcome(ok)
    /\ LET new == IF ok THEN {Searcher} ELSE {}
       IN  /\ results' = Add(results, new) /\ total' = Add(total, new)
           /\ spent' = spent \union new /\ evidence' = evidence \union new
    /\ UNCHANGED <<outcome, planVars, poolVars, co, childVars, round, reportVars, cancelled>>

ToolsUsed ==
    /\ stage = "filter" /\ CheckPausePoint /\ Kept # {}
    /\ Goto("synthesis")
    /\ UNCHANGED <<outcome, planVars, poolVars, co, childVars, round, gatherVars, spent,
                   reportVars, userVars>>

(* What comes after the first report: rounds of gap filling, the older      *)
(* single one, or none.                                                     *)
Synthesize(ok, next) ==
    /\ stage = "synthesis" /\ Outcome(ok)
    /\ next \in {"iterate", "legacy", "reflect"}
    /\ IF ok THEN Goto(next) /\ UNCHANGED outcome /\ basis' = Kept
             ELSE Return("failed") /\ UNCHANGED basis
    /\ UNCHANGED <<planVars, poolVars, co, childVars, round, gatherVars, spent, filled, current,
                   cancelled>>

-----------------------------------------------------------------------------
(* Gap filling in rounds.                                                   *)

InRound(r) == {r} \X (1 .. MaxSubqueries)

Break == Goto("resynthesis")

(* From the second round on an intermediate synthesis may be confident      *)
(* enough to stop; when it fails the round goes on.                         *)
Iterate(confident) ==
    /\ stage = "iterate" /\ CheckPausePoint
    /\ confident => round > 1 /\ Kept # {}
    /\ IF confident THEN Break ELSE Goto("coverage")
    /\ UNCHANGED <<outcome, planVars, poolVars, co, childVars, round, gatherVars, spent,
                   reportVars, userVars>>

(* EvaluateCoverage: it fails, or finds nothing more to do, or gaps.        *)
Coverage(gaps) ==
    /\ stage = "coverage" /\ CheckPausePoint
    /\ IF gaps THEN Goto("subqueries") ELSE Break
    /\ UNCHANGED <<outcome, planVars, poolVars, co, childVars, round, gatherVars, spent,
                   reportVars, userVars>>

GenerateSubqueries(n) ==
    /\ stage = "subqueries" /\ CheckPausePoint
    /\ n + Cardinality({g \in Gaps : co[g] # "none"}) <= MaxAsked
    /\ IF n = 0 THEN Break ELSE Goto("spawn")
    /\ pool' = {round} \X (1 .. n)
    /\ UNCHANGED <<outcome, planVars, order, completed, entries, given, co, childVars, round,
                   gatherVars, spent, reportVars, userVars>>

SpawnGaps ==
    /\ stage = "spawn" /\ CheckPausePoint
    /\ Goto("gaps")
    /\ co' = [a \in Agents |-> IF a \in pool THEN "queued" ELSE co[a]]
    /\ UNCHANGED <<outcome, planVars, poolVars, childVars, round, gatherVars, spent, reportVars,
                   userVars>>

(* Each round has a semaphore of its own; an agent gives its permit back    *)
(* when its result was received.                                            *)
GapAcquire(g) ==
    /\ stage # "done" /\ g \in Gaps /\ co[g] = "queued"
    /\ Cardinality(Running(InRound(g[1]))) < GapLimit
    /\ co' = [co EXCEPT ![g] = "running"]
    /\ Stay
    /\ UNCHANGED <<planVars, poolVars, childVars, round, gatherVars, spent, reportVars, userVars>>

CollectGap_Unmarked(g, accept, saturated) ==
    /\ stage = "gaps" /\ g \in pool /\ co[g] \in {"good", "bad"}
    /\ accept => co[g] = "good"
    /\ saturated => accept
    /\ Heard(g)
    /\ LET new == IF accept THEN {g} ELSE {}
       IN  /\ results' = Add(results, new) /\ total' = Add(total, new)
           /\ evidence' = evidence \union new
    /\ pool' = IF saturated THEN {} ELSE pool \ {g}
    /\ Stay
    /\ UNCHANGED <<planVars, order, completed, entries, given, childVars, round, spent,
                   reportVars, userVars>>

(* A result that is worth little is dropped, with its tokens.  Enough new   *)
(* sources end the round: nobody receives from the agents that are left.    *)
CollectGap(g, accept, saturated) ==
    /\ stage = "gaps" /\ g \in pool /\ co[g] \in {"good", "bad"}
    /\ accept => co[g] = "good"
    /\ saturated => accept
    /\ Heard(g)
    /\ LET new == IF accept THEN {g} ELSE {}
       IN  /\ results' = Add(results, new) /\ total' = Add(total, new)
           /\ evidence' = evidence \union new /\ filled' = (filled \/ accept)
    /\ pool' = IF saturated THEN {} ELSE pool \ {g}
    /\ Stay
    /\ UNCHANGED <<planVars, order, completed, entries, given, childVars, round, spent, basis,
                   current, userVars>>

RoundEnds ==
    /\ stage = "gaps" /\ pool = {}
    /\ IF round < MaxIterations THEN Goto("iterate") /\ round' = round + 1
                               ELSE Break /\ UNCHANGED round
    /\ UNCHANGED <<outcome, planVars, poolVars, co, childVars, gatherVars, spent, reportVars,
                   userVars>>

(* The last synthesis, when a gap was filled; the first report stands when  *)
(* it fails.                                                                *)
Resynthesize(ok) ==
    /\ stage = "resynthesis" /\ filled
    /\ Goto("reflect") /\ Outcome(ok)
    /\ basis' = IF ok THEN Kept ELSE basis
    /\ current' = ok
    /\ UNCHANGED <<outcome, planVars, poolVars, co, childVars, round, gatherVars, spent, filled,
                   cancelled>>

NothingFilled ==
    /\ stage = "resynthesis" /\ ~filled
    /\ Goto("reflect")
    /\ UNCHANGED <<outcome, planVars, poolVars, co, childVars, round, gatherVars, spent,
                   reportVars, userVars>>

-----------------------------------------------------------------------------
(* The older gap filling: one round, whose results go to one more synthesis *)
(* and nowhere else.                                                        *)

SpawnAreas(n) ==
    /\ stage = "legacy"
    /\ Goto("areas") /\ pool' = {1} \X (1 .. n)
    /\ co' = [a \in Agents |-> IF a \in pool' THEN "queued" ELSE co[a]]
    /\ UNCHANGED <<outcome, planVars, order, completed, entries, given, childVars, round,
                   gatherVars, spent, reportVars, userVars>>

CollectArea(g) ==
    /\ stage = "areas" /\ g \in pool /\ co[g] \in {"good", "bad"}
    /\ Heard(g)
    /\ total' = Add(total, IF co[g] = "good" THEN {g} ELSE {})
    /\ Stay
    /\ UNCHANGED <<planVars, poolVars, childVars, round, results, evidence, spent, reportVars,
                   userVars>>

(* Without new results, or without citations, the report is left as it is.  *)
Enhance(cited, ok) ==
    /\ \/ stage = "legacy" /\ ~cited
       \/ stage = "areas" /\ Settled(pool) /\ (cited => Counted # {})
    /\ Goto("reflect")
    /\ IF cited
          THEN /\ Outcome(ok)
               /\ basis' = IF ok THEN Kept \union Counted ELSE basis
               /\ current' = ok
          ELSE UNCHANGED <<faults, basis, current>>
    /\ UNCHANGED <<outcome, planVars, poolVars, co, childVars, round, gatherVars, spent, filled,
                   cancelled>>

-----------------------------------------------------------------------------
(* Reflection, citations, verification and the end: each may fail without   *)
(* an effect on what is modelled here.                                      *)

Step(from, to) ==
    /\ stage = from /\ CheckPausePoint
    /\ Goto(to)
    /\ UNCHANGED <<outcome, planVars, poolVars, co, childVars, round, gatherVars, spent,
                   reportVars, userVars>>

Reflect  == Step("reflect", "cite")
Cite     == Step("cite", "verify")
Verify   == Step("verify", "complete")

Complete ==
    /\ stage = "complete" /\ CheckPausePoint
    /\ Return("success")
    /\ UNCHANGED <<planVars, poolVars, co, childVars, round, gatherVars, spent, reportVars,
                   userVars>>

-----------------------------------------------------------------------------
(* The user.                                                                *)

Cancel ==
    /\ stage # "done" /\ ~cancelled
    /\ cancelled' = TRUE
    /\ Stay
    /\ UNCHANGED <<planVars, poolVars, co, childVars, round, gatherVars, spent, reportVars,
                   faults>>

Execution ==
    \/ \E t \in Tasks : Ready(t) \/ Expire(t) \/ Acquire(t)
    \/ \E t \in Tasks : CollectHybrid(t) \/ CollectParallel(t) \/ CollectReact(t)
    \/ \E ok \in BOOLEAN : React(ok) \/ AnalysisEnds(ok)
    \/ \E a \in Agents, ok \in BOOLEAN : Answer(a, ok)
    \/ StartNext \/ ReactsDone \/ ExecutorDone \/ Phase1Done \/ Phase3Done \/ Await

GapFilling ==
    \/ \E b \in BOOLEAN : Iterate(b) \/ Coverage(b) \/ Resynthesize(b)
    \/ \E n \in 0 .. MaxSubqueries : GenerateSubqueries(n)
    \/ \E n \in 1 .. MaxSubqueries : SpawnAreas(n)
    \/ \E g \in Gaps : GapAcquire(g) \/ CollectArea(g)
    \/ \E g \in Gaps, accept, saturated \in BOOLEAN : CollectGap(g, accept, saturated)
    \/ \E cited, ok \in BOOLEAN : Enhance(cited, ok)
    \/ SpawnGaps \/ RoundEnds \/ NothingFilled

Workflow ==
    \/ Cancelled
    \/ \E ok, isCompany \in BOOLEAN : Refine(ok, isCompany)
    \/ (\E p \in Plans : Decompose(p)) \/ DecomposeFails
    \/ \E analyse \in BOOLEAN : \E m \in Modes(analyse), seq \in TopologicalSort(Executing, deps) :
          Route(analyse, m, seq)
    \/ Execution
    \/ \E langs \in SUBSET Languages : Localize(langs)
    \/ \E l \in Languages : CollectLanguage(l)
    \/ \E b \in BOOLEAN : Filter(b) \/ Fallback(b)
    \/ ToolsUsed
    \/ \E ok \in BOOLEAN, next \in {"iterate", "legacy", "reflect"} : Synthesize(ok, next)
    \/ GapFilling
    \/ Reflect \/ Cite \/ Verify \/ Complete

Next == Workflow \/ Cancel

Spec == Init /\ [][Next]_vars

(* Agents and activities have a time limit, and so has the wait for         *)
(* dependencies: what the workflow awaits comes.                           *)
FairSpec == Spec /\ WF_vars(Workflow)

-----------------------------------------------------------------------------
(* Properties.                                                              *)

(* The variables keep their types; an answered call, and a result, is       *)
(* counted at most twice.                                                   *)
Stages == {"refine", "decompose", "route", "execute", "await", "localize", "languages", "filter",
           "synthesis", "iterate", "coverage", "subqueries", "spawn", "gaps", "resynthesis",
           "legacy", "areas", "reflect", "cite", "verify", "complete", "done"}
CoStates == {"none", "waiting", "queued", "running", "good", "bad", "expired", "counted", "void"}
TypeOK ==
    /\ stage \in Stages /\ outcome \in {None, "success", "failed", "cancelled"}
    /\ company \in BOOLEAN /\ plan \in Seq(Ids) /\ deps \in [Ids -> SUBSET Ids]
    /\ mode \in {None, "react"} \union Executor \union InOrder \union {"parallel"}
    /\ pool \subseteq Agents /\ order \in Seq(Tasks) /\ co \in [Agents -> CoStates]
    /\ completed \subseteq Ids /\ entries \subseteq Ids /\ given \in [Tasks -> SUBSET Ids]
    /\ analysis \in {"off", "running", "good", "failed"} /\ started \in BOOLEAN
    /\ round \in 1 .. MaxIterations
    /\ results \in [Agents -> 0 .. 2] /\ evidence \subseteq Agents
    /\ spent \subseteq Calls /\ total \in [Calls -> 0 .. 1]
    /\ filled \in BOOLEAN /\ basis \subseteq Agents /\ current \in BOOLEAN
    /\ cancelled \in BOOLEAN /\ faults \in 0 .. MaxFaults

(* Whichever way the subtasks were run, every answer of theirs, of the      *)
(* domain analysis and of the localized search is there when the workflow   *)
(* goes on: no channel is left with a result in it, no child unread.        *)
Gathered == {"filter", "synthesis", "iterate", "coverage", "subqueries", "spawn", "gaps",
             "resynthesis", "legacy", "areas", "reflect", "cite", "verify", "complete"}
NothingLost ==
    /\ stage \in Gathered =>
          spent \intersect (Ids \union Languages \union {Solo}) \subseteq evidence
    /\ stage \in Gathered => analysis # "running"

(* Every result that is kept is paid for: the total has the tokens of the   *)
(* agent it is from, once, though the six ways of running subtasks add to   *)
(* the total or replace it, and results may be in the list twice.  Nothing  *)
(* is in the total that was not spent.                                      *)
ResultsPaid ==
    /\ \A a \in Agents : results[a] > 0 => total[a] = 1
    /\ \A c \in Calls : total[c] > 0 => total[c] = 1 /\ c \in spent

(* An agent was given the results of all its dependencies that ever have    *)
(* one, also where those ran in an earlier phase or in the child workflow:  *)
(* no dependency answers after its dependent has started.  The exception    *)
(* is a list that topologicalSort gives up on.                              *)
Orderly == mode = "reactSeq" => Sortable(plan, deps)
GivenResults ==
    \A t \in Tasks :
       mode \notin {"parallel", "reactPar"} /\ Orderly
          /\ co[t] \in {"running", "good", "bad", "counted"}
       => given[t] = deps[t] \intersect entries

(* The report a task ends with was made from every result that is kept,     *)
(* the gap agents' with the others, unless the last synthesis failed.       *)
FinalEvidence == outcome = "success" /\ current => Kept \subseteq basis

(* A research task ends, whatever fails and whatever depends on what.       *)
Ends == <>(stage = "done")

(* What the code does not keep.                                             *)

(* research.go:5341: gap filling runs at most so many agents at a time.     *)
GapsLimited == Cardinality({g \in Gaps : co[g] = "running"}) <= GapLimit

(* The total of a task has the tokens of every call that was answered.      *)
TotalComplete == outcome = "success" => \A c \in spent : total[c] = 1

(* A result is in the list once.                                            *)
ResultsOnce == \A a \in Agents : results[a] <= 1

(* What a task of the first phase depends on is not left to the third.      *)
PhasesClosed ==
    mode = "phase1" /\ stage = "execute" => \A t \in pool : deps[t] \intersect Dependents = {}
=============================================================================
