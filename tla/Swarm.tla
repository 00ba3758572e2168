------------------------------- MODULE Swarm -------------------------------
(***************************************************************************)
(* A swarm: go/orchestrator/internal/workflows/swarm_workflow.go with the  *)
(* task list and mailboxes of internal/activities/p2p.go.                  *)
(*                                                                         *)
(* The lead is a Temporal workflow that asks an LLM what to do whenever an *)
(* agent goes idle, ends, or nothing happens for a while; each agent is a  *)
(* child workflow that works until it is told to stop.  They talk through  *)
(* Temporal signals (queues that are read in the order of the select) and  *)
(* through Redis (task list, mailboxes).                                   *)
(*                                                                         *)
(* A workflow runs alone until it awaits something, so that the lead's and *)
(* an agent's code between two awaits is one step.  The task list is       *)
(* written by the lead only: one UpdateTaskStatus is one step.  What an    *)
(* LLM decides is left open; so is time, except that a timer of a select   *)
(* only fires when nothing else is ready.                                  *)
(***************************************************************************)
EXTENDS Naturals, FiniteSets, Sequences, SequencesExt

CONSTANTS
    Agents,          \* agents in the order they may be spawned; SwarmMaxAgents
    Tasks,           \* ids of tasks
    Needs,           \* depends_on
    MaxIterations,   \* SwarmMaxIterationsPerAgent
    Extension,       \* iterationsPerReassign
    IterationCap,    \* maxTotalIterations
    MaxReassign,     \* maxReassignments
    MaxCalls,        \* SwarmMaxTotalLLMCalls
    MaxRounds,       \* rounds of tool calls before a decision counts
    MaxReminders,    \* hitlReminderCount
    MaxActions,      \* actions of one decision
    Faults,          \* "llm", "redis", "kill", "clock"
    None

ASSUME SwarmAssumption ==
    /\ IsFiniteSet(Agents) /\ IsFiniteSet(Tasks)
    /\ None \notin Agents \cup Tasks /\ None \notin {"good", "bad", "all"}
    /\ Needs \in [Tasks -> SUBSET Tasks]
    /\ MaxIterations \in Nat \ {0} /\ IterationCap \in Nat /\ MaxIterations <= IterationCap
    /\ {Extension, MaxReassign, MaxCalls, MaxRounds, MaxReminders, MaxActions} \subseteq Nat
    /\ Faults \subseteq {"llm", "redis", "kill", "clock"}

VARIABLES
    (* the lead *)
    pc,        \* where the lead is
    event,     \* what woke it
    calls,     \* budgetTotalLLMCalls
    left,      \* actions of the present decision it may still take
    human,     \* hitlPendingAction
    reminders, \* hitlReminderCount
    spawned,   \* agentFutures
    live,      \* those with a WorkflowID
    known,     \* agentStates
    linked,    \* agentTaskMap
    view,      \* currentTaskList
    snaps,     \* idleSnapshots
    results,   \* what came of an agent, once it was collected
    completed, \* completedCount
    why,       \* how the lead left its loop
    verdict,   \* what the swarm returned
    (* Redis *)
    tasks,     \* the status of each task
    (* signals and channels on their way *)
    idleQ,     \* agent-idle
    sentQ,     \* agent-message-sent: the addressees
    doneQ,     \* completionCh
    orders,    \* new-task, for each agent
    wakes,     \* peer-message, for each agent
    stop,      \* agents with a shutdown signal
    (* the agents *)
    apc,       \* where an agent is
    iter,      \* iterations it has begun
    limit,     \* its MaxIterations
    reassigns, \* its ReassignCount
    (* history *)
    ever,      \* tasks that have been completed at some time, or that the lead called so
    begun,     \* tasks somebody was put on that the lead saw in its list
    late       \* agents whose end overtook their last idle signal

leadVars   == <<pc, event, calls, left, human, reminders, why, verdict>>
teamVars   == <<spawned, live, known, linked, snaps, results, completed>>
boardVars  == <<tasks, ever, begun>>
signalVars == <<idleQ, sentQ, doneQ, orders, wakes, stop>>
agentVars  == <<apc, iter, limit, reassigns>>
vars == <<leadVars, view, teamVars, boardVars, signalVars, agentVars, late>>

Fault(f)     == f \in Faults
AtMost(m, n) == IF m < n THEN m ELSE n

(* Of the calls only matters whether the budget is used up.                 *)
Spent(n) == AtMost(calls + n, MaxCalls)
Status   == {"absent", "pending", "in_progress", "completed"}

Init ==
    /\ pc = "plan" /\ event = None /\ calls = 0 /\ left = 0
    /\ human = FALSE /\ reminders = 0 /\ why = None /\ verdict = None
    /\ spawned = {} /\ live = {} /\ snaps = {} /\ completed = 0
    /\ known = [a \in Agents |-> None]
    /\ linked = [a \in Agents |-> None]
    /\ results = [a \in Agents |-> None]
    /\ tasks = [t \in Tasks |-> "absent"] /\ view = tasks
    /\ ever = {} /\ begun = {} /\ late = {}
    /\ idleQ = <<>> /\ sentQ = <<>> /\ doneQ = <<>>
    /\ orders = [a \in Agents |-> <<>>]
    /\ wakes = [a \in Agents |-> 0]
    /\ stop = {}
    /\ apc = [a \in Agents |-> "unborn"]
    /\ iter = [a \in Agents |-> 0]
    /\ limit = [a \in Agents |-> MaxIterations]
    /\ reassigns = [a \in Agents |-> 0]

-----------------------------------------------------------------------------
(* The task list.                                                           *)

(* ValidateStatusTransition.                                                *)
ValidTransition(from, to) ==
    <<from, to>> \in {<<"pending", "in_progress">>, <<"in_progress", "completed">>,
                      <<"pending", "completed">>, <<"in_progress", "in_progress">>,
                      <<"completed", "in_progress">>}

(* What GetTaskList shows; callers take an error for an empty list.          *)
Shown == {tasks} \cup IF Fault("redis") THEN {[t \in Tasks |-> "absent"]} ELSE {}

(* UpdateTaskStatus for a set of tasks.                                     *)
Moved(board, ts, to) ==
    [t \in Tasks |-> IF t \in ts /\ ValidTransition(board[t], to) THEN to ELSE board[t]]

(* Callers ignore its error, and that of CreateTask, which come one by one.  *)
Stored(board) ==
    \E lost \in IF Fault("redis") THEN SUBSET Tasks ELSE {{}} :
        tasks' = [t \in Tasks |-> IF t \in lost THEN tasks[t] ELSE board[t]]

(* taskHasUnmetDeps: a task the list does not show has none.                *)
HasUnmetDeps_Pending(t, board) == board[t] # "absent" /\ \E n \in Needs[t] : board[n] = "pending"

HasUnmetDeps(t, board) == board[t] # "absent" /\ \E n \in Needs[t] : board[n] # "completed"

(* hasAssignablePendingTask.                                                *)
Assignable(board) == {t \in Tasks : board[t] = "pending" /\ ~HasUnmetDeps(t, board)}

Completed(board) == {t \in Tasks : board[t] = "completed"}

(* The task of an agent that went idle or ended is over, and unlinked.      *)
FinishTasksOf(as) ==
    LET done == {linked[a] : a \in as} \ {None}
    IN  /\ Stored(Moved(tasks, done, "completed"))
        /\ linked' = [a \in Agents |-> IF a \in as THEN None ELSE linked[a]]
        /\ ever' = ever \cup Completed(tasks') \cup done
        /\ UNCHANGED begun

Begin(t, board) ==
    /\ Stored(Moved(board, {t} \ {None}, "in_progress"))
    /\ begun' = begun \cup {u \in {t} \ {None} : view[u] # "absent"}

-----------------------------------------------------------------------------
(* Planning.                                                                *)

(* The lead may call tools for some rounds, each one LLM call.              *)
Plan ==
    /\ pc = "plan"
    /\ \E n \in 1 .. MaxRounds + 1 : calls' = Spent(n)
    /\ \E ts \in SUBSET Tasks :
          /\ tasks' = [t \in Tasks |-> IF t \in ts THEN "pending" ELSE "absent"]
          /\ view' = tasks'
    /\ pc' = "hire"
    /\ UNCHANGED <<event, left, human, reminders, why, verdict, teamVars, ever, begun,
                   signalVars, agentVars, late>>

(* LeadDecision fails, or the lead replies without agents.                  *)
PlanEnds ==
    /\ pc = "plan"
    /\ pc' = "end"
    /\ verdict' \in (IF Fault("llm") THEN {"failed"} ELSE {}) \cup {"answer"}
    /\ UNCHANGED <<event, calls, left, human, reminders, why, view, teamVars, boardVars,
                   signalVars, agentVars, late>>

(* A child that fails to start leads to a result, too.                      *)
FailedStart_Silent(a) == UNCHANGED doneQ

FailedStart(a) == doneQ' = Append(doneQ, [agent |-> a, result |-> "bad", rounds |-> 0])

(* spawnAgent.                                                              *)
SpawnAgent(a, t) ==
    /\ a \notin spawned
    /\ spawned' = spawned \cup {a}
    /\ known' = [known EXCEPT ![a] = "running"]
    /\ linked' = [linked EXCEPT ![a] = t]
    /\ Begin(t, tasks)
    /\ \/ live' = live \cup {a} /\ apc' = [apc EXCEPT ![a] = "poll"] /\ UNCHANGED doneQ
       \/ /\ Fault("kill")
          /\ apc' = [apc EXCEPT ![a] = "over"]
          /\ FailedStart(a)
          /\ UNCHANGED live
    /\ UNCHANGED <<snaps, results, completed, iter, limit, reassigns, ever, idleQ, sentQ, orders,
                   wakes, stop>>

Hire(a, t) ==
    /\ pc = "hire"
    /\ t # None => ~HasUnmetDeps(t, view)
    /\ SpawnAgent(a, t)
    /\ UNCHANGED <<leadVars, view, late>>

Unlinked == {a \in spawned : linked[a] = None}
Orphans  == {t \in Assignable(view) : \A a \in Agents : linked[a] # t}

(* The tasks nobody was linked to are given to the agents without a task,   *)
(* when there are as many of them.                                          *)
StartMonitoring ==
    /\ pc = "hire"
    /\ spawned # {}
    /\ IF Cardinality(Unlinked) = Cardinality(Orphans)
         THEN /\ \E f \in [Unlinked -> Orphans] :
                    /\ \A a, b \in Unlinked : f[a] = f[b] => a = b
                    /\ linked' = [a \in Agents |-> IF a \in Unlinked THEN f[a] ELSE linked[a]]
              /\ Stored(Moved(tasks, Orphans, "in_progress"))
              /\ begun' = begun \cup Orphans
         ELSE UNCHANGED <<linked, tasks, begun>>
    /\ pc' = "wait"
    /\ UNCHANGED <<event, calls, left, human, reminders, why, verdict, view, spawned, live,
                   known, snaps, results, completed, ever, signalVars, agentVars, late>>

NobodyHired ==
    /\ pc = "hire"
    /\ spawned = {}
    /\ pc' = "end"
    /\ verdict' = "failed"
    /\ UNCHANGED <<event, calls, left, human, reminders, why, view, teamVars, boardVars,
                   signalVars, agentVars, late>>

-----------------------------------------------------------------------------
(* The lead's loop: wait for an event.                                      *)

AllCollected_More == completed > Cardinality(spawned)

AllCollected == completed >= Cardinality(spawned)

Leave(reason) ==
    /\ pc' = "close"
    /\ why' = reason

Waiting == pc = "wait" /\ ~AllCollected

Woken(e) ==
    /\ event' = e
    /\ pc' = "forward"
    /\ UNCHANGED <<left, reminders, why, verdict, view, begun, sentQ, orders, wakes,
                   stop, agentVars, late>>

SetIdle(as)    == known' = [a \in Agents |-> IF a \in as THEN "idle" ELSE known[a]]
WithText(sigs) == {s.agent : s \in {r \in sigs : r.text}}

WakeIdle ==
    /\ Waiting
    /\ idleQ # <<>>
    /\ idleQ' = Tail(idleQ)
    /\ SetIdle({Head(idleQ).agent})
    /\ FinishTasksOf({Head(idleQ).agent})
    /\ snaps' = snaps \cup WithText({Head(idleQ)})
    /\ Woken("idle")
    /\ UNCHANGED <<calls, human, spawned, live, results, completed, doneQ>>

(* Takes the next result, in the loop and while draining.                   *)
CollectResult ==
    /\ doneQ' = Tail(doneQ)
    /\ results' = [results EXCEPT ![Head(doneQ).agent] = Head(doneQ).result]
    /\ completed' = completed + 1
    /\ FinishTasksOf({Head(doneQ).agent})

WakeCompleted ==
    /\ Waiting
    /\ idleQ = <<>> /\ doneQ # <<>>
    /\ CollectResult
    /\ known' = [known EXCEPT ![Head(doneQ).agent] = "completed"]
    /\ live' = live \ {Head(doneQ).agent}
    /\ calls' = Spent(Head(doneQ).rounds)
    /\ Woken("completed")
    /\ UNCHANGED <<human, spawned, snaps, idleQ>>

(* The 2 minute timer, or a message of the user.                            *)
WakeCheckpoint ==
    /\ Waiting
    /\ idleQ = <<>> /\ doneQ = <<>>
    /\ Woken("checkpoint")
    /\ UNCHANGED <<calls, human, teamVars, tasks, ever, idleQ, doneQ>>

WakeHuman ==
    /\ Waiting
    /\ ~human
    /\ idleQ = <<>> /\ doneQ = <<>>
    /\ human' = TRUE
    /\ Woken("human")
    /\ UNCHANGED <<calls, teamVars, tasks, ever, idleQ, doneQ>>

(* Messages are passed on to the addressees it believes to be idle, ...     *)
Forward ==
    /\ pc = "forward"
    /\ wakes' = [a \in Agents |->
                    IF known[a] = "idle" /\ a \in live
                      THEN wakes[a] + Len(SelectSeq(sentQ, LAMBDA b : b = a))
                      ELSE wakes[a]]
    /\ sentQ' = <<>>
    /\ pc' = "merge"
    /\ UNCHANGED <<event, calls, left, human, reminders, why, verdict, view, teamVars,
                   boardVars, idleQ, doneQ, orders, stop, agentVars, late>>

(* ... and further idle signals are taken with the first.                   *)
Coalesce ==
    /\ pc = "merge"
    /\ pc' = "judge"
    /\ IF event = "idle" /\ idleQ # <<>>
         THEN LET sigs == ToSet(idleQ)
                  as   == {s.agent : s \in sigs}
              IN  /\ SetIdle(as)
                  /\ FinishTasksOf(as)
                  /\ snaps' = snaps \cup WithText(sigs)
                  /\ idleQ' = <<>>
         ELSE UNCHANGED <<known, linked, snaps, boardVars, idleQ>>
    /\ UNCHANGED <<event, calls, left, human, reminders, why, verdict, view, spawned, live,
                   results, completed, sentQ, doneQ, orders, wakes, stop, agentVars, late>>

KnownTo(s)    == \E a \in Agents : known[a] = s
Exhausted     == calls >= MaxCalls
Shutdown(as)  == stop' = stop \cup (as \cap live)
NotCompleted  == {a \in spawned : known[a] # "completed"}
NothingToDo(board) == ~KnownTo("idle") /\ Assignable(board) = {}
Quiet(board) == KnownTo("idle") /\ ~KnownTo("running") /\ Assignable(board) = {}

Judging == pc = "judge"

(* The budget of calls, tokens or time is used up: no snapshot is merged.   *)
JudgeBudget ==
    /\ Judging
    /\ Exhausted \/ Fault("clock")
    /\ Leave("budget")
    /\ UNCHANGED <<event, calls, left, human, reminders, verdict, view, teamVars, boardVars,
                   signalVars, agentVars, late>>

JudgeOn(next) ==
    /\ Judging
    /\ ~Exhausted
    /\ pc' = next
    /\ UNCHANGED <<event, calls, left, human, why, verdict, view, boardVars, orders, wakes,
                   idleQ, sentQ, doneQ, agentVars, late>>

(* Nothing to decide on a checkpoint, or everybody has reported.            *)
JudgeIdly ==
    /\ AllCollected \/ (event = "checkpoint" /\ \E board \in Shown : NothingToDo(board))
    /\ JudgeOn("wait")
    /\ UNCHANGED <<reminders, teamVars, stop>>

(* All are idle and nothing is left to do, unless the user waits for an     *)
(* answer: the agents are sent home, and what they last said is taken.      *)
Wrapped_Over(as) == [a \in Agents |-> IF a \in as THEN "good" ELSE results[a]]

Wrapped(as) == [a \in Agents |-> IF a \in as /\ results[a] = None THEN "good" ELSE results[a]]

(* The user has not yet been waited for long enough.                        *)
Patience == human /\ reminders < MaxReminders

JudgeWrapUp ==
    /\ Judging
    /\ ~Exhausted
    /\ ~AllCollected
    /\ event = "checkpoint" /\ \E board \in Shown : Quiet(board)
    /\ ~Patience
    /\ Shutdown(NotCompleted)
    /\ results' = Wrapped(snaps)
    /\ Leave("quiet")
    /\ UNCHANGED <<event, calls, left, human, reminders, verdict, view, spawned, live, known,
                   linked, snaps, completed, boardVars, idleQ, sentQ, doneQ, orders, wakes, agentVars, late>>

JudgeAsk ==
    /\ ~AllCollected
    /\ \E board \in Shown :
          /\ event = "checkpoint" => ~NothingToDo(board)
          /\ IF event = "checkpoint" /\ Quiet(board)
               THEN Patience /\ reminders' = reminders + 1
               ELSE UNCHANGED reminders
    /\ JudgeOn("think")
    /\ UNCHANGED <<teamVars, stop>>

AllReported ==
    /\ pc = "wait"
    /\ AllCollected
    /\ Leave("all")
    /\ UNCHANGED <<event, calls, left, human, reminders, verdict, view, teamVars, boardVars,
                   signalVars, agentVars, late>>

(* The lead reads the task list, which may fail, and asks its LLM, which    *)
(* may call tools for some rounds and may fail.                             *)
Think ==
    /\ pc = "think"
    /\ view' \in Shown
    /\ \/ /\ \E n \in 1 .. MaxRounds + 1 : calls' = Spent(n)
          /\ pc' = "act"
          /\ left' = MaxActions
       \/ /\ Fault("llm")
          /\ \E n \in 0 .. MaxRounds : calls' = Spent(n)
          /\ pc' = "wait"
          /\ UNCHANGED left
    /\ UNCHANGED <<event, human, reminders, why, verdict, teamVars, boardVars, signalVars,
                   agentVars, late>>

-----------------------------------------------------------------------------
(* The actions of a decision.                                               *)

Acting(h) ==
    /\ pc = "act"
    /\ left > 0
    /\ left' = left - 1
    /\ human' = h
    /\ UNCHANGED <<pc, event, calls, reminders, why, verdict, late>>

(* spawn_agent.  Without a task id the only unclaimed task is taken.        *)
TaskFor(t) ==
    LET free == {u \in Assignable(view) : \A a \in Agents : linked[a] # u}
    IN  IF t = None /\ Cardinality(free) = 1 THEN CHOOSE u \in free : TRUE ELSE t

DoSpawn(a, t) ==
    /\ Acting(FALSE)
    /\ t # None => ~HasUnmetDeps(t, view)
    /\ SpawnAgent(a, TaskFor(t))
    /\ UNCHANGED view

(* assign_task: the agent may be in any state.                              *)
DoAssign(a, t) ==
    /\ Acting(FALSE)
    /\ a \in spawned
    /\ t # None => ~HasUnmetDeps(t, view)
    /\ Begin(t, tasks)
    /\ linked' = IF t = None THEN linked ELSE [linked EXCEPT ![a] = t]
    /\ orders' = IF a \in live THEN [orders EXCEPT ![a] = Append(@, t)] ELSE orders
    /\ known' = [known EXCEPT ![a] = "running"]
    /\ UNCHANGED <<view, spawned, live, snaps, results, completed, ever, idleQ, sentQ, doneQ,
                   wakes, stop, agentVars>>

(* send_message and broadcast.                                              *)
DoMessage(as) ==
    /\ Acting(human)
    /\ as # {}
    /\ wakes' = [a \in Agents |->
                    IF a \in as /\ known[a] = "idle" /\ a \in live THEN wakes[a] + 1 ELSE wakes[a]]
    /\ UNCHANGED <<view, teamVars, boardVars, idleQ, sentQ, doneQ, orders, stop, agentVars>>

Broadcast == {a \in Agents : known[a] \in {"running", "idle"}}

(* revise_plan: a created task is not in the view; a cancelled one is done. *)
DoRevise(new, cancelled) ==
    /\ Acting(FALSE)
    /\ LET board == [t \in Tasks |-> IF t \in new /\ tasks[t] = "absent" THEN "pending" ELSE tasks[t]]
       IN  Stored(Moved(board, cancelled, "completed"))
    /\ ever' = ever \cup Completed(tasks') \cup cancelled
    /\ UNCHANGED <<begun, view, teamVars, signalVars, agentVars>>

(* shutdown_agent: here the view follows.                                   *)
DoShutdown(a) ==
    /\ Acting(human)
    /\ a \in spawned
    /\ Shutdown({a})
    /\ known' = [known EXCEPT ![a] = "completed"]
    /\ FinishTasksOf({a})
    /\ view' = [t \in Tasks |-> IF t = linked[a] /\ view[t] # "absent" THEN "completed" ELSE view[t]]
    /\ UNCHANGED <<spawned, live, snaps, results, completed, idleQ, sentQ, doneQ, orders, wakes, agentVars>>

DecisionEnds ==
    /\ pc = "act"
    /\ pc' = "wait"
    /\ left' = 0
    /\ UNCHANGED <<event, calls, human, reminders, why, verdict, view, teamVars, boardVars,
                   signalVars, agentVars, late>>

(* done or reply: rejected while an agent is believed to be running; else   *)
(* the others are sent home and a last minute is left to their results.     *)
Accept ==
    /\ pc = "act"
    /\ left > 0
    /\ ~KnownTo("running")
    /\ Shutdown(NotCompleted)
    /\ pc' = "drain"
    /\ left' = 0
    /\ UNCHANGED <<event, calls, human, reminders, why, verdict, view, teamVars, boardVars,
                   idleQ, sentQ, doneQ, orders, wakes, agentVars, late>>

(* The history of the workflow has grown too long.                          *)
HistoryFull ==
    /\ pc = "act"
    /\ Fault("clock")
    /\ Leave("history")
    /\ left' = 0
    /\ UNCHANGED <<event, calls, human, reminders, verdict, view, teamVars, boardVars,
                   signalVars, agentVars, late>>

DrainResult ==
    /\ pc = "drain"
    /\ ~AllCollected
    /\ doneQ # <<>>
    /\ CollectResult
    /\ UNCHANGED <<leadVars, view, spawned, live, known, snaps, idleQ, sentQ, orders, wakes,
                   stop, agentVars, late>>

DrainIdle ==
    /\ pc = "drain"
    /\ ~AllCollected
    /\ doneQ = <<>> /\ idleQ # <<>>
    /\ idleQ' = Tail(idleQ)
    /\ UNCHANGED <<leadVars, view, teamVars, boardVars, sentQ, doneQ, orders, wakes, stop, agentVars, late>>

DrainEnds ==
    /\ pc = "drain"
    /\ AllCollected \/ (doneQ = <<>> /\ idleQ = <<>>)
    /\ Leave("done")
    /\ UNCHANGED <<event, calls, left, human, reminders, verdict, view, teamVars, boardVars,
                   signalVars, agentVars, late>>

-----------------------------------------------------------------------------
(* Synthesis.                                                               *)

CloseTasks == Stored(Moved(tasks, {t \in Tasks : tasks[t] # "completed"}, "completed"))

Usable == \E a \in Agents : results[a] = "good"

(* Without a usable result the swarm fails.                                 *)
CloseUp ==
    /\ pc = "close"
    /\ CloseTasks
    /\ IF Usable THEN pc' = "reply" /\ UNCHANGED verdict
                 ELSE pc' = "end" /\ verdict' = "failed"
    /\ UNCHANGED <<event, calls, left, human, reminders, why, view, teamVars, ever, begun,
                   signalVars, agentVars, late>>

(* Else the lead may answer, after some rounds of tool calls; ...           *)
Reply ==
    /\ pc = "reply"
    /\ \E n \in 0 .. MaxRounds + 1 : calls' = Spent(n)
    /\ \/ pc' = "end" /\ verdict' = "answer"
       \/ pc' = "synthesize" /\ UNCHANGED verdict
    /\ UNCHANGED <<event, left, human, reminders, why, view, teamVars, boardVars,
                   signalVars, agentVars, late>>

(* ... when it does not, or not well enough, the synthesis does.            *)
Synthesize ==
    /\ pc = "synthesize"
    /\ pc' = "end"
    /\ verdict' \in {"answer"} \cup IF Fault("llm") THEN {"failed"} ELSE {}
    /\ UNCHANGED <<event, calls, left, human, reminders, why, view, teamVars, boardVars,
                   signalVars, agentVars, late>>

-----------------------------------------------------------------------------
(* AgentLoop.                                                               *)

Others == <<leadVars, view, teamVars, boardVars>>

(* The child workflow of a ends.  The lead's coroutine takes the snapshot   *)
(* instead of a result without text, if it has one by then.                 *)
End_Own(a, result, rounds) ==
    /\ apc' = [apc EXCEPT ![a] = "over"]
    /\ doneQ' = Append(doneQ, [agent |-> a, rounds |-> rounds, result |-> result])
    /\ late' = IF a \notin snaps /\ a \in WithText(ToSet(idleQ)) THEN late \cup {a} ELSE late

End(a, result, rounds) ==
    /\ apc' = [apc EXCEPT ![a] = "over"]
    /\ doneQ' = Append(doneQ, [agent |-> a, rounds |-> rounds,
                               result |-> IF a \in snaps THEN "good" ELSE result])
    /\ late' = IF a \notin snaps /\ a \in WithText(ToSet(idleQ)) THEN late \cup {a} ELSE late

(* The next round of the loop, or its end, which is a result.               *)
NextIteration(a) ==
    /\ iter' = [iter EXCEPT ![a] = @ + 1]
    /\ IF iter[a] + 1 < limit'[a]
         THEN apc' = [apc EXCEPT ![a] = "poll"] /\ UNCHANGED <<doneQ, late>>
         ELSE End(a, "good", iter[a] + 1)

LastIteration(a) == iter[a] + 1 >= limit[a]

(* A round begins with the mailbox, unless there is a shutdown.             *)
Poll(a) ==
    /\ apc[a] = "poll"
    /\ IF a \in stop
         THEN End(a, "good", iter[a]) /\ stop' = stop \ {a}
         ELSE /\ apc' = [apc EXCEPT ![a] = "act"]
              /\ UNCHANGED <<doneQ, late, stop>>
    /\ UNCHANGED <<Others, idleQ, sentQ, orders, wakes, iter, limit, reassigns>>

(* The LLM chooses a tool, or anything else that is not idle.               *)
Work(a) ==
    /\ apc[a] = "act"
    /\ ~LastIteration(a)
    /\ UNCHANGED <<limit, reassigns>>
    /\ NextIteration(a)
    /\ UNCHANGED <<Others, idleQ, sentQ, orders, wakes, stop>>

(* send_message, which the parent is told of.                               *)
Send(a, b) ==
    /\ apc[a] = "act"
    /\ ~LastIteration(a)
    /\ sentQ' = Append(sentQ, b)
    /\ UNCHANGED <<limit, reassigns>>
    /\ NextIteration(a)
    /\ UNCHANGED <<Others, idleQ, orders, wakes, stop>>

(* Too many rounds without a tool, or failed tools.                         *)
GiveUp(a) ==
    /\ apc[a] = "act"
    /\ End(a, "good", iter[a] + 1)
    /\ UNCHANGED <<Others, idleQ, sentQ, orders, wakes, stop, iter, limit, reassigns>>

(* The LLM fails: what the agent has said so far can be used, if anything.  *)
StepFails(a) ==
    /\ apc[a] = "act"
    /\ Fault("llm")
    /\ \E result \in {"good", "bad"} : End(a, result, iter[a])
    /\ UNCHANGED <<Others, idleQ, sentQ, orders, wakes, stop, iter, limit, reassigns>>

Report(a, text) ==
    /\ apc' = [apc EXCEPT ![a] = "idle"]
    /\ idleQ' = Append(idleQ, [agent |-> a, text |-> text])
    /\ UNCHANGED <<doneQ, late, stop>>

(* The LLM chooses idle or done; a shutdown is looked for once more.        *)
GoIdle(a, text) ==
    /\ apc[a] = "act"
    /\ IF a \in stop
         THEN End(a, "good", iter[a] + 1) /\ stop' = stop \ {a} /\ UNCHANGED idleQ
         ELSE Report(a, text)
    /\ UNCHANGED <<Others, sentQ, orders, wakes, iter, limit, reassigns>>

(* Whatever else it chooses in the last round is taken for done.            *)
ForcedIdle(a) ==
    /\ apc[a] = "act"
    /\ LastIteration(a)
    /\ Report(a, TRUE)
    /\ UNCHANGED <<Others, sentQ, orders, wakes, iter, limit, reassigns>>

(* The second check is made when the task has been taken already.           *)
Extended_Always(a) == limit[a] + Extension

Extended(a) ==
    IF reassigns[a] + 1 > MaxReassign \/ limit[a] >= IterationCap
      THEN limit[a]
      ELSE AtMost(limit[a] + Extension, IterationCap)

TakeOrder(a) ==
    /\ apc[a] = "idle"
    /\ orders[a] # <<>>
    /\ orders' = [orders EXCEPT ![a] = Tail(@)]
    /\ reassigns' = [reassigns EXCEPT ![a] = @ + 1]
    /\ limit' = [limit EXCEPT ![a] = Extended(a)]
    /\ NextIteration(a)
    /\ UNCHANGED <<Others, idleQ, sentQ, wakes, stop>>

TakeShutdown(a) ==
    /\ apc[a] = "idle"
    /\ orders[a] = <<>> /\ a \in stop
    /\ stop' = stop \ {a}
    /\ End(a, "good", iter[a] + 1)
    /\ UNCHANGED <<Others, idleQ, sentQ, orders, wakes, iter, limit, reassigns>>

TakeWake(a) ==
    /\ apc[a] = "idle"
    /\ orders[a] = <<>> /\ a \notin stop /\ wakes[a] > 0
    /\ wakes' = [wakes EXCEPT ![a] = @ - 1]
    /\ UNCHANGED <<limit, reassigns>>
    /\ NextIteration(a)
    /\ UNCHANGED <<Others, idleQ, sentQ, orders, stop>>

(* After 10 minutes.                                                        *)
IdleTimeout(a) ==
    /\ apc[a] = "idle"
    /\ orders[a] = <<>> /\ a \notin stop /\ wakes[a] = 0
    /\ End(a, "good", iter[a] + 1)
    /\ UNCHANGED <<Others, idleQ, sentQ, orders, wakes, stop, iter, limit, reassigns>>

(* The timeout of the child workflow, or its cancellation when the parent   *)
(* has closed; and a child that failed to start.                            *)
Kill(a) ==
    /\ apc[a] \in {"poll", "act", "idle"}
    /\ Fault("kill") \/ pc = "end"
    /\ End(a, "bad", 0)
    /\ UNCHANGED <<Others, idleQ, sentQ, orders, wakes, stop, iter, limit, reassigns>>

-----------------------------------------------------------------------------

LeadStep ==
    \/ Plan \/ PlanEnds
    \/ \E a \in Agents, t \in Tasks \cup {None} : Hire(a, t)
    \/ StartMonitoring \/ NobodyHired
    \/ AllReported
    \/ WakeIdle \/ WakeCompleted \/ WakeCheckpoint \/ WakeHuman
    \/ Forward \/ Coalesce
    \/ JudgeBudget \/ JudgeIdly \/ JudgeWrapUp \/ JudgeAsk
    \/ Think
    \/ \E a \in Agents, t \in Tasks \cup {None} : DoSpawn(a, t) \/ DoAssign(a, t)
    \/ \E as \in {{a} : a \in Agents} \cup {Broadcast} : DoMessage(as)
    \/ \E new, cancelled \in SUBSET Tasks : DoRevise(new, cancelled)
    \/ \E a \in Agents : DoShutdown(a)
    \/ DecisionEnds \/ Accept \/ HistoryFull
    \/ DrainResult \/ DrainIdle \/ DrainEnds
    \/ CloseUp \/ Reply \/ Synthesize

AgentStep(a) ==
    \/ Poll(a) \/ Work(a) \/ (\E b \in Agents \ {a} : Send(a, b)) \/ GiveUp(a)
    \/ StepFails(a) \/ ForcedIdle(a)
    \/ (\E text \in BOOLEAN : GoIdle(a, text))
    \/ TakeOrder(a) \/ TakeShutdown(a) \/ TakeWake(a) \/ IdleTimeout(a) \/ Kill(a)

Next == LeadStep \/ \E a \in Agents : AgentStep(a)

Spec == Init /\ [][Next]_vars

(* Temporal keeps every workflow going: its activities end, with an answer  *)
(* or an error, and its timers fire.  Users need not write.                 *)
FairSpec ==
    /\ Spec
    /\ WF_vars(LeadStep)
    /\ \A a \in Agents : WF_vars(AgentStep(a))

-----------------------------------------------------------------------------
(* Properties.                                                              *)

(* Every variable has its type.                                             *)
TypeOK ==
    /\ pc \in {"plan", "hire", "wait", "forward", "merge", "judge", "think", "act", "drain",
               "close", "reply", "synthesize", "end"}
    /\ event \in {None, "idle", "completed", "checkpoint", "human"}
    /\ calls \in 0 .. MaxCalls /\ left \in 0 .. MaxActions /\ reminders \in 0 .. MaxReminders
    /\ human \in BOOLEAN
    /\ why \in {None, "all", "quiet", "budget", "history", "done"}
    /\ verdict \in {None, "answer", "failed"}
    /\ live \subseteq spawned /\ spawned \subseteq Agents /\ snaps \subseteq Agents
    /\ known \in [Agents -> {None, "running", "idle", "completed"}]
    /\ linked \in [Agents -> Tasks \cup {None}]
    /\ results \in [Agents -> {None, "good", "bad"}]
    /\ completed \in Nat
    /\ tasks \in [Tasks -> Status] /\ view \in [Tasks -> Status]
    /\ ever \subseteq Tasks /\ begun \subseteq Tasks /\ late \subseteq Agents
    /\ idleQ \in Seq([agent : Agents, text : BOOLEAN])
    /\ sentQ \in Seq(Agents)
    /\ doneQ \in Seq([agent : Agents, result : {"good", "bad"}, rounds : Nat])
    /\ orders \in [Agents -> Seq(Tasks \cup {None})]
    /\ wakes \in [Agents -> Nat]
    /\ stop \subseteq Agents
    /\ apc \in [Agents -> {"unborn", "poll", "act", "idle", "over"}]
    /\ iter \in [Agents -> Nat] /\ limit \in [Agents -> Nat] /\ reassigns \in [Agents -> Nat]

(* The lead waits for exactly the results that are still to come: agents    *)
(* that failed to start, were killed, gave up or were sent home each lead   *)
(* to one result, whichever part of the lead takes it.                      *)
Underway == {a \in spawned : apc[a] # "over"}

Accounted == completed + Len(doneQ) + Cardinality(Underway) = Cardinality(spawned)

(* Nobody is put on a task the lead has seen in its list before each task   *)
(* it depends on was completed once, or called so by the lead when Redis    *)
(* did not take it, although the list the lead decides on is older than the *)
(* list in Redis.                                                           *)
DependencyOrder == \A t \in begun : Needs[t] \subseteq ever

(* An agent begins a bounded number of rounds however often it is given a   *)
(* new task, woken up or reassigned: only so many orders extend its loop.   *)
BoundedWork ==
    \A a \in Agents :
        apc[a] \in {"poll", "act"} =>
            iter[a] < AtMost(IterationCap, MaxIterations + MaxReassign * Extension)

(* When all agents have reported, one that once went idle with an answer    *)
(* counts as successful, though its child workflow was killed later; unless *)
(* that answer had not been read when the child's end was.                  *)
AnswersKept ==
    why = "all" => \A a \in snaps : results[a] = "good" \/ a \in late

(* The swarm is a fan-out: reports are never replaced, and an answer rests  *)
(* on one of them.                                                          *)
Promise == INSTANCE FanOut WITH Workers <- Agents, started <- spawned, report <- results

FansOut == Promise!Spec

(* A swarm ends, and all its agents with it, though LLM calls fail, agents  *)
(* are killed, wake each other up, or never hear from the lead again.       *)
Ends == <>(pc = "end" /\ \A a \in Agents : apc[a] \in {"unborn", "over"})

-----------------------------------------------------------------------------
(* What the comments say and the code does not do.                          *)

(* swarm_workflow.go:2538 and 2807: the answer of an idle agent is saved,   *)
(* and an exhausted budget forces the synthesis.                            *)
WorkSynthesized == pc = "end" /\ snaps # {} => verdict = "answer"
=============================================================================
