------------------------------ MODULE Schedules ------------------------------
(***************************************************************************)
(* Scheduled tasks.  A schedule lives in two stores that no transaction    *)
(* spans: a Temporal schedule, which starts the runs, and a row of         *)
(* scheduled_tasks, which users see.  internal/schedules/manager.go keeps  *)
(* them in step, Temporal first, and at startup looks for rows whose       *)
(* Temporal schedule is gone.  A run is a ScheduledTaskWorkflow            *)
(* (workflows/scheduled), which records its start, has a child workflow or *)
(* a daemon do the work, and records the end (schedule_activities.go).     *)
(*                                                                         *)
(* Every call of Temporal and every SQL statement is one step.  A call may *)
(* fail before or after it took effect.                                    *)
(*                                                                         *)
(* Of a configuration (cron, timezone, query, budget) matters which        *)
(* request wrote it last.  Left out are next_run_at, which is for display, *)
(* updates of name and description, which are in the row only, the limit   *)
(* of a tenant, which is counted like that of a user, and the GetSchedule  *)
(* a handler of server/service.go begins with, for the owner of a row, who *)
(* never changes.  Polls of a task, which may write its row too, are in    *)
(* TaskService; the way of a message to a daemon and back in DaemonHub.    *)
(***************************************************************************)
EXTENDS Naturals, FiniteSets

CONSTANTS
    Schedules,
    Firing,      \* bound: the schedules whose runs are followed
    Requests,
    Kinds,       \* what the requests may ask for
    MaxPerUser,  \* the limit on schedules of a user
    MaxRuns,     \* bound: runs of a schedule
    MaxTries,    \* bound: attempts of an activity
    Faults,      \* the faults the environment may produce
    None

ASSUME SchedulesAssumption ==
    /\ IsFiniteSet(Schedules) /\ Firing \subseteq Schedules
    /\ Kinds \subseteq {"create", "pause", "resume", "update", "delete"}
    /\ {MaxPerUser, MaxRuns, MaxTries} \subseteq Nat \ {0}
    /\ Faults \subseteq {"temporal", "db", "redis", "crash", "timeout"}
    /\ None \notin Schedules \cup Requests

Runs == Firing \X (1 .. MaxRuns)

VARIABLES
    temporal,  \* the schedule in Temporal ...
    action,    \* ... and who wrote its configuration
    row,       \* the status in scheduled_tasks, "none" without a row ...
    config,    \* ... and who wrote the configuration in it
    request,   \* where each request is, what it is for and what it has read
    cleaner,   \* where DetectAndCleanOrphanedSchedules is
    run,       \* where each run is and how it ended
    task,      \* the status in task_executions
    linked,    \* scheduled_task_executions
    stats,     \* successful_runs and failed_runs
    replied,   \* daemon replies that were signalled to their run
    torn,      \* history: schedules with one of two writes and not the other
    clashed,   \* history: those with conflicting requests at a time
    missed,    \* history: those that Temporal was not told to delete
    late,      \* history: those created while another was, or brought back
    blurred    \* history: runs that were recorded in part or counted twice

storeVars   == <<temporal, action, row, config>>
runVars     == <<run, task, linked, stats, replied>>
historyVars == <<torn, clashed, missed, late, blurred>>
vars == <<storeVars, request, cleaner, runVars, historyVars>>

Fault(f) == f \in Faults

Idle(pc) == [pc |-> pc, kind |-> "none", on |-> None]

Live(s) == row[s] \in {"ACTIVE", "PAUSED"}

Init ==
    /\ \E existing \in {E \in SUBSET Schedules : Cardinality(E) <= MaxPerUser} :
           /\ temporal = [s \in Schedules |-> IF s \in existing THEN "running" ELSE "none"]
           /\ row = [s \in Schedules |-> IF s \in existing THEN "ACTIVE" ELSE "none"]
    /\ action = [s \in Schedules |-> None]
    /\ config = [s \in Schedules |-> None]
    /\ request = [q \in Requests |-> Idle("new")]
    /\ cleaner = [pc |-> "list", todo |-> {}, on |-> None]
    /\ run = [k \in Runs |-> [pc |-> "none", end |-> "none", result |-> "none", tries |-> 1]]
    /\ task = [k \in Runs |-> "none"]
    /\ linked = {}
    /\ stats = [s \in Schedules |-> [successful |-> 0, failed |-> 0]]
    /\ replied = {}
    /\ torn = {} /\ clashed = {} /\ missed = {} /\ late = {} /\ blurred = {}

-----------------------------------------------------------------------------
(* Requests.                                                                *)

Go(q, pc) ==
    request' = [request EXCEPT ![q] = IF pc = "done" THEN Idle(pc) ELSE [@ EXCEPT !.pc = pc]]

On(q) == request[q].on
Is(q, kind) == request[q].kind = kind

(* Past the reading and not done.                                           *)
Acting == {"create", "insert", "rollback", "temporal", "row"}
Busy(s) == \E q \in Requests : On(q) = s /\ request[q].pc \in Acting

(* A user asks for a new schedule, or for something to be done with one.    *)
Ask(q, kind, s) ==
    /\ request[q].pc = "new"
    /\ IF kind = "create"
         THEN temporal[s] = "none" /\ row[s] = "none" /\ \A r \in Requests : On(r) # s
         ELSE row[s] # "none"
    /\ request' = [request EXCEPT ![q] =
                      [pc |-> IF kind = "create" THEN "count" ELSE "find", kind |-> kind, on |-> s]]
    /\ UNCHANGED <<storeVars, cleaner, runVars, historyVars>>

(* CreateSchedule: the count of schedules, checked before any is created.   *)
CountSchedulesByUser_Active == Cardinality({s \in Schedules : row[s] = "ACTIVE"})

CountSchedulesByUser == Cardinality({s \in Schedules : Live(s)})

Count(q) ==
    /\ request[q].pc = "count"
    /\ IF CountSchedulesByUser < MaxPerUser
         THEN /\ Go(q, "create")
              /\ late' = IF \E r \in Requests : request[r].pc \in {"create", "insert", "rollback"}
                           THEN late \cup {On(q)} ELSE late
         ELSE Go(q, "done") /\ UNCHANGED late
    /\ UNCHANGED <<storeVars, cleaner, runVars, torn, clashed, missed, blurred>>

(* The schedule in Temporal.  Nothing is undone when this fails.            *)
Created(s, q) ==
    /\ temporal' = [temporal EXCEPT ![s] = "running"]
    /\ action' = [action EXCEPT ![s] = q]

Create(q) ==
    /\ request[q].pc = "create"
    /\ \/ Created(On(q), q) /\ Go(q, "insert") /\ UNCHANGED torn
       \/ /\ Fault("temporal")
          /\ Go(q, "done")
          /\ \/ Created(On(q), q) /\ torn' = torn \cup {On(q)}
             \/ UNCHANGED <<temporal, action, torn>>
    /\ UNCHANGED <<row, config, cleaner, runVars, clashed, missed, late, blurred>>

(* The row.  When the INSERT fails, the Temporal schedule is deleted again, *)
(* if that does not fail too.                                               *)
Inserted(s, q) ==
    /\ row' = [row EXCEPT ![s] = "ACTIVE"]
    /\ config' = [config EXCEPT ![s] = q]

Insert(q) ==
    /\ request[q].pc = "insert"
    /\ \/ Inserted(On(q), q) /\ Go(q, "done") /\ UNCHANGED torn
       \/ /\ Fault("db")
          /\ Go(q, "rollback")
          /\ \/ Inserted(On(q), q) /\ torn' = torn \cup {On(q)}
             \/ UNCHANGED <<row, config, torn>>
    /\ UNCHANGED <<temporal, action, cleaner, runVars, clashed, missed, late, blurred>>

Rollback(q) ==
    /\ request[q].pc = "rollback"
    /\ \/ temporal' = [temporal EXCEPT ![On(q)] = "deleted"] /\ UNCHANGED <<torn, missed>>
       \/ /\ Fault("temporal")
          /\ torn' = torn \cup {On(q)} /\ missed' = missed \cup {On(q)}
          /\ UNCHANGED temporal
    /\ Go(q, "done")
    /\ UNCHANGED <<action, row, config, cleaner, runVars, clashed, late, blurred>>

(* GetSchedule, which knows of no deleted row, and what makes a request     *)
(* idempotent.                                                              *)
Nothing(q) ==
    \/ ~Live(On(q))
    \/ Is(q, "pause") /\ row[On(q)] = "PAUSED"
    \/ Is(q, "resume") /\ row[On(q)] = "ACTIVE"

Conflict(a, b) ==
    {a, b} \in {{"pause", "resume"}, {"delete", "pause"}, {"delete", "resume"}, {"update"}}

Clashing(q) ==
    \E r \in Requests \ {q} :
        /\ On(r) = On(q) /\ request[r].pc \in {"temporal", "row"}
        /\ Conflict(request[q].kind, request[r].kind)

Find(q) ==
    /\ request[q].pc = "find"
    /\ IF Nothing(q)
         THEN Go(q, "done") /\ UNCHANGED clashed
         ELSE /\ Go(q, "temporal")
              /\ clashed' = IF Clashing(q) THEN clashed \cup {On(q)} ELSE clashed
    /\ UNCHANGED <<storeVars, cleaner, runVars, torn, missed, late, blurred>>

(* PauseSchedule, ResumeSchedule, DeleteSchedule and UpdateSchedule tell    *)
(* Temporal first.  An error ends the request, unless it is to delete.      *)
Told(q) ==
    LET s == On(q)
    IN  /\ temporal' = [temporal EXCEPT ![s] = CASE Is(q, "pause")  -> "paused"
                                                 [] Is(q, "resume") -> "running"
                                                 [] Is(q, "delete") -> "deleted"
                                                 [] Is(q, "update") -> @]
        /\ action' = [action EXCEPT ![s] = IF Is(q, "update") THEN q ELSE @]

AfterError_GoOn(q) == "row"

AfterError(q) == IF Is(q, "delete") THEN "row" ELSE "done"

Tell(q) ==
    /\ request[q].pc = "temporal"
    /\ LET gone == temporal[On(q)] = "deleted"
       IN  \/ ~gone /\ Told(q) /\ Go(q, "row") /\ UNCHANGED <<torn, missed>>
           \/ gone /\ Go(q, AfterError(q)) /\ UNCHANGED <<temporal, action, torn, missed>>
           \/ /\ Fault("temporal") /\ ~gone
              /\ Go(q, AfterError(q))
              /\ \/ /\ Told(q)
                    /\ torn' = IF Is(q, "delete") THEN torn ELSE torn \cup {On(q)}
                    /\ UNCHANGED missed
                 \/ /\ UNCHANGED <<temporal, action>>
                    /\ torn' = IF Is(q, "delete") THEN torn \cup {On(q)} ELSE torn
                    /\ missed' = IF Is(q, "delete") THEN missed \cup {On(q)} ELSE missed
    /\ UNCHANGED <<row, config, cleaner, runVars, clashed, late, blurred>>

(* The row follows, whatever it says by now.                                *)
Written(q) ==
    LET s == On(q)
    IN  /\ row' = [row EXCEPT ![s] = CASE Is(q, "pause")  -> "PAUSED"
                                       [] Is(q, "resume") -> "ACTIVE"
                                       [] Is(q, "delete") -> "DELETED"
                                       [] Is(q, "update") -> @]
        /\ config' = [config EXCEPT ![s] = IF Is(q, "update") THEN q ELSE @]

Write(q) ==
    /\ request[q].pc = "row"
    /\ \/ /\ Written(q)
          /\ late' = IF ~Live(On(q)) /\ row'[On(q)] # "DELETED" THEN late \cup {On(q)} ELSE late
          /\ UNCHANGED torn
       \/ Fault("db") /\ UNCHANGED <<row, config, late>> /\ torn' = torn \cup {On(q)}
    /\ Go(q, "done")
    /\ UNCHANGED <<temporal, action, cleaner, runVars, clashed, missed, blurred>>

-----------------------------------------------------------------------------
(* DetectAndCleanOrphanedSchedules.                                         *)

List ==
    /\ cleaner.pc = "list"
    /\ cleaner' = [pc |-> "verify", todo |-> {s \in Schedules : Live(s)}, on |-> None]
    /\ UNCHANGED <<storeVars, request, runVars, historyVars>>

(* VerifyScheduleExists: only "not found" counts.                           *)
NotFound_AnyError(s) == temporal[s] = "deleted" \/ Fault("temporal")

NotFound(s) == temporal[s] = "deleted"

Verify(s) ==
    /\ cleaner.pc = "verify" /\ s \in cleaner.todo
    /\ \/ NotFound(s) /\ cleaner' = [cleaner EXCEPT !.pc = "mark", !.todo = @ \ {s}, !.on = s]
       \/ (~NotFound(s) \/ Fault("temporal")) /\ cleaner' = [cleaner EXCEPT !.todo = @ \ {s}]
    /\ UNCHANGED <<storeVars, request, runVars, historyVars>>

MarkDeleted ==
    /\ cleaner.pc = "mark"
    /\ \/ row' = [row EXCEPT ![cleaner.on] = "DELETED"]
       \/ Fault("db") /\ UNCHANGED row
    /\ cleaner' = [cleaner EXCEPT !.pc = "verify", !.on = None]
    /\ UNCHANGED <<temporal, action, config, request, runVars, historyVars>>

-----------------------------------------------------------------------------
(* Runs.                                                                    *)

At(k, pc)  == run[k].pc = pc
Move(k, pc) == run' = [run EXCEPT ![k].pc = pc]

Open(k) == run[k].pc # "none" /\ run[k].end = "none"

(* Temporal starts a run when the last one has ended: the default overlap   *)
(* policy skips.                                                            *)
Fire(k) ==
    LET s == k[1]
    IN  /\ temporal[s] = "running"
        /\ At(k, "none")
        /\ \A n \in 1 .. (k[2] - 1) : ~At(<<s, n>>, "none") /\ ~Open(<<s, n>>)
        /\ Move(k, "link")
        /\ UNCHANGED <<storeVars, request, cleaner, task, linked, stats, replied, historyVars>>

(* RecordScheduleExecutionStart: a link, in a transaction that is open      *)
(* until the task row is saved over another connection.  Both refer to the  *)
(* row of the schedule, and fail without one.  The activity is tried again  *)
(* until it succeeds.                                                       *)
Link(k) ==
    /\ At(k, "link")
    /\ row[k[1]] # "none"
    /\ Move(k, "save")
    /\ UNCHANGED <<storeVars, request, cleaner, task, linked, stats, replied, historyVars>>

SaveStart(k) ==
    /\ At(k, "save")
    /\ \/ task' = [task EXCEPT ![k] = "RUNNING"] /\ Move(k, "commit")
       \/ Fault("db") /\ task' \in {task, [task EXCEPT ![k] = "RUNNING"]} /\ Move(k, "link")
    /\ UNCHANGED <<storeVars, request, cleaner, linked, stats, replied, historyVars>>

(* The work is done by a daemon or a child workflow, as the task context of *)
(* the configuration says.  A run that has timed out has nobody to go on.   *)
Onward(k, pc) == Move(k, IF Open(k) THEN pc ELSE "closed")

Commit(k) ==
    /\ At(k, "commit")
    /\ \/ linked' = linked \cup {k} /\ \E pc \in {"dispatch", "work"} : Onward(k, pc)
       \/ Fault("db") /\ linked' \in {linked, linked \cup {k}} /\ Move(k, "link")
    /\ UNCHANGED <<storeVars, request, cleaner, task, stats, replied, historyVars>>

(* The child workflow ends; it may fail, and it may report a failure.       *)
Ended(k, result) == run' = [run EXCEPT ![k].pc = "row", ![k].result = result]

Work(k) ==
    /\ At(k, "work")
    /\ \E result \in {"COMPLETED", "FAILED"} : Ended(k, result)
    /\ UNCHANGED <<storeVars, request, cleaner, task, linked, stats, replied, historyVars>>

(* DaemonDispatchActivity: an XADD, whose error is a result.                *)
Dispatch(k) ==
    /\ At(k, "dispatch")
    /\ \/ Onward(k, "wait")
       \/ Fault("redis") /\ IF Open(k) THEN Ended(k, "FAILED") ELSE Move(k, "closed")
    /\ UNCHANGED <<storeVars, request, cleaner, task, linked, stats, replied, historyVars>>

(* A daemon has replied, and the gateway has the run signalled.             *)
HandleSignal(k) ==
    /\ Open(k) /\ At(k, "wait")
    /\ replied' = replied \cup {k}
    /\ UNCHANGED <<storeVars, request, cleaner, run, task, linked, stats, historyVars>>

AwaitReply(k) ==
    /\ At(k, "wait")
    /\ k \in replied
    /\ Ended(k, "COMPLETED")
    /\ UNCHANGED <<storeVars, request, cleaner, task, linked, stats, replied, historyVars>>

ReplyTimeout(k) ==
    /\ At(k, "wait")
    /\ k \notin replied
    /\ Ended(k, "FAILED")
    /\ UNCHANGED <<storeVars, request, cleaner, task, linked, stats, replied, historyVars>>

(* RecordScheduleExecutionComplete: the task row, ...                       *)
SaveEnd(k) ==
    /\ At(k, "row")
    /\ \/ task' = [task EXCEPT ![k] = run[k].result] /\ UNCHANGED blurred
       \/ Fault("db") /\ UNCHANGED task /\ blurred' = blurred \cup {k}
    /\ Move(k, "count")
    /\ UNCHANGED <<storeVars, request, cleaner, linked, stats, replied, torn, clashed, missed, late>>

(* ... and the statistics, by a statement that adds one.  No error stops    *)
(* the activity.                                                            *)
Counter_Successful(result) == "successful"

Counter(result) == IF result = "COMPLETED" THEN "successful" ELSE "failed"

CountRun(k) ==
    /\ At(k, "count")
    /\ \/ stats' = [stats EXCEPT ![k[1]][Counter(run[k].result)] = @ + 1] /\ UNCHANGED blurred
       \/ Fault("db") /\ UNCHANGED stats /\ blurred' = blurred \cup {k}
    /\ Move(k, "report")
    /\ UNCHANGED <<storeVars, request, cleaner, task, linked, replied, torn, clashed, missed, late>>

(* The activity is reported and the workflow returns, with an error when    *)
(* the task failed.                                                         *)
Report(k) ==
    /\ At(k, "report")
    /\ run' = [run EXCEPT ![k].pc = "closed", ![k].end = IF @ = "none" THEN run[k].result ELSE @]
    /\ UNCHANGED <<storeVars, request, cleaner, task, linked, stats, replied, historyVars>>

(* An attempt of an activity stops at any point, or its report is lost:     *)
(* the activity is tried again, while its run is open.                      *)
Start(k) == IF run[k].pc \in {"save", "commit"} THEN "link" ELSE "row"

(* A second attempt counts the run again, and one that nobody makes never.  *)
Blurs(k) == At(k, "report") \/ (At(k, "count") /\ ~Open(k))

Retry(k) ==
    /\ Fault("crash")
    /\ run[k].pc \in {"save", "commit", "count", "report"}
    /\ run[k].tries < MaxTries
    /\ run' = [run EXCEPT ![k].pc = IF Open(k) THEN Start(k) ELSE "closed", ![k].tries = @ + 1]
    /\ blurred' = IF Blurs(k) THEN blurred \cup {k} ELSE blurred
    /\ UNCHANGED <<storeVars, request, cleaner, task, linked, stats, replied, torn, clashed, missed, late>>

(* WorkflowRunTimeout.  The child goes with its parent; an attempt of an    *)
(* activity that is running goes on.                                        *)
TimeOut(k) ==
    /\ Fault("timeout")
    /\ Open(k)
    /\ run' = [run EXCEPT ![k].end = "timedout",
                          ![k].pc = IF @ \in {"work", "wait"} THEN "closed" ELSE @]
    /\ UNCHANGED <<storeVars, request, cleaner, task, linked, stats, replied, historyVars>>

-----------------------------------------------------------------------------
(* The orchestrator stops and starts: requests are cut off, and the cleaner *)
(* begins anew.                                                             *)
Cut == {q \in Requests : request[q].pc \in {"insert", "rollback", "row"}}

Crash ==
    /\ Fault("crash")
    /\ request' = [q \in Requests |-> IF request[q].pc = "new" THEN request[q]
                                        ELSE Idle("done")]
    /\ torn' = torn \cup {On(q) : q \in Cut}
    /\ missed' = missed \cup {On(q) : q \in {r \in Cut : request[r].pc = "rollback"}}
    /\ cleaner' = [pc |-> "list", todo |-> {}, on |-> None]
    /\ UNCHANGED <<storeVars, runVars, clashed, late, blurred>>

RequestStep(q) ==
    \/ Count(q) \/ Create(q) \/ Insert(q) \/ Rollback(q)
    \/ Find(q) \/ Tell(q) \/ Write(q)

CleanerStep == List \/ MarkDeleted \/ \E s \in Schedules : Verify(s)

RunStep(k) ==
    \/ Link(k) \/ SaveStart(k) \/ Commit(k) \/ Work(k)
    \/ Dispatch(k) \/ AwaitReply(k) \/ ReplyTimeout(k)
    \/ SaveEnd(k) \/ CountRun(k) \/ Report(k)

Next ==
    \/ \E q \in Requests : RequestStep(q) \/ \E kind \in Kinds, s \in Schedules : Ask(q, kind, s)
    \/ CleanerStep
    \/ \E k \in Runs : Fire(k) \/ RunStep(k) \/ HandleSignal(k) \/ Retry(k) \/ TimeOut(k)
    \/ Crash

Spec == Init /\ [][Next]_vars

-----------------------------------------------------------------------------
(* Properties.                                                              *)

(* Every variable has its type.                                             *)
TypeOK ==
    /\ temporal \in [Schedules -> {"none", "running", "paused", "deleted"}]
    /\ action \in [Schedules -> Requests \cup {None}]
    /\ row \in [Schedules -> {"none", "ACTIVE", "PAUSED", "DELETED"}]
    /\ config \in [Schedules -> Requests \cup {None}]
    /\ request \in [Requests -> [pc : Acting \cup {"new", "count", "find", "done"},
                                 kind : Kinds \cup {"none"}, on : Schedules \cup {None}]]
    /\ cleaner \in [pc : {"list", "verify", "mark"}, todo : SUBSET Schedules,
                    on : Schedules \cup {None}]
    /\ run \in [Runs -> [pc : {"none", "link", "save", "commit", "work", "dispatch", "wait",
                               "row", "count", "report", "closed"},
                         end : {"none", "COMPLETED", "FAILED", "timedout"},
                         result : {"none", "COMPLETED", "FAILED"},
                         tries : 1 .. MaxTries]]
    /\ task \in [Runs -> {"none", "RUNNING", "COMPLETED", "FAILED"}]
    /\ linked \subseteq Runs
    /\ stats \in [Schedules -> [successful : Nat, failed : Nat]]
    /\ replied \subseteq Runs
    /\ torn \subseteq Schedules /\ clashed \subseteq Schedules
    /\ missed \subseteq Schedules /\ late \subseteq Schedules
    /\ blurred \subseteq Runs

(* What a row says and what Temporal does agree whenever no request is at   *)
(* work on the schedule, unless only one of two writes took effect (one of  *)
(* them failed, or was lost in a crash) or conflicting requests met.        *)
Agree(s) ==
    /\ row[s] \in {"none", "DELETED"} <=> temporal[s] \in {"none", "deleted"}
    /\ row[s] = "ACTIVE" <=> temporal[s] = "running"
    /\ row[s] = "PAUSED" <=> temporal[s] = "paused"
    /\ Live(s) => config[s] = action[s]

StatusAgrees == \A s \in Schedules \ (torn \cup clashed) : Busy(s) \/ Agree(s)

(* A deleted schedule starts no runs, unless Temporal failed to delete it:  *)
(* no race of requests, orphan detection or crash makes a row say deleted   *)
(* of a schedule that goes on.                                              *)
DeletedStaysQuiet ==
    \A s \in Schedules : row[s] = "DELETED" /\ temporal[s] \in {"running", "paused"} => s \in missed

(* Schedules beyond the limit were created while another one was, or came   *)
(* back when a request wrote over their deletion.                           *)
LimitKept == Cardinality({s \in Schedules : Live(s)} \ late) <= MaxPerUser

(* The statistics of a schedule are those of the runs its history lists,    *)
(* when nothing is being recorded, no statement failed and none was run     *)
(* twice.                                                                   *)
Listed(s, status) == {k \in linked : k[1] = s /\ task[k] = status}

StatsAgree ==
    \A s \in Schedules :
        (\A k \in Runs : k[1] = s => k \notin blurred /\ run[k].pc \notin {"row", "count"})
        => /\ stats[s].successful = Cardinality(Listed(s, "COMPLETED"))
           /\ stats[s].failed = Cardinality(Listed(s, "FAILED"))
=============================================================================
