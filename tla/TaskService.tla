---------------------------- MODULE TaskService ----------------------------
(***************************************************************************)
(* One task as its clients see it: the calls of                            *)
(* go/orchestrator/internal/server/service.go (SubmitTask, GetTaskStatus,  *)
(* PauseTask, ResumeTask, CancelTask), the watcher that stores what came   *)
(* of a workflow, and the row of task_executions they write through        *)
(* internal/db (UpdateTaskStatus, and SaveTaskExecution, directly or from  *)
(* the write queue, whose ten workers keep no order).                      *)
(*                                                                         *)
(* The truth is Temporal's: the workflow itself is reduced to its status,  *)
(* its control state and whether it ends with a text.  A call is cut where *)
(* it asks Temporal or the database.                                       *)
(*                                                                         *)
(* There is one workflow id: calls about others share nothing with these   *)
(* but the queue.  Its submits are those of one user in one second, which  *)
(* get the same id; that none of its runs ends within that second is       *)
(* assumed.                                                                *)
(***************************************************************************)
EXTENDS Naturals, FiniteSets

CONSTANTS
    Submits,      \* calls of SubmitTask, in the order they get to Temporal
    Polls,        \* clients that call GetTaskStatus
    Controls,     \* clients that pause, resume or cancel
    MaxErrors,    \* maxConsecutiveErrors
    MaxAttempts,  \* maxAttempts of the watcher
    Ends,         \* the ways in which the workflow may end
    Faults,       \* "db", "temporal", "crash"
    MaxFaults, MaxCalls,   \* bounds
    None

Callers  == Polls \cup Submits     \* a watcher calls GetTaskStatus, too
Terminal == {"COMPLETED", "FAILED", "CANCELLED", "TIMEOUT"}
Rows     == [status : Terminal \cup {"RUNNING", "PAUSED"}, result : {"unset", "empty", "full"}]

ASSUME ServiceAssumption ==
    /\ {MaxErrors, MaxAttempts, MaxFaults, MaxCalls} \cup Submits \subseteq Nat
    /\ Polls \cap Submits = {}
    /\ Ends \subseteq Terminal
    /\ Faults \subseteq {"db", "temporal", "crash"}
    /\ None \notin Terminal \cup {"RUNNING", "PAUSED", "UNSPECIFIED"} /\ None \notin Rows

(* The watcher's 7 calls of GetTaskStatus outlast the failures of one task. *)
ASSUME PatienceAssumption == MaxFaults <= MaxAttempts

VARIABLES
    wf,        \* the status of the workflow in Temporal
    text,      \* it ended with a result that is not empty
    paused,    \* IsPaused of its control state
    signals,   \* signals on their way to it
    asked,     \* Temporal was asked to cancel it
    expired,   \* Temporal has forgotten it
    row,       \* task_executions: status and whether there is a result
    queue,     \* writeQueue: rows with and without a result
    submit,    \* where each SubmitTask is
    watch,     \* where each watchAndPersist is, with its counters
    call,      \* where each GetTaskStatus is
    control,   \* where each PauseTask, ResumeTask, CancelTask is
    calls, faults,         \* bounds
    told,      \* what the clients were told of the task's end
    spoilt     \* what has come over the row since it was last written whole

temporalVars == <<wf, text, paused, signals, asked, expired>>
storeVars    == <<row, queue>>
callVars     == <<submit, watch, call, control>>
boundVars    == <<calls, faults>>
historyVars  == <<told, spoilt>>
vars == <<temporalVars, storeVars, callVars, boundVars, historyVars>>

Closed == wf \in Terminal

Idle == [pc |-> "idle", text |-> FALSE, after |-> FALSE]

Init ==
    /\ wf = "none" /\ text = FALSE /\ paused = FALSE
    /\ signals = {} /\ asked = FALSE /\ expired = FALSE
    /\ row = None /\ queue = [b \in BOOLEAN |-> 0]
    /\ submit = [s \in Submits |-> "idle"]
    /\ watch = [s \in Submits |-> [pc |-> "off", errors |-> 0, attempts |-> 0]]
    /\ call = [c \in Callers |-> Idle]
    /\ control = [c \in Controls |-> "idle"]
    /\ calls = 0 /\ faults = 0
    /\ told = None /\ spoilt = {}

(* A fault of one step; how many there may be is bounded.                   *)
Fails(f) ==
    /\ f \in Faults
    /\ faults < MaxFaults
    /\ faults' = faults + 1

Works == UNCHANGED faults

-----------------------------------------------------------------------------
(* The workflow.                                                            *)

(* The signal handler prefers pause to resume to cancel.                    *)
TakeSignal ==
    /\ wf = "RUNNING"
    /\ \/ /\ "pause" \in signals
          /\ paused' = TRUE /\ signals' = signals \ {"pause"}
       \/ /\ signals \cap {"pause", "resume"} = {"resume"}
          /\ paused' = FALSE /\ signals' = signals \ {"resume"}
    /\ UNCHANGED <<wf, text, asked, expired, storeVars, callVars, boundVars, historyVars>>

(* Only a completed workflow has a result, which may be empty.              *)
End(s, b) ==
    /\ wf = "RUNNING"
    /\ s \in Ends
    /\ s = "CANCELLED" => asked \/ "cancel" \in signals
    /\ b => s = "COMPLETED"
    /\ wf' = s /\ text' = b
    /\ UNCHANGED <<paused, signals, asked, expired, storeVars, callVars, boundVars,
                   historyVars>>

(* Retention lasts for days, so that all calls about the end are over.      *)
Quiet ==
    /\ \A s \in Submits : submit[s] # "save" /\ watch[s].pc \in {"off", "done"}
    /\ \A c \in Callers : call[c].pc = "idle"
    /\ \A c \in Controls : control[c] = "idle"
    /\ \A b \in BOOLEAN : queue[b] = 0

Expire ==
    /\ Closed /\ Quiet /\ ~expired
    /\ expired' = TRUE
    /\ UNCHANGED <<wf, text, paused, signals, asked, storeVars, callVars, boundVars,
                   historyVars>>

-----------------------------------------------------------------------------
(* SubmitTask.                                                              *)

(* ExecuteWorkflow: a running workflow of that id is taken for the new one. *)
Start(s) ==
    /\ submit[s] = "idle"
    /\ \A r \in Submits : r < s => submit[r] # "idle"
    /\ wf \in {"none", "RUNNING"}
    /\ \/ Works /\ wf' = "RUNNING" /\ submit' = [submit EXCEPT ![s] = "save"]
       \/ Fails("temporal") /\ UNCHANGED wf /\ submit' = [submit EXCEPT ![s] = "refused"]
    /\ UNCHANGED <<text, paused, signals, asked, expired, storeVars, watch, call,
                   control, calls, historyVars>>

WatchFrom(s) == watch' = [watch EXCEPT ![s].pc = "wait"]

(* Write-on-submit is an upsert, which also takes back what is there.       *)
Save_Watched(s) ==
    /\ submit[s] = "save"
    /\ IF watch[s].pc = "off"
         THEN WatchFrom(s) /\ UNCHANGED <<submit, row, faults>>
         ELSE /\ Works
              /\ row' = [status |-> "RUNNING", result |-> "unset"]
              /\ submit' = [submit EXCEPT ![s] = "accepted"]
              /\ UNCHANGED watch
    /\ UNCHANGED <<temporalVars, queue, call, control, calls, historyVars>>

Save(s) ==
    /\ submit[s] = "save"
    /\ \/ Works /\ row' = [status |-> "RUNNING", result |-> "unset"]
       \/ Fails("db") /\ UNCHANGED row
    /\ submit' = [submit EXCEPT ![s] = "accepted"]
    /\ WatchFrom(s)
    /\ UNCHANGED <<temporalVars, queue, call, control, calls, historyVars>>

-----------------------------------------------------------------------------
(* GetTaskStatus.                                                           *)

(* The row is read when Temporal knows nothing of the workflow; a status    *)
(* that is not an end is reported as unspecified.                           *)
Reported_Ends(r) == IF r.status \in {"COMPLETED", "FAILED"} THEN r.status ELSE "UNSPECIFIED"

Reported(r) == IF r.status \in Terminal THEN r.status ELSE "UNSPECIFIED"

(* Once a client was told an end, every later answer counts.                *)
Answer(c, s) == told' = IF c \in Polls /\ (s \in Terminal \/ call[c].after) THEN s ELSE told

Ask(c) ==
    /\ c \in Polls
    /\ call[c].pc = "idle"
    /\ calls < MaxCalls
    /\ calls' = calls + 1
    /\ call' = [call EXCEPT ![c] = [Idle EXCEPT !.pc = "describe", !.after = told # None]]
    /\ UNCHANGED <<temporalVars, storeVars, submit, watch, control, faults, historyVars>>

(* A call of the watcher goes on with its loop when it returns.             *)
Returned(c, s) ==
    /\ call' = [call EXCEPT ![c] = Idle]
    /\ Answer(c, s)
    /\ watch' = IF c \in Submits THEN [watch EXCEPT ![c].pc = "check"] ELSE watch

Failed(c) ==
    /\ call' = [call EXCEPT ![c] = Idle]
    /\ watch' = IF c \in Submits THEN [watch EXCEPT ![c].pc = "check"] ELSE watch
    /\ UNCHANGED told

(* A hint from the stream, that the workflow is about to end, only makes it *)
(* ask again: the answer is always what Temporal says.                      *)
Describe(c) ==
    /\ call[c].pc = "describe"
    /\ \/ /\ wf # "none" /\ ~expired /\ Works
          /\ IF Closed
               THEN /\ call' = [call EXCEPT ![c].pc = IF wf = "COMPLETED" THEN "fetch" ELSE "store"]
                    /\ UNCHANGED <<watch, told>>
               ELSE Returned(c, IF paused THEN "PAUSED" ELSE "RUNNING")
       \/ /\ expired /\ row # None /\ Works
          /\ Returned(c, Reported(row))
       \/ (wf = "none" \/ (expired /\ row = None)) /\ Works /\ Failed(c)
       \/ Fails("temporal") /\ Failed(c)
    /\ UNCHANGED <<temporalVars, storeVars, submit, control, calls, spoilt>>

(* When the result cannot be had, or the client hangs up meanwhile, the     *)
(* answer is made without it.                                               *)
Fetch(c) ==
    /\ call[c].pc = "fetch"
    /\ \/ Works /\ call' = [call EXCEPT ![c].pc = "store", ![c].text = text]
       \/ Fails("temporal") /\ call' = [call EXCEPT ![c].pc = "store"]
    /\ UNCHANGED <<temporalVars, storeVars, submit, watch, control, calls, historyVars>>

(* QueueWrite; a full queue makes the caller write.                         *)
Store(c) ==
    /\ call[c].pc = "store"
    /\ queue' = [queue EXCEPT ![call[c].text] = @ + 1]
    /\ Returned(c, wf)
    /\ UNCHANGED <<temporalVars, row, submit, control, boundVars, spoilt>>

-----------------------------------------------------------------------------
(* The database.                                                            *)

(* SaveTaskExecution by a worker replaces status and result.                *)
Write(b) ==
    /\ queue[b] > 0
    /\ queue' = [queue EXCEPT ![b] = @ - 1]
    /\ \/ /\ Works
          /\ row' = [status |-> wf, result |-> IF b THEN "full" ELSE "empty"]
          /\ spoilt' = IF b = text THEN {} ELSE spoilt \cup {"blind"}
       \/ Fails("db") /\ UNCHANGED <<row, spoilt>>
    /\ UNCHANGED <<temporalVars, callVars, calls, told>>

(* The orchestrator restarts: nobody looks for the tasks it watched.        *)
Crash ==
    /\ Fails("crash")
    /\ queue' = [b \in BOOLEAN |-> 0]
    /\ submit' = [s \in Submits |-> IF submit[s] = "save" THEN "refused" ELSE submit[s]]
    /\ watch' = [s \in Submits |->
                    IF watch[s].pc = "off" /\ submit[s] # "save"
                      THEN watch[s] ELSE [watch[s] EXCEPT !.pc = "done"]]
    /\ call' = [c \in Callers |-> Idle]
    /\ control' = [c \in Controls |-> "idle"]
    /\ spoilt' = IF Quiet THEN spoilt ELSE spoilt \cup {"unwatched"}
    /\ UNCHANGED <<temporalVars, row, calls, told>>

-----------------------------------------------------------------------------
(* watchAndPersist.                                                         *)

WatchTo(s, pc) == watch' = [watch EXCEPT ![s].pc = pc]

(* It waits, for 5 minutes at most, and describes; it goes on waiting while *)
(* the workflow runs.                                                       *)
WatchWait_Once(s) ==
    /\ watch[s].pc = "wait"
    /\ Works
    /\ WatchTo(s, IF Closed THEN "update" ELSE "done")
    /\ UNCHANGED <<temporalVars, storeVars, submit, call, control, calls, historyVars>>

WatchWait(s) ==
    /\ watch[s].pc = "wait"
    /\ \/ Closed /\ Works /\ WatchTo(s, "update")
       \/ ~Closed /\ Works /\ watch' = [watch EXCEPT ![s].errors = 0]
       \/ /\ Fails("temporal")
          /\ LET n == watch[s].errors + 1
             IN  watch' = [watch EXCEPT ![s].errors = n,
                                        ![s].pc = IF n >= MaxErrors THEN "done" ELSE "wait"]
    /\ spoilt' = IF watch'[s].pc = "done" THEN spoilt \cup {"unwatched"} ELSE spoilt
    /\ UNCHANGED <<temporalVars, storeVars, submit, call, control, calls, told>>

(* The status is set unless the row says that it completed or failed; then  *)
(* it calls GetTaskStatus.                                                  *)
WatchUpdate(s) ==
    /\ watch[s].pc = "update"
    /\ \/ /\ Works
          /\ row' = IF row # None /\ row.status \notin {"COMPLETED", "FAILED"}
                      THEN [row EXCEPT !.status = wf] ELSE row
       \/ Fails("db") /\ UNCHANGED row
    /\ WatchTo(s, "status")
    /\ call' = [call EXCEPT ![s] = [Idle EXCEPT !.pc = "describe"]]
    /\ UNCHANGED <<temporalVars, queue, submit, control, calls, historyVars>>

(* Until the row has a result, or tokens, which a worker may have written   *)
(* without one, it calls it again, a number of times.                       *)
WatchCheck(s) ==
    /\ watch[s].pc = "check"
    /\ Works
    /\ \/ /\ watch[s].attempts >= MaxAttempts \/ (row # None /\ row.result # "unset")
          /\ WatchTo(s, "done")
          /\ UNCHANGED call
       \/ /\ watch[s].attempts < MaxAttempts
          /\ row # None => row.result # "full"
          /\ watch' = [watch EXCEPT ![s].attempts = @ + 1, ![s].pc = "status"]
          /\ call' = [call EXCEPT ![s] = [Idle EXCEPT !.pc = "describe"]]
    /\ UNCHANGED <<temporalVars, storeVars, submit, control, calls, historyVars>>

-----------------------------------------------------------------------------
(* PauseTask, ResumeTask, CancelTask.                                       *)

(* The state is validated, ...                                              *)
Validate(c, op) ==
    /\ control[c] = "idle"
    /\ calls < MaxCalls
    /\ wf = "RUNNING"
    /\ op = "pause" => ~paused
    /\ op = "resume" => paused
    /\ calls' = calls + 1
    /\ control' = [control EXCEPT ![c] = op]
    /\ UNCHANGED <<temporalVars, storeVars, submit, watch, call, faults, historyVars>>

(* ... the signal sent, which fails when the workflow is closed, ...        *)
Signal(c) ==
    /\ control[c] \in {"pause", "resume", "cancel"}
    /\ \/ /\ Works
          /\ ~Closed
          /\ signals' = signals \cup {control[c]}
          /\ control' = [control EXCEPT ![c] =
                            CASE @ = "pause"  -> "mark PAUSED"
                              [] @ = "resume" -> "mark RUNNING"
                              [] @ = "cancel" -> "request"]
       \/ /\ (Closed /\ Works) \/ Fails("temporal")
          /\ UNCHANGED signals
          /\ control' = [control EXCEPT ![c] = IF @ = "cancel" THEN "request" ELSE "idle"]
    /\ UNCHANGED <<wf, text, paused, asked, expired, storeVars, submit, watch, call,
                   calls, historyVars>>

(* ... and the row is marked, whatever it says by then.                     *)
Mark(c, s) ==
    /\ control[c] = (IF s = "PAUSED" THEN "mark PAUSED" ELSE "mark RUNNING")
    /\ control' = [control EXCEPT ![c] = "idle"]
    /\ \/ /\ Works
          /\ row' = IF row = None THEN None ELSE [row EXCEPT !.status = s]
          /\ spoilt' = IF Closed THEN spoilt \cup {"late"} ELSE spoilt
       \/ Fails("db") /\ UNCHANGED <<row, spoilt>>
    /\ UNCHANGED <<temporalVars, queue, submit, watch, call, calls, told>>

(* CancelTask asks Temporal, too, 100 ms after the signal.                  *)
RequestCancel(c) ==
    /\ control[c] = "request"
    /\ control' = [control EXCEPT ![c] = "idle"]
    /\ \/ Works /\ asked' = (asked \/ ~Closed)
       \/ Fails("temporal") /\ UNCHANGED asked
    /\ UNCHANGED <<wf, text, paused, signals, expired, storeVars, submit, watch, call,
                   calls, historyVars>>

-----------------------------------------------------------------------------

Workflow == TakeSignal \/ (\E s \in Terminal, b \in BOOLEAN : End(s, b))

Watcher(s) == WatchWait(s) \/ WatchUpdate(s) \/ WatchCheck(s)

GetTaskStatus(c) == Describe(c) \/ Fetch(c) \/ Store(c)

Next ==
    \/ Workflow \/ Expire \/ Crash
    \/ \E s \in Submits : Start(s) \/ Save(s) \/ Watcher(s)
    \/ \E c \in Callers : Ask(c) \/ GetTaskStatus(c)
    \/ \E b \in BOOLEAN : Write(b)
    \/ \E c \in Controls :
          \/ \E op \in {"pause", "resume", "cancel"} : Validate(c, op)
          \/ Signal(c) \/ RequestCancel(c)
          \/ \E s \in {"PAUSED", "RUNNING"} : Mark(c, s)

Spec == Init /\ [][Next]_vars

(* Goroutines run on and calls return; nothing makes a workflow end.        *)
FairSpec ==
    /\ Spec
    /\ \A s \in Submits : WF_vars(Save(s)) /\ WF_vars(Watcher(s)) /\ WF_vars(GetTaskStatus(s))
    /\ \A b \in BOOLEAN : WF_vars(Write(b))

-----------------------------------------------------------------------------
(* Properties.                                                              *)

Watching == [pc : {"off", "wait", "update", "status", "check", "done"},
             errors : Nat, attempts : Nat]
Asking   == [pc : {"idle", "describe", "fetch", "store"}, text : BOOLEAN, after : BOOLEAN]

(* Every variable has its type.                                             *)
TypeOK ==
    /\ wf \in {"none", "RUNNING"} \cup Terminal
    /\ text \in BOOLEAN /\ paused \in BOOLEAN
    /\ signals \subseteq {"pause", "resume", "cancel"}
    /\ asked \in BOOLEAN /\ expired \in BOOLEAN
    /\ row \in Rows \cup {None}
    /\ queue \in [BOOLEAN -> Nat]
    /\ submit \in [Submits -> {"idle", "save", "accepted", "refused"}]
    /\ watch \in [Submits -> Watching]
    /\ call \in [Callers -> Asking]
    /\ control \in [Controls -> {"idle", "pause", "resume", "cancel", "mark PAUSED",
                                 "mark RUNNING", "request"}]
    /\ calls \in Nat /\ faults \in Nat
    /\ told \in {None, "RUNNING", "PAUSED", "UNSPECIFIED"} \cup Terminal
    /\ spoilt \subseteq {"blind", "late", "unwatched"}

(* Whoever was told that the task has ended was told how Temporal says it   *)
(* has, and everybody who asks from then on is told the same, also when     *)
(* only the row is left; unless a crash, or a pause or resume that raced    *)
(* the end, came over the row.                                              *)
Truthful == told # None => told = wf \/ (expired /\ spoilt \cap {"late", "unwatched"} # {})

(* When all calls have returned and all writes are done the row of a task   *)
(* that has ended says how, and has its result, whatever the order of the   *)
(* writes and although some of them failed; unless it was spoilt.           *)
Settled ==
    Closed /\ Quiet /\ (\E s \in Submits : submit[s] = "accepted") /\ spoilt = {} =>
        row # None /\ row.status = wf /\ (row.result = "full" <=> text)

(* The end of a task gets into its row without anybody asking for it.       *)
Persisted ==
    \A s \in Submits :
        Closed /\ submit[s] = "accepted" ~> (row # None /\ row.status = wf) \/ spoilt # {}

-----------------------------------------------------------------------------
(* What the comments say and the code does not do.                          *)

(* service.go:2906: the row allows querying completed tasks beyond          *)
(* Temporal's retention period.                                             *)
HistoryKept == expired => row # None /\ (row.result = "full" <=> text)
=============================================================================
