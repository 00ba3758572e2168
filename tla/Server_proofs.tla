---------------------------- MODULE Server_proofs ----------------------------
(***************************************************************************)
(* Proofs about the task service, for any number of submits, clients and   *)
(* faults the watcher has the patience for, and about the circuit breaker  *)
(* around its stores and services, for any number of callers and every     *)
(* configuration that BreakerAssumption and ThresholdAssumption admit.     *)
(*                                                                         *)
(* When everything is quiet the row of an ended task says how it ended     *)
(* (Settled), and nobody is told anything else (Truthful).  Both rest on   *)
(* Diligence: as long as the row has no result somebody looks after it,    *)
(* and every attempt of a watcher that came to nothing is paid for by a    *)
(* fault or by a write that is still queued.                               *)
(***************************************************************************)
EXTENDS TaskService, CircuitBreaker, FiniteSetTheorems, TLAPS

-----------------------------------------------------------------------------
(* The tasks.                                                               *)

(* Where a watcher, its submit and its call of GetTaskStatus are together.  *)
Together(s) ==
    /\ watch[s].pc = "status" <=> call[s].pc # "idle"
    /\ watch[s].pc \in {"off", "wait", "update"} => watch[s].attempts = 0
    /\ submit[s] \in {"idle", "save"} => watch[s].pc = "off"
    /\ watch[s].pc \in {"update", "status", "check"} => Closed
    /\ call[s].after = FALSE

Watches == \A s \in Submits : Together(s)

(* What is about the end comes after the end.                               *)
AfterEnd ==
    /\ \A c \in Callers : call[c].pc \in {"fetch", "store"} => Closed
    /\ \A b \in BOOLEAN : queue[b] > 0 => Closed
    /\ told # None => Closed
    /\ \A c \in Callers : call[c].after = TRUE => told # None
    /\ expired => Closed

(* Once Temporal has forgotten the workflow there are only clients that ask. *)
Over ==
    expired =>
        /\ \A s \in Submits : submit[s] # "save" /\ watch[s].pc \in {"off", "done"}
        /\ \A c \in Callers : call[c].pc \in {"idle", "describe"}
        /\ \A c \in Controls : control[c] = "idle"
        /\ \A b \in BOOLEAN : queue[b] = 0

HasResult == row # None /\ row.result # "unset"

(* A result in the row is that of the workflow.                             *)
RowRight ==
    HasResult =>
        /\ Closed
        /\ "late" \in spoilt \/ row.status = wf
        /\ "blind" \in spoilt \/ (row.result = "full" <=> text)

(* The calls of GetTaskStatus that a watcher has behind it.                 *)
Tries(s) == watch[s].attempts + (IF watch[s].pc \in {"check", "done"} THEN 1 ELSE 0)

QueuedFull  == queue[TRUE]
QueuedEmpty == queue[FALSE]

Excuses == faults + QueuedFull + QueuedEmpty

(* A submit that is yet to start its watcher, or whose watcher goes on.     *)
LooksAfter(s) ==
    \/ submit[s] = "save"
    \/ /\ submit[s] = "accepted"
       /\ watch[s].pc # "off"
       /\ watch[s].pc = "done" => watch[s].attempts >= MaxAttempts
       /\ Tries(s) <= Excuses

Diligence ==
    wf # "none" /\ "unwatched" \notin spoilt /\ ~HasResult => \E s \in Submits : LooksAfter(s)

(* What Temporal has forgotten the row says.                                *)
Lasting ==
    expired /\ spoilt \cap {"late", "unwatched"} = {} => row # None /\ row.status = wf

IInv ==
    /\ TypeOK /\ faults <= MaxFaults
    /\ Watches /\ AfterEnd /\ Over /\ RowRight /\ Diligence /\ Lasting /\ Truthful

-----------------------------------------------------------------------------
(* Types.                                                                   *)

(* A step fails or works.                                                   *)
Pays == faults' \in {faults, faults + 1} /\ (faults <= MaxFaults => faults' <= MaxFaults)

LEMMA Bounds ==
    /\ MaxFaults \in Nat /\ MaxAttempts \in Nat /\ MaxErrors \in Nat /\ MaxCalls \in Nat
    /\ MaxFaults <= MaxAttempts
BY ServiceAssumption, PatienceAssumption

LEMMA FaultPays ==
    ASSUME faults \in Nat, Works \/ \E f \in Faults : Fails(f)
    PROVE  Pays
BY Bounds DEF Pays, Works, Fails

LEMMA StepPays ==
    ASSUME faults \in Nat, [Next]_vars
    PROVE  Pays
<1> SUFFICES Works \/ \E f \in Faults : Fails(f)
  BY FaultPays
<1>1. \A f : Fails(f) => \E g \in Faults : Fails(g)
  BY DEF Fails
<1>2. CASE Workflow \/ Expire
  BY <1>2 DEF Workflow, TakeSignal, End, Expire, boundVars, Works
<1>3. CASE Crash
  BY <1>1, <1>3 DEF Crash
<1>4. ASSUME NEW s \in Submits, Start(s) \/ Save(s) \/ Watcher(s)
      PROVE  Works \/ \E f \in Faults : Fails(f)
  BY <1>1, <1>4 DEF Start, Save, Watcher, WatchWait, WatchUpdate, WatchCheck
<1>5. ASSUME NEW c \in Callers, Ask(c) \/ GetTaskStatus(c)
      PROVE  Works \/ \E f \in Faults : Fails(f)
  <2>1. CASE Ask(c)
    BY <2>1 DEF Ask, Works
  <2>2. CASE Store(c)
    BY <2>2 DEF Store, boundVars, Works
  <2> QED
    BY <1>1, <1>5, <2>1, <2>2 DEF GetTaskStatus, Describe, Fetch
<1>6. ASSUME NEW b \in BOOLEAN, Write(b)
      PROVE  Works \/ \E f \in Faults : Fails(f)
  BY <1>1, <1>6 DEF Write
<1>7. ASSUME NEW c \in Controls,
             \/ \E op \in {"pause", "resume", "cancel"} : Validate(c, op)
             \/ Signal(c) \/ RequestCancel(c)
             \/ \E s \in {"PAUSED", "RUNNING"} : Mark(c, s)
      PROVE  Works \/ \E f \in Faults : Fails(f)
  <2>1. ASSUME NEW op, Validate(c, op)
        PROVE  Works
    BY <2>1 DEF Validate, Works
  <2> QED
    BY <1>1, <1>7, <2>1 DEF Signal, RequestCancel, Mark
<1>8. CASE UNCHANGED vars
  BY <1>8 DEF vars, boundVars, Works
<1> QED
  BY <1>2, <1>3, <1>4, <1>5, <1>6, <1>7, <1>8 DEF Next

LEMMA FaultsCount ==
    ASSUME TypeOK, [Next]_vars
    PROVE  faults' \in Nat
<1>1. faults \in Nat
  BY DEF TypeOK
<1> QED
  BY <1>1, StepPays DEF Pays

LEMMA WatchMoves ==
    ASSUME watch \in [Submits -> Watching], NEW s \in Submits,
           NEW pc \in {"off", "wait", "update", "status", "check", "done"}
    PROVE  [watch EXCEPT ![s].pc = pc] \in [Submits -> Watching]
BY DEF Watching

LEMMA IdleAsks ==
    ASSUME NEW pc \in {"idle", "describe", "fetch", "store"}, NEW b \in BOOLEAN
    PROVE  /\ [Idle EXCEPT !.pc = pc, !.after = b] \in Asking
           /\ [Idle EXCEPT !.pc = pc] \in Asking
           /\ Idle \in Asking
BY DEF Idle, Asking

LEMMA ClosedRow ==
    ASSUME Closed
    PROVE  /\ [status |-> wf, result |-> "full"] \in Rows
           /\ [status |-> wf, result |-> "empty"] \in Rows
BY DEF Closed, Rows

LEMMA MarkedRow ==
    ASSUME NEW r \in Rows, NEW t \in Terminal \cup {"RUNNING", "PAUSED"}
    PROVE  [r EXCEPT !.status = t] \in Rows
BY DEF Rows

LEMMA NewRow == [status |-> "RUNNING", result |-> "unset"] \in Rows
BY DEF Rows

LEMMA WorkflowTypes ==
    ASSUME TypeOK, Workflow \/ Expire
    PROVE  TypeOK'
<1> USE DEF TypeOK, storeVars, callVars, boundVars, historyVars
<1>1. CASE TakeSignal
  BY <1>1 DEF TakeSignal
<1>2. ASSUME NEW s \in Terminal, NEW b \in BOOLEAN, End(s, b)
      PROVE  TypeOK'
  BY <1>2 DEF End
<1>3. CASE Expire
  BY <1>3 DEF Expire
<1> QED
  BY <1>1, <1>2, <1>3 DEF Workflow

LEMMA CrashTypes ==
    ASSUME TypeOK, Crash
    PROVE  TypeOK'
<1>1. watch' \in [Submits -> Watching]
  <2>1. watch \in [Submits -> Watching]
    BY DEF TypeOK
  <2>2. ASSUME NEW s \in Submits
        PROVE  [watch[s] EXCEPT !.pc = "done"] \in Watching
    BY <2>1 DEF Watching
  <2> QED
    BY <2>1, <2>2 DEF Crash
<1>2. call' \in [Callers -> Asking]
  BY IdleAsks DEF Crash
<1>3. queue' \in [BOOLEAN -> Nat] /\ control' \in [Controls -> {"idle"}]
  BY DEF Crash
<1>4. submit' \in [Submits -> {"idle", "save", "accepted", "refused"}]
  BY DEF Crash, TypeOK
<1>5. faults' \in Nat
  BY FaultsCount DEF Next
<1> QED
  BY <1>1, <1>2, <1>3, <1>4, <1>5 DEF TypeOK, Crash, temporalVars

LEMMA SubmitTypes ==
    ASSUME TypeOK, NEW s \in Submits, Start(s) \/ Save(s)
    PROVE  TypeOK'
<1>1. faults' \in Nat
  BY FaultsCount DEF Next
<1>2. CASE Start(s)
  BY <1>1, <1>2 DEF Start, TypeOK, storeVars, historyVars
<1>3. CASE Save(s)
  <2>1. row' \in Rows \cup {None}
    BY <1>3, NewRow DEF Save, TypeOK
  <2>2. watch' \in [Submits -> Watching]
    BY <1>3, WatchMoves DEF Save, WatchFrom, TypeOK
  <2>3. submit' \in [Submits -> {"idle", "save", "accepted", "refused"}]
    BY <1>3 DEF Save, TypeOK
  <2> QED
    BY <1>1, <1>3, <2>1, <2>2, <2>3 DEF Save, TypeOK, temporalVars, historyVars
<1> QED
  BY <1>2, <1>3

LEMMA WatcherTypes ==
    ASSUME TypeOK, Watches, NEW s \in Submits, Watcher(s)
    PROVE  TypeOK'
<1>1. faults' \in Nat
  BY FaultsCount DEF Next
<1>2. watch \in [Submits -> Watching] /\ s \in Callers
  BY DEF TypeOK, Callers
<1>3. CASE WatchWait(s)
  <2>1. watch' \in [Submits -> Watching]
    <3>1. ASSUME NEW n \in Nat, NEW pc \in {"done", "wait"}
          PROVE  [watch EXCEPT ![s].errors = n, ![s].pc = pc] \in [Submits -> Watching]
      BY <1>2 DEF Watching
    <3>2. [watch EXCEPT ![s].errors = 0] \in [Submits -> Watching]
      BY <1>2 DEF Watching
    <3>3. watch[s].errors + 1 \in Nat
      BY <1>2 DEF Watching
    <3>4. CASE watch' = [watch EXCEPT ![s].errors = 0]
      BY <3>2, <3>4
    <3>5. CASE WatchTo(s, "update")
      BY <1>2, <3>5, WatchMoves DEF WatchTo
    <3>6. CASE watch' = [watch EXCEPT ![s].errors = watch[s].errors + 1,
                                      ![s].pc = IF watch[s].errors + 1 >= MaxErrors
                                                  THEN "done" ELSE "wait"]
      BY <3>1, <3>3, <3>6
    <3> QED
      BY <1>3, <3>4, <3>5, <3>6 DEF WatchWait
  <2>2. spoilt' \subseteq {"blind", "late", "unwatched"}
    BY <1>3 DEF WatchWait, TypeOK
  <2> QED
    BY <1>1, <1>3, <2>1, <2>2 DEF WatchWait, TypeOK, temporalVars, storeVars
<1>4. CASE WatchUpdate(s)
  <2>1. row' \in Rows \cup {None}
    <3>1. wf \in Terminal \cup {"RUNNING", "PAUSED"}
      BY <1>4 DEF WatchUpdate, Watches, Together, Closed
    <3>2. row \in Rows \cup {None}
      BY DEF TypeOK
    <3> QED
      BY <1>4, <3>1, <3>2, MarkedRow DEF WatchUpdate
  <2>2. watch' \in [Submits -> Watching] /\ call' \in [Callers -> Asking]
    BY <1>2, <1>4, WatchMoves, IdleAsks DEF WatchUpdate, WatchTo, TypeOK
  <2> QED
    BY <1>1, <1>4, <2>1, <2>2 DEF WatchUpdate, TypeOK, temporalVars, historyVars
<1>5. CASE WatchCheck(s)
  <2>1. ASSUME NEW n \in Nat
        PROVE  [watch EXCEPT ![s].attempts = n, ![s].pc = "status"] \in [Submits -> Watching]
    BY <1>2 DEF Watching
  <2>2. watch[s].attempts + 1 \in Nat
    BY <1>2 DEF Watching
  <2>3. watch' \in [Submits -> Watching]
    <3>1. CASE watch' = [watch EXCEPT ![s].attempts = @ + 1, ![s].pc = "status"]
      <4>1. watch' = [watch EXCEPT ![s].attempts = watch[s].attempts + 1, ![s].pc = "status"]
        BY <1>2, <3>1
      <4> QED
        BY <2>1, <2>2, <4>1
    <3>2. CASE WatchTo(s, "done")
      BY <1>2, <3>2, WatchMoves DEF WatchTo
    <3> QED
      BY <1>5, <3>1, <3>2 DEF WatchCheck
  <2>4. call' \in [Callers -> Asking]
    BY <1>2, <1>5, IdleAsks DEF WatchCheck, TypeOK
  <2> QED
    BY <1>1, <1>5, <2>3, <2>4 DEF WatchCheck, TypeOK, temporalVars, storeVars, historyVars
<1> QED
  BY <1>3, <1>4, <1>5 DEF Watcher

LEMMA ClientTypes ==
    ASSUME TypeOK, Watches, AfterEnd, NEW c \in Callers, Ask(c) \/ GetTaskStatus(c)
    PROVE  TypeOK'
<1>1. faults' \in Nat
  BY FaultsCount DEF Next
<1>2. /\ call \in [Callers -> Asking] /\ watch \in [Submits -> Watching]
      /\ told \in {None, "RUNNING", "PAUSED", "UNSPECIFIED"} \cup Terminal
      /\ calls \in Nat /\ row \in Rows \cup {None} /\ queue \in [BOOLEAN -> Nat]
      /\ text \in BOOLEAN
  BY DEF TypeOK
<1>3. ASSUME NEW st \in {"RUNNING", "PAUSED", "UNSPECIFIED"} \cup Terminal, Returned(c, st)
      PROVE  /\ call' \in [Callers -> Asking] /\ watch' \in [Submits -> Watching]
             /\ told' \in {None, "RUNNING", "PAUSED", "UNSPECIFIED"} \cup Terminal
  BY <1>2, <1>3, IdleAsks, WatchMoves DEF Returned, Answer
<1>4. ASSUME Failed(c)
      PROVE  call' \in [Callers -> Asking] /\ watch' \in [Submits -> Watching]
  BY <1>2, <1>4, IdleAsks, WatchMoves DEF Failed
<1>5. ASSUME NEW pc \in {"fetch", "store"}
      PROVE  [call EXCEPT ![c].pc = pc] \in [Callers -> Asking]
  BY <1>2 DEF Asking
<1>6. CASE Ask(c)
  <2>1. call' \in [Callers -> Asking] /\ calls' \in Nat
    <3>1. [Idle EXCEPT !.pc = "describe", !.after = (told # None)] \in Asking
      BY IdleAsks
    <3> QED
      BY <1>2, <1>6, <3>1 DEF Ask
  <2> QED
    BY <1>6, <2>1 DEF Ask, TypeOK, temporalVars, storeVars, historyVars
<1>7. CASE Describe(c)
  <2>1. /\ call' \in [Callers -> Asking] /\ watch' \in [Submits -> Watching]
        /\ told' \in {None, "RUNNING", "PAUSED", "UNSPECIFIED"} \cup Terminal
    <3>1. CASE Closed /\ UNCHANGED <<watch, told>>
               /\ call' = [call EXCEPT ![c].pc = IF wf = "COMPLETED" THEN "fetch" ELSE "store"]
      BY <1>2, <1>5, <3>1
    <3>2. CASE Returned(c, IF paused THEN "PAUSED" ELSE "RUNNING")
      BY <1>3, <3>2
    <3>3. CASE Returned(c, Reported(row)) /\ row # None
      <4>1. Reported(row) \in {"RUNNING", "PAUSED", "UNSPECIFIED"} \cup Terminal
        BY <1>2, <3>3 DEF Reported, Rows
      <4> QED
        BY <1>3, <3>3, <4>1
    <3>4. CASE Failed(c)
      BY <1>2, <1>4, <3>4 DEF Failed
    <3> QED
      BY <1>7, <3>1, <3>2, <3>3, <3>4 DEF Describe
  <2> QED
    BY <1>1, <1>7, <2>1 DEF Describe, TypeOK, temporalVars, storeVars
<1>8. CASE Fetch(c)
  <2>1. [call EXCEPT ![c].pc = "store", ![c].text = text] \in [Callers -> Asking]
    BY <1>2 DEF Asking
  <2>2. call' \in [Callers -> Asking]
    BY <1>5, <1>8, <2>1 DEF Fetch
  <2> QED
    BY <1>1, <1>8, <2>2 DEF Fetch, TypeOK, temporalVars, storeVars, historyVars
<1>9. CASE Store(c)
  <2>1. wf \in Terminal
    BY <1>9 DEF Store, AfterEnd, Closed
  <2>2. queue' \in [BOOLEAN -> Nat]
    <3>1. \A b \in BOOLEAN : queue[b] + 1 \in Nat
      BY <1>2
    <3> QED
      BY <1>2, <1>9, <3>1 DEF Store
  <2> QED
    BY <1>1, <1>3, <1>9, <2>1, <2>2 DEF Store, TypeOK, temporalVars, boundVars
<1> QED
  BY <1>6, <1>7, <1>8, <1>9 DEF GetTaskStatus

LEMMA WriteTypes ==
    ASSUME TypeOK, AfterEnd, NEW b \in BOOLEAN, Write(b)
    PROVE  TypeOK'
<1>1. faults' \in Nat
  BY FaultsCount DEF Next
<1>2. queue' \in [BOOLEAN -> Nat]
  <2>1. queue \in [BOOLEAN -> Nat] /\ queue[b] > 0
    BY DEF TypeOK, Write
  <2>2. queue[b] - 1 \in Nat
    BY <2>1
  <2> QED
    BY <2>1, <2>2 DEF Write
<1>3. row' \in Rows \cup {None}
  <2>1. row \in Rows \cup {None} /\ Closed
    BY DEF TypeOK, AfterEnd, Write
  <2> QED
    BY <2>1, ClosedRow DEF Write
<1>4. spoilt' \subseteq {"blind", "late", "unwatched"}
  BY DEF Write, TypeOK
<1> QED
  BY <1>1, <1>2, <1>3, <1>4 DEF Write, TypeOK, temporalVars, callVars

LEMMA ControlTypes ==
    ASSUME TypeOK, [Next]_vars, NEW c \in Controls,
           \/ \E op \in {"pause", "resume", "cancel"} : Validate(c, op)
           \/ Signal(c) \/ RequestCancel(c)
           \/ \E s \in {"PAUSED", "RUNNING"} : Mark(c, s)
    PROVE  TypeOK'
<1>1. faults' \in Nat
  BY FaultsCount
<1>2. ASSUME NEW op \in {"pause", "resume", "cancel"}, Validate(c, op)
      PROVE  TypeOK'
  <2>1. calls' \in Nat
    <3>1. calls \in Nat
      BY DEF TypeOK
    <3> QED
      BY <1>2, <3>1 DEF Validate
  <2> QED
    BY <1>2, <2>1 DEF Validate, TypeOK, temporalVars, storeVars, historyVars
<1>3. CASE Signal(c)
  <2>1. control \in [Controls -> {"idle", "pause", "resume", "cancel", "mark PAUSED",
                                  "mark RUNNING", "request"}]
    BY DEF TypeOK
  <2>2. control' \in [Controls -> {"idle", "pause", "resume", "cancel", "mark PAUSED",
                                   "mark RUNNING", "request"}]
    BY <1>3, <2>1 DEF Signal
  <2>3. signals' \subseteq {"pause", "resume", "cancel"}
    BY <1>3 DEF Signal, TypeOK
  <2> QED
    BY <1>1, <1>3, <2>2, <2>3 DEF Signal, TypeOK, storeVars, historyVars
<1>4. CASE RequestCancel(c)
  BY <1>1, <1>4 DEF RequestCancel, TypeOK, storeVars, historyVars
<1>5. ASSUME NEW s \in {"PAUSED", "RUNNING"}, Mark(c, s)
      PROVE  TypeOK'
  <2>1. row' \in Rows \cup {None}
    <3>1. row \in Rows \cup {None}
      BY DEF TypeOK
    <3>2. row # None => [row EXCEPT !.status = s] \in Rows
      BY <3>1, MarkedRow
    <3> QED
      BY <1>5, <3>1, <3>2 DEF Mark
  <2> QED
    BY <1>1, <1>5, <2>1 DEF Mark, TypeOK, temporalVars
<1> QED
  BY <1>2, <1>3, <1>4, <1>5

LEMMA TypeStep ==
    ASSUME TypeOK, Watches, AfterEnd, [Next]_vars
    PROVE  TypeOK'
<1>1. CASE UNCHANGED vars
  BY <1>1 DEF TypeOK, vars, temporalVars, storeVars, callVars, boundVars, historyVars
<1> QED
  BY <1>1, WorkflowTypes, CrashTypes, SubmitTypes, WatcherTypes, ClientTypes, WriteTypes,
     ControlTypes DEF Next

-----------------------------------------------------------------------------
(* Watchers.                                                                *)

(* Steps that leave the watchers, their submits and their calls alone.      *)
Apart == UNCHANGED <<submit, watch>> /\ \A s \in Submits : call'[s] = call[s]

LEMMA ClosedStays ==
    ASSUME Closed, [Next]_vars
    PROVE  Closed' /\ wf' = wf /\ text' = text
<1>1. wf' = wf /\ text' = text
  <2>1. wf \notin {"none", "RUNNING"}
    BY DEF Closed, Terminal
  <2>2. ASSUME NEW s \in Submits, Start(s)
        PROVE  wf' = wf /\ text' = text
    BY <2>1, <2>2 DEF Start
  <2>3. CASE Workflow \/ Expire
    BY <2>1, <2>3 DEF Workflow, TakeSignal, End, Expire
  <2>4. CASE Crash
    BY <2>4 DEF Crash, temporalVars
  <2>5. ASSUME NEW s \in Submits, Save(s) \/ Watcher(s)
        PROVE  wf' = wf /\ text' = text
    BY <2>5 DEF Save, Watcher, WatchWait, WatchUpdate, WatchCheck, temporalVars
  <2>6. ASSUME NEW c \in Callers, Ask(c) \/ GetTaskStatus(c)
        PROVE  wf' = wf /\ text' = text
    BY <2>6 DEF Ask, GetTaskStatus, Describe, Fetch, Store, temporalVars
  <2>7. ASSUME NEW b \in BOOLEAN, Write(b)
        PROVE  wf' = wf /\ text' = text
    BY <2>7 DEF Write, temporalVars
  <2>8. ASSUME NEW c \in Controls,
               \/ \E op \in {"pause", "resume", "cancel"} : Validate(c, op)
               \/ Signal(c) \/ RequestCancel(c)
               \/ \E s \in {"PAUSED", "RUNNING"} : Mark(c, s)
        PROVE  wf' = wf /\ text' = text
    BY <2>8 DEF Validate, Signal, RequestCancel, Mark, temporalVars
  <2>9. CASE UNCHANGED vars
    BY <2>9 DEF vars, temporalVars
  <2> QED
    BY <2>2, <2>3, <2>4, <2>5, <2>6, <2>7, <2>8, <2>9 DEF Next
<1> QED
  BY <1>1 DEF Closed

(* It keeps the watchers together that some step leaves them alone.         *)
LEMMA ApartTogether ==
    ASSUME Watches, Closed => Closed', Apart
    PROVE  Watches'
BY DEF Watches, Together, Apart

LEMMA PollsApart ==
    ASSUME NEW c \in Polls
    PROVE  c \notin Submits /\ c \in Callers
BY ServiceAssumption DEF Callers

LEMMA WatchesStep ==
    ASSUME TypeOK, Watches, [Next]_vars
    PROVE  Watches'
<1>1. Closed => Closed'
  BY ClosedStays
<1>2. watch \in [Submits -> Watching] /\ call \in [Callers -> Asking] /\ Submits \subseteq Callers
  BY DEF TypeOK, Callers
<1>3. ASSUME Workflow \/ Expire \/ (\E b \in BOOLEAN : Write(b)) \/ UNCHANGED vars
      PROVE  Watches'
  <2>1. Apart
    BY <1>3 DEF Apart, Workflow, TakeSignal, End, Expire, Write, vars, callVars
  <2> QED
    BY <1>1, <2>1, ApartTogether
<1>4. CASE Crash
  <2>1. SUFFICES ASSUME NEW s \in Submits
                 PROVE  Together(s)'
    BY DEF Watches
  <2>2. Together(s)
    BY DEF Watches
  <2>3. call'[s].pc = "idle" /\ call'[s].after = FALSE
    BY <1>2, <1>4 DEF Crash, Idle
  <2>4. watch[s] \in Watching
    BY <1>2
  <2>5. CASE watch[s].pc = "off" /\ submit[s] # "save"
    <3>1. watch'[s] = watch[s] /\ submit'[s] = submit[s]
      BY <1>4, <2>5 DEF Crash
    <3> QED
      BY <2>2, <2>3, <2>5, <3>1 DEF Together
  <2>6. CASE ~(watch[s].pc = "off" /\ submit[s] # "save")
    <3>1. watch'[s].pc = "done"
      BY <1>4, <2>4, <2>6 DEF Crash, Watching
    <3>2. submit'[s] \notin {"idle", "save"}
      BY <1>4, <2>2, <2>6 DEF Crash, Together
    <3> QED
      BY <2>3, <3>1, <3>2 DEF Together
  <2> QED
    BY <2>5, <2>6
<1>5. ASSUME NEW r \in Submits, Start(r) \/ Save(r) \/ Watcher(r)
      PROVE  Watches'
  <2>1. SUFFICES ASSUME NEW s \in Submits
                 PROVE  Together(s)'
    BY DEF Watches
  <2>2. Together(s) /\ Together(r)
    BY DEF Watches
  <2>3. watch[s] \in Watching /\ call[s] \in Asking /\ submit \in [Submits -> {"idle", "save", "accepted", "refused"}]
    BY <1>2 DEF TypeOK
  <2>4. CASE s # r
    <3>1. watch'[s] = watch[s] /\ call'[s] = call[s] /\ submit'[s] = submit[s]
      BY <1>2, <1>5, <2>3, <2>4 DEF Start, Save, WatchFrom, Watcher, WatchWait, WatchUpdate, WatchCheck,
                    WatchTo
    <3> QED
      BY <1>1, <2>2, <3>1 DEF Together
  <2>5. CASE s = r /\ Start(s)
    BY <1>1, <2>2, <2>3, <2>5 DEF Start, Together
  <2>6. CASE s = r /\ Save(s)
    <3>1. watch'[s].pc = "wait" /\ watch'[s].attempts = watch[s].attempts
      BY <1>2, <2>3, <2>6 DEF Save, WatchFrom, Watching
    <3>2. submit'[s] = "accepted" /\ call' = call
      BY <2>3, <2>6 DEF Save
    <3>3. submit[s] = "save"
      BY <2>6 DEF Save
    <3> QED
      BY <1>1, <2>2, <3>1, <3>2, <3>3 DEF Together
  <2>7. CASE s = r /\ WatchWait(s)
    <3>1. call' = call /\ submit' = submit /\ watch[s].pc = "wait"
      BY <2>7 DEF WatchWait
    <3>2. /\ watch'[s].pc \in {"update", "wait", "done"}
          /\ watch'[s].attempts = watch[s].attempts
          /\ watch'[s].pc = "update" => Closed
      BY <1>2, <2>3, <2>7, <3>1 DEF WatchWait, WatchTo, Watching
    <3> QED
      BY <1>1, <2>2, <3>1, <3>2 DEF Together
  <2>8. CASE s = r /\ WatchUpdate(s)
    <3>1. watch'[s].pc = "status" /\ watch'[s].attempts = watch[s].attempts
      BY <1>2, <2>3, <2>8 DEF WatchUpdate, WatchTo, Watching
    <3>2. call'[s].pc = "describe" /\ call'[s].after = FALSE /\ submit' = submit
      BY <1>2, <2>8 DEF WatchUpdate, Idle
    <3>3. watch[s].pc = "update"
      BY <2>8 DEF WatchUpdate
    <3> QED
      BY <1>1, <2>2, <3>1, <3>2, <3>3 DEF Together
  <2>9. CASE s = r /\ WatchCheck(s)
    <3>1. watch[s].pc = "check" /\ submit' = submit
      BY <2>9 DEF WatchCheck
    <3>2. CASE watch' = [watch EXCEPT ![s].pc = "done"] /\ call' = call
      <4>1. watch'[s].pc = "done"
        BY <1>2, <2>3, <3>2 DEF Watching
      <4> QED
        BY <2>2, <3>1, <3>2, <4>1 DEF Together
    <3>3. CASE /\ watch' = [watch EXCEPT ![s].attempts = @ + 1, ![s].pc = "status"]
               /\ call' = [call EXCEPT ![s] = [Idle EXCEPT !.pc = "describe"]]
      <4>1. watch'[s].pc = "status"
        BY <1>2, <2>3, <3>3 DEF Watching
      <4>2. call'[s].pc = "describe" /\ call'[s].after = FALSE
        BY <1>2, <3>3 DEF Idle
      <4> QED
        BY <1>1, <2>2, <3>1, <4>1, <4>2 DEF Together
    <3> QED
      BY <2>9, <3>2, <3>3 DEF WatchCheck, WatchTo
  <2> QED
    BY <1>5, <2>4, <2>5, <2>6, <2>7, <2>8, <2>9 DEF Watcher
<1>6. ASSUME NEW c \in Polls, Ask(c) \/ GetTaskStatus(c)
      PROVE  Watches'
  <2>1. c \notin Submits
    BY PollsApart
  <2>2. Apart
    BY <1>2, <1>6, <2>1 DEF Apart, Ask, GetTaskStatus, Describe, Fetch, Store, Returned, Failed
  <2> QED
    BY <1>1, <2>2, ApartTogether
<1>7. ASSUME NEW r \in Submits, GetTaskStatus(r)
      PROVE  Watches'
  <2>1. SUFFICES ASSUME NEW s \in Submits
                 PROVE  Together(s)'
    BY DEF Watches
  <2>2. Together(s) /\ Together(r) /\ watch[s] \in Watching /\ call[s] \in Asking
    BY <1>2 DEF Watches
  <2>3. submit' = submit
    BY <1>7 DEF GetTaskStatus, Describe, Fetch, Store
  <2>4. CASE s # r
    <3>1. watch'[s] = watch[s] /\ call'[s] = call[s]
      BY <1>2, <1>7, <2>4 DEF GetTaskStatus, Describe, Fetch, Store, Returned, Failed
    <3> QED
      BY <1>1, <2>2, <2>3, <3>1 DEF Together
  <2>5. CASE s = r
    <3>1. call[s].pc # "idle"
      BY <1>7, <2>5 DEF GetTaskStatus, Describe, Fetch, Store
    <3>2. watch[s].pc = "status"
      BY <2>2, <3>1 DEF Together
    <3>3. ASSUME call' = [call EXCEPT ![s] = Idle], watch' = [watch EXCEPT ![s].pc = "check"]
          PROVE  Together(s)'
      <4>1. call'[s].pc = "idle" /\ call'[s].after = FALSE
        BY <1>2, <3>3 DEF Idle
      <4>2. watch'[s].pc = "check"
        BY <1>2, <2>2, <3>3 DEF Watching
      <4> QED
        BY <1>1, <2>2, <2>3, <3>2, <4>1, <4>2 DEF Together
    <3>4. ASSUME call'[s].pc # "idle", call'[s].after = call[s].after, watch' = watch
          PROVE  Together(s)'
      BY <1>1, <2>2, <2>3, <3>1, <3>4 DEF Together
    <3>5. CASE Describe(s)
      <4>1. ASSUME NEW st, Returned(s, st) PROVE Together(s)'
        BY <3>3, <4>1 DEF Returned
      <4>2. ASSUME Failed(s) PROVE Together(s)'
        BY <3>3, <4>2 DEF Failed
      <4>3. ASSUME NEW pc \in {"fetch", "store"}, call' = [call EXCEPT ![s].pc = pc], watch' = watch
            PROVE  Together(s)'
        BY <1>2, <2>2, <3>4, <4>3 DEF Asking
      <4> QED
        BY <3>5, <4>1, <4>2, <4>3 DEF Describe
    <3>6. CASE Fetch(s)
      BY <1>2, <2>2, <3>4, <3>6 DEF Fetch, Asking
    <3>7. CASE Store(s)
      BY <3>3, <3>7 DEF Store, Returned
    <3> QED
      BY <1>7, <2>5, <3>5, <3>6, <3>7 DEF GetTaskStatus
  <2> QED
    BY <2>4, <2>5
<1>8. ASSUME NEW c \in Controls,
             \/ \E op \in {"pause", "resume", "cancel"} : Validate(c, op)
             \/ Signal(c) \/ RequestCancel(c)
             \/ \E s \in {"PAUSED", "RUNNING"} : Mark(c, s)
      PROVE  Watches'
  <2>1. Apart
    BY <1>8 DEF Apart, Validate, Signal, RequestCancel, Mark
  <2> QED
    BY <1>1, <2>1, ApartTogether
<1>9. ASSUME NEW r \in Submits, Ask(r)
      PROVE  Watches'
  BY <1>9, PollsApart DEF Ask
<1> QED
  BY <1>3, <1>4, <1>5, <1>6, <1>7, <1>8, <1>9 DEF Next, Callers

-----------------------------------------------------------------------------
(* What is about the end comes after it, and nothing else comes after the   *)
(* retention.                                                               *)

LEMMA NoneIsNoStatus == None \notin {"RUNNING", "PAUSED", "UNSPECIFIED"} \cup Terminal
BY ServiceAssumption

(* A call that answers what it may: a poll that was told the end is told    *)
(* something again.                                                         *)
LEMMA AnswerKeeps ==
    ASSUME AfterEnd, NEW c \in Callers, NEW st \in {"RUNNING", "PAUSED", "UNSPECIFIED"} \cup Terminal,
           Answer(c, st), st \in Terminal => Closed
    PROVE  /\ told # None => told' # None
           /\ told' # None => Closed
<1>1. call[c].after = TRUE => told # None
  BY DEF AfterEnd
<1>2. told # None => Closed
  BY DEF AfterEnd
<1>3. st # None
  BY NoneIsNoStatus
<1>4. CASE c \in Polls /\ st \in Terminal
  BY <1>3, <1>4 DEF Answer
<1>5. CASE c \in Polls /\ st \notin Terminal /\ call[c].after
  BY <1>1, <1>2, <1>3, <1>5 DEF Answer
<1>6. CASE ~(c \in Polls /\ (st \in Terminal \/ call[c].after))
  <2>1. told' = told
    BY <1>6 DEF Answer
  <2> QED
    BY <1>2, <2>1
<1> QED
  BY <1>4, <1>5, <1>6

(* The parts of AfterEnd about calls that a step changes for one of them.   *)
Called(c) ==
    /\ call[c].pc \in {"fetch", "store"} => Closed
    /\ call[c].after = TRUE => told # None

LEMMA AfterEndFrom ==
    ASSUME AfterEnd, Closed => Closed',
           told # None => told' # None, told' # None => Closed',
           expired' => Closed',
           \A b \in BOOLEAN : queue'[b] > 0 => Closed',
           \A c \in Callers : call'[c] = call[c] \/ Called(c)'
    PROVE  AfterEnd'
BY DEF AfterEnd, Called

LEMMA AfterEndStep ==
    ASSUME TypeOK, Watches, AfterEnd, [Next]_vars
    PROVE  AfterEnd'
<1>1. Closed => Closed'
  BY ClosedStays
<1>2. call \in [Callers -> Asking] /\ Submits \subseteq Callers /\ Polls \subseteq Callers
      /\ queue \in [BOOLEAN -> Nat] /\ row \in Rows \cup {None}
  BY DEF TypeOK, Callers
<1>3. /\ \A c \in Callers : call[c].pc \in {"fetch", "store"} => Closed
      /\ \A b \in BOOLEAN : queue[b] > 0 => Closed
      /\ told # None => Closed
      /\ \A c \in Callers : call[c].after = TRUE => told # None
      /\ expired => Closed
  BY DEF AfterEnd
<1>4. ASSUME UNCHANGED <<call, queue, told>>, expired' => expired \/ Closed
      PROVE  AfterEnd'
  BY <1>1, <1>3, <1>4, AfterEndFrom
<1>5. ASSUME UNCHANGED <<queue, told, expired>>, NEW c \in Callers, Called(c)',
             \A d \in Callers : d # c => call'[d] = call[d]
      PROVE  AfterEnd'
  BY <1>1, <1>3, <1>5, AfterEndFrom
<1>6. CASE Workflow \/ Expire \/ UNCHANGED vars
  BY <1>4, <1>6 DEF Workflow, TakeSignal, End, Expire, vars, temporalVars, storeVars, callVars,
                    historyVars
<1>7. CASE Crash
  <2>1. \A c \in Callers : Called(c)'
    BY <1>7 DEF Crash, Called, Idle
  <2>2. UNCHANGED <<told, expired>> /\ \A b \in BOOLEAN : ~(queue'[b] > 0)
    BY <1>7 DEF Crash, temporalVars
  <2> QED
    BY <1>1, <1>3, <2>1, <2>2, AfterEndFrom
<1>8. ASSUME NEW s \in Submits, Start(s) \/ Save(s) \/ WatchWait(s)
      PROVE  AfterEnd'
  BY <1>4, <1>8 DEF Start, Save, WatchWait, temporalVars, storeVars, historyVars
<1>9. ASSUME NEW s \in Submits, WatchUpdate(s) \/ WatchCheck(s)
      PROVE  AfterEnd'
  <2>1. UNCHANGED <<queue, told, expired>>
    BY <1>9 DEF WatchUpdate, WatchCheck, temporalVars, storeVars, historyVars
  <2>2. CASE call' = call
    BY <1>4, <2>1, <2>2
  <2>3. CASE call' = [call EXCEPT ![s] = [Idle EXCEPT !.pc = "describe"]]
    <3>1. Called(s)'
      BY <1>2, <2>3 DEF Called, Idle
    <3>2. \A d \in Callers : d # s => call'[d] = call[d]
      BY <1>2, <2>3
    <3> QED
      BY <1>2, <1>5, <2>1, <3>1, <3>2
  <2> QED
    BY <1>9, <2>2, <2>3 DEF WatchUpdate, WatchCheck
<1>10. ASSUME NEW c \in Callers, Ask(c)
       PROVE  AfterEnd'
  <2>1. UNCHANGED <<queue, told, expired>> /\ \A d \in Callers : d # c => call'[d] = call[d]
    BY <1>2, <1>10 DEF Ask, temporalVars, storeVars, historyVars
  <2>2. call'[c] = [Idle EXCEPT !.pc = "describe", !.after = (told # None)]
    BY <1>2, <1>10 DEF Ask
  <2>3. Called(c)'
    BY <2>1, <2>2 DEF Called, Idle
  <2> QED
    BY <1>5, <2>1, <2>3
<1>11. ASSUME NEW c \in Callers, call' = [call EXCEPT ![c] = Idle], told # None => told' # None,
              told' # None => Closed, expired' = expired,
              \A b \in BOOLEAN : queue'[b] > 0 => Closed
       PROVE  AfterEnd'
  <2>1. Called(c)' /\ \A d \in Callers : d # c => call'[d] = call[d]
    BY <1>2, <1>11 DEF Called, Idle
  <2> QED
    BY <1>1, <1>3, <1>11, <2>1, AfterEndFrom
<1>12. ASSUME NEW c \in Callers, NEW st \in {"RUNNING", "PAUSED", "UNSPECIFIED"} \cup Terminal,
              Returned(c, st), st \in Terminal => Closed, expired' = expired,
              \A b \in BOOLEAN : queue'[b] > 0 => Closed
       PROVE  AfterEnd'
  BY <1>11, <1>12, AnswerKeeps DEF Returned
<1>13. ASSUME NEW c \in Callers, Describe(c)
       PROVE  AfterEnd'
  <2>1. UNCHANGED <<queue, expired>>
    BY <1>13 DEF Describe, temporalVars, storeVars
  <2>2. CASE /\ Closed /\ UNCHANGED <<watch, told>>
             /\ call' = [call EXCEPT ![c].pc = IF wf = "COMPLETED" THEN "fetch" ELSE "store"]
    <3>1. call'[c].after = call[c].after /\ \A d \in Callers : d # c => call'[d] = call[d]
      BY <1>2, <2>2 DEF Asking
    <3>2. Called(c)'
      BY <1>1, <1>3, <2>2, <3>1 DEF Called
    <3> QED
      BY <1>5, <2>1, <2>2, <3>1, <3>2
  <2>3. CASE ~Closed /\ Returned(c, IF paused THEN "PAUSED" ELSE "RUNNING")
    <3>1. (IF paused THEN "PAUSED" ELSE "RUNNING") \in {"RUNNING", "PAUSED"}
      OBVIOUS
    <3> QED
      BY <1>3, <1>12, <2>1, <2>3, <3>1 DEF Terminal
  <2>4. CASE expired /\ row # None /\ Returned(c, Reported(row))
    <3>1. Reported(row) \in {"UNSPECIFIED"} \cup Terminal
      BY <1>2, <2>4 DEF Reported, Rows
    <3> QED
      BY <1>3, <1>12, <2>1, <2>4, <3>1
  <2>5. CASE Failed(c)
    BY <1>3, <1>11, <2>1, <2>5 DEF Failed
  <2> QED
    BY <1>13, <2>2, <2>3, <2>4, <2>5 DEF Describe
<1>14. ASSUME NEW c \in Callers, Fetch(c)
       PROVE  AfterEnd'
  <2>1. UNCHANGED <<queue, told, expired>> /\ \A d \in Callers : d # c => call'[d] = call[d]
    BY <1>2, <1>14 DEF Fetch, temporalVars, storeVars, historyVars
  <2>2. call'[c].after = call[c].after
    BY <1>2, <1>14 DEF Fetch, Asking
  <2>3. Closed
    BY <1>3, <1>14 DEF Fetch
  <2>4. Called(c)'
    BY <1>1, <1>3, <2>1, <2>2, <2>3 DEF Called
  <2> QED
    BY <1>5, <2>1, <2>4
<1>15. ASSUME NEW c \in Callers, Store(c)
       PROVE  AfterEnd'
  <2>1. Closed /\ expired' = expired /\ Returned(c, wf)
    BY <1>3, <1>15 DEF Store, temporalVars
  <2>2. wf \in Terminal
    BY <2>1 DEF Closed
  <2> QED
    BY <1>12, <2>1, <2>2
<1>16. ASSUME NEW b \in BOOLEAN, Write(b)
       PROVE  AfterEnd'
  <2>1. Closed /\ UNCHANGED <<call, told, expired>>
    BY <1>3, <1>16 DEF Write, temporalVars, callVars
  <2> QED
    BY <1>1, <1>3, <2>1, AfterEndFrom
<1>17. ASSUME NEW c \in Controls,
              \/ \E op \in {"pause", "resume", "cancel"} : Validate(c, op)
              \/ Signal(c) \/ RequestCancel(c)
              \/ \E s \in {"PAUSED", "RUNNING"} : Mark(c, s)
       PROVE  AfterEnd'
  BY <1>4, <1>17 DEF Validate, Signal, RequestCancel, Mark, temporalVars, storeVars, historyVars
<1> QED
  BY <1>6, <1>7, <1>8, <1>9, <1>10, <1>13, <1>14, <1>15, <1>16, <1>17
     DEF Next, Watcher, GetTaskStatus

(* What may still happen once Temporal has forgotten the workflow.          *)
LEMMA OverSteps ==
    ASSUME TypeOK, AfterEnd, Over, expired, [Next]_vars
    PROVE  \/ \E c \in Callers : Ask(c) \/ Describe(c)
           \/ Crash \/ UNCHANGED vars
<1>1. Closed /\ wf \notin {"none", "RUNNING"}
  BY DEF AfterEnd, Closed, Terminal
<1>2. /\ \A s \in Submits : submit[s] # "save" /\ watch[s].pc \in {"off", "done"}
      /\ \A c \in Callers : call[c].pc \in {"idle", "describe"}
      /\ \A c \in Controls : control[c] = "idle"
      /\ \A b \in BOOLEAN : queue[b] = 0
  BY DEF Over
<1>3. ~Workflow /\ ~Expire
  BY <1>1 DEF Workflow, TakeSignal, End, Expire
<1>4. \A s \in Submits : ~Start(s) /\ ~Save(s) /\ ~Watcher(s)
  BY <1>1, <1>2 DEF Start, Save, Watcher, WatchWait, WatchUpdate, WatchCheck
<1>5. \A c \in Callers : ~Fetch(c) /\ ~Store(c)
  BY <1>2 DEF Fetch, Store
<1>6. \A b \in BOOLEAN : ~Write(b)
  BY <1>2 DEF Write
<1>7. \A c \in Controls :
          /\ \A op : ~Validate(c, op)
          /\ ~Signal(c) /\ ~RequestCancel(c)
          /\ \A s : ~Mark(c, s)
  BY <1>1, <1>2 DEF Validate, Signal, RequestCancel, Mark
<1> QED
  BY <1>3, <1>4, <1>5, <1>6, <1>7 DEF Next, GetTaskStatus

LEMMA OverStep ==
    ASSUME TypeOK, Watches, AfterEnd, Over, [Next]_vars
    PROVE  Over'
<1>1. CASE expired
  <2>1. /\ \A s \in Submits : submit[s] # "save" /\ watch[s].pc \in {"off", "done"}
        /\ \A c \in Callers : call[c].pc \in {"idle", "describe"}
        /\ \A c \in Controls : control[c] = "idle"
        /\ \A b \in BOOLEAN : queue[b] = 0
    BY <1>1 DEF Over
  <2>2. call \in [Callers -> Asking] /\ watch \in [Submits -> Watching]
        /\ submit \in [Submits -> {"idle", "save", "accepted", "refused"}]
    BY DEF TypeOK
  <2>3. ASSUME NEW c \in Callers, Ask(c)
        PROVE  Over'
    <3>1. \A d \in Callers : call'[d].pc \in {"idle", "describe"}
      BY <2>1, <2>2, <2>3 DEF Ask, Idle
    <3> QED
      BY <2>1, <2>3, <3>1 DEF Over, Ask, storeVars
  <2>4. ASSUME NEW c \in Callers, Describe(c)
        PROVE  Over'
    <3>1. c \notin Submits
      <4>1. call[c].pc # "idle"
        BY <2>4 DEF Describe
      <4> QED
        BY <2>1, <4>1 DEF Watches, Together
    <3>2. call' = [call EXCEPT ![c] = Idle] /\ watch' = watch
      BY <1>1, <2>4, <3>1 DEF Describe, Returned, Failed
    <3>3. \A d \in Callers : call'[d].pc \in {"idle", "describe"}
      BY <2>1, <2>2, <3>2 DEF Idle
    <3> QED
      BY <2>1, <2>4, <3>2, <3>3 DEF Over, Describe, storeVars
  <2>5. CASE Crash
    <3>1. \A s \in Submits : submit'[s] # "save"
      BY <2>1, <2>5 DEF Crash
    <3>2. \A s \in Submits : watch'[s].pc \in {"off", "done"}
      BY <2>1, <2>2, <2>5 DEF Crash, Watching
    <3>3. \A c \in Callers : call'[c].pc = "idle"
      BY <2>5 DEF Crash, Idle
    <3>4. \A c \in Controls : control'[c] = "idle"
      BY <2>5 DEF Crash
    <3>5. \A b \in BOOLEAN : queue'[b] = 0
      BY <2>5 DEF Crash
    <3> QED
      BY <3>1, <3>2, <3>3, <3>4, <3>5 DEF Over
  <2>6. CASE UNCHANGED vars
    BY <2>1, <2>6 DEF Over, vars, callVars, storeVars
  <2> QED
    BY <1>1, <2>3, <2>4, <2>5, <2>6, OverSteps
<1>2. CASE ~expired
  <2>1. CASE expired'
    <3>1. Expire
      <4>1. ASSUME UNCHANGED expired PROVE FALSE
        BY <1>2, <2>1, <4>1
      <4>2. ASSUME NEW s \in Submits PROVE ~Start(s) /\ ~Save(s) /\ ~Watcher(s)
        BY <4>1 DEF Start, Save, Watcher, WatchWait, WatchUpdate, WatchCheck, temporalVars
      <4>3. ASSUME NEW c \in Callers PROVE ~Ask(c) /\ ~GetTaskStatus(c)
        BY <4>1 DEF Ask, GetTaskStatus, Describe, Fetch, Store, temporalVars
      <4>4. ASSUME NEW c \in Controls
            PROVE  /\ \A op : ~Validate(c, op)
                   /\ ~Signal(c) /\ ~RequestCancel(c)
                   /\ \A s : ~Mark(c, s)
        BY <4>1 DEF Validate, Signal, RequestCancel, Mark, temporalVars
      <4>5. ~Workflow /\ ~Crash /\ (\A b \in BOOLEAN : ~Write(b)) /\ ~UNCHANGED vars
        BY <4>1 DEF Workflow, TakeSignal, End, Crash, Write, vars, temporalVars
      <4> QED
        BY <4>2, <4>3, <4>4, <4>5 DEF Next
    <3> QED
      BY <3>1 DEF Expire, Quiet, Over, storeVars, callVars
  <2>2. CASE ~expired'
    BY <2>2 DEF Over
  <2> QED
    BY <2>1, <2>2
<1> QED
  BY <1>1, <1>2

-----------------------------------------------------------------------------
(* The row.                                                                 *)

(* What a step makes of the row.                                            *)
RowKept == /\ row' = row
           /\ spoilt \cap {"late", "blind"} \subseteq spoilt'

RowSet(t) == /\ row' = IF row = None THEN None ELSE [row EXCEPT !.status = t]
             /\ spoilt \cap {"late", "blind"} \subseteq spoilt'

RowNew == row' = [status |-> "RUNNING", result |-> "unset"] /\ UNCHANGED spoilt

RowWritten(b) == /\ Closed
                 /\ row' = [status |-> wf, result |-> IF b THEN "full" ELSE "empty"]
                 /\ spoilt' = IF b = text THEN {} ELSE spoilt \cup {"blind"}

RowCases ==
    \/ RowKept
    \/ RowSet(wf)
    \/ (\E t \in {"PAUSED", "RUNNING"} : RowSet(t) /\ (Closed => "late" \in spoilt'))
    \/ RowNew
    \/ \E b \in BOOLEAN : RowWritten(b)

LEMMA StepRow ==
    ASSUME AfterEnd, [Next]_vars
    PROVE  RowCases
<1>1. UNCHANGED <<row, spoilt>> => RowKept
  BY DEF RowKept
<1>2. CASE Workflow \/ Expire \/ UNCHANGED vars
  BY <1>1, <1>2 DEF RowCases, Workflow, TakeSignal, End, Expire, vars, storeVars, historyVars
<1>3. CASE Crash
  BY <1>3 DEF RowCases, RowKept, Crash
<1>4. ASSUME NEW s \in Submits, Start(s)
      PROVE  RowCases
  BY <1>1, <1>4 DEF RowCases, Start, storeVars, historyVars
<1>5. ASSUME NEW s \in Submits, Save(s)
      PROVE  RowCases
  BY <1>1, <1>5 DEF RowCases, RowNew, Save, historyVars
<1>6. ASSUME NEW s \in Submits, WatchWait(s)
      PROVE  RowCases
  BY <1>6 DEF RowCases, RowKept, WatchWait, storeVars
<1>7. ASSUME NEW s \in Submits, WatchUpdate(s)
      PROVE  RowCases
  <2>1. UNCHANGED spoilt
    BY <1>7 DEF WatchUpdate, historyVars
  <2>2. row' = row \/ (row # None /\ row' = [row EXCEPT !.status = wf])
    BY <1>7 DEF WatchUpdate
  <2> QED
    BY <1>1, <2>1, <2>2 DEF RowCases, RowSet
<1>8. ASSUME NEW s \in Submits, WatchCheck(s)
      PROVE  RowCases
  BY <1>1, <1>8 DEF RowCases, WatchCheck, storeVars, historyVars
<1>9. ASSUME NEW c \in Callers, Ask(c) \/ GetTaskStatus(c)
      PROVE  RowCases
  BY <1>1, <1>9 DEF RowCases, Ask, GetTaskStatus, Describe, Fetch, Store, storeVars, historyVars
<1>10. ASSUME NEW b \in BOOLEAN, Write(b)
       PROVE  RowCases
  <2>1. Closed
    BY <1>10 DEF AfterEnd, Write
  <2> QED
    BY <1>1, <1>10, <2>1 DEF RowCases, RowWritten, Write
<1>11. ASSUME NEW c \in Controls,
              \/ \E op \in {"pause", "resume", "cancel"} : Validate(c, op)
              \/ Signal(c) \/ RequestCancel(c)
       PROVE  RowCases
  BY <1>1, <1>11 DEF RowCases, Validate, Signal, RequestCancel, storeVars, historyVars
<1>12. ASSUME NEW c \in Controls, NEW t \in {"PAUSED", "RUNNING"}, Mark(c, t)
       PROVE  RowCases
  <2>1. CASE UNCHANGED <<row, spoilt>>
    BY <1>1, <2>1 DEF RowCases
  <2>2. CASE /\ row' = IF row = None THEN None ELSE [row EXCEPT !.status = t]
             /\ spoilt' = IF Closed THEN spoilt \cup {"late"} ELSE spoilt
    <3>1. RowSet(t) /\ (Closed => "late" \in spoilt')
      BY <2>2 DEF RowSet
    <3> QED
      BY <3>1 DEF RowCases
  <2> QED
    BY <1>12, <2>1, <2>2 DEF Mark
<1> QED
  BY <1>2, <1>3, <1>4, <1>5, <1>6, <1>7, <1>8, <1>9, <1>10, <1>11, <1>12 DEF Next, Watcher

LEMMA StatusSet ==
    ASSUME row \in Rows \cup {None}, NEW t \in {"none", "RUNNING", "PAUSED"} \cup Terminal, RowSet(t)
    PROVE  /\ row # None => row'.status = t /\ row'.result = row.result
           /\ HasResult' => HasResult
           /\ HasResult => row' \in [status : {t}, result : {"empty", "full"}]
BY DEF RowSet, Rows, HasResult

LEMMA RowRightStep ==
    ASSUME TypeOK, AfterEnd, RowRight, [Next]_vars
    PROVE  RowRight'
<1>1. row \in Rows \cup {None} /\ wf \in {"none", "RUNNING", "PAUSED"} \cup Terminal /\ text \in BOOLEAN
  BY DEF TypeOK
<1>2. Closed => Closed' /\ wf' = wf /\ text' = text
  BY ClosedStays
<1>3. HasResult => /\ Closed
                   /\ "late" \in spoilt \/ row.status = wf
                   /\ "blind" \in spoilt \/ (row.result = "full" <=> text)
  BY DEF RowRight
<1>4. CASE RowKept
  BY <1>2, <1>3, <1>4 DEF RowKept, RowRight, HasResult
<1>5. ASSUME NEW t \in {"none", "RUNNING", "PAUSED"} \cup Terminal, RowSet(t),
             Closed => t = wf \/ "late" \in spoilt'
      PROVE  RowRight'
  <2>1. SUFFICES ASSUME HasResult'
                 PROVE  /\ Closed'
                        /\ "late" \in spoilt' \/ row'.status = wf'
                        /\ "blind" \in spoilt' \/ (row'.result = "full" <=> text')
    BY DEF RowRight
  <2>2. HasResult /\ row # None
    BY <1>1, <1>5, <2>1, StatusSet DEF HasResult
  <2>3. row'.status = t /\ row'.result = row.result
    BY <1>1, <1>5, <2>2, StatusSet
  <2>4. spoilt \cap {"late", "blind"} \subseteq spoilt'
    BY <1>5 DEF RowSet
  <2> QED
    BY <1>2, <1>3, <1>5, <2>2, <2>3, <2>4
<1>6. CASE RowNew
  BY <1>6 DEF RowNew, RowRight, HasResult
<1>7. ASSUME NEW b \in BOOLEAN, RowWritten(b)
      PROVE  RowRight'
  <2>1. row'.status = wf /\ (row'.result = "full" <=> b)
    BY <1>7 DEF RowWritten
  <2>2. b = text \/ "blind" \in spoilt'
    BY <1>7 DEF RowWritten
  <2> QED
    BY <1>1, <1>2, <1>7, <2>1, <2>2 DEF RowRight, RowWritten
<1> QED
  BY <1>1, <1>4, <1>5, <1>6, <1>7, StepRow DEF RowCases

-----------------------------------------------------------------------------
(* Diligence.                                                               *)

LEMMA ExcusesCount ==
    ASSUME TypeOK
    PROVE  /\ Excuses \in Nat /\ faults \in Nat /\ QueuedFull \in Nat /\ QueuedEmpty \in Nat
           /\ \A s \in Submits : watch[s].attempts \in Nat /\ Tries(s) \in Nat
<1>1. faults \in Nat /\ queue \in [BOOLEAN -> Nat] /\ watch \in [Submits -> Watching]
  BY DEF TypeOK
<1>2. QueuedFull \in Nat /\ QueuedEmpty \in Nat
  BY <1>1 DEF QueuedFull, QueuedEmpty
<1>3. ASSUME NEW s \in Submits
      PROVE  watch[s].attempts \in Nat /\ Tries(s) \in Nat
  <2>1. watch[s].attempts \in Nat
    BY <1>1 DEF Watching
  <2> QED
    BY <2>1 DEF Tries
<1>4. Excuses \in Nat
  BY <1>1, <1>2 DEF Excuses
<1> QED
  BY <1>1, <1>2, <1>3, <1>4

LEMMA NextCount ==
    ASSUME TypeOK'
    PROVE  Excuses' \in Nat /\ faults' \in Nat /\ QueuedFull' \in Nat /\ QueuedEmpty' \in Nat
<1>1. faults' \in Nat /\ queue' \in [BOOLEAN -> Nat]
  BY DEF TypeOK
<1>2. QueuedFull' \in Nat /\ QueuedEmpty' \in Nat
  BY <1>1 DEF QueuedFull, QueuedEmpty
<1>3. \A x \in Nat, y \in Nat, z \in Nat : x + y + z \in Nat
  OBVIOUS
<1> QED
  BY <1>1, <1>2, <1>3 DEF Excuses

(* A submit whose watcher a step leaves alone is looked after as before.    *)
LEMMA LooksOn ==
    ASSUME TypeOK, TypeOK', NEW s \in Submits, LooksAfter(s),
           watch'[s] = watch[s], submit'[s] = submit[s], Excuses <= Excuses'
    PROVE  LooksAfter(s)'
<1>1. Tries(s)' = Tries(s)
  BY DEF Tries
<1>2. Tries(s) \in Nat /\ Excuses \in Nat /\ Excuses' \in Nat
  BY ExcusesCount, NextCount
<1> QED
  BY <1>1, <1>2 DEF LooksAfter

(* What happens to one submit keeps Diligence when it keeps that one so.    *)
LEMMA DiligenceOf ==
    ASSUME TypeOK, TypeOK', Diligence, NEW r \in Submits,
           wf' # "none" => wf # "none", "unwatched" \notin spoilt' => "unwatched" \notin spoilt,
           HasResult => HasResult', Excuses <= Excuses',
           \A s \in Submits : s # r => watch'[s] = watch[s] /\ submit'[s] = submit[s],
           LooksAfter(r) /\ "unwatched" \notin spoilt' /\ ~HasResult' => LooksAfter(r)'
    PROVE  Diligence'
<1>1. SUFFICES ASSUME wf' # "none", "unwatched" \notin spoilt', ~HasResult'
               PROVE  \E s \in Submits : LooksAfter(s)'
  BY DEF Diligence
<1>2. PICK s \in Submits : LooksAfter(s)
  BY <1>1 DEF Diligence
<1>3. CASE s = r
  BY <1>1, <1>2, <1>3
<1>4. CASE s # r
  BY <1>2, <1>4, LooksOn
<1> QED
  BY <1>3, <1>4

(* A step that touches no watcher keeps it.                                 *)
LEMMA StillDiligent ==
    ASSUME TypeOK, TypeOK', Diligence, UNCHANGED <<submit, watch>>,
           wf' # "none" => wf # "none", "unwatched" \notin spoilt' => "unwatched" \notin spoilt,
           HasResult => HasResult', Excuses <= Excuses'
    PROVE  Diligence'
<1>1. SUFFICES ASSUME wf' # "none", "unwatched" \notin spoilt', ~HasResult'
               PROVE  \E s \in Submits : LooksAfter(s)'
  BY DEF Diligence
<1>2. PICK s \in Submits : LooksAfter(s)
  BY <1>1 DEF Diligence
<1> QED
  BY <1>2, LooksOn

LEMMA ExcusesGrow ==
    ASSUME TypeOK, TypeOK', faults <= faults',
           QueuedFull <= QueuedFull', QueuedEmpty <= QueuedEmpty'
    PROVE  Excuses <= Excuses'
BY ExcusesCount, NextCount DEF Excuses

LEMMA ExcusesStay ==
    ASSUME TypeOK, TypeOK', Pays, UNCHANGED queue
    PROVE  Excuses <= Excuses'
<1>1. faults \in Nat /\ QueuedFull \in Nat /\ QueuedEmpty \in Nat
  BY ExcusesCount
<1>2. faults <= faults'
  BY <1>1 DEF Pays
<1>3. QueuedFull' = QueuedFull /\ QueuedEmpty' = QueuedEmpty
  BY DEF QueuedFull, QueuedEmpty
<1>4. QueuedFull <= QueuedFull' /\ QueuedEmpty <= QueuedEmpty'
  BY <1>1, <1>3
<1> QED
  BY <1>2, <1>4, ExcusesGrow

(* A step of the workflow, of a control call or of nobody.                  *)
LEMMA OtherDiligence ==
    ASSUME TypeOK, TypeOK', Pays, Diligence,
           \/ Workflow \/ Expire \/ UNCHANGED vars
           \/ \E c \in Controls :
                 \/ \E op \in {"pause", "resume", "cancel"} : Validate(c, op)
                 \/ Signal(c) \/ RequestCancel(c)
                 \/ \E s \in {"PAUSED", "RUNNING"} : Mark(c, s)
    PROVE  Diligence'
<1>1. UNCHANGED <<submit, watch, queue>>
  <2>1. CASE Workflow \/ Expire \/ UNCHANGED vars
    BY <2>1 DEF Workflow, TakeSignal, End, Expire, vars, callVars, storeVars
  <2>2. ASSUME NEW c \in Controls,
               \/ \E op \in {"pause", "resume", "cancel"} : Validate(c, op)
               \/ Signal(c) \/ RequestCancel(c)
               \/ \E s \in {"PAUSED", "RUNNING"} : Mark(c, s)
        PROVE  UNCHANGED <<submit, watch, queue>>
    BY <2>2 DEF Validate, Signal, RequestCancel, Mark, storeVars
  <2> QED
    BY <2>1, <2>2
<1>2. Excuses <= Excuses'
  BY <1>1, ExcusesStay
<1>3. wf' # "none" => wf # "none"
  <2>1. CASE Workflow \/ Expire \/ UNCHANGED vars
    BY <2>1 DEF Workflow, TakeSignal, End, Expire, vars, temporalVars
  <2>2. ASSUME NEW c \in Controls,
               \/ \E op \in {"pause", "resume", "cancel"} : Validate(c, op)
               \/ Signal(c) \/ RequestCancel(c)
               \/ \E s \in {"PAUSED", "RUNNING"} : Mark(c, s)
        PROVE  wf' = wf
    BY <2>2 DEF Validate, Signal, RequestCancel, Mark, temporalVars
  <2> QED
    BY <2>1, <2>2
<1>4. /\ "unwatched" \notin spoilt' => "unwatched" \notin spoilt
      /\ HasResult => HasResult'
  <2>1. ASSUME UNCHANGED <<row, spoilt>>
        PROVE  /\ "unwatched" \notin spoilt' => "unwatched" \notin spoilt
               /\ HasResult => HasResult'
    BY <2>1 DEF HasResult
  <2>2. CASE Workflow \/ Expire \/ UNCHANGED vars
    BY <2>1, <2>2 DEF Workflow, TakeSignal, End, Expire, vars, storeVars, historyVars
  <2>3. ASSUME NEW c \in Controls,
               \/ \E op \in {"pause", "resume", "cancel"} : Validate(c, op)
               \/ Signal(c) \/ RequestCancel(c)
        PROVE  UNCHANGED <<row, spoilt>>
    BY <2>3 DEF Validate, Signal, RequestCancel, storeVars, historyVars
  <2>4. ASSUME NEW c \in Controls, NEW t \in {"PAUSED", "RUNNING"}, Mark(c, t)
        PROVE  /\ "unwatched" \notin spoilt' => "unwatched" \notin spoilt
               /\ HasResult => HasResult'
    <3>1. spoilt' \in {spoilt, spoilt \cup {"late"}}
      BY <2>4 DEF Mark
    <3>2. CASE row' = row
      BY <3>1, <3>2 DEF HasResult
    <3>3. CASE row' = IF row = None THEN None ELSE [row EXCEPT !.status = t]
      <4>1. HasResult => HasResult'
        <5>1. SUFFICES ASSUME HasResult
                       PROVE  HasResult'
          OBVIOUS
        <5>2. row \in Rows
          BY <5>1 DEF HasResult, TypeOK
        <5>3. row' \in Rows /\ row'.result = row.result
          BY <3>3, <5>1, <5>2, MarkedRow DEF HasResult, Rows
        <5> QED
          BY <5>1, <5>3, ServiceAssumption DEF HasResult
      <4> QED
        BY <3>1, <4>1
    <3> QED
      BY <2>4, <3>2, <3>3 DEF Mark
  <2> QED
    BY <2>1, <2>2, <2>3, <2>4
<1> QED
  BY <1>1, <1>2, <1>3, <1>4, StillDiligent

LEMMA CrashDiligence ==
    ASSUME TypeOK, TypeOK', Diligence, Crash
    PROVE  Diligence'
<1>1. CASE Quiet
  <2>1. UNCHANGED <<wf, row, spoilt>>
    BY <1>1 DEF Crash, temporalVars
  <2>2. watch \in [Submits -> Watching] /\ submit \in [Submits -> {"idle", "save", "accepted", "refused"}]
        /\ queue \in [BOOLEAN -> Nat] /\ faults \in Nat
    BY DEF TypeOK
  <2>3. /\ \A s \in Submits : submit[s] # "save" /\ watch[s].pc \in {"off", "done"}
        /\ \A b \in BOOLEAN : queue[b] = 0
    BY <1>1 DEF Quiet
  <2>4. ASSUME NEW s \in Submits
        PROVE  watch'[s] = watch[s] /\ submit'[s] = submit[s]
    BY <2>2, <2>3 DEF Crash, Watching
  <2>5. faults' = faults + 1 /\ QueuedFull' = 0 /\ QueuedEmpty' = 0
    BY DEF Crash, Fails, QueuedFull, QueuedEmpty
  <2>6. Excuses <= Excuses'
    <3>1. faults <= faults'
      BY <2>2, <2>5
    <3>2. QueuedFull = 0 /\ QueuedEmpty = 0
      BY <2>3 DEF QueuedFull, QueuedEmpty
    <3>3. QueuedFull <= QueuedFull' /\ QueuedEmpty <= QueuedEmpty'
      BY <2>5, <3>2
    <3> QED
      BY <3>1, <3>3, ExcusesGrow
  <2>7. SUFFICES ASSUME wf' # "none", "unwatched" \notin spoilt', ~HasResult'
                 PROVE  \E s \in Submits : LooksAfter(s)'
    BY DEF Diligence
  <2>8. PICK s \in Submits : LooksAfter(s)
    BY <2>1, <2>7 DEF Diligence, HasResult
  <2> QED
    BY <2>4, <2>6, <2>8, LooksOn
<1>2. CASE ~Quiet
  BY <1>2 DEF Crash, Diligence
<1> QED
  BY <1>1, <1>2

LEMMA SubmitDiligence ==
    ASSUME TypeOK, TypeOK', Pays, Watches, Diligence, NEW r \in Submits, Start(r) \/ Save(r)
    PROVE  Diligence'
<1>1. CASE Start(r)
  <2>1. CASE submit' = [submit EXCEPT ![r] = "save"]
    BY <2>1 DEF Diligence, LooksAfter, TypeOK
  <2>2. CASE UNCHANGED wf
    <3>1. ~LooksAfter(r)
      BY <1>1 DEF Start, LooksAfter
    <3>2. UNCHANGED <<row, spoilt, queue, watch>> /\ (\A s \in Submits : s # r => submit'[s] = submit[s])
      BY <1>1 DEF Start, storeVars, historyVars, TypeOK
    <3>3. Excuses <= Excuses'
      BY <3>2, ExcusesStay
    <3> QED
      BY <2>2, <3>1, <3>2, <3>3, DiligenceOf DEF HasResult
  <2> QED
    BY <1>1, <2>1, <2>2 DEF Start
<1>2. CASE Save(r)
  <2>1. watch[r].attempts = 0
    BY <1>2 DEF Save, Watches, Together
  <2>2. watch'[r].pc = "wait" /\ watch'[r].attempts = 0 /\ submit'[r] = "accepted"
    <3>1. watch \in [Submits -> Watching] /\ submit \in [Submits -> {"idle", "save", "accepted", "refused"}]
      BY DEF TypeOK
    <3> QED
      BY <1>2, <2>1, <3>1 DEF Save, WatchFrom, Watching
  <2>3. Tries(r)' = 0
    BY <2>2 DEF Tries
  <2>4. LooksAfter(r)'
    <3>1. 0 <= Excuses'
      BY NextCount
    <3> QED
      BY <2>2, <2>3, <3>1 DEF LooksAfter
  <2> QED
    BY <2>4 DEF Diligence
<1> QED
  BY <1>1, <1>2

LEMMA WatcherDiligence ==
    ASSUME TypeOK, TypeOK', Pays, Watches, Diligence, NEW r \in Submits, Watcher(r)
    PROVE  Diligence'
<1>1. watch \in [Submits -> Watching] /\ UNCHANGED <<wf, submit, queue>>
  BY DEF TypeOK, Watcher, WatchWait, WatchUpdate, WatchCheck, temporalVars, storeVars
<1>2. \A s \in Submits : s # r => watch'[s] = watch[s] /\ submit'[s] = submit[s]
  BY <1>1 DEF Watcher, WatchWait, WatchUpdate, WatchCheck, WatchTo
<1>3. Excuses <= Excuses' /\ 0 <= Excuses'
  BY <1>1, ExcusesStay, NextCount
<1>4. /\ "unwatched" \notin spoilt' => "unwatched" \notin spoilt
      /\ HasResult => HasResult'
  <2>1. CASE WatchWait(r)
    BY <2>1 DEF WatchWait, HasResult, storeVars
  <2>2. CASE WatchCheck(r)
    BY <2>2 DEF WatchCheck, HasResult, storeVars, historyVars
  <2>3. CASE WatchUpdate(r)
    <3>1. spoilt' = spoilt
      BY <2>3 DEF WatchUpdate, historyVars
    <3>2. CASE row' = row
      BY <3>1, <3>2 DEF HasResult
    <3>3. CASE row # None /\ row' = [row EXCEPT !.status = wf]
      <4>1. row \in Rows /\ wf \in {"none", "RUNNING"} \cup Terminal
        BY <3>3 DEF TypeOK
      <4>2. Closed
        BY <2>3 DEF WatchUpdate, Watches, Together
      <4>3. row' \in Rows /\ row'.result = row.result
        BY <3>3, <4>1, <4>2 DEF Rows, Closed
      <4> QED
        BY <3>1, <4>3, ServiceAssumption DEF HasResult
    <3> QED
      BY <2>3, <3>2, <3>3 DEF WatchUpdate
  <2> QED
    BY <2>1, <2>2, <2>3 DEF Watcher
<1>5. SUFFICES ASSUME LooksAfter(r), "unwatched" \notin spoilt', ~HasResult'
               PROVE  LooksAfter(r)'
  BY <1>1, <1>2, <1>3, <1>4, DiligenceOf
<1>6. Together(r) /\ watch[r].attempts \in Nat /\ watch[r] \in Watching
  BY <1>1, ExcusesCount DEF Watches
<1>7. submit[r] = "accepted"
  <2>1. watch[r].pc # "off"
    BY DEF Watcher, WatchWait, WatchUpdate, WatchCheck
  <2> QED
    BY <1>5, <1>6, <2>1 DEF Together, LooksAfter
<1>8. CASE watch[r].attempts = 0 /\ watch'[r].pc \in {"wait", "update", "status"} /\ watch'[r].attempts = 0
  <2>1. Tries(r)' = 0
    BY <1>8 DEF Tries
  <2> QED
    BY <1>1, <1>3, <1>7, <1>8, <2>1 DEF LooksAfter
<1>9. CASE WatchWait(r)
  <2>1. watch[r].attempts = 0
    BY <1>6, <1>9 DEF WatchWait, Together
  <2>2. watch'[r].pc # "done"
    BY <1>5, <1>9 DEF WatchWait
  <2>3. watch'[r].pc \in {"wait", "update"} /\ watch'[r].attempts = watch[r].attempts
    <3>1. watch[r].pc = "wait"
      BY <1>9 DEF WatchWait
    <3> QED
      BY <1>1, <1>6, <1>9, <2>2, <3>1 DEF WatchWait, WatchTo, Watching
  <2> QED
    BY <1>8, <2>1, <2>3
<1>10. CASE WatchUpdate(r)
  <2>1. watch[r].attempts = 0
    BY <1>6, <1>10 DEF WatchUpdate, Together
  <2>2. watch'[r].pc = "status" /\ watch'[r].attempts = watch[r].attempts
    BY <1>1, <1>6, <1>10 DEF WatchUpdate, WatchTo, Watching
  <2> QED
    BY <1>8, <2>1, <2>2
<1>11. CASE WatchCheck(r)
  <2>1. Tries(r) <= Excuses /\ watch[r].pc = "check"
    BY <1>5, <1>7, <1>11 DEF LooksAfter, WatchCheck
  <2>2. watch[r].attempts + 1 <= Excuses'
    <3>1. Tries(r) = watch[r].attempts + 1
      BY <2>1 DEF Tries
    <3> QED
      BY <1>3, <1>6, <2>1, <3>1, ExcusesCount, NextCount
  <2>3. CASE /\ watch[r].attempts >= MaxAttempts \/ HasResult
             /\ watch' = [watch EXCEPT ![r].pc = "done"]
    <3>1. watch'[r].pc = "done" /\ watch'[r].attempts = watch[r].attempts
      BY <1>1, <1>6, <2>3 DEF Watching
    <3>2. watch[r].attempts >= MaxAttempts
      BY <1>4, <1>5, <2>3
    <3>3. Tries(r)' = watch[r].attempts + 1
      BY <3>1 DEF Tries
    <3> QED
      BY <1>1, <1>7, <2>2, <3>1, <3>2, <3>3 DEF LooksAfter
  <2>4. CASE watch' = [watch EXCEPT ![r].attempts = @ + 1, ![r].pc = "status"]
    <3>1. watch'[r].pc = "status" /\ watch'[r].attempts = watch[r].attempts + 1
      BY <1>1, <1>6, <2>4 DEF Watching
    <3>2. Tries(r)' = watch[r].attempts + 1
      BY <1>6, <3>1 DEF Tries
    <3> QED
      BY <1>1, <1>7, <2>2, <3>1, <3>2 DEF LooksAfter
  <2> QED
    BY <1>11, <2>3, <2>4 DEF WatchCheck, WatchTo, HasResult
<1> QED
  BY <1>9, <1>10, <1>11 DEF Watcher

(* A call of a watcher that comes to nothing failed, or has queued a write. *)
LEMMA CallDiligence ==
    ASSUME TypeOK, TypeOK', Pays, Watches, AfterEnd, Over, Diligence,
           NEW c \in Callers, Ask(c) \/ GetTaskStatus(c)
    PROVE  Diligence'
<1>1. watch \in [Submits -> Watching] /\ UNCHANGED <<wf, row, spoilt, submit>>
      /\ queue \in [BOOLEAN -> Nat] /\ call \in [Callers -> Asking]
  BY DEF TypeOK, Ask, GetTaskStatus, Describe, Fetch, Store, temporalVars, storeVars, historyVars
<1>2. HasResult => HasResult'
  BY <1>1 DEF HasResult
<1>3. Excuses <= Excuses'
  <2>1. CASE UNCHANGED queue
    BY <2>1, ExcusesStay
  <2>2. CASE queue' = [queue EXCEPT ![call[c].text] = @ + 1]
    <3>1. \A b \in BOOLEAN : queue[b] <= queue'[b]
      BY <1>1, <2>2
    <3>2. QueuedFull <= QueuedFull' /\ QueuedEmpty <= QueuedEmpty'
      BY <3>1 DEF QueuedFull, QueuedEmpty
    <3>3. faults <= faults'
      BY ExcusesCount DEF Pays
    <3> QED
      BY <3>2, <3>3, ExcusesGrow
  <2> QED
    BY <2>1, <2>2 DEF Ask, GetTaskStatus, Describe, Fetch, Store, storeVars
<1>4. CASE watch' = watch
  BY <1>1, <1>2, <1>3, <1>4, StillDiligent
<1>5. CASE c \in Submits /\ watch' = [watch EXCEPT ![c].pc = "check"]
  <2>1. call[c].pc # "idle"
    BY <1>5, PollsApart DEF Ask, GetTaskStatus, Describe, Fetch, Store
  <2>2. watch[c].pc = "status" /\ Closed /\ Together(c)
    BY <1>5, <2>1 DEF Watches, Together
  <2>3. ~expired
    BY <1>5, <2>2 DEF Over
  <2>4. Excuses + 1 <= Excuses'
    <3>1. CASE Describe(c)
      <4>1. CASE Fails("temporal")
        <5>1. faults' = faults + 1 /\ QueuedFull' = QueuedFull /\ QueuedEmpty' = QueuedEmpty
          BY <3>1, <4>1 DEF Describe, Fails, storeVars, QueuedFull, QueuedEmpty
        <5> QED
          BY <5>1, ExcusesCount, NextCount DEF Excuses
      <4>2. CASE wf # "none" /\ ~expired /\ Closed /\ UNCHANGED watch
        <5>1. watch'[c] = watch[c]
          BY <4>2
        <5>2. watch'[c].pc = "check"
          BY <1>1, <1>5 DEF Watching
        <5> QED
          BY <2>2, <5>1, <5>2
      <4> QED
        BY <2>2, <2>3, <3>1, <4>1, <4>2 DEF Describe, Closed, Terminal
    <3>2. CASE Fetch(c)
      <4>1. watch'[c] = watch[c]
        BY <3>2 DEF Fetch
      <4>2. watch'[c].pc = "check"
        BY <1>1, <1>5 DEF Watching
      <4> QED
        BY <2>2, <4>1, <4>2
    <3>3. CASE Store(c)
      <4>1. faults' = faults /\ queue' = [queue EXCEPT ![call[c].text] = @ + 1]
        BY <3>3 DEF Store, boundVars
      <4>2. call[c].text \in BOOLEAN
        BY <1>1 DEF Asking
      <4>3. \/ QueuedFull' = QueuedFull + 1 /\ QueuedEmpty' = QueuedEmpty
            \/ QueuedFull' = QueuedFull /\ QueuedEmpty' = QueuedEmpty + 1
        <5>1. CASE call[c].text = TRUE
          BY <1>1, <4>1, <5>1 DEF QueuedFull, QueuedEmpty
        <5>2. CASE call[c].text = FALSE
          BY <1>1, <4>1, <5>2 DEF QueuedFull, QueuedEmpty
        <5> QED
          BY <4>2, <5>1, <5>2
      <4> QED
        BY <4>1, <4>3, ExcusesCount, NextCount DEF Excuses
    <3>4. ~Ask(c)
      BY <1>5, PollsApart DEF Ask
    <3> QED
      BY <3>1, <3>2, <3>3, <3>4 DEF GetTaskStatus
  <2>5. \A s \in Submits : s # c => watch'[s] = watch[s] /\ submit'[s] = submit[s]
    BY <1>1, <1>5
  <2>6. LooksAfter(c) => LooksAfter(c)'
    <3>1. watch'[c].pc = "check" /\ watch'[c].attempts = watch[c].attempts
      BY <1>1, <1>5 DEF Watching
    <3>2. Tries(c) = watch[c].attempts /\ Tries(c)' = watch[c].attempts + 1
      BY <1>5, <2>2, <3>1, ExcusesCount DEF Tries
    <3>3. watch[c].attempts \in Nat /\ Excuses \in Nat /\ Excuses' \in Nat
      BY <1>5, ExcusesCount, NextCount
    <3> QED
      BY <1>1, <2>2, <2>4, <3>1, <3>2, <3>3 DEF LooksAfter
  <2> QED
    BY <1>1, <1>2, <1>3, <1>5, <2>5, <2>6, DiligenceOf
<1> QED
  BY <1>4, <1>5 DEF Ask, GetTaskStatus, Describe, Fetch, Store, Returned, Failed

LEMMA WriteDiligence ==
    ASSUME TypeOK, TypeOK', AfterEnd, Diligence, NEW b \in BOOLEAN, Write(b)
    PROVE  Diligence'
<1>1. UNCHANGED <<wf, submit, watch>> /\ queue \in [BOOLEAN -> Nat] /\ queue[b] > 0
      /\ queue' = [queue EXCEPT ![b] = @ - 1]
  BY DEF Write, TypeOK, temporalVars, callVars
<1>2. CASE row' = [status |-> wf, result |-> IF b THEN "full" ELSE "empty"]
  <2>1. row'.result # "unset"
    BY <1>2
  <2>2. row' # None
    <3>1. Closed
      BY <1>1 DEF AfterEnd
    <3>2. row' \in Rows
      BY <1>2, <3>1, ClosedRow
    <3> QED
      BY <3>2, ServiceAssumption
  <2> QED
    BY <2>1, <2>2 DEF Diligence, HasResult
<1>3. CASE UNCHANGED <<row, spoilt>> /\ Fails("db")
  <2>1. faults' = faults + 1
    BY <1>3 DEF Fails
  <2>2. CASE b = TRUE
    <3>1. QueuedFull' = QueuedFull - 1 /\ QueuedEmpty' = QueuedEmpty
      BY <1>1, <2>2 DEF QueuedFull, QueuedEmpty
    <3> QED
      BY <1>1, <1>3, <2>1, <3>1, ExcusesCount, NextCount, StillDiligent DEF Excuses, HasResult
  <2>3. CASE b = FALSE
    <3>1. QueuedFull' = QueuedFull /\ QueuedEmpty' = QueuedEmpty - 1
      BY <1>1, <2>3 DEF QueuedFull, QueuedEmpty
    <3> QED
      BY <1>1, <1>3, <2>1, <3>1, ExcusesCount, NextCount, StillDiligent DEF Excuses, HasResult
  <2> QED
    BY <2>2, <2>3
<1> QED
  BY <1>2, <1>3 DEF Write

LEMMA DiligenceStep ==
    ASSUME TypeOK, TypeOK', Watches, AfterEnd, Over, Diligence, [Next]_vars
    PROVE  Diligence'
<1>1. Pays
  BY StepPays DEF TypeOK
<1> QED
  BY <1>1, OtherDiligence, CrashDiligence, SubmitDiligence, WatcherDiligence, CallDiligence,
     WriteDiligence DEF Next

-----------------------------------------------------------------------------
(* The end.                                                                 *)

(* Whoever had the patience is done, so that the row is.                    *)
LEMMA QuietSettles ==
    ASSUME TypeOK, faults <= MaxFaults, RowRight, Diligence, Closed, Quiet,
           spoilt \cap {"late", "unwatched"} = {}
    PROVE  HasResult /\ row.status = wf
<1>1. HasResult
  <2>1. SUFFICES ASSUME ~HasResult
                 PROVE  FALSE
    OBVIOUS
  <2>2. wf # "none"
    BY DEF Closed, Terminal
  <2>3. PICK s \in Submits : LooksAfter(s)
    BY <2>1, <2>2 DEF Diligence
  <2>4. watch[s].pc = "done" /\ watch[s].attempts >= MaxAttempts /\ Tries(s) <= Excuses
    BY <2>3 DEF LooksAfter, Quiet
  <2>5. Tries(s) = watch[s].attempts + 1
    BY <2>4 DEF Tries
  <2>6. QueuedFull = 0 /\ QueuedEmpty = 0
    BY DEF Quiet, QueuedFull, QueuedEmpty
  <2>7. Excuses = faults
    BY <2>6, ExcusesCount DEF Excuses
  <2> QED
    BY <2>4, <2>5, <2>7, Bounds, ExcusesCount
<1> QED
  BY <1>1 DEF RowRight

LEMMA LastingStep ==
    ASSUME TypeOK, faults <= MaxFaults, AfterEnd, Over, RowRight, Diligence, Lasting, [Next]_vars
    PROVE  Lasting'
<1>1. CASE expired
  <2>1. wf' = wf /\ row' = row
    BY <1>1, OverSteps DEF Ask, Describe, Crash, vars, temporalVars, storeVars
  <2>2. spoilt \subseteq spoilt'
    BY <1>1, OverSteps DEF Ask, Describe, Crash, vars, historyVars
  <2> QED
    BY <1>1, <2>1, <2>2 DEF Lasting
<1>2. CASE ~expired
  <2>1. SUFFICES ASSUME expired', spoilt' \cap {"late", "unwatched"} = {}
                 PROVE  row' # None /\ row'.status = wf'
    BY DEF Lasting
  <2>2. Expire
    <3>1. ~UNCHANGED expired
      BY <1>2, <2>1
    <3>2. ASSUME NEW s \in Submits PROVE ~Start(s) /\ ~Save(s) /\ ~Watcher(s)
      BY <3>1 DEF Start, Save, Watcher, WatchWait, WatchUpdate, WatchCheck, temporalVars
    <3>3. ASSUME NEW c \in Callers PROVE ~Ask(c) /\ ~GetTaskStatus(c)
      BY <3>1 DEF Ask, GetTaskStatus, Describe, Fetch, Store, temporalVars
    <3>4. ASSUME NEW c \in Controls
          PROVE  /\ \A op : ~Validate(c, op)
                 /\ ~Signal(c) /\ ~RequestCancel(c)
                 /\ \A s : ~Mark(c, s)
      BY <3>1 DEF Validate, Signal, RequestCancel, Mark, temporalVars
    <3>5. ~Workflow /\ ~Crash /\ (\A b \in BOOLEAN : ~Write(b)) /\ ~UNCHANGED vars
      BY <3>1 DEF Workflow, TakeSignal, End, Crash, Write, vars, temporalVars
    <3> QED
      BY <3>2, <3>3, <3>4, <3>5 DEF Next
  <2>3. UNCHANGED <<wf, row, spoilt>> /\ Closed /\ Quiet
    BY <2>2 DEF Expire, storeVars, historyVars
  <2>4. HasResult /\ row.status = wf
    BY <2>1, <2>3, QuietSettles
  <2> QED
    BY <2>3, <2>4 DEF HasResult
<1> QED
  BY <1>1, <1>2

(* What a client is told is what Temporal says, or what the row does.       *)
LEMMA TruthfulStep ==
    ASSUME TypeOK, AfterEnd, Over, Lasting, Truthful, [Next]_vars
    PROVE  Truthful'
<1>1. row \in Rows \cup {None}
  BY DEF TypeOK
<1>2. told # None => Closed
  BY DEF AfterEnd
<1>3. Closed => wf' = wf
  BY ClosedStays
<1>4. ASSUME told' = told, expired' = expired, ~expired \/ spoilt \subseteq spoilt'
      PROVE  Truthful'
  BY <1>2, <1>3, <1>4 DEF Truthful
<1>5. CASE expired /\ ~(\E c \in Callers : Describe(c))
  <2>1. told' = told /\ expired' = expired /\ spoilt \subseteq spoilt'
    BY <1>5, OverSteps DEF Ask, Crash, vars, temporalVars, historyVars
  <2> QED
    BY <1>4, <2>1
<1>6. ASSUME NEW c \in Callers, Describe(c)
      PROVE  Truthful'
  <2>1. UNCHANGED <<expired, spoilt, row, wf>>
    BY <1>6 DEF Describe, temporalVars, storeVars
  <2>2. CASE told' = told
    BY <1>4, <2>1, <2>2
  <2>3. CASE ~Closed /\ Returned(c, IF paused THEN "PAUSED" ELSE "RUNNING")
    <3>1. ~(call[c].after = TRUE)
      BY <1>2, <2>3 DEF AfterEnd
    <3>2. call[c].after \in BOOLEAN
      BY DEF TypeOK, Asking
    <3>3. told' = told
      BY <2>3, <3>1, <3>2 DEF Returned, Answer, Terminal
    <3> QED
      BY <2>2, <3>3
  <2>4. CASE expired /\ row # None /\ Returned(c, Reported(row))
    <3>1. CASE spoilt \cap {"late", "unwatched"} = {}
      <4>1. row.status = wf /\ wf \in Terminal
        BY <2>4, <3>1 DEF Lasting, AfterEnd, Closed
      <4>2. Reported(row) = wf
        BY <4>1 DEF Reported
      <4>3. told' \in {told, wf}
        BY <2>4, <4>2 DEF Returned, Answer
      <4> QED
        BY <2>1, <3>1, <4>3 DEF Truthful
    <3>2. CASE spoilt \cap {"late", "unwatched"} # {}
      BY <2>1, <2>4, <3>2 DEF Truthful
    <3> QED
      BY <3>1, <3>2
  <2> QED
    BY <1>6, <2>2, <2>3, <2>4 DEF Describe, Failed
<1>7. ASSUME NEW c \in Callers, Store(c), ~expired
      PROVE  Truthful'
  <2>1. told' \in {told, wf} /\ UNCHANGED <<expired, wf>>
    BY <1>7 DEF Store, Returned, Answer, temporalVars
  <2> QED
    BY <1>7, <2>1 DEF Truthful
<1>8. CASE ~expired /\ ~(\E c \in Callers : Describe(c) \/ Store(c))
  <2>1. told' = told
    <3>1. CASE Workflow \/ Expire \/ Crash \/ UNCHANGED vars
      BY <3>1 DEF Workflow, TakeSignal, End, Expire, Crash, vars, historyVars
    <3>2. ASSUME NEW s \in Submits, Start(s) \/ Save(s) \/ Watcher(s)
          PROVE  told' = told
      BY <3>2 DEF Start, Save, Watcher, WatchWait, WatchUpdate, WatchCheck, historyVars
    <3>3. ASSUME NEW c \in Callers, Ask(c) \/ Fetch(c)
          PROVE  told' = told
      BY <3>3 DEF Ask, Fetch, historyVars
    <3>4. ASSUME NEW b \in BOOLEAN, Write(b)
          PROVE  told' = told
      BY <3>4 DEF Write
    <3>5. ASSUME NEW c \in Controls,
                 \/ \E op \in {"pause", "resume", "cancel"} : Validate(c, op)
                 \/ Signal(c) \/ RequestCancel(c)
                 \/ \E s \in {"PAUSED", "RUNNING"} : Mark(c, s)
          PROVE  told' = told
      BY <3>5 DEF Validate, Signal, RequestCancel, Mark, historyVars
    <3> QED
      BY <1>8, <3>1, <3>2, <3>3, <3>4, <3>5 DEF Next, GetTaskStatus
  <2> QED
    BY <1>2, <1>3, <1>8, <2>1 DEF Truthful
<1>9. ~(expired /\ \E c \in Callers : Store(c))
  BY DEF Over, Store
<1> QED
  BY <1>5, <1>6, <1>7, <1>8, <1>9

LEMMA IInvInit == Init => IInv
<1> SUFFICES ASSUME Init
             PROVE  IInv
  OBVIOUS
<1>1. watch \in [Submits -> Watching] /\ call \in [Callers -> Asking] /\ queue \in [BOOLEAN -> Nat]
  BY IdleAsks DEF Init, Watching
<1>2. TypeOK
  BY <1>1 DEF Init, TypeOK
<1>3. faults <= MaxFaults
  BY Bounds DEF Init
<1>4. Watches
  BY DEF Init, Watches, Together, Callers, Idle
<1>5. AfterEnd /\ Over
  BY DEF Init, AfterEnd, Over, Idle
<1>6. RowRight /\ Diligence /\ Lasting /\ Truthful
  BY DEF Init, RowRight, Diligence, Lasting, Truthful, HasResult
<1> QED
  BY <1>2, <1>3, <1>4, <1>5, <1>6 DEF IInv

LEMMA IInvStep == IInv /\ [Next]_vars => IInv'
<1> SUFFICES ASSUME IInv, [Next]_vars
             PROVE  IInv'
  OBVIOUS
<1>1. TypeOK'
  BY TypeStep DEF IInv
<1>2. (faults <= MaxFaults)'
  BY StepPays DEF IInv, TypeOK, Pays
<1>3. Watches' /\ AfterEnd'
  BY WatchesStep, AfterEndStep DEF IInv
<1>4. Over' /\ RowRight'
  BY OverStep, RowRightStep DEF IInv
<1>5. Diligence' /\ Lasting' /\ Truthful'
  BY <1>1, DiligenceStep, LastingStep, TruthfulStep DEF IInv
<1> QED
  BY <1>1, <1>2, <1>3, <1>4, <1>5 DEF IInv

LEMMA IInvAlways == Spec => []IInv
BY IInvInit, IInvStep, PTL DEF Spec

(* Every variable has its type.                                             *)
THEOREM TypeCorrect == Spec => []TypeOK
<1>1. IInv => TypeOK
  BY DEF IInv
<1> QED
  BY <1>1, IInvAlways, PTL

(* GetTaskStatus never contradicts itself about the end of a task, nor      *)
(* Temporal, also from the row that is left of it.                          *)
THEOREM TruthTold == Spec => []Truthful
<1>1. IInv => Truthful
  BY DEF IInv
<1> QED
  BY <1>1, IInvAlways, PTL

(* The watcher, the polls and the write workers leave the right row,        *)
(* whatever the order of their writes and whichever of them failed.         *)
THEOREM RowSettles == Spec => []Settled
<1>1. IInv => Settled
  <2>1. SUFFICES ASSUME IInv, Closed, Quiet, spoilt = {}
                 PROVE  row # None /\ row.status = wf /\ (row.result = "full" <=> text)
    BY DEF Settled
  <2>2. HasResult /\ row.status = wf
    BY <2>1, QuietSettles DEF IInv
  <2>3. row.result = "full" <=> text
    BY <2>1, <2>2 DEF IInv, RowRight
  <2> QED
    BY <2>2, <2>3 DEF HasResult
<1> QED
  BY <1>1, IInvAlways, PTL

(* What Temporal has forgotten the row goes on saying, unless it was        *)
(* spoilt.                                                                  *)
THEOREM RowLasts == Spec => []Lasting
<1>1. IInv => Lasting
  BY DEF IInv
<1> QED
  BY <1>1, IInvAlways, PTL

-----------------------------------------------------------------------------
(* The breaker.                                                             *)

(* What holds of a breaker of whose present generation n calls are in       *)
(* flight.                                                                  *)
Balanced(b, n) ==
    /\ b \in Breaker
    /\ b.state = "half-open" => /\ b.requests = n + b.successes
                                /\ b.requests <= MaxRequests
                                /\ b.successes < SuccessThreshold
    /\ b.state # "half-open" => b.successes = 0
    /\ b.state = "closed" => b.failures < FailureThreshold
    /\ b.state # "closed" => b.failures = 0

(* A new generation starts balanced, with nothing in flight.                *)
LEMMA NewGenerationBalanced ==
    ASSUME NEW b, NEW s \in States, NEW g \in Generations
    PROVE  /\ Balanced(NewGeneration(b, s, g), 0)
           /\ NewGeneration(b, s, g).generation = g
           /\ NewGeneration(b, s, g).state = s
           /\ NewGeneration(b, s, g).requests = 0
  BY BreakerAssumption DEF NewGeneration, Balanced, Breaker, States

(* currentState leaves the breaker alone or starts a new generation.        *)
LEMMA CurrentStateCases ==
    ASSUME NEW b \in Breaker, NEW g
    PROVE  \/ CurrentState(b, g) = b
           \/ \E s \in States : CurrentState(b, g) = NewGeneration(b, s, g)
  BY DEF CurrentState, SetState, NewGeneration, Breaker, States

(* So do onSuccess and onFailure, or they count one result, which takes one *)
(* call out of flight.                                                      *)
LEMMA OnSuccessCases ==
    ASSUME NEW n \in Nat, n > 0, NEW b, Balanced(b, n), b.state # "open", NEW g
    PROVE  \/ \E s \in States : OnSuccess(b, g) = NewGeneration(b, s, g)
           \/ /\ OnSuccess(b, g).generation = b.generation
              /\ Balanced(OnSuccess(b, g), n - 1)
<1> DEFINE c == [b EXCEPT !.successes = @ + 1]
<1> USE BreakerAssumption
<1>1. CASE b.state = "closed"
  <2>1. OnSuccess(b, g) = [b EXCEPT !.failures = 0]
    BY <1>1 DEF OnSuccess
  <2> QED
    BY <1>1, <2>1 DEF Balanced, Breaker, States
<1>2. CASE b.state = "half-open" /\ b.successes + 1 >= SuccessThreshold
  <2>1. OnSuccess(b, g) = SetState(c, "closed", g)
    BY <1>2 DEF OnSuccess, Balanced, Breaker
  <2>2. c.state = "half-open"
    BY <1>2 DEF Balanced, Breaker
  <2> QED
    BY <2>1, <2>2 DEF SetState, NewGeneration, States
<1>3. CASE b.state = "half-open" /\ ~(b.successes + 1 >= SuccessThreshold)
  <2>1. OnSuccess(b, g) = c
    BY <1>3 DEF OnSuccess, Balanced, Breaker
  <2>2. c.generation = b.generation
    BY DEF Balanced, Breaker
  <2>3. Balanced(c, n - 1)
    BY <1>3 DEF Balanced, Breaker, States
  <2> QED
    BY <2>1, <2>2, <2>3
<1> QED
  BY <1>1, <1>2, <1>3 DEF Balanced, Breaker, States

LEMMA OnFailureCases ==
    ASSUME NEW n \in Nat, n > 0, NEW b, Balanced(b, n), b.state # "open", NEW g
    PROVE  \/ \E s \in States : OnFailure(b, g) = NewGeneration(b, s, g)
           \/ /\ OnFailure(b, g).generation = b.generation
              /\ Balanced(OnFailure(b, g), n - 1)
<1> DEFINE c == [b EXCEPT !.failures = @ + 1]
<1> USE BreakerAssumption
<1>1. CASE b.state = "half-open"
  BY <1>1 DEF OnFailure, SetState, States, NewGeneration
<1>2. CASE b.state = "closed" /\ b.failures + 1 >= FailureThreshold
  <2>1. OnFailure(b, g) = SetState(c, "open", g)
    BY <1>2 DEF OnFailure, Balanced, Breaker
  <2>2. c.state = "closed"
    BY <1>2 DEF Balanced, Breaker
  <2> QED
    BY <2>1, <2>2 DEF SetState, NewGeneration, States
<1>3. CASE b.state = "closed" /\ ~(b.failures + 1 >= FailureThreshold)
  <2>1. OnFailure(b, g) = c
    BY <1>3 DEF OnFailure, Balanced, Breaker
  <2>2. c.generation = b.generation
    BY DEF Balanced, Breaker
  <2>3. Balanced(c, n - 1)
    BY <1>3 DEF Balanced, Breaker, States
  <2> QED
    BY <2>1, <2>2, <2>3
<1> QED
  BY <1>1, <1>2, <1>3 DEF Balanced, Breaker, States

(* A breaker that opens starts a new generation.                            *)
LEMMA OpenIsFresh ==
    ASSUME NEW b \in Breaker, b.state # "open", NEW g \in Generations, g # b.generation,
           NEW success,
           NEW c, c = IF success THEN OnSuccess(b, g) ELSE OnFailure(b, g),
           c.generation = b.generation
    PROVE  c.state # "open"
<1> USE BreakerAssumption
<1>1. CASE success
  BY <1>1 DEF OnSuccess, SetState, NewGeneration, Breaker, States
<1>2. CASE ~success
  BY <1>2 DEF OnFailure, SetState, NewGeneration, Breaker, States
<1> QED
  BY <1>1, <1>2

-----------------------------------------------------------------------------

(* The inductive invariant.                                                 *)
BreakerInv ==
    /\ BreakerTypeOK
    /\ Balanced(cb, Cardinality(InFlight))
    /\ cb.state = "open" => InFlight = {}

(* The set of calls in flight is finite.                                    *)
LEMMA InFlightFinite == IsFiniteSet(InFlight) /\ Cardinality(InFlight) \in Nat
  BY BreakerAssumption, FS_Subset, FS_CardinalityType DEF InFlight

(* In a fresh generation nobody is in flight.                               *)
LEMMA NobodyInFlight ==
    ASSUME NEW g, Fresh(g), NEW b, cb' = b, b.generation = g,
           \A r \in Requests : admitted'[r] \in {NotAdmitted, admitted[r]}, g # NotAdmitted
    PROVE  InFlight' = {}
  BY DEF Fresh, InFlight

(* BreakerInit establishes the invariant.                                          *)
LEMMA BreakerInvInit == BreakerInit => BreakerInv
<1> SUFFICES ASSUME BreakerInit PROVE BreakerInv
  OBVIOUS
<1>1. PICK g \in Generations : cb = NewBreaker(g)
  BY DEF BreakerInit
<1>2. BreakerTypeOK
  BY <1>1, BreakerAssumption DEF BreakerInit, BreakerTypeOK, NewBreaker, Breaker, States
<1>3. InFlight = {}
  BY <1>1, BreakerAssumption DEF BreakerInit, InFlight, NewBreaker
<1>4. Cardinality(InFlight) = 0
  BY <1>3, FS_EmptySet
<1> QED
  BY <1>1, <1>2, <1>3, <1>4, BreakerAssumption DEF BreakerInv, Balanced, NewBreaker, BreakerTypeOK

(* A step to a fresh generation, taking calls out of flight only.           *)
LEMMA RestartStep ==
    ASSUME NEW g \in Generations, Fresh(g), NEW s \in States,
           cb' = NewGeneration(cb, s, g),
           admitted' \in [Requests -> Generations \cup {NotAdmitted}],
           \A r \in Requests : admitted'[r] \in {NotAdmitted, admitted[r]}
    PROVE  Balanced(cb', Cardinality(InFlight')) /\ InFlight' = {}
<1>1. cb'.generation = g /\ Balanced(cb', 0)
  BY NewGenerationBalanced
<1>2. InFlight' = {}
  BY <1>1, NobodyInFlight, BreakerAssumption
<1> QED
  BY <1>1, <1>2, FS_EmptySet

(* An admitted call is counted and in flight.                               *)
LEMMA AdmitStep ==
    ASSUME BreakerInv, NEW r \in Requests, Admit(r)
    PROVE  BreakerInv'
<1> USE BreakerAssumption
<1>1. PICK g \in Generations :
        /\ Fresh(g)
        /\ ~Rejects(CurrentState(cb, g))
        /\ cb' = [CurrentState(cb, g) EXCEPT !.requests = Increment(@)]
        /\ admitted' = [admitted EXCEPT ![r] = CurrentState(cb, g).generation]
  BY DEF Admit
<1> DEFINE c == CurrentState(cb, g)
<1>2. admitted[r] = NotAdmitted /\ UNCHANGED up /\ BreakerTypeOK
  BY DEF Admit, BreakerInv
<1>a. cb' = [c EXCEPT !.requests = Increment(@)] /\ admitted' = [admitted EXCEPT ![r] = c.generation]
  BY <1>1
<1>b. c = cb \/ \E s \in States : c = NewGeneration(cb, s, g)
  BY <1>2, CurrentStateCases DEF BreakerTypeOK
<1> HIDE DEF c
<1> DEFINE P(n) == Balanced(c, n) /\ Cardinality(InFlight') = n + 1
<1>c. ASSUME c \in Breaker
      PROVE  InFlight' = {e \in Requests : admitted'[e] = c.generation}
  BY <1>a, <1>c DEF InFlight, Breaker
<1>3. \E n \in Nat : P(n)
  <2>1. CASE c = cb
    <3>1. InFlight' = InFlight \cup {r} /\ r \notin InFlight
      BY <1>a, <1>c, <1>2, <2>1 DEF InFlight, BreakerTypeOK, Breaker
    <3>2. Cardinality(InFlight') = Cardinality(InFlight) + 1
      BY <3>1, InFlightFinite, FS_AddElement
    <3>3. P(Cardinality(InFlight))
      BY <2>1, <3>2 DEF BreakerInv
    <3> QED
      BY <3>3, InFlightFinite
  <2>2. ASSUME NEW s \in States, c = NewGeneration(cb, s, g) PROVE \E n \in Nat : P(n)
    <3>1. c.generation = g /\ Balanced(c, 0)
      BY <2>2, NewGenerationBalanced
    <3>2. InFlight' = {r}
      BY <1>1, <1>a, <1>c, <1>2, <3>1 DEF Fresh, BreakerTypeOK, Balanced
    <3>3. Cardinality(InFlight') = 1
      BY <3>2, FS_Singleton
    <3>4. P(0)
      BY <3>1, <3>3
    <3> QED
      BY <3>4
  <2> QED
    BY <1>b, <2>1, <2>2
<1>d. PICK n \in Nat : P(n)
  BY <1>3
<1>4. c \in Breaker /\ c.generation \in Generations
  BY <1>d DEF Balanced, Breaker
<1>5. cb' = [c EXCEPT !.requests = (c.requests + 1) % CountWidth] /\ ~Rejects(c)
  BY <1>1 DEF c, Increment
<1>6. (c.requests + 1) % CountWidth \in 0 .. CountWidth - 1
  BY <1>4 DEF Breaker
<1>7. cb' \in Breaker /\ cb'.state = c.state /\ cb'.successes = c.successes /\ cb'.failures = c.failures
  BY <1>4, <1>5, <1>6 DEF Breaker
<1>8. BreakerTypeOK'
  BY <1>1, <1>2, <1>4, <1>7 DEF BreakerTypeOK, c
<1>9. c.state = "half-open" => cb'.requests = c.requests + 1 /\ c.requests < MaxRequests
  <2>1. c.state = "half-open" => c.requests < MaxRequests
    BY <1>4, <1>5 DEF Rejects, Breaker
  <2>2. c.state = "half-open" => (c.requests + 1) % CountWidth = c.requests + 1
    BY <1>4, <2>1 DEF Breaker
  <2> QED
    BY <1>4, <1>5, <2>1, <2>2 DEF Breaker
<1>10. Balanced(cb', n + 1)
  BY <1>d, <1>4, <1>7, <1>9 DEF Balanced, Breaker
<1> QED
  BY <1>d, <1>5, <1>7, <1>8, <1>10 DEF BreakerInv, Rejects

(* A rejected call changes at most the generation.                          *)
LEMMA RejectStep ==
    ASSUME BreakerInv, NEW r \in Requests, Reject(r)
    PROVE  BreakerInv'
<1> USE BreakerAssumption
<1>1. PICK g \in Generations : Fresh(g) /\ cb' = CurrentState(cb, g)
  BY DEF Reject
<1>2. UNCHANGED <<admitted, up>> /\ BreakerTypeOK
  BY DEF Reject, BreakerInv
<1>3. CASE cb' = cb
  BY <1>2, <1>3 DEF BreakerInv, BreakerTypeOK, InFlight
<1>4. ASSUME NEW s \in States, cb' = NewGeneration(cb, s, g) PROVE BreakerInv'
  BY <1>1, <1>2, <1>4, RestartStep DEF BreakerInv, BreakerTypeOK, Balanced
<1> QED
  BY <1>1, <1>2, <1>3, <1>4, CurrentStateCases DEF BreakerTypeOK

(* A result is counted once, or dropped when it is outdated.                *)
LEMMA ReturnStep ==
    ASSUME BreakerInv, NEW r \in Requests, NEW o \in Outcomes, Return(r, o)
    PROVE  BreakerInv'
<1> USE BreakerAssumption
<1>1. PICK g \in Generations :
        Fresh(g) /\ cb' = AfterRequest(cb, admitted[r], Succeeds(r, o), g)
  BY DEF Return
<1>2. /\ admitted[r] # NotAdmitted /\ UNCHANGED up /\ BreakerTypeOK
      /\ admitted' = [admitted EXCEPT ![r] = NotAdmitted]
  BY DEF Return, BreakerInv
<1>3. /\ admitted' \in [Requests -> Generations \cup {NotAdmitted}]
      /\ \A e \in Requests : admitted'[e] \in {NotAdmitted, admitted[e]}
  BY <1>2 DEF BreakerTypeOK
<1>4. ASSUME NEW s \in States, cb' = NewGeneration(cb, s, g) PROVE BreakerInv'
  BY <1>1, <1>2, <1>3, <1>4, RestartStep DEF BreakerInv, BreakerTypeOK, Balanced
<1>5. ASSUME NEW s \in States, CurrentState(cb, g) = NewGeneration(cb, s, g) PROVE BreakerInv'
  <2>1. Outdated(CurrentState(cb, g), admitted[r])
    BY <1>1, <1>5 DEF NewGeneration, Fresh, Outdated
  <2> QED
    BY <1>1, <1>4, <1>5, <2>1 DEF AfterRequest
<1>6. CASE CurrentState(cb, g) = cb /\ Outdated(cb, admitted[r])
  <2>1. cb' = cb
    BY <1>1, <1>6 DEF AfterRequest
  <2>2. InFlight' = InFlight
    BY <1>2, <1>6, <2>1 DEF InFlight, Outdated, BreakerTypeOK, Breaker
  <2> QED
    BY <1>2, <1>3, <2>1, <2>2 DEF BreakerInv, BreakerTypeOK
<1>7. CASE CurrentState(cb, g) = cb /\ ~Outdated(cb, admitted[r])
  <2> DEFINE n == Cardinality(InFlight)
  <2>1. r \in InFlight
    BY <1>7 DEF InFlight, Outdated
  <2>2. n \in Nat /\ n > 0
    BY <2>1, InFlightFinite, FS_EmptySet
  <2>3. Balanced(cb, n) /\ cb.state # "open"
    BY <2>1 DEF BreakerInv
  <2>4. cb' = IF Succeeds(r, o) THEN OnSuccess(cb, g) ELSE OnFailure(cb, g)
    BY <1>1, <1>7 DEF AfterRequest
  <2>5. \/ \E s \in States : cb' = NewGeneration(cb, s, g)
        \/ cb'.generation = cb.generation /\ Balanced(cb', n - 1)
    BY <2>2, <2>3, <2>4, OnSuccessCases, OnFailureCases
  <2>6. CASE cb'.generation = cb.generation /\ Balanced(cb', n - 1)
    <3>1. InFlight' = InFlight \ {r}
      BY <1>2, <2>6 DEF InFlight, BreakerTypeOK, Breaker
    <3>2. Cardinality(InFlight') = n - 1
      BY <2>1, <3>1, InFlightFinite, FS_RemoveElement
    <3>3. cb'.state # "open"
      BY <1>1, <2>3, <2>4, <2>6, OpenIsFresh DEF Fresh, Balanced
    <3> QED
      BY <1>2, <1>3, <2>6, <3>2, <3>3 DEF BreakerInv, BreakerTypeOK, Balanced
  <2> QED
    BY <1>4, <2>5, <2>6
<1> QED
  BY <1>2, <1>5, <1>6, <1>7, CurrentStateCases DEF BreakerTypeOK

(* The clock, and the dependency, disturb nothing.                          *)
LEMMA OtherSteps ==
    ASSUME BreakerInv, Elapse \/ Outage \/ Recovery \/ UNCHANGED breakerVars
    PROVE  BreakerInv'
<1>1. CASE Elapse
  <2>1. /\ cb' \in Breaker /\ cb'.state = cb.state /\ cb'.requests = cb.requests
        /\ cb'.generation = cb.generation
        /\ cb'.successes = cb.successes /\ cb'.failures = cb.failures
    BY <1>1 DEF Elapse, BreakerInv, BreakerTypeOK, Breaker
  <2>2. InFlight' = InFlight
    BY <1>1, <2>1 DEF Elapse, InFlight
  <2> QED
    BY <1>1, <2>1, <2>2 DEF Elapse, BreakerInv, BreakerTypeOK, Balanced
<1>2. CASE Outage \/ Recovery \/ UNCHANGED breakerVars
  BY <1>2 DEF Outage, Recovery, breakerVars, BreakerInv, BreakerTypeOK, InFlight
<1> QED
  BY <1>1, <1>2

LEMMA BreakerInductive == BreakerSpec => []BreakerInv
<1>1. BreakerInv /\ [BreakerNext]_breakerVars => BreakerInv'
  BY AdmitStep, RejectStep, ReturnStep, OtherSteps DEF BreakerNext, CallStep
<1> QED
  BY <1>1, BreakerInvInit, PTL DEF BreakerSpec

-----------------------------------------------------------------------------

(* Every variable keeps its type; Requests never leaves a uint32.           *)
THEOREM BreakerTypeCorrect == BreakerSpec => []BreakerTypeOK
<1>1. BreakerInv => BreakerTypeOK
  BY DEF BreakerInv
<1> QED
  BY <1>1, BreakerInductive, PTL

(* Every probe of the half-open state is in flight or one of its            *)
(* consecutive successes.                                                   *)
THEOREM ProbesCounted == BreakerSpec => []ProbesAccounted
<1>1. BreakerInv => ProbesAccounted
  BY DEF BreakerInv, Balanced, ProbesAccounted
<1> QED
  BY <1>1, BreakerInductive, PTL

(* A recovering dependency sees at most MaxRequests probes.                 *)
THEOREM ProbeLimit == BreakerSpec => []ProbesLimited
<1>1. BreakerInv => ProbesLimited
  BY DEF BreakerInv, Balanced, ProbesLimited
<1> QED
  BY <1>1, BreakerInductive, PTL

(* The breaker closes, half-opens and opens at its thresholds, never late.  *)
THEOREM ThresholdObserved == BreakerSpec => []FailuresBelowThreshold
<1>1. BreakerInv => FailuresBelowThreshold
  BY DEF BreakerInv, Balanced, FailuresBelowThreshold
<1> QED
  BY <1>1, BreakerInductive, PTL

(* Where MaxRequests is at least SuccessThreshold, a half-open breaker that *)
(* rejects calls has a probe in flight, whose result will move it.          *)
THEOREM NoWedge == BreakerSpec => []NeverWedged
<1>1. BreakerInv => NeverWedged
  <2> SUFFICES ASSUME BreakerInv, cb.state = "half-open", Rejects(cb), InFlight = {}
               PROVE  FALSE
    BY DEF NeverWedged
  <2>1. Cardinality(InFlight) = 0
    BY FS_EmptySet
  <2>2. cb.requests = cb.successes /\ cb.requests >= MaxRequests /\ cb.successes < SuccessThreshold
    BY <2>1 DEF BreakerInv, Balanced, Rejects, Breaker
  <2> QED
    BY <2>2, ThresholdAssumption, BreakerAssumption DEF BreakerInv, BreakerTypeOK, Breaker
<1> QED
  BY <1>1, BreakerInductive, PTL
=============================================================================
