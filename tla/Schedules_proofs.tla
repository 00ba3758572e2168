-------------------------- MODULE Schedules_proofs --------------------------
(***************************************************************************)
(* Proofs about Schedules, for any number of schedules, requests and runs. *)
(*                                                                         *)
(* PlaceInv says what a request has found and done when it is at a place.  *)
(* DeletedStaysQuiet rests on it and on QuietInv: whoever is about to mark *)
(* a row as deleted knows that Temporal has deleted the schedule or was    *)
(* not told to, and what Temporal has deleted it never runs again.         *)
(* StatusAgrees rests on AgreeInv, which looks at the schedules where no   *)
(* write was lost and no conflicting requests met: there a row that        *)
(* disagrees with Temporal is about to be written.  LimitKept counts the   *)
(* schedules that are being created with those that are live (Room), and   *)
(* StatsAgree the runs that are past being counted (TallyInv).             *)
(***************************************************************************)
EXTENDS Schedules, FiniteSetTheorems, TLAPS

In(q, places) == request[q].pc \in places

Alone(q) == \A r \in Requests \ {q} : On(r) # On(q)

(* Where the requests are, for what, and on which schedule.                 *)
Creating == {"count", "create", "insert", "rollback"}
Changing == {"find", "temporal", "row"}

OnItsWay(q) ==
    /\ In(q, Creating) => Is(q, "create") /\ On(q) \in Schedules
    /\ In(q, Changing) =>
         /\ request[q].kind \in {"pause", "resume", "update", "delete"}
         /\ On(q) \in Schedules /\ row[On(q)] # "none"

(* A new schedule belongs to the request that creates it.                   *)
Owned(q) ==
    /\ In(q, {"count", "create"}) =>
         row[On(q)] = "none" /\ temporal[On(q)] = "none" /\ Alone(q)
    /\ In(q, {"insert"}) =>
         row[On(q)] = "none" /\ temporal[On(q)] = "running" /\ action[On(q)] = q /\ Alone(q)
    /\ In(q, {"rollback"}) /\ On(q) \notin torn => row[On(q)] = "none" /\ Alone(q)
    /\ In(q, {"rollback"}) => temporal[On(q)] # "none"

PlaceInv ==
    /\ \A q \in Requests : OnItsWay(q) /\ Owned(q)
    /\ \A s \in Schedules : row[s] # "none" => temporal[s] # "none"
    /\ cleaner.pc = "mark" =>
         cleaner.on \in Schedules /\ row[cleaner.on] # "none" /\ temporal[cleaner.on] = "deleted"
    /\ \A s \in cleaner.todo : s \in Schedules /\ row[s] # "none"

(* A request that is about to mark a row as deleted.                        *)
Deleting(q) ==
    In(q, {"row"}) /\ Is(q, "delete") => temporal[On(q)] = "deleted" \/ On(q) \in missed

QuietInv == DeletedStaysQuiet /\ missed \subseteq torn /\ \A q \in Requests : Deleting(q)

(* Schedules where every write took effect and no requests conflict.        *)
Clean == Schedules \ (torn \cup clashed)

Statuses == {"pause", "resume", "delete"}

Target(kind) == CASE kind = "pause" -> "paused" [] kind = "resume" -> "running"
                  [] kind = "delete" -> "deleted"

Peaceful(q, r) ==
    /\ In(q, {"temporal", "row"}) /\ In(r, {"temporal", "row"})
    /\ q # r /\ On(q) = On(r) /\ On(q) \in Clean
    => ~Conflict(request[q].kind, request[r].kind)

HasTold(q) ==
    In(q, {"row"}) /\ On(q) \in Clean =>
        /\ request[q].kind \in Statuses => temporal[On(q)] = Target(request[q].kind)
        /\ Is(q, "update") => action[On(q)] = q

Match(s) ==
    /\ row[s] \in {"none", "DELETED"} <=> temporal[s] \in {"none", "deleted"}
    /\ row[s] = "ACTIVE" <=> temporal[s] = "running"
    /\ row[s] = "PAUSED" <=> temporal[s] = "paused"

(* Somebody is about to write the status, or the configuration.             *)
Pending(s, q) ==
    On(q) = s /\ (In(q, {"insert", "rollback"}) \/ (In(q, {"row"}) /\ request[q].kind \in Statuses))

Updating(s, q) == On(q) = s /\ In(q, {"row"}) /\ Is(q, "update")

AgreeInv ==
    /\ \A q, r \in Requests : Peaceful(q, r)
    /\ \A q \in Requests : HasTold(q)
    /\ \A s \in Clean : Match(s) \/ \E q \in Requests : Pending(s, q)
    /\ \A s \in Clean : (Live(s) => config[s] = action[s]) \/ \E q \in Requests : Updating(s, q)

-----------------------------------------------------------------------------
(* What a request becomes when it goes on.                                  *)
LEMMA GoEffect ==
    ASSUME TypeOK, NEW q \in Requests, NEW pc, Go(q, pc)
    PROVE  /\ request'[q].pc = pc
           /\ pc = "done" => request'[q].on = None /\ request'[q].kind = "none"
           /\ pc # "done" => request'[q].on = On(q) /\ request'[q].kind = request[q].kind
           /\ \A r \in Requests \ {q} : request'[r] = request[r]
  BY DEF TypeOK, Go, Idle, On

RequestType == [pc : Acting \cup {"new", "count", "find", "done"},
                kind : Kinds \cup {"none"}, on : Schedules \cup {None}]

LEMMA GoTypes ==
    ASSUME TypeOK, NEW q \in Requests, NEW pc \in Acting \cup {"find", "done"}, Go(q, pc)
    PROVE  request' \in [Requests -> RequestType]
<1>1. Idle("done") \in RequestType
  BY DEF Idle, RequestType
<1>2. request \in [Requests -> RequestType]
  BY DEF TypeOK, RequestType
<1>3. \A r \in RequestType : [r EXCEPT !.pc = pc] \in RequestType
  BY DEF RequestType
<1>4. [request[q] EXCEPT !.pc = pc] \in RequestType
  BY <1>2, <1>3
<1> QED
  BY <1>1, <1>2, <1>4 DEF Go

-----------------------------------------------------------------------------
(* Types.                                                                   *)

StoreOK ==
    /\ temporal \in [Schedules -> {"none", "running", "paused", "deleted"}]
    /\ action \in [Schedules -> Requests \cup {None}]
    /\ row \in [Schedules -> {"none", "ACTIVE", "PAUSED", "DELETED"}]
    /\ config \in [Schedules -> Requests \cup {None}]

LEMMA UpdateType ==
    ASSUME NEW S, NEW T, NEW f \in [S -> T], NEW x \in S, NEW y \in T
    PROVE  [f EXCEPT ![x] = y] \in [S -> T]
  OBVIOUS

LEMMA RequestOn ==
    ASSUME PlaceInv, NEW q \in Requests, In(q, Creating \cup Changing)
    PROVE  /\ On(q) \in Schedules
           /\ In(q, Creating) => request[q].kind = "create"
           /\ In(q, Changing) => request[q].kind \in {"pause", "resume", "update", "delete"}
  BY DEF PlaceInv, OnItsWay, In, Is

(* What the requests do to the stores.                                      *)
LEMMA StoreTypes ==
    ASSUME StoreOK, PlaceInv, NEW q \in Requests, RequestStep(q)
    PROVE  StoreOK'
<1>1. CASE Count(q) \/ Find(q)
  BY <1>1 DEF Count, Find, StoreOK, storeVars
<1>2. CASE Create(q)
  <2>1. On(q) \in Schedules
    BY <1>2, RequestOn DEF Create, In, Creating
  <2>2. Created(On(q), q) \/ UNCHANGED <<temporal, action>>
    BY <1>2 DEF Create
  <2> QED
    BY <1>2, <2>1, <2>2 DEF Create, Created, StoreOK
<1>3. CASE Insert(q)
  <2>1. On(q) \in Schedules
    BY <1>3, RequestOn DEF Insert, In, Creating
  <2>2. Inserted(On(q), q) \/ UNCHANGED <<row, config>>
    BY <1>3 DEF Insert
  <2> QED
    BY <1>3, <2>1, <2>2 DEF Insert, Inserted, StoreOK
<1>4. CASE Rollback(q)
  <2>1. On(q) \in Schedules
    BY <1>4, RequestOn DEF Rollback, In, Creating
  <2> QED
    BY <1>4, <2>1 DEF Rollback, StoreOK
<1>5. CASE Tell(q)
  <2>1. On(q) \in Schedules /\ request[q].kind \in {"pause", "resume", "update", "delete"}
    BY <1>5, RequestOn DEF Tell, In, Changing
  <2>2. CASE Told(q)
    <3>1. \E t \in {"running", "paused", "deleted", temporal[On(q)]} :
            temporal' = [temporal EXCEPT ![On(q)] = t]
      BY <2>1, <2>2 DEF Told, Is
    <3>2. temporal' \in [Schedules -> {"none", "running", "paused", "deleted"}]
      BY <2>1, <3>1, UpdateType DEF StoreOK
    <3>3. \E a \in {q, action[On(q)]} : action' = [action EXCEPT ![On(q)] = a]
      BY <2>2 DEF Told
    <3>4. action' \in [Schedules -> Requests \cup {None}]
      BY <2>1, <3>3 DEF StoreOK
    <3> QED
      BY <1>5, <3>2, <3>4 DEF Tell, StoreOK
  <2> QED
    BY <1>5, <2>2 DEF Tell, StoreOK
<1>6. CASE Write(q)
  <2>1. On(q) \in Schedules /\ request[q].kind \in {"pause", "resume", "update", "delete"}
    BY <1>6, RequestOn DEF Write, In, Changing
  <2>2. CASE Written(q)
    <3>1. \E t \in {"ACTIVE", "PAUSED", "DELETED", row[On(q)]} : row' = [row EXCEPT ![On(q)] = t]
      BY <2>1, <2>2 DEF Written, Is
    <3>2. row' \in [Schedules -> {"none", "ACTIVE", "PAUSED", "DELETED"}]
      BY <2>1, <3>1, UpdateType DEF StoreOK
    <3>3. \E a \in {q, config[On(q)]} : config' = [config EXCEPT ![On(q)] = a]
      BY <2>2 DEF Written
    <3>4. config' \in [Schedules -> Requests \cup {None}]
      BY <2>1, <3>3 DEF StoreOK
    <3> QED
      BY <1>6, <3>2, <3>4 DEF Write, StoreOK
  <2> QED
    BY <1>6, <2>2 DEF Write, StoreOK
<1> QED
  BY <1>1, <1>2, <1>3, <1>4, <1>5, <1>6 DEF RequestStep

(* A request goes on, and marks no schedule in the history but its own.     *)
LEMMA RequestFrame ==
    ASSUME PlaceInv, NEW q \in Requests, RequestStep(q)
    PROVE  /\ \E pc \in Acting \cup {"find", "done"} : Go(q, pc)
           /\ UNCHANGED <<cleaner, runVars, blurred>>
           /\ On(q) \in Schedules
           /\ torn' \in {torn, torn \cup {On(q)}}
           /\ clashed' \in {clashed, clashed \cup {On(q)}}
           /\ missed' \in {missed, missed \cup {On(q)}}
           /\ late' \in {late, late \cup {On(q)}}
<1>1. On(q) \in Schedules
  BY RequestOn
  DEF RequestStep, Count, Create, Insert, Rollback, Find, Tell, Write, In, Creating, Changing
<1>2. CASE Count(q) \/ Create(q)
  BY <1>1, <1>2 DEF Count, Create, Acting
<1>3. CASE Insert(q) \/ Rollback(q) \/ Find(q)
  BY <1>1, <1>3 DEF Insert, Rollback, Find, Acting
<1>4. CASE Tell(q)
  BY <1>1, <1>4 DEF Tell, Acting, AfterError
<1>5. CASE Write(q)
  BY <1>1, <1>5 DEF Write, Acting
<1> QED
  BY <1>2, <1>3, <1>4, <1>5 DEF RequestStep

LEMMA RequestTypes ==
    ASSUME TypeOK, PlaceInv, NEW q \in Requests, RequestStep(q)
    PROVE  TypeOK'
<1>1. StoreOK'
  BY StoreTypes DEF TypeOK, StoreOK
<1>2. request' \in [Requests -> RequestType]
  BY RequestFrame, GoTypes
<1>3. On(q) \in Schedules
  BY RequestFrame
<1>4. torn' \subseteq Schedules /\ clashed' \subseteq Schedules
      /\ missed' \subseteq Schedules /\ late' \subseteq Schedules
  BY <1>3, RequestFrame DEF TypeOK
<1> QED
  BY <1>1, <1>2, <1>4, RequestFrame DEF TypeOK, StoreOK, RequestType, runVars

LEMMA AskTypes ==
    ASSUME TypeOK, NEW q \in Requests, NEW kind \in Kinds, NEW s \in Schedules, Ask(q, kind, s)
    PROVE  TypeOK'
<1>1. request' \in [Requests -> RequestType]
  BY DEF Ask, TypeOK, RequestType
<1> QED
  BY <1>1 DEF Ask, TypeOK, RequestType, storeVars, runVars, historyVars

LEMMA CleanerTypes ==
    ASSUME TypeOK, PlaceInv, CleanerStep
    PROVE  TypeOK'
<1> USE DEF TypeOK, storeVars, runVars, historyVars
<1>1. CASE List
  BY <1>1 DEF List
<1>2. CASE MarkDeleted
  BY <1>2 DEF MarkDeleted, PlaceInv
<1>3. ASSUME NEW s \in Schedules, Verify(s) PROVE TypeOK'
  <2>1. \/ cleaner' = [pc |-> "mark", todo |-> cleaner.todo \ {s}, on |-> s]
        \/ cleaner' = [pc |-> "verify", todo |-> cleaner.todo \ {s}, on |-> cleaner.on]
    BY <1>3 DEF Verify
  <2> QED
    BY <1>3, <2>1 DEF Verify
<1> QED
  BY <1>1, <1>2, <1>3 DEF CleanerStep

LEMMA CrashTypes ==
    ASSUME TypeOK, PlaceInv, Crash
    PROVE  TypeOK'
<1>1. request' \in [Requests -> RequestType]
  BY DEF Crash, TypeOK, RequestType, Idle
<1>2. \A q \in Cut : On(q) \in Schedules
  BY DEF Cut, PlaceInv, OnItsWay, In, Creating, Changing
<1> QED
  BY <1>1, <1>2 DEF Crash, TypeOK, RequestType, storeVars, runVars

RunType == [pc : {"none", "link", "save", "commit", "work", "dispatch", "wait",
                  "row", "count", "report", "closed"},
            end : {"none", "COMPLETED", "FAILED", "timedout"},
            result : {"none", "COMPLETED", "FAILED"},
            tries : 1 .. MaxTries]

RunAction(k) ==
    Fire(k) \/ RunStep(k) \/ HandleSignal(k) \/ Retry(k) \/ TimeOut(k)

(* A run touches none of what the stores and the requests are about.        *)
LEMMA RunFrame ==
    ASSUME NEW k \in Runs, RunAction(k)
    PROVE  UNCHANGED <<storeVars, request, cleaner, torn, clashed, missed, late>>
<1> USE DEF historyVars
<1>1. CASE Fire(k) \/ Link(k) \/ SaveStart(k) \/ Commit(k) \/ Work(k)
  BY <1>1 DEF Fire, Link, SaveStart, Commit, Work
<1>2. CASE Dispatch(k) \/ AwaitReply(k) \/ ReplyTimeout(k) \/ SaveEnd(k) \/ CountRun(k) \/ Report(k)
  BY <1>2 DEF Dispatch, AwaitReply, ReplyTimeout, SaveEnd, CountRun, Report
<1>3. CASE HandleSignal(k) \/ Retry(k) \/ TimeOut(k)
  BY <1>3 DEF HandleSignal, Retry, TimeOut
<1> QED
  BY <1>1, <1>2, <1>3 DEF RunAction, RunStep

(* A run that has work to record has a result.                              *)
HasResult(k) == run[k].pc \in {"row", "count", "report"} => run[k].result # "none"

RunOK == run \in [Runs -> RunType] /\ \A k \in Runs : HasResult(k)

LEMMA MoveTypes ==
    ASSUME RunOK, NEW k \in Runs, NEW pc, Move(k, pc),
           \/ pc \in {"link", "save", "commit", "work", "dispatch", "wait", "closed"}
           \/ pc \in {"count", "report"} /\ run[k].pc \in {"row", "count"}
    PROVE  RunOK'
  BY DEF RunOK, RunType, HasResult, Move

LEMMA EndTypes ==
    ASSUME RunOK, NEW k \in Runs, NEW result \in {"COMPLETED", "FAILED"}, Ended(k, result)
    PROVE  RunOK'
  BY DEF RunOK, RunType, HasResult, Ended

LEMMA RunStepTypes ==
    ASSUME RunOK, NEW k \in Runs, RunAction(k)
    PROVE  RunOK'
<1>1. CASE Fire(k) \/ Link(k) \/ SaveStart(k)
  BY <1>1, MoveTypes DEF Fire, Link, SaveStart
<1>2. CASE Commit(k)
  BY <1>2, MoveTypes DEF Commit, Onward
<1>3. CASE Work(k) \/ AwaitReply(k) \/ ReplyTimeout(k)
  BY <1>3, EndTypes DEF Work, AwaitReply, ReplyTimeout
<1>4. CASE Dispatch(k)
  BY <1>4, MoveTypes, EndTypes DEF Dispatch, Onward
<1>5. CASE SaveEnd(k) \/ CountRun(k)
  BY <1>5, MoveTypes DEF SaveEnd, CountRun, At
<1>6. CASE Report(k)
  <2>1. PICK end \in {run[k].end, run[k].result} :
          run' = [run EXCEPT ![k].pc = "closed", ![k].end = end]
    BY <1>6 DEF Report
  <2>2. end \in {"none", "COMPLETED", "FAILED", "timedout"}
    BY DEF RunOK, RunType
  <2>3. \A r \in RunType : [r EXCEPT !.pc = "closed", !.end = end] \in RunType
    BY <2>2 DEF RunType
  <2>4. run' = [run EXCEPT ![k] = [run[k] EXCEPT !.pc = "closed", !.end = end]]
    BY <2>1
  <2>5. run' \in [Runs -> RunType]
    BY <2>3, <2>4 DEF RunOK
  <2> QED
    BY <2>1, <2>5 DEF RunOK, HasResult
<1>7. CASE HandleSignal(k)
  BY <1>7 DEF RunOK, HasResult, HandleSignal
<1>8. CASE Retry(k)
  <2>1. run[k].tries + 1 \in 1 .. MaxTries
    BY <1>8, SchedulesAssumption DEF RunOK, RunType, Retry
  <2>2. PICK pc \in {"link", "row", "closed"} :
          /\ run' = [run EXCEPT ![k].pc = pc, ![k].tries = @ + 1]
          /\ pc = "row" => run[k].pc \in {"count", "report"}
    BY <1>8 DEF Retry, Start
  <2>3. run' \in [Runs -> RunType]
    BY <2>1, <2>2 DEF RunOK, RunType
  <2> QED
    BY <2>2, <2>3 DEF RunOK, RunType, HasResult
<1>9. CASE TimeOut(k)
  <2>1. PICK pc \in {run[k].pc, "closed"} :
          run' = [run EXCEPT ![k].end = "timedout", ![k].pc = pc]
    BY <1>9 DEF TimeOut
  <2> QED
    BY <2>1 DEF RunOK, RunType, HasResult
<1> QED
  BY <1>1, <1>2, <1>3, <1>4, <1>5, <1>6, <1>7, <1>8, <1>9 DEF RunAction, RunStep

LEMMA RunTypes ==
    ASSUME TypeOK, RunOK, NEW k \in Runs, RunAction(k)
    PROVE  TypeOK'
<1>1. k[1] \in Schedules
  BY SchedulesAssumption DEF Runs
<1>2. run' \in [Runs -> RunType]
  BY RunStepTypes DEF RunOK
<1>3. task' \in [Runs -> {"none", "RUNNING", "COMPLETED", "FAILED"}]
  <2>1. CASE SaveStart(k)
    BY <2>1 DEF TypeOK, SaveStart
  <2>2. CASE SaveEnd(k)
    BY <2>2 DEF TypeOK, RunOK, RunType, HasResult, SaveEnd, At
  <2>3. CASE UNCHANGED task
    BY <2>3 DEF TypeOK
  <2> QED
    BY <2>1, <2>2, <2>3
    DEF RunAction, RunStep, Fire, Link, Commit, Work, Dispatch, AwaitReply, ReplyTimeout,
        CountRun, Report, HandleSignal, Retry, TimeOut
<1>4. stats' \in [Schedules -> [successful : Nat, failed : Nat]]
  <2>1. CASE CountRun(k)
    <3>1. PICK c \in {"successful", "failed"} :
            stats' = [stats EXCEPT ![k[1]][c] = @ + 1] \/ stats' = stats
      BY <2>1 DEF CountRun, Counter
    <3>2. [stats[k[1]] EXCEPT ![c] = @ + 1] \in [successful : Nat, failed : Nat]
      <4>1. \A r \in [successful : Nat, failed : Nat] :
              [r EXCEPT ![c] = @ + 1] \in [successful : Nat, failed : Nat]
        OBVIOUS
      <4>2. stats[k[1]] \in [successful : Nat, failed : Nat]
        BY <1>1 DEF TypeOK
      <4> QED
        BY <4>1, <4>2
    <3>3. stats' = [stats EXCEPT ![k[1]] = [stats[k[1]] EXCEPT ![c] = @ + 1]] \/ stats' = stats
      BY <3>1
    <3> QED
      BY <3>2, <3>3, <1>1 DEF TypeOK
  <2>2. CASE UNCHANGED stats
    BY <2>2 DEF TypeOK
  <2> QED
    BY <2>1, <2>2
    DEF RunAction, RunStep, Fire, Link, SaveStart, Commit, Work, Dispatch, AwaitReply,
        ReplyTimeout, SaveEnd, Report, HandleSignal, Retry, TimeOut
<1>5. linked' \subseteq Runs
  <2>1. linked' = linked \/ linked' = linked \cup {k}
    BY DEF RunAction, RunStep, Fire, Link, SaveStart, Commit, Work, Dispatch, AwaitReply,
           ReplyTimeout, SaveEnd, CountRun, Report, HandleSignal, Retry, TimeOut
  <2> QED
    BY <2>1 DEF TypeOK
<1>6. replied' \subseteq Runs
  <2>1. replied' = replied \/ replied' = replied \cup {k}
    BY DEF RunAction, RunStep, Fire, Link, SaveStart, Commit, Work, Dispatch, AwaitReply,
           ReplyTimeout, SaveEnd, CountRun, Report, HandleSignal, Retry, TimeOut
  <2> QED
    BY <2>1 DEF TypeOK
<1>7. blurred' \subseteq Runs
  <2>1. blurred' = blurred \/ blurred' = blurred \cup {k}
    BY DEF RunAction, RunStep, Fire, Link, SaveStart, Commit, Work, Dispatch, AwaitReply,
           ReplyTimeout, SaveEnd, CountRun, Report, HandleSignal, Retry, TimeOut, historyVars
  <2> QED
    BY <2>1 DEF TypeOK
<1>8. UNCHANGED <<storeVars, request, cleaner, torn, clashed, missed, late>>
  BY RunFrame
<1> QED
  BY <1>2, <1>3, <1>4, <1>5, <1>6, <1>7, <1>8 DEF TypeOK, RunType, storeVars

-----------------------------------------------------------------------------
(* What a request does to the stores: it touches no schedule but its own,   *)
(* no row or Temporal schedule is lost without a trace, and what Temporal   *)
(* has deleted is gone.                                                     *)

LEMMA ToldStatus ==
    ASSUME TypeOK, PlaceInv, NEW q \in Requests, In(q, {"temporal"}), Told(q)
    PROVE  /\ request[q].kind \in Statuses => temporal'[On(q)] = Target(request[q].kind)
           /\ Is(q, "update") => temporal' = temporal /\ action'[On(q)] = q
           /\ ~Is(q, "update") => action' = action
<1>1. On(q) \in Schedules
      /\ request[q].kind \in {"pause", "resume", "update", "delete"}
  BY RequestOn DEF In, Changing
<1>2. Is(q, "update") => temporal' = temporal /\ action'[On(q)] = q
  BY <1>1 DEF Told, TypeOK, Is
<1>3. ~Is(q, "update") => action' = action
  BY <1>1 DEF Told, TypeOK, Is
<1>4. request[q].kind \in Statuses => temporal'[On(q)] = Target(request[q].kind)
  BY <1>1 DEF Told, TypeOK, Is, Statuses, Target
<1> QED
  BY <1>2, <1>3, <1>4

LEMMA WrittenStatus ==
    ASSUME TypeOK, PlaceInv, NEW q \in Requests, In(q, {"row"}), Written(q)
    PROVE  /\ Is(q, "pause") => row'[On(q)] = "PAUSED"
           /\ Is(q, "resume") => row'[On(q)] = "ACTIVE"
           /\ Is(q, "delete") => row'[On(q)] = "DELETED"
           /\ Is(q, "update") => row' = row /\ config'[On(q)] = q
           /\ ~Is(q, "update") => config' = config
<1>1. On(q) \in Schedules
      /\ request[q].kind \in {"pause", "resume", "update", "delete"}
  BY RequestOn DEF In, Changing
<1>2. Is(q, "update") => row' = row /\ config'[On(q)] = q
  BY <1>1 DEF Written, TypeOK, Is
<1>3. ~Is(q, "update") => config' = config
  BY <1>1 DEF Written, TypeOK, Is
<1>4. /\ Is(q, "pause") => row'[On(q)] = "PAUSED"
      /\ Is(q, "resume") => row'[On(q)] = "ACTIVE"
      /\ Is(q, "delete") => row'[On(q)] = "DELETED"
  BY <1>1 DEF Written, TypeOK, Is
<1> QED
  BY <1>2, <1>3, <1>4

LEMMA StoreFrame ==
    ASSUME TypeOK, PlaceInv, NEW q \in Requests, RequestStep(q), NEW s \in Schedules
    PROVE  /\ s # On(q) => /\ temporal'[s] = temporal[s] /\ action'[s] = action[s]
                           /\ row'[s] = row[s] /\ config'[s] = config[s]
           /\ row[s] # "none" => row'[s] # "none"
           /\ temporal[s] # "none" => temporal'[s] # "none"
           /\ temporal[s] = "deleted" => temporal'[s] = "deleted"
<1>1. CASE Count(q) \/ Find(q)
  BY <1>1 DEF Count, Find, storeVars
<1>2. CASE Create(q)
  <2>1. temporal[On(q)] = "none"
    BY <1>2 DEF Create, PlaceInv, Owned, In
  <2>2. Created(On(q), q) \/ UNCHANGED <<temporal, action>>
    BY <1>2 DEF Create
  <2> QED
    BY <1>2, <2>1, <2>2 DEF Create, Created, TypeOK
<1>3. CASE Insert(q)
  <2>1. Inserted(On(q), q) \/ UNCHANGED <<row, config>>
    BY <1>3 DEF Insert
  <2> QED
    BY <1>3, <2>1 DEF Insert, Inserted, TypeOK
<1>4. CASE Rollback(q)
  BY <1>4 DEF Rollback, TypeOK
<1>5. CASE Tell(q)
  <2>1. CASE Told(q) /\ temporal[On(q)] # "deleted"
    <3>1. In(q, {"temporal"}) /\ temporal[On(q)] # "deleted"
      BY <1>5, <2>1 DEF Tell, In
    <3>2. s # On(q) => temporal'[s] = temporal[s] /\ action'[s] = action[s]
      BY <2>1 DEF Told, TypeOK
    <3>3. On(q) \in Schedules /\ request[q].kind \in {"pause", "resume", "update", "delete"}
      BY <3>1, RequestOn DEF In, Changing
    <3>4. s = On(q) /\ temporal[s] # "none" => temporal'[s] # "none"
      BY <2>1, <3>1, <3>3, ToldStatus DEF Is, Statuses, Target
    <3> QED
      BY <1>5, <3>1, <3>2, <3>4 DEF Tell
  <2> QED
    BY <1>5, <2>1 DEF Tell
<1>6. CASE Write(q)
  <2>1. CASE Written(q)
    <3>1. In(q, {"row"})
      BY <1>6 DEF Write, In
    <3>2. s # On(q) => row'[s] = row[s] /\ config'[s] = config[s]
      BY <2>1 DEF Written, TypeOK
    <3>3. On(q) \in Schedules /\ request[q].kind \in {"pause", "resume", "update", "delete"}
      BY <3>1, RequestOn DEF In, Changing
    <3>4. s = On(q) /\ row[s] # "none" => row'[s] # "none"
      BY <2>1, <3>1, <3>3, WrittenStatus DEF Is
    <3> QED
      BY <1>6, <3>2, <3>4 DEF Write
  <2> QED
    BY <1>6, <2>1 DEF Write
<1> QED
  BY <1>1, <1>2, <1>3, <1>4, <1>5, <1>6 DEF RequestStep

LEMMA OthersKeepTheirPlace ==
    ASSUME TypeOK, PlaceInv, NEW q \in Requests, RequestStep(q), NEW r \in Requests \ {q}
    PROVE  OnItsWay(r)' /\ Owned(r)'
<1>1. request'[r] = request[r]
  BY RequestFrame, GoEffect
<1>2. OnItsWay(r) /\ Owned(r)
  BY DEF PlaceInv
<1>3. On(r)' = On(r) /\ (On(q)' = On(q) \/ On(q)' = None)
      /\ \A p \in Requests \ {q} : On(p)' = On(p)
  BY RequestFrame, GoEffect DEF On
<1>4. On(r) \in Schedules /\ Alone(r) => Alone(r)' /\ On(q) # On(r)
  BY <1>3, SchedulesAssumption DEF Alone
<1>5. OnItsWay(r)'
  BY <1>1, <1>2, <1>3, StoreFrame DEF OnItsWay, In, Is
<1>6. torn \subseteq torn'
  BY RequestFrame
<1>7. In(r, Creating) => On(r) \in Schedules
  BY <1>2 DEF OnItsWay
<1>8. Owned(r)'
  BY <1>1, <1>2, <1>3, <1>4, <1>6, <1>7, StoreFrame DEF Owned, In, Creating
<1> QED
  BY <1>5, <1>8

LEMMA OwnPlace ==
    ASSUME TypeOK, PlaceInv, NEW q \in Requests, RequestStep(q)
    PROVE  OnItsWay(q)' /\ Owned(q)'
<1> USE DEF OnItsWay, Owned, In, Creating, Changing
<1>1. OnItsWay(q) /\ Owned(q)
  BY DEF PlaceInv
<1>2. ASSUME Alone(q), On(q)' = On(q) PROVE Alone(q)'
  <2>1. \A p \in Requests \ {q} : On(p)' = On(p)
    BY RequestFrame, GoEffect DEF On
  <2> QED
    BY <1>2, <2>1 DEF Alone
<1>3. CASE Count(q)
  <2>1. PICK pc \in {"create", "done"} : Go(q, pc)
    BY <1>3 DEF Count
  <2> QED
    BY <1>1, <1>2, <1>3, <2>1, GoEffect DEF Count, storeVars, On, Is
<1>4. CASE Create(q)
  <2>1. PICK pc \in {"insert", "done"} : Go(q, pc) /\ (pc = "insert" => Created(On(q), q))
    BY <1>4 DEF Create
  <2> QED
    BY <1>1, <1>2, <1>4, <2>1, GoEffect DEF Create, Created, On, Is, TypeOK
<1>5. CASE Insert(q)
  <2>1. PICK pc \in {"rollback", "done"} :
          Go(q, pc) /\ (pc = "rollback" /\ On(q) \notin torn' => UNCHANGED row)
    BY <1>5 DEF Insert
  <2> QED
    BY <1>1, <1>2, <1>5, <2>1, GoEffect DEF Insert, On, Is
<1>6. CASE Rollback(q)
  BY <1>6, GoEffect DEF Rollback
<1>7. CASE Find(q)
  <2>1. PICK pc \in {"temporal", "done"} : Go(q, pc)
    BY <1>7 DEF Find
  <2> QED
    BY <1>1, <1>7, <2>1, GoEffect DEF Find, storeVars, On
<1>8. CASE Tell(q)
  <2>1. PICK pc \in {"row", "done"} : Go(q, pc)
    BY <1>8 DEF Tell, AfterError
  <2> QED
    BY <1>1, <1>8, <2>1, GoEffect DEF Tell, On
<1>9. CASE Write(q)
  BY <1>9, GoEffect DEF Write
<1> QED
  BY <1>3, <1>4, <1>5, <1>6, <1>7, <1>8, <1>9 DEF RequestStep

LEMMA RequestPlaces ==
    ASSUME TypeOK, PlaceInv, NEW q \in Requests, RequestStep(q)
    PROVE  PlaceInv'
<1>1. \A r \in Requests : OnItsWay(r)' /\ Owned(r)'
  BY OthersKeepTheirPlace, OwnPlace
<1>2. ASSUME NEW s \in Schedules, row'[s] # "none" PROVE temporal'[s] # "none"
  <2>1. CASE Insert(q) /\ s = On(q)
    BY <2>1 DEF Insert, PlaceInv, Owned, In
  <2>2. CASE row[s] # "none"
    BY <2>2, StoreFrame DEF PlaceInv
  <2>3. CASE ~Insert(q) /\ row[s] = "none" /\ s = On(q)
    <3>1. CASE Write(q)
      BY <2>3, <3>1 DEF Write, PlaceInv, OnItsWay, In, Changing
    <3> QED
      BY <1>2, <2>3, <3>1 DEF RequestStep, Count, Create, Rollback, Find, Tell, storeVars
  <2> QED
    BY <1>2, <2>1, <2>2, <2>3, StoreFrame
<1>3. UNCHANGED cleaner
  BY RequestFrame
<1>4. \A s \in cleaner'.todo : s \in Schedules /\ row'[s] # "none"
  BY <1>3, StoreFrame DEF PlaceInv
<1>5. cleaner'.pc = "mark" =>
         /\ cleaner'.on \in Schedules
         /\ row'[cleaner'.on] # "none" /\ temporal'[cleaner'.on] = "deleted"
  BY <1>3, StoreFrame DEF PlaceInv
<1> QED
  BY <1>1, <1>2, <1>4, <1>5 DEF PlaceInv

LEMMA AskPlaces ==
    ASSUME TypeOK, PlaceInv, NEW q \in Requests, NEW kind \in Kinds, NEW s \in Schedules,
           Ask(q, kind, s)
    PROVE  PlaceInv'
<1>1. /\ request'[q] = [pc |-> IF kind = "create" THEN "count" ELSE "find", kind |-> kind, on |-> s]
      /\ \A r \in Requests \ {q} : request'[r] = request[r]
      /\ UNCHANGED <<temporal, action, row, cleaner, torn>>
  BY DEF Ask, TypeOK, storeVars, historyVars
<1>2. OnItsWay(q)'
  <2>1. kind \in {"create", "pause", "resume", "update", "delete"}
    BY SchedulesAssumption
  <2> QED
    BY <1>1, <2>1 DEF Ask, OnItsWay, In, Is, On, Creating, Changing
<1>3. Owned(q)'
  BY <1>1 DEF Ask, Owned, In, On, Alone
<1>4. ASSUME NEW r \in Requests \ {q} PROVE OnItsWay(r)' /\ Owned(r)'
  <2>1. OnItsWay(r) /\ Owned(r)
    BY DEF PlaceInv
  <2>2. OnItsWay(r)'
    BY <1>1, <2>1 DEF OnItsWay, In, Is, On
  <2>3. Alone(r) /\ row[On(r)] = "none" /\ On(r) \in Schedules => Alone(r)'
    BY <1>1 DEF Ask, Alone, On
  <2> QED
    BY <1>1, <2>1, <2>2, <2>3 DEF Owned, OnItsWay, In, On, Creating
<1> QED
  BY <1>1, <1>2, <1>3, <1>4 DEF PlaceInv

(* The cleaner marks rows, and nothing else.                                *)
LEMMA CleanerFrame ==
    ASSUME TypeOK, PlaceInv, CleanerStep
    PROVE  /\ UNCHANGED <<temporal, action, config, request, historyVars, runVars>>
           /\ \A s \in Schedules :
                row'[s] = row[s]
                \/ (row'[s] = "DELETED" /\ row[s] # "none" /\ temporal[s] = "deleted")
<1>1. CASE List \/ \E s \in Schedules : Verify(s)
  BY <1>1 DEF List, Verify, storeVars
<1>2. CASE MarkDeleted
  BY <1>2 DEF MarkDeleted, PlaceInv, TypeOK
<1> QED
  BY <1>1, <1>2 DEF CleanerStep

LEMMA CleanerPlaces ==
    ASSUME TypeOK, PlaceInv, CleanerStep
    PROVE  PlaceInv'
<1>1. \A r \in Requests : On(r)' = On(r)
  BY CleanerFrame DEF On
<1>2. ASSUME NEW r \in Requests PROVE OnItsWay(r)' /\ Owned(r)'
  <2>1. OnItsWay(r) /\ Owned(r)
    BY DEF PlaceInv
  <2>2. OnItsWay(r)'
    BY <1>1, <2>1, CleanerFrame DEF OnItsWay, In, Is
  <2>3. Alone(r) => Alone(r)'
    BY <1>1 DEF Alone
  <2>4. Owned(r)'
    BY <1>1, <2>1, <2>3, CleanerFrame DEF Owned, OnItsWay, In, Creating, historyVars
  <2> QED
    BY <2>2, <2>4
<1>3. \A s \in Schedules : row'[s] # "none" => temporal'[s] # "none"
  BY CleanerFrame DEF PlaceInv
<1>4. CASE List
  BY <1>2, <1>3, <1>4 DEF List, PlaceInv, Live, storeVars
<1>5. CASE MarkDeleted
  <2>1. cleaner'.pc = "verify" /\ cleaner'.todo = cleaner.todo
    BY <1>5 DEF MarkDeleted, TypeOK
  <2> QED
    BY <1>2, <1>3, <2>1, CleanerFrame DEF PlaceInv
<1>6. ASSUME NEW s \in Schedules, Verify(s) PROVE PlaceInv'
  <2>1. /\ cleaner.pc = "verify" /\ s \in cleaner.todo
        /\ \/ /\ NotFound(s)
              /\ cleaner' = [pc |-> "mark", todo |-> cleaner.todo \ {s}, on |-> s]
           \/ cleaner' = [pc |-> "verify", todo |-> cleaner.todo \ {s}, on |-> cleaner.on]
    BY <1>6 DEF Verify, TypeOK
  <2> QED
    BY <1>2, <1>3, <1>6, <2>1 DEF Verify, NotFound, PlaceInv, storeVars
<1> QED
  BY <1>4, <1>5, <1>6 DEF CleanerStep

LEMMA CrashPlaces ==
    ASSUME TypeOK, PlaceInv, Crash
    PROVE  PlaceInv'
<1>1. \A r \in Requests : request'[r].pc \in {"new", "done"}
  BY DEF Crash, Idle
<1>2. cleaner'.pc = "list" /\ cleaner'.todo = {} /\ UNCHANGED storeVars
  BY DEF Crash
<1> QED
  BY <1>1, <1>2 DEF PlaceInv, OnItsWay, Owned, In, Creating, Changing, storeVars

LEMMA RunPlaces ==
    ASSUME PlaceInv, UNCHANGED <<storeVars, request, cleaner, torn, clashed, missed, late>>
    PROVE  PlaceInv'
  BY DEF PlaceInv, OnItsWay, Owned, Alone, In, Is, On, storeVars

-----------------------------------------------------------------------------
(* The base: types, and the places of the requests.                         *)

Base == TypeOK /\ RunOK /\ PlaceInv

LEMMA NextCases ==
    ASSUME Next
    PROVE  \/ \E q \in Requests : RequestStep(q)
           \/ \E q \in Requests, kind \in Kinds, s \in Schedules : Ask(q, kind, s)
           \/ CleanerStep
           \/ \E k \in Runs : RunAction(k)
           \/ Crash
  BY DEF Next, RunAction

LEMMA BaseInit == Init => Base
<1> SUFFICES ASSUME Init PROVE Base
  OBVIOUS
<1>1. request = [q \in Requests |-> Idle("new")]
  BY DEF Init
<1>2. TypeOK
  <2>1. 1 \in 1 .. MaxTries
    BY SchedulesAssumption
  <2>2. [pc |-> "none", end |-> "none", result |-> "none", tries |-> 1] \in RunType
    BY <2>1 DEF RunType
  <2>3. run \in [Runs -> RunType]
    BY <2>2 DEF Init
  <2>4. temporal \in [Schedules -> {"none", "running", "paused", "deleted"}]
        /\ row \in [Schedules -> {"none", "ACTIVE", "PAUSED", "DELETED"}]
    BY DEF Init
  <2>5. Idle("new") \in RequestType
    BY DEF Idle, RequestType
  <2> QED
    BY <1>1, <2>3, <2>4, <2>5 DEF Init, TypeOK, RunType, RequestType
<1>3. RunOK
  BY <1>2 DEF Init, RunOK, TypeOK, RunType, HasResult
<1>4. \A s \in Schedules : row[s] # "none" => temporal[s] # "none"
  BY DEF Init
<1>5. PlaceInv
  BY <1>1, <1>4 DEF Init, PlaceInv, OnItsWay, Owned, In, Idle, Creating, Changing
<1> QED
  BY <1>2, <1>3, <1>5 DEF Base

LEMMA BaseStep ==
    ASSUME Base, [Next]_vars
    PROVE  Base'
<1> USE DEF Base
<1>1. ASSUME NEW k \in Runs, RunAction(k) PROVE Base'
  BY <1>1, RunTypes, RunStepTypes, RunFrame, RunPlaces
<1>2. ASSUME UNCHANGED run PROVE RunOK'
  BY <1>2 DEF RunOK, HasResult
<1>3. ASSUME NEW q \in Requests, RequestStep(q) PROVE Base'
  BY <1>2, <1>3, RequestTypes, RequestPlaces, RequestFrame DEF runVars
<1>4. ASSUME NEW q \in Requests, NEW kind \in Kinds, NEW s \in Schedules, Ask(q, kind, s)
      PROVE  Base'
  BY <1>2, <1>4, AskTypes, AskPlaces DEF Ask, runVars
<1>5. CASE CleanerStep
  BY <1>2, <1>5, CleanerTypes, CleanerPlaces, CleanerFrame DEF runVars
<1>6. CASE Crash
  BY <1>2, <1>6, CrashTypes, CrashPlaces DEF Crash, runVars
<1>7. CASE UNCHANGED vars
  <2>1. TypeOK'
    BY <1>7 DEF vars, TypeOK, storeVars, runVars, historyVars
  <2> QED
    BY <1>2, <1>7, <2>1, RunPlaces DEF vars, runVars, historyVars
<1> QED
  BY <1>1, <1>3, <1>4, <1>5, <1>6, <1>7, NextCases

(* Every variable of the two stores, the requests, the cleaner and the runs *)
(* keeps its type.                                                          *)
THEOREM TypeCorrect == Spec => []TypeOK
<1>1. Base => TypeOK
  BY DEF Base
<1> QED
  BY <1>1, BaseInit, BaseStep, PTL DEF Spec

-----------------------------------------------------------------------------
(* Deleted schedules.                                                       *)

LEMMA QuietInit == Init => QuietInv
  BY DEF Init, QuietInv, DeletedStaysQuiet, Deleting, In, Idle

LEMMA RequestKeepsMissed ==
    ASSUME NEW q \in Requests, RequestStep(q), missed \subseteq torn
    PROVE  missed' \subseteq torn'
<1>1. CASE Count(q) \/ Create(q) \/ Insert(q) \/ Rollback(q) \/ Find(q) \/ Write(q)
  BY <1>1 DEF Count, Create, Insert, Rollback, Find, Write
<1>2. CASE Tell(q)
  BY <1>2 DEF Tell
<1> QED
  BY <1>1, <1>2 DEF RequestStep

LEMMA RequestQuiet ==
    ASSUME Base, QuietInv, NEW q \in Requests, RequestStep(q)
    PROVE  QuietInv'
<1> USE DEF Base
<1>0. On(q) \in Schedules /\ missed \subseteq missed'
  BY RequestFrame
<1>1. ASSUME row'[On(q)] = "DELETED", temporal'[On(q)] \in {"running", "paused"}
      PROVE  On(q) \in missed'
  <2>1. row[On(q)] = "DELETED" => On(q) \in missed'
    <3>1. temporal[On(q)] \in {"none", "running", "paused", "deleted"}
      BY <1>0 DEF TypeOK
    <3>2. row[On(q)] = "DELETED" => temporal[On(q)] # "none"
      BY <1>0 DEF PlaceInv
    <3> QED
      BY <1>0, <1>1, <3>1, <3>2, StoreFrame DEF QuietInv, DeletedStaysQuiet
  <2>2. CASE Write(q) /\ Written(q)
    <3>1. In(q, {"row"}) /\ request[q].kind \in {"pause", "resume", "update", "delete"}
      BY <2>2, RequestOn DEF Write, In, Changing
    <3>2. Is(q, "delete") \/ row[On(q)] = "DELETED"
      BY <1>1, <2>2, <3>1, WrittenStatus DEF Is
    <3>3. UNCHANGED <<temporal, missed>>
      BY <2>2 DEF Write
    <3> QED
      BY <1>1, <2>1, <3>1, <3>2, <3>3 DEF QuietInv, Deleting
  <2>3. CASE Insert(q) /\ Inserted(On(q), q)
    BY <1>0, <1>1, <2>3 DEF Inserted, TypeOK
  <2>4. CASE UNCHANGED row
    BY <1>1, <2>1, <2>4
  <2> QED
    BY <2>2, <2>3, <2>4 DEF RequestStep, Count, Create, Insert, Rollback, Find, Tell, Write, storeVars
<1>2. DeletedStaysQuiet'
  BY <1>0, <1>1, StoreFrame DEF QuietInv, DeletedStaysQuiet
<1>3. ASSUME NEW r \in Requests \ {q} PROVE Deleting(r)'
  <2>1. request'[r] = request[r]
    BY RequestFrame, GoEffect
  <2>2. In(r, {"row"}) => On(r) \in Schedules
    BY RequestOn DEF In, Changing
  <2> QED
    BY <1>0, <2>1, <2>2, StoreFrame DEF QuietInv, Deleting, In, Is, On
<1>4. Deleting(q)'
  <2>1. CASE Tell(q)
    <3>1. PICK pc \in {"row", "done"} : Go(q, pc)
      BY <2>1 DEF Tell, AfterError
    <3>2. ASSUME pc = "row", Is(q, "delete")
          PROVE  temporal'[On(q)] = "deleted" \/ On(q) \in missed'
      <4>1. CASE Told(q)
        <5>1. In(q, {"temporal"})
          BY <2>1 DEF Tell, In
        <5> QED
          BY <3>2, <4>1, <5>1, ToldStatus DEF Is, Statuses, Target
      <4>2. CASE temporal[On(q)] = "deleted" /\ UNCHANGED temporal
        BY <4>2
      <4> QED
        BY <2>1, <3>2, <4>1, <4>2 DEF Tell
    <3> QED
      BY <3>1, <3>2, GoEffect DEF Deleting, In, Is, On
  <2>2. CASE ~Tell(q)
    <3>1. \E pc \in {"create", "insert", "rollback", "temporal", "done"} : Go(q, pc)
      BY <2>2 DEF RequestStep, Count, Create, Insert, Rollback, Find, Write
    <3> QED
      BY <3>1, GoEffect DEF Deleting, In
  <2> QED
    BY <2>1, <2>2
<1>5. missed' \subseteq torn'
  BY RequestKeepsMissed DEF QuietInv
<1> QED
  BY <1>2, <1>3, <1>4, <1>5 DEF QuietInv

LEMMA QuietStep ==
    ASSUME Base, QuietInv, [Next]_vars
    PROVE  QuietInv'
<1>1. ASSUME UNCHANGED <<storeVars, request, missed, torn>> PROVE QuietInv'
  BY <1>1 DEF QuietInv, DeletedStaysQuiet, Deleting, In, Is, On, storeVars
<1>2. ASSUME NEW k \in Runs, RunAction(k) PROVE QuietInv'
  BY <1>1, <1>2, RunFrame
<1>3. ASSUME NEW q \in Requests, RequestStep(q) PROVE QuietInv'
  BY <1>3, RequestQuiet
<1>4. ASSUME NEW q \in Requests, NEW kind \in Kinds, NEW s \in Schedules, Ask(q, kind, s)
      PROVE  QuietInv'
  <2>1. /\ request'[q].pc \in {"count", "find"}
        /\ \A r \in Requests \ {q} : request'[r] = request[r]
        /\ UNCHANGED <<temporal, row, missed, torn>>
    BY <1>4 DEF Ask, Base, TypeOK, storeVars, historyVars
  <2> QED
    BY <2>1 DEF QuietInv, DeletedStaysQuiet, Deleting, In, Is, On
<1>5. CASE CleanerStep
  <2>1. DeletedStaysQuiet'
    BY <1>5, CleanerFrame DEF Base, QuietInv, DeletedStaysQuiet, historyVars
  <2> QED
    BY <1>5, <2>1, CleanerFrame DEF Base, QuietInv, Deleting, In, Is, On, historyVars
<1>6. CASE Crash
  <2>1. \A r \in Requests : request'[r].pc \in {"new", "done"}
    BY <1>6 DEF Crash, Idle
  <2>2. missed \subseteq missed' /\ missed' \subseteq torn' /\ UNCHANGED <<row, temporal>>
    BY <1>6 DEF Crash, QuietInv, storeVars
  <2> QED
    BY <2>1, <2>2 DEF QuietInv, DeletedStaysQuiet, Deleting, In
<1>7. CASE UNCHANGED vars
  BY <1>1, <1>7 DEF vars, historyVars
<1> QED
  BY <1>2, <1>3, <1>4, <1>5, <1>6, <1>7, NextCases

(* No race of requests, orphan detection or crash makes a row say deleted   *)
(* of a schedule that Temporal still runs: that takes a failure to delete   *)
(* it there.                                                                *)
THEOREM DeletedSchedulesAreQuiet == Spec => []DeletedStaysQuiet
<1>1. Init => Base /\ QuietInv
  BY BaseInit, QuietInit
<1>2. Base /\ QuietInv /\ [Next]_vars => (Base /\ QuietInv)'
  BY BaseStep, QuietStep
<1>3. QuietInv => DeletedStaysQuiet
  BY DEF QuietInv
<1> QED
  BY <1>1, <1>2, <1>3, PTL DEF Spec

-----------------------------------------------------------------------------
(* Schedules where no write was lost and no conflicting requests met.       *)

LEMMA Conflicts ==
    ASSUME NEW a \in Statuses \cup {"update"}, NEW b \in Statuses \cup {"update"}
    PROVE  /\ Conflict(a, b) <=> Conflict(b, a)
           /\ a \in Statuses /\ b \in Statuses /\ ~Conflict(a, b) => a = b
           /\ Conflict("update", "update")
<1>1. {a, b} = {b, a} /\ {"update", "update"} = {"update"}
  OBVIOUS
<1>2. ASSUME a = "pause", b = "delete" PROVE {a, b} = {"delete", "pause"}
  BY <1>2
<1>3. ASSUME a = "resume", b = "delete" PROVE {a, b} = {"delete", "resume"}
  BY <1>3
<1>4. ASSUME a = "resume", b = "pause" PROVE {a, b} = {"pause", "resume"}
  BY <1>4
<1> QED
  BY <1>1, <1>2, <1>3, <1>4 DEF Conflict, Statuses

(* Requests that have been told what to change, on the same clean schedule. *)
LEMMA SameStatus ==
    ASSUME AgreeInv, PlaceInv, NEW q \in Requests, NEW r \in Requests \ {q},
           In(q, {"temporal", "row"}), In(r, {"temporal", "row"}),
           On(q) = On(r), On(q) \in Clean
    PROVE  /\ request[q].kind \in Statuses /\ request[r].kind \in Statuses
                => request[q].kind = request[r].kind
           /\ ~(Is(q, "update") /\ Is(r, "update"))
<1>1. request[q].kind \in Statuses \cup {"update"} /\ request[r].kind \in Statuses \cup {"update"}
  BY RequestOn DEF In, Changing, Statuses
<1>2. ~Conflict(request[q].kind, request[r].kind)
  BY DEF AgreeInv, Peaceful
<1> QED
  BY <1>1, <1>2, Conflicts DEF Is

(* What the step of a request leaves alone when the schedule stays clean.   *)
LEMMA CleanFrame ==
    ASSUME Base, NEW q \in Requests, RequestStep(q)
    PROVE  /\ Clean' \subseteq Clean
           /\ \A r \in Requests \ {q} : request'[r] = request[r] /\ On(r)' = On(r)
           /\ On(q)' \in {On(q), None}
  BY RequestFrame, GoEffect DEF Clean, On, Base

LEMMA RequestPeace ==
    ASSUME Base, AgreeInv, NEW q \in Requests, RequestStep(q)
    PROVE  \A a, b \in Requests : Peaceful(a, b)'
<1> USE DEF Base
<1>1. \A a, b \in Requests \ {q} : Peaceful(a, b)'
  BY CleanFrame DEF AgreeInv, Peaceful, In
<1>2. ASSUME NEW r \in Requests \ {q}, In(q, {"temporal", "row"})', In(r, {"temporal", "row"})',
             On(q)' = On(r)', On(q)' \in Clean'
      PROVE  /\ ~Conflict(request'[q].kind, request'[r].kind)
             /\ ~Conflict(request'[r].kind, request'[q].kind)
  <2>1. PICK pc \in Acting \cup {"find", "done"} : Go(q, pc)
    BY RequestFrame
  <2>2. /\ request'[q].pc = pc /\ pc \in {"temporal", "row"}
        /\ request'[q].kind = request[q].kind /\ On(q)' = On(q)
    BY <1>2, <2>1, GoEffect DEF In, On
  <2>3. request'[r] = request[r] /\ On(r)' = On(r) /\ On(q) \in Clean
    BY <2>2, <1>2, CleanFrame
  <2>4. CASE Find(q)
    <3>1. ~Clashing(q)
      BY <1>2, <2>1, <2>2, <2>4, GoEffect DEF Find, Clean
    <3>2. In(q, Changing) /\ In(r, Changing)
      BY <1>2, <2>3, <2>4 DEF Find, In, Changing
    <3>3. /\ request[q].kind \in Statuses \cup {"update"}
          /\ request[r].kind \in Statuses \cup {"update"}
      BY <3>2, RequestOn DEF In, Changing, Creating, Statuses
    <3>4. ~Conflict(request[q].kind, request[r].kind)
      BY <1>2, <2>2, <2>3, <3>1 DEF Clashing, In, On
    <3> QED
      BY <2>2, <2>3, <3>3, <3>4, Conflicts
  <2>5. CASE Tell(q)
    <3>1. In(q, {"temporal", "row"})
      BY <2>5 DEF Tell, In
    <3>2. In(r, {"temporal", "row"}) /\ On(q) = On(r)
      BY <1>2, <2>2, <2>3 DEF In
    <3> QED
      BY <2>2, <2>3, <3>1, <3>2 DEF AgreeInv, Peaceful
  <2>6. CASE Count(q) \/ Create(q) \/ Insert(q) \/ Rollback(q) \/ Write(q)
    <3>1. \E p \in {"create", "insert", "rollback", "done"} : Go(q, p)
      BY <2>6 DEF Count, Create, Insert, Rollback, Write
    <3> QED
      BY <2>2, <3>1, GoEffect
  <2> QED
    BY <2>4, <2>5, <2>6 DEF RequestStep
<1>3. \A r \in Requests \ {q} : Peaceful(q, r)' /\ Peaceful(r, q)'
  BY <1>2 DEF Peaceful
<1>4. Peaceful(q, q)'
  BY DEF Peaceful
<1> QED
  BY <1>1, <1>3, <1>4

LEMMA OthersHaveTold ==
    ASSUME Base, AgreeInv, NEW q \in Requests, RequestStep(q), NEW r \in Requests \ {q}
    PROVE  HasTold(r)'
<1> USE DEF Base
<1>1. SUFFICES ASSUME In(r, {"row"})', On(r)' \in Clean'
               PROVE  /\ request'[r].kind \in Statuses =>
                            temporal'[On(r)'] = Target(request'[r].kind)
                      /\ Is(r, "update")' => action'[On(r)'] = r
  BY DEF HasTold
<1>2. request'[r] = request[r] /\ On(r)' = On(r) /\ On(r) \in Clean /\ On(r) \in Schedules
  BY <1>1, CleanFrame DEF Clean
<1>3. In(r, {"row"}) /\ HasTold(r)
  BY <1>1, <1>2 DEF AgreeInv, In
<1>4. CASE On(q) # On(r)
  BY <1>2, <1>3, <1>4, StoreFrame DEF HasTold, Is
<1>5. CASE temporal' = temporal /\ action' = action
  BY <1>2, <1>3, <1>5 DEF HasTold, Is
<1>6. CASE On(q) = On(r) /\ (Create(q) \/ Rollback(q))
  <2>1. On(q) \notin torn => Alone(q)
    BY <1>6 DEF Create, Rollback, PlaceInv, Owned, In
  <2> QED
    BY <1>2, <1>6, <2>1 DEF Alone, Clean
<1>7. CASE On(q) = On(r) /\ Tell(q) /\ Told(q)
  <2>1. In(q, {"temporal"}) /\ In(q, {"temporal", "row"}) /\ In(r, {"temporal", "row"})
    BY <1>3, <1>7 DEF Tell, In
  <2>2. request[q].kind \in Statuses \cup {"update"}
    BY <2>1, RequestOn DEF In, Changing, Statuses
  <2>3. request[r].kind \in Statuses => temporal'[On(r)] = Target(request[r].kind)
    BY <1>2, <1>3, <1>7, <2>1, <2>2, SameStatus, ToldStatus DEF HasTold, Is
  <2>4. Is(r, "update") => action'[On(r)] = r
    BY <1>2, <1>3, <1>7, <2>1, <2>2, SameStatus, ToldStatus DEF HasTold, Is
  <2> QED
    BY <1>2, <2>3, <2>4 DEF Is
<1>8. CASE Tell(q) /\ ~Told(q)
  BY <1>5, <1>8 DEF Tell
<1> QED
  BY <1>4, <1>5, <1>6, <1>7, <1>8 DEF RequestStep, Count, Insert, Find, Write, storeVars

LEMMA OwnHasTold ==
    ASSUME Base, AgreeInv, NEW q \in Requests, RequestStep(q)
    PROVE  HasTold(q)'
<1> USE DEF Base
<1>1. CASE Tell(q)
  <2>1. PICK pc \in {"row", "done"} : Go(q, pc)
    BY <1>1 DEF Tell, AfterError
  <2>2. CASE pc = "done"
    BY <2>1, <2>2, GoEffect DEF HasTold, In
  <2>3. CASE pc = "row"
    <3>1. request'[q].kind = request[q].kind /\ On(q)' = On(q)
      BY <2>1, <2>3, GoEffect DEF On
    <3>2. In(q, {"temporal"}) /\ request[q].kind \in Statuses \cup {"update"}
      BY <1>1, RequestOn DEF Tell, In, Changing, Statuses
    <3>3. CASE Told(q)
      BY <3>1, <3>2, <3>3, ToldStatus DEF HasTold, Is
    <3>4. CASE temporal[On(q)] = "deleted" /\ Go(q, AfterError(q)) /\ UNCHANGED temporal
      <4>1. Is(q, "delete")
        BY <2>1, <2>3, <3>4, GoEffect DEF AfterError
      <4> QED
        BY <3>1, <3>4, <4>1 DEF HasTold, Is, Target
    <3>5. CASE Go(q, AfterError(q)) /\ torn' = IF Is(q, "delete") THEN torn \cup {On(q)} ELSE torn
      <4>1. Is(q, "delete")
        BY <2>1, <2>3, <3>5, GoEffect DEF AfterError
      <4> QED
        BY <3>1, <3>5, <4>1 DEF HasTold, Clean
    <3> QED
      BY <1>1, <3>3, <3>4, <3>5 DEF Tell
  <2> QED
    BY <2>1, <2>2, <2>3
<1>2. CASE ~Tell(q)
  <2>1. \E pc \in {"create", "insert", "rollback", "temporal", "done"} : Go(q, pc)
    BY <1>2 DEF RequestStep, Count, Create, Insert, Rollback, Find, Write
  <2> QED
    BY <2>1, GoEffect DEF HasTold, In
<1> QED
  BY <1>1, <1>2

LEMMA RequestMatch ==
    ASSUME Base, AgreeInv, NEW q \in Requests, RequestStep(q), NEW s \in Clean'
    PROVE  Match(s)' \/ \E r \in Requests : Pending(s, r)'
<1> USE DEF Base
<1>1. s \in Clean /\ s \in Schedules
  BY CleanFrame DEF Clean
<1>2. \A r \in Requests \ {q} : Pending(s, r) => Pending(s, r)'
  BY CleanFrame DEF Pending, In
<1>3. Match(s) \/ \E r \in Requests : Pending(s, r)
  BY <1>1 DEF AgreeInv
<1>4. ASSUME row'[s] = row[s], temporal'[s] = temporal[s], ~Pending(s, q)
      PROVE  Match(s)' \/ \E r \in Requests : Pending(s, r)'
  BY <1>2, <1>3, <1>4 DEF Match
<1>5. CASE s # On(q)
  BY <1>1, <1>4, <1>5, StoreFrame DEF Pending
<1>6. CASE s = On(q) /\ (Count(q) \/ Find(q))
  <2>1. ~Pending(s, q)
    BY <1>6 DEF Count, Find, Pending, In
  <2> QED
    BY <1>4, <1>6, <2>1 DEF Count, Find, storeVars
<1>7. CASE s = On(q) /\ Create(q)
  <2>1. CASE Go(q, "insert")
    BY <1>7, <2>1, GoEffect DEF Pending, In, On
  <2>2. CASE UNCHANGED <<temporal, action, torn>>
    <3>1. ~Pending(s, q)
      BY <1>7 DEF Create, Pending, In
    <3> QED
      BY <1>4, <1>7, <2>2, <3>1 DEF Create
  <2> QED
    BY <1>7, <2>1, <2>2 DEF Create, Clean
<1>8. CASE s = On(q) /\ Insert(q)
  <2>1. CASE Go(q, "rollback")
    BY <1>8, <2>1, GoEffect DEF Pending, In, On
  <2>2. CASE Inserted(On(q), q)
    <3>1. temporal'[s] = "running"
      BY <1>8 DEF Insert, PlaceInv, Owned, In
    <3> QED
      BY <1>1, <1>8, <2>2, <3>1 DEF Inserted, Match, TypeOK
  <2> QED
    BY <1>8, <2>1, <2>2 DEF Insert
<1>9. CASE s = On(q) /\ Rollback(q)
  <2>1. row'[s] = "none"
    BY <1>1, <1>9 DEF Rollback, PlaceInv, Owned, In, Clean
  <2>2. temporal'[s] = "deleted"
    BY <1>1, <1>9 DEF Rollback, TypeOK, Clean
  <2> QED
    BY <2>1, <2>2 DEF Match
<1>10. CASE s = On(q) /\ Tell(q)
  <2>1. In(q, {"temporal"}) /\ request[q].kind \in Statuses \cup {"update"} /\ ~Pending(s, q)
    BY <1>10, RequestOn DEF Tell, In, Changing, Statuses, Pending
  <2>2. CASE Go(q, "row") /\ request[q].kind \in Statuses
    BY <1>10, <2>2, GoEffect DEF Pending, In, On
  <2>3. CASE UNCHANGED temporal
    BY <1>4, <1>10, <2>1, <2>3 DEF Tell
  <2>4. CASE Is(q, "update") /\ Told(q)
    <3>1. UNCHANGED temporal
      BY <2>1, <2>4, ToldStatus
    <3> QED
      BY <2>3, <3>1
  <2>5. CASE Is(q, "delete") /\ Go(q, AfterError(q))
    BY <2>2, <2>5 DEF AfterError, Is, Statuses
  <2>6. CASE ~Is(q, "delete") /\ torn' = torn \cup {On(q)}
    BY <1>10, <2>6 DEF Clean
  <2> QED
    BY <1>10, <2>1, <2>2, <2>3, <2>4, <2>5, <2>6 DEF Tell, Is
<1>11. CASE s = On(q) /\ Write(q)
  <2>1. In(q, {"row"}) /\ request[q].kind \in Statuses \cup {"update"}
    BY <1>11, RequestOn DEF Write, In, Changing, Statuses
  <2>2. Written(q) /\ UNCHANGED temporal
    BY <1>11 DEF Write, Clean
  <2>3. CASE Is(q, "update")
    <3>1. row' = row
      BY <2>1, <2>2, <2>3, WrittenStatus
    <3>2. ~Pending(s, q)
      BY <2>1, <2>3 DEF Pending, In, Is, Statuses
    <3> QED
      BY <1>4, <2>2, <3>1, <3>2
  <2>4. CASE request[q].kind \in Statuses
    <3>1. temporal'[s] = Target(request[q].kind)
      BY <1>1, <1>11, <2>1, <2>2, <2>4 DEF AgreeInv, HasTold
    <3> QED
      BY <1>11, <2>1, <2>2, <2>4, <3>1, WrittenStatus DEF Match, Is, Statuses, Target
  <2> QED
    BY <2>1, <2>3, <2>4 DEF Is
<1> QED
  BY <1>5, <1>6, <1>7, <1>8, <1>9, <1>10, <1>11 DEF RequestStep

Configured(s) == Live(s) => config[s] = action[s]

LEMMA RequestConfig ==
    ASSUME Base, QuietInv, AgreeInv, NEW q \in Requests, RequestStep(q), NEW s \in Clean'
    PROVE  Configured(s)' \/ \E r \in Requests : Updating(s, r)'
<1> USE DEF Base
<1>1. s \in Clean /\ s \in Schedules
  BY CleanFrame DEF Clean
<1>2. \A r \in Requests \ {q} : Updating(s, r) => Updating(s, r)'
  BY CleanFrame DEF Updating, In, Is
<1>3. Configured(s) \/ \E r \in Requests : Updating(s, r)
  BY <1>1 DEF AgreeInv, Configured
<1>4. ASSUME Live(s)' => Live(s), config'[s] = config[s], action'[s] = action[s], ~Updating(s, q)
      PROVE  Configured(s)' \/ \E r \in Requests : Updating(s, r)'
  BY <1>2, <1>3, <1>4 DEF Configured
<1>5. CASE s # On(q)
  BY <1>1, <1>4, <1>5, StoreFrame DEF Updating, Live
<1>6. CASE s = On(q) /\ (Count(q) \/ Find(q))
  <2>1. ~Updating(s, q)
    BY <1>6 DEF Count, Find, Updating, In
  <2> QED
    BY <1>4, <1>6, <2>1 DEF Count, Find, storeVars, Live
<1>7. CASE s = On(q) /\ Create(q)
  <2>1. row'[s] = "none"
    BY <1>7 DEF Create, PlaceInv, Owned, In
  <2> QED
    BY <2>1 DEF Configured, Live
<1>8. CASE s = On(q) /\ Insert(q)
  <2>1. row[s] = "none" /\ action'[s] = q
    BY <1>8 DEF Insert, PlaceInv, Owned, In
  <2>2. CASE Inserted(On(q), q)
    BY <1>1, <1>8, <2>1, <2>2 DEF Inserted, Configured, TypeOK
  <2>3. CASE UNCHANGED row
    BY <2>1, <2>3 DEF Configured, Live
  <2> QED
    BY <1>8, <2>2, <2>3 DEF Insert
<1>9. CASE s = On(q) /\ Rollback(q)
  <2>1. row'[s] = "none"
    BY <1>1, <1>9 DEF Rollback, PlaceInv, Owned, In, Clean
  <2> QED
    BY <2>1 DEF Configured, Live
<1>10. CASE s = On(q) /\ Tell(q)
  <2>1. In(q, {"temporal"}) /\ request[q].kind \in Statuses \cup {"update"} /\ ~Updating(s, q)
    BY <1>10, RequestOn DEF Tell, In, Changing, Statuses, Updating
  <2>2. CASE Go(q, "row") /\ Is(q, "update")
    BY <1>10, <2>2, GoEffect DEF Updating, In, On, Is
  <2>3. CASE UNCHANGED action
    BY <1>4, <1>10, <2>1, <2>3 DEF Tell, Live
  <2>4. CASE ~Is(q, "update") /\ Told(q)
    <3>1. UNCHANGED action
      BY <2>1, <2>4, ToldStatus
    <3> QED
      BY <2>3, <3>1
  <2>5. CASE Is(q, "update") /\ torn' = torn \cup {On(q)}
    BY <1>10, <2>5 DEF Clean
  <2> QED
    BY <1>10, <2>1, <2>2, <2>3, <2>4, <2>5 DEF Tell, Is
<1>11. CASE s = On(q) /\ Write(q)
  <2>1. In(q, {"row"}) /\ request[q].kind \in Statuses \cup {"update"}
    BY <1>11, RequestOn DEF Write, In, Changing, Statuses
  <2>2. Written(q) /\ UNCHANGED <<temporal, action>>
    BY <1>11 DEF Write, Clean
  <2>3. CASE Is(q, "update")
    <3>1. config'[s] = q /\ action[s] = q
      BY <1>1, <1>11, <2>1, <2>2, <2>3, WrittenStatus DEF AgreeInv, HasTold
    <3> QED
      BY <2>2, <3>1 DEF Configured
  <2>4. CASE request[q].kind \in Statuses
    <3>1. config' = config /\ ~Updating(s, q)
      BY <2>1, <2>2, <2>4, WrittenStatus DEF Updating, Is, Statuses
    <3>2. temporal[s] = Target(request[q].kind) /\ row[s] # "none"
      BY <1>1, <1>11, <2>1, <2>4 DEF AgreeInv, HasTold, PlaceInv, OnItsWay, In, Changing
    <3>3. Live(s)' => Live(s)
      <4>1. CASE Is(q, "delete")
        BY <1>11, <2>1, <2>2, <4>1, WrittenStatus DEF Live
      <4>2. CASE ~Is(q, "delete")
        <5>1. temporal[s] \in {"running", "paused"}
          BY <2>4, <3>2, <4>2 DEF Target, Statuses, Is
        <5>2. row[s] # "DELETED"
          BY <1>1, <5>1 DEF QuietInv, DeletedStaysQuiet, Clean
        <5> QED
          BY <1>1, <3>2, <5>2 DEF Live, TypeOK
      <4> QED
        BY <4>1, <4>2
    <3> QED
      BY <1>4, <2>2, <3>1, <3>3
  <2> QED
    BY <2>1, <2>3, <2>4 DEF Is
<1> QED
  BY <1>5, <1>6, <1>7, <1>8, <1>9, <1>10, <1>11 DEF RequestStep

LEMMA AgreeInit == Init => AgreeInv
<1> SUFFICES ASSUME Init PROVE AgreeInv
  OBVIOUS
<1>1. \A q \in Requests : request[q].pc = "new"
  BY DEF Init, Idle
<1>2. \A s \in Schedules : Match(s) /\ config[s] = action[s]
  BY DEF Init, Match
<1> QED
  BY <1>1, <1>2 DEF AgreeInv, Peaceful, HasTold, In, Clean

LEMMA AgreeStep ==
    ASSUME Base, QuietInv, AgreeInv, [Next]_vars
    PROVE  AgreeInv'
<1>1. ASSUME UNCHANGED <<storeVars, request, torn, clashed>> PROVE AgreeInv'
  BY <1>1 DEF AgreeInv, Peaceful, HasTold, Match, Pending, Updating, Live, Clean, In, Is, On, storeVars
<1>2. ASSUME NEW k \in Runs, RunAction(k) PROVE AgreeInv'
  BY <1>1, <1>2, RunFrame
<1>3. ASSUME NEW q \in Requests, RequestStep(q) PROVE AgreeInv'
  <2>1. \A a, b \in Requests : Peaceful(a, b)'
    BY <1>3, RequestPeace
  <2>2. \A r \in Requests : HasTold(r)'
    BY <1>3, OthersHaveTold, OwnHasTold
  <2>3. \A s \in Clean' : Match(s)' \/ \E r \in Requests : Pending(s, r)'
    BY <1>3, RequestMatch
  <2>4. \A s \in Clean' : Configured(s)' \/ \E r \in Requests : Updating(s, r)'
    BY <1>3, RequestConfig
  <2> QED
    BY <2>1, <2>2, <2>3, <2>4 DEF AgreeInv, Configured
<1>4. ASSUME NEW q \in Requests, NEW kind \in Kinds, NEW s \in Schedules, Ask(q, kind, s)
      PROVE  AgreeInv'
  <2>1. /\ request[q].pc = "new" /\ request'[q].pc \in {"count", "find"}
        /\ \A r \in Requests \ {q} : request'[r] = request[r]
        /\ UNCHANGED <<temporal, row, action, config, torn, clashed>>
    BY <1>4 DEF Ask, Base, TypeOK, storeVars, historyVars
  <2>2. UNCHANGED Clean /\ \A c \in Schedules : UNCHANGED <<Match(c), Live(c)>>
    BY <2>1 DEF Clean, Match, Live
  <2>3. \A r \in Requests, c \in Schedules :
          (Pending(c, r) => Pending(c, r)') /\ (Updating(c, r) => Updating(c, r)')
    BY <2>1 DEF Pending, Updating, In, Is, On
  <2>4. \A a, b \in Requests : Peaceful(a, b)'
    BY <2>1, <2>2 DEF AgreeInv, Peaceful, In, On
  <2>5. \A r \in Requests : HasTold(r)'
    BY <2>1, <2>2 DEF AgreeInv, HasTold, In, Is, On
  <2>6. \A c \in Clean : c \in Schedules
    BY DEF Clean
  <2> QED
    BY <2>1, <2>2, <2>3, <2>4, <2>5, <2>6 DEF AgreeInv
<1>5. CASE CleanerStep
  <2>1. /\ UNCHANGED <<temporal, action, config, request, torn, clashed>>
        /\ \A s \in Schedules :
              row'[s] = row[s] \/ (row'[s] = "DELETED" /\ temporal[s] = "deleted")
    BY <1>5, CleanerFrame DEF Base, historyVars
  <2>2. UNCHANGED Clean /\ Clean \subseteq Schedules
    BY <2>1 DEF Clean
  <2>3. \A r \in Requests, s \in Schedules :
          (Pending(s, r) => Pending(s, r)') /\ (Updating(s, r) => Updating(s, r)')
    BY <2>1 DEF Pending, Updating, In, Is, On
  <2>4. \A s \in Schedules : Match(s) => Match(s)'
    BY <2>1 DEF Match
  <2>5. \A s \in Schedules : Live(s)' => Live(s)
    BY <2>1 DEF Live
  <2>6. \A s \in Schedules : row'[s] # row[s] => Match(s)'
    BY <2>1 DEF Match
  <2>7. (\A a, b \in Requests : Peaceful(a, b)') /\ \A r \in Requests : HasTold(r)'
    BY <2>1, <2>2 DEF AgreeInv, Peaceful, HasTold, In, Is, On
  <2> QED
    BY <2>1, <2>2, <2>3, <2>4, <2>5, <2>7 DEF AgreeInv
<1>6. CASE Crash
  <2>1. \A r \in Requests : request'[r].pc \in {"new", "done"}
    BY <1>6 DEF Crash, Idle
  <2>2. /\ UNCHANGED <<temporal, action, row, config, clashed>>
        /\ torn' = torn \cup {On(r) : r \in Cut}
    BY <1>6 DEF Crash, storeVars
  <2>3. Clean' \subseteq Clean /\ \A r \in Cut : On(r) \notin Clean'
    BY <2>2 DEF Clean
  <2>4. \A s \in Clean' : Match(s) /\ Configured(s)
    BY <2>3 DEF AgreeInv, Configured, Pending, Updating, In, Cut
  <2>5. \A s \in Clean' : Match(s)' /\ Configured(s)'
    BY <2>2, <2>4 DEF Match, Configured, Live
  <2> QED
    BY <2>1, <2>5 DEF AgreeInv, Configured, Peaceful, HasTold, In
<1>7. CASE UNCHANGED vars
  BY <1>1, <1>7 DEF vars, historyVars
<1> QED
  BY <1>2, <1>3, <1>4, <1>5, <1>6, <1>7, NextCases

IInv == Base /\ QuietInv /\ AgreeInv

(* A row and Temporal agree on the status of a schedule, and on who wrote   *)
(* its configuration, when no request is at work on it, no write was lost   *)
(* and no conflicting requests met.                                         *)
THEOREM StatusesAgree == Spec => []StatusAgrees
<1>1. Init => IInv
  BY BaseInit, QuietInit, AgreeInit DEF IInv
<1>2. IInv /\ [Next]_vars => IInv'
  BY BaseStep, QuietStep, AgreeStep DEF IInv
<1>3. IInv => StatusAgrees
  <2> SUFFICES ASSUME IInv, NEW s \in Clean, ~Busy(s) PROVE Agree(s)
    BY DEF StatusAgrees, Clean
  <2>1. \A q \in Requests : ~Pending(s, q) /\ ~Updating(s, q)
    BY DEF Busy, Acting, Pending, Updating, In
  <2>2. Match(s) /\ (Live(s) => config[s] = action[s])
    BY <2>1 DEF IInv, AgreeInv
  <2> QED
    BY <2>2 DEF Match, Agree
<1> QED
  BY <1>1, <1>2, <1>3, PTL DEF Spec

-----------------------------------------------------------------------------
(* The limit.  Of the schedules that are not late, those that are live and  *)
(* those that are being created are within it.                              *)

BeingCreated(s, q) == On(q) = s /\ In(q, {"create", "insert", "rollback"})

Taken == {s \in Schedules \ late : Live(s) \/ \E q \in Requests : BeingCreated(s, q)}

Room == Cardinality(Taken) <= MaxPerUser

LEMMA Fewer ==
    ASSUME NEW S \in SUBSET Schedules, NEW T \in SUBSET S
    PROVE  /\ Cardinality(S) \in Nat /\ Cardinality(T) \in Nat
           /\ Cardinality(T) <= Cardinality(S)
  BY FS_Subset, FS_CardinalityType, SchedulesAssumption

LEMMA OneMore ==
    ASSUME NEW S \in SUBSET Schedules, NEW s
    PROVE  Cardinality(S \cup {s}) <= Cardinality(S) + 1
<1>1. IsFiniteSet(S)
  BY FS_Subset, SchedulesAssumption
<1>2. Cardinality(S) \in Nat
  BY <1>1, FS_CardinalityType
<1>3. Cardinality(S \cup {s}) = IF s \in S THEN Cardinality(S) ELSE Cardinality(S) + 1
  BY <1>1, FS_AddElement
<1> QED
  BY <1>2, <1>3

LEMMA StillRoom ==
    ASSUME Room, Taken' \subseteq Taken
    PROVE  Room'
<1>1. Taken \in SUBSET Schedules
  BY DEF Taken
<1>2. MaxPerUser \in Nat
  BY SchedulesAssumption
<1> QED
  BY <1>1, <1>2, Fewer DEF Room

LEMMA RoomInit == Init => Room
<1> SUFFICES ASSUME Init PROVE Room
  OBVIOUS
<1>1. PICK existing \in SUBSET Schedules :
        /\ Cardinality(existing) <= MaxPerUser
        /\ row = [s \in Schedules |-> IF s \in existing THEN "ACTIVE" ELSE "none"]
  BY DEF Init
<1>2. \A q \in Requests : request[q].pc = "new"
  BY DEF Init, Idle
<1>3. Taken \subseteq existing
  BY <1>1, <1>2 DEF Taken, Live, BeingCreated, In
<1>4. Cardinality(Taken) <= Cardinality(existing)
      /\ Cardinality(Taken) \in Nat /\ Cardinality(existing) \in Nat
  BY <1>3, Fewer
<1> QED
  BY <1>1, <1>4, SchedulesAssumption DEF Room

LEMMA CountRoom ==
    ASSUME Base, Room, NEW q \in Requests, Count(q)
    PROVE  Room'
<1>1. /\ \A r \in Requests \ {q} : request'[r] = request[r] /\ On(r)' = On(r)
      /\ \A s \in Schedules : Live(s)' = Live(s)
      /\ late \subseteq late'
  BY RequestFrame, GoEffect DEF Base, Count, RequestStep, On, Live, storeVars
<1>2. CASE /\ CountSchedulesByUser < MaxPerUser
           /\ ~\E r \in Requests : In(r, {"create", "insert", "rollback"})
  <2>1. Taken' \subseteq {s \in Schedules : Live(s)} \cup {On(q)}
    <3> SUFFICES ASSUME NEW s \in Taken', s # On(q) PROVE s \in Schedules /\ Live(s)
      OBVIOUS
    <3>1. On(q)' \in {On(q), None} /\ s \in Schedules
      BY CleanFrame DEF RequestStep, Taken
    <3>2. ~\E r \in Requests : BeingCreated(s, r)'
      BY <1>1, <1>2, <3>1, SchedulesAssumption DEF BeingCreated, In
    <3> QED
      BY <1>1, <3>1, <3>2 DEF Taken
  <2>2. {s \in Schedules : Live(s)} \in SUBSET Schedules /\ On(q) \in Schedules
    BY RequestFrame DEF Base, RequestStep
  <2>3. Cardinality({s \in Schedules : Live(s)} \cup {On(q)})
        <= Cardinality({s \in Schedules : Live(s)}) + 1
    BY <2>2, OneMore
  <2>4. Cardinality(Taken') <= Cardinality({s \in Schedules : Live(s)} \cup {On(q)})
        /\ Cardinality(Taken') \in Nat /\ Cardinality({s \in Schedules : Live(s)}) \in Nat
        /\ Cardinality({s \in Schedules : Live(s)} \cup {On(q)}) \in Nat
    BY <2>1, <2>2, Fewer
  <2>5. MaxPerUser \in Nat
    BY SchedulesAssumption
  <2> QED
    BY <1>2, <2>3, <2>4, <2>5 DEF Room, CountSchedulesByUser
<1>3. ASSUME \A s \in Taken' : ~BeingCreated(s, q)' PROVE Taken' \subseteq Taken
  BY <1>1, <1>3 DEF Taken, BeingCreated, In
<1>4. CASE Go(q, "done")
  <2>1. ~In(q, {"create", "insert", "rollback"})'
    BY <1>4, GoEffect DEF Base, In
  <2> QED
    BY <1>3, <2>1, StillRoom DEF BeingCreated
<1>5. CASE \E r \in Requests : In(r, {"create", "insert", "rollback"})
  <2>1. CASE late' = late \cup {On(q)}
    <3>1. On(q)' \in {On(q), None}
      BY CleanFrame DEF RequestStep
    <3>2. \A s \in Taken' : ~BeingCreated(s, q)'
      BY <2>1, <3>1, SchedulesAssumption DEF Taken, BeingCreated
    <3> QED
      BY <1>3, <3>2, StillRoom
  <2> QED
    BY <1>4, <1>5, <2>1 DEF Count, In
<1> QED
  BY <1>2, <1>4, <1>5 DEF Count

LEMMA RequestRoom ==
    ASSUME Base, Room, NEW q \in Requests, RequestStep(q), ~Count(q)
    PROVE  Room'
<1> USE DEF Base
<1>1. late \subseteq late' /\ On(q) \in Schedules
  BY RequestFrame
<1>2. ASSUME NEW s \in Taken', NEW r \in Requests, BeingCreated(s, r)' PROVE s \in Taken
  <2>1. s \in Schedules \ late
    BY <1>1 DEF Taken
  <2>2. CASE r # q
    <3>1. request'[r] = request[r] /\ On(r)' = On(r)
      BY <2>2, CleanFrame
    <3> QED
      BY <1>2, <2>1, <3>1 DEF Taken, BeingCreated, In
  <2>3. CASE r = q
    <3>1. On(q) = s
      BY <1>2, <2>1, <2>3, CleanFrame, SchedulesAssumption DEF BeingCreated
    <3>2. Create(q) \/ Insert(q)
      <4>1. CASE Rollback(q) \/ Find(q) \/ Tell(q) \/ Write(q)
        <5>1. \E pc \in {"temporal", "row", "done"} : Go(q, pc)
          BY <4>1 DEF Rollback, Find, Tell, Write, AfterError
        <5> QED
          BY <1>2, <2>3, <5>1, GoEffect DEF BeingCreated, In
      <4> QED
        BY <4>1 DEF RequestStep
    <3>3. BeingCreated(s, q)
      BY <3>1, <3>2 DEF Create, Insert, BeingCreated, In
    <3> QED
      BY <2>1, <3>3 DEF Taken
  <2> QED
    BY <2>2, <2>3
<1>3. ASSUME NEW s \in Taken', Live(s)' PROVE s \in Taken
  <2>1. s \in Schedules \ late /\ s \notin late'
    BY <1>1 DEF Taken
  <2>2. CASE Live(s)
    BY <2>1, <2>2 DEF Taken
  <2>3. CASE ~Live(s) /\ Insert(q) /\ s = On(q)
    <3>1. BeingCreated(s, q)
      BY <2>3 DEF Insert, BeingCreated, In
    <3> QED
      BY <2>1, <3>1 DEF Taken
  <2>4. CASE ~Live(s) /\ Write(q) /\ s = On(q)
    <3>1. CASE UNCHANGED row
      BY <1>3, <2>4, <3>1 DEF Live
    <3>2. CASE late' = IF ~Live(On(q)) /\ row'[On(q)] # "DELETED" THEN late \cup {On(q)} ELSE late
      BY <1>3, <2>1, <2>4, <3>2 DEF Live
    <3> QED
      BY <2>4, <3>1, <3>2 DEF Write
  <2>5. CASE UNCHANGED row
    BY <1>3, <2>2, <2>5 DEF Live
  <2>6. CASE s # On(q)
    BY <1>3, <2>1, <2>2, <2>6, StoreFrame DEF Live
  <2> QED
    BY <2>2, <2>3, <2>4, <2>5, <2>6
    DEF RequestStep, Create, Rollback, Find, Tell, storeVars
<1>4. Taken' \subseteq Taken
  BY <1>2, <1>3 DEF Taken
<1> QED
  BY <1>4, StillRoom

LEMMA RoomStep ==
    ASSUME Base, Room, [Next]_vars
    PROVE  Room'
<1>1. ASSUME NEW q \in Requests, RequestStep(q) PROVE Room'
  BY <1>1, CountRoom, RequestRoom
<1>2. ASSUME UNCHANGED late,
             \A s \in Schedules : Live(s)' => Live(s),
             \A r \in Requests : In(r, {"create", "insert", "rollback"})'
                                  => request'[r] = request[r]
      PROVE  Room'
  <2>1. \A s \in Schedules, r \in Requests : BeingCreated(s, r)' => BeingCreated(s, r)
    BY <1>2 DEF BeingCreated, In, On
  <2>2. Taken' \subseteq Taken
    BY <1>2, <2>1 DEF Taken
  <2> QED
    BY <2>2, StillRoom
<1>3. ASSUME UNCHANGED <<storeVars, request, late>> PROVE Room'
  BY <1>2, <1>3 DEF storeVars, Live
<1>4. ASSUME NEW k \in Runs, RunAction(k) PROVE Room'
  BY <1>3, <1>4, RunFrame
<1>5. ASSUME NEW q \in Requests, NEW kind \in Kinds, NEW s \in Schedules, Ask(q, kind, s)
      PROVE  Room'
  <2>1. /\ request'[q].pc \in {"count", "find"}
        /\ \A r \in Requests \ {q} : request'[r] = request[r]
        /\ UNCHANGED <<row, late>>
    BY <1>5 DEF Ask, Base, TypeOK, storeVars, historyVars
  <2> QED
    BY <1>2, <2>1 DEF Live, In
<1>6. CASE CleanerStep
  BY <1>2, <1>6, CleanerFrame DEF Base, Live, historyVars
<1>7. CASE Crash
  <2>1. \A r \in Requests : request'[r].pc \in {"new", "done"}
    BY <1>7 DEF Crash, Idle
  <2> QED
    BY <1>2, <1>7, <2>1 DEF Crash, Live, In, storeVars
<1>8. CASE UNCHANGED vars
  BY <1>3, <1>8 DEF vars, historyVars
<1> QED
  BY <1>1, <1>4, <1>5, <1>6, <1>7, <1>8, NextCases

(* A user has no more schedules than the limit, not counting those that     *)
(* were created while another one was, or brought back after a deletion.    *)
THEOREM LimitIsKept == Spec => []LimitKept
<1>1. Init => Base /\ Room
  BY BaseInit, RoomInit
<1>2. Base /\ Room /\ [Next]_vars => (Base /\ Room)'
  BY BaseStep, RoomStep
<1>3. Room => LimitKept
  <2> SUFFICES ASSUME Room PROVE LimitKept
    OBVIOUS
  <2>1. {s \in Schedules : Live(s)} \ late \in SUBSET Taken /\ Taken \in SUBSET Schedules
    BY DEF Taken
  <2>2. MaxPerUser \in Nat
    BY SchedulesAssumption
  <2> QED
    BY <2>1, <2>2, Fewer DEF Room, LimitKept
<1> QED
  BY <1>1, <1>2, <1>3, PTL DEF Spec

-----------------------------------------------------------------------------
(* Statistics.  A run that is not blurred is counted when it leaves "count",*)
(* once, under the status that its task has by then.                        *)

Recorded(s, status) == {k \in Listed(s, status) : run[k].pc \notin {"row", "count"}}

Clear(s) == \A k \in Runs : k[1] = s => k \notin blurred

Progress(k) ==
    k \notin blurred =>
        /\ run[k].pc \in {"none", "link", "save", "commit", "work", "dispatch", "wait"}
              => task[k] \in {"none", "RUNNING"}
        /\ run[k].pc \in {"count", "report"} => task[k] = run[k].result
        /\ run[k].pc \in {"work", "dispatch", "wait", "row", "count", "report"} => k \in linked

Tally ==
    \A s \in Schedules : Clear(s) =>
        /\ stats[s].successful = Cardinality(Recorded(s, "COMPLETED"))
        /\ stats[s].failed = Cardinality(Recorded(s, "FAILED"))

TallyInv == Tally /\ \A k \in Runs : Progress(k)

LEMMA RunsFinite == IsFiniteSet(Runs)
<1>1. IsFiniteSet(Firing)
  BY FS_Subset, SchedulesAssumption
<1>2. IsFiniteSet(1 .. MaxRuns)
  BY FS_Interval, SchedulesAssumption
<1> QED
  BY <1>1, <1>2, FS_Product DEF Runs

LEMMA TallyInit == Init => TallyInv
<1> SUFFICES ASSUME Init PROVE TallyInv
  OBVIOUS
<1>1. \A s \in Schedules : \A status : Recorded(s, status) = {}
  BY DEF Init, Recorded, Listed
<1>2. \A s \in Schedules : stats[s].successful = 0 /\ stats[s].failed = 0
  BY DEF Init
<1>3. Tally
  BY <1>1, <1>2, FS_EmptySet DEF Tally
<1>4. \A k \in Runs : Progress(k)
  BY DEF Init, Progress
<1> QED
  BY <1>3, <1>4 DEF TallyInv

(* A step of a run is about no other run.                                   *)
LEMMA OtherRuns ==
    ASSUME Base, NEW k \in Runs, RunAction(k), NEW j \in Runs \ {k}
    PROVE  /\ run'[j] = run[j] /\ task'[j] = task[j]
           /\ j \in linked' <=> j \in linked
           /\ j \in blurred' <=> j \in blurred
<1> USE DEF Base, TypeOK, historyVars
<1>1. CASE Fire(k) \/ Link(k) \/ Work(k)
  BY <1>1 DEF Fire, Link, Work, Move, Ended
<1>2. CASE SaveStart(k) \/ Commit(k)
  BY <1>2 DEF SaveStart, Commit, Move, Onward
<1>3. CASE Dispatch(k) \/ AwaitReply(k) \/ ReplyTimeout(k)
  BY <1>3 DEF Dispatch, AwaitReply, ReplyTimeout, Move, Onward, Ended
<1>4. CASE SaveEnd(k) \/ CountRun(k) \/ Report(k)
  BY <1>4 DEF SaveEnd, CountRun, Report, Move
<1>5. CASE HandleSignal(k) \/ Retry(k) \/ TimeOut(k)
  BY <1>5 DEF HandleSignal, Retry, TimeOut
<1> QED
  BY <1>1, <1>2, <1>3, <1>4, <1>5 DEF RunAction, RunStep

InRecord(k) == k \in linked /\ run[k].pc \notin {"row", "count"} /\ task[k] \in {"COMPLETED", "FAILED"}

(* What a step does to its own run, when that is not blurred by it.         *)
LEMMA OwnRun ==
    ASSUME Base, NEW k \in Runs, Progress(k), RunAction(k), k \notin blurred'
    PROVE  /\ k \notin blurred /\ Progress(k)'
           /\ ~CountRun(k) => /\ UNCHANGED stats
                              /\ InRecord(k)' <=> InRecord(k)
                              /\ InRecord(k) => task'[k] = task[k]
<1> USE DEF Base, TypeOK, RunOK, HasResult, Progress, InRecord, historyVars
<1>1. CASE Fire(k) \/ Link(k)
  BY <1>1 DEF Fire, Link, Move, At
<1>2. CASE SaveStart(k)
  BY <1>2 DEF SaveStart, Move, At
<1>3. CASE Commit(k)
  BY <1>3 DEF Commit, Move, Onward, At
<1>4. CASE Work(k) \/ AwaitReply(k) \/ ReplyTimeout(k)
  BY <1>4 DEF Work, AwaitReply, ReplyTimeout, Ended, At
<1>5. CASE Dispatch(k)
  BY <1>5 DEF Dispatch, Move, Onward, Ended, At
<1>6. CASE SaveEnd(k)
  BY <1>6 DEF SaveEnd, Move, At
<1>7. CASE CountRun(k)
  BY <1>7 DEF CountRun, Move, At
<1>8. CASE Report(k)
  BY <1>8 DEF Report, At
<1>9. CASE HandleSignal(k)
  BY <1>9 DEF HandleSignal
<1>10. CASE Retry(k)
  BY <1>10 DEF Retry, Start, Blurs, At
<1>11. CASE TimeOut(k)
  BY <1>11 DEF TimeOut
<1> QED
  BY <1>1, <1>2, <1>3, <1>4, <1>5, <1>6, <1>7, <1>8, <1>9, <1>10, <1>11 DEF RunAction, RunStep

LEMMA RecordedAs ==
    ASSUME Base, NEW s \in Schedules, NEW status \in {"COMPLETED", "FAILED"}
    PROVE  Recorded(s, status) = {k \in Runs : k[1] = s /\ InRecord(k) /\ task[k] = status}
  BY DEF Recorded, Listed, InRecord, Base, TypeOK

LEMMA RunTally ==
    ASSUME Base, Base', TallyInv, NEW k \in Runs, RunAction(k), ~CountRun(k)
    PROVE  Tally'
<1> SUFFICES ASSUME NEW s \in Schedules, Clear(s)'
             PROVE  /\ stats'[s].successful = Cardinality(Recorded(s, "COMPLETED")')
                    /\ stats'[s].failed = Cardinality(Recorded(s, "FAILED")')
  BY DEF Tally
<1>1. k[1] = s => k \notin blurred'
  BY DEF Clear
<1>2. Clear(s)
  BY <1>1, OtherRuns, OwnRun DEF Clear, TallyInv
<1>3. UNCHANGED stats
  BY DEF RunAction, RunStep, Fire, Link, SaveStart, Commit, Work, Dispatch, AwaitReply,
         ReplyTimeout, SaveEnd, Report, HandleSignal, Retry, TimeOut
<1>4. ASSUME NEW status \in {"COMPLETED", "FAILED"}
      PROVE  Recorded(s, status)' = Recorded(s, status)
  <2>1. \A j \in Runs \ {k} : (InRecord(j)' <=> InRecord(j)) /\ task'[j] = task[j]
    BY OtherRuns DEF InRecord
  <2>2. k[1] = s => ((InRecord(k)' /\ task'[k] = status) <=> (InRecord(k) /\ task[k] = status))
    BY <1>1, OwnRun DEF TallyInv
  <2>3. Recorded(s, status)' = {j \in Runs : j[1] = s /\ InRecord(j)' /\ task'[j] = status}
    BY RecordedAs DEF Recorded, Listed, InRecord, Base, TypeOK
  <2> QED
    BY <2>1, <2>2, <2>3, RecordedAs
<1> QED
  BY <1>2, <1>3, <1>4 DEF TallyInv, Tally

LEMMA CountTally ==
    ASSUME Base, Base', TallyInv, NEW k \in Runs, CountRun(k)
    PROVE  Tally'
<1> SUFFICES ASSUME NEW s \in Schedules, Clear(s)'
             PROVE  /\ stats'[s].successful = Cardinality(Recorded(s, "COMPLETED")')
                    /\ stats'[s].failed = Cardinality(Recorded(s, "FAILED")')
  BY DEF Tally
<1>0. RunAction(k)
  BY DEF RunAction, RunStep
<1>1. k[1] = s => k \notin blurred'
  BY DEF Clear
<1>2. Clear(s)
  BY <1>0, <1>1, OtherRuns, OwnRun DEF Clear, TallyInv
<1>3. \A j \in Runs \ {k} : (InRecord(j)' <=> InRecord(j)) /\ task'[j] = task[j]
  BY <1>0, OtherRuns DEF InRecord
<1>4. ASSUME NEW status \in {"COMPLETED", "FAILED"},
             k[1] = s => ((InRecord(k)' /\ task'[k] = status) <=> (InRecord(k) /\ task[k] = status))
      PROVE  Recorded(s, status)' = Recorded(s, status)
  <2>1. Recorded(s, status)' = {j \in Runs : j[1] = s /\ InRecord(j)' /\ task'[j] = status}
    BY DEF Recorded, Listed, InRecord, Base, TypeOK
  <2> QED
    BY <1>3, <1>4, <2>1, RecordedAs
<1>5. k[1] \in Schedules
  BY SchedulesAssumption DEF Runs
<1>6. CASE k[1] # s
  <2>1. stats'[s] = stats[s]
    BY <1>6 DEF CountRun, Base, TypeOK
  <2>2. Recorded(s, "COMPLETED")' = Recorded(s, "COMPLETED")
    BY <1>4, <1>6
  <2>3. Recorded(s, "FAILED")' = Recorded(s, "FAILED")
    BY <1>4, <1>6
  <2> QED
    BY <1>2, <2>1, <2>2, <2>3 DEF TallyInv, Tally
<1>7. CASE k[1] = s
  <2>1. /\ k \in linked /\ task[k] = run[k].result /\ run[k].result \in {"COMPLETED", "FAILED"}
        /\ run[k].pc = "count" /\ run'[k].pc = "report"
        /\ UNCHANGED <<task, linked>>
    <3>1. k \notin blurred /\ Progress(k)
      BY <1>2, <1>7 DEF Clear, TallyInv
    <3> QED
      BY <3>1 DEF CountRun, At, Move, Progress, Base, RunOK, RunType, HasResult
  <2>2. stats' = [stats EXCEPT ![s][Counter(run[k].result)] = @ + 1]
    BY <1>1, <1>7 DEF CountRun
  <2>3. ~InRecord(k) /\ InRecord(k)'
    BY <2>1 DEF InRecord
  <2>4. ASSUME NEW status \in {"COMPLETED", "FAILED"}, status # run[k].result
        PROVE  Recorded(s, status)' = Recorded(s, status)
    BY <1>4, <2>1, <2>3, <2>4
  <2>5. ASSUME NEW status \in {"COMPLETED", "FAILED"}, status = run[k].result
        PROVE  Cardinality(Recorded(s, status)') = Cardinality(Recorded(s, status)) + 1
    <3>1. Recorded(s, status) = {j \in Runs : j[1] = s /\ InRecord(j) /\ task[j] = status}
      BY RecordedAs
    <3>2. Recorded(s, status)' = {j \in Runs : j[1] = s /\ InRecord(j)' /\ task'[j] = status}
      BY DEF Recorded, Listed, InRecord, Base, TypeOK
    <3>3. Recorded(s, status)' = Recorded(s, status) \cup {k}
      BY <1>3, <1>7, <2>1, <2>3, <2>5, <3>1, <3>2
    <3>4. k \notin Recorded(s, status)
      BY <2>3, <3>1
    <3>5. IsFiniteSet(Recorded(s, status))
      BY <3>1, RunsFinite, FS_Subset
    <3> QED
      BY <3>3, <3>4, <3>5, FS_AddElement
  <2>6. stats[s] \in [successful : Nat, failed : Nat]
    BY DEF Base, TypeOK
  <2>7. stats[s].successful = Cardinality(Recorded(s, "COMPLETED"))
        /\ stats[s].failed = Cardinality(Recorded(s, "FAILED"))
    BY <1>2 DEF TallyInv, Tally
  <2>8. CASE run[k].result = "COMPLETED"
    <3>1. stats'[s].successful = stats[s].successful + 1 /\ stats'[s].failed = stats[s].failed
      BY <2>2, <2>6, <2>8 DEF Counter, Base, TypeOK
    <3> QED
      BY <2>4, <2>5, <2>7, <2>8, <3>1
  <2>9. CASE run[k].result = "FAILED"
    <3>1. stats'[s].failed = stats[s].failed + 1 /\ stats'[s].successful = stats[s].successful
      BY <2>2, <2>6, <2>9 DEF Counter, Base, TypeOK
    <3> QED
      BY <2>4, <2>5, <2>7, <2>9, <3>1
  <2> QED
    BY <2>1, <2>8, <2>9
<1> QED
  BY <1>6, <1>7

LEMMA TallyStep ==
    ASSUME Base, TallyInv, [Next]_vars
    PROVE  TallyInv'
<1>1. Base'
  BY BaseStep
<1>2. ASSUME UNCHANGED <<run, task, linked, stats, blurred>> PROVE TallyInv'
  <2>1. \A k \in Runs : Progress(k)'
    BY <1>2 DEF TallyInv, Progress
  <2>2. ASSUME NEW s \in Schedules, Clear(s)'
        PROVE  /\ stats'[s].successful = Cardinality(Recorded(s, "COMPLETED")')
               /\ stats'[s].failed = Cardinality(Recorded(s, "FAILED")')
    <3>1. Clear(s)
      BY <1>2, <2>2 DEF Clear
    <3>2. Recorded(s, "COMPLETED")' = Recorded(s, "COMPLETED")
          /\ Recorded(s, "FAILED")' = Recorded(s, "FAILED")
      BY <1>2 DEF Recorded, Listed
    <3> QED
      BY <1>2, <3>1, <3>2 DEF TallyInv, Tally
  <2>3. Tally'
    BY <2>2 DEF Tally
  <2> QED
    BY <2>1, <2>3 DEF TallyInv
<1>3. ASSUME NEW k \in Runs, RunAction(k) PROVE TallyInv'
  <2>1. Tally'
    BY <1>1, <1>3, RunTally, CountTally
  <2>2. \A j \in Runs \ {k} : Progress(j)'
    BY <1>3, OtherRuns DEF TallyInv, Progress
  <2>3. Progress(k)'
    <3>1. CASE k \in blurred'
      BY <3>1 DEF Progress
    <3>2. CASE k \notin blurred'
      BY <1>3, <3>2, OwnRun DEF TallyInv
    <3> QED
      BY <3>1, <3>2
  <2> QED
    BY <2>1, <2>2, <2>3 DEF TallyInv
<1>4. ASSUME NEW q \in Requests, RequestStep(q) PROVE TallyInv'
  BY <1>2, <1>4, RequestFrame DEF Base, runVars
<1>5. CASE (\E q \in Requests, kind \in Kinds, s \in Schedules : Ask(q, kind, s)) \/ Crash
  BY <1>2, <1>5 DEF Ask, Crash, runVars, historyVars
<1>6. CASE CleanerStep
  BY <1>2, <1>6, CleanerFrame DEF Base, runVars, historyVars
<1>7. CASE UNCHANGED vars
  BY <1>2, <1>7 DEF vars, runVars, historyVars
<1> QED
  BY <1>3, <1>4, <1>5, <1>6, <1>7, NextCases

(* The statistics of a schedule are those of the runs its history lists:    *)
(* no run is counted twice, under the wrong status or not at all, unless a  *)
(* statement failed or an attempt was made again after it had counted.      *)
THEOREM StatisticsAgree == Spec => []StatsAgree
<1>1. Init => Base /\ TallyInv
  BY BaseInit, TallyInit
<1>2. Base /\ TallyInv /\ [Next]_vars => (Base /\ TallyInv)'
  BY BaseStep, TallyStep
<1>3. Base /\ TallyInv => StatsAgree
  <2> SUFFICES ASSUME Base, TallyInv, NEW s \in Schedules,
                      \A k \in Runs : k[1] = s => k \notin blurred /\ run[k].pc \notin {"row", "count"}
               PROVE  /\ stats[s].successful = Cardinality(Listed(s, "COMPLETED"))
                      /\ stats[s].failed = Cardinality(Listed(s, "FAILED"))
    BY DEF StatsAgree
  <2>1. Recorded(s, "COMPLETED") = Listed(s, "COMPLETED") /\ Recorded(s, "FAILED") = Listed(s, "FAILED")
    BY DEF Recorded, Listed, Base, TypeOK
  <2> QED
    BY <2>1 DEF TallyInv, Tally, Clear
<1> QED
  BY <1>1, <1>2, <1>3, PTL DEF Spec
=============================================================================
