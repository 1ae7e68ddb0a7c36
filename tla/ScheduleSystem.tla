---------------------------- MODULE ScheduleSystem ----------------------------
(***************************************************************************)
(* Schedules: the records (services/schedule/index.ts), the jobs that fire *)
(* them (schedule/ScheduleBeat.ts, queue/ScheduleQueue.ts), the runs of    *)
(* schedule/ScheduleExecutor.ts, and the requests that save, switch and    *)
(* delete scheduled flows (services/chatflows/index.ts).                   *)
(*                                                                         *)
(* In "cron" mode the jobs are timers of the one server and die with it.   *)
(* In "queue" mode they are kept in Redis, workers execute them, and more  *)
(* servers may start at any time.                                          *)
(*                                                                         *)
(* Whoever changes a record reads it, writes all of it, and then changes   *)
(* the job: others may step in between.  Times are left out: a job may     *)
(* fire whenever it exists, and nextRunAt may lie ahead of any firing.     *)
(*                                                                         *)
(* The database and Redis may refuse a call.  A request or an execution    *)
(* whose read or save throws ends there and changes nothing, so that it is *)
(* left out; a start that throws, and a change of a job that is lost after *)
(* the row was written, have actions of their own.                         *)
(*                                                                         *)
(* Definitions marked "faulty" are slips the properties must catch: no     *)
(* action uses them.                                                       *)
(***************************************************************************)
EXTENDS Naturals, FiniteSets

CONSTANTS Editor,     \* requests that change schedules
          Run,        \* executions that may go on at the same time
          Flow,       \* flows that start on a schedule
          Cron,       \* cron expressions that validateCronExpression accepts
          NodeCron,   \* those that cron.validate of node-cron accepts too
          CronsOf,    \* the expressions that requests give to each flow
          EndDate,    \* end dates a schedule may be given; Never may be one of them
          Modes,      \* values of process.env.MODE to look at
          MaxRecords, \* bound: records created
          MaxCrashes, \* bound: crashes of workers
          BatchSize,  \* SCHEDULE_BATCH_SIZE
          Never,      \* no end date
          None        \* no row, or no job

ASSUME ScheduleAssumption ==
  /\ MaxRecords \in Nat
  /\ MaxCrashes \in Nat
  /\ BatchSize \in Nat \ {0}
  /\ Modes \subseteq {"cron", "queue"}
  /\ NodeCron \subseteq Cron
  /\ CronsOf \in [Flow -> SUBSET Cron]

ASSUME NamesAssumption ==
  /\ None \notin Cron
  /\ None \notin [flow : Flow, enabled : BOOLEAN, cron : Cron, ends : EndDate]

VARIABLES
  mode,     \* "cron" or "queue"
  rec,      \* rec[r]: the row of the schedule table, or None
  created,  \* rows created so far: the order of createdDate
  passed,   \* the end dates that lie in the past
  job,      \* job[r]: the cron of the job registered for r, or None
  up,       \* the server runs ("queue" mode: one of them always does)
  crashes,  \* crashes of workers so far
  sync,     \* _syncAllJobs of a starting server
  ed,       \* ed[e]: the place of request e, and the row as it knows it
  run,      \* run[x]: the place of execution x, and the row as it read it
  excused   \* history: rows whose job was last set by somebody whose view of
            \* the row was out of date or whose change was lost, who were
            \* skipped by a page, or not reached by a start that failed

vars == <<mode, rec, created, passed, job, up, crashes, sync, ed, run, excused>>

Id == 1..MaxRecords
Row == [flow : Flow, enabled : BOOLEAN, cron : Cron, ends : EndDate]
Known == Row \cup {None}

Enabled(r) == rec[r] # None /\ rec[r].enabled
Lapsed(row) == row.ends \in passed
RowsOf(f) == {r \in Id : rec[r] # None /\ rec[r].flow = f}

Wanted(row) == row # None /\ row.enabled

\* The job that is registered for a row.  _upsertCronJob, which removed the old
\* timer first, skips an expression that node-cron does not know.
JobFor(row) == IF Wanted(row) /\ (mode = "cron" => row.cron \in NodeCron) THEN row.cron ELSE None

\* The rows getEnabledSchedulesBatch lists, in the order of their creation, and
\* how many of them come before r.
EnabledRows == {r \in Id : Enabled(r)}
Before(r) == Cardinality({s \in EnabledRows : s < r})

\* A starting server still has the row on its page, or further down the list.
ToBeListed(r) ==
  /\ sync.on /\ Enabled(r)
  /\ Before(r) >= sync.skip \/ \E b \in sync.batch : b[1] = r
Unreached == {r \in Id : ToBeListed(r)}

Idle == [pc |-> "idle", op |-> "none", r |-> 0, flow |-> None, row |-> None]
IdleRun == [pc |-> "idle", r |-> 0, row |-> None]

TypeOK ==
  /\ mode \in Modes
  /\ rec \in [Id -> Known]
  /\ created \in 0..MaxRecords
  /\ passed \subseteq EndDate \ {Never}
  /\ job \in [Id -> Cron \cup {None}]
  /\ up \in BOOLEAN
  /\ crashes \in 0..MaxCrashes
  /\ sync \in [on : BOOLEAN, skip : Nat, batch : SUBSET (Id \X Row)]
  /\ ed \in [Editor -> [pc : {"idle", "found", "upsert", "delete", "reread"},
                        op : {"none", "save", "on", "off", "drop"},
                        r : 0..MaxRecords, flow : Flow \cup {None}, row : Known]]
  /\ run \in [Run -> [pc : {"idle", "fired", "loaded", "lapsed", "running"},
                      r : 0..MaxRecords, row : Known]]
  /\ excused \subseteq Id

Init ==
  /\ mode \in Modes
  /\ rec = [r \in Id |-> None]
  /\ created = 0
  /\ passed = {}
  /\ job = [r \in Id |-> None]
  /\ up = (mode = "queue")
  /\ crashes = 0
  /\ sync = [on |-> FALSE, skip |-> 0, batch |-> {}]
  /\ ed = [e \in Editor |-> Idle]
  /\ run = [x \in Run |-> IdleRun]
  /\ excused = {}

-----------------------------------------------------------------------------
(* How rows and jobs change.                                               *)

\* A row is taken out of the list of enabled ones before the offset of a
\* starting server: the rows behind it move up, and one may be skipped.
Shifted(r, row) ==
  IF sync.on /\ Enabled(r) /\ ~Wanted(row)
  THEN {s \in Id : s > r /\ Enabled(s)}
  ELSE {}

\* repo.save of a whole row, which also brings back a row that was deleted.
WriteRow(r, row) ==
  /\ rec' = [rec EXCEPT ![r] = row]
  /\ excused' = excused \cup Shifted(r, row)

\* The job of r is set by somebody who knows the row as "row".
SetJob(r, row, j) ==
  /\ job' = [job EXCEPT ![r] = j]
  /\ excused' = IF rec[r] = row THEN excused \ {r} ELSE excused \cup {r}

Upsert(r, row) == SetJob(r, row, JobFor(row))
FaultyRemove(r, row) == UNCHANGED <<job, excused>>
Remove(r, row) == SetJob(r, row, None)

-----------------------------------------------------------------------------
(* Requests that change schedules.                                         *)

\* The one server of "cron" mode listens when its start is over.
Listening == up /\ (mode = "cron" => ~sync.on)

\* The request looks for the row of its flow.  Switching or deleting a
\* schedule that does not exist does nothing.
Find(e, op, f) ==
  /\ Listening
  /\ ed[e].pc = "idle"
  /\ \/ \E r \in RowsOf(f) :
          ed' = [ed EXCEPT ![e] = [pc |-> "found", op |-> op, r |-> r, flow |-> f,
                                   row |-> rec[r]]]
     \/ /\ op = "save" /\ RowsOf(f) = {}
        /\ ed' = [ed EXCEPT ![e] = [pc |-> "found", op |-> op, r |-> 0, flow |-> f,
                                    row |-> None]]
  /\ UNCHANGED <<mode, rec, created, passed, job, up, crashes, sync, run, excused>>

\* What the request tells ScheduleBeat once it wrote the row.  (A new flow whose
\* schedule is disabled tells nothing: its row has no job to remove.)
FaultyNotice(row) == IF row # None THEN "upsert" ELSE "idle"
Notice(row) == IF Wanted(row) THEN "upsert" ELSE "delete"

FaultyWritten(e, r, row) ==
  ed' = [ed EXCEPT ![e] = [Idle EXCEPT !.pc = ed[e].op, !.r = r]]
Written(e, r, row) ==
  ed' = [ed EXCEPT ![e] = [Idle EXCEPT !.pc = Notice(row), !.r = r,
                                       !.row = IF Notice(row) = "delete" THEN row ELSE None]]

\* createOrUpdateSchedule found no row for the flow.
Create(e) ==
  /\ ed[e].pc = "found" /\ ed[e].op = "save" /\ ed[e].row = None
  /\ created < MaxRecords
  /\ \E c \in CronsOf[ed[e].flow], d \in EndDate, canEnable \in BOOLEAN :
       LET row == [flow |-> ed[e].flow, enabled |-> canEnable, cron |-> c, ends |-> d]
       IN  WriteRow(created + 1, row) /\ Written(e, created + 1, row)
  /\ created' = created + 1
  /\ UNCHANGED <<mode, passed, job, up, crashes, sync, run>>

\* createOrUpdateSchedule merges into the row it found: the switch stays as
\* it was read, unless the schedule cannot be enabled any more.
Save(e) ==
  /\ ed[e].pc = "found" /\ ed[e].op = "save" /\ ed[e].row # None
  /\ \E c \in CronsOf[ed[e].flow], d \in EndDate, canEnable \in BOOLEAN :
       LET row == [ed[e].row EXCEPT !.cron = c, !.ends = d, !.enabled = canEnable /\ @]
       IN  WriteRow(ed[e].r, row) /\ Written(e, ed[e].r, row)
  /\ UNCHANGED <<mode, created, passed, job, up, crashes, sync, run>>

\* toggleScheduleEnabled: a schedule whose end date passed is not enabled.
Toggle(e) ==
  /\ ed[e].pc = "found" /\ ed[e].op \in {"on", "off"}
  /\ ed[e].op = "on" => ~Lapsed(ed[e].row)
  /\ LET row == [ed[e].row EXCEPT !.enabled = (ed[e].op = "on")]
     IN  WriteRow(ed[e].r, row) /\ Written(e, ed[e].r, row)
  /\ UNCHANGED <<mode, created, passed, job, up, crashes, sync, run>>

ToggleRefused(e) ==
  /\ ed[e].pc = "found" /\ ed[e].op = "on" /\ Lapsed(ed[e].row)
  /\ ed' = [ed EXCEPT ![e] = Idle]
  /\ UNCHANGED <<mode, rec, created, passed, job, up, crashes, sync, run, excused>>

\* deleteScheduleForTarget: the flow is deleted, or starts otherwise now.
Drop(e) ==
  /\ ed[e].pc = "found" /\ ed[e].op = "drop"
  /\ WriteRow(ed[e].r, None)
  /\ Written(e, ed[e].r, None)
  /\ UNCHANGED <<mode, created, passed, job, up, crashes, sync, run>>

\* onScheduleChanged reads the row again for an upsert ...
Reread(e) ==
  /\ ed[e].pc = "upsert"
  /\ ed' = [ed EXCEPT ![e].pc = "reread", ![e].row = rec[ed[e].r]]
  /\ UNCHANGED <<mode, rec, created, passed, job, up, crashes, sync, run, excused>>

\* ... and registers the job, or removes it if the row is gone or disabled.
ApplyUpsert(e) ==
  /\ ed[e].pc = "reread"
  /\ Upsert(ed[e].r, ed[e].row)
  /\ ed' = [ed EXCEPT ![e] = Idle]
  /\ UNCHANGED <<mode, rec, created, passed, up, crashes, sync, run>>

\* A delete removes the job without another look at the row.
ApplyDelete(e) ==
  /\ ed[e].pc = "delete"
  /\ Remove(ed[e].r, ed[e].row)
  /\ ed' = [ed EXCEPT ![e] = Idle]
  /\ UNCHANGED <<mode, rec, created, passed, up, crashes, sync, run>>

\* The second look at the row, or Redis, throws: the error is logged and the
\* request succeeds.
ApplyLost(e) ==
  /\ ed[e].pc = "upsert" \/ (mode = "queue" /\ ed[e].pc \in {"reread", "delete"})
  /\ excused' = excused \cup {ed[e].r}
  /\ ed' = [ed EXCEPT ![e] = Idle]
  /\ UNCHANGED <<mode, rec, created, passed, job, up, crashes, sync, run>>

-----------------------------------------------------------------------------
(* Executions of executeScheduleJob.                                       *)

Fire(x, r) ==
  /\ run[x].pc = "idle" /\ job[r] # None
  /\ run' = [run EXCEPT ![x] = [pc |-> "fired", r |-> r, row |-> None]]
  /\ UNCHANGED <<mode, rec, created, passed, job, up, crashes, sync, ed, excused>>

Load(x) ==
  /\ run[x].pc = "fired"
  /\ run' = [run EXCEPT ![x].pc = "loaded", ![x].row = rec[run[x].r]]
  /\ UNCHANGED <<mode, rec, created, passed, job, up, crashes, sync, ed, excused>>

\* The row is gone or disabled: its job is removed.
Skip(x) ==
  /\ run[x].pc = "loaded" /\ ~Wanted(run[x].row)
  /\ Remove(run[x].r, run[x].row)
  /\ run' = [run EXCEPT ![x] = IdleRun]
  /\ UNCHANGED <<mode, rec, created, passed, up, crashes, sync, ed>>

Runnable(x) == run[x].pc = "loaded" /\ Wanted(run[x].row)

\* The end date passed, or the input is not valid (left to the end date
\* here): the row is saved as disabled, as it was read ...
Lapse(x) ==
  /\ Runnable(x) /\ Lapsed(run[x].row)
  /\ LET row == [run[x].row EXCEPT !.enabled = FALSE]
     IN  /\ WriteRow(run[x].r, row)
         /\ run' = [run EXCEPT ![x].pc = "lapsed", ![x].row = row]
  /\ UNCHANGED <<mode, created, passed, job, up, crashes, sync, ed>>

\* ... and its job is removed.
Unschedule(x) ==
  /\ run[x].pc = "lapsed"
  /\ Remove(run[x].r, run[x].row)
  /\ run' = [run EXCEPT ![x] = IdleRun]
  /\ UNCHANGED <<mode, rec, created, passed, up, crashes, sync, ed>>

\* "queue" mode: removeJobScheduler logs that Redis refused, and the execution
\* is over all the same.
RemovalLost(x) ==
  /\ mode = "queue"
  /\ \/ run[x].pc = "lapsed" /\ excused' = excused \cup {run[x].r}
     \/ run[x].pc = "loaded" /\ ~Wanted(run[x].row) /\ UNCHANGED excused
  /\ run' = [run EXCEPT ![x] = IdleRun]
  /\ UNCHANGED <<mode, rec, created, passed, job, up, crashes, sync, ed>>

\* nextRunAt lies ahead.
TooEarly(x) ==
  /\ Runnable(x) /\ ~Lapsed(run[x].row)
  /\ run' = [run EXCEPT ![x] = IdleRun]
  /\ UNCHANGED <<mode, rec, created, passed, job, up, crashes, sync, ed, excused>>

\* The trigger log says RUNNING and the flow is executed.
Execute(x) ==
  /\ Runnable(x) /\ ~Lapsed(run[x].row)
  /\ run' = [run EXCEPT ![x].pc = "running", ![x].row = None]
  /\ UNCHANGED <<mode, rec, created, passed, job, up, crashes, sync, ed, excused>>

\* The flow returns or throws; of the row only lastRunAt and nextRunAt change.
End(x) ==
  /\ run[x].pc = "running"
  /\ run' = [run EXCEPT ![x] = IdleRun]
  /\ UNCHANGED <<mode, rec, created, passed, job, up, crashes, sync, ed, excused>>

-----------------------------------------------------------------------------
(* A server starts, stops, and time passes.                                *)

Boot ==
  /\ ~sync.on
  /\ mode = "cron" => ~up
  /\ up' = TRUE
  /\ sync' = [on |-> TRUE, skip |-> 0, batch |-> {}]
  /\ UNCHANGED <<mode, rec, created, passed, job, crashes, ed, run, excused>>

\* getEnabledSchedulesBatch
Page == {r \in EnabledRows : Before(r) \in sync.skip..(sync.skip + BatchSize - 1)}

ReadPage ==
  /\ sync.on /\ sync.batch = {}
  /\ sync' = IF Page = {} THEN [on |-> FALSE, skip |-> 0, batch |-> {}]
             ELSE [on |-> TRUE, skip |-> sync.skip + Cardinality(Page),
                   batch |-> {<<r, rec[r]>> : r \in Page}]
  /\ UNCHANGED <<mode, rec, created, passed, job, up, crashes, ed, run, excused>>

\* The rows of the page are registered one after the other, as they were read.
Register ==
  /\ sync.on
  /\ \E b \in sync.batch :
       /\ \A other \in sync.batch : b[1] <= other[1]
       /\ Upsert(b[1], b[2])
       /\ sync' = [sync EXCEPT !.batch = @ \ {b}]
  /\ UNCHANGED <<mode, rec, created, passed, up, crashes, ed, run>>

\* The list cannot be read, or Redis refuses a registration: _syncAllJobs throws,
\* initDatabase logs it and the server listens with the jobs it has.
SyncFails ==
  /\ sync.on
  /\ sync.batch = {} \/ mode = "queue"
  /\ sync' = [on |-> FALSE, skip |-> 0, batch |-> {}]
  /\ excused' = excused \cup Unreached
  /\ UNCHANGED <<mode, rec, created, passed, job, up, crashes, ed, run>>

\* Rows that somebody is about to change the job of.
Pending == {ed[e].r : e \in {e \in Editor : ed[e].pc \in {"upsert", "delete", "reread"}}}
LapsePending == {run[x].r : x \in {x \in Run : run[x].pc = "lapsed"}}

\* The server dies.  In "cron" mode jobs and executions die with it.
Crash ==
  /\ up
  /\ up' = (mode = "queue")
  /\ sync' = [on |-> FALSE, skip |-> 0, batch |-> {}]
  /\ ed' = [e \in Editor |-> Idle]
  /\ IF mode = "cron"
     THEN /\ job' = [r \in Id |-> None]
          /\ run' = [x \in Run |-> IdleRun]
          /\ excused' = {}
     ELSE /\ excused' = excused \cup Pending \cup Unreached
          /\ UNCHANGED <<job, run>>
  /\ UNCHANGED <<mode, rec, created, passed, crashes>>

\* "queue" mode: the workers die and start again; the jobs they had are
\* executed again.
CrashWorker ==
  /\ mode = "queue" /\ crashes < MaxCrashes
  /\ \E x \in Run : run[x].pc # "idle"
  /\ crashes' = crashes + 1
  /\ run' = [x \in Run |-> IF run[x].pc = "idle" THEN IdleRun
                           ELSE [pc |-> "fired", r |-> run[x].r, row |-> None]]
  /\ excused' = excused \cup LapsePending
  /\ UNCHANGED <<mode, rec, created, passed, job, up, sync, ed>>

Pass(d) ==
  /\ d \notin passed
  /\ passed' = passed \cup {d}
  /\ UNCHANGED <<mode, rec, created, job, up, crashes, sync, ed, run, excused>>

-----------------------------------------------------------------------------
Edit(e) == Create(e) \/ Save(e) \/ Toggle(e) \/ ToggleRefused(e) \/ Drop(e)
             \/ Reread(e) \/ ApplyUpsert(e) \/ ApplyDelete(e) \/ ApplyLost(e)

Step(x) == Load(x) \/ Skip(x) \/ Lapse(x) \/ Unschedule(x) \/ RemovalLost(x)
             \/ TooEarly(x) \/ Execute(x) \/ End(x)

Next ==
  \/ \E e \in Editor, f \in Flow, op \in {"save", "on", "off", "drop"} : Find(e, op, f)
  \/ \E e \in Editor : Edit(e)
  \/ \E x \in Run, r \in Id : Fire(x, r)
  \/ \E x \in Run : Step(x)
  \/ Boot \/ ReadPage \/ Register \/ SyncFails \/ Crash \/ CrashWorker
  \/ \E d \in EndDate \ {Never} : Pass(d)

\* Handlers that began go on, a job fires again and again, a starting server
\* goes on with its list, and Redis does not refuse the removals of one row for
\* ever.
Fairness ==
  /\ \A e \in Editor : WF_vars(Edit(e))
  /\ \A x \in Run : WF_vars(Step(x))
  /\ \A r \in Id : SF_vars(\E x \in Run : Fire(x, r))
  /\ \A r \in Id : SF_vars(\E x \in Run : run[x].r = r /\ (Skip(x) \/ Unschedule(x)))
  /\ WF_vars(ReadPage \/ Register)

Spec == Init /\ [][Next]_vars
FairSpec == Spec /\ Fairness

-----------------------------------------------------------------------------
(* Properties.                                                             *)

\* Jobs follow the table: whenever the job of a row is not what its row asks
\* for, a request or an execution is about to set it, a starting server has the
\* row ahead of it in its list, or whoever should have set it last had an
\* outdated view of the row, was cut off by a crash or a refused call, failed
\* to start, or skipped the row (ScheduleBeat, executeScheduleJob).
Attended(r) == r \in Pending \cup LapsePending \cup Unreached \/ ~up
JobsFollowRows == \A r \in Id : job[r] = JobFor(rec[r]) \/ Attended(r) \/ r \in excused

\* A job that should not fire any more, since its row is gone, disabled or past
\* its end date, goes away, whoever left it behind: its own firing finds the
\* row so, disables it and removes the job (callbacks of executeScheduleJob).
Due(r) == Enabled(r) /\ ~Lapsed(rec[r])
UselessJobsGo == \A r \in Id : (job[r] # None /\ ~Due(r)) ~> (job[r] = None \/ Due(r))
=============================================================================
