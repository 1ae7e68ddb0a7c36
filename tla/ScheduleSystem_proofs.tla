------------------------- MODULE ScheduleSystem_proofs -------------------------
(***************************************************************************)
(* What holds of schedules for any number of requests, executions, flows,  *)
(* records and crashes, and for pages of any size: the types, and that the *)
(* jobs follow the table.                                                  *)
(***************************************************************************)
EXTENDS ScheduleSystem, FiniteSetTheorems, WellFoundedInduction, TLAPS

\* Every non-empty set of rows has a lowest one.
LEMMA LowestRow ==
  ASSUME NEW S \in SUBSET Id, S # {}
  PROVE  \E m \in S : \A k \in S : m <= k
<1> DEFINE UpTo(k) == 1..k
           Tails == {UpTo(k) : k \in S}
<1>1. IsFiniteSet(Id)
  BY FS_Interval, ScheduleAssumption DEF Id
<1>2. IsWellFoundedOn(StrictSubsetOrdering(Id), SUBSET Id)
  BY <1>1, FS_StrictSubsetOrderingWellFounded, FS_FiniteSubsetsOfFinite
<1>3. Tails \subseteq SUBSET Id /\ Tails # {}
  <2>1. \A k \in S : UpTo(k) \in SUBSET Id
    BY ScheduleAssumption DEF Id
  <2> HIDE DEF UpTo
  <2> QED
    BY <2>1
<1> HIDE DEF Tails
<1>4. PICK T \in Tails : \A U \in Tails : <<U, T>> \notin StrictSubsetOrdering(Id)
  BY <1>2, <1>3, WFMin
<1>5. PICK m \in S : T = UpTo(m)
  BY <1>4 DEF Tails
<1>6. ASSUME NEW k \in S, ~(m <= k) PROVE FALSE
  <2>1. UpTo(k) \in Tails /\ UpTo(k) \in SUBSET Id /\ T \in SUBSET Id
    <3> HIDE DEF UpTo
    <3> QED
      BY <1>3, <1>4 DEF Tails
  <2>2. UpTo(k) \subseteq T /\ m \in T /\ m \notin UpTo(k)
    BY <1>5, <1>6, ScheduleAssumption DEF Id
  <2> QED
    BY <1>4, <2>1, <2>2 DEF StrictSubsetOrdering
<1> QED
  BY <1>6, <1>5

\* The positions of rows in the list of a page are numbers, and tell them apart.
LEMMA Positions ==
  /\ \A r \in Id : Before(r) \in Nat
  /\ \A r \in EnabledRows, s \in EnabledRows : s < r => Before(s) < Before(r)
<1> DEFINE Below(r) == {s \in EnabledRows : s < r}
<1>1. ASSUME NEW r \in Id PROVE IsFiniteSet(Below(r)) /\ Before(r) = Cardinality(Below(r))
  <2>1. Below(r) \in SUBSET Id
    BY DEF EnabledRows
  <2>2. IsFiniteSet(Id)
    BY FS_Interval, ScheduleAssumption DEF Id
  <2>3. Before(r) = Cardinality(Below(r))
    BY DEF Before
  <2> QED
    BY <2>1, <2>2, <2>3, FS_Subset
<1>2. ASSUME NEW r \in EnabledRows, NEW s \in EnabledRows, s < r
      PROVE  Cardinality(Below(s)) < Cardinality(Below(r))
  <2>1. Below(s) \in SUBSET Below(r) /\ s \in Below(r) /\ s \notin Below(s)
    BY <1>2, ScheduleAssumption DEF EnabledRows, Id
  <2>2. r \in Id /\ s \in Id
    BY DEF EnabledRows
  <2> HIDE DEF Below
  <2> QED
    BY <1>1, <2>1, <2>2, FS_Subset, FS_CardinalityType
<1> HIDE DEF Below
<1>3. \A r \in Id : Before(r) \in Nat
  BY <1>1, FS_CardinalityType
<1>4. EnabledRows \subseteq Id
  BY DEF EnabledRows
<1> QED
  BY <1>1, <1>2, <1>3, <1>4

\* Rows that are told apart by positions in an interval are no more than its numbers.
LEMMA FewRows ==
  ASSUME NEW S \in SUBSET EnabledRows, NEW a \in Nat, NEW b \in Nat,
         \A r \in S : Before(r) \in a..(a + b - 1)
  PROVE  IsFiniteSet(S) /\ Cardinality(S) \in Nat /\ Cardinality(S) <= b
<1> DEFINE f == [r \in S |-> Before(r)]
           I == a..(a + b - 1)
<1>1. IsFiniteSet(I) /\ Cardinality(I) = b
  BY FS_Interval
<1>2. S \subseteq Id
  BY DEF EnabledRows
<1>3. f \in [S -> I]
  OBVIOUS
<1>4. \A r \in S, s \in S : f[r] = f[s] => r = s
  <2> SUFFICES ASSUME NEW r \in S, NEW s \in S, f[r] = f[s], r # s PROVE FALSE
    OBVIOUS
  <2>1. r < s \/ s < r
    BY <1>2, ScheduleAssumption DEF Id
  <2>2. Before(r) \in Nat /\ Before(s) \in Nat
    BY <1>2, Positions
  <2> QED
    BY <2>1, <2>2, Positions
<1>5. f \in Injection(S, I)
  BY <1>3, <1>4 DEF Injection, IsInjective
<1> HIDE DEF f, I
<1>6. IsFiniteSet(S) /\ Cardinality(S) <= Cardinality(I)
  BY <1>1, <1>5, FS_Injection DEF ExistsInjection
<1> QED
  BY <1>1, <1>6, FS_CardinalityType

\* A page that could hold a row further down the list is not empty, and what is not on
\* it is still ahead of the next offset.
LEMMA PageGoesOn ==
  ASSUME NEW r \in EnabledRows, sync.skip \in Nat, Before(r) >= sync.skip
  PROVE  /\ Page # {} /\ Cardinality(Page) \in Nat
         /\ r \in Page \/ Before(r) >= sync.skip + Cardinality(Page)
<1> DEFINE Ahead == {s \in EnabledRows : Before(s) >= sync.skip}
<1>1. EnabledRows \subseteq Id /\ (\A s \in EnabledRows : Before(s) \in Nat)
  BY Positions DEF EnabledRows
<1>2. Page \subseteq EnabledRows /\ Cardinality(Page) \in Nat /\ Cardinality(Page) <= BatchSize
  <2>1. Page \in SUBSET EnabledRows /\ BatchSize \in Nat
    BY ScheduleAssumption DEF Page
  <2>2. \A s \in Page : Before(s) \in sync.skip..(sync.skip + BatchSize - 1)
    BY DEF Page
  <2> QED
    BY <2>1, <2>2, FewRows
<1>3. PICK m \in Ahead : \A k \in Ahead : m <= k
  BY <1>1, LowestRow
<1>4. Before(m) = sync.skip
  <2> SUFFICES ASSUME Before(m) # sync.skip PROVE FALSE
    OBVIOUS
  <2> DEFINE Below == {s \in EnabledRows : s < m}
  <2>1. m \in EnabledRows /\ Before(m) \in Nat /\ Before(m) > sync.skip
    BY <1>1
  <2>2. ASSUME NEW s \in Below PROVE Before(s) \in 0..(0 + sync.skip - 1)
    <3>1. s \in EnabledRows /\ s < m /\ s \in Id /\ m \in Id
      BY <1>1
    <3>2. s \notin Ahead
      BY <1>3, <3>1, ScheduleAssumption DEF Id
    <3> QED
      BY <1>1, <3>1, <3>2
  <2>3. Below \in SUBSET EnabledRows
    OBVIOUS
  <2>4. Cardinality(Below) <= sync.skip
    <3> HIDE DEF Below
    <3> QED
      BY <2>2, <2>3, FewRows
  <2>5. Before(m) = Cardinality(Below)
    BY DEF Before
  <2> QED
    BY <2>1, <2>4, <2>5
<1>5. m \in Page
  BY <1>4, ScheduleAssumption DEF Page
<1>6. ASSUME r \notin Page PROVE Before(r) >= sync.skip + Cardinality(Page)
  BY <1>1, <1>2, <1>6, ScheduleAssumption DEF Page
<1> QED
  BY <1>2, <1>5, <1>6

\* A row moves up the list only when an enabled row before it leaves the list.
LEMMA MovesUp ==
  ASSUME NEW r \in Id, NEW row, rec \in [Id -> Known], rec' = [rec EXCEPT ![r] = row],
         NEW s \in Id, Wanted(row) \/ ~Enabled(r) \/ ~(r < s), row \in Known
  PROVE  Before(s) \in Nat /\ Before(s)' \in Nat /\ Before(s) <= Before(s)'
<1> DEFINE Below == {x \in EnabledRows : x < s}
<1>1. IsFiniteSet(Id)
  BY FS_Interval, ScheduleAssumption DEF Id
<1>2. Below \in SUBSET Id /\ Below' \in SUBSET Id
  BY DEF EnabledRows
<1>3. Below \subseteq Below'
  BY DEF EnabledRows, Enabled, Wanted, Known
<1>4. Before(s) = Cardinality(Below) /\ Before(s)' = Cardinality(Below')
  BY DEF Before
<1> HIDE DEF Below
<1>5. IsFiniteSet(Below) /\ IsFiniteSet(Below')
  BY <1>1, <1>2, FS_Subset
<1>6. Cardinality(Below) <= Cardinality(Below')
  BY <1>3, <1>5, FS_Subset
<1> QED
  BY <1>4, <1>5, <1>6, FS_CardinalityType

-----------------------------------------------------------------------------
(* The inductive invariant.                                                *)

\* What a request or an execution holds fits the place it is at.
EditorsFit ==
  \A e \in Editor :
    /\ ed[e].pc \in {"upsert", "delete", "reread"} => ed[e].r \in Id
    /\ ed[e].pc = "found" /\ ed[e].row # None => ed[e].r \in Id
    /\ ed[e].pc = "found" => ed[e].flow \in Flow /\ (ed[e].op # "save" => ed[e].row # None)
    /\ ed[e].pc = "found" => ed[e].op # "none"
    /\ ed[e].pc = "delete" => ~Wanted(ed[e].row)

RunsFit ==
  \A x \in Run :
    /\ run[x].pc # "idle" => run[x].r \in Id
    /\ run[x].pc = "lapsed" => ~Wanted(run[x].row)

\* A server that is down has left no job and nobody who would set one.
DownIsEmpty ==
  /\ mode = "queue" => up
  /\ ~up => /\ \A r \in Id : job[r] = None
            /\ \A e \in Editor : ed[e].pc = "idle"
            /\ \A x \in Run : run[x].pc = "idle"
            /\ ~sync.on

\* JobsFollowRows, spelled out.
Settled ==
  \A r \in Id : \/ job[r] = JobFor(rec[r])
                \/ r \in Pending \cup LapsePending \cup excused
                \/ ~up
                \/ ToBeListed(r)

IInv == TypeOK /\ EditorsFit /\ RunsFit /\ DownIsEmpty /\ Settled

-----------------------------------------------------------------------------
(* Types.                                                                  *)

EditorState == [pc : {"idle", "found", "upsert", "delete", "reread"},
                op : {"none", "save", "on", "off", "drop"},
                r : 0..MaxRecords, flow : Flow \cup {None}, row : Known]
RunState == [pc : {"idle", "fired", "loaded", "lapsed", "running"},
             r : 0..MaxRecords, row : Known]
SyncState == [on : BOOLEAN, skip : Nat, batch : SUBSET (Id \X Row)]

\* TypeOK, a variable at a time.
LEMMA Types ==
  TypeOK <=> /\ mode \in Modes /\ rec \in [Id -> Known] /\ created \in 0..MaxRecords
             /\ passed \subseteq EndDate \ {Never} /\ job \in [Id -> Cron \cup {None}]
             /\ up \in BOOLEAN /\ crashes \in 0..MaxCrashes
             /\ sync \in SyncState /\ ed \in [Editor -> EditorState]
             /\ run \in [Run -> RunState] /\ excused \subseteq Id
BY DEF TypeOK, EditorState, RunState, SyncState

\* The same of the next state.
LEMMA TypesNext ==
  TypeOK' <=> /\ mode' \in Modes /\ rec' \in [Id -> Known] /\ created' \in 0..MaxRecords
              /\ passed' \subseteq EndDate \ {Never} /\ job' \in [Id -> Cron \cup {None}]
              /\ up' \in BOOLEAN /\ crashes' \in 0..MaxCrashes
              /\ sync' \in SyncState /\ ed' \in [Editor -> EditorState]
              /\ run' \in [Run -> RunState] /\ excused' \subseteq Id
BY DEF TypeOK, EditorState, RunState, SyncState

\* The job a known row asks for.
LEMMA JobForType == \A row \in Known : JobFor(row) \in Cron \cup {None}
BY DEF JobFor, Wanted, Known, Row

\* A row that is gone or disabled asks for no job.
LEMMA NoJob == \A row : ~Wanted(row) => JobFor(row) = None
BY DEF JobFor

\* In the same mode a row asks for the same job.
LEMMA SameJob == UNCHANGED mode => \A row : JobFor(row)' = JobFor(row)
BY DEF JobFor, Wanted

\* What an editor or an execution holds is typed, and the idle ones are.
LEMMA Parts ==
  ASSUME TypeOK
  PROVE  /\ \A e \in Editor : /\ ed[e].pc \in {"idle", "found", "upsert", "delete", "reread"}
                              /\ ed[e].op \in {"none", "save", "on", "off", "drop"}
                              /\ ed[e].r \in 0..MaxRecords
                              /\ ed[e].flow \in Flow \cup {None} /\ ed[e].row \in Known
         /\ \A x \in Run : /\ run[x].pc \in {"idle", "fired", "loaded", "lapsed", "running"}
                           /\ run[x].r \in 0..MaxRecords /\ run[x].row \in Known
         /\ Idle \in EditorState /\ Idle.pc = "idle" /\ IdleRun \in RunState /\ IdleRun.pc = "idle"
         /\ sync.on \in BOOLEAN /\ sync.skip \in Nat /\ sync.batch \in SUBSET (Id \X Row)
         /\ \A r \in Id : rec[r] \in Known
<1> USE Types DEF EditorState, RunState, SyncState
<1>1. Idle \in EditorState /\ Idle.pc = "idle" /\ IdleRun \in RunState /\ IdleRun.pc = "idle"
  BY ScheduleAssumption DEF Idle, IdleRun, Known
<1>2. sync.on \in BOOLEAN /\ sync.skip \in Nat /\ sync.batch \in SUBSET (Id \X Row)
  OBVIOUS
<1> QED
  BY <1>1, <1>2

\* Writing a row changes the table and the excused rows only.
LEMMA WriteRowType ==
  ASSUME TypeOK, NEW r \in Id, NEW row \in Known, WriteRow(r, row)
  PROVE  rec' \in [Id -> Known] /\ excused' \subseteq Id
BY Types DEF WriteRow, Shifted

\* Setting a job changes the jobs and the excused rows only.
LEMMA SetJobType ==
  ASSUME TypeOK, NEW r \in Id, NEW row, NEW j \in Cron \cup {None}, SetJob(r, row, j)
  PROVE  job' \in [Id -> Cron \cup {None}] /\ excused' \subseteq Id
BY Types DEF SetJob

\* After a write the request is about to set the job of the row.
LEMMA WrittenType ==
  ASSUME TypeOK, NEW e \in Editor, NEW r \in Id, NEW row \in Known, Written(e, r, row)
  PROVE  /\ ed' \in [Editor -> EditorState]
         /\ \A o \in Editor : o # e => ed'[o] = ed[o]
         /\ ed'[e].pc \in {"upsert", "delete"} /\ ed'[e].r = r
         /\ ed'[e].pc = "delete" => ~Wanted(ed'[e].row)
<1> DEFINE seen == IF Notice(row) = "delete" THEN row ELSE None
           new == [Idle EXCEPT !.pc = Notice(row), !.r = r, !.row = seen]
<1>1. Notice(row) \in {"upsert", "delete"} /\ (Notice(row) = "delete" => ~Wanted(row))
  BY DEF Notice
<1>2. ed' = [ed EXCEPT ![e] = new]
  BY DEF Written
<1>3. seen \in Known /\ r \in 0..MaxRecords /\ (Notice(row) = "delete" => seen = row)
  BY ScheduleAssumption DEF Known, Id
<1> HIDE DEF seen
<1>4. new \in EditorState /\ new.pc = Notice(row) /\ new.r = r /\ new.row = seen
  BY <1>1, <1>3, Parts DEF EditorState
<1> HIDE DEF new
<1> QED
  BY <1>1, <1>2, <1>3, <1>4, Types

\* The expressions of the flow that a request found are cron expressions.
LEMMA CronsOfFound ==
  ASSUME EditorsFit, NEW e \in Editor, ed[e].pc = "found"
  PROVE  CronsOf[ed[e].flow] \subseteq Cron
BY ScheduleAssumption DEF EditorsFit

\* Every step keeps the types, as long as what requests and executions hold fits.
LEMMA TypeNext ==
  TypeOK /\ EditorsFit /\ RunsFit /\ [Next]_vars => TypeOK'
<1> SUFFICES ASSUME TypeOK, EditorsFit, RunsFit, [Next]_vars PROVE TypeOK'
  OBVIOUS
<1>1. ASSUME NEW e \in Editor, NEW f \in Flow, NEW op \in {"save", "on", "off", "drop"}, Find(e, op, f)
      PROVE  TypeOK'
  <2>1. ASSUME NEW r \in RowsOf(f),
               ed' = [ed EXCEPT ![e] = [pc |-> "found", op |-> op, r |-> r, flow |-> f,
                                        row |-> rec[r]]]
        PROVE  ed' \in [Editor -> EditorState]
    BY <2>1, Types DEF EditorState, RowsOf, Id
  <2>2. ASSUME ed' = [ed EXCEPT ![e] = [pc |-> "found", op |-> op, r |-> 0, flow |-> f,
                                        row |-> None]]
        PROVE  ed' \in [Editor -> EditorState]
    BY <2>2, Types, ScheduleAssumption DEF EditorState, Known
  <2>3. ed' \in [Editor -> EditorState]
    BY <1>1, <2>1, <2>2 DEF Find
  <2> QED
    BY <1>1, <2>3, Types, TypesNext DEF Find
<1>2. ASSUME NEW e \in Editor, Create(e) PROVE TypeOK'
  <2>1. PICK c \in CronsOf[ed[e].flow], d \in EndDate, canEnable \in BOOLEAN :
          LET row == [flow |-> ed[e].flow, enabled |-> canEnable, cron |-> c, ends |-> d]
          IN  WriteRow(created + 1, row) /\ Written(e, created + 1, row)
    BY <1>2 DEF Create
  <2> DEFINE row == [flow |-> ed[e].flow, enabled |-> canEnable, cron |-> c, ends |-> d]
  <2>2. row \in Known /\ created + 1 \in Id
    BY <1>2, Types, CronsOfFound, ScheduleAssumption DEF Create, EditorsFit, Id, Known, Row
  <2> HIDE DEF row
  <2>3. rec' \in [Id -> Known] /\ excused' \subseteq Id /\ ed' \in [Editor -> EditorState]
    BY <2>1, <2>2, WriteRowType, WrittenType DEF row
  <2> QED
    BY <1>2, <2>2, <2>3, Types, TypesNext, ScheduleAssumption DEF Create, Id
<1>3. ASSUME NEW e \in Editor, Save(e) PROVE TypeOK'
  <2>1. PICK c \in CronsOf[ed[e].flow], d \in EndDate, canEnable \in BOOLEAN :
          LET row == [ed[e].row EXCEPT !.cron = c, !.ends = d, !.enabled = canEnable /\ @]
          IN  WriteRow(ed[e].r, row) /\ Written(e, ed[e].r, row)
    BY <1>3 DEF Save
  <2> DEFINE row == [ed[e].row EXCEPT !.cron = c, !.ends = d, !.enabled = canEnable /\ @]
  <2>2. row \in Known /\ ed[e].r \in Id
    BY <1>3, Parts, CronsOfFound DEF Save, EditorsFit, Known, Row
  <2> HIDE DEF row
  <2>3. rec' \in [Id -> Known] /\ excused' \subseteq Id /\ ed' \in [Editor -> EditorState]
    BY <2>1, <2>2, WriteRowType, WrittenType DEF row
  <2> QED
    BY <1>3, <2>3, Types, TypesNext DEF Save
<1>4. ASSUME NEW e \in Editor, Toggle(e) PROVE TypeOK'
  <2> DEFINE row == [ed[e].row EXCEPT !.enabled = (ed[e].op = "on")]
  <2>1. WriteRow(ed[e].r, row) /\ Written(e, ed[e].r, row)
    BY <1>4 DEF Toggle
  <2>2. row \in Known /\ ed[e].r \in Id
    BY <1>4, Parts DEF Toggle, EditorsFit, Known, Row
  <2> HIDE DEF row
  <2>3. rec' \in [Id -> Known] /\ excused' \subseteq Id /\ ed' \in [Editor -> EditorState]
    BY <2>1, <2>2, WriteRowType, WrittenType
  <2> QED
    BY <1>4, <2>3, Types, TypesNext DEF Toggle
<1>5. ASSUME NEW e \in Editor, ToggleRefused(e) PROVE TypeOK'
  <2>1. ed' \in [Editor -> EditorState]
    BY <1>5, Types, Parts DEF ToggleRefused
  <2> QED
    BY <1>5, <2>1, Types, TypesNext DEF ToggleRefused
<1>6. ASSUME NEW e \in Editor, Drop(e) PROVE TypeOK'
  <2>1. None \in Known /\ ed[e].r \in Id
    BY <1>6, Parts DEF Drop, EditorsFit, Known
  <2>2. rec' \in [Id -> Known] /\ excused' \subseteq Id /\ ed' \in [Editor -> EditorState]
    BY <1>6, <2>1, WriteRowType, WrittenType DEF Drop
  <2> QED
    BY <1>6, <2>2, Types, TypesNext DEF Drop
<1>7. ASSUME NEW e \in Editor, Reread(e) PROVE TypeOK'
  <2>1. ed[e].r \in Id /\ rec[ed[e].r] \in Known
    BY <1>7, Parts DEF Reread, EditorsFit
  <2>2. ed[e] \in EditorState /\ ed \in [Editor -> EditorState]
    BY Types
  <2>3. [ed[e] EXCEPT !.pc = "reread", !.row = rec[ed[e].r]] \in EditorState
    BY <2>1, <2>2 DEF EditorState
  <2>4. ed' = [ed EXCEPT ![e] = [ed[e] EXCEPT !.pc = "reread", !.row = rec[ed[e].r]]]
    BY <1>7, <2>2 DEF Reread, EditorState
  <2>5. ed' \in [Editor -> EditorState]
    BY <2>2, <2>3, <2>4
  <2> QED
    BY <1>7, <2>5, Types, TypesNext DEF Reread
<1>8. ASSUME NEW e \in Editor, ApplyUpsert(e) PROVE TypeOK'
  <2>1. ed[e].r \in Id /\ JobFor(ed[e].row) \in Cron \cup {None}
    BY <1>8, Parts, JobForType DEF ApplyUpsert, EditorsFit
  <2>2. job' \in [Id -> Cron \cup {None}] /\ excused' \subseteq Id
    BY <1>8, <2>1, SetJobType DEF ApplyUpsert, Upsert
  <2>3. ed' \in [Editor -> EditorState]
    BY <1>8, Types, Parts DEF ApplyUpsert
  <2> QED
    BY <1>8, <2>2, <2>3, Types, TypesNext DEF ApplyUpsert
<1>9. ASSUME NEW e \in Editor, ApplyDelete(e) PROVE TypeOK'
  <2>1. ed[e].r \in Id /\ JobFor(ed[e].row) \in Cron \cup {None}
    BY <1>9, Parts, JobForType DEF ApplyDelete, EditorsFit
  <2>2. job' \in [Id -> Cron \cup {None}] /\ excused' \subseteq Id
    BY <1>9, <2>1, SetJobType DEF ApplyDelete, Remove
  <2>3. ed' \in [Editor -> EditorState]
    BY <1>9, Types, Parts DEF ApplyDelete
  <2> QED
    BY <1>9, <2>2, <2>3, Types, TypesNext DEF ApplyDelete
<1>10. ASSUME NEW e \in Editor, ApplyLost(e) PROVE TypeOK'
  <2>1. ed[e].r \in Id /\ ed' \in [Editor -> EditorState]
    BY <1>10, Types, Parts DEF ApplyLost, EditorsFit
  <2> QED
    BY <1>10, <2>1, Types, TypesNext DEF ApplyLost
<1>11. ASSUME NEW x \in Run, NEW r \in Id, Fire(x, r) PROVE TypeOK'
  <2>1. run' \in [Run -> RunState]
    BY <1>11, Types DEF Fire, RunState, Id, Known
  <2> QED
    BY <1>11, <2>1, Types, TypesNext DEF Fire
<1>12. ASSUME NEW x \in Run, Load(x) PROVE TypeOK'
  <2>1. run[x].r \in Id /\ rec[run[x].r] \in Known
    BY <1>12, Parts DEF Load, RunsFit
  <2>2. run' \in [Run -> RunState]
    BY <1>12, <2>1, Types DEF Load, RunState
  <2> QED
    BY <1>12, <2>2, Types, TypesNext DEF Load
<1>13. ASSUME NEW x \in Run, Skip(x) PROVE TypeOK'
  <2>1. run[x].r \in Id
    BY <1>13 DEF Skip, RunsFit
  <2>2. job' \in [Id -> Cron \cup {None}] /\ excused' \subseteq Id
    BY <1>13, <2>1, SetJobType DEF Skip, Remove
  <2>3. run' \in [Run -> RunState]
    BY <1>13, Types, Parts DEF Skip
  <2> QED
    BY <1>13, <2>2, <2>3, Types, TypesNext DEF Skip
<1>14. ASSUME NEW x \in Run, Lapse(x) PROVE TypeOK'
  <2> DEFINE row == [run[x].row EXCEPT !.enabled = FALSE]
  <2>1. row \in Known /\ run[x].r \in Id
    BY <1>14, Parts DEF Lapse, Runnable, RunsFit, Wanted, Known, Row
  <2> HIDE DEF row
  <2>2. WriteRow(run[x].r, row) /\ run' = [run EXCEPT ![x].pc = "lapsed", ![x].row = row]
    BY <1>14 DEF Lapse, row
  <2>3. rec' \in [Id -> Known] /\ excused' \subseteq Id
    BY <2>1, <2>2, WriteRowType
  <2>4. run' \in [Run -> RunState]
    BY <2>1, <2>2, Types DEF RunState
  <2> QED
    BY <1>14, <2>3, <2>4, Types, TypesNext DEF Lapse
<1>15. ASSUME NEW x \in Run, Unschedule(x) PROVE TypeOK'
  <2>1. run[x].r \in Id
    BY <1>15 DEF Unschedule, RunsFit
  <2>2. job' \in [Id -> Cron \cup {None}] /\ excused' \subseteq Id
    BY <1>15, <2>1, SetJobType DEF Unschedule, Remove
  <2>3. run' \in [Run -> RunState]
    BY <1>15, Types, Parts DEF Unschedule
  <2> QED
    BY <1>15, <2>2, <2>3, Types, TypesNext DEF Unschedule
<1>16. ASSUME NEW x \in Run, TooEarly(x) PROVE TypeOK'
  <2>1. run' \in [Run -> RunState]
    BY <1>16, Types, Parts DEF TooEarly
  <2> QED
    BY <1>16, <2>1, Types, TypesNext DEF TooEarly
<1>17. ASSUME NEW x \in Run, Execute(x) PROVE TypeOK'
  <2>1. run' \in [Run -> RunState]
    BY <1>17, Types DEF Execute, RunState, Known
  <2> QED
    BY <1>17, <2>1, Types, TypesNext DEF Execute
<1>18. ASSUME NEW x \in Run, End(x) PROVE TypeOK'
  <2>1. run' \in [Run -> RunState]
    BY <1>18, Types, Parts DEF End
  <2> QED
    BY <1>18, <2>1, Types, TypesNext DEF End
<1>19. ASSUME Boot PROVE TypeOK'
  <2>1. sync' \in SyncState
    BY <1>19 DEF Boot, SyncState
  <2> QED
    BY <1>19, <2>1, Types, TypesNext DEF Boot
<1>20. ASSUME ReadPage PROVE TypeOK'
  <2>1. ASSUME NEW r \in Page PROVE <<r, rec[r]>> \in Id \X Row
    BY <2>1, Parts DEF Page, EnabledRows, Enabled, Known
  <2>2. Page # {} => Cardinality(Page) \in Nat
    <3>1. ASSUME NEW r \in Page PROVE Cardinality(Page) \in Nat
      <4>1. r \in EnabledRows /\ Before(r) >= sync.skip /\ sync.skip \in Nat
        BY <3>1, Parts, Positions DEF Page, EnabledRows
      <4> QED
        BY <4>1, PageGoesOn
    <3> QED
      BY <3>1
  <2>3. CASE Page = {}
    <3>1. sync' = [on |-> FALSE, skip |-> 0, batch |-> {}]
      BY <1>20, <2>3 DEF ReadPage
    <3>2. sync' \in SyncState
      BY <3>1 DEF SyncState
    <3> QED
      BY <1>20, <3>2, Types, TypesNext DEF ReadPage
  <2>4. CASE Page # {}
    <3> DEFINE batch == {<<r, rec[r]>> : r \in Page}
               skip == sync.skip + Cardinality(Page)
    <3>1. batch \in SUBSET (Id \X Row) /\ skip \in Nat
      BY <2>1, <2>2, <2>4, Parts
    <3>2. sync' = [on |-> TRUE, skip |-> skip, batch |-> batch]
      BY <1>20, <2>4 DEF ReadPage
    <3> HIDE DEF batch, skip
    <3>3. sync' \in SyncState
      BY <3>1, <3>2 DEF SyncState
    <3> QED
      BY <1>20, <3>3, Types, TypesNext DEF ReadPage
  <2> QED
    BY <2>3, <2>4
<1>21. ASSUME Register PROVE TypeOK'
  <2>1. PICK b \in sync.batch : Upsert(b[1], b[2]) /\ sync' = [sync EXCEPT !.batch = @ \ {b}]
    BY <1>21 DEF Register
  <2>2. b[1] \in Id /\ b[2] \in Known
    BY Parts DEF Known
  <2>3. job' \in [Id -> Cron \cup {None}] /\ excused' \subseteq Id
    BY <2>1, <2>2, JobForType, SetJobType DEF Upsert
  <2>4. sync' \in SyncState
    BY <2>1, Types, Parts DEF SyncState
  <2> QED
    BY <1>21, <2>3, <2>4, Types, TypesNext DEF Register
<1>22. ASSUME Crash PROVE TypeOK'
  <2>1. sync' \in SyncState /\ ed' \in [Editor -> EditorState]
    BY <1>22, Parts DEF Crash, SyncState
  <2>2. job' \in [Id -> Cron \cup {None}] /\ run' \in [Run -> RunState]
    BY <1>22, Types, Parts DEF Crash
  <2>3. Pending \subseteq Id
    BY DEF Pending, EditorsFit
  <2>4. excused' \subseteq Id
    BY <1>22, <2>3, Types DEF Crash, Unreached
  <2> QED
    BY <1>22, <2>1, <2>2, <2>4, Types, TypesNext DEF Crash
<1>23. ASSUME CrashWorker PROVE TypeOK'
  <2>1. LapsePending \subseteq Id
    BY DEF LapsePending, RunsFit
  <2>2. run' \in [Run -> RunState]
    <3>1. ASSUME NEW x \in Run PROVE [pc |-> "fired", r |-> run[x].r, row |-> None] \in RunState
      BY Parts DEF RunState, Known
    <3> QED
      BY <1>23, <3>1, Parts DEF CrashWorker
  <2>3. crashes' \in 0..MaxCrashes
    BY <1>23, Types, ScheduleAssumption DEF CrashWorker
  <2> QED
    BY <1>23, <2>1, <2>2, <2>3, Types, TypesNext DEF CrashWorker
<1>24. ASSUME NEW d \in EndDate \ {Never}, Pass(d) PROVE TypeOK'
  BY <1>24, Types, TypesNext DEF Pass
<1>25. CASE UNCHANGED vars
  BY <1>25, Types, TypesNext DEF vars
<1>26. ASSUME NEW x \in Run, RemovalLost(x) PROVE TypeOK'
  <2>1. run[x].r \in Id
    BY <1>26 DEF RemovalLost, RunsFit
  <2>2. run' \in [Run -> RunState] /\ excused' \subseteq Id
    BY <1>26, <2>1, Types, Parts DEF RemovalLost
  <2> QED
    BY <1>26, <2>2, Types, TypesNext DEF RemovalLost
<1>27. ASSUME SyncFails PROVE TypeOK'
  <2>1. sync' \in SyncState
    BY <1>27 DEF SyncFails, SyncState
  <2>2. excused' \subseteq Id
    BY <1>27, Types DEF SyncFails, Unreached
  <2> QED
    BY <1>27, <2>1, <2>2, Types, TypesNext DEF SyncFails
<1> QED
  BY <1>1, <1>2, <1>3, <1>4, <1>5, <1>6, <1>7, <1>8, <1>9, <1>10, <1>11, <1>12, <1>13,
     <1>14, <1>15, <1>16, <1>17, <1>18, <1>19, <1>20, <1>21, <1>22, <1>23, <1>24, <1>25,
     <1>26, <1>27 DEF Next, Edit, Step

\* What requests hold fits the place they go to.
LEMMA EditorsNext ==
  TypeOK /\ EditorsFit /\ [Next]_vars => EditorsFit'
<1> SUFFICES ASSUME TypeOK, EditorsFit, [Next]_vars PROVE EditorsFit'
  OBVIOUS
<1>1. ASSUME NEW e \in Editor, NEW f \in Flow, NEW op \in {"save", "on", "off", "drop"}, Find(e, op, f)
      PROVE  EditorsFit'
  BY <1>1, Types, NamesAssumption DEF Find, EditorsFit, RowsOf, Known
<1>2. ASSUME NEW e \in Editor, Create(e) PROVE EditorsFit'
  <2>1. PICK row \in Known : Written(e, created + 1, row)
    <3>1. ed[e].flow \in Flow
      BY <1>2 DEF Create, EditorsFit
    <3> QED
      BY <1>2, <3>1, CronsOfFound DEF Create, Known, Row
  <2>2. created + 1 \in Id
    BY <1>2, Types, ScheduleAssumption DEF Create, Id
  <2> QED
    BY <2>1, <2>2, WrittenType DEF EditorsFit
<1>3. ASSUME NEW e \in Editor, Save(e) PROVE EditorsFit'
  <2>1. ed[e].r \in Id /\ ed[e].row \in Row
    BY <1>3, Parts DEF Save, EditorsFit, Known
  <2>2. PICK row \in Known : Written(e, ed[e].r, row)
    BY <1>3, <2>1, CronsOfFound DEF Save, Known, Row
  <2> QED
    BY <2>1, <2>2, WrittenType DEF EditorsFit
<1>4. ASSUME NEW e \in Editor, Toggle(e) PROVE EditorsFit'
  <2>1. ed[e].r \in Id /\ ed[e].row \in Row
    BY <1>4, Parts DEF Toggle, EditorsFit, Known
  <2>2. PICK row \in Known : Written(e, ed[e].r, row)
    BY <1>4, <2>1 DEF Toggle, Known, Row
  <2> QED
    BY <2>1, <2>2, WrittenType DEF EditorsFit
<1>5. ASSUME NEW e \in Editor, ToggleRefused(e) PROVE EditorsFit'
  BY <1>5, Types, Parts DEF ToggleRefused, EditorsFit
<1>6. ASSUME NEW e \in Editor, Drop(e) PROVE EditorsFit'
  <2>1. ed[e].r \in Id /\ None \in Known /\ Written(e, ed[e].r, None)
    BY <1>6, Parts DEF Drop, EditorsFit, Known
  <2> QED
    BY <2>1, WrittenType DEF EditorsFit
<1>7. ASSUME NEW e \in Editor, Reread(e) PROVE EditorsFit'
  BY <1>7, Types DEF Reread, EditorsFit
<1>8. ASSUME NEW e \in Editor, ApplyUpsert(e) PROVE EditorsFit'
  BY <1>8, Types, Parts DEF ApplyUpsert, EditorsFit
<1>9. ASSUME NEW e \in Editor, ApplyDelete(e) PROVE EditorsFit'
  BY <1>9, Types, Parts DEF ApplyDelete, EditorsFit
<1>10. ASSUME NEW e \in Editor, ApplyLost(e) PROVE EditorsFit'
  BY <1>10, Types, Parts DEF ApplyLost, EditorsFit
<1>11. ASSUME NEW x \in Run, NEW r \in Id, Fire(x, r) PROVE EditorsFit'
  BY <1>11 DEF Fire, EditorsFit
<1>12. ASSUME NEW x \in Run, Load(x) PROVE EditorsFit'
  BY <1>12 DEF Load, EditorsFit
<1>13. ASSUME NEW x \in Run, Skip(x) PROVE EditorsFit'
  BY <1>13 DEF Skip, EditorsFit
<1>14. ASSUME NEW x \in Run, Lapse(x) PROVE EditorsFit'
  BY <1>14 DEF Lapse, EditorsFit
<1>15. ASSUME NEW x \in Run, Unschedule(x) PROVE EditorsFit'
  BY <1>15 DEF Unschedule, EditorsFit
<1>16. ASSUME NEW x \in Run, TooEarly(x) PROVE EditorsFit'
  BY <1>16 DEF TooEarly, EditorsFit
<1>17. ASSUME NEW x \in Run, Execute(x) PROVE EditorsFit'
  BY <1>17 DEF Execute, EditorsFit
<1>18. ASSUME NEW x \in Run, End(x) PROVE EditorsFit'
  BY <1>18 DEF End, EditorsFit
<1>19. ASSUME Boot PROVE EditorsFit'
  BY <1>19 DEF Boot, EditorsFit
<1>20. ASSUME ReadPage PROVE EditorsFit'
  BY <1>20 DEF ReadPage, EditorsFit
<1>21. ASSUME Register PROVE EditorsFit'
  BY <1>21 DEF Register, EditorsFit
<1>22. ASSUME Crash PROVE EditorsFit'
  BY <1>22, Types, Parts DEF Crash, EditorsFit
<1>23. ASSUME CrashWorker PROVE EditorsFit'
  BY <1>23 DEF CrashWorker, EditorsFit
<1>24. ASSUME NEW d \in EndDate \ {Never}, Pass(d) PROVE EditorsFit'
  BY <1>24 DEF Pass, EditorsFit
<1>25. CASE UNCHANGED vars
  BY <1>25 DEF vars, EditorsFit
<1>26. ASSUME NEW x \in Run, RemovalLost(x) PROVE EditorsFit'
  BY <1>26 DEF RemovalLost, EditorsFit
<1>27. ASSUME SyncFails PROVE EditorsFit'
  BY <1>27 DEF SyncFails, EditorsFit
<1> QED
  BY <1>1, <1>2, <1>3, <1>4, <1>5, <1>6, <1>7, <1>8, <1>9, <1>10, <1>11, <1>12, <1>13,
     <1>14, <1>15, <1>16, <1>17, <1>18, <1>19, <1>20, <1>21, <1>22, <1>23, <1>24, <1>25,
     <1>26, <1>27 DEF Next, Edit, Step

\* What executions hold fits the place they go to.
LEMMA RunsNext ==
  TypeOK /\ RunsFit /\ [Next]_vars => RunsFit'
<1> SUFFICES ASSUME TypeOK, RunsFit, [Next]_vars PROVE RunsFit'
  OBVIOUS
<1>1. ASSUME NEW e \in Editor, NEW f \in Flow, NEW op \in {"save", "on", "off", "drop"}, Find(e, op, f)
      PROVE  RunsFit'
  BY <1>1 DEF Find, RunsFit
<1>2. ASSUME NEW e \in Editor, Create(e) PROVE RunsFit'
  BY <1>2 DEF Create, RunsFit
<1>3. ASSUME NEW e \in Editor, Save(e) PROVE RunsFit'
  BY <1>3 DEF Save, RunsFit
<1>4. ASSUME NEW e \in Editor, Toggle(e) PROVE RunsFit'
  BY <1>4 DEF Toggle, RunsFit
<1>5. ASSUME NEW e \in Editor, ToggleRefused(e) PROVE RunsFit'
  BY <1>5 DEF ToggleRefused, RunsFit
<1>6. ASSUME NEW e \in Editor, Drop(e) PROVE RunsFit'
  BY <1>6 DEF Drop, RunsFit
<1>7. ASSUME NEW e \in Editor, Reread(e) PROVE RunsFit'
  BY <1>7 DEF Reread, RunsFit
<1>8. ASSUME NEW e \in Editor, ApplyUpsert(e) PROVE RunsFit'
  BY <1>8 DEF ApplyUpsert, RunsFit
<1>9. ASSUME NEW e \in Editor, ApplyDelete(e) PROVE RunsFit'
  BY <1>9 DEF ApplyDelete, RunsFit
<1>10. ASSUME NEW e \in Editor, ApplyLost(e) PROVE RunsFit'
  BY <1>10 DEF ApplyLost, RunsFit
<1>11. ASSUME NEW x \in Run, NEW r \in Id, Fire(x, r) PROVE RunsFit'
  BY <1>11, Types DEF Fire, RunsFit
<1>12. ASSUME NEW x \in Run, Load(x) PROVE RunsFit'
  BY <1>12, Types DEF Load, RunsFit
<1>13. ASSUME NEW x \in Run, Skip(x) PROVE RunsFit'
  BY <1>13, Types, Parts DEF Skip, RunsFit
<1>14. ASSUME NEW x \in Run, Lapse(x) PROVE RunsFit'
  <2> DEFINE row == [run[x].row EXCEPT !.enabled = FALSE]
  <2>1. run[x].row \in Row
    BY <1>14, Parts DEF Lapse, Runnable, Wanted, Known
  <2>2. ~Wanted(row)
    BY <2>1 DEF Wanted, Row
  <2> HIDE DEF row
  <2>3. run' = [run EXCEPT ![x].pc = "lapsed", ![x].row = row]
    BY <1>14 DEF Lapse, row
  <2> QED
    BY <1>14, <2>2, <2>3, Types DEF Lapse, Runnable, RunState, RunsFit
<1>15. ASSUME NEW x \in Run, Unschedule(x) PROVE RunsFit'
  BY <1>15, Types, Parts DEF Unschedule, RunsFit
<1>16. ASSUME NEW x \in Run, TooEarly(x) PROVE RunsFit'
  BY <1>16, Types, Parts DEF TooEarly, RunsFit
<1>17. ASSUME NEW x \in Run, Execute(x) PROVE RunsFit'
  <2>1. run[x].r \in Id
    BY <1>17 DEF Execute, Runnable, RunsFit
  <2>2. run' \in [Run -> RunState] /\ run'[x].pc = "running" /\ run'[x].r = run[x].r
    BY <1>17, Types DEF Execute, RunState, Known
  <2>3. \A y \in Run : y # x => run'[y] = run[y]
    BY <1>17, Types DEF Execute
  <2> QED
    BY <2>1, <2>2, <2>3 DEF RunsFit
<1>18. ASSUME NEW x \in Run, End(x) PROVE RunsFit'
  BY <1>18, Types, Parts DEF End, RunsFit
<1>19. ASSUME Boot PROVE RunsFit'
  BY <1>19 DEF Boot, RunsFit
<1>20. ASSUME ReadPage PROVE RunsFit'
  BY <1>20 DEF ReadPage, RunsFit
<1>21. ASSUME Register PROVE RunsFit'
  BY <1>21 DEF Register, RunsFit
<1>22. ASSUME Crash PROVE RunsFit'
  BY <1>22, Parts DEF Crash, RunsFit
<1>23. ASSUME CrashWorker PROVE RunsFit'
  <2>1. ASSUME NEW x \in Run, run'[x].pc # "idle" PROVE run'[x].r = run[x].r /\ run[x].pc # "idle"
    <3>1. run[x].pc # "idle"
      BY <1>23, <2>1, Parts DEF CrashWorker
    <3> QED
      BY <1>23, <3>1 DEF CrashWorker
  <2>2. ASSUME NEW x \in Run PROVE run'[x].pc # "lapsed"
    BY <1>23, Parts DEF CrashWorker
  <2> QED
    BY <2>1, <2>2 DEF RunsFit
<1>24. ASSUME NEW d \in EndDate \ {Never}, Pass(d) PROVE RunsFit'
  BY <1>24 DEF Pass, RunsFit
<1>25. CASE UNCHANGED vars
  BY <1>25 DEF vars, RunsFit
<1>26. ASSUME NEW x \in Run, RemovalLost(x) PROVE RunsFit'
  BY <1>26, Types, Parts DEF RemovalLost, RunsFit
<1>27. ASSUME SyncFails PROVE RunsFit'
  BY <1>27 DEF SyncFails, RunsFit
<1> QED
  BY <1>1, <1>2, <1>3, <1>4, <1>5, <1>6, <1>7, <1>8, <1>9, <1>10, <1>11, <1>12, <1>13,
     <1>14, <1>15, <1>16, <1>17, <1>18, <1>19, <1>20, <1>21, <1>22, <1>23, <1>24, <1>25,
     <1>26, <1>27 DEF Next, Edit, Step

\* The server of "cron" mode takes everything with it.
LEMMA DownNext ==
  TypeOK /\ DownIsEmpty /\ [Next]_vars => DownIsEmpty'
<1> SUFFICES ASSUME TypeOK, DownIsEmpty, [Next]_vars PROVE DownIsEmpty'
  OBVIOUS
<1>1. ASSUME NEW e \in Editor, NEW f \in Flow, NEW op \in {"save", "on", "off", "drop"}, Find(e, op, f)
      PROVE  DownIsEmpty'
  BY <1>1, Types DEF Find, Listening, DownIsEmpty
<1>2. ASSUME NEW e \in Editor, Create(e) PROVE DownIsEmpty'
  <2>1. up
    BY <1>2, Types DEF Create, DownIsEmpty
  <2> QED
    BY <1>2, <2>1 DEF Create, DownIsEmpty
<1>3. ASSUME NEW e \in Editor, Save(e) PROVE DownIsEmpty'
  <2>1. up
    BY <1>3, Types DEF Save, DownIsEmpty
  <2> QED
    BY <1>3, <2>1 DEF Save, DownIsEmpty
<1>4. ASSUME NEW e \in Editor, Toggle(e) PROVE DownIsEmpty'
  <2>1. up
    BY <1>4, Types DEF Toggle, DownIsEmpty
  <2> QED
    BY <1>4, <2>1 DEF Toggle, DownIsEmpty
<1>5. ASSUME NEW e \in Editor, ToggleRefused(e) PROVE DownIsEmpty'
  <2>1. up
    BY <1>5, Types DEF ToggleRefused, DownIsEmpty
  <2> QED
    BY <1>5, <2>1 DEF ToggleRefused, DownIsEmpty
<1>6. ASSUME NEW e \in Editor, Drop(e) PROVE DownIsEmpty'
  <2>1. up
    BY <1>6, Types DEF Drop, DownIsEmpty
  <2> QED
    BY <1>6, <2>1 DEF Drop, DownIsEmpty
<1>7. ASSUME NEW e \in Editor, Reread(e) PROVE DownIsEmpty'
  <2>1. up
    BY <1>7, Types DEF Reread, DownIsEmpty
  <2> QED
    BY <1>7, <2>1 DEF Reread, DownIsEmpty
<1>8. ASSUME NEW e \in Editor, ApplyUpsert(e) PROVE DownIsEmpty'
  <2>1. up
    BY <1>8, Types DEF ApplyUpsert, DownIsEmpty
  <2> QED
    BY <1>8, <2>1 DEF ApplyUpsert, DownIsEmpty
<1>9. ASSUME NEW e \in Editor, ApplyDelete(e) PROVE DownIsEmpty'
  <2>1. up
    BY <1>9, Types DEF ApplyDelete, DownIsEmpty
  <2> QED
    BY <1>9, <2>1 DEF ApplyDelete, DownIsEmpty
<1>10. ASSUME NEW e \in Editor, ApplyLost(e) PROVE DownIsEmpty'
  <2>1. up
    BY <1>10, Types DEF ApplyLost, DownIsEmpty
  <2> QED
    BY <1>10, <2>1 DEF ApplyLost, DownIsEmpty
<1>11. ASSUME NEW x \in Run, NEW r \in Id, Fire(x, r) PROVE DownIsEmpty'
  <2>1. up
    BY <1>11, Types DEF Fire, DownIsEmpty
  <2> QED
    BY <1>11, <2>1 DEF Fire, DownIsEmpty
<1>12. ASSUME NEW x \in Run, Load(x) PROVE DownIsEmpty'
  <2>1. up
    BY <1>12, Types DEF Load, DownIsEmpty
  <2> QED
    BY <1>12, <2>1 DEF Load, DownIsEmpty
<1>13. ASSUME NEW x \in Run, Skip(x) PROVE DownIsEmpty'
  <2>1. up
    BY <1>13, Types DEF Skip, DownIsEmpty
  <2> QED
    BY <1>13, <2>1 DEF Skip, DownIsEmpty
<1>14. ASSUME NEW x \in Run, Lapse(x) PROVE DownIsEmpty'
  <2>1. up
    BY <1>14, Types DEF Lapse, DownIsEmpty, Runnable
  <2> QED
    BY <1>14, <2>1 DEF Lapse, DownIsEmpty
<1>15. ASSUME NEW x \in Run, Unschedule(x) PROVE DownIsEmpty'
  <2>1. up
    BY <1>15, Types DEF Unschedule, DownIsEmpty
  <2> QED
    BY <1>15, <2>1 DEF Unschedule, DownIsEmpty
<1>16. ASSUME NEW x \in Run, TooEarly(x) PROVE DownIsEmpty'
  <2>1. up
    BY <1>16, Types DEF TooEarly, DownIsEmpty, Runnable
  <2> QED
    BY <1>16, <2>1 DEF TooEarly, DownIsEmpty
<1>17. ASSUME NEW x \in Run, Execute(x) PROVE DownIsEmpty'
  <2>1. up
    BY <1>17, Types DEF Execute, DownIsEmpty, Runnable
  <2> QED
    BY <1>17, <2>1 DEF Execute, DownIsEmpty
<1>18. ASSUME NEW x \in Run, End(x) PROVE DownIsEmpty'
  <2>1. up
    BY <1>18, Types DEF End, DownIsEmpty
  <2> QED
    BY <1>18, <2>1 DEF End, DownIsEmpty
<1>19. ASSUME Boot PROVE DownIsEmpty'
  BY <1>19 DEF Boot, DownIsEmpty
<1>20. ASSUME ReadPage PROVE DownIsEmpty'
  <2>1. up
    BY <1>20, Types DEF ReadPage, DownIsEmpty
  <2> QED
    BY <1>20, <2>1 DEF ReadPage, DownIsEmpty
<1>21. ASSUME Register PROVE DownIsEmpty'
  <2>1. up
    BY <1>21, Types DEF Register, DownIsEmpty
  <2> QED
    BY <1>21, <2>1 DEF Register, DownIsEmpty
<1>22. ASSUME Crash PROVE DownIsEmpty'
  <2>1. mode \in {"cron", "queue"}
    BY Types, ScheduleAssumption
  <2>2. CASE mode = "queue"
    BY <1>22, <2>2 DEF Crash, DownIsEmpty
  <2>3. CASE mode = "cron"
    BY <1>22, <2>3, Parts DEF Crash, DownIsEmpty
  <2> QED
    BY <2>1, <2>2, <2>3
<1>23. ASSUME CrashWorker PROVE DownIsEmpty'
  BY <1>23 DEF CrashWorker, DownIsEmpty
<1>24. ASSUME NEW d \in EndDate \ {Never}, Pass(d) PROVE DownIsEmpty'
  BY <1>24 DEF Pass, DownIsEmpty
<1>25. CASE UNCHANGED vars
  BY <1>25 DEF vars, DownIsEmpty
<1>26. ASSUME NEW x \in Run, RemovalLost(x) PROVE DownIsEmpty'
  <2>1. up
    BY <1>26, Types DEF RemovalLost, DownIsEmpty
  <2> QED
    BY <1>26, <2>1 DEF RemovalLost, DownIsEmpty
<1>27. ASSUME SyncFails PROVE DownIsEmpty'
  <2>1. up
    BY <1>27, Types DEF SyncFails, DownIsEmpty
  <2> QED
    BY <1>27, <2>1 DEF SyncFails, DownIsEmpty
<1> QED
  BY <1>1, <1>2, <1>3, <1>4, <1>5, <1>6, <1>7, <1>8, <1>9, <1>10, <1>11, <1>12, <1>13,
     <1>14, <1>15, <1>16, <1>17, <1>18, <1>19, <1>20, <1>21, <1>22, <1>23, <1>24, <1>25,
     <1>26, <1>27 DEF Next, Edit, Step

-----------------------------------------------------------------------------
(* Jobs follow the table.                                                  *)

\* Rows that somebody attends to, or that are excused.
Owed == Pending \cup LapsePending \cup excused

\* Nothing happens to the table, the jobs or the list.
LEMMA Quiet ==
  ASSUME Settled, UNCHANGED <<mode, rec, job, up>>, Owed \subseteq Owed',
         \A s \in Id : ToBeListed(s) => ToBeListed(s)'
  PROVE  Settled'
BY SameJob DEF Settled, Owed

\* The list stays as it is.
LEMMA SameList ==
  ASSUME UNCHANGED <<rec, sync>>
  PROVE  \A s \in Id : ToBeListed(s) => ToBeListed(s)'
<1>1. EnabledRows' = EnabledRows /\ \A s \in Id : Enabled(s)' = Enabled(s)
  BY DEF EnabledRows, Enabled
<1> QED
  BY <1>1 DEF ToBeListed, Before

\* A row is written, and whoever wrote it is about to set its job.  A row that a starting
\* server skips, since the row written leaves the list before it, is excused.
LEMMA RowWritten ==
  ASSUME TypeOK, Settled, NEW r \in Id, NEW row \in Known, WriteRow(r, row),
         UNCHANGED <<mode, job, up, sync>>, Pending \cup LapsePending \subseteq Owed', r \in Owed'
  PROVE  Settled'
<1> SUFFICES ASSUME NEW s \in Id, s # r, s \notin Owed', up'
             PROVE  job'[s] = JobFor(rec'[s]) \/ ToBeListed(s)'
  BY SameJob DEF Settled, Owed
<1>1. rec' = [rec EXCEPT ![r] = row] /\ rec \in [Id -> Known] /\ rec'[s] = rec[s]
  BY Types DEF WriteRow
<1>2. s \notin Owed /\ s \notin Shifted(r, row)
  BY DEF Owed, WriteRow
<1>3. CASE job[s] = JobFor(rec[s])
  BY <1>1, <1>3
<1>4. CASE ToBeListed(s)
  <2>1. sync.on /\ Enabled(s) /\ Enabled(s)'
    BY <1>1, <1>4 DEF ToBeListed, Enabled
  <2>2. CASE \E b \in sync.batch : b[1] = s
    BY <2>1, <2>2 DEF ToBeListed
  <2>3. CASE Before(s) >= sync.skip
    <3>1. Wanted(row) \/ ~Enabled(r) \/ ~(r < s)
      BY <1>2, <2>1, ScheduleAssumption DEF Shifted, Id
    <3>2. Before(s) \in Nat /\ Before(s)' \in Nat /\ Before(s) <= Before(s)'
      BY <1>1, <3>1, MovesUp
    <3>3. Before(s)' >= sync.skip
      BY <2>3, <3>2, Parts
    <3> QED
      BY <2>1, <3>3 DEF ToBeListed
  <2> QED
    BY <1>4, <2>2, <2>3 DEF ToBeListed
<1> QED
  BY <1>2, <1>3, <1>4 DEF Settled, Owed

\* The job of a row is set by somebody who knows the row, or the row is excused.
LEMMA JobIsSet ==
  ASSUME TypeOK, Settled, NEW r \in Id, NEW row, SetJob(r, row, JobFor(row)),
         UNCHANGED <<mode, rec, up>>,
         \A s \in Id \ {r} : s \in Pending \cup LapsePending => s \in Owed',
         \A s \in Id \ {r} : ToBeListed(s) => ToBeListed(s)'
  PROVE  Settled'
<1>1. job'[r] = JobFor(rec'[r]) \/ r \in excused'
  BY Types DEF SetJob
<1>2. ASSUME NEW s \in Id \ {r} PROVE job'[s] = job[s] /\ (s \in excused => s \in excused')
  BY Types DEF SetJob
<1> QED
  BY <1>1, <1>2, SameJob DEF Settled, Owed


\* Every step leaves each row with its job, or with somebody who looks after it.
LEMMA SettledNext ==
  TypeOK /\ EditorsFit /\ RunsFit /\ DownIsEmpty /\ Settled /\ [Next]_vars => Settled'
<1> SUFFICES ASSUME TypeOK, EditorsFit, RunsFit, DownIsEmpty, Settled, [Next]_vars PROVE Settled'
  OBVIOUS
<1>1. ASSUME NEW e \in Editor, NEW f \in Flow, NEW op \in {"save", "on", "off", "drop"}, Find(e, op, f)
      PROVE  Settled'
  <2>1. LapsePending' = LapsePending /\ excused' = excused
    BY <1>1 DEF Find, LapsePending
  <2>2. ed[e].pc \in {"idle", "found"} /\ \A o \in Editor : o # e => ed'[o] = ed[o]
    BY <1>1, Types DEF Find
  <2>3. Owed \subseteq Owed'
    BY <2>1, <2>2 DEF Owed, Pending
  <2> QED
    BY <1>1, <2>3, SameList, Quiet DEF Find
<1>2. ASSUME NEW e \in Editor, Create(e) PROVE Settled'
  <2>1. PICK row \in Known : WriteRow(created + 1, row) /\ Written(e, created + 1, row)
    <3>1. ed[e].flow \in Flow
      BY <1>2 DEF Create, EditorsFit
    <3> QED
      BY <1>2, <3>1, CronsOfFound DEF Create, Known, Row
  <2>2. created + 1 \in Id /\ ed[e].pc = "found"
    BY <1>2, Types, ScheduleAssumption DEF Create, Id
  <2>3. /\ ed'[e].pc \in {"upsert", "delete"} /\ ed'[e].r = created + 1
        /\ \A o \in Editor : o # e => ed'[o] = ed[o]
    BY <2>1, <2>2, WrittenType
  <2>4. Pending \cup LapsePending \subseteq Owed' /\ created + 1 \in Owed'
    BY <1>2, <2>2, <2>3 DEF Create, Owed, Pending, LapsePending
  <2> QED
    BY <1>2, <2>1, <2>2, <2>4, RowWritten DEF Create
<1>3. ASSUME NEW e \in Editor, Save(e) PROVE Settled'
  <2>1. ed[e].r \in Id /\ ed[e].pc = "found" /\ ed[e].row \in Row
    BY <1>3, Parts DEF Save, EditorsFit, Known
  <2>2. PICK row \in Known : WriteRow(ed[e].r, row) /\ Written(e, ed[e].r, row)
    BY <1>3, <2>1, CronsOfFound DEF Save, Known, Row
  <2>3. /\ ed'[e].pc \in {"upsert", "delete"} /\ ed'[e].r = ed[e].r
        /\ \A o \in Editor : o # e => ed'[o] = ed[o]
    BY <2>1, <2>2, WrittenType
  <2>4. Pending \cup LapsePending \subseteq Owed' /\ ed[e].r \in Owed'
    BY <1>3, <2>1, <2>3 DEF Save, Owed, Pending, LapsePending
  <2> QED
    BY <1>3, <2>1, <2>2, <2>4, RowWritten DEF Save
<1>4. ASSUME NEW e \in Editor, Toggle(e) PROVE Settled'
  <2>1. ed[e].r \in Id /\ ed[e].pc = "found" /\ ed[e].row \in Row
    BY <1>4, Parts DEF Toggle, EditorsFit, Known
  <2>2. PICK row \in Known : WriteRow(ed[e].r, row) /\ Written(e, ed[e].r, row)
    BY <1>4, <2>1 DEF Toggle, Known, Row
  <2>3. /\ ed'[e].pc \in {"upsert", "delete"} /\ ed'[e].r = ed[e].r
        /\ \A o \in Editor : o # e => ed'[o] = ed[o]
    BY <2>1, <2>2, WrittenType
  <2>4. Pending \cup LapsePending \subseteq Owed' /\ ed[e].r \in Owed'
    BY <1>4, <2>1, <2>3 DEF Toggle, Owed, Pending, LapsePending
  <2> QED
    BY <1>4, <2>1, <2>2, <2>4, RowWritten DEF Toggle
<1>5. ASSUME NEW e \in Editor, ToggleRefused(e) PROVE Settled'
  <2>1. LapsePending' = LapsePending /\ excused' = excused
    BY <1>5 DEF ToggleRefused, LapsePending
  <2>2. ed[e].pc \in {"idle", "found"} /\ \A o \in Editor : o # e => ed'[o] = ed[o]
    BY <1>5, Types DEF ToggleRefused
  <2>3. Owed \subseteq Owed'
    BY <2>1, <2>2 DEF Owed, Pending
  <2> QED
    BY <1>5, <2>3, SameList, Quiet DEF ToggleRefused
<1>6. ASSUME NEW e \in Editor, Drop(e) PROVE Settled'
  <2>1. ed[e].r \in Id /\ ed[e].pc = "found" /\ ed[e].row \in Row
    BY <1>6, Parts DEF Drop, EditorsFit, Known
  <2>2. None \in Known /\ WriteRow(ed[e].r, None) /\ Written(e, ed[e].r, None)
    BY <1>6, <2>1 DEF Drop, Known, Row
  <2>3. /\ ed'[e].pc \in {"upsert", "delete"} /\ ed'[e].r = ed[e].r
        /\ \A o \in Editor : o # e => ed'[o] = ed[o]
    BY <2>1, <2>2, WrittenType
  <2>4. Pending \cup LapsePending \subseteq Owed' /\ ed[e].r \in Owed'
    BY <1>6, <2>1, <2>3 DEF Drop, Owed, Pending, LapsePending
  <2> QED
    BY <1>6, <2>1, <2>2, <2>4, RowWritten DEF Drop
<1>7. ASSUME NEW e \in Editor, Reread(e) PROVE Settled'
  <2>1. LapsePending' = LapsePending /\ excused' = excused
    BY <1>7 DEF Reread, LapsePending
  <2>2. ed[e].pc \in {"idle", "found", "upsert"} /\ \A o \in Editor : o # e => ed'[o] = ed[o]
    BY <1>7, Types DEF Reread
  <2>3. Owed \subseteq Owed'
    BY <1>7, <2>1, <2>2, Types DEF Reread, Owed, Pending
  <2> QED
    BY <1>7, <2>3, SameList, Quiet DEF Reread
<1>8. ASSUME NEW e \in Editor, ApplyUpsert(e) PROVE Settled'
  <2>1. ed[e].r \in Id /\ SetJob(ed[e].r, ed[e].row, JobFor(ed[e].row))
    BY <1>8 DEF ApplyUpsert, Upsert, EditorsFit
  <2>2. ed'[e].pc = "idle" /\ \A o \in Editor : o # e => ed'[o] = ed[o]
    BY <1>8, Types, Parts DEF ApplyUpsert
  <2>3. \A s \in Id \ {ed[e].r} : s \in Pending \cup LapsePending => s \in Owed'
    BY <1>8, <2>2 DEF ApplyUpsert, Owed, Pending, LapsePending
  <2> QED
    BY <1>8, <2>1, <2>3, SameList, JobIsSet DEF ApplyUpsert
<1>9. ASSUME NEW e \in Editor, ApplyDelete(e) PROVE Settled'
  <2>1. ed[e].r \in Id /\ SetJob(ed[e].r, ed[e].row, JobFor(ed[e].row))
    BY <1>9, NoJob DEF ApplyDelete, Remove, EditorsFit
  <2>2. ed'[e].pc = "idle" /\ \A o \in Editor : o # e => ed'[o] = ed[o]
    BY <1>9, Types, Parts DEF ApplyDelete
  <2>3. \A s \in Id \ {ed[e].r} : s \in Pending \cup LapsePending => s \in Owed'
    BY <1>9, <2>2 DEF ApplyDelete, Owed, Pending, LapsePending
  <2> QED
    BY <1>9, <2>1, <2>3, SameList, JobIsSet DEF ApplyDelete
<1>10. ASSUME NEW e \in Editor, ApplyLost(e) PROVE Settled'
  <2>1. ed'[e].pc = "idle" /\ \A o \in Editor : o # e => ed'[o] = ed[o]
    BY <1>10, Types, Parts DEF ApplyLost
  <2>2. LapsePending' = LapsePending /\ excused' = excused \cup {ed[e].r}
    BY <1>10 DEF ApplyLost, LapsePending
  <2>3. Owed \subseteq Owed'
    BY <2>1, <2>2 DEF Owed, Pending
  <2> QED
    BY <1>10, <2>3, SameList, Quiet DEF ApplyLost
<1>11. ASSUME NEW x \in Run, NEW r \in Id, Fire(x, r) PROVE Settled'
  <2>1. Pending' = Pending /\ excused' = excused
    BY <1>11 DEF Fire, Pending
  <2>2. run[x].pc # "lapsed" /\ \A y \in Run : y # x => run'[y] = run[y]
    BY <1>11, Types DEF Fire, Runnable
  <2>3. Owed \subseteq Owed'
    BY <2>1, <2>2 DEF Owed, LapsePending
  <2> QED
    BY <1>11, <2>3, SameList, Quiet DEF Fire
<1>12. ASSUME NEW x \in Run, Load(x) PROVE Settled'
  <2>1. Pending' = Pending /\ excused' = excused
    BY <1>12 DEF Load, Pending
  <2>2. run[x].pc # "lapsed" /\ \A y \in Run : y # x => run'[y] = run[y]
    BY <1>12, Types DEF Load, Runnable
  <2>3. Owed \subseteq Owed'
    BY <2>1, <2>2 DEF Owed, LapsePending
  <2> QED
    BY <1>12, <2>3, SameList, Quiet DEF Load
<1>13. ASSUME NEW x \in Run, Skip(x) PROVE Settled'
  <2>1. JobFor(run[x].row) = None /\ run[x].r \in Id
    BY <1>13, NoJob DEF Skip, RunsFit
  <2>2. SetJob(run[x].r, run[x].row, JobFor(run[x].row))
    BY <1>13, <2>1 DEF Skip, Remove
  <2>3. \A y \in Run : y # x => run'[y] = run[y]
    BY <1>13, Types DEF Skip
  <2>4. \A s \in Id \ {run[x].r} : s \in Pending \cup LapsePending => s \in Owed'
    BY <1>13, <2>3 DEF Skip, Owed, Pending, LapsePending
  <2> QED
    BY <1>13, <2>1, <2>2, <2>4, SameList, JobIsSet DEF Skip
<1>14. ASSUME NEW x \in Run, Lapse(x) PROVE Settled'
  <2>1. run[x].r \in Id /\ run[x].pc = "loaded" /\ run[x].row \in Row
    BY <1>14, Parts DEF Lapse, Runnable, RunsFit, Wanted, Known
  <2>2. PICK row \in Known : /\ WriteRow(run[x].r, row)
                             /\ run' = [run EXCEPT ![x].pc = "lapsed", ![x].row = row]
    BY <1>14, <2>1 DEF Lapse, Known, Row
  <2>3. /\ run'[x].pc = "lapsed" /\ run'[x].r = run[x].r
        /\ \A y \in Run : y # x => run'[y] = run[y]
    BY <2>2, Types DEF RunState
  <2>4. Pending' = Pending
    BY <1>14 DEF Lapse, Pending
  <2>5. LapsePending \subseteq LapsePending' /\ run[x].r \in LapsePending'
    BY <2>1, <2>3 DEF LapsePending
  <2>6. Pending \cup LapsePending \subseteq Owed' /\ run[x].r \in Owed'
    BY <2>4, <2>5 DEF Owed
  <2> QED
    BY <1>14, <2>1, <2>2, <2>6, RowWritten DEF Lapse
<1>15. ASSUME NEW x \in Run, Unschedule(x) PROVE Settled'
  <2>1. JobFor(run[x].row) = None /\ run[x].r \in Id
    BY <1>15, NoJob DEF Unschedule, RunsFit
  <2>2. SetJob(run[x].r, run[x].row, JobFor(run[x].row))
    BY <1>15, <2>1 DEF Unschedule, Remove
  <2>3. \A y \in Run : y # x => run'[y] = run[y]
    BY <1>15, Types DEF Unschedule
  <2>4. \A s \in Id \ {run[x].r} : s \in Pending \cup LapsePending => s \in Owed'
    BY <1>15, <2>3 DEF Unschedule, Owed, Pending, LapsePending
  <2> QED
    BY <1>15, <2>1, <2>2, <2>4, SameList, JobIsSet DEF Unschedule
<1>16. ASSUME NEW x \in Run, TooEarly(x) PROVE Settled'
  <2>1. Pending' = Pending /\ excused' = excused
    BY <1>16 DEF TooEarly, Pending
  <2>2. run[x].pc # "lapsed" /\ \A y \in Run : y # x => run'[y] = run[y]
    BY <1>16, Types DEF TooEarly, Runnable
  <2>3. Owed \subseteq Owed'
    BY <2>1, <2>2 DEF Owed, LapsePending
  <2> QED
    BY <1>16, <2>3, SameList, Quiet DEF TooEarly
<1>17. ASSUME NEW x \in Run, Execute(x) PROVE Settled'
  <2>1. Pending' = Pending /\ excused' = excused
    BY <1>17 DEF Execute, Pending
  <2>2. run[x].pc # "lapsed" /\ \A y \in Run : y # x => run'[y] = run[y]
    BY <1>17, Types DEF Execute, Runnable
  <2>3. Owed \subseteq Owed'
    BY <2>1, <2>2 DEF Owed, LapsePending
  <2> QED
    BY <1>17, <2>3, SameList, Quiet DEF Execute
<1>18. ASSUME NEW x \in Run, End(x) PROVE Settled'
  <2>1. Pending' = Pending /\ excused' = excused
    BY <1>18 DEF End, Pending
  <2>2. run[x].pc # "lapsed" /\ \A y \in Run : y # x => run'[y] = run[y]
    BY <1>18, Types DEF End, Runnable
  <2>3. Owed \subseteq Owed'
    BY <2>1, <2>2 DEF Owed, LapsePending
  <2> QED
    BY <1>18, <2>3, SameList, Quiet DEF End
<1>19. ASSUME Boot PROVE Settled'
  <2> SUFFICES ASSUME NEW s \in Id, s \notin Owed' PROVE job'[s] = JobFor(rec'[s]) \/ ToBeListed(s)'
    BY <1>19, SameJob DEF Boot, Settled, Owed
  <2>1. s \notin Owed /\ ~ToBeListed(s)
    BY <1>19 DEF Boot, Owed, Pending, LapsePending, ToBeListed
  <2>2. CASE up
    BY <1>19, <2>1, <2>2 DEF Boot, Settled, Owed
  <2>3. CASE ~up /\ Enabled(s)
    <3>1. Before(s)' = Before(s) /\ Enabled(s)' /\ Before(s) \in Nat
      BY <1>19, <2>3, Positions DEF Boot, Before, EnabledRows, Enabled
    <3>2. sync'.on /\ sync'.skip = 0
      BY <1>19 DEF Boot
    <3> QED
      BY <3>1, <3>2 DEF ToBeListed
  <2>4. CASE ~up /\ ~Enabled(s)
    BY <1>19, <2>4 DEF Boot, DownIsEmpty, Enabled, Wanted, JobFor
  <2> QED
    BY <2>2, <2>3, <2>4
<1>20. ASSUME ReadPage PROVE Settled'
  <2>1. Owed = Owed'
    BY <1>20 DEF ReadPage, Owed, Pending, LapsePending
  <2>2. ASSUME NEW s \in Id, ToBeListed(s) PROVE ToBeListed(s)'
    <3>1. /\ sync.on /\ Enabled(s) /\ s \in EnabledRows /\ Before(s) >= sync.skip
          /\ sync.skip \in Nat
      BY <1>20, <2>2, Parts DEF ReadPage, ToBeListed, EnabledRows
    <3>2. Enabled(s)' /\ Before(s)' = Before(s)
      BY <1>20, <3>1 DEF ReadPage, Enabled, Before, EnabledRows
    <3>3. Page # {} /\ (s \in Page \/ Before(s) >= sync.skip + Cardinality(Page))
      BY <3>1, PageGoesOn
    <3>4. /\ sync'.on /\ sync'.skip = sync.skip + Cardinality(Page)
          /\ sync'.batch = {<<r, rec[r]>> : r \in Page}
      BY <1>20, <3>3 DEF ReadPage
    <3>5. CASE s \in Page
      <4>1. <<s, rec[s]>> \in sync'.batch /\ <<s, rec[s]>>[1] = s
        BY <3>4, <3>5
      <4> QED
        BY <3>2, <3>4, <4>1 DEF ToBeListed
    <3>6. CASE Before(s) >= sync.skip + Cardinality(Page)
      BY <3>2, <3>4, <3>6 DEF ToBeListed
    <3> QED
      BY <3>3, <3>5, <3>6
  <2> QED
    BY <1>20, <2>1, <2>2, Quiet DEF ReadPage
<1>21. ASSUME Register PROVE Settled'
  <2>1. PICK b \in sync.batch : Upsert(b[1], b[2]) /\ sync' = [sync EXCEPT !.batch = @ \ {b}]
    BY <1>21 DEF Register
  <2>2. b[1] \in Id /\ SetJob(b[1], b[2], JobFor(b[2]))
    BY <2>1, Parts DEF Upsert
  <2>3. /\ sync'.on = sync.on /\ sync'.skip = sync.skip
        /\ sync'.batch = sync.batch \ {b}
    BY <2>1, Types DEF SyncState
  <2>4. \A s \in Id : Enabled(s)' = Enabled(s) /\ Before(s)' = Before(s)
    BY <1>21 DEF Register, Enabled, Before, EnabledRows
  <2>5. \A s \in Id \ {b[1]} : ToBeListed(s) => ToBeListed(s)'
    BY <2>3, <2>4 DEF ToBeListed
  <2>6. \A s \in Id \ {b[1]} : s \in Pending \cup LapsePending => s \in Owed'
    BY <1>21 DEF Register, Owed, Pending, LapsePending
  <2> QED
    BY <1>21, <2>2, <2>5, <2>6, JobIsSet DEF Register
<1>22. ASSUME Crash PROVE Settled'
  <2>1. CASE mode = "cron"
    BY <1>22, <2>1 DEF Crash, Settled
  <2>2. CASE mode # "cron"
    <3>1. /\ UNCHANGED <<job, run, rec>> /\ up
          /\ excused' = excused \cup Pending \cup Unreached /\ mode' = mode
      BY <1>22, <2>2 DEF Crash
    <3>2. LapsePending' = LapsePending
      BY <3>1 DEF LapsePending
    <3> QED
      BY <3>1, <3>2, SameJob DEF Settled, Unreached
  <2> QED
    BY <2>1, <2>2
<1>23. ASSUME CrashWorker PROVE Settled'
  <2>1. Pending' = Pending /\ excused' = excused \cup LapsePending
    BY <1>23 DEF CrashWorker, Pending
  <2> QED
    BY <1>23, <2>1, SameList, Quiet DEF CrashWorker, Owed
<1>24. ASSUME NEW d \in EndDate \ {Never}, Pass(d) PROVE Settled'
  <2>1. Owed' = Owed
    BY <1>24 DEF Pass, Owed, Pending, LapsePending
  <2> QED
    BY <1>24, <2>1, SameList, Quiet DEF Pass
<1>25. CASE UNCHANGED vars
  <2>1. Owed' = Owed
    BY <1>25 DEF vars, Owed, Pending, LapsePending
  <2> QED
    BY <1>25, <2>1, SameList, Quiet DEF vars
<1>26. ASSUME NEW x \in Run, RemovalLost(x) PROVE Settled'
  <2>1. Pending' = Pending /\ excused \subseteq excused'
    BY <1>26 DEF RemovalLost, Pending
  <2>2. run[x].pc = "lapsed" => run[x].r \in excused'
    BY <1>26 DEF RemovalLost
  <2>3. \A y \in Run : y # x => run'[y] = run[y]
    BY <1>26, Types DEF RemovalLost
  <2>4. Owed \subseteq Owed'
    BY <2>1, <2>2, <2>3 DEF Owed, LapsePending
  <2> QED
    BY <1>26, <2>4, SameList, Quiet DEF RemovalLost
<1>27. ASSUME SyncFails PROVE Settled'
  <2>1. Pending' = Pending /\ LapsePending' = LapsePending
    BY <1>27 DEF SyncFails, Pending, LapsePending
  <2> QED
    BY <1>27, <2>1, SameJob DEF SyncFails, Settled, Unreached
<1> QED
  BY <1>1, <1>2, <1>3, <1>4, <1>5, <1>6, <1>7, <1>8, <1>9, <1>10, <1>11, <1>12, <1>13,
     <1>14, <1>15, <1>16, <1>17, <1>18, <1>19, <1>20, <1>21, <1>22, <1>23, <1>24, <1>25,
     <1>26, <1>27 DEF Next, Edit, Step

-----------------------------------------------------------------------------
(* The theorems.                                                           *)

\* At the start nobody has a schedule.
LEMMA InitHolds == Init => IInv
<1> SUFFICES ASSUME Init PROVE IInv
  OBVIOUS
<1>1. Idle \in EditorState /\ Idle.pc = "idle" /\ IdleRun \in RunState /\ IdleRun.pc = "idle"
  BY ScheduleAssumption DEF Idle, IdleRun, EditorState, RunState, Known
<1>2. TypeOK
  <2>1. sync \in SyncState
    BY DEF Init, SyncState
  <2> QED
    BY <1>1, <2>1, Types, ScheduleAssumption DEF Init, Known
<1>3. EditorsFit /\ RunsFit
  BY <1>1 DEF Init, EditorsFit, RunsFit
<1>4. DownIsEmpty
  BY <1>1, ScheduleAssumption DEF Init, DownIsEmpty
<1>5. Settled
  BY DEF Init, Settled, Wanted, JobFor
<1> QED
  BY <1>2, <1>3, <1>4, <1>5 DEF IInv

\* The invariant is inductive.
LEMMA StepHolds == IInv /\ [Next]_vars => IInv'
BY TypeNext, EditorsNext, RunsNext, DownNext, SettledNext DEF IInv

\* It holds in every state.
LEMMA Always == Spec => []IInv
BY InitHolds, StepHolds, PTL DEF Spec

\* Whatever is written, registered, fired, listed, crashed or lost, the table, the jobs,
\* requests, executions and the list of a starting server keep their types.
THEOREM TypeCorrect == Spec => []TypeOK
<1>1. IInv => TypeOK
  BY DEF IInv
<1> QED
  BY <1>1, Always, PTL

\* The job of a row is what the row asks for, or somebody is about to set it, or the one
\* who set it last did not know better (createOrUpdateSchedule, toggleScheduleEnabled,
\* deleteScheduleForTarget, onScheduleChanged, _syncAllJobs, executeScheduleJob).
THEOREM JobsFollow == Spec => []JobsFollowRows
<1>1. IInv => JobsFollowRows
  BY DEF IInv, Settled, JobsFollowRows, Attended, Unreached
<1> QED
  BY <1>1, Always, PTL
=============================================================================
