-------------------------- MODULE SubagentRunsProofs --------------------------
(***************************************************************************)
(* Proofs about SubagentRuns: one gateway process per host at a time is    *)
(* enough for the sweep and the lookups, whose writes are not guarded, to  *)
(* touch only runs of dead processes, for the table, the children and the  *)
(* answers of await_task to agree, and for the children of a session to    *)
(* stay within the cap.                                                    *)
(***************************************************************************)
EXTENDS SubagentRuns, TLAPS, FiniteSetTheorems

Live(o) == proc[o] \in {"sweeping", "up"}

\* o may fail the row of r: its owner is another process of the same host
Foreign(o, r) == r \notin Blocking => /\ mem[r].by \in Owners /\ mem[r].by # o
                                      /\ HostOf[mem[r].by] = HostOf[o]
                                      /\ row[r].owner = mem[r].by

OneProcess == \A o, p \in Owners : Live(o) /\ Live(p) /\ HostOf[o] = HostOf[p] => o = p

RunOK(r) ==
    /\ mem[r].at = "none" <=> mem[r].by = None
    /\ mem[r].at \in {"none", "starting"} => row[r].status = "none"
    /\ r \notin Blocking /\ row[r].status # "none" => row[r].owner = mem[r].by
    /\ mem[r].at = "persisting" \/ (mem[r].at = "done" /\ r \notin Blocking) => mem[r].payload \in Outcome
    /\ mem[r].by # None => proc[mem[r].by] \in {"up", "dead"}
    /\ mem[r].by # None /\ proc[mem[r].by] = "dead" => mem[r].at = "lost"
    /\ mem[r].by # None /\ r \notin Blocking /\ sup[mem[r].by].at # "open"
         => mem[r].kill \/ mem[r].at \in {"done", "lost"}

SweepOK(o) ==
    /\ sweep[o].todo # {} \/ sweep[o].at # None => proc[o] = "sweeping"
    /\ sweep[o].at \notin sweep[o].todo
    /\ \A r \in Runs : r \in sweep[o].todo \/ r = sweep[o].at => row[r].status # "none"
    /\ \A r \in Runs \ Blocking : r \in sweep[o].todo \/ r = sweep[o].at
            => row[r].status = "running" /\ Foreign(o, r)

LookOK(o) ==
    /\ look[o].run = None <=> look[o].step = "idle"
    /\ look[o].step # "idle" => proc[o] = "up" /\ look[o].run \in Runs \ Blocking /\ Foreign(o, look[o].run)
    /\ look[o].step = "record" => row[look[o].run].status = "running"

Shape ==
    /\ OneProcess
    /\ \A r \in Runs : RunOK(r)
    /\ \A o \in Owners : SweepOK(o) /\ LookOK(o)

(* Inductive: every unguarded write of the table is by a process of the    *)
(* host of a dead owner. Shape says who may hold such a write in flight.   *)
IndInv == TypeOK /\ Shape

-----------------------------------------------------------------------------
(* The updates of a run and of a row keep their types.                     *)

\* A run that moves on.
LEMMA AtType ==
    ASSUME TypeOK, NEW r \in Runs, NEW p \in Phase
    PROVE  [mem EXCEPT ![r].at = p] \in [Runs -> Run]
<1>1. [mem[r] EXCEPT !.at = p] \in Run
  BY DEF TypeOK, Run
<1> QED BY <1>1 DEF TypeOK

\* A run that gets its owner.
LEMMA SpawnType ==
    ASSUME TypeOK, NEW r \in Runs, NEW o \in Owners, NEW p \in Phase
    PROVE  [mem EXCEPT ![r].at = p, ![r].by = o] \in [Runs -> Run]
<1>1. [mem[r] EXCEPT !.at = p, !.by = o] \in Run
  BY DEF TypeOK, Run
<1> QED BY <1>1 DEF TypeOK

\* A run that ends.
LEMMA EndsType ==
    ASSUME TypeOK, NEW r \in Runs, NEW x \in Outcome, NEW p \in Phase
    PROVE  [mem EXCEPT ![r].at = p, ![r].payload = x] \in [Runs -> Run]
<1>1. [mem[r] EXCEPT !.at = p, !.payload = x] \in Run
  BY DEF TypeOK, Run
<1> QED BY <1>1 DEF TypeOK

\* A run whose child is to be killed.
LEMMA KillType ==
    ASSUME TypeOK, NEW r \in Runs
    PROVE  [mem[r] EXCEPT !.kill = TRUE] \in Run
<1>1. mem[r] \in Run
  BY DEF TypeOK
<1> QED BY <1>1, Zenon DEF Run

\* The runs of an owner that dies.
LEMMA DiesType ==
    ASSUME TypeOK, NEW o \in Owners, Dies(o)
    PROVE  mem' \in [Runs -> Run]
<1>1. ASSUME NEW r \in Runs
      PROVE  [mem[r] EXCEPT !.at = "lost"] \in Run
  <2>1. "lost" \in Phase
    BY DEF Phase
  <2> QED BY <2>1 DEF TypeOK, Run
<1> QED BY <1>1 DEF TypeOK, Dies

\* A fault that is counted.
LEMMA SpendType ==
    ASSUME TypeOK, NEW f \in Fault, Spend(f)
    PROVE  faults' \in [Fault -> Nat]
  BY DEF TypeOK, Spend

\* A row that is inserted.
LEMMA InsertedType ==
    ASSUME TypeOK, NEW r \in Runs
    PROVE  Inserted(r) \in [Runs -> Row]
  BY DEF TypeOK, Inserted, Row, Run, Status

\* A row whose owner is gone.
LEMMA OrphanType ==
    ASSUME TypeOK, NEW r \in Runs
    PROVE  RecordOrphan(r) \in [Runs -> Row]
<1>1. [row[r] EXCEPT !.status = "failed"] \in Row
  BY DEF TypeOK, Row, Status
<1> QED BY <1>1 DEF TypeOK, RecordOrphan

\* A row that records an outcome.
LEMMA RecordType ==
    ASSUME TypeOK, NEW r \in Runs, NEW o \in Owners, NEW x \in Outcome
    PROVE  RecordOwned(r, o, x) \in [Runs -> Row] /\ RecordBlocking(r, x) \in [Runs -> Row]
<1>1. ASSUME NEW s \in Status, NEW y \in Outcome \cup {None}
      PROVE  [row EXCEPT ![r].status = s, ![r].result = y] \in [Runs -> Row]
  <2>1. [row[r] EXCEPT !.status = s, !.result = y] \in Row
    BY DEF TypeOK, Row
  <2> QED BY <2>1 DEF TypeOK
<1>2. row[r].result \in Outcome \cup {None}
  BY DEF TypeOK, Row
<1>3. RecordOwned(r, o, x) \in [Runs -> Row]
  BY <1>1 DEF TypeOK, RecordOwned, Status
<1>4. RecordBlocking(r, x) \in [Runs -> Row]
  BY <1>1, <1>2 DEF RecordBlocking, Status
<1> QED BY <1>3, <1>4

-----------------------------------------------------------------------------
(* The invariant holds initially.                                          *)
LEMMA InitInd == Init => IndInv
<1> SUFFICES ASSUME Init PROVE IndInv
  OBVIOUS
<1>1. TypeOK
  BY DEF Init, TypeOK, Run, Row, Phase, Status, Child, Fault
<1>2. Shape
  BY RunsAssumption DEF Init, Shape, OneProcess, Live, RunOK, SweepOK, LookOK, Foreign
<1> QED BY <1>1, <1>2 DEF IndInv

(* Every action keeps it, when a host has one process at a time.           *)
LEMMA StepInd ==
    ASSUME Neighbours = FALSE, IndInv, [Next]_vars
    PROVE  IndInv'
<1>1. ASSUME NEW o \in Owners, Start(o) PROVE IndInv'
  <2>1. TypeOK'
    <3>1. [sweep[o] EXCEPT !.todo = {r \in Runs : row[r].status = "running" /\ ClassifyOrphan(row[r].owner, o)}]
            \in [todo : SUBSET Runs, at : Runs \cup {None}]
      BY <1>1 DEF IndInv, TypeOK
    <3> QED BY <1>1, <3>1 DEF IndInv, TypeOK, Start
  <2>2. Shape'
    BY <1>1, RunsAssumption DEF IndInv, Shape, TypeOK, OneProcess, Live, RunOK, SweepOK,
        LookOK, Foreign, Run, Row, Up, Start, ClassifyOrphan
  <2> QED BY <2>1, <2>2 DEF IndInv
<1>2. ASSUME NEW o \in Owners, SweepRecord(o) PROVE IndInv'
  <2>1. TypeOK'
    <3>1. [sweep[o] EXCEPT !.at = None] \in [todo : SUBSET Runs, at : Runs \cup {None}]
      <4>1. sweep[o] \in [todo : SUBSET Runs, at : Runs \cup {None}] /\ None \in Runs \cup {None}
        BY <1>2 DEF IndInv, TypeOK
      <4> QED BY <1>2, <4>1
    <3>2. row' \in [Runs -> Row]
      BY <1>2, OrphanType DEF IndInv, TypeOK, SweepRecord
    <3> QED BY <1>2, <3>1, <3>2 DEF IndInv, TypeOK, SweepRecord
  <2>2. Shape'
    BY <1>2, RunsAssumption DEF IndInv, Shape, TypeOK, OneProcess, Live, RunOK, SweepOK,
        LookOK, Foreign, Run, Row, Up, SweepRecord, RecordOrphan
  <2> QED BY <2>1, <2>2 DEF IndInv
<1>3. ASSUME NEW o \in Owners, SweepRaises(o) PROVE IndInv'
  <2>1. TypeOK'
    BY <1>3, SpendType, RunsAssumption DEF IndInv, TypeOK, SweepRaises, Fault
  <2>2. Shape'
    BY <1>3, RunsAssumption DEF IndInv, Shape, TypeOK, OneProcess, Live, RunOK, SweepOK,
        LookOK, Foreign, Run, Row, Up, SweepRaises
  <2> QED BY <2>1, <2>2 DEF IndInv
<1>4. ASSUME NEW o \in Owners, Serve(o) PROVE IndInv'
  <2>1. TypeOK'
    BY <1>4, RunsAssumption DEF IndInv, TypeOK, Serve
  <2>2. Shape'
    BY <1>4, RunsAssumption DEF IndInv, Shape, TypeOK, OneProcess, Live, RunOK, SweepOK,
        LookOK, Foreign, Run, Row, Up, Serve
  <2> QED BY <2>1, <2>2 DEF IndInv
<1>5. ASSUME NEW o \in Owners, Crash(o) PROVE IndInv'
  <2>1. TypeOK'
    BY <1>5, DiesType, SpendType, RunsAssumption DEF IndInv, TypeOK, Crash, Dies, Fault
  <2>2. Shape'
    BY <1>5, RunsAssumption DEF IndInv, Shape, TypeOK, OneProcess, Live, RunOK, SweepOK,
        LookOK, Foreign, Run, Row, Up, Crash, Dies
  <2> QED BY <2>1, <2>2 DEF IndInv
<1>6. ASSUME NEW o \in Owners, Exit(o) PROVE IndInv'
  <2>1. TypeOK'
    BY <1>6, DiesType, RunsAssumption DEF IndInv, TypeOK, Exit, Dies
  <2>2. Shape'
    BY <1>6, RunsAssumption DEF IndInv, Shape, TypeOK, OneProcess, Live, RunOK, SweepOK,
        LookOK, Foreign, Run, Row, Up, Exit, Dies
  <2> QED BY <2>1, <2>2 DEF IndInv
<1>7. ASSUME NEW o \in Owners, FromStoreRecord(o) PROVE IndInv'
  <2>1. TypeOK'
    <3>1. look[o].run \in Runs
      BY <1>7 DEF IndInv, Shape, LookOK, FromStoreRecord
    <3>2. row' \in [Runs -> Row]
      BY <1>7, <3>1, OrphanType DEF IndInv, FromStoreRecord
    <3>3. [look[o] EXCEPT !.step = "kill"] \in [run : Runs \cup {None}, step : {"idle", "record", "kill"}]
      <4>1. look[o] \in [run : Runs \cup {None}, step : {"idle", "record", "kill"}]
        BY <1>7 DEF IndInv, TypeOK
      <4> QED BY <1>7, <4>1
    <3> QED BY <1>7, <3>2, <3>3 DEF IndInv, TypeOK, FromStoreRecord
  <2>2. Shape'
    BY <1>7, RunsAssumption DEF IndInv, Shape, TypeOK, OneProcess, Live, RunOK, SweepOK,
        LookOK, Foreign, Run, Row, Up, FromStoreRecord, RecordOrphan
  <2> QED BY <2>1, <2>2 DEF IndInv
<1>8. ASSUME NEW o \in Owners, FromStoreKill(o) PROVE IndInv'
  <2>1. TypeOK'
    BY <1>8, RunsAssumption DEF IndInv, TypeOK, FromStoreKill, Tell, KillRecorded, Child,
        Outcome, Shape, LookOK
  <2>2. Shape'
    BY <1>8, RunsAssumption DEF IndInv, Shape, TypeOK, OneProcess, Live, RunOK, SweepOK,
        LookOK, Foreign, Run, Row, Up, FromStoreKill
  <2> QED BY <2>1, <2>2 DEF IndInv
<1>9. ASSUME NEW o \in Owners, Aclose(o) PROVE IndInv'
  <2>1. TypeOK'
    BY <1>9, KillType, RunsAssumption DEF IndInv, TypeOK, Aclose, RunsOf
  <2>2. Shape'
    BY <1>9, RunsAssumption DEF IndInv, Shape, TypeOK, OneProcess, Live, RunOK, SweepOK,
        LookOK, Foreign, Run, Row, Up, Aclose, RunsOf, Working
  <2> QED BY <2>1, <2>2 DEF IndInv
<1>10. ASSUME NEW o \in Owners, AcloseGathered(o) PROVE IndInv'
  <2>1. TypeOK'
    BY <1>10, RunsAssumption DEF IndInv, TypeOK, AcloseGathered, RunsOf
  <2>2. Shape'
    BY <1>10, RunsAssumption DEF IndInv, Shape, TypeOK, OneProcess, Live, RunOK, SweepOK,
        LookOK, Foreign, Run, Row, Up, AcloseGathered, RunsOf
  <2> QED BY <2>1, <2>2 DEF IndInv
<1>11. ASSUME NEW o \in Owners, AcloseEnds(o) PROVE IndInv'
  <2>1. TypeOK'
    BY <1>11, RunsAssumption DEF IndInv, TypeOK, AcloseEnds
  <2>2. Shape'
    BY <1>11, RunsAssumption DEF IndInv, Shape, TypeOK, OneProcess, Live, RunOK, SweepOK,
        LookOK, Foreign, Run, Row, Up, AcloseEnds
  <2> QED BY <2>1, <2>2 DEF IndInv
<1>12. ASSUME NEW r \in Runs, RecordStarted(r) PROVE IndInv'
  <2>1. TypeOK'
    BY <1>12, AtType, InsertedType, RunsAssumption DEF IndInv, TypeOK, RecordStarted, At, Phase
  <2>2. Shape'
    BY <1>12, RunsAssumption DEF IndInv, Shape, TypeOK, OneProcess, Live, RunOK, SweepOK,
        LookOK, Foreign, Run, Row, Up, RecordStarted, Inserted, At, Held
  <2> QED BY <2>1, <2>2 DEF IndInv
<1>13. ASSUME NEW r \in Runs, RecordStartedRaises(r) PROVE IndInv'
  <2>1. TypeOK'
    BY <1>13, AtType, SpendType, RunsAssumption DEF IndInv, TypeOK, RecordStartedRaises, At,
        Phase, Fault
  <2>2. Shape'
    BY <1>13, RunsAssumption DEF IndInv, Shape, TypeOK, OneProcess, Live, RunOK, SweepOK,
        LookOK, Foreign, Run, Row, Up, RecordStartedRaises, At, Held
  <2> QED BY <2>1, <2>2 DEF IndInv
<1>14. ASSUME NEW r \in Runs, SpawnCancelled(r) PROVE IndInv'
  <2>1. TypeOK'
    <3>1. row' \in [Runs -> Row]
      BY <1>14, InsertedType DEF IndInv, TypeOK, SpawnCancelled
    <3> QED BY <1>14, <3>1, AtType, SpendType DEF IndInv, TypeOK, SpawnCancelled, At, Phase, Fault
  <2>2. Shape'
    <3>1. CASE row' = row
      BY <1>14, <3>1, RunsAssumption DEF IndInv, Shape, TypeOK, OneProcess, Live, RunOK, SweepOK, LookOK, Foreign, Run, Row, Up, SpawnCancelled, At, Held
    <3>2. CASE row' = Inserted(r) /\ mem[r].at = "starting"
      BY <1>14, <3>2, RunsAssumption DEF IndInv, Shape, TypeOK, OneProcess, Live, RunOK, SweepOK, LookOK, Foreign, Run, Row, Up, SpawnCancelled, Inserted, At, Held
    <3> QED BY <1>14, <3>1, <3>2 DEF SpawnCancelled
  <2> QED BY <2>1, <2>2 DEF IndInv
<1>15. ASSUME NEW r \in Runs, Drive(r) PROVE IndInv'
  <2>1. TypeOK'
    BY <1>15, AtType, RunsAssumption DEF IndInv, TypeOK, Drive, At, Phase
  <2>2. Shape'
    BY <1>15, RunsAssumption DEF IndInv, Shape, TypeOK, OneProcess, Live, RunOK, SweepOK,
        LookOK, Foreign, Run, Row, Up, Drive, At, Held
  <2> QED BY <2>1, <2>2 DEF IndInv
<1>16. ASSUME NEW r \in Runs, ChildStarts(r) PROVE IndInv'
  <2>1. TypeOK'
    BY <1>16, RunsAssumption DEF IndInv, TypeOK, ChildStarts, Child
  <2>2. Shape'
    BY <1>16, RunsAssumption DEF IndInv, Shape, TypeOK, OneProcess, Live, RunOK, SweepOK,
        LookOK, Foreign, Run, Row, Up, ChildStarts
  <2> QED BY <2>1, <2>2 DEF IndInv
<1>17. ASSUME NEW r \in Runs, PidWritten(r) PROVE IndInv'
  <2>1. TypeOK'
    BY <1>17, RunsAssumption DEF IndInv, TypeOK, PidWritten, Child
  <2>2. Shape'
    BY <1>17, RunsAssumption DEF IndInv, Shape, TypeOK, OneProcess, Live, RunOK, SweepOK,
        LookOK, Foreign, Run, Row, Up, PidWritten
  <2> QED BY <2>1, <2>2 DEF IndInv
<1>18. ASSUME NEW r \in Runs, ChildExits(r) PROVE IndInv'
  <2>1. TypeOK'
    BY <1>18, RunsAssumption DEF IndInv, TypeOK, ChildExits, Child
  <2>2. Shape'
    BY <1>18, RunsAssumption DEF IndInv, Shape, TypeOK, OneProcess, Live, RunOK, SweepOK,
        LookOK, Foreign, Run, Row, Up, ChildExits
  <2> QED BY <2>1, <2>2 DEF IndInv
<1>19. ASSUME NEW r \in Runs, DrainEnds(r) PROVE IndInv'
  <2>1. TypeOK'
    <3>1. PICK x \in Outcome : Ends(r, x)
      BY <1>19 DEF DrainEnds, Outcome
    <3>2. mem' \in [Runs -> Run]
      BY <1>19, <3>1, EndsType DEF IndInv, Ends, Phase
    <3> QED BY <1>19, <3>2 DEF IndInv, TypeOK, DrainEnds
  <2>2. Shape'
    <3>1. PICK x \in Outcome : Ends(r, x)
      BY <1>19 DEF DrainEnds, Outcome
    <3> QED BY <1>19, <3>1, RunsAssumption DEF IndInv, Shape, TypeOK, OneProcess, Live, RunOK, SweepOK, LookOK, Foreign, Run, Row, Up, Ends, Held, DrainEnds
  <2> QED BY <2>1, <2>2 DEF IndInv
<1>20. ASSUME NEW r \in Runs, DriveKilled(r) PROVE IndInv'
  <2>1. TypeOK'
    BY <1>20, EndsType, RunsAssumption DEF IndInv, TypeOK, DriveKilled, Ends, Outcome, Stopped,
        Child, Phase
  <2>2. Shape'
    BY <1>20, RunsAssumption DEF IndInv, Shape, TypeOK, OneProcess, Live, RunOK, SweepOK,
        LookOK, Foreign, Run, Row, Up, DriveKilled, Ends, Held, Outcome
  <2> QED BY <2>1, <2>2 DEF IndInv
<1>21. ASSUME NEW r \in Runs, DriveTimesOut(r) PROVE IndInv'
  <2>1. TypeOK'
    BY <1>21, EndsType, RunsAssumption DEF IndInv, TypeOK, DriveTimesOut, Ends, Outcome,
        Stopped, Child, Phase
  <2>2. Shape'
    BY <1>21, RunsAssumption DEF IndInv, Shape, TypeOK, OneProcess, Live, RunOK, SweepOK,
        LookOK, Foreign, Run, Row, Up, DriveTimesOut, Ends, Held, Outcome
  <2> QED BY <2>1, <2>2 DEF IndInv
<1>22. ASSUME NEW r \in Runs, DrainRaises(r) PROVE IndInv'
  <2>1. TypeOK'
    BY <1>22, EndsType, SpendType, RunsAssumption DEF IndInv, TypeOK, DrainRaises, Ends,
        Outcome, Fault, Phase
  <2>2. Shape'
    BY <1>22, RunsAssumption DEF IndInv, Shape, TypeOK, OneProcess, Live, RunOK, SweepOK,
        LookOK, Foreign, Run, Row, Up, DrainRaises, Ends, Held, Outcome
  <2> QED BY <2>1, <2>2 DEF IndInv
<1>23. ASSUME NEW r \in Runs, Persist(r) PROVE IndInv'
  <2>1. TypeOK'
    BY <1>23, AtType, RecordType, RunsAssumption DEF IndInv, TypeOK, Persist, At, Phase, Held,
        Run, Shape, RunOK
  <2>2. Shape'
    BY <1>23, RunsAssumption DEF IndInv, Shape, TypeOK, OneProcess, Live, RunOK, SweepOK,
        LookOK, Foreign, Run, Row, Up, Persist, At, Held, RecordOwned, RecordBlocking
  <2> QED BY <2>1, <2>2 DEF IndInv
<1>24. ASSUME NEW r \in Runs, PersistRaises(r) PROVE IndInv'
  <2>1. TypeOK'
    BY <1>24, AtType, SpendType, RunsAssumption DEF IndInv, TypeOK, PersistRaises, At, Phase,
        Fault
  <2>2. Shape'
    BY <1>24, RunsAssumption DEF IndInv, Shape, TypeOK, OneProcess, Live, RunOK, SweepOK,
        LookOK, Foreign, Run, Row, Up, PersistRaises, At, Held
  <2> QED BY <2>1, <2>2 DEF IndInv
<1>25. ASSUME NEW r \in Runs, AwaitRun(r) PROVE IndInv'
  <2>1. TypeOK'
    BY <1>25, RunsAssumption DEF IndInv, TypeOK, AwaitRun, Tell, Held, Shape, RunOK
  <2>2. Shape'
    BY <1>25, RunsAssumption DEF IndInv, Shape, TypeOK, OneProcess, Live, RunOK, SweepOK,
        LookOK, Foreign, Run, Row, Up, AwaitRun
  <2> QED BY <2>1, <2>2 DEF IndInv
<1>26. ASSUME NEW r \in Runs, KillTask(r) PROVE IndInv'
  <2>1. TypeOK'
    BY <1>26, KillType, RunsAssumption DEF IndInv, TypeOK, KillTask
  <2>2. Shape'
    BY <1>26, RunsAssumption DEF IndInv, Shape, TypeOK, OneProcess, Live, RunOK, SweepOK,
        LookOK, Foreign, Run, Row, Up, KillTask, Held, Working
  <2> QED BY <2>1, <2>2 DEF IndInv
<1>27. ASSUME NEW o \in Owners, NEW r \in Runs, Spawn(o, r) PROVE IndInv'
  <2>1. TypeOK'
    BY <1>27, SpawnType, RunsAssumption DEF IndInv, TypeOK, Spawn, Phase
  <2>2. Shape'
    BY <1>27, RunsAssumption DEF IndInv, Shape, TypeOK, OneProcess, Live, RunOK, SweepOK,
        LookOK, Foreign, Run, Row, Up, Spawn
  <2> QED BY <2>1, <2>2 DEF IndInv
<1>28. ASSUME NEW o \in Owners, NEW r \in Runs, TaskBlocking(o, r) PROVE IndInv'
  <2>1. TypeOK'
    BY <1>28, SpawnType, RunsAssumption DEF IndInv, TypeOK, TaskBlocking, Phase
  <2>2. Shape'
    BY <1>28, RunsAssumption DEF IndInv, Shape, TypeOK, OneProcess, Live, RunOK, SweepOK,
        LookOK, Foreign, Run, Row, Up, TaskBlocking
  <2> QED BY <2>1, <2>2 DEF IndInv
<1>29. ASSUME NEW o \in Owners, NEW r \in Runs, SweepKill(o, r) PROVE IndInv'
  <2>1. TypeOK'
    BY <1>29, RunsAssumption DEF IndInv, TypeOK, SweepKill, KillRecorded, Child
  <2>2. Shape'
    BY <1>29, RunsAssumption DEF IndInv, Shape, TypeOK, OneProcess, Live, RunOK, SweepOK,
        LookOK, Foreign, Run, Row, Up, SweepKill
  <2> QED BY <2>1, <2>2 DEF IndInv
<1>30. ASSUME NEW o \in Owners, NEW r \in Runs, FromStore(o, r) PROVE IndInv'
  <2>1. TypeOK'
    <3>1. StoredOutcome(r) \in Outcome
      BY <1>30 DEF IndInv, TypeOK, StoredOutcome, Row, Outcome
    <3>2. told' \in [Runs -> SUBSET Outcome]
      BY <1>30, <3>1 DEF IndInv, TypeOK, FromStore, Tell
    <3>3. look' \in [Owners -> [run : Runs \cup {None}, step : {"idle", "record", "kill"}]]
      <4>1. [run |-> r, step |-> "record"] \in [run : Runs \cup {None}, step : {"idle", "record", "kill"}]
        OBVIOUS
      <4> QED BY <1>30, <4>1 DEF IndInv, TypeOK, FromStore
    <3> QED BY <1>30, <3>2, <3>3 DEF IndInv, TypeOK, FromStore
  <2>2. Shape'
    <3>1. CASE look' = look
      BY <1>30, <3>1, RunsAssumption DEF IndInv, Shape, TypeOK, OneProcess, Live, RunOK, SweepOK, LookOK, Foreign, Run, Row, Up, FromStore
    <3>2. CASE row[r].status = "running" /\ ClassifyOrphan(row[r].owner, o)
               /\ look' = [look EXCEPT ![o] = [run |-> r, step |-> "record"]]
      <4>1. mem[r].by \in Owners /\ mem[r].by # o /\ HostOf[mem[r].by] = HostOf[o] /\ row[r].owner = mem[r].by
        BY <1>30, <3>2, RunsAssumption DEF IndInv, TypeOK, Shape, RunOK, Run, Row, FromStore, ClassifyOrphan
      <4> QED BY <1>30, <3>2, <4>1, RunsAssumption DEF IndInv, Shape, TypeOK, OneProcess, Live, RunOK, SweepOK, LookOK, Foreign, Run, Row, Up, FromStore
    <3> QED BY <1>30, <3>1, <3>2 DEF FromStore
  <2> QED BY <2>1, <2>2 DEF IndInv
<1>31. ASSUME NEW o \in Owners, NEW r \in Runs, AcloseRecord(o, r) PROVE IndInv'
  <2>1. TypeOK'
    BY <1>31, RecordType, RunsAssumption DEF IndInv, TypeOK, AcloseRecord, Outcome
  <2>2. Shape'
    BY <1>31, RunsAssumption DEF IndInv, Shape, TypeOK, OneProcess, Live, RunOK, SweepOK,
        LookOK, Foreign, Run, Row, Up, AcloseRecord, RecordOwned, RunsOf
  <2> QED BY <2>1, <2>2 DEF IndInv
<1>32. CASE UNCHANGED vars
  <2>1. TypeOK'
    BY <1>32 DEF IndInv, TypeOK, vars
  <2>2. Shape'
    BY <1>32 DEF IndInv, Shape, OneProcess, Live, RunOK, SweepOK, LookOK, Foreign, vars
  <2> QED BY <2>1, <2>2 DEF IndInv
<1>33. ASSUME NEW o \in Owners, ProcessStep(o) PROVE IndInv'
  BY <1>33, <1>1, <1>2, <1>3, <1>4, <1>5, <1>6, <1>7, <1>8, <1>9, <1>10, <1>11 DEF ProcessStep
<1>34. ASSUME NEW r \in Runs, RunStep(r) PROVE IndInv'
  BY <1>34, <1>12, <1>13, <1>14, <1>15, <1>16, <1>17, <1>18, <1>19, <1>20, <1>21, <1>22, <1>23,
      <1>24, <1>25, <1>26 DEF RunStep
<1> QED BY <1>27, <1>28, <1>29, <1>30, <1>31, <1>32, <1>33, <1>34 DEF Next

-----------------------------------------------------------------------------
(* What the invariant gives.                                               *)

(* With one process per host, every reachable state of the processes, the  *)
(* runs, the table and the children has the type TypeOK states.            *)
THEOREM TypeSafety == ASSUME Neighbours = FALSE PROVE Spec => []TypeOK
<1>1. IndInv /\ [Next]_vars => IndInv'
  BY StepInd
<1>2. IndInv => TypeOK
  BY DEF IndInv
<1> QED BY <1>1, <1>2, InitInd, PTL DEF Spec

\* the actions that write the table
LEMMA RowStep ==
    ASSUME Next
    PROVE  \/ UNCHANGED row
           \/ \E o \in Owners : SweepRecord(o) \/ FromStoreRecord(o)
           \/ \E r \in Runs : RecordStarted(r) \/ SpawnCancelled(r) \/ Persist(r)
           \/ \E o \in Owners, r \in Runs : AcloseRecord(o, r)
<1>1. ASSUME NEW o \in Owners, ProcessStep(o), ~SweepRecord(o), ~FromStoreRecord(o) PROVE UNCHANGED row
  BY <1>1 DEF ProcessStep, Start, SweepRaises, Serve, Crash, Exit, Dies, FromStoreKill, Aclose, AcloseGathered, AcloseEnds
<1>2. ASSUME NEW r \in Runs, RunStep(r), ~RecordStarted(r), ~SpawnCancelled(r), ~Persist(r) PROVE UNCHANGED row
  BY <1>2 DEF RunStep, RecordStartedRaises, Drive, ChildStarts, PidWritten, ChildExits, DrainEnds, DriveKilled,
      DriveTimesOut, DrainRaises, PersistRaises, AwaitRun, KillTask
<1>3. ASSUME NEW o \in Owners, NEW r \in Runs, Spawn(o, r) \/ TaskBlocking(o, r) \/ SweepKill(o, r) \/ FromStore(o, r)
      PROVE  UNCHANGED row
  BY <1>3 DEF Spawn, TaskBlocking, SweepKill, FromStore
<1> QED BY <1>1, <1>2, <1>3 DEF Next

(* With one process per host a recorded outcome of a background run is     *)
(* never overwritten, for any number of processes, hosts and runs, and     *)
(* whatever crashes, store faults and cancellations occur: the sweep and   *)
(* await_task, which write without a guard, reach only running rows of     *)
(* dead processes.                                                         *)
THEOREM OutcomeSafety == ASSUME Neighbours = FALSE PROVE Spec => OutcomeFinal
<1> DEFINE Kept == \A r \in Runs \ Blocking :
                      row[r].status \in {"completed", "failed"} => row'[r] = row[r]
<1>1. IndInv /\ [Next]_vars => IndInv'
  BY StepInd
<1>2. ASSUME IndInv, [Next]_vars PROVE Kept
  <2>1. CASE UNCHANGED row
    BY <2>1
  <2>2. ASSUME NEW o \in Owners, SweepRecord(o) PROVE Kept
    BY <1>2, <2>2 DEF IndInv, TypeOK, Shape, SweepOK, Row, SweepRecord, RecordOrphan
  <2>3. ASSUME NEW o \in Owners, FromStoreRecord(o) PROVE Kept
    BY <1>2, <2>3 DEF IndInv, TypeOK, Shape, LookOK, Row, FromStoreRecord, RecordOrphan
  <2>4. ASSUME NEW r \in Runs, RecordStarted(r) PROVE Kept
    BY <1>2, <2>4 DEF IndInv, TypeOK, Shape, RunOK, RecordStarted, Inserted
  <2>5. ASSUME NEW r \in Runs, SpawnCancelled(r) PROVE Kept
    BY <1>2, <2>5 DEF IndInv, TypeOK, Shape, RunOK, SpawnCancelled, Inserted
  <2>6. ASSUME NEW r \in Runs, Persist(r) PROVE Kept
    BY <1>2, <2>6 DEF IndInv, TypeOK, Persist, RecordBlocking, RecordOwned
  <2>7. ASSUME NEW o \in Owners, NEW r \in Runs, AcloseRecord(o, r) PROVE Kept
    BY <1>2, <2>7 DEF IndInv, TypeOK, AcloseRecord, RecordOwned
  <2>8. CASE Next
    BY <2>8, RowStep, <2>1, <2>2, <2>3, <2>4, <2>5, <2>6, <2>7
  <2>9. CASE UNCHANGED vars
    BY <2>9, <2>1 DEF vars
  <2> QED BY <1>2, <2>8, <2>9
<1>3. Spec => [][Kept]_vars
  <2>1. IndInv /\ [Next]_vars => [Kept]_vars
    BY <1>2
  <2> QED BY <1>1, <2>1, InitInd, PTL DEF Spec
<1> QED BY <1>3 DEF OutcomeFinal

\* the actions that change a child
LEMMA ChildStep ==
    ASSUME Next
    PROVE  \/ UNCHANGED child
           \/ \E o \in Owners : FromStoreKill(o)
           \/ \E r \in Runs : \/ ChildStarts(r) \/ PidWritten(r) \/ ChildExits(r)
                              \/ DriveKilled(r) \/ DriveTimesOut(r)
           \/ \E o \in Owners, r \in Runs : SweepKill(o, r)
<1>1. ASSUME NEW o \in Owners, ProcessStep(o), ~FromStoreKill(o) PROVE UNCHANGED child
  BY <1>1 DEF ProcessStep, Start, SweepRecord, SweepRaises, Serve, Crash, Exit, Dies, FromStoreRecord, Aclose,
      AcloseGathered, AcloseEnds
<1>2. ASSUME NEW r \in Runs, RunStep(r), ~ChildStarts(r), ~PidWritten(r), ~ChildExits(r), ~DriveKilled(r),
             ~DriveTimesOut(r)
      PROVE  UNCHANGED child
  BY <1>2 DEF RunStep, RecordStarted, RecordStartedRaises, SpawnCancelled, Drive, DrainEnds, DrainRaises, Persist,
      PersistRaises, AwaitRun, KillTask
<1>3. ASSUME NEW o \in Owners, NEW r \in Runs,
             Spawn(o, r) \/ TaskBlocking(o, r) \/ FromStore(o, r) \/ AcloseRecord(o, r)
      PROVE  UNCHANGED child
  BY <1>3 DEF Spawn, TaskBlocking, FromStore, AcloseRecord
<1> QED BY <1>1, <1>2, <1>3 DEF Next

(* With one process per host and no blocking run, no process stops or      *)
(* fails a run that another, live process is driving and nobody asked to   *)
(* stop. Blocking runs have no owner in their row, and are not covered.    *)
THEOREM SpareSafety == ASSUME Neighbours = FALSE, Blocking = {} PROVE Spec => LiveRunsAreSpared
<1> DEFINE Quiet(r) == Held(r) /\ mem[r].at = "driving" /\ mem'[r].at = "driving" /\ ~mem[r].kill
           SameRow  == \A r \in Runs : Quiet(r) => row'[r].status = row[r].status
           NotKilled == \A r \in Runs : Quiet(r) /\ Alive(r) => child'[r] # "killed"
           Spared == \A r \in Runs :
                        Held(r) /\ mem[r].at = "driving" /\ mem'[r].at = "driving" /\ ~mem[r].kill =>
                            /\ row'[r].status = row[r].status
                            /\ Alive(r) => child'[r] # "killed"
<1>1. IndInv /\ [Next]_vars => IndInv'
  BY StepInd
<1>2. ASSUME IndInv, Next PROVE SameRow
  <2>1. CASE UNCHANGED row
    BY <2>1
  <2>2. ASSUME NEW o \in Owners, SweepRecord(o) PROVE SameRow
    <3>1. sweep[o].at \in Runs /\ ~Held(sweep[o].at)
      BY <1>2, <2>2 DEF IndInv, TypeOK, Shape, OneProcess, Live, SweepOK, Foreign, Held, Up, SweepRecord
    <3> QED BY <1>2, <2>2, <3>1 DEF IndInv, TypeOK, SweepRecord, RecordOrphan
  <2>3. ASSUME NEW o \in Owners, FromStoreRecord(o) PROVE SameRow
    <3>1. look[o].run \in Runs /\ ~Held(look[o].run)
      <4>1. look[o].run \in Runs /\ Foreign(o, look[o].run) /\ Live(o)
        BY <1>2, <2>3 DEF IndInv, Shape, LookOK, Live, FromStoreRecord
      <4> QED BY <1>2, <4>1 DEF IndInv, Shape, OneProcess, Live, Foreign, Held, Up
    <3> QED BY <1>2, <2>3, <3>1 DEF IndInv, TypeOK, FromStoreRecord, RecordOrphan
  <2>4. ASSUME NEW r \in Runs, RecordStarted(r) \/ SpawnCancelled(r) PROVE SameRow
    BY <1>2, <2>4 DEF IndInv, TypeOK, RecordStarted, SpawnCancelled, Inserted
  <2>5. ASSUME NEW r \in Runs, Persist(r) PROVE SameRow
    BY <1>2, <2>5 DEF IndInv, TypeOK, Persist, RecordOwned
  <2>6. ASSUME NEW o \in Owners, NEW r \in Runs, AcloseRecord(o, r) PROVE SameRow
    BY <1>2, <2>6, RunsAssumption DEF IndInv, TypeOK, Shape, RunOK, AcloseRecord, RecordOwned
  <2> QED BY <1>2, RowStep, <2>1, <2>2, <2>3, <2>4, <2>5, <2>6
<1>3. ASSUME IndInv, Next PROVE NotKilled
  <2>1. CASE UNCHANGED child
    BY <2>1 DEF Alive
  <2>2. ASSUME NEW o \in Owners, NEW r \in Runs, SweepKill(o, r) PROVE NotKilled
    BY <1>3, <2>2 DEF IndInv, TypeOK, Shape, OneProcess, Live, SweepOK, Foreign, Held, Up, Alive, SweepKill, KillRecorded
  <2>3. ASSUME NEW o \in Owners, FromStoreKill(o) PROVE NotKilled
    BY <1>3, <2>3 DEF IndInv, TypeOK, Shape, OneProcess, Live, LookOK, Foreign, Held, Up, Alive, FromStoreKill, KillRecorded
  <2>4. ASSUME NEW r \in Runs, ChildStarts(r) \/ PidWritten(r) \/ ChildExits(r) PROVE NotKilled
    BY <1>3, <2>4 DEF IndInv, TypeOK, Alive, ChildStarts, PidWritten, ChildExits
  <2>5. ASSUME NEW r \in Runs, DriveKilled(r) \/ DriveTimesOut(r) PROVE NotKilled
    BY <1>3, <2>5 DEF IndInv, TypeOK, Run, Alive, DriveKilled, DriveTimesOut, Stopped, Ends
  <2> QED BY <1>3, ChildStep, <2>1, <2>2, <2>3, <2>4, <2>5
<1>4. Spec => [][Spared]_vars
  <2>1. IndInv /\ [Next]_vars => [Spared]_vars
    BY <1>2, <1>3
  <2> QED BY <1>1, <2>1, InitInd, PTL DEF Spec
<1> QED BY <1>4 DEF LiveRunsAreSpared

-----------------------------------------------------------------------------
(* Agreement of the table, the children and the answers.  While only        *)
(* processes have failed, a running row has its driver or a dead owner, a   *)
(* recorded child has a running row until a sweep has killed it, and a      *)
(* serving process has nothing left to sweep and nothing to look up.        *)

Finished(r) == row[r].status \in {"completed", "failed"}

RunTrue(r) ==
    /\ mem[r].at = "lost" => proc[mem[r].by] = "dead"
    /\ row[r].status = "running" => mem[r].at \in {"inserted", "driving", "persisting", "lost"}
    /\ child[r] = "recorded" => mem[r].at \in {"driving", "lost"}
    /\ mem[r].by # None /\ sup[mem[r].by].at = "open" =>
          /\ \/ mem[r].at \in {"inserted", "driving", "persisting"}
             \/ mem[r].at = "lost" /\ child[r] = "recorded"
             => row[r].status = "running"
          /\ mem[r].at = "done" => Finished(r) /\ StoredOutcome(r) = mem[r].payload
    /\ \A x \in told[r] : Finished(r) /\ StoredOutcome(r) = x

SweepTrue(o) ==
    /\ \A r \in Runs \ Blocking :
          /\ Live(o) /\ row[r].status = "running" /\ row[r].owner # o
             /\ HostOf[row[r].owner] = HostOf[o]
                => proc[o] = "sweeping" /\ r \in sweep[o].todo \cup {sweep[o].at}
          /\ sweep[o].at = r => child[r] # "recorded"
    /\ look[o].step = "idle"

Agreement ==
    FaultFree => /\ \A r \in Runs \ Blocking : RunTrue(r)
                 /\ \A o \in Owners : SweepTrue(o)

AgreeInv == IndInv /\ Agreement

\* The store and the memory agree when nothing has run.
LEMMA InitAgreement == Init => AgreeInv
<1> SUFFICES ASSUME Init PROVE Agreement
  BY InitInd DEF AgreeInv
<1> QED BY RunsAssumption DEF Init, Agreement, RunTrue, SweepTrue, Live, Finished

(* Faults are only counted up, and a step that no fault precedes or makes   *)
(* is none of the steps a fault takes.                                      *)
LEMMA NoFault ==
    ASSUME TypeOK, [Next]_vars, FaultFree'
    PROVE  FaultFree
<1> SUFFICES ASSUME NEW f \in Fault \ {"crash"} PROVE faults[f] = 0
  BY DEF FaultFree
<1>1. faults'[f] = 0 /\ faults[f] \in Nat
  BY DEF FaultFree, TypeOK
<1>2. faults' = faults \/ \E g \in Fault : faults' = [faults EXCEPT ![g] = @ + 1]
  BY DEF Next, ProcessStep, RunStep, vars, Spend, Fault, Start, SweepRecord, SweepRaises, Serve,
         Crash, Exit, FromStoreRecord, FromStoreKill, Aclose, AcloseGathered, AcloseEnds,
         RecordStarted, RecordStartedRaises, SpawnCancelled, Drive, ChildStarts, PidWritten,
         ChildExits, DrainEnds, DriveKilled, DriveTimesOut, DrainRaises, Persist, PersistRaises,
         AwaitRun, KillTask, Spawn, TaskBlocking, SweepKill, FromStore, AcloseRecord
<1> QED BY <1>1, <1>2 DEF TypeOK

\* A step that takes a fault is not fault-free.
LEMMA SpendFaults ==
    ASSUME TypeOK, NEW f \in Fault \ {"crash"}, Spend(f)
    PROVE  ~FaultFree'
<1>1. faults'[f] = faults[f] + 1 /\ faults[f] \in Nat
  BY DEF TypeOK, Spend
<1> QED BY <1>1 DEF FaultFree

\* Without a fault, every step keeps the store and the memory in agreement.
LEMMA StepAgreement ==
    ASSUME AgreeInv, IndInv', [Next]_vars
    PROVE  Agreement'
<1> SUFFICES ASSUME FaultFree'
             PROVE  /\ \A q \in Runs \ Blocking : RunTrue(q)'
                    /\ \A p \in Owners : SweepTrue(p)'
  BY DEF Agreement
<1> DEFINE AllTrue == /\ \A q \in Runs \ Blocking : RunTrue(q)'
                      /\ \A p \in Owners : SweepTrue(p)'
<1>a. /\ TypeOK /\ Shape /\ FaultFree
      /\ \A q \in Runs \ Blocking : RunTrue(q)
      /\ \A p \in Owners : SweepTrue(p)
  BY NoFault DEF AgreeInv, IndInv, Agreement
<1>1. ASSUME NEW o \in Owners, Start(o) PROVE AllTrue
  <2>1. \A q \in Runs \ Blocking : RunTrue(q)'
    BY <1>a, <1>1, RunsAssumption DEF TypeOK, Shape, OneProcess, Live, RunOK, SweepOK, Foreign, Run, Row,
       Held, Up, RunTrue, SweepTrue, Finished, StoredOutcome, Start, ClassifyOrphan
  <2>2. \A p \in Owners : SweepTrue(p)'
    BY <1>a, <1>1, RunsAssumption DEF TypeOK, Shape, OneProcess, Live, RunOK, SweepOK, Foreign, Run, Row,
       Held, Up, RunTrue, SweepTrue, Start, ClassifyOrphan
  <2> QED BY <2>1, <2>2
<1>2. ASSUME NEW o \in Owners, SweepRecord(o) PROVE AllTrue
  <2>1. \A q \in Runs \ Blocking : RunTrue(q)'
    <3> DEFINE s == sweep[o].at
    <3>1. s \in Runs /\ proc[o] = "sweeping" /\ row' = [row EXCEPT ![s].status = "failed"]
      BY <1>a, <1>2 DEF TypeOK, SweepRecord, RecordOrphan
    <3>2. UNCHANGED <<proc, sup, mem, child, told>>
      BY <1>2 DEF SweepRecord
    <3>3. ASSUME s \notin Blocking
          PROVE  mem[s].at = "lost" /\ row[s].status = "running" /\ child[s] # "recorded"
      <4>1. Foreign(o, s) /\ row[s].status = "running" /\ child[s] # "recorded"
        BY <1>a, <3>1, <3>3 DEF Shape, SweepOK, SweepTrue
      <4>2. mem[s].by \in Owners /\ proc[mem[s].by] = "dead" /\ mem[s].by # None
        BY <1>a, <3>1, <3>3, <4>1, RunsAssumption DEF Foreign, Shape, OneProcess, Live, RunOK
      <4> QED BY <1>a, <3>1, <4>1, <4>2 DEF Shape, RunOK
    <3> SUFFICES ASSUME NEW q \in Runs \ Blocking PROVE RunTrue(q)'
      OBVIOUS
    <3>4. CASE q = s
      <4>1. told'[q] = {}
        BY <1>a, <3>2, <3>3, <3>4 DEF RunTrue, Finished, TypeOK
      <4>2. row'[q].status = "failed"
        BY <1>a, <3>1, <3>4 DEF TypeOK, Row
      <4> QED BY <1>a, <3>2, <3>3, <3>4, <4>1, <4>2 DEF RunTrue
    <3>5. CASE q # s
      <4>1. row'[q] = row[q]
        BY <1>a, <3>1, <3>5 DEF TypeOK
      <4> QED BY <1>a, <3>2, <4>1 DEF RunTrue, Finished, StoredOutcome
    <3> QED BY <3>4, <3>5
  <2>2. \A p \in Owners : SweepTrue(p)'
    BY <1>a, <1>2, RunsAssumption DEF TypeOK, Shape, OneProcess, Live, RunOK, SweepOK, Foreign, Run, Row,
       Held, Up, RunTrue, SweepTrue, SweepRecord, RecordOrphan
  <2> QED BY <2>1, <2>2
<1>3. ASSUME NEW o \in Owners, Serve(o) PROVE AllTrue
  <2>1. \A q \in Runs \ Blocking : RunTrue(q)'
    BY <1>a, <1>3, RunsAssumption DEF TypeOK, Shape, OneProcess, Live, RunOK, SweepOK, Foreign, Run, Row,
       Held, Up, RunTrue, SweepTrue, Finished, StoredOutcome, Serve
  <2>2. \A p \in Owners : SweepTrue(p)'
    BY <1>a, <1>3, RunsAssumption DEF TypeOK, Shape, OneProcess, Live, RunOK, SweepOK, Foreign, Run, Row,
       Held, Up, RunTrue, SweepTrue, Serve
  <2> QED BY <2>1, <2>2
<1>4. ASSUME NEW o \in Owners, Crash(o) PROVE AllTrue
  <2>1. \A q \in Runs \ Blocking : RunTrue(q)'
    BY <1>a, <1>4, RunsAssumption DEF TypeOK, Shape, OneProcess, Live, RunOK, SweepOK, Foreign, Run, Row,
       Held, Up, RunTrue, SweepTrue, Finished, StoredOutcome, Crash, Dies
  <2>2. \A p \in Owners : SweepTrue(p)'
    BY <1>a, <1>4, RunsAssumption DEF TypeOK, Shape, OneProcess, Live, RunOK, SweepOK, Foreign, Run, Row,
       Held, Up, RunTrue, SweepTrue, Crash, Dies
  <2> QED BY <2>1, <2>2
<1>5. ASSUME NEW o \in Owners, Exit(o) PROVE AllTrue
  <2>1. \A q \in Runs \ Blocking : RunTrue(q)'
    BY <1>a, <1>5, RunsAssumption DEF TypeOK, Shape, OneProcess, Live, RunOK, SweepOK, Foreign, Run, Row,
       Held, Up, RunTrue, SweepTrue, Finished, StoredOutcome, Exit, Dies
  <2>2. \A p \in Owners : SweepTrue(p)'
    BY <1>a, <1>5, RunsAssumption DEF TypeOK, Shape, OneProcess, Live, RunOK, SweepOK, Foreign, Run, Row,
       Held, Up, RunTrue, SweepTrue, Exit, Dies
  <2> QED BY <2>1, <2>2
<1>6. ASSUME NEW o \in Owners, Aclose(o) PROVE AllTrue
  <2>1. \A q \in Runs \ Blocking : RunTrue(q)'
    BY <1>a, <1>6, RunsAssumption DEF TypeOK, Shape, OneProcess, Live, RunOK, SweepOK, Foreign, Run, Row,
       Held, Up, RunTrue, SweepTrue, Finished, StoredOutcome, Aclose, RunsOf, Working
  <2>2. \A p \in Owners : SweepTrue(p)'
    BY <1>a, <1>6, RunsAssumption DEF TypeOK, Shape, OneProcess, Live, RunOK, SweepOK, Foreign, Run, Row,
       Held, Up, RunTrue, SweepTrue, Aclose, RunsOf, Working
  <2> QED BY <2>1, <2>2
<1>7. ASSUME NEW o \in Owners, AcloseGathered(o) PROVE AllTrue
  <2>1. \A q \in Runs \ Blocking : RunTrue(q)'
    BY <1>a, <1>7, RunsAssumption DEF TypeOK, Shape, OneProcess, Live, RunOK, SweepOK, Foreign, Run, Row,
       Held, Up, RunTrue, SweepTrue, Finished, StoredOutcome, AcloseGathered, RunsOf
  <2>2. \A p \in Owners : SweepTrue(p)'
    BY <1>a, <1>7, RunsAssumption DEF TypeOK, Shape, OneProcess, Live, RunOK, SweepOK, Foreign, Run, Row,
       Held, Up, RunTrue, SweepTrue, AcloseGathered, RunsOf
  <2> QED BY <2>1, <2>2
<1>8. ASSUME NEW o \in Owners, AcloseEnds(o) PROVE AllTrue
  <2>1. \A q \in Runs \ Blocking : RunTrue(q)'
    BY <1>a, <1>8, RunsAssumption DEF TypeOK, Shape, OneProcess, Live, RunOK, SweepOK, Foreign, Run, Row,
       Held, Up, RunTrue, SweepTrue, Finished, StoredOutcome, AcloseEnds
  <2>2. \A p \in Owners : SweepTrue(p)'
    BY <1>a, <1>8, RunsAssumption DEF TypeOK, Shape, OneProcess, Live, RunOK, SweepOK, Foreign, Run, Row,
       Held, Up, RunTrue, SweepTrue, AcloseEnds
  <2> QED BY <2>1, <2>2
<1>9. ASSUME NEW r \in Runs, RecordStarted(r) PROVE AllTrue
  <2>1. \A q \in Runs \ Blocking : RunTrue(q)'
    BY <1>a, <1>9, RunsAssumption DEF TypeOK, Shape, OneProcess, Live, RunOK, SweepOK, Foreign, Run, Row,
       Held, Up, RunTrue, SweepTrue, Finished, StoredOutcome, RecordStarted, Inserted, At
  <2>2. \A p \in Owners : SweepTrue(p)'
    BY <1>a, <1>9, RunsAssumption DEF TypeOK, Shape, OneProcess, Live, RunOK, SweepOK, Foreign, Run, Row,
       Held, Up, RunTrue, SweepTrue, RecordStarted, Inserted, At
  <2> QED BY <2>1, <2>2
<1>10. ASSUME NEW r \in Runs, Drive(r) PROVE AllTrue
  <2>1. \A q \in Runs \ Blocking : RunTrue(q)'
    BY <1>a, <1>10, RunsAssumption DEF TypeOK, Shape, OneProcess, Live, RunOK, SweepOK, Foreign, Run, Row,
       Held, Up, RunTrue, SweepTrue, Finished, StoredOutcome, Drive, At
  <2>2. \A p \in Owners : SweepTrue(p)'
    BY <1>a, <1>10, RunsAssumption DEF TypeOK, Shape, OneProcess, Live, RunOK, SweepOK, Foreign, Run, Row,
       Held, Up, RunTrue, SweepTrue, Drive, At
  <2> QED BY <2>1, <2>2
<1>11. ASSUME NEW r \in Runs, ChildStarts(r) PROVE AllTrue
  <2>1. \A q \in Runs \ Blocking : RunTrue(q)'
    BY <1>a, <1>11, RunsAssumption DEF TypeOK, Shape, OneProcess, Live, RunOK, SweepOK, Foreign, Run, Row,
       Held, Up, RunTrue, SweepTrue, Finished, StoredOutcome, ChildStarts
  <2>2. \A p \in Owners : SweepTrue(p)'
    BY <1>a, <1>11, RunsAssumption DEF TypeOK, Shape, OneProcess, Live, RunOK, SweepOK, Foreign, Run, Row,
       Held, Up, RunTrue, SweepTrue, ChildStarts
  <2> QED BY <2>1, <2>2
<1>12. ASSUME NEW r \in Runs, PidWritten(r) PROVE AllTrue
  <2>1. \A q \in Runs \ Blocking : RunTrue(q)'
    BY <1>a, <1>12, RunsAssumption DEF TypeOK, Shape, OneProcess, Live, RunOK, SweepOK, Foreign, Run, Row,
       Held, Up, RunTrue, SweepTrue, Finished, StoredOutcome, PidWritten
  <2>2. \A p \in Owners : SweepTrue(p)'
    BY <1>a, <1>12, RunsAssumption DEF TypeOK, Shape, OneProcess, Live, RunOK, SweepOK, Foreign, Run, Row,
       Held, Up, RunTrue, SweepTrue, PidWritten
  <2> QED BY <2>1, <2>2
<1>13. ASSUME NEW r \in Runs, ChildExits(r) PROVE AllTrue
  <2>1. \A q \in Runs \ Blocking : RunTrue(q)'
    BY <1>a, <1>13, RunsAssumption DEF TypeOK, Shape, OneProcess, Live, RunOK, SweepOK, Foreign, Run, Row,
       Held, Up, RunTrue, SweepTrue, Finished, StoredOutcome, ChildExits, Alive
  <2>2. \A p \in Owners : SweepTrue(p)'
    BY <1>a, <1>13, RunsAssumption DEF TypeOK, Shape, OneProcess, Live, RunOK, SweepOK, Foreign, Run, Row,
       Held, Up, RunTrue, SweepTrue, ChildExits, Alive
  <2> QED BY <2>1, <2>2
<1>14. ASSUME NEW r \in Runs, DrainEnds(r) PROVE AllTrue
  <2>1. \A q \in Runs \ Blocking : RunTrue(q)'
    BY <1>a, <1>14, RunsAssumption DEF TypeOK, Shape, OneProcess, Live, RunOK, SweepOK, Foreign, Run, Row,
       Held, Up, RunTrue, SweepTrue, Finished, StoredOutcome, DrainEnds, Ends, Outcome
  <2>2. \A p \in Owners : SweepTrue(p)'
    BY <1>a, <1>14, RunsAssumption DEF TypeOK, Shape, OneProcess, Live, RunOK, SweepOK, Foreign, Run, Row,
       Held, Up, RunTrue, SweepTrue, DrainEnds, Ends, Outcome
  <2> QED BY <2>1, <2>2
<1>15. ASSUME NEW r \in Runs, DriveKilled(r) PROVE AllTrue
  <2>1. \A q \in Runs \ Blocking : RunTrue(q)'
    BY <1>a, <1>15, RunsAssumption DEF TypeOK, Shape, OneProcess, Live, RunOK, SweepOK, Foreign, Run, Row,
       Held, Up, RunTrue, SweepTrue, Finished, StoredOutcome, DriveKilled, Stopped, Alive, Ends
  <2>2. \A p \in Owners : SweepTrue(p)'
    BY <1>a, <1>15, RunsAssumption DEF TypeOK, Shape, OneProcess, Live, RunOK, SweepOK, Foreign, Run, Row,
       Held, Up, RunTrue, SweepTrue, DriveKilled, Stopped, Alive, Ends
  <2> QED BY <2>1, <2>2
<1>16. ASSUME NEW r \in Runs, DriveTimesOut(r) PROVE AllTrue
  <2>1. \A q \in Runs \ Blocking : RunTrue(q)'
    BY <1>a, <1>16, RunsAssumption DEF TypeOK, Shape, OneProcess, Live, RunOK, SweepOK, Foreign, Run, Row,
       Held, Up, RunTrue, SweepTrue, Finished, StoredOutcome, DriveTimesOut, Stopped, Alive, Ends
  <2>2. \A p \in Owners : SweepTrue(p)'
    BY <1>a, <1>16, RunsAssumption DEF TypeOK, Shape, OneProcess, Live, RunOK, SweepOK, Foreign, Run, Row,
       Held, Up, RunTrue, SweepTrue, DriveTimesOut, Stopped, Alive, Ends
  <2> QED BY <2>1, <2>2
<1>17. ASSUME NEW r \in Runs, Persist(r) PROVE AllTrue
  <2> DEFINE x == mem[r].payload
             o == mem[r].by
  <2>1. /\ UNCHANGED <<proc, sweep, sup, look, child, told>> /\ proc[o] = "up" /\ o # None
        /\ mem[r].at = "persisting" /\ mem' = [mem EXCEPT ![r].at = "done"]
        /\ x \in Outcome /\ o \in Owners
    BY <1>a, <1>17 DEF Persist, At, Held, Up, Shape, RunOK, TypeOK, Run
  <2>2. mem'[r] = [mem[r] EXCEPT !.at = "done"] /\ \A q \in Runs \ {r} : mem'[q] = mem[q]
    BY <1>a, <2>1 DEF TypeOK
  <2>3. mem'[r].at = "done" /\ mem'[r].by = o /\ mem'[r].payload = x
    BY <1>a, <2>2 DEF TypeOK, Run
  <2>4. \A q \in Runs \ {r} : row'[q] = row[q]
    BY <1>a, <1>17 DEF Persist, RecordBlocking, RecordOwned, TypeOK
  <2>5. ASSUME r \notin Blocking, row[r].status = "running"
        PROVE  Finished(r)' /\ StoredOutcome(r)' = x
    <3>1. row[r].owner = o
      BY <1>a, <2>5 DEF Shape, RunOK
    <3>2. row' = [row EXCEPT ![r].status = IF x = "ok" THEN "completed" ELSE "failed", ![r].result = x]
      BY <1>17, <2>5, <3>1 DEF Persist, RecordOwned
    <3>3. row'[r].status \in {"completed", "failed"} /\ row'[r].result = x
      BY <1>a, <3>2 DEF TypeOK, Row
    <3> QED BY <2>1, <3>3, OutcomeAssumption DEF Finished, StoredOutcome, Outcome
  <2>6. ASSUME r \notin Blocking, row[r].status # "running"
        PROVE  row'[r] = row[r]
    BY <1>17, <2>6 DEF Persist, RecordOwned
  <2>7. ASSUME r \notin Blocking PROVE row'[r].status # "running" /\ (row[r].status # "running" => row'[r] = row[r])
    BY <2>5, <2>6, <2>7 DEF Finished
  <2>8. \A q \in Runs \ Blocking : RunTrue(q)'
    <3> SUFFICES ASSUME NEW q \in Runs \ Blocking PROVE RunTrue(q)'
      OBVIOUS
    <3>1. CASE q # r
      BY <1>a, <2>1, <2>2, <2>4, <3>1 DEF RunTrue, Finished, StoredOutcome
    <3>2. CASE q = r /\ row[r].status = "running"
      <4>1. told[r] = {}
        BY <1>a, <3>2 DEF RunTrue, Finished, TypeOK
      <4>2. child[r] # "recorded"
        BY <1>a, <2>1, <3>2 DEF RunTrue
      <4> QED BY <2>1, <2>3, <2>5, <2>7, <3>2, <4>1, <4>2 DEF RunTrue
    <3>3. CASE q = r /\ row[r].status # "running"
      <4>1. row'[r] = row[r] /\ sup[o].at # "open" /\ child[r] # "recorded"
        BY <1>a, <2>1, <2>6, <3>3 DEF RunTrue
      <4> QED BY <1>a, <2>1, <2>3, <3>3, <4>1 DEF RunTrue, Finished, StoredOutcome
    <3> QED BY <3>1, <3>2, <3>3
  <2>9. \A p \in Owners : SweepTrue(p)'
    <3>1. \A q \in Runs \ Blocking : row'[q].status = "running" => row'[q] = row[q]
      BY <2>4, <2>7
    <3> QED BY <1>a, <2>1, <3>1 DEF SweepTrue, Live
  <2> QED BY <2>8, <2>9
<1>18. ASSUME NEW r \in Runs, AwaitRun(r) PROVE AllTrue
  <2>1. \A q \in Runs \ Blocking : RunTrue(q)'
    BY <1>a, <1>18, RunsAssumption DEF TypeOK, Shape, OneProcess, Live, RunOK, SweepOK, Foreign, Run, Row,
       Held, Up, RunTrue, SweepTrue, Finished, StoredOutcome, AwaitRun, Tell
  <2>2. \A p \in Owners : SweepTrue(p)'
    BY <1>a, <1>18, RunsAssumption DEF TypeOK, Shape, OneProcess, Live, RunOK, SweepOK, Foreign, Run, Row,
       Held, Up, RunTrue, SweepTrue, AwaitRun, Tell
  <2> QED BY <2>1, <2>2
<1>19. ASSUME NEW r \in Runs, KillTask(r) PROVE AllTrue
  <2>1. \A q \in Runs \ Blocking : RunTrue(q)'
    BY <1>a, <1>19, RunsAssumption DEF TypeOK, Shape, OneProcess, Live, RunOK, SweepOK, Foreign, Run, Row,
       Held, Up, RunTrue, SweepTrue, Finished, StoredOutcome, KillTask
  <2>2. \A p \in Owners : SweepTrue(p)'
    BY <1>a, <1>19, RunsAssumption DEF TypeOK, Shape, OneProcess, Live, RunOK, SweepOK, Foreign, Run, Row,
       Held, Up, RunTrue, SweepTrue, KillTask
  <2> QED BY <2>1, <2>2
<1>20. ASSUME NEW o \in Owners, NEW r \in Runs, Spawn(o, r) PROVE AllTrue
  <2>1. \A q \in Runs \ Blocking : RunTrue(q)'
    BY <1>a, <1>20, RunsAssumption DEF TypeOK, Shape, OneProcess, Live, RunOK, SweepOK, Foreign, Run, Row,
       Held, Up, RunTrue, SweepTrue, Finished, StoredOutcome, Spawn
  <2>2. \A p \in Owners : SweepTrue(p)'
    BY <1>a, <1>20, RunsAssumption DEF TypeOK, Shape, OneProcess, Live, RunOK, SweepOK, Foreign, Run, Row,
       Held, Up, RunTrue, SweepTrue, Spawn
  <2> QED BY <2>1, <2>2
<1>21. ASSUME NEW o \in Owners, NEW r \in Runs, TaskBlocking(o, r) PROVE AllTrue
  <2>1. \A q \in Runs \ Blocking : RunTrue(q)'
    BY <1>a, <1>21, RunsAssumption DEF TypeOK, Shape, OneProcess, Live, RunOK, SweepOK, Foreign, Run, Row,
       Held, Up, RunTrue, SweepTrue, Finished, StoredOutcome, TaskBlocking
  <2>2. \A p \in Owners : SweepTrue(p)'
    BY <1>a, <1>21, RunsAssumption DEF TypeOK, Shape, OneProcess, Live, RunOK, SweepOK, Foreign, Run, Row,
       Held, Up, RunTrue, SweepTrue, TaskBlocking
  <2> QED BY <2>1, <2>2
<1>22. ASSUME NEW o \in Owners, NEW r \in Runs, SweepKill(o, r) PROVE AllTrue
  <2>1. \A q \in Runs \ Blocking : RunTrue(q)'
    BY <1>a, <1>22, RunsAssumption DEF TypeOK, Shape, OneProcess, Live, RunOK, SweepOK, Foreign, Run, Row,
       Held, Up, RunTrue, SweepTrue, Finished, StoredOutcome, SweepKill, KillRecorded
  <2>2. \A p \in Owners : SweepTrue(p)'
    BY <1>a, <1>22, RunsAssumption DEF TypeOK, Shape, OneProcess, Live, RunOK, SweepOK, Foreign, Run, Row,
       Held, Up, RunTrue, SweepTrue, SweepKill, KillRecorded
  <2> QED BY <2>1, <2>2
<1>23. ASSUME NEW o \in Owners, NEW r \in Runs, FromStore(o, r) PROVE AllTrue
  <2>1. \A q \in Runs \ Blocking : RunTrue(q)'
    <3>1. UNCHANGED <<proc, sup, mem, row, child>> /\ r \in Runs \ Blocking /\ Up(o) /\ row[r].status # "none"
      BY <1>23 DEF FromStore
    <3>2. ~(row[r].status = "running" /\ ClassifyOrphan(row[r].owner, o))
      <4> SUFFICES ASSUME row[r].status = "running", ClassifyOrphan(row[r].owner, o) PROVE FALSE
        OBVIOUS
      <4>1. row[r].owner = mem[r].by /\ mem[r].by # None
        BY <1>a, <3>1 DEF Shape, RunOK, RunTrue
      <4> QED BY <1>a, <3>1, <4>1, RunsAssumption DEF SweepTrue, ClassifyOrphan, Live, Up
    <3>3. told' = [told EXCEPT ![r] = @ \cup {StoredOutcome(r)}] /\ row[r].status # "running"
      BY <1>23, <3>2 DEF FromStore, Tell
    <3>4. Finished(r)
      BY <1>a, <3>1, <3>3 DEF TypeOK, Row, Status, Finished
    <3>5. \A q \in Runs \ Blocking : \A x \in told'[q] : Finished(q) /\ StoredOutcome(q) = x
      BY <1>a, <3>3, <3>4 DEF TypeOK, RunTrue
    <3> QED BY <1>a, <3>1, <3>5 DEF RunTrue, Finished, StoredOutcome
  <2>2. \A p \in Owners : SweepTrue(p)'
    BY <1>a, <1>23, RunsAssumption DEF TypeOK, Shape, OneProcess, Live, RunOK, SweepOK, Foreign, Run, Row,
       Held, Up, RunTrue, SweepTrue, FromStore, Tell, ClassifyOrphan
  <2> QED BY <2>1, <2>2
<1>24. ASSUME NEW o \in Owners, NEW r \in Runs, AcloseRecord(o, r) PROVE AllTrue
  <2>1. \A q \in Runs \ Blocking : RunTrue(q)'
    BY <1>a, <1>24, RunsAssumption DEF TypeOK, Shape, OneProcess, Live, RunOK, SweepOK, Foreign, Run, Row,
       Held, Up, RunTrue, SweepTrue, Finished, StoredOutcome, AcloseRecord, RecordOwned
  <2>2. \A p \in Owners : SweepTrue(p)'
    BY <1>a, <1>24, RunsAssumption DEF TypeOK, Shape, OneProcess, Live, RunOK, SweepOK, Foreign, Run, Row,
       Held, Up, RunTrue, SweepTrue, AcloseRecord, RecordOwned
  <2> QED BY <2>1, <2>2
<1>25. CASE UNCHANGED vars
  BY <1>a, <1>25 DEF vars, RunTrue, SweepTrue, Live, Finished, StoredOutcome
<1>26. ASSUME NEW r \in Runs, RecordStartedRaises(r) \/ SpawnCancelled(r) \/ DrainRaises(r) \/ PersistRaises(r)
       PROVE FALSE
  BY <1>a, <1>26, SpendFaults DEF Fault, RecordStartedRaises, SpawnCancelled, DrainRaises, PersistRaises
<1>27. ASSUME NEW o \in Owners, SweepRaises(o) \/ FromStoreRecord(o) \/ FromStoreKill(o)
       PROVE FALSE
  BY <1>a, <1>27, SpendFaults DEF Fault, SweepTrue, SweepRaises, FromStoreRecord, FromStoreKill
<1>28. ASSUME NEW o \in Owners, ProcessStep(o) PROVE AllTrue
  BY <1>28, <1>1, <1>2, <1>3, <1>4, <1>5, <1>6, <1>7, <1>8, <1>27 DEF ProcessStep
<1>29. ASSUME NEW r \in Runs, RunStep(r) PROVE AllTrue
  BY <1>29, <1>9, <1>10, <1>11, <1>12, <1>13, <1>14, <1>15, <1>16, <1>17, <1>18, <1>19, <1>26 DEF RunStep
<1> QED BY <1>20, <1>21, <1>22, <1>23, <1>24, <1>25, <1>28, <1>29 DEF Next

(* With one process per host, whichever processes die and wherever: a       *)
(* running row of a live process has a driver, a serving process has left   *)
(* no running row and no recorded child of a process that died with the     *)
(* session open, and await_task has reported what the table says.           *)
THEOREM RunsSafety == ASSUME Neighbours = FALSE PROVE Spec => []RunsSafe
<1>1. AgreeInv /\ [Next]_vars => AgreeInv'
  BY StepInd, StepAgreement DEF AgreeInv
<1>2. ASSUME AgreeInv PROVE RunsSafe
  <2> SUFFICES ASSUME FaultFree PROVE RunsSafe
    BY DEF RunsSafe, RowHasDriver, SweptClean, NoStrayChild, AwaitIsDurable
  <2>1. /\ TypeOK /\ Shape
        /\ \A r \in Runs \ Blocking : RunTrue(r)
        /\ \A o \in Owners : SweepTrue(o)
    BY <1>2 DEF AgreeInv, IndInv, Agreement
  <2>2. ASSUME NEW r \in Runs \ Blocking, row[r].status = "running"
        PROVE  row[r].owner = mem[r].by /\ mem[r].by # None /\ mem[r].by \in Owners
    BY <2>1, <2>2 DEF Shape, RunOK, RunTrue, TypeOK, Run
  <2>3. RowHasDriver
    BY <2>1, <2>2 DEF RowHasDriver, RunTrue, Up
  <2>4. SweptClean
    BY <2>1, RunsAssumption DEF SweptClean, SweepTrue, Live, Up
  <2>5. NoStrayChild
    <3> SUFFICES ASSUME NEW o \in Owners, NEW r \in Runs \ Blocking,
                        Up(o), child[r] = "recorded", mem[r].by # o,
                        HostOf[mem[r].by] = HostOf[o], sup[mem[r].by].at = "open"
                 PROVE  FALSE
      BY DEF NoStrayChild
    <3>1. mem[r].at \in {"driving", "lost"} /\ mem[r].by # None
      BY <2>1 DEF RunTrue, Shape, RunOK
    <3>2. row[r].status = "running"
      BY <2>1, <3>1 DEF RunTrue
    <3> QED BY <2>1, <2>2, <3>2 DEF SweepTrue, Live, Up
  <2>6. AwaitIsDurable
    BY <2>1 DEF AwaitIsDurable, RunTrue, Finished
  <2> QED BY <2>3, <2>4, <2>5, <2>6 DEF RunsSafe
<1> QED BY <1>1, <1>2, InitAgreement, PTL DEF Spec

-----------------------------------------------------------------------------
(* The cap.  A child is at work only while its run is driven, unless its    *)
(* output could not be read, and a run that is not done holds a slot.       *)

Slots(o) == {r \in RunsOf(o) : mem[r].at # "done"}

SlotsOK(o) == IsFiniteSet(Slots(o)) /\ Cardinality(Slots(o)) <= MaxBackground

ChildHasSlot ==
    faults["drain"] = 0 => \A r \in Runs : Alive(r) => mem[r].at \in {"driving", "lost"}

CapInv == IndInv /\ ChildHasSlot /\ \A o \in Owners : SlotsOK(o)

\* A step that takes no slot of o keeps its cap.
LEMMA FewerSlots ==
    ASSUME NEW o \in Owners, SlotsOK(o), Slots(o)' \subseteq Slots(o)
    PROVE  SlotsOK(o)'
<1>1. /\ IsFiniteSet(Slots(o)') /\ Cardinality(Slots(o)') <= Cardinality(Slots(o))
      /\ Cardinality(Slots(o)') \in Nat /\ Cardinality(Slots(o)) \in Nat
  BY FS_Subset, FS_CardinalityType DEF SlotsOK
<1> QED BY <1>1, RunsAssumption DEF SlotsOK

\* Nobody has a slot at the start.
LEMMA InitCap == Init => CapInv
<1> SUFFICES ASSUME Init PROVE CapInv
  OBVIOUS
<1>1. ChildHasSlot
  BY DEF Init, ChildHasSlot, Alive
<1>2. \A o \in Owners : Slots(o) = {}
  BY RunsAssumption DEF Init, Slots, RunsOf
<1>3. IsFiniteSet({}) /\ Cardinality({}) = 0
  BY FS_EmptySet
<1> QED BY <1>1, <1>2, <1>3, InitInd, RunsAssumption DEF CapInv, SlotsOK

(* Only spawn takes a slot, and a run that is done stays done.              *)
LEMMA StepSlots ==
    ASSUME CapInv, [Next]_vars, NEW o \in Owners
    PROVE  SlotsOK(o)'
<1>0. TypeOK /\ SlotsOK(o) /\ Shape
  BY DEF CapInv, IndInv
<1>1. ASSUME NEW p \in Owners, NEW r \in Runs, Spawn(p, r) PROVE SlotsOK(o)'
  <2>1. mem' = [mem EXCEPT ![r].at = "starting", ![r].by = p] /\ RunningCount(p) < MaxBackground
    BY <1>1 DEF Spawn
  <2>2. CASE p # o
    <3>1. Slots(o)' \subseteq Slots(o)
      BY <1>0, <1>1, <2>1, <2>2 DEF TypeOK, Slots, RunsOf, Run
    <3> QED BY <1>0, <3>1, FewerSlots
  <2>3. CASE p = o
    <3>1. Slots(o)' \subseteq Slots(o) \cup {r}
      BY <1>0, <2>1 DEF TypeOK, Slots, RunsOf
    <3>2. IsFiniteSet(Slots(o)) /\ Cardinality(Slots(o)) < MaxBackground
      BY <1>0, <2>1, <2>3 DEF SlotsOK, RunningCount, Slots
    <3>3. /\ IsFiniteSet(Slots(o) \cup {r}) /\ Cardinality(Slots(o)) \in Nat
          /\ Cardinality(Slots(o) \cup {r}) <= Cardinality(Slots(o)) + 1
      <4>1. IsFiniteSet(Slots(o) \cup {r}) /\ Cardinality(Slots(o)) \in Nat
        BY <3>2, FS_AddElement, FS_CardinalityType
      <4>2. Cardinality(Slots(o) \cup {r})
              = IF r \in Slots(o) THEN Cardinality(Slots(o)) ELSE Cardinality(Slots(o)) + 1
        BY <3>2, FS_AddElement
      <4> QED BY <4>1, <4>2
    <3>4. /\ IsFiniteSet(Slots(o)') /\ Cardinality(Slots(o)') <= Cardinality(Slots(o) \cup {r})
          /\ Cardinality(Slots(o)') \in Nat /\ Cardinality(Slots(o) \cup {r}) \in Nat
      BY <3>1, <3>3, FS_Subset, FS_CardinalityType
    <3> QED BY <3>2, <3>3, <3>4, RunsAssumption DEF SlotsOK
  <2> QED BY <2>2, <2>3
<1>2. ASSUME \A r \in Runs \ Blocking : /\ mem'[r].by = mem[r].by
                                        /\ mem[r].at = "lost" => mem'[r].at = "lost"
                                        /\ mem[r].at = "done" => mem'[r].at \in {"done", "lost"}
      PROVE  SlotsOK(o)'
  <2>1. Slots(o)' \subseteq Slots(o)
    BY <1>2 DEF Slots, RunsOf
  <2> QED BY <1>0, <2>1, FewerSlots
<1>3. ASSUME NEW p \in Owners, ProcessStep(p) PROVE SlotsOK(o)'
  <2>1. \A r \in Runs : mem'[r] = mem[r] \/ mem'[r] = [mem[r] EXCEPT !.at = "lost"]
                        \/ mem'[r] = [mem[r] EXCEPT !.kill = TRUE]
    BY <1>0, <1>3 DEF ProcessStep, Start, SweepRecord, SweepRaises, Serve, Crash, Exit, Dies, FromStoreRecord,
       FromStoreKill, Aclose, AcloseGathered, AcloseEnds, TypeOK
  <2>2. \A r \in Runs : mem[r] \in Run
    BY <1>0 DEF TypeOK
  <2> QED BY <1>2, <2>1, <2>2 DEF Run
<1>4. ASSUME NEW r \in Runs, RunStep(r) PROVE SlotsOK(o)'
  <2>1. \A q \in Runs \ {r} : mem'[q] = mem[q]
    BY <1>0, <1>4 DEF TypeOK, RunStep, RecordStarted, RecordStartedRaises, SpawnCancelled, Drive, ChildStarts,
       PidWritten, ChildExits, DrainEnds, DriveKilled, DriveTimesOut, DrainRaises, Persist, PersistRaises,
       AwaitRun, KillTask, At, Ends
  <2>2. mem'[r].by = mem[r].by /\ (mem[r].at \in {"done", "lost"} => mem'[r].at = mem[r].at)
    BY <1>0, <1>4 DEF TypeOK, Run, RunStep, RecordStarted, RecordStartedRaises, SpawnCancelled, Drive, ChildStarts,
       PidWritten, ChildExits, DrainEnds, DriveKilled, DriveTimesOut, DrainRaises, Persist, PersistRaises,
       AwaitRun, KillTask, At, Ends, Held, Working
  <2> QED BY <1>2, <2>1, <2>2
<1>5. ASSUME NEW p \in Owners, NEW r \in Runs, TaskBlocking(p, r) PROVE SlotsOK(o)'
  <2>1. \A q \in Runs \ Blocking : mem'[q] = mem[q]
    BY <1>0, <1>5 DEF TypeOK, TaskBlocking
  <2> QED BY <1>2, <2>1
<1>6. ASSUME UNCHANGED mem PROVE SlotsOK(o)'
  BY <1>2, <1>6
<1> QED BY <1>1, <1>3, <1>4, <1>5, <1>6 DEF Next, vars, SweepKill, FromStore, AcloseRecord

\* Every step leaves a live child with its slot.
LEMMA StepChildren ==
    ASSUME CapInv, [Next]_vars
    PROVE  ChildHasSlot'
<1> SUFFICES ASSUME faults'["drain"] = 0, NEW q \in Runs, Alive(q)'
             PROVE  mem'[q].at \in {"driving", "lost"}
  BY DEF ChildHasSlot
<1>1. TypeOK
  BY DEF CapInv, IndInv
<1>2. faults["drain"] = 0
  <2>1. faults' = faults \/ \E g \in Fault : faults' = [faults EXCEPT ![g] = @ + 1]
    BY DEF Next, ProcessStep, RunStep, vars, Spend, Fault, Start, SweepRecord, SweepRaises, Serve,
           Crash, Exit, FromStoreRecord, FromStoreKill, Aclose, AcloseGathered, AcloseEnds,
           RecordStarted, RecordStartedRaises, SpawnCancelled, Drive, ChildStarts, PidWritten,
           ChildExits, DrainEnds, DriveKilled, DriveTimesOut, DrainRaises, Persist, PersistRaises,
           AwaitRun, KillTask, Spawn, TaskBlocking, SweepKill, FromStore, AcloseRecord
  <2>2. "drain" \in Fault /\ faults["drain"] \in Nat
    BY <1>1 DEF TypeOK, Fault
  <2> QED BY <1>1, <2>1, <2>2 DEF TypeOK
<1>3. Alive(q) => mem[q].at \in {"driving", "lost"}
  BY <1>2 DEF CapInv, ChildHasSlot
<1>4. ASSUME NEW r \in Runs, ChildStarts(r) PROVE mem'[q].at \in {"driving", "lost"}
  BY <1>1, <1>3, <1>4 DEF TypeOK, ChildStarts, Alive
<1>5. ASSUME NEW r \in Runs, RunStep(r), ~ChildStarts(r) PROVE mem'[q].at \in {"driving", "lost"}
  <2>1. Alive(q)
    BY <1>1, <1>5 DEF TypeOK, RunStep, RecordStarted, RecordStartedRaises, SpawnCancelled, Drive,
       PidWritten, ChildExits, DrainEnds, DriveKilled, DriveTimesOut, DrainRaises, Persist, PersistRaises,
       AwaitRun, KillTask, Stopped, Alive
  <2>2. CASE r # q
    <3>1. mem'[q] = mem[q]
      BY <1>1, <1>5, <2>2 DEF TypeOK, RunStep, RecordStarted, RecordStartedRaises, SpawnCancelled, Drive,
         PidWritten, ChildExits, DrainEnds, DriveKilled, DriveTimesOut, DrainRaises, Persist, PersistRaises,
         AwaitRun, KillTask, At, Ends
    <3> QED BY <1>3, <2>1, <3>1
  <2>3. CASE r = q
    <3>1. ~DrainRaises(r)
      <4> SUFFICES ASSUME DrainRaises(r) PROVE FALSE
        OBVIOUS
      <4>1. faults' = [faults EXCEPT !["drain"] = @ + 1]
        BY DEF DrainRaises, Spend
      <4> QED BY <1>1, <1>2, <4>1 DEF TypeOK, Fault
    <3>2. ~(DrainEnds(r) \/ DriveKilled(r) \/ DriveTimesOut(r))
      BY <1>1, <2>1, <2>3 DEF TypeOK, DrainEnds, DriveKilled, DriveTimesOut, Stopped, Alive
    <3> QED BY <1>1, <1>3, <1>5, <2>1, <2>3, <3>1, <3>2 DEF TypeOK, Run, RunStep, RecordStarted,
            RecordStartedRaises, SpawnCancelled, Drive, PidWritten, ChildExits, Persist, PersistRaises,
            AwaitRun, KillTask, At, Held
  <2> QED BY <2>2, <2>3
<1>6. ASSUME NEW o \in Owners, ProcessStep(o) PROVE mem'[q].at \in {"driving", "lost"}
  <2>1. Alive(q)
    BY <1>1, <1>6 DEF TypeOK, ProcessStep, Start, SweepRecord, SweepRaises, Serve, Crash, Exit, Dies,
       FromStoreRecord, FromStoreKill, KillRecorded, Aclose, AcloseGathered, AcloseEnds, Alive
  <2>2. \A r \in Runs : mem'[r] = mem[r] \/ mem'[r] = [mem[r] EXCEPT !.at = "lost"]
                        \/ mem'[r] = [mem[r] EXCEPT !.kill = TRUE]
    BY <1>1, <1>6 DEF ProcessStep, Start, SweepRecord, SweepRaises, Serve, Crash, Exit, Dies, FromStoreRecord,
       FromStoreKill, Aclose, AcloseGathered, AcloseEnds, TypeOK
  <2>3. mem[q] \in Run
    BY <1>1 DEF TypeOK
  <2> QED BY <1>3, <2>1, <2>2, <2>3 DEF Run
<1>7. ASSUME NEW o \in Owners, NEW r \in Runs,
             Spawn(o, r) \/ TaskBlocking(o, r) \/ SweepKill(o, r) \/ FromStore(o, r) \/ AcloseRecord(o, r)
      PROVE  mem'[q].at \in {"driving", "lost"}
  <2>1. Alive(q)
    BY <1>1, <1>7 DEF TypeOK, Spawn, TaskBlocking, SweepKill, KillRecorded, FromStore, AcloseRecord, Alive
  <2>2. mem'[q] = mem[q]
    BY <1>1, <1>3, <1>7, <2>1 DEF TypeOK, Run, Spawn, TaskBlocking, SweepKill, FromStore, AcloseRecord
  <2> QED BY <1>3, <2>1, <2>2
<1>8. CASE UNCHANGED vars
  BY <1>3, <1>8 DEF vars, Alive
<1> QED BY <1>4, <1>5, <1>6, <1>7, <1>8 DEF Next

(* If every child's output can be read, one process per host never has more *)
(* than max_background children of a session at work, however many runs,    *)
(* cancellations and store faults there are, and every running row of it    *)
(* has a driver.                                                            *)
THEOREM OwnedSafety == ASSUME Neighbours = FALSE, MaxDrainErrors = 0 PROVE Spec => []RunsOwned
<1> DEFINE Inv == AgreeInv /\ CapInv /\ faults["drain"] = 0
<1>1. Init => Inv
  BY InitAgreement, InitCap DEF Init, Fault
<1>2. ASSUME Inv, [Next]_vars PROVE Inv'
  <2>1. AgreeInv' /\ IndInv'
    BY <1>2, StepInd, StepAgreement DEF AgreeInv
  <2>2. CapInv'
    BY <1>2, <2>1, StepSlots, StepChildren DEF CapInv
  <2>3. TypeOK /\ faults["drain"] = 0
    BY <1>2 DEF AgreeInv, IndInv
  <2>4. faults'["drain"] = faults["drain"]
    <3>1. ~Spend("drain")
      BY <2>3 DEF Spend, Limit, Fault
    <3>2. ASSUME NEW g \in {"crash", "store", "cancel"}, Spend(g) PROVE faults'["drain"] = faults["drain"]
      BY <2>3, <3>2 DEF TypeOK, Spend, Fault
    <3> QED BY <1>2, <3>1, <3>2 DEF Next, ProcessStep, RunStep, vars, Start, SweepRecord, SweepRaises, Serve,
           Crash, Exit, FromStoreRecord, FromStoreKill, Aclose, AcloseGathered, AcloseEnds,
           RecordStarted, RecordStartedRaises, SpawnCancelled, Drive, ChildStarts, PidWritten,
           ChildExits, DrainEnds, DriveKilled, DriveTimesOut, DrainRaises, Persist, PersistRaises,
           AwaitRun, KillTask, Spawn, TaskBlocking, SweepKill, FromStore, AcloseRecord
  <2> QED BY <2>1, <2>2, <2>3, <2>4
<1>3. ASSUME Inv PROVE ChildrenWithinCap
  <2> SUFFICES ASSUME NEW o \in Owners
               PROVE  Cardinality({r \in RunsOf(o) : Alive(r)}) <= MaxBackground
    BY DEF ChildrenWithinCap
  <2>1. SlotsOK(o) /\ \A r \in Runs : Alive(r) => mem[r].at \in {"driving", "lost"}
    BY <1>3 DEF CapInv, ChildHasSlot
  <2>2. {r \in RunsOf(o) : Alive(r)} \subseteq Slots(o)
    BY <2>1 DEF Slots, RunsOf
  <2>3. /\ Cardinality({r \in RunsOf(o) : Alive(r)}) <= Cardinality(Slots(o))
        /\ Cardinality({r \in RunsOf(o) : Alive(r)}) \in Nat /\ Cardinality(Slots(o)) \in Nat
    BY <2>1, <2>2, FS_Subset, FS_CardinalityType DEF SlotsOK
  <2> QED BY <2>1, <2>3, RunsAssumption DEF SlotsOK
<1>4. Spec => []ChildrenWithinCap
  BY <1>1, <1>2, <1>3, PTL DEF Spec
<1>5. Spec => []RunsSafe
  BY RunsSafety
<1>6. RunsSafe /\ ChildrenWithinCap => RunsOwned
  BY DEF RunsSafe, RunsOwned
<1> QED BY <1>4, <1>5, <1>6, PTL
=============================================================================
