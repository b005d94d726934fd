-------------------------- MODULE ScheduledLoopsProofs --------------------------
(***************************************************************************)
(* What holds of the scheduled_loops table for every number of loops,      *)
(* goals, workers, tick tasks and callers: the type invariant, that only   *)
(* an active row is in flight, that an active row is below its limits,     *)
(* that no scheduler step reopens a row, and that every turn a loop has    *)
(* run is accounted for.                                                   *)
(***************************************************************************)
EXTENDS ScheduledLoops, TLAPS, FiniteSetTheorems

(* The inductive invariant.  LimitsHold speaks of active rows only; a        *)
(* paused row must be below its limits as well, because resume makes it      *)
(* active without looking, and so must a row that is yet to be created.      *)

\* What is said of the row r of loop l.
Fits(l, r) ==
    /\ r \in Row
    /\ InFlight(r) => r.status = "active"

Below(l, r) ==
    r.status \in {"absent", "active", "paused"} =>
        /\ MaxTicksOf[l] > 0 => r.ticks < MaxTicksOf[l]
        /\ l \in Goals => r.errors < GoalMaxErrors

\* What is said of everything else.
RestOK ==
    /\ worker \in [Workers -> Poll]
    /\ task \in [Tasks -> Tick \cup {NoTask}]
    /\ turn \in [Sessions -> Tasks \cup {None, Other}]
    /\ admin \in [Admins -> Call \cup {Idle}]
    /\ claims \in [Loops -> Nat] /\ runs \in [Loops -> Nat] /\ lost \in [Loops -> Nat]
    /\ revived \subseteq Loops /\ stopped \subseteq Loops /\ edits \in Nat /\ crashes \in Nat

RowsOK ==
    /\ row = [l \in Loops |-> row[l]]
    /\ \A l \in Loops : Fits(l, row[l])
    /\ \A l \in Loops \ revived : Below(l, row[l])

IndInv == RestOK /\ RowsOK

\* The invariant implies what the runs check.
LEMMA IndInvImplies ==
    IndInv => TypeOK /\ ClaimIsActive /\ LimitsHold
<1> SUFFICES ASSUME IndInv PROVE TypeOK /\ ClaimIsActive /\ LimitsHold
  OBVIOUS
<1>1. row \in [Loops -> Row]
  BY DEF IndInv, RowsOK, Fits
<1>2. TypeOK
  BY <1>1 DEF IndInv, RestOK, TypeOK
<1>3. ClaimIsActive
  BY DEF IndInv, RowsOK, Fits, ClaimIsActive
<1>4. LimitsHold
  BY DEF IndInv, RowsOK, Below, LimitsHold
<1> QED BY <1>2, <1>3, <1>4

\* Every statement of the store leaves a row that fits.
LEMMA StoreFits ==
    ASSUME NEW l \in Loops, NEW r \in Row, NEW w \in Workers, Fits(l, r)
    PROVE  /\ r.status = "active" => Fits(l, ClaimTick(r, w))
           /\ Fits(l, RenewTickClaim(r))
           /\ Fits(l, DeferTick(r))
           /\ Fits(l, ReleaseStaleClaim(l, r))
           /\ Fits(l, CompleteTickError(l, r))
           /\ \A b \in BOOLEAN : Fits(l, CompleteTickOk(l, r, b))
           /\ \A s \in Statuses : Fits(l, SetStatus(r, s))
           /\ Fits(l, ResumeRow(r))
<1> USE LoopsAssumption DEF Fits, Row, InFlight, Statuses, Released
<1>1. r.status = "active" => Fits(l, ClaimTick(r, w))
  BY DEF ClaimTick
<1>2. Fits(l, RenewTickClaim(r))
  BY DEF RenewTickClaim
<1>3. Fits(l, DeferTick(r))
  BY DEF DeferTick
<1>4. Fits(l, ReleaseStaleClaim(l, r))
  BY DEF ReleaseStaleClaim
<1>5. Fits(l, CompleteTickError(l, r))
  BY DEF CompleteTickError
<1>6. \A b \in BOOLEAN : Fits(l, CompleteTickOk(l, r, b))
  BY DEF CompleteTickOk
<1>7. \A s \in Statuses : Fits(l, SetStatus(r, s))
  BY DEF SetStatus
<1>8. Fits(l, ResumeRow(r))
  BY DEF ResumeRow
<1> QED BY <1>1, <1>2, <1>3, <1>4, <1>5, <1>6, <1>7, <1>8

\* The statements of a tick keep an active row below its limits; a resume
\* does so for a paused one.
LEMMA StoreBelow ==
    ASSUME NEW l \in Loops, NEW r \in Row, NEW w \in Workers, Below(l, r),
           r.status \in {"active", "paused"}
    PROVE  /\ Below(l, ClaimTick(r, w))
           /\ Below(l, RenewTickClaim(r))
           /\ Below(l, DeferTick(r))
           /\ Below(l, ReleaseStaleClaim(l, r))
           /\ Below(l, CompleteTickError(l, r))
           /\ \A b \in BOOLEAN : Below(l, CompleteTickOk(l, r, b))
           /\ \A s \in Statuses : Below(l, SetStatus(r, s))
           /\ Below(l, ResumeRow(r))
<1> USE LoopsAssumption DEF Below, Row, Released
<1>1. Below(l, ClaimTick(r, w))
  BY DEF ClaimTick
<1>2. Below(l, RenewTickClaim(r))
  BY DEF RenewTickClaim
<1>3. Below(l, DeferTick(r))
  BY DEF DeferTick
<1>4. Below(l, ReleaseStaleClaim(l, r))
  BY DEF ReleaseStaleClaim
<1>5. Below(l, CompleteTickError(l, r))
  BY DEF CompleteTickError
<1>6. \A b \in BOOLEAN : Below(l, CompleteTickOk(l, r, b))
  BY DEF CompleteTickOk
<1>7. \A s \in Statuses : Below(l, SetStatus(r, s))
  BY DEF SetStatus
<1>8. Below(l, ResumeRow(r))
  BY DEF ResumeRow
<1> QED BY <1>1, <1>2, <1>3, <1>4, <1>5, <1>6, <1>7, <1>8

\* A step that rewrites one row, and adds at most that row to the revived
\* ones, keeps RowsOK.
LEMMA OneRow ==
    ASSUME RowsOK, NEW l \in Loops, NEW new,
           row' = [row EXCEPT ![l] = new],
           Fits(l, new), l \notin revived' => Below(l, new),
           revived \subseteq revived'
    PROVE  RowsOK'
BY DEF RowsOK

\* A step that rewrites no row keeps RowsOK.
LEMMA NoRow ==
    ASSUME RowsOK, UNCHANGED row, revived' = revived
    PROVE  RowsOK'
BY DEF RowsOK, Fits, Below

\* The initial table satisfies the invariant.
THEOREM InitInd == Init => IndInv
<1> SUFFICES ASSUME Init PROVE IndInv
  OBVIOUS
<1> USE LoopsAssumption DEF Init
<1>1. RestOK
  BY DEF RestOK, Poll
<1>2. RowsOK
  BY DEF RowsOK, Fits, Below, Row, Statuses, InFlight
<1> QED BY <1>1, <1>2 DEF IndInv

\* The updates of the poll loop keep its type.
LEMMA PollTypes ==
    ASSUME NEW p \in Poll, NEW d \in SUBSET Loops, NEW c \in SUBSET Loops,
           NEW stage \in {"release", "list", "claim", "down"}, NEW b \in BOOLEAN
    PROVE  /\ [p EXCEPT !.stage = stage] \in Poll
           /\ [p EXCEPT !.shutdown = b] \in Poll
           /\ [p EXCEPT !.due = d] \in Poll
           /\ [p EXCEPT !.stage = stage, !.due = d] \in Poll
           /\ [p EXCEPT !.due = d, !.claimed = c] \in Poll
           /\ [p EXCEPT !.stage = stage, !.due = d, !.claimed = c] \in Poll
           /\ [stage |-> stage, due |-> d, claimed |-> c, shutdown |-> b] \in Poll
BY DEF Poll

\* A pause, a stop or a resume.  A row that leaves a final status by a pause
\* is a revived one; a resumed row was paused, hence below its limits.
LEMMA EditStep ==
    ASSUME IndInv, NEW l \in Loops, Pause(l) \/ Stop(l) \/ Resume(l),
           admin' \in [Admins -> Call \cup {Idle}]
    PROVE  IndInv'
<1>1. Fits(l, row[l]) /\ row[l] \in Row
  BY DEF IndInv, RowsOK, Fits
<1>2. revived \subseteq revived' /\ RestOK'
  BY DEF IndInv, RestOK, Pause, Stop, Resume, Edited, LostIf
<1>3. PICK new : /\ Edited(l, new)
                 /\ \/ new = SetStatus(row[l], "paused") \/ new = SetStatus(row[l], "completed")
                    \/ row[l].status = "paused" /\ new = ResumeRow(row[l])
  BY DEF Pause, Stop, Resume
<1>4. row' = [row EXCEPT ![l] = new]
  BY <1>3 DEF Edited
<1>5. Fits(l, new)
  <2>1. \A st \in Statuses, d \in BOOLEAN : Fits(l, Released(st, row[l].ticks, row[l].errors, d))
    BY <1>1 DEF Fits, Row, InFlight, Released
  <2> QED BY <1>1, <1>3, <2>1 DEF Row, Statuses, SetStatus, ResumeRow
<1>6. ASSUME l \notin revived' PROVE Below(l, new)
  <2>1. CASE new.status \notin Open
    BY <1>3, <2>1 DEF Below, Open, SetStatus, ResumeRow, Released
  <2>2. CASE new.status \in Open
    <3>1. row[l].status \in Open
      BY <1>3, <1>6, <2>2 DEF Edited, IndInv, RestOK
    <3>2. Below(l, row[l])
      BY <1>2, <1>6 DEF IndInv, RowsOK
    <3> QED BY <1>1, <1>3, <3>1, <3>2
            DEF Below, Open, Row, SetStatus, ResumeRow, Released
  <2> QED BY <2>1, <2>2
<1>7. RowsOK'
  BY <1>2, <1>4, <1>5, <1>6, OneRow DEF IndInv
<1> QED BY <1>2, <1>7 DEF IndInv

\* A statement written by a worker or by one of its tasks: the row was active
\* and the new one fits and keeps the limits.
LEMMA StoreStep ==
    ASSUME IndInv, NEW l \in Loops, NEW new,
           row' = [row EXCEPT ![l] = new], Fits(l, new),
           Below(l, row[l]) => Below(l, new),
           revived' = revived
    PROVE  RowsOK'
<1>1. l \notin revived' => Below(l, new)
  BY DEF IndInv, RowsOK
<1> QED BY <1>1, OneRow DEF IndInv

\* A worker's poll: stale releases, claims and new tasks.
LEMMA WorkerStepInd ==
    ASSUME IndInv, NEW w \in Workers, WorkerStep(w)
    PROVE  IndInv'
<1> USE DEF IndInv
<1>1. CASE ReleaseStaleClaims(w)
  <2>1. RestOK' /\ revived' = revived
    <3>1. worker[w] \in Poll
      BY DEF RestOK
    <3>2. worker' = [worker EXCEPT ![w] = [worker[w] EXCEPT !.stage = "list"]]
      BY <1>1 DEF ReleaseStaleClaims, Stage
    <3>3. worker' \in [Workers -> Poll]
      BY <3>1, <3>2, PollTypes DEF RestOK
    <3> QED BY <1>1, <3>3 DEF ReleaseStaleClaims, RestOK
  <2>2. \A l \in Loops : Fits(l, row'[l]) /\ (Below(l, row[l]) => Below(l, row'[l]))
    <3> SUFFICES ASSUME NEW l \in Loops
                 PROVE  Fits(l, row'[l]) /\ (Below(l, row[l]) => Below(l, row'[l]))
      OBVIOUS
    <3>1. row'[l] = row[l] \/ (InFlight(row[l]) /\ row'[l] = ReleaseStaleClaim(l, row[l]))
      BY <1>1 DEF ReleaseStaleClaims
    <3>2. Fits(l, row[l]) /\ row[l] \in Row
      BY DEF RowsOK, Fits
    <3>3. InFlight(row[l]) => row[l].status = "active"
      BY <3>2 DEF Fits
    <3> QED BY <3>1, <3>2, <3>3, StoreFits, StoreBelow
  <2>3. row' = [l \in Loops |-> row'[l]]
    BY <1>1 DEF ReleaseStaleClaims
  <2> QED BY <2>1, <2>2, <2>3 DEF RowsOK
<1>2. CASE ListDue(w)
  <2>1. worker[w] \in Poll
    BY DEF RestOK
  <2>2. PICK d \in SUBSET Loops :
            worker' = [worker EXCEPT ![w] = [worker[w] EXCEPT !.stage = "claim", !.due = d]]
    BY <1>2 DEF ListDue
  <2>3. worker' \in [Workers -> Poll]
    BY <2>1, <2>2, PollTypes DEF RestOK
  <2> QED BY <1>2, <2>3, NoRow DEF ListDue, RestOK, past
<1>3. CASE SpawnTicks(w)
  <2>1. worker' \in [Workers -> Poll]
    <3>1. worker[w] \in Poll
      BY DEF RestOK
    <3>2. worker' = [worker EXCEPT ![w] = [worker[w] EXCEPT !.stage = "release", !.due = {},
                                                            !.claimed = {}]]
      BY <1>3 DEF SpawnTicks, PollEnd
    <3> QED BY <3>1, <3>2, PollTypes DEF RestOK
  <2>2. task' \in [Tasks -> Tick \cup {NoTask}]
    <3>1. worker[w].claimed \subseteq Loops
      BY DEF RestOK, Poll
    <3>2. \A l \in Loops : [NoTask EXCEPT !.stage = "waiting", !.worker = w, !.loop = l] \in Tick
      BY DEF NoTask, Tick, Started
    <3>3. PICK f \in [worker[w].claimed -> {t \in Tasks : task[t] = NoTask}] : task' = [t \in Tasks |->
                  IF \E l \in worker[w].claimed : f[l] = t
                  THEN [NoTask EXCEPT !.stage = "waiting", !.worker = w,
                            !.loop = CHOOSE l \in worker[w].claimed : f[l] = t]
                  ELSE task[t]]
      BY <1>3 DEF SpawnTicks
    <3>4. \A t \in Tasks : task'[t] \in Tick \cup {NoTask}
      BY <3>1, <3>2, <3>3 DEF RestOK
    <3> QED BY <3>3, <3>4
  <2>3. UNCHANGED <<row, turn, admin, past>>
    BY <1>3 DEF SpawnTicks
  <2> QED BY <2>1, <2>2, <2>3, NoRow DEF RestOK, past
<1>4. ASSUME NEW l \in Loops, Claim(w, l) PROVE IndInv'
  <2>1. RestOK' /\ revived' = revived
    <3>1. worker[w] \in Poll
          /\ worker[w].due \ {l} \in SUBSET Loops /\ worker[w].claimed \cup {l} \in SUBSET Loops
      BY DEF RestOK, Poll
    <3>2. \/ worker' = [worker EXCEPT ![w] = [worker[w] EXCEPT !.due = worker[w].due \ {l}]]
          \/ worker' = [worker EXCEPT ![w] = [worker[w] EXCEPT !.due = worker[w].due \ {l},
                                                  !.claimed = worker[w].claimed \cup {l}]]
      BY <1>4 DEF Claim
    <3>3. worker' \in [Workers -> Poll]
      <4>1. \A p \in Poll : [worker EXCEPT ![w] = p] \in [Workers -> Poll]
        BY DEF RestOK
      <4>2. /\ [worker[w] EXCEPT !.due = worker[w].due \ {l}] \in Poll
            /\ [worker[w] EXCEPT !.due = worker[w].due \ {l},
                                 !.claimed = worker[w].claimed \cup {l}] \in Poll
        BY <3>1, PollTypes
      <4> QED BY <3>2, <4>1, <4>2
    <3> QED BY <1>4, <3>3 DEF Claim, RestOK
  <2>2. CASE UNCHANGED row
    BY <2>1, <2>2, NoRow
  <2>3. CASE Claimable(row[l]) /\ row' = [row EXCEPT ![l] = ClaimTick(row[l], w)]
    <3>1. Fits(l, row[l]) /\ row[l] \in Row /\ row[l].status = "active"
      BY <2>3 DEF RowsOK, Fits, Claimable
    <3>2. Fits(l, ClaimTick(row[l], w)) /\ (Below(l, row[l]) => Below(l, ClaimTick(row[l], w)))
      BY <3>1, StoreFits, StoreBelow
    <3> QED BY <2>1, <2>3, <3>2, StoreStep
  <2> QED BY <1>4, <2>2, <2>3 DEF Claim
<1> QED BY <1>1, <1>2, <1>3, <1>4 DEF WorkerStep

\* One step of a tick task, whichever claim its row is under by then.
LEMMA TaskStepInd ==
    ASSUME IndInv, NEW t \in Tasks, TaskStep(t) \/ Heartbeat(t) \/ HeartbeatFails(t) \/ StoreRaises(t)
    PROVE  IndInv'
<1> DEFINE l == task[t].loop
           w == task[t].worker
<1> USE DEF IndInv
<1>1. task[t] \in Tick /\ l \in Loops /\ w \in Workers /\ task[t] # NoTask
  <2>1. task[t] # NoTask
    BY DEF TaskStep, Heartbeat, Admit, BusyChecked, Defer, InvokeTick, InvokeFails, TurnEnds,
           InvokeTimesOut, Complete, StoreRaises, HeartbeatFails, NoTask
  <2> QED BY <2>1 DEF RestOK, Tick
<1>2. \A st \in Started : [task EXCEPT ![t].stage = st] \in [Tasks -> Tick \cup {NoTask}]
  <2>1. \A st \in Started : [task[t] EXCEPT !.stage = st] \in Tick
    BY <1>1 DEF Tick
  <2> QED BY <2>1 DEF RestOK
<1>3. /\ [task EXCEPT ![t].stage = "invoke", ![t].beats = TRUE] \in [Tasks -> Tick \cup {NoTask}]
      /\ [task EXCEPT ![t].beats = FALSE] \in [Tasks -> Tick \cup {NoTask}]
      /\ [task EXCEPT ![t] = NoTask] \in [Tasks -> Tick \cup {NoTask}]
  <2>1. /\ [task[t] EXCEPT !.stage = "invoke", !.beats = TRUE] \in Tick
        /\ [task[t] EXCEPT !.beats = FALSE] \in Tick
    BY <1>1 DEF Tick, Started
  <2> QED BY <2>1 DEF RestOK
<1>4. SessionOf[l] \in Sessions
  BY <1>1, LoopsAssumption
<1>5. Fits(l, row[l]) /\ row[l] \in Row
  BY <1>1 DEF RowsOK, Fits
<1>6. Owned(row[l], w) => row[l].status = "active"
  BY <1>5 DEF Owned, Fits
<1>7. CASE Admit(t) \/ BusyChecked(t) \/ InvokeFails(t)
  <2>1. task' \in [Tasks -> Tick \cup {NoTask}]
    BY <1>2, <1>3, <1>7 DEF Admit, BusyChecked, InvokeFails, Goto, Started
  <2>2. UNCHANGED <<row, worker, turn, admin, past>>
    BY <1>7 DEF Admit, BusyChecked, InvokeFails
  <2> QED BY <2>1, <2>2, NoRow DEF RestOK, past
<1>8. CASE InvokeTick(t) \/ TurnEnds(t) \/ InvokeTimesOut(t)
  <2>1. task' \in [Tasks -> Tick \cup {NoTask}]
    BY <1>2, <1>8 DEF InvokeTick, TurnEnds, InvokeTimesOut, Goto, Started
  <2>2. turn' \in [Sessions -> Tasks \cup {None, Other}]
    BY <1>4, <1>8 DEF InvokeTick, TurnEnds, InvokeTimesOut, SetTurn, RestOK
  <2>3. runs' \in [Loops -> Nat]
    BY <1>1, <1>8 DEF InvokeTick, TurnEnds, InvokeTimesOut, RestOK, past
  <2>4. UNCHANGED <<row, worker, admin, claims, lost, revived, stopped, edits, crashes>>
    BY <1>8 DEF InvokeTick, TurnEnds, InvokeTimesOut, past
  <2> QED BY <2>1, <2>2, <2>3, <2>4, NoRow DEF RestOK
<1>9. CASE Defer(t)
  <2>1. RestOK' /\ UNCHANGED revived
    BY <1>3, <1>9 DEF Defer, RestOK, past
  <2>2. CASE UNCHANGED row
    BY <2>1, <2>2, NoRow
  <2>3. CASE Owned(row[l], w) /\ row' = [row EXCEPT ![l] = DeferTick(row[l])]
    <3>1. Fits(l, DeferTick(row[l])) /\ (Below(l, row[l]) => Below(l, DeferTick(row[l])))
      BY <1>1, <1>5, <1>6, <2>3, StoreFits, StoreBelow
    <3> QED BY <1>1, <2>1, <2>3, <3>1, StoreStep
  <2> QED BY <1>9, <2>2, <2>3 DEF Defer
<1>10. CASE Complete(t)
  <2>1. RestOK' /\ UNCHANGED revived
    BY <1>3, <1>10 DEF Complete, RestOK, past
  <2>2. CASE UNCHANGED row
    BY <2>1, <2>2, NoRow
  <2>3. ASSUME Owned(row[l], w), NEW new \in Completed(t, l, row[l]),
               row' = [row EXCEPT ![l] = new]
        PROVE  IndInv'
    <3>1. new = CompleteTickError(l, row[l]) \/ \E b \in BOOLEAN : new = CompleteTickOk(l, row[l], b)
      BY <2>3 DEF Completed
    <3>2. Fits(l, new) /\ (Below(l, row[l]) => Below(l, new))
      BY <1>1, <1>5, <1>6, <2>3, <3>1, StoreFits, StoreBelow
    <3> QED BY <1>1, <2>1, <2>3, <3>2, StoreStep
  <2> QED BY <1>10, <2>2, <2>3 DEF Complete
<1>11. CASE Heartbeat(t)
  <2>1. RestOK' /\ UNCHANGED revived
    BY <1>3, <1>11 DEF Heartbeat, RestOK, past
  <2>2. CASE UNCHANGED row
    BY <2>1, <2>2, NoRow
  <2>3. CASE Owned(row[l], w) /\ row' = [row EXCEPT ![l] = RenewTickClaim(row[l])]
    <3>1. Fits(l, RenewTickClaim(row[l])) /\ (Below(l, row[l]) => Below(l, RenewTickClaim(row[l])))
      BY <1>1, <1>5, <1>6, <2>3, StoreFits, StoreBelow
    <3> QED BY <1>1, <2>1, <2>3, <3>1, StoreStep
  <2> QED BY <1>11, <2>2, <2>3 DEF Heartbeat
<1>12. CASE StoreRaises(t)
  <2>1. task' \in [Tasks -> Tick \cup {NoTask}]
    BY <1>2, <1>3, <1>12 DEF StoreRaises, Goto, Started
  <2> QED BY <1>12, <2>1, NoRow DEF StoreRaises, CountCrash, RestOK
<1>13. CASE HeartbeatFails(t)
  BY <1>3, <1>13, NoRow DEF HeartbeatFails, CountCrash, RestOK
<1> QED BY <1>7, <1>8, <1>9, <1>10, <1>11, <1>12, <1>13 DEF TaskStep

\* Creation, time, and turns that are not ticks.
LEMMA OutsideStepInd ==
    ASSUME IndInv,
           \/ \E l \in Loops : Create(l) \/ BecomesDue(l) \/ BecomesStale(l)
           \/ \E s \in Sessions : OtherTurn(s)
    PROVE  IndInv'
<1> USE DEF IndInv
<1>1. ASSUME NEW l \in Loops, Create(l) \/ BecomesDue(l) \/ BecomesStale(l) PROVE IndInv'
  <2>1. RestOK' /\ UNCHANGED revived
    BY <1>1 DEF Create, BecomesDue, BecomesStale, RestOK, past
  <2>2. Fits(l, row[l]) /\ row[l] \in Row
    BY DEF RowsOK, Fits
  <2>3. CASE Create(l)
    <3> DEFINE new == [row[l] EXCEPT !.status = "active", !.due = l \notin Goals]
    <3>1. row' = [row EXCEPT ![l] = new]
      BY <2>3 DEF Create
    <3>2. Fits(l, new) /\ (Below(l, row[l]) => Below(l, new))
      BY <2>2, <2>3 DEF Create, Fits, Below, Row, Statuses, InFlight
    <3> QED BY <2>1, <3>1, <3>2, StoreStep
  <2>4. CASE BecomesDue(l)
    <3> DEFINE new == [row[l] EXCEPT !.due = TRUE]
    <3>1. row' = [row EXCEPT ![l] = new]
      BY <2>4 DEF BecomesDue
    <3>2. Fits(l, new) /\ (Below(l, row[l]) => Below(l, new))
      BY <2>2 DEF Fits, Below, Row, InFlight
    <3> QED BY <2>1, <3>1, <3>2, StoreStep
  <2>5. CASE BecomesStale(l)
    <3> DEFINE new == [row[l] EXCEPT !.stale = TRUE]
    <3>1. row' = [row EXCEPT ![l] = new]
      BY <2>5 DEF BecomesStale
    <3>2. Fits(l, new) /\ (Below(l, row[l]) => Below(l, new))
      BY <2>2 DEF Fits, Below, Row, InFlight
    <3> QED BY <2>1, <3>1, <3>2, StoreStep
  <2> QED BY <1>1, <2>3, <2>4, <2>5
<1>2. ASSUME NEW s \in Sessions, OtherTurn(s) PROVE IndInv'
  BY <1>2, NoRow DEF OtherTurn, RestOK, past
<1> QED BY <1>1, <1>2

\* The goal service: a read and a write with anything in between.
LEMMA GoalStepInd ==
    ASSUME IndInv, NEW a \in Admins,
           \/ \E g \in Goals, op \in {"pause", "resume", "stop"} : GoalRead(a, op, g)
           \/ GoalWrite(a) \/ GoalRefused(a)
    PROVE  IndInv'
<1> USE DEF IndInv
<1>1. ASSUME NEW g \in Goals, NEW op \in {"pause", "resume", "stop"}, GoalRead(a, op, g)
      PROVE  IndInv'
  <2>1. [op |-> op, loop |-> g] \in Call
    BY DEF Call
  <2>2. admin' \in [Admins -> Call \cup {Idle}]
    BY <1>1, <2>1 DEF GoalRead, RestOK
  <2> QED BY <1>1, <2>2, NoRow DEF GoalRead, RestOK, past
<1>2. CASE GoalWrite(a)
  <2>1. admin[a] \in Call
    BY <1>2 DEF GoalWrite, RestOK
  <2>2. admin[a].loop \in Loops
    BY <2>1, LoopsAssumption DEF Call
  <2>3. admin' \in [Admins -> Call \cup {Idle}]
    BY <1>2 DEF GoalWrite, RestOK
  <2>4. Pause(admin[a].loop) \/ Stop(admin[a].loop) \/ Resume(admin[a].loop)
    BY <1>2 DEF GoalWrite
  <2> QED BY <2>2, <2>3, <2>4, EditStep
<1>3. CASE GoalRefused(a)
  BY <1>3, NoRow DEF GoalRefused, RestOK, past
<1> QED BY <1>1, <1>2, <1>3

\* Faults of a worker write nothing to the table.
LEMMA FaultInd ==
    ASSUME IndInv, NEW w \in Workers, Fault(w)
    PROVE  IndInv'
<1> USE DEF IndInv
<1>1. worker[w] \in Poll
  BY DEF RestOK
<1>2. PICK p \in Poll : worker' = [worker EXCEPT ![w] = p]
  <2>1. CASE PollFails(w)
    <3>1. worker' = [worker EXCEPT ![w] = [worker[w] EXCEPT !.stage = "release", !.due = {},
                                                            !.claimed = {}]]
      BY <2>1 DEF PollFails, PollEnd
    <3> QED BY <1>1, <3>1, PollTypes
  <2>2. CASE Shutdown(w)
    <3>1. worker' = [worker EXCEPT ![w] = [worker[w] EXCEPT !.shutdown = TRUE]]
      BY <2>2 DEF Shutdown
    <3> QED BY <1>1, <3>1, PollTypes
  <2>3. CASE Drained(w) \/ Crash(w)
    <3>1. worker' = [worker EXCEPT ![w] = [stage |-> "down", due |-> {}, claimed |-> {},
                                           shutdown |-> FALSE]]
      BY <2>3 DEF Drained, Crash
    <3>2. [stage |-> "down", due |-> {}, claimed |-> {}, shutdown |-> FALSE] \in Poll
      BY DEF Poll
    <3> QED BY <3>1, <3>2
  <2>4. CASE Restart(w)
    <3>1. worker' = [worker EXCEPT ![w] = [worker[w] EXCEPT !.stage = "release"]]
      BY <2>4 DEF Restart, Stage
    <3> QED BY <1>1, <3>1, PollTypes
  <2> QED BY <2>1, <2>2, <2>3, <2>4 DEF Fault
<1>3. worker' \in [Workers -> Poll]
  BY <1>2 DEF RestOK
<1>4. task' \in [Tasks -> Tick \cup {NoTask}] /\ turn' \in [Sessions -> Tasks \cup {None, Other}]
  BY DEF Fault, PollFails, Shutdown, Drained, Crash, Restart, RestOK
<1>5. crashes' \in Nat /\ UNCHANGED <<row, admin, claims, runs, lost, revived, stopped, edits>>
  BY DEF Fault, PollFails, Shutdown, Drained, Crash, Restart, CountCrash, RestOK, past
<1> QED BY <1>3, <1>4, <1>5, NoRow DEF RestOK

\* Every step keeps the invariant.
THEOREM StepInd == IndInv /\ [Next]_vars => IndInv'
<1> SUFFICES ASSUME IndInv, [Next]_vars PROVE IndInv'
  OBVIOUS
<1>1. CASE UNCHANGED vars
  BY <1>1, NoRow DEF IndInv, RestOK, vars, past
<1>2. ASSUME NEW l \in Loops, EditLoop(l) PROVE IndInv'
  <2>1. admin' \in [Admins -> Call \cup {Idle}]
    BY <1>2 DEF EditLoop, IndInv, RestOK
  <2> QED BY <1>2, <2>1, EditStep DEF EditLoop
<1> QED BY <1>1, <1>2, OutsideStepInd, GoalStepInd, WorkerStepInd, FaultInd, TaskStepInd DEF Next

\* Type correctness, for every set of loops, workers, tasks and callers.
THEOREM TypeSafety == Spec => []TypeOK
<1>1. IndInv => TypeOK
  BY IndInvImplies
<1> QED BY <1>1, InitInd, StepInd, PTL DEF Spec

\* Only active rows are in flight: a pause or stop takes the claim away in the
\* same statement, whatever tick is running.
THEOREM ClaimSafety == Spec => []ClaimIsActive
<1>1. IndInv => ClaimIsActive
  BY IndInvImplies
<1> QED BY <1>1, InitInd, StepInd, PTL DEF Spec

\* The limits of loops and goals, for every value of max_ticks and of
\* GOAL_MAX_CONSECUTIVE_ERRORS.
THEOREM LimitSafety == Spec => []LimitsHold
<1>1. IndInv => LimitsHold
  BY IndInvImplies
<1> QED BY <1>1, InitInd, StepInd, PTL DEF Spec

\* A row that a worker or a task rewrites was active before.
LEMMA SchedulerKeepsClosed ==
    ASSUME IndInv, NEW l \in Loops, row[l].status # "active",
           \/ \E w \in Workers : WorkerStep(w) \/ Fault(w)
           \/ \E t \in Tasks : TaskStep(t) \/ Heartbeat(t) \/ HeartbeatFails(t) \/ StoreRaises(t)
    PROVE  row'[l].status # "active"
<1>1. \A k \in Loops : InFlight(row[k]) => row[k].status = "active"
  BY DEF IndInv, RowsOK, Fits
<1>2. row = [k \in Loops |-> row[k]]
  BY DEF IndInv, RowsOK
<1>3. ASSUME NEW w \in Workers, WorkerStep(w) \/ Fault(w) PROVE row'[l] = row[l]
  <2>1. CASE ReleaseStaleClaims(w)
    BY <1>1, <2>1 DEF ReleaseStaleClaims
  <2>2. ASSUME NEW k \in Loops, Claim(w, k) PROVE row'[l] = row[l]
    BY <1>2, <2>2 DEF Claim, Claimable
  <2>3. CASE ListDue(w) \/ SpawnTicks(w) \/ Fault(w)
    BY <2>3 DEF ListDue, SpawnTicks, Fault, PollFails, Shutdown, Drained, Crash, Restart
  <2> QED BY <1>3, <2>1, <2>2, <2>3 DEF WorkerStep
<1>4. ASSUME NEW t \in Tasks, TaskStep(t) \/ Heartbeat(t) \/ HeartbeatFails(t) \/ StoreRaises(t)
      PROVE  row'[l] = row[l]
  <2>1. ~Owned(row[l], task[t].worker)
    BY <1>1 DEF Owned
  <2>2. CASE Defer(t)
    BY <1>2, <2>1, <2>2 DEF Defer
  <2>3. CASE Complete(t)
    BY <1>2, <2>1, <2>3 DEF Complete
  <2>4. CASE Heartbeat(t)
    BY <1>2, <2>1, <2>4 DEF Heartbeat
  <2>5. CASE Admit(t) \/ BusyChecked(t) \/ InvokeTick(t) \/ InvokeFails(t) \/ TurnEnds(t)
              \/ InvokeTimesOut(t) \/ StoreRaises(t) \/ HeartbeatFails(t)
    BY <2>5 DEF Admit, BusyChecked, InvokeTick, InvokeFails, TurnEnds, InvokeTimesOut, StoreRaises,
                HeartbeatFails
  <2> QED BY <1>4, <2>2, <2>3, <2>4, <2>5 DEF TaskStep
<1> QED BY <1>3, <1>4

\* A pause or a stop makes no row active, a resume only its own.
LEMMA EditReopens ==
    ASSUME IndInv, NEW l \in Loops, NEW k \in Loops, Pause(k) \/ Stop(k) \/ Resume(k),
           row[l].status # "active", row'[l].status = "active"
    PROVE  Resume(l)
<1>1. row = [j \in Loops |-> row[j]]
  BY DEF IndInv, RowsOK
<1>2. CASE Pause(k)
  <2>1. row' = [row EXCEPT ![k] = SetStatus(row[k], "paused")]
    BY <1>2 DEF Pause, Edited
  <2>2. SetStatus(row[k], "paused").status = "paused"
    BY DEF SetStatus, Released
  <2> QED BY <1>1, <2>1, <2>2
<1>3. CASE Stop(k)
  <2>1. row' = [row EXCEPT ![k] = SetStatus(row[k], "completed")]
    BY <1>3 DEF Stop, Edited
  <2>2. SetStatus(row[k], "completed").status = "completed"
    BY DEF SetStatus, Released
  <2> QED BY <1>1, <2>1, <2>2
<1>4. CASE Resume(k)
  <2>1. row' = [row EXCEPT ![k] = ResumeRow(row[k])]
    BY <1>4 DEF Resume, Edited
  <2>2. l = k
    BY <1>1, <2>1
  <2> QED BY <1>4, <2>2
<1> QED BY <1>2, <1>3, <1>4

\* No worker, task or stale release ever reopens a row, for every instance.
THEOREM ReopenSafety == Spec => OnlyResumeReopens
<1>1. ASSUME IndInv, Next, NEW l \in Loops, row[l].status # "active", row'[l].status = "active"
      PROVE  Create(l) \/ Resume(l)
  <2>1. row = [j \in Loops |-> row[j]]
    BY <1>1 DEF IndInv, RowsOK
  <2>2. ASSUME NEW k \in Loops, Create(k) \/ BecomesDue(k) \/ BecomesStale(k)
        PROVE  Create(l)
    <3>1. CASE Create(k)
      BY <1>1, <2>1, <3>1 DEF Create
    <3>2. CASE BecomesDue(k) \/ BecomesStale(k)
      <4>1. row[k] \in Row
        BY <1>1 DEF IndInv, RowsOK, Fits
      <4>2. row'[l].status = row[l].status
        BY <2>1, <3>2, <4>1 DEF BecomesDue, BecomesStale, Row
      <4> QED BY <1>1, <4>2
    <3> QED BY <2>2, <3>1, <3>2
  <2>3. ASSUME NEW k \in Loops, EditLoop(k) PROVE Resume(l)
    BY <1>1, <2>3, EditReopens DEF EditLoop
  <2>4. ASSUME NEW a \in Admins, GoalWrite(a) PROVE Resume(l)
    <3>1. admin[a].loop \in Loops
      BY <1>1, <2>4, LoopsAssumption DEF GoalWrite, IndInv, RestOK, Call
    <3> QED BY <1>1, <2>4, <3>1, EditReopens DEF GoalWrite
  <2>5. ASSUME UNCHANGED row PROVE FALSE
    BY <1>1, <2>5
  <2>6. ASSUME NEW a \in Admins,
               GoalRefused(a) \/ \E g \in Goals, op \in {"pause", "resume", "stop"} : GoalRead(a, op, g)
        PROVE  FALSE
    BY <2>5, <2>6 DEF GoalRefused, GoalRead
  <2>7. ASSUME NEW s \in Sessions, OtherTurn(s) PROVE FALSE
    BY <2>5, <2>7 DEF OtherTurn
  <2> QED BY <1>1, <2>2, <2>3, <2>4, <2>6, <2>7, SchedulerKeepsClosed DEF Next
<1>2. IndInv /\ [Next]_vars =>
          [\A l \in Loops : row[l].status # "active" /\ row'[l].status = "active" =>
                                Create(l) \/ Resume(l)]_vars
  BY <1>1
<1> QED BY <1>2, InitInd, StepInd, PTL DEF Spec, OnlyResumeReopens

-----------------------------------------------------------------------------
(* Accounting of ticks.  A claim pays for one turn.  Until the turn starts   *)
(* the debt is with the poll that made the claim (ToSpawn) or with its task  *)
(* (ToRun); a defer takes the claim of the row away, whoever's it is, but    *)
(* with it the debt of its own task.                                         *)

ToRun(l) == {t \in Tasks : /\ task[t].loop = l
                           /\ task[t].stage \in {"waiting", "check", "skip", "invoke", "defer"}}
ToSpawn(l) == {w \in Workers : l \in worker[w].claimed}
InHand(l) == IF InFlight(row[l]) THEN 1 ELSE 0

Budget(l) ==
    /\ IsFiniteSet(ToRun(l)) /\ IsFiniteSet(ToSpawn(l))
    /\ runs[l] + Cardinality(ToRun(l)) + Cardinality(ToSpawn(l)) <= row[l].ticks + lost[l] + InHand(l)

AccountInv == IndInv /\ \A l \in Loops : Budget(l)

\* A set grows by at most the one element added.
LEMMA AtMostOneMore ==
    ASSUME NEW S, NEW T, NEW x, IsFiniteSet(S), T \subseteq S \cup {x}
    PROVE  /\ IsFiniteSet(T) /\ Cardinality(T) \in Nat /\ Cardinality(S) \in Nat
           /\ Cardinality(T) <= Cardinality(S) + 1
<1>1. IsFiniteSet(S \cup {x}) /\ Cardinality(S) \in Nat
  BY FS_AddElement, FS_CardinalityType
<1>2. Cardinality(S \cup {x}) <= Cardinality(S) + 1
  BY <1>1, FS_AddElement
<1>3. IsFiniteSet(T) /\ Cardinality(T) \in Nat /\ Cardinality(T) <= Cardinality(S \cup {x})
  BY <1>1, FS_Subset, FS_CardinalityType
<1>4. Cardinality(S \cup {x}) \in Nat
  BY <1>1, FS_CardinalityType
<1> QED BY <1>1, <1>2, <1>3, <1>4

\* The types the arithmetic below needs.
LEMMA BudgetTypes ==
    ASSUME IndInv, NEW l \in Loops
    PROVE  runs[l] \in Nat /\ lost[l] \in Nat /\ row[l].ticks \in Nat /\ InHand(l) \in {0, 1}
BY DEF IndInv, RestOK, RowsOK, Fits, Row, InHand

\* And after the step.
LEMMA BudgetTypesNext ==
    ASSUME IndInv', NEW l \in Loops
    PROVE  runs'[l] \in Nat /\ lost'[l] \in Nat /\ row'[l].ticks \in Nat /\ InHand(l)' \in {0, 1}
BY DEF IndInv, RestOK, RowsOK, Fits, Row, InHand

\* A step that starts no turn of l, adds no debt and keeps what pays for it.
LEMMA NoNewDebt ==
    ASSUME IndInv, IndInv', NEW l \in Loops, Budget(l),
           ToRun(l)' \subseteq ToRun(l), ToSpawn(l)' \subseteq ToSpawn(l),
           runs'[l] = runs[l],
           row'[l].ticks + lost'[l] + InHand(l)' >= row[l].ticks + lost[l] + InHand(l)
    PROVE  Budget(l)'
<1>1. /\ IsFiniteSet(ToRun(l)') /\ Cardinality(ToRun(l)') <= Cardinality(ToRun(l))
      /\ Cardinality(ToRun(l)') \in Nat /\ Cardinality(ToRun(l)) \in Nat
  BY FS_Subset, FS_CardinalityType DEF Budget
<1>2. /\ IsFiniteSet(ToSpawn(l)') /\ Cardinality(ToSpawn(l)') <= Cardinality(ToSpawn(l))
      /\ Cardinality(ToSpawn(l)') \in Nat /\ Cardinality(ToSpawn(l)) \in Nat
  BY FS_Subset, FS_CardinalityType DEF Budget
<1>3. /\ runs[l] \in Nat /\ lost[l] \in Nat /\ row[l].ticks \in Nat /\ InHand(l) \in {0, 1}
      /\ runs'[l] \in Nat /\ lost'[l] \in Nat /\ row'[l].ticks \in Nat /\ InHand(l)' \in {0, 1}
  BY BudgetTypes, BudgetTypesNext
<1> QED BY <1>1, <1>2, <1>3 DEF Budget

\* A step that takes task t off the debt of l.
LEMMA DebtPaid ==
    ASSUME IndInv, IndInv', NEW l \in Loops, Budget(l), NEW t \in ToRun(l),
           ToRun(l)' \subseteq ToRun(l) \ {t}, ToSpawn(l)' = ToSpawn(l),
           runs'[l] - (row'[l].ticks + lost'[l] + InHand(l)')
               <= runs[l] - (row[l].ticks + lost[l] + InHand(l)) + 1
    PROVE  Budget(l)'
<1>1. /\ IsFiniteSet(ToRun(l) \ {t})
      /\ Cardinality(ToRun(l) \ {t}) = Cardinality(ToRun(l)) - 1
      /\ Cardinality(ToRun(l)) \in Nat /\ Cardinality(ToSpawn(l)) \in Nat
  BY FS_RemoveElement, FS_CardinalityType DEF Budget
<1>2. /\ IsFiniteSet(ToRun(l)') /\ Cardinality(ToRun(l)') <= Cardinality(ToRun(l) \ {t})
      /\ Cardinality(ToRun(l)') \in Nat
  BY <1>1, FS_Subset, FS_CardinalityType
<1>3. /\ runs[l] \in Nat /\ lost[l] \in Nat /\ row[l].ticks \in Nat /\ InHand(l) \in {0, 1}
      /\ runs'[l] \in Nat /\ lost'[l] \in Nat /\ row'[l].ticks \in Nat /\ InHand(l)' \in {0, 1}
  BY BudgetTypes, BudgetTypesNext
<1> QED BY <1>1, <1>2, <1>3 DEF Budget

\* A step that changes the row and the history of at most the loop it is
\* about, and no task or poll.
LEMMA RowStepBudget ==
    ASSUME IndInv, IndInv', NEW l \in Loops, Budget(l), UNCHANGED <<task, worker, runs>>,
           row'[l].ticks + lost'[l] + InHand(l)' >= row[l].ticks + lost[l] + InHand(l)
    PROVE  Budget(l)'
<1>1. ToRun(l)' = ToRun(l) /\ ToSpawn(l)' = ToSpawn(l)
  BY DEF ToRun, ToSpawn
<1> QED BY <1>1, NoNewDebt

\* No loop starts with a debt.
LEMMA InitAccount == Init => AccountInv
<1> SUFFICES ASSUME Init PROVE AccountInv
  OBVIOUS
<1>1. IndInv
  BY InitInd
<1>2. \A l \in Loops : ToRun(l) = {} /\ ToSpawn(l) = {}
  BY DEF Init, ToRun, ToSpawn, NoTask
<1>3. \A l \in Loops : runs[l] = 0 /\ lost[l] = 0 /\ row[l].ticks = 0 /\ InHand(l) = 0
  BY DEF Init, InHand, InFlight
<1>4. IsFiniteSet({}) /\ Cardinality({}) = 0
  BY FS_EmptySet
<1>5. \A l \in Loops : Budget(l)
  BY <1>2, <1>3, <1>4 DEF Budget
<1> QED BY <1>1, <1>5 DEF AccountInv

\* Creation, edits and the clock: a claim an edit takes away is counted as
\* lost in the same statement.
LEMMA EditBudget ==
    ASSUME IndInv, IndInv', NEW l \in Loops, Budget(l), NEW k \in Loops,
           Pause(k) \/ Stop(k) \/ Resume(k)
    PROVE  Budget(l)'
<1>1. PICK new : /\ Edited(k, new) /\ new.ticks = row[k].ticks /\ ~InFlight(new)
  BY DEF Pause, Stop, Resume, SetStatus, ResumeRow, Released, InFlight
<1>2. UNCHANGED <<task, worker, runs>> /\ row' = [row EXCEPT ![k] = new] /\ lost' = LostIf(k)
  BY <1>1 DEF Edited
<1>3. /\ runs[l] \in Nat /\ lost[l] \in Nat /\ row[l].ticks \in Nat /\ InHand(l) \in {0, 1}
      /\ row = [j \in Loops |-> row[j]] /\ lost \in [Loops -> Nat]
  BY BudgetTypes DEF IndInv, RowsOK, RestOK
<1>4. CASE l = k
  <2>1. row'[l] = new /\ lost'[l] = lost[l] + InHand(l)
    BY <1>2, <1>3, <1>4 DEF LostIf, InHand
  <2>2. InHand(l)' = 0
    BY <1>1, <2>1 DEF InHand
  <2> QED BY <1>1, <1>2, <1>3, <1>4, <2>1, <2>2, RowStepBudget
<1>5. CASE l # k
  <2>1. row'[l] = row[l] /\ lost'[l] = lost[l]
    BY <1>2, <1>3, <1>5 DEF LostIf
  <2> QED BY <1>2, <1>3, <2>1, RowStepBudget DEF InHand
<1> QED BY <1>4, <1>5

\* What happens outside the scheduler costs no loop anything.
LEMMA OutsideBudget ==
    ASSUME IndInv, IndInv', NEW l \in Loops, Budget(l),
           \/ \E k \in Loops : Create(k) \/ BecomesDue(k) \/ BecomesStale(k)
           \/ \E s \in Sessions : OtherTurn(s)
    PROVE  Budget(l)'
<1>1. UNCHANGED <<task, worker, runs, lost>>
  BY DEF Create, BecomesDue, BecomesStale, OtherTurn, past
<1>2. row'[l].ticks = row[l].ticks /\ InHand(l)' = InHand(l)
  <2>1. row = [k \in Loops |-> row[k]] /\ \A k \in Loops : row[k] \in Row
    BY DEF IndInv, RowsOK, Fits
  <2>2. ASSUME NEW k \in Loops, Create(k)
        PROVE  row'[l].ticks = row[l].ticks /\ row'[l].worker = row[l].worker
    BY <2>1, <2>2 DEF Create, Row
  <2>3. ASSUME NEW k \in Loops, BecomesDue(k) \/ BecomesStale(k)
        PROVE  row'[l].ticks = row[l].ticks /\ row'[l].worker = row[l].worker
    BY <2>1, <2>3 DEF BecomesDue, BecomesStale, Row
  <2>4. ASSUME NEW s \in Sessions, OtherTurn(s)
        PROVE  row'[l].ticks = row[l].ticks /\ row'[l].worker = row[l].worker
    BY <2>4 DEF OtherTurn
  <2> QED BY <2>2, <2>3, <2>4 DEF InHand, InFlight
<1> QED BY <1>1, <1>2, BudgetTypes, RowStepBudget

\* The goal service and the routes of plain loops.
LEMMA GoalBudget ==
    ASSUME IndInv, IndInv', NEW l \in Loops, Budget(l), NEW a \in Admins,
           \/ \E g \in Goals, op \in {"pause", "resume", "stop"} : GoalRead(a, op, g)
           \/ GoalWrite(a) \/ GoalRefused(a)
    PROVE  Budget(l)'
<1>1. CASE GoalWrite(a)
  <2>1. admin[a].loop \in Loops
    BY <1>1, LoopsAssumption DEF GoalWrite, IndInv, RestOK, Call
  <2> QED BY <1>1, <2>1, EditBudget DEF GoalWrite
<1>2. CASE GoalRefused(a) \/ \E g \in Goals, op \in {"pause", "resume", "stop"} : GoalRead(a, op, g)
  <2>1. UNCHANGED <<row, task, worker, runs, lost>>
    BY <1>2 DEF GoalRefused, GoalRead, past
  <2>2. row'[l].ticks = row[l].ticks /\ lost'[l] = lost[l] /\ InHand(l)' = InHand(l)
    BY <2>1 DEF InHand
  <2> QED BY <2>1, <2>2, BudgetTypes, RowStepBudget
<1> QED BY <1>1, <1>2

\* A poll: a stale release counts what it takes away; a claim is a new debt
\* with the row in flight for it, and spawning hands the debt to one task.
LEMMA WorkerBudget ==
    ASSUME IndInv, IndInv', NEW l \in Loops, Budget(l), NEW w \in Workers, WorkerStep(w)
    PROVE  Budget(l)'
<1>t. /\ worker \in [Workers -> Poll] /\ worker[w] \in Poll /\ runs \in [Loops -> Nat]
      /\ row = [k \in Loops |-> row[k]] /\ row[l] \in Row
      /\ runs[l] \in Nat /\ lost[l] \in Nat /\ row[l].ticks \in Nat /\ InHand(l) \in {0, 1}
  BY BudgetTypes DEF IndInv, RestOK, RowsOK, Fits
<1>1. CASE ReleaseStaleClaims(w)
  <2>1. task' = task /\ runs' = runs /\ ToRun(l)' = ToRun(l)
    BY <1>1 DEF ReleaseStaleClaims, ToRun
  <2>2. ToSpawn(l)' \subseteq ToSpawn(l)
    BY <1>1, <1>t DEF ReleaseStaleClaims, ToSpawn, Stage, Poll
  <2>3. \/ row'[l] = row[l] /\ lost'[l] = lost[l]
        \/ InFlight(row[l]) /\ row'[l] = ReleaseStaleClaim(l, row[l]) /\ lost'[l] = lost[l] + 1
    BY <1>1 DEF ReleaseStaleClaims
  <2>4. row'[l].ticks + lost'[l] + InHand(l)' = row[l].ticks + lost[l] + InHand(l)
    BY <2>3, <1>t DEF InHand, InFlight, ReleaseStaleClaim, Released
  <2> QED BY <2>1, <2>2, <2>4, <1>t, NoNewDebt
<1>2. CASE ListDue(w)
  <2>1. UNCHANGED <<row, task, runs, lost>> /\ ToRun(l)' = ToRun(l)
    BY <1>2 DEF ListDue, past, ToRun
  <2>2. ToSpawn(l)' \subseteq ToSpawn(l)
    BY <1>2, <1>t DEF ListDue, ToSpawn, Poll
  <2>3. row'[l].ticks = row[l].ticks /\ lost'[l] = lost[l] /\ InHand(l)' = InHand(l)
    BY <2>1 DEF InHand
  <2> QED BY <2>1, <2>2, <2>3, <1>t, NoNewDebt
<1>3. ASSUME NEW k \in Loops, Claim(w, k) PROVE Budget(l)'
  <2>1. task' = task /\ runs' = runs /\ lost' = lost /\ ToRun(l)' = ToRun(l)
    BY <1>3 DEF Claim, ToRun
  <2>2. CASE ~(k = l /\ Claimable(row[k]))
    <3>1. ToSpawn(l)' \subseteq ToSpawn(l)
      BY <1>3, <1>t, <2>2 DEF Claim, ToSpawn, Poll
    <3>2. row'[l] = row[l]
      BY <1>3, <1>t, <2>2 DEF Claim
    <3> QED BY <2>1, <3>1, <3>2, <1>t, NoNewDebt DEF InHand
  <2>3. CASE k = l /\ Claimable(row[k])
    <3>1. ToSpawn(l)' \subseteq ToSpawn(l) \cup {w}
      BY <1>3, <1>t, <2>3 DEF Claim, ToSpawn, Poll
    <3>2. row'[l] = ClaimTick(row[l], w)
      BY <1>3, <1>t, <2>3 DEF Claim
    <3>3. row'[l].ticks = row[l].ticks /\ InHand(l) = 0 /\ InHand(l)' = 1
      BY <3>2, <2>3, <1>t, LoopsAssumption DEF ClaimTick, Row, InHand, InFlight, Claimable
    <3>4. /\ IsFiniteSet(ToSpawn(l)') /\ Cardinality(ToSpawn(l)') \in Nat
          /\ Cardinality(ToSpawn(l)) \in Nat
          /\ Cardinality(ToSpawn(l)') <= Cardinality(ToSpawn(l)) + 1
      BY <3>1, AtMostOneMore DEF Budget
    <3>5. Cardinality(ToRun(l)) \in Nat
      BY FS_CardinalityType DEF Budget
    <3> QED BY <2>1, <3>3, <3>4, <3>5, <1>t DEF Budget
  <2> QED BY <2>2, <2>3
<1>4. CASE SpawnTicks(w)
  <2>1. UNCHANGED <<row, runs, lost>> /\ InHand(l)' = InHand(l)
    BY <1>4 DEF SpawnTicks, past, InHand
  <2>2. ToSpawn(l)' = ToSpawn(l) \ {w}
    BY <1>4, <1>t DEF SpawnTicks, PollEnd, ToSpawn, Poll
  <2>3. PICK f \in [worker[w].claimed -> {t \in Tasks : task[t] = NoTask}] :
           /\ \A j, k \in worker[w].claimed : f[j] = f[k] => j = k
           /\ task' = [t \in Tasks |->
                  IF \E j \in worker[w].claimed : f[j] = t
                  THEN [NoTask EXCEPT !.stage = "waiting", !.worker = w,
                            !.loop = CHOOSE j \in worker[w].claimed : f[j] = t]
                  ELSE task[t]]
    BY <1>4 DEF SpawnTicks
  <2>4. \A t \in ToRun(l)' : t \in ToRun(l) \/ (l \in worker[w].claimed /\ t = f[l])
    <3> SUFFICES ASSUME NEW t \in ToRun(l)'
                 PROVE  t \in ToRun(l) \/ (l \in worker[w].claimed /\ t = f[l])
      OBVIOUS
    <3>1. t \in Tasks /\ task'[t].loop = l
      BY DEF ToRun
    <3>2. CASE \E j \in worker[w].claimed : f[j] = t
      <4>1. PICK j \in worker[w].claimed : j = (CHOOSE k \in worker[w].claimed : f[k] = t) /\ f[j] = t
        BY <3>2
      <4>2. task'[t] = [NoTask EXCEPT !.stage = "waiting", !.worker = w, !.loop = j]
        BY <2>3, <3>1, <3>2, <4>1
      <4>3. task'[t].loop = j
        BY <4>2 DEF NoTask
      <4> QED BY <3>1, <4>1, <4>3
    <3>3. CASE ~\E j \in worker[w].claimed : f[j] = t
      <4>1. task'[t] = task[t]
        BY <2>3, <3>1, <3>3
      <4> QED BY <4>1 DEF ToRun
    <3> QED BY <3>2, <3>3
  <2>5. CASE l \notin worker[w].claimed
    <3>1. ToRun(l)' \subseteq ToRun(l)
      BY <2>4, <2>5
    <3> QED BY <2>1, <2>2, <3>1, <1>t, NoNewDebt
  <2>6. CASE l \in worker[w].claimed
    <3>1. ToRun(l)' \subseteq ToRun(l) \cup {f[l]}
      BY <2>4, <2>6
    <3>2. w \in ToSpawn(l)
      BY <2>6 DEF ToSpawn
    <3>3. /\ Cardinality(ToSpawn(l)') = Cardinality(ToSpawn(l)) - 1 /\ IsFiniteSet(ToSpawn(l)')
          /\ Cardinality(ToSpawn(l)) \in Nat /\ Cardinality(ToRun(l)) \in Nat
      BY <2>2, <3>2, FS_RemoveElement, FS_CardinalityType DEF Budget
    <3>4. /\ IsFiniteSet(ToRun(l)') /\ Cardinality(ToRun(l)') \in Nat
          /\ Cardinality(ToRun(l)) \in Nat
          /\ Cardinality(ToRun(l)') <= Cardinality(ToRun(l)) + 1
      BY <3>1, AtMostOneMore DEF Budget
    <3> QED BY <2>1, <3>3, <3>4, <1>t DEF Budget
  <2> QED BY <2>5, <2>6
<1> QED BY <1>1, <1>2, <1>3, <1>4 DEF WorkerStep

\* A fault drops polls and tasks with their debts; the rows keep the claims.
LEMMA FaultBudget ==
    ASSUME IndInv, IndInv', NEW l \in Loops, Budget(l), NEW w \in Workers, Fault(w)
    PROVE  Budget(l)'
<1>1. UNCHANGED <<row, runs, lost>> /\ InHand(l)' = InHand(l)
  BY DEF Fault, PollFails, Shutdown, Drained, Crash, Restart, CountCrash, past, InHand
<1>2. ToRun(l)' \subseteq ToRun(l)
  BY DEF Fault, PollFails, Shutdown, Drained, Crash, Restart, ToRun, NoTask
<1>3. worker \in [Workers -> Poll] /\ worker[w] \in Poll
  BY DEF IndInv, RestOK
<1>4. ToSpawn(l)' \subseteq ToSpawn(l)
  BY <1>3 DEF Fault, PollFails, PollEnd, Shutdown, Drained, Crash, Restart, Stage, ToSpawn, Poll
<1> QED BY <1>1, <1>2, <1>4, BudgetTypes, NoNewDebt

\* A task owes one turn until its turn starts or a defer gives the claim up.
LEMMA TaskBudget ==
    ASSUME IndInv, IndInv', NEW l \in Loops, Budget(l), NEW t \in Tasks,
           TaskStep(t) \/ Heartbeat(t) \/ HeartbeatFails(t) \/ StoreRaises(t)
    PROVE  Budget(l)'
<1> DEFINE k == task[t].loop
           w == task[t].worker
<1>1. task[t] \in Tick /\ k \in Loops /\ w \in Workers
  <2>1. task[t] # NoTask
    BY DEF TaskStep, Heartbeat, Admit, BusyChecked, Defer, InvokeTick, InvokeFails, TurnEnds,
           InvokeTimesOut, Complete, StoreRaises, HeartbeatFails, NoTask
  <2> QED BY <2>1 DEF IndInv, RestOK, Tick
<1>2. /\ row = [j \in Loops |-> row[j]] /\ row[l] \in Row /\ row[k] \in Row
      /\ runs \in [Loops -> Nat] /\ task \in [Tasks -> Tick \cup {NoTask}]
  BY <1>1 DEF IndInv, RestOK, RowsOK, Fits
<1>3. runs[l] \in Nat /\ lost[l] \in Nat /\ row[l].ticks \in Nat /\ InHand(l) \in {0, 1}
  BY BudgetTypes
<1>4. CASE Admit(t) \/ BusyChecked(t) \/ InvokeFails(t) \/ TurnEnds(t) \/ InvokeTimesOut(t)
           \/ StoreRaises(t)
  <2>1. UNCHANGED <<row, worker, runs, lost>>
    BY <1>4 DEF Admit, BusyChecked, InvokeFails, TurnEnds, InvokeTimesOut, StoreRaises,
                CountCrash, past
  <2>2. \A u \in Tasks : u \in ToRun(l)' => u \in ToRun(l)
    <3> SUFFICES ASSUME NEW u \in Tasks, u \in ToRun(l)' PROVE u \in ToRun(l)
      OBVIOUS
    <3>1. CASE u # t
      <4>1. task'[u] = task[u]
        BY <1>2, <1>4, <3>1 DEF Admit, BusyChecked, InvokeFails, TurnEnds, InvokeTimesOut,
                                StoreRaises, Goto
      <4> QED BY <4>1 DEF ToRun
    <3>2. CASE u = t
      BY <1>1, <1>2, <1>4, <3>2 DEF Admit, BusyChecked, InvokeFails, TurnEnds, InvokeTimesOut,
                                StoreRaises, Goto, ToRun, NoTask, Tick
    <3> QED BY <3>1, <3>2
  <2>3. ToRun(l)' \subseteq ToRun(l) /\ ToSpawn(l)' \subseteq ToSpawn(l)
    BY <2>1, <2>2 DEF ToSpawn, ToRun
  <2>4. row'[l].ticks + lost'[l] + InHand(l)' >= row[l].ticks + lost[l] + InHand(l)
    BY <2>1, <1>3 DEF InHand
  <2> QED BY <2>1, <2>3, <2>4, NoNewDebt
<1>5. CASE Heartbeat(t) \/ HeartbeatFails(t)
  <2>1. UNCHANGED <<worker, runs, lost>>
    BY <1>5 DEF Heartbeat, HeartbeatFails, CountCrash, past
  <2>2. ToRun(l)' \subseteq ToRun(l) /\ ToSpawn(l)' \subseteq ToSpawn(l)
    <3>1. \A u \in Tasks : task'[u].loop = task[u].loop /\ task'[u].stage = task[u].stage
      BY <1>1, <1>2, <1>5 DEF Heartbeat, HeartbeatFails, Tick
    <3> QED BY <2>1, <3>1 DEF ToRun, ToSpawn
  <2>3. row'[l].ticks = row[l].ticks /\ row'[l].worker = row[l].worker
    BY <1>2, <1>5 DEF Heartbeat, HeartbeatFails, RenewTickClaim, Row
  <2>4. row'[l].ticks + lost'[l] + InHand(l)' >= row[l].ticks + lost[l] + InHand(l)
    BY <2>1, <2>3, <1>3 DEF InHand, InFlight
  <2> QED BY <2>1, <2>2, <2>4, NoNewDebt
<1>6. CASE Complete(t)
  <2>1. UNCHANGED <<worker, runs, lost>> /\ task' = [task EXCEPT ![t] = NoTask]
    BY <1>6 DEF Complete, past
  <2>2. ToRun(l)' \subseteq ToRun(l) /\ ToSpawn(l)' \subseteq ToSpawn(l)
    BY <1>2, <2>1 DEF ToRun, ToSpawn, NoTask
  <2>3. row'[l].ticks + InHand(l)' >= row[l].ticks + InHand(l)
    <3>1. CASE row' = row
      BY <3>1, <1>3 DEF InHand
    <3>2. CASE Owned(row[k], w) /\ \E new \in Completed(t, k, row[k]) : row' = [row EXCEPT ![k] = new]
      <4>1. PICK new \in Completed(t, k, row[k]) : row' = [row EXCEPT ![k] = new]
        BY <3>2
      <4>2. new.ticks = row[k].ticks + 1 /\ new.worker = None
        BY <4>1 DEF Completed, CompleteTickOk, CompleteTickError, Released
      <4>3. CASE l = k
        <5>1. row'[l] = new
          BY <1>2, <4>1, <4>3
        <5> QED BY <1>3, <4>2, <4>3, <5>1 DEF InHand, InFlight
      <4>4. CASE l # k
        BY <1>2, <1>3, <4>1, <4>4 DEF InHand
      <4> QED BY <4>3, <4>4
    <3> QED BY <1>6, <3>1, <3>2 DEF Complete
  <2>4. row'[l].ticks \in Nat /\ InHand(l)' \in {0, 1}
    BY BudgetTypesNext
  <2>5. row'[l].ticks + lost'[l] + InHand(l)' >= row[l].ticks + lost[l] + InHand(l)
    BY <1>3, <2>1, <2>3, <2>4
  <2> QED BY <2>1, <2>2, <2>5, NoNewDebt
<1>7. CASE Defer(t)
  <2>1. UNCHANGED <<worker, runs, lost>> /\ task' = [task EXCEPT ![t] = NoTask]
    BY <1>7 DEF Defer, past
  <2>2. ToRun(l)' \subseteq ToRun(l) \ {t} /\ ToSpawn(l)' = ToSpawn(l)
    BY <1>1, <1>2, <2>1 DEF ToRun, ToSpawn, NoTask
  <2>3. CASE l = k
    <3>1. t \in ToRun(l)
      BY <1>7, <2>3 DEF Defer, ToRun
    <3>2. row'[l].ticks = row[l].ticks
      BY <1>2, <1>7 DEF Defer, DeferTick, Released
    <3>3. row'[l].ticks \in Nat /\ InHand(l)' \in {0, 1}
      BY BudgetTypesNext
    <3>4. runs'[l] - (row'[l].ticks + lost'[l] + InHand(l)')
              <= runs[l] - (row[l].ticks + lost[l] + InHand(l)) + 1
      BY <1>3, <2>1, <3>2, <3>3
    <3> QED BY <2>1, <2>2, <3>1, <3>4, DebtPaid
  <2>4. CASE l # k
    <3>1. row'[l] = row[l]
      BY <1>2, <1>7, <2>4 DEF Defer
    <3>2. row'[l].ticks + lost'[l] + InHand(l)' >= row[l].ticks + lost[l] + InHand(l)
      BY <1>3, <2>1, <3>1 DEF InHand
    <3> QED BY <2>1, <2>2, <3>2, NoNewDebt
  <2> QED BY <2>3, <2>4
<1>8. CASE InvokeTick(t)
  <2>1. UNCHANGED <<row, worker, lost>> /\ ToSpawn(l)' = ToSpawn(l) /\ InHand(l)' = InHand(l)
    BY <1>8 DEF InvokeTick, ToSpawn, InHand
  <2>2. \/ task' = [task EXCEPT ![t].stage = "defer"] /\ runs' = runs
        \/ task' = [task EXCEPT ![t].stage = "turn"] /\ runs' = [runs EXCEPT ![k] = @ + 1]
    BY <1>8 DEF InvokeTick, Goto
  <2>3. CASE task' = [task EXCEPT ![t].stage = "defer"] /\ runs' = runs
    <3>1. \A u \in Tasks : u \in ToRun(l)' => u \in ToRun(l)
      BY <1>1, <1>2, <1>8, <2>3 DEF InvokeTick, ToRun, Tick
    <3>2. ToRun(l)' \subseteq ToRun(l)
      BY <3>1 DEF ToRun
    <3>3. row'[l].ticks + lost'[l] + InHand(l)' >= row[l].ticks + lost[l] + InHand(l)
      BY <1>3, <2>1
    <3> QED BY <2>1, <2>3, <3>2, <3>3, NoNewDebt
  <2>4. CASE task' = [task EXCEPT ![t].stage = "turn"] /\ runs' = [runs EXCEPT ![k] = @ + 1]
    <3>1. \A u \in Tasks : u \in ToRun(l)' => u \in ToRun(l) \ {t}
      BY <1>1, <1>2, <2>4 DEF ToRun, Tick
    <3>2. ToRun(l)' \subseteq ToRun(l) \ {t}
      BY <3>1 DEF ToRun
    <3>3. CASE l = k
      <4>1. t \in ToRun(l)
        BY <1>8, <3>3 DEF InvokeTick, ToRun
      <4>2. runs'[l] = runs[l] + 1
        BY <1>2, <2>4, <3>3
      <4>3. runs'[l] - (row'[l].ticks + lost'[l] + InHand(l)')
                <= runs[l] - (row[l].ticks + lost[l] + InHand(l)) + 1
        BY <1>3, <2>1, <4>2
      <4> QED BY <2>1, <3>2, <4>1, <4>3, DebtPaid
    <3>4. CASE l # k
      <4>1. runs'[l] = runs[l]
        BY <1>2, <2>4, <3>4
      <4>2. row'[l].ticks + lost'[l] + InHand(l)' >= row[l].ticks + lost[l] + InHand(l)
        BY <1>3, <2>1
      <4> QED BY <2>1, <3>2, <4>1, <4>2, NoNewDebt
    <3> QED BY <3>3, <3>4
  <2> QED BY <2>2, <2>3, <2>4
<1> QED BY <1>4, <1>5, <1>6, <1>7, <1>8 DEF TaskStep

\* Every step keeps the account of every loop.
THEOREM StepAccount == AccountInv /\ [Next]_vars => AccountInv'
<1> SUFFICES ASSUME AccountInv, [Next]_vars PROVE AccountInv'
  OBVIOUS
<1>1. IndInv /\ IndInv'
  BY StepInd DEF AccountInv
<1>2. ASSUME NEW l \in Loops PROVE Budget(l)'
  <2>1. Budget(l)
    BY DEF AccountInv
  <2>2. ASSUME NEW k \in Loops, Create(k) \/ BecomesDue(k) \/ BecomesStale(k)
        PROVE  Budget(l)'
    BY <1>1, <2>1, <2>2, OutsideBudget
  <2>3. ASSUME NEW k \in Loops, EditLoop(k) PROVE Budget(l)'
    BY <1>1, <2>1, <2>3, EditBudget DEF EditLoop
  <2>4. ASSUME NEW a \in Admins,
               \/ \E g \in Goals, op \in {"pause", "resume", "stop"} : GoalRead(a, op, g)
               \/ GoalWrite(a) \/ GoalRefused(a)
        PROVE  Budget(l)'
    BY <1>1, <2>1, <2>4, GoalBudget
  <2>5. ASSUME NEW w \in Workers, WorkerStep(w) PROVE Budget(l)'
    BY <1>1, <2>1, <2>5, WorkerBudget
  <2>6. ASSUME NEW w \in Workers, Fault(w) PROVE Budget(l)'
    BY <1>1, <2>1, <2>6, FaultBudget
  <2>7. ASSUME NEW t \in Tasks, TaskStep(t) \/ Heartbeat(t) \/ HeartbeatFails(t) \/ StoreRaises(t)
        PROVE  Budget(l)'
    BY <1>1, <2>1, <2>7, TaskBudget
  <2>8. ASSUME NEW s \in Sessions, OtherTurn(s) PROVE Budget(l)'
    BY <1>1, <2>1, <2>8, OutsideBudget
  <2>9. CASE UNCHANGED vars
    BY <2>1, <2>9 DEF vars, past, Budget, ToRun, ToSpawn, InHand
  <2> QED BY <2>2, <2>3, <2>4, <2>5, <2>6, <2>7, <2>8, <2>9 DEF Next
<1> QED BY <1>1, <1>2 DEF AccountInv

\* However late the tasks of old claims write, no turn escapes the count: a
\* loop has run at most the ticks counted, the claims lost and the one in hand.
THEOREM AccountSafety == Spec => []TicksAccounted
<1>1. AccountInv => TicksAccounted
  <2> SUFFICES ASSUME AccountInv, NEW l \in Loops
               PROVE  runs[l] <= row[l].ticks + lost[l] + (IF InFlight(row[l]) THEN 1 ELSE 0)
    BY DEF TicksAccounted
  <2>1. Budget(l) /\ IndInv
    BY DEF AccountInv
  <2>2. Cardinality(ToRun(l)) \in Nat /\ Cardinality(ToSpawn(l)) \in Nat
    BY <2>1, FS_CardinalityType DEF Budget
  <2> QED BY <2>1, <2>2, BudgetTypes DEF Budget, InHand
<1> QED BY <1>1, InitAccount, StepAccount, PTL DEF Spec
=============================================================================
