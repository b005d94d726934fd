------------------------ MODULE SessionTurnsProofs ------------------------
(*************************************************************************)
(* Exclusion of turns and the seat of the current turn, for any number   *)
(* of requests, replicas and queue sizes, as long as no running turn     *)
(* outlasts the stale window.                                            *)
(*                                                                       *)
(* The argument: a claim is fresh and carries the holder's own id from   *)
(* the statement that took it to the statement that releases it          *)
(* (LockInv). try_acquire succeeds only on a free or stale row, hence    *)
(* when nobody is in that stretch; a drain hands its claim to the turn   *)
(* it starts without a gap.                                              *)
(*                                                                       *)
(* The holder of the claim is also the current turn and the active task  *)
(* of the session from its start to its end (SeatInv); with the books of *)
(* AdmissionProofs.tla this is all of AdmissionSafe, and what            *)
(* remove_async relies on.                                               *)
(*************************************************************************)
EXTENDS AdmissionProofs

IndInv ==
    /\ pc \in [Procs -> Places]
    /\ DOMAIN item = Procs
    /\ LockInv

\* Nobody holds the lock when try_acquire succeeds.
LEMMA FreeMeansUnheld ==
    ASSUME IndInv, LockFree
    PROVE  \A p \in Procs : ~Holding(p)
  BY DEF IndInv, LockInv, LockFree

\* A step that keeps the claim and lets no process start or go on holding
\* under a different id preserves LockInv.
LEMMA HolderKept ==
    ASSUME LockInv,
           lock' = lock, stale' = stale,
           \A p \in Procs : Holding(p)' => Holding(p) /\ Token(p)' = Token(p)
    PROVE  LockInv'
  BY DEF LockInv

\* A step that leaves no holder preserves LockInv, whatever the lock does.
LEMMA NoHolder ==
    ASSUME \A p \in Procs : ~Holding(p)'
    PROVE  LockInv'
  BY DEF LockInv

\* A step after which p0 is the only holder, with a fresh claim.
LEMMA OneHolder ==
    ASSUME NEW p0,
           \A p \in Procs : Holding(p)' => p = p0,
           lock' = {Token(p0)'}, ~stale'
    PROVE  LockInv'
  BY DEF LockInv

\* Nobody holds the lock before the first request.
THEOREM InitInd == Init => IndInv
  BY DEF Init, IndInv, LockInv, Holding, Places

-----------------------------------------------------------------------------
\* Starting to drain moves the drainer alone, and gives it no lock.
LEMMA EnterFacts ==
    ASSUME NEW p \in Procs, NEW a, NEW cur, IndInv,
           EnterDrain(p, a, cur)
    PROVE  /\ pc' \in [Procs -> Places]
           /\ DOMAIN item' = Procs
           /\ pc'[p] \in {"drainAcq", "idle", "done"}
           /\ \A q \in Procs \ {p} : pc'[q] = pc[q] /\ item'[q] = item[q]
<1>1. CASE cur = NoReq /\ a.followUp # <<>>
  BY <1>1 DEF EnterDrain, PopInto, IndInv, Places
<1>2. CASE ~(cur = NoReq /\ a.followUp # <<>>)
  <2> DEFINE pcs == [pc EXCEPT ![p] = Ended(p)]
  <2>1. ReturnFromDrain(p, a, cur, pcs, item)
    BY <1>2 DEF EnterDrain
  <2>2. /\ pc' = pcs \/ pc' = [pcs EXCEPT ![p] = "drainAcq"]
        /\ \E it : item' = [item EXCEPT ![p] = it]
    BY <2>1 DEF ReturnFromDrain, PopInto, ForgetItem
  <2>3. Ended(p) \in {"idle", "done"}
    BY DEF Ended
  <2> QED BY <2>2, <2>3 DEF IndInv, Places
<1> QED BY <1>1, <1>2

\* A step that drains on in p and keeps the lock, when p held no lock.
LEMMA DrainOn ==
    ASSUME NEW p \in Procs, NEW a, NEW cur, IndInv, ~Holding(p),
           EnterDrain(p, a, cur), lock' = lock, stale' = stale
    PROVE  IndInv'
<1>1. /\ pc' \in [Procs -> Places]
      /\ DOMAIN item' = Procs
      /\ pc'[p] \in {"drainAcq", "idle", "done"}
      /\ \A q \in Procs \ {p} : pc'[q] = pc[q] /\ item'[q] = item[q]
  BY EnterFacts
<1>2. \A q \in Procs : Holding(q)' => Holding(q) /\ Token(q)' = Token(q)
  BY <1>1 DEF Holding, Token
<1>3. LockInv'
  BY <1>2, HolderKept DEF IndInv
<1> QED BY <1>1, <1>3 DEF IndInv

\* The steps of a drain keep the lock.
LEMMA DrainStep ==
    ASSUME NEW p \in Requests \cup {Retry, WakeTask}, IndInv, Drain(p)
    PROVE  IndInv'
<1>p. p \in Procs
  BY DEF Procs
<1>1. CASE DrainAcquire(p)
  <2>1. CASE LockFree
    <3>1. \A q \in Procs : ~Holding(q)
      BY <2>1, FreeMeansUnheld
    <3>2. pc' = [pc EXCEPT ![p] = "drainGot"] /\ item' = item
          /\ lock' = {item[p].rid} /\ stale' = FALSE
      BY <1>1, <2>1 DEF DrainAcquire, TryAcquire
    <3>3. \A q \in Procs : Holding(q)' => q = p
      BY <3>1, <3>2, <1>p DEF Holding, IndInv
    <3>4. Token(p)' = item[p].rid
      BY <3>2, <1>p DEF Token, IndInv
    <3>5. LockInv'
      BY <3>2, <3>3, <3>4, OneHolder
    <3> QED BY <3>2, <3>5, <1>p DEF IndInv, Places
  <2>2. CASE ~LockFree
    <3>1. pc' = [pc EXCEPT ![p] = "drainDenied"] /\ item' = item
          /\ lock' = lock /\ stale' = stale
      BY <1>1, <2>2 DEF DrainAcquire, TryAcquire, lockVars
    <3>2. \A q \in Procs : Holding(q)' => Holding(q) /\ Token(q)' = Token(q)
      BY <3>1, <1>p DEF Holding, Token, IndInv
    <3> QED BY <3>1, <3>2, HolderKept, <1>p DEF IndInv, Places
  <2> QED BY <2>1, <2>2
<1>2. CASE DrainDropped(p) \/ DrainSkipped(p)
  <2>1. pc[p] = "drainGot" /\ pc' = [pc EXCEPT ![p] = "drainDrop"]
        /\ item' = item /\ lock' = lock /\ stale' = stale
    BY <1>2 DEF DrainDropped, DrainSkipped, lockVars
  <2>2. \A q \in Procs : Holding(q)' => Holding(q) /\ Token(q)' = Token(q)
    BY <2>1, <1>p DEF Holding, Token, IndInv
  <2> QED BY <2>1, <2>2, HolderKept, <1>p DEF IndInv, Places
<1>3. CASE DrainStart(p)
  <2> DEFINE r == item[p].rid
             pcs == CancelRetry([pc EXCEPT ![p] = Ended(p), ![r] = "sched"])
  <2>1. /\ pc[p] = "drainGot" /\ lock' = lock /\ stale' = stale
        /\ ReturnFromDrain(p, FinishFollowUpDrain(adm, r), r, pcs,
                           ForgetItem(item, Retry))
    BY <1>3 DEF DrainStart, lockVars
  <2>2. /\ pc' = pcs \/ pc' = [pcs EXCEPT ![p] = "drainAcq"]
        /\ \E it : item' = [ForgetItem(item, Retry) EXCEPT ![p] = it]
    BY <2>1 DEF ReturnFromDrain, PopInto, ForgetItem
  <2>3. Ended(p) \in {"idle", "done"}
    BY DEF Ended
  <2>4. Holding(p) /\ lock = {r} /\ ~stale
        /\ \A q \in Procs \ {p} : ~Holding(q)
    BY <2>1, <1>p DEF Holding, Token, IndInv, LockInv
  <2>5. /\ pc' \in [Procs -> Places]
        /\ DOMAIN item' = Procs
        /\ \A q \in Procs \ {p, r} : pc'[q] = pc[q] \/ pc'[q] = "idle"
        /\ r # p => pc'[p] \in {"idle", "done", "drainAcq"}
        /\ pc'[r] \in {"sched", "idle", "drainAcq"} \/ r \notin Procs
    BY <2>2, <2>3, <1>p DEF CancelRetry, ForgetItem, IndInv, Places
  <2>6. \A q \in Procs : Holding(q)' => q = r /\ Token(q)' = r
    BY <2>4, <2>5, <1>p DEF Holding, Token
  <2>7. LockInv'
    BY <2>1, <2>4, <2>6 DEF LockInv
  <2> QED BY <2>5, <2>7 DEF IndInv
<1>4. CASE DrainRelease(p)
  <2>1. pc[p] = "drainDrop" /\ pc' = [pc EXCEPT ![p] = "drainDropDone"]
        /\ item' = item
    BY <1>4 DEF DrainRelease
  <2>2. \A q \in Procs : ~Holding(q)'
    BY <2>1, <1>p DEF Holding, IndInv, LockInv
  <2> QED BY <2>1, <2>2, NoHolder, <1>p DEF IndInv, Places
<1>5. CASE DrainAgain(p) \/ DrainGiveUp(p)
  <2>1. /\ pc[p] \in {"drainDropDone", "drainDenied"}
        /\ lock' = lock /\ stale' = stale
        /\ \E a : EnterDrain(p, a, current)
    BY <1>5 DEF DrainAgain, DrainGiveUp, lockVars
  <2>2. ~Holding(p)
    BY <2>1 DEF Holding
  <2> QED BY <2>1, <2>2, <1>p, DrainOn
<1>6. CASE DrainRequeue(p)
  <2> DEFINE a == RequeueFollowUpFront(adm, Requeued(item[p]))
             pcs == ScheduleRetry([pc EXCEPT ![p] = Ended(p)], p)
  <2>1. /\ pc[p] = "drainDenied" /\ lock' = lock /\ stale' = stale
        /\ \/ EnterDrain(p, a, current)
           \/ ReturnFromDrain(p, a, current, pcs, item)
    BY <1>6 DEF DrainRequeue, lockVars
  <2>2. ~Holding(p)
    BY <2>1 DEF Holding
  <2>3. CASE EnterDrain(p, a, current)
    BY <2>1, <2>2, <2>3, <1>p, DrainOn
  <2>4. CASE ReturnFromDrain(p, a, current, pcs, item)
    <3>1. /\ pc' = pcs \/ pc' = [pcs EXCEPT ![p] = "drainAcq"]
          /\ \E it : item' = [item EXCEPT ![p] = it]
      BY <2>4 DEF ReturnFromDrain, PopInto, ForgetItem
    <3>2. Ended(p) \in {"idle", "done"}
      BY DEF Ended
    <3>3. /\ pc' \in [Procs -> Places]
          /\ DOMAIN item' = Procs
          /\ pc'[p] \in {"idle", "done", "sleep", "drainAcq"}
          /\ \A q \in Procs \ {p} : /\ pc'[q] = pc[q] \/ pc'[q] = "sleep"
                                    /\ item'[q] = item[q]
      BY <3>1, <3>2, <1>p DEF ScheduleRetry, IndInv, Places
    <3>4. \A q \in Procs : Holding(q)' => Holding(q) /\ Token(q)' = Token(q)
      BY <3>3, <1>p DEF Holding, Token
    <3>5. LockInv'
      BY <3>4, <2>1, HolderKept DEF IndInv
    <3> QED BY <3>3, <3>5 DEF IndInv
  <2> QED BY <2>1, <2>3, <2>4
<1> QED BY <1>1, <1>2, <1>3, <1>4, <1>5, <1>6 DEF Drain

-----------------------------------------------------------------------------
\* What a request's handler and turn task do.
LEMMA RequestStep ==
    ASSUME NEW r \in Requests, IndInv, Handle(r) \/ Turn(r)
    PROVE  IndInv'
<1>r. r \in Procs
  BY DEF Procs
<1>1. CASE Acquire(r)
  <2>1. CASE LockFree
    <3>1. \A q \in Procs : ~Holding(q)
      BY <2>1, FreeMeansUnheld
    <3>2. pc' = [pc EXCEPT ![r] = "got"] /\ item' = item
          /\ lock' = {r} /\ stale' = FALSE
      BY <1>1, <2>1 DEF Acquire, TryAcquire
    <3>3. \A q \in Procs : Holding(q)' => q = r
      BY <3>1, <3>2, <1>r DEF Holding, IndInv
    <3>4. Token(r)' = r
      BY <3>2, <1>r DEF Token, IndInv
    <3>5. LockInv'
      BY <3>2, <3>3, <3>4, OneHolder
    <3> QED BY <3>2, <3>5, <1>r DEF IndInv, Places
  <2>2. CASE ~LockFree
    <3>1. pc' = [pc EXCEPT ![r] = "denied"] /\ item' = item
          /\ lock' = lock /\ stale' = stale
      BY <1>1, <2>2 DEF Acquire, TryAcquire, lockVars
    <3>2. \A q \in Procs : Holding(q)' => Holding(q) /\ Token(q)' = Token(q)
      BY <3>1, <1>r DEF Holding, Token, IndInv
    <3> QED BY <3>1, <3>2, HolderKept, <1>r DEF IndInv, Places
  <2> QED BY <2>1, <2>2
<1>2. CASE Got(r) \/ GotBadBody(r) \/ Busy(r) \/ TurnBegin(r) \/ TurnEnd(r)
           \/ TickReturns(r)
  <2>1. /\ lock' = lock /\ stale' = stale /\ item' = item
        /\ \/ /\ pc[r] \in {"got", "sched", "turn"}
              /\ \E x \in {"sched", "turn", "rel"} : pc' = [pc EXCEPT ![r] = x]
           \/ pc' = [pc EXCEPT ![r] = "done"]
    BY <1>2 DEF Got, GotBadBody, Busy, TurnBegin, TurnEnd, TickReturns, lockVars
  <2>2. pc' \in [Procs -> Places]
    BY <2>1, <1>r DEF IndInv, Places
  <2>3. \A q \in Procs : Holding(q)' => Holding(q) /\ Token(q)' = Token(q)
    BY <2>1, <1>r DEF Holding, Token, IndInv
  <2> QED BY <2>1, <2>2, <2>3, HolderKept DEF IndInv
<1>3. CASE QueueBusy(r)
  <2>1. /\ lock' = lock /\ stale' = stale /\ item' = item
        /\ \/ pc' = [pc EXCEPT ![r] = "done"]
           \/ pc' = [pc EXCEPT ![r] = "queued"]
           \/ pc' = [pc EXCEPT ![r] = "queued", ![Retry] = "sleep"]
    BY <1>3 DEF QueueBusy, ScheduleRetry, lockVars
  <2>2. pc' \in [Procs -> Places]
    BY <2>1, <1>r DEF IndInv, Places
  <2>3. \A q \in Procs : Holding(q)' => Holding(q) /\ Token(q)' = Token(q)
    BY <2>1, <1>r DEF Holding, Token, IndInv
  <2> QED BY <2>1, <2>2, <2>3, HolderKept DEF IndInv
<1>4. CASE TurnRelease(r)
  <2>1. /\ pc[r] = "rel" /\ item' = item
        /\ \E x \in {"done", "relDone"} : pc' = [pc EXCEPT ![r] = x]
    BY <1>4 DEF TurnRelease
  <2>2. \A q \in Procs : ~Holding(q)'
    BY <2>1, <1>r DEF Holding, IndInv, LockInv
  <2> QED BY <2>1, <2>2, NoHolder, <1>r DEF IndInv, Places
<1>5. CASE TurnReturns(r)
  <2>1. /\ pc[r] = "relDone" /\ lock' = lock /\ stale' = stale
        /\ EnterDrain(r, RestorePromotedSteers(adm), CurrentAfter(r))
    BY <1>5 DEF TurnReturns, lockVars
  <2>2. ~Holding(r)
    BY <2>1 DEF Holding
  <2> QED BY <2>1, <2>2, <1>r, DrainOn
<1>6. ASSUME NEW w \in WakeReqs, TurnWakes(r, w) PROVE IndInv'
  <2>1. /\ pc[r] = "relDone" /\ lock' = lock /\ stale' = stale
        /\ pc' = [pc EXCEPT ![r] = "drainAcq"]
        /\ \E it : item' = [item EXCEPT ![r] = it]
    BY <1>6 DEF TurnWakes, PopInto, lockVars
  <2>2. \A q \in Procs : Holding(q)' => Holding(q) /\ Token(q)' = Token(q)
    BY <2>1, <1>r DEF Holding, Token, IndInv
  <2> QED BY <2>1, <2>2, HolderKept, <1>r DEF IndInv, Places
<1> QED BY <1>1, <1>2, <1>3, <1>4, <1>5, <1>6 DEF Handle, Turn

\* The lock's users outside the bus.
LEMMA ForeignStep ==
    ASSUME NEW f \in Foreign, IndInv,
           ForeignAcquire(f) \/ ForeignCrash(f) \/ TurnEnd(f) \/ TurnRelease(f)
    PROVE  IndInv'
<1>f. f \in Procs
  BY DEF Procs
<1>1. CASE ForeignAcquire(f)
  <2>1. \A q \in Procs : ~Holding(q)
    BY <1>1, FreeMeansUnheld DEF ForeignAcquire
  <2>2. pc' = [pc EXCEPT ![f] = "turn"] /\ item' = item
        /\ lock' = {f} /\ stale' = FALSE
    BY <1>1 DEF ForeignAcquire
  <2>3. \A q \in Procs : Holding(q)' => q = f
    BY <2>1, <2>2, <1>f DEF Holding, IndInv
  <2>4. Token(f)' = f
    BY <2>2, <1>f DEF Token, IndInv
  <2>5. LockInv'
    BY <2>2, <2>3, <2>4, OneHolder
  <2> QED BY <2>2, <2>5, <1>f DEF IndInv, Places
<1>2. CASE ForeignCrash(f) \/ TurnEnd(f)
  <2>1. /\ lock' = lock /\ stale' = stale /\ item' = item
        /\ \/ pc[f] = "turn" /\ pc' = [pc EXCEPT ![f] = "rel"]
           \/ pc' = [pc EXCEPT ![f] = "done"]
    BY <1>2 DEF ForeignCrash, TurnEnd, lockVars
  <2>2. \A q \in Procs : Holding(q)' => Holding(q) /\ Token(q)' = Token(q)
    BY <2>1, <1>f DEF Holding, Token, IndInv
  <2>3. pc' \in [Procs -> Places]
    BY <2>1, <1>f DEF IndInv, Places
  <2> QED BY <2>1, <2>2, <2>3, HolderKept DEF IndInv
<1>3. CASE TurnRelease(f)
  <2>1. /\ pc[f] = "rel" /\ item' = item
        /\ \E x \in {"done", "relDone"} : pc' = [pc EXCEPT ![f] = x]
    BY <1>3 DEF TurnRelease
  <2>2. \A q \in Procs : ~Holding(q)'
    BY <2>1, <1>f DEF Holding, IndInv, LockInv
  <2> QED BY <2>1, <2>2, NoHolder, <1>f DEF IndInv, Places
<1> QED BY <1>1, <1>2, <1>3

-----------------------------------------------------------------------------
\* The retry and wake tasks, the client's calls and the background runs.
LEMMA OtherStep ==
    ASSUME IndInv,
           \/ Helper \/ Client
           \/ \E r \in Requests : TurnInject(r)
           \/ \E r \in Requests, w \in WakeReqs : TurnAwaits(r, w)
           \/ \E w \in WakeReqs : RunsFinish(w)
    PROVE  IndInv'
<1>p. Retry \in Procs /\ WakeTask \in Procs /\ Requests \subseteq Procs
  BY DEF Procs
<1>1. CASE RetryFires
  <2>1. /\ pc[Retry] = "sleep" /\ lock' = lock /\ stale' = stale
        /\ EnterDrain(Retry, adm, current)
    BY <1>1 DEF RetryFires, lockVars
  <2>2. ~Holding(Retry)
    BY <2>1 DEF Holding
  <2> QED BY <2>1, <2>2, <1>p, DrainOn
<1>2. ASSUME NEW w \in WakeReqs, WakeFires(w) PROVE IndInv'
  <2>1. /\ pc[WakeTask] = "sleep" /\ lock' = lock /\ stale' = stale
        /\ pc' = [pc EXCEPT ![WakeTask] = "drainAcq"]
        /\ \E it : item' = [item EXCEPT ![WakeTask] = it]
    BY <1>2 DEF WakeFires, PopInto, lockVars
  <2>2. \A q \in Procs : Holding(q)' => Holding(q) /\ Token(q)' = Token(q)
    BY <2>1, <1>p DEF Holding, Token, IndInv
  <2> QED BY <2>1, <2>2, HolderKept, <1>p DEF IndInv, Places
<1>3. CASE WakeIdles
  <2>1. /\ pc[WakeTask] = "sleep" /\ lock' = lock /\ stale' = stale
        /\ pc' = [pc EXCEPT ![WakeTask] = "idle"] /\ item' = item
    BY <1>3 DEF WakeIdles, lockVars
  <2>2. \A q \in Procs : Holding(q)' => Holding(q) /\ Token(q)' = Token(q)
    BY <2>1, <1>p DEF Holding, Token, IndInv
  <2> QED BY <2>1, <2>2, HolderKept, <1>p DEF IndInv, Places
<1>4. ASSUME NEW r \in Requests, Arrive(r) PROVE IndInv'
  <2>1. /\ lock' = lock /\ stale' = stale
        /\ pc' = [pc EXCEPT ![r] = "acq"] /\ item' = item
    BY <1>4 DEF Arrive, lockVars
  <2>2. \A q \in Procs : Holding(q)' => Holding(q) /\ Token(q)' = Token(q)
    BY <2>1, <1>p DEF Holding, Token, IndInv
  <2> QED BY <2>1, <2>2, HolderKept, <1>p DEF IndInv, Places
<1>5. ASSUME NEW w \in WakeReqs, RunsFinish(w) PROVE IndInv'
  <2>1. /\ lock' = lock /\ stale' = stale /\ item' = item
        /\ pc' = pc \/ pc' = [pc EXCEPT ![WakeTask] = "sleep"]
    BY <1>5, <1>p DEF RunsFinish, lockVars, IndInv
  <2>2. \A q \in Procs : Holding(q)' => Holding(q) /\ Token(q)' = Token(q)
    BY <2>1, <1>p DEF Holding, Token, IndInv
  <2>3. pc' \in [Procs -> Places]
    BY <2>1, <1>p DEF IndInv, Places
  <2> QED BY <2>1, <2>2, <2>3, HolderKept DEF IndInv
<1>6. ASSUME UNCHANGED <<lock, stale, pc, item>> PROVE IndInv'
  BY <1>6 DEF IndInv, LockInv, Holding, Token
<1>7. CASE Steer \/ Cancel \/ \E r \in QueueReqs : Promote(r) \/ Drop(r)
  BY <1>6, <1>7 DEF Steer, Cancel, Promote, Drop, lockVars
<1>8. CASE \/ \E r \in Requests : TurnInject(r)
           \/ \E r \in Requests, w \in WakeReqs : TurnAwaits(r, w)
  BY <1>6, <1>8 DEF TurnInject, TurnAwaits, lockVars
<1> QED BY <1>1, <1>2, <1>3, <1>4, <1>5, <1>7, <1>8 DEF Helper, Client

\* Killing a task at its await leaves no new holder, and takes the claim away
\* from nobody else.
LEMMA KillStep ==
    ASSUME NEW k \in Procs, NEW x \in {"idle", "done"}, IndInv,
           KilledAtAwait(k),
           pc' = [pc EXCEPT ![k] = x], item' = ForgetItem(item, k)
    PROVE  IndInv'
<1>1. /\ pc' \in [Procs -> Places] /\ DOMAIN item' = Procs
      /\ ~Holding(k)'
      /\ \A q \in Procs : Holding(q)' => Holding(q) /\ Token(q)' = Token(q)
  BY DEF IndInv, Places, ForgetItem, Holding, Token
<1>2. CASE UNCHANGED lockVars
  BY <1>1, <1>2, HolderKept DEF IndInv, lockVars
<1>3. CASE LockFree
  BY <1>1, <1>3, FreeMeansUnheld, NoHolder DEF IndInv
<1>4. CASE pc[k] \in {"rel", "drainDrop"}
  <2>1. \A q \in Procs : ~Holding(q)'
    BY <1>1, <1>4 DEF IndInv, LockInv, Holding
  <2> QED BY <1>1, <2>1, NoHolder DEF IndInv
<1> QED BY <1>2, <1>3, <1>4 DEF KilledAtAwait

\* So do those of a teardown.
LEMMA TeardownStep ==
    ASSUME IndInv, Teardown
    PROVE  IndInv'
<1>p. Retry \in Procs /\ WakeTask \in Procs /\ Requests \subseteq Procs
  BY DEF Procs
<1>1. CASE Detach
  BY <1>1, <1>p, KillStep DEF Detach, CancelRetry
<1>2. CASE Quiesce
  BY <1>2, <1>p, KillStep DEF Quiesce
<1>3. CASE HardCancel
  <2>1. victim \in Procs /\ KilledAtAwait(victim)
        /\ item' = ForgetItem(item, victim)
    BY <1>3, <1>p DEF HardCancel
  <2>2. CASE pc[victim] = "turn"
    <3>1. /\ pc' = [pc EXCEPT ![victim] = "rel"]
          /\ lock' = lock /\ stale' = stale
      BY <1>3, <2>1, <2>2 DEF HardCancel, KilledAtAwait, lockVars, IndInv
    <3>2. \A q \in Procs : Holding(q)' => Holding(q) /\ Token(q)' = Token(q)
      BY <2>1, <2>2, <3>1 DEF Holding, Token, IndInv, ForgetItem
    <3> QED BY <2>1, <3>1, <3>2, HolderKept DEF IndInv, Places, ForgetItem
  <2>3. CASE pc[victim] # "turn"
    <3>1. pc' = [pc EXCEPT ![victim] = "done"]
      BY <1>3, <2>1, <2>3 DEF HardCancel, IndInv
    <3> QED BY <2>1, <3>1, KillStep
  <2> QED BY <2>2, <2>3
<1>4. CASE CleanupSpill
  BY <1>4 DEF CleanupSpill, IndInv, LockInv, Holding, Token, lockVars
<1> QED BY <1>1, <1>2, <1>3, <1>4 DEF Teardown

\* Only an abandoned claim grows stale.
LEMMA ExpireStep ==
    ASSUME IndInv, ~LiveTurnsExpire, Expire
    PROVE  IndInv'
<1>1. \A p \in Procs : ~Holding(p)
  BY DEF Expire, IndInv, LockInv
<1>2. pc' = pc /\ item' = item
  BY DEF Expire
<1>3. \A p \in Procs : ~Holding(p)'
  BY <1>1, <1>2 DEF Holding
<1> QED BY <1>2, <1>3, NoHolder DEF IndInv

-----------------------------------------------------------------------------
\* The invariant is inductive: every step of the gateway, its clients and the
\* other replicas preserves it.
THEOREM StepInd ==
    ASSUME ~LiveTurnsExpire
    PROVE  IndInv /\ [Next]_vars => IndInv'
<1> SUFFICES ASSUME IndInv, [Next]_vars PROVE IndInv'
  OBVIOUS
<1>1. CASE UNCHANGED vars
  BY <1>1 DEF vars, IndInv, LockInv, Holding, Token
<1>2. CASE Next
  BY <1>2, DrainStep, RequestStep, OtherStep, TeardownStep, ForeignStep,
     ExpireStep DEF Next
<1> QED BY <1>1, <1>2

\* From try_acquire to release a request owns a fresh claim, alone: for every
\* set of requests, replicas and queue limits.
THEOREM LockSafety ==
    ASSUME ~LiveTurnsExpire
    PROVE  Spec => []LockInv
<1>1. IndInv => LockInv
  BY DEF IndInv
<1> QED BY InitInd, StepInd, <1>1, PTL DEF Spec

\* No two turns of a session are ever scheduled or running at once, on all
\* replicas together, if turns end within the stale window.
THEOREM ExclusionSafety ==
    ASSUME ~LiveTurnsExpire
    PROVE  Spec => []TurnExclusion
<1>1. LockInv => TurnExclusion
  BY DEF LockInv, TurnExclusion, Holding
<1> QED BY LockSafety, <1>1, PTL

-----------------------------------------------------------------------------
(* The seat of the current turn.                                            *)

\* Where a process holds the lock, and where it is the current turn.
Held == {"got", "sched", "turn", "rel", "drainGot", "drainDrop"}
Live == {"sched", "turn", "rel", "relDone"}
Seat == Held \cup Live

\* The current request names a live turn and every local turn is current; a
\* claim of this replica has a holder; the active task is the running one,
\* and the one remove_async waits for.
SeatInv ==
    /\ registered =>
          /\ current # NoReq => pc[current] \in Live
          /\ \A r \in Requests : pc[r] \in {"sched", "turn", "rel"} => current = r
          /\ BadBodies = {} => (lock # {} /\ lock \subseteq Requests => \E p \in Procs : pc[p] \in Held)
          /\ TickReqs = {} => \A r \in Requests : pc[r] = "sched" => active = r
    /\ TickReqs = {} =>
          \A r \in Requests : pc[r] = "turn" =>
              /\ teardown \in {"none", "detached"} => active = r
              /\ teardown = "quiesce" => victim = r
              /\ teardown # "cleaned"

\* What the invariants of the lock and the books say of the seats.
LEMMA SeatFacts ==
    ASSUME AdmInv, IndInv
    PROVE  /\ current \in Requests \cup {NoReq} /\ Requests \subseteq Procs /\ Foreign \subseteq Procs
           /\ NoReq \notin Requests /\ Foreign \cap Requests = {}
           /\ Retry \in Procs /\ WakeTask \in Procs /\ Retry \notin Requests /\ WakeTask \notin Requests
           /\ pc \in [Procs -> Places] /\ (registered => teardown = "none")
           /\ \A p \in Procs : pc[p] \in Held <=> Holding(p)
           /\ \A p, q \in Procs : pc[p] \in Held /\ pc[q] \in Held => p = q
BY ProcFacts, AdmShapes, ProcessAssumption DEF AdmInv, AdmTypes, IndInv, LockInv, Holding, Held, Procs

\* Nobody takes or leaves a seat.
LEMMA SeatsStay ==
    ASSUME AdmInv, IndInv, SeatInv, UNCHANGED <<registered, lock, current, active, victim>>,
           \A q \in Procs : pc'[q] = pc[q] \/ (pc[q] \notin Seat /\ pc'[q] \notin Seat),
           teardown' = teardown
    PROVE  SeatInv'
<1>1. /\ current \in Requests \cup {NoReq} /\ Requests \subseteq Procs
  BY SeatFacts
<1>2. /\ \A q \in Procs : pc[q] \in Held => pc'[q] = pc[q]
      /\ \A q \in Procs : pc[q] \in Live => pc'[q] = pc[q]
      /\ \A q \in Procs : pc'[q] \in {"sched", "turn", "rel"} => pc'[q] = pc[q]
  BY DEF Seat, Held
<1> QED BY <1>1, <1>2 DEF SeatInv

\* The holder goes on.
LEMMA SeatsPass ==
    ASSUME AdmInv, IndInv, SeatInv, UNCHANGED <<registered, lock, current, active, teardown, victim>>,
           NEW p \in Procs, NEW x \in Held \ {"sched"}, pc' = [pc EXCEPT ![p] = x], pc[p] \in Held,
           x \in {"turn", "rel"} => pc[p] \in {"sched", "turn"},
           x \in {"drainGot", "drainDrop", "got"} => pc[p] \notin Live,
           p \in Requests /\ x = "turn" => registered
    PROVE  SeatInv'
<1>1. /\ current \in Requests \cup {NoReq} /\ Requests \subseteq Procs /\ pc \in [Procs -> Places]
      /\ (registered => teardown = "none")
      /\ \A q \in Procs : pc'[q] = IF q = p THEN x ELSE pc[q]
  BY SeatFacts
<1>2. x \in Live \/ x \in {"drainGot", "drainDrop", "got"}
  BY DEF Held, Live
<1>3. ASSUME registered PROVE current # NoReq => pc'[current] \in Live
  <2>1. current = p /\ current # NoReq => x \in Live
    BY <1>2, <1>3 DEF SeatInv
  <2> QED BY <1>1, <1>3, <2>1 DEF SeatInv
<1>4. ASSUME registered, NEW r \in Requests, pc'[r] \in {"sched", "turn", "rel"} PROVE current = r
  <2>1. CASE r = p
    <3>1. x \in {"turn", "rel"}
      BY <1>1, <1>4, <2>1
    <3> QED BY <1>4, <2>1, <3>1 DEF SeatInv
  <2>2. CASE r # p
    BY <1>1, <1>4, <2>2 DEF SeatInv
  <2> QED BY <2>1, <2>2
<1>5. ASSUME registered, NEW r \in Requests, TickReqs = {}, pc'[r] = "sched" PROVE active = r
  BY <1>1, <1>5 DEF SeatInv
<1>6. ASSUME TickReqs = {}, NEW r \in Requests, pc'[r] = "turn"
      PROVE  /\ teardown \in {"none", "detached"} => active = r
             /\ teardown = "quiesce" => victim = r
             /\ teardown # "cleaned"
  <2>1. CASE r = p
    <3>1. x = "turn" /\ registered /\ teardown = "none"
      BY <1>1, <1>6, <2>1
    <3>2. pc[p] \in {"sched", "turn"}
      BY <3>1
    <3> QED BY <1>6, <2>1, <3>1, <3>2 DEF SeatInv
  <2>2. CASE r # p
    BY <1>1, <1>6, <2>2 DEF SeatInv
  <2> QED BY <2>1, <2>2
<1>7. \E q \in Procs : pc'[q] \in Held
  BY <1>1
<1> QED BY <1>3, <1>4, <1>5, <1>6, <1>7 DEF SeatInv

\* The free lock is taken.
LEMMA SeatsTaken ==
    ASSUME AdmInv, IndInv, SeatInv, UNCHANGED <<registered, current, active, teardown, victim>>, LockFree,
           NEW p \in Procs, NEW x \in Held, pc' = [pc EXCEPT ![p] = x],
           pc[p] \notin Live, p \in Requests => x \in {"got", "drainGot"}
    PROVE  SeatInv'
<1>1. /\ current \in Requests \cup {NoReq} /\ Requests \subseteq Procs /\ pc \in [Procs -> Places]
      /\ \A q \in Procs : pc'[q] = IF q = p THEN x ELSE pc[q]
      /\ \A q \in Procs : pc[q] \notin Held
  BY SeatFacts, FreeMeansUnheld
<1>2. \A q \in Requests : pc'[q] \notin {"sched", "turn", "rel"}
  BY <1>1 DEF Held
<1>3. \E q \in Procs : pc'[q] \in Held
  BY <1>1
<1>4. registered /\ current # NoReq => current # p /\ pc'[current] \in Live
  BY <1>1 DEF SeatInv
<1> QED BY <1>2, <1>3, <1>4 DEF SeatInv

\* The lock is given back.
LEMMA SeatsLeft ==
    ASSUME AdmInv, IndInv, SeatInv, UNCHANGED <<registered, current, active, teardown, victim>>,
           NEW p \in Procs, NEW x \in Places \ Held, pc' = [pc EXCEPT ![p] = x],
           pc[p] \in Held, lock' = {} \/ ~(lock' \subseteq Requests), pc[p] \in Live /\ p \in Requests => x \in Live
    PROVE  SeatInv'
<1>1. /\ current \in Requests \cup {NoReq} /\ Requests \subseteq Procs /\ pc \in [Procs -> Places]
      /\ \A q \in Procs : pc'[q] = IF q = p THEN x ELSE pc[q]
      /\ \A q \in Procs : pc[q] \in Held => q = p
      /\ NoReq \notin Requests
  BY SeatFacts
<1>2. \A q \in Requests : pc'[q] \notin {"sched", "turn", "rel"}
  BY <1>1 DEF Held
<1>3. registered /\ current # NoReq => pc'[current] \in Live
  BY <1>1 DEF SeatInv
<1> QED BY <1>2, <1>3 DEF SeatInv

\* The holder's request becomes the current turn.
LEMMA SeatsFill ==
    ASSUME AdmInv, IndInv, SeatInv, UNCHANGED <<registered, teardown, victim>>,
           NEW p \in Procs, NEW r \in Requests, pc[p] \in Held, registered => current' = r,
           TickReqs = {} => active' = r,
           \A q \in Procs : q # r => pc'[q] = pc[q] \/ pc'[q] \notin Held,
           registered => pc'[r] = "sched", pc'[r] # "turn",
           \A q \in Procs : q = p => q = r \/ pc'[q] \notin Held
    PROVE  SeatInv'
<1>1. /\ Requests \subseteq Procs
      /\ \A q \in Procs : pc[q] \in Held => q = p
  BY SeatFacts
<1>2. \A q \in Procs : q # r => pc'[q] \notin Held
  BY <1>1
<1>3. \A q \in Requests : q # r => pc'[q] \notin {"sched", "turn", "rel"}
  BY <1>1, <1>2 DEF Held
<1>4. "sched" \in Held /\ "sched" \in Live
  BY DEF Held, Live
<1> QED BY <1>1, <1>3, <1>4 DEF SeatInv

\* The turn's task goes on to its drain.
LEMMA SeatsCleared ==
    ASSUME AdmInv, IndInv, SeatInv, UNCHANGED <<registered, lock, active, teardown, victim>>,
           NEW r \in Requests, pc[r] = "relDone", registered => current' = CurrentAfter(r),
           \A q \in Procs : q # r => pc'[q] = pc[q], pc'[r] \notin Seat
    PROVE  SeatInv'
<1>1. /\ current \in Requests \cup {NoReq} /\ Requests \subseteq Procs /\ "relDone" \notin Held
  BY SeatFacts DEF Held
<1>2. \A q \in Procs : pc[q] \in Held => pc'[q] = pc[q]
  BY <1>1
<1>3. pc'[r] \notin {"sched", "turn", "rel"} /\ pc'[r] \notin Live
  BY DEF Seat, Held
<1>4. registered /\ current' # NoReq => current' = current /\ current # r
  BY DEF CurrentAfter
<1>5. registered => \A q \in Requests : pc'[q] \in {"sched", "turn", "rel"} => current' = q
  <2> SUFFICES ASSUME registered, NEW q \in Requests, pc'[q] \in {"sched", "turn", "rel"} PROVE current' = q
    OBVIOUS
  <2>1. q # r /\ pc[q] = pc'[q] /\ current = q
    BY <1>1, <1>3 DEF SeatInv
  <2> QED BY <2>1 DEF CurrentAfter
<1>6. registered /\ current' # NoReq => pc'[current'] \in Live
  BY <1>1, <1>4 DEF SeatInv
<1>7. registered /\ TickReqs = {} => \A q \in Requests : pc'[q] = "sched" => active' = q
  BY <1>1, <1>3 DEF SeatInv
<1>8. TickReqs = {} => \A q \in Requests : pc'[q] = "turn" =>
              /\ teardown' \in {"none", "detached"} => active' = q
              /\ teardown' = "quiesce" => victim' = q
              /\ teardown' # "cleaned"
  BY <1>1, <1>3 DEF SeatInv
<1>9. registered /\ BadBodies = {} /\ lock # {} /\ lock \subseteq Requests => \E q \in Procs : pc'[q] \in Held
  BY <1>2 DEF SeatInv
<1> QED BY <1>5, <1>6, <1>7, <1>8, <1>9 DEF SeatInv

\* The steps of a drain keep the seats.
LEMMA SeatsDrain ==
    ASSUME AdmInv, IndInv, SeatInv, NEW p \in Requests \cup {Retry, WakeTask}, Drain(p)
    PROVE  SeatInv'
<1>1. /\ p \in Procs /\ pc \in [Procs -> Places] /\ DOMAIN item = Procs
      /\ \A q \in Procs : pc[q] \in Held <=> Holding(q)
      /\ Requests \subseteq Procs /\ Retry \in Procs /\ Retry \notin Requests
      /\ Ended(p) \in {"idle", "done"}
  BY SeatFacts, ProcFacts DEF IndInv
<1>2. /\ \A x \in {"drainAcq", "drainDenied", "drainDropDone", "idle", "done", "sleep"} : x \notin Seat /\ x \notin Held
      /\ \A x \in {"drainGot", "drainDrop"} : x \in Held /\ x \notin Live /\ x # "sched"
      /\ "drainDropDone" \in Places
  BY DEF Seat, Held, Live, Places
<1>3. CASE DrainAcquire(p)
  <2>1. pc[p] = "drainAcq" /\ UNCHANGED <<registered, current, active, teardown, victim>>
    BY <1>3 DEF DrainAcquire, busVars
  <2>2. CASE LockFree
    <3>1. pc' = [pc EXCEPT ![p] = "drainGot"]
      BY <1>3, <2>2 DEF DrainAcquire, TryAcquire
    <3>2. pc[p] \notin Live
      BY <2>1 DEF Live
    <3> QED BY <1>1, <1>2, <2>1, <2>2, <3>1, <3>2, SeatsTaken
  <2>3. CASE ~LockFree
    <3>1. pc' = [pc EXCEPT ![p] = "drainDenied"] /\ lock' = lock
      BY <1>3, <2>3 DEF DrainAcquire, TryAcquire, lockVars
    <3>2. \A q \in Procs : pc'[q] = pc[q] \/ (pc[q] \notin Seat /\ pc'[q] \notin Seat)
      BY <1>1, <1>2, <2>1, <3>1
    <3> QED BY <2>1, <3>1, <3>2, SeatsStay
  <2> QED BY <2>2, <2>3
<1>4. CASE DrainDropped(p) \/ DrainSkipped(p)
  <2>1. /\ pc[p] = "drainGot" /\ pc' = [pc EXCEPT ![p] = "drainDrop"]
        /\ UNCHANGED <<registered, lock, current, active, teardown, victim>>
    BY <1>4 DEF DrainDropped, DrainSkipped, lockVars, deleteVars
  <2> QED BY <1>1, <1>2, <2>1, SeatsPass
<1>5. CASE DrainStart(p)
  <2> DEFINE r == item[p].rid
             pcs1 == [pc EXCEPT ![p] = Ended(p)]
             pcs2 == [pcs1 EXCEPT ![r] = "sched"]
             pcs3 == [pcs2 EXCEPT ![Retry] = "idle"]
  <2>1. /\ pc[p] = "drainGot" /\ current' = r /\ active' = r
        /\ ReturnFromDrain(p, FinishFollowUpDrain(adm, r), r, pcs3, ForgetItem(item, Retry))
        /\ UNCHANGED <<registered, lock, teardown, victim>>
    BY <1>5 DEF DrainStart, CancelRetry, lockVars, deleteVars
  <2>2. pc' = pcs3 \/ pc' = [pcs3 EXCEPT ![p] = "drainAcq"]
    BY <2>1 DEF ReturnFromDrain, PopInto
  <2>3. r \in Requests /\ pc[p] \in InHand
    BY <1>1, <2>1, AdmShapes DEF Draining, InHand
  <2>4. registered => r # p
    BY <2>3, DrainLetsGo
  <2>5. \A q \in Procs : /\ pcs3[q] = IF q = Retry THEN "idle" ELSE IF q = r THEN "sched"
                                      ELSE IF q = p THEN Ended(p) ELSE pc[q]
                         /\ pc'[q] = IF q = p /\ pc' # pcs3 THEN "drainAcq" ELSE pcs3[q]
    <3> HIDE DEF r
    <3>1. pcs1 \in [Procs -> Places] /\ pcs2 \in [Procs -> Places] /\ pcs3 \in [Procs -> Places]
      BY <1>1 DEF Places
    <3> QED BY <1>1, <2>2, <2>3, <3>1
  <2>6. /\ \A q \in Procs : q # r => pc'[q] = pc[q] \/ pc'[q] \notin Held
        /\ \A q \in Procs : q = p => q = r \/ pc'[q] \notin Held
    BY <1>1, <1>2, <2>5
  <2>7. /\ registered => pc'[r] = "sched"
        /\ pc'[r] # "turn"
    BY <1>1, <2>3, <2>4, <2>5
  <2> HIDE DEF r
  <2> QED BY <1>1, <1>2, <2>1, <2>3, <2>6, <2>7, SeatsFill
<1>6. CASE DrainRelease(p)
  <2>1. /\ pc[p] = "drainDrop" /\ pc' = [pc EXCEPT ![p] = "drainDropDone"] /\ lock' = lock \ {item[p].rid}
        /\ UNCHANGED <<registered, current, active, teardown, victim>>
    BY <1>6 DEF DrainRelease, Release, busVars
  <2>2. lock' = {}
    BY <1>1, <2>1 DEF IndInv, LockInv, Holding, Token
  <2> QED BY <1>1, <1>2, <2>1, <2>2, SeatsLeft
<1>7. CASE DrainAgain(p) \/ DrainGiveUp(p) \/ DrainRequeue(p)
  <2>1. /\ pc[p] \in {"drainDropDone", "drainDenied"}
        /\ UNCHANGED <<registered, lock, current, active, teardown, victim>>
    BY <1>7 DEF DrainAgain, DrainGiveUp, DrainRequeue, lockVars, deleteVars
  <2>2. \/ \E a : EnterDrain(p, a, current)
        \/ \E a : ReturnFromDrain(p, a, current, ScheduleRetry([pc EXCEPT ![p] = Ended(p)], p), item)
    BY <1>7 DEF DrainAgain, DrainGiveUp, DrainRequeue
  <2>3. \A q \in Procs : pc'[q] = pc[q] \/ (pc[q] \notin Seat /\ pc'[q] \notin Seat)
    <3>1. ASSUME NEW a, EnterDrain(p, a, current)
          PROVE  \A q \in Procs : pc'[q] = pc[q] \/ (pc[q] \notin Seat /\ pc'[q] \notin Seat)
      <4>1. pc'[p] \in {"drainAcq", "idle", "done"} /\ \A q \in Procs \ {p} : pc'[q] = pc[q]
        BY <1>1, <3>1, EnterFacts
      <4> QED BY <1>2, <2>1, <4>1
    <3>2. ASSUME NEW a,
                 ReturnFromDrain(p, a, current, ScheduleRetry([pc EXCEPT ![p] = Ended(p)], p), item)
          PROVE  \A q \in Procs : pc'[q] = pc[q] \/ (pc[q] \notin Seat /\ pc'[q] \notin Seat)
      <4> DEFINE pcs1 == [pc EXCEPT ![p] = Ended(p)]
                 pcs2 == ScheduleRetry(pcs1, p)
      <4>1. pc' = pcs2 \/ pc' = [pcs2 EXCEPT ![p] = "drainAcq"]
        BY <3>2 DEF ReturnFromDrain, PopInto
      <4>2. pcs2 = pcs1 \/ (pcs2 = [pcs1 EXCEPT ![Retry] = "sleep"] /\ (pcs1[Retry] = "idle" \/ p = Retry))
        BY DEF ScheduleRetry
      <4>3. \A q \in Procs : pcs1[q] = IF q = p THEN Ended(p) ELSE pc[q]
        BY <1>1
      <4>4. \A q \in Procs : pcs2[q] = pcs1[q] \/ (pcs2[q] = "sleep" /\ q = Retry /\ (pcs1[Retry] = "idle" \/ p = Retry))
        BY <1>1, <4>2
      <4> HIDE DEF pcs1
      <4>5. pcs2 \in [Procs -> Places] /\ DOMAIN pcs2 = Procs
        BY <1>1, <4>2 DEF pcs1, Places
      <4> HIDE DEF pcs2
      <4>6. \A q \in Procs : pc'[q] = pcs2[q] \/ (q = p /\ pc'[q] = "drainAcq")
        BY <1>1, <4>1, <4>5
      <4> QED BY <1>1, <1>2, <2>1, <4>3, <4>4, <4>6
    <3> QED BY <2>2, <3>1, <3>2
  <2> QED BY <2>1, <2>3, SeatsStay
<1> QED BY <1>3, <1>4, <1>5, <1>6, <1>7 DEF Drain

\* So do those of a handler before its turn.
LEMMA SeatsHandle ==
    ASSUME AdmInv, IndInv, SeatInv, NEW r \in Requests, Handle(r)
    PROVE  SeatInv'
<1>1. /\ r \in Procs /\ pc \in [Procs -> Places] /\ Retry \in Procs /\ Retry # r
  BY SeatFacts DEF IndInv
<1>2. /\ \A x \in {"acq", "denied", "queued", "idle", "done", "sleep"} : x \notin Seat
      /\ "got" \in Held /\ "got" \notin Live
  BY DEF Seat, Held, Live
<1>3. CASE Acquire(r)
  <2>1. pc[r] = "acq" /\ UNCHANGED <<registered, current, active, teardown, victim>>
    BY <1>3 DEF Acquire, busVars
  <2>2. CASE LockFree
    <3>1. pc' = [pc EXCEPT ![r] = "got"]
      BY <1>3, <2>2 DEF Acquire, TryAcquire
    <3>2. pc[r] \notin Live
      BY <2>1 DEF Live
    <3> QED BY <1>1, <1>2, <2>1, <2>2, <3>1, <3>2, SeatsTaken
  <2>3. CASE ~LockFree
    <3>1. pc' = [pc EXCEPT ![r] = "denied"] /\ lock' = lock
      BY <1>3, <2>3 DEF Acquire, TryAcquire, lockVars
    <3>2. \A q \in Procs : pc'[q] = pc[q] \/ (pc[q] \notin Seat /\ pc'[q] \notin Seat)
      BY <1>1, <1>2, <2>1, <3>1
    <3> QED BY <2>1, <3>1, <3>2, SeatsStay
  <2> QED BY <2>2, <2>3
<1>4. CASE Got(r)
  <2>1. /\ pc[r] = "got" /\ pc' = [pc EXCEPT ![r] = "sched"]
        /\ registered => current' = r
        /\ TickReqs = {} => active' = r
        /\ UNCHANGED <<registered, lock, teardown, victim>>
    BY <1>4 DEF Got, lockVars, deleteVars
  <2> QED BY <1>1, <1>2, <2>1, SeatsFill
<1>5. CASE GotBadBody(r)
  <2>1. /\ pc[r] = "got" /\ pc' = [pc EXCEPT ![r] = "done"] /\ BadBodies # {}
        /\ UNCHANGED <<registered, lock, current, active, teardown, victim>>
    BY <1>5 DEF GotBadBody, busVars, lockVars
  <2>2. /\ current \in Requests \cup {NoReq} /\ NoReq \notin Requests /\ Requests \subseteq Procs
        /\ \A q \in Procs : pc'[q] = IF q = r THEN "done" ELSE pc[q]
    BY <2>1, SeatFacts
  <2>3. registered /\ current # NoReq => current # r
    BY <1>2, <2>1 DEF SeatInv
  <2> QED BY <2>1, <2>2, <2>3 DEF SeatInv
<1>6. CASE Busy(r) \/ QueueBusy(r)
  <2>1. /\ pc[r] = "denied" /\ UNCHANGED <<registered, lock, current, active, teardown, victim>>
        /\ \/ pc' = [pc EXCEPT ![r] = "done"]
           \/ pc' = ScheduleRetry([pc EXCEPT ![r] = "queued"], r)
    BY <1>6 DEF Busy, QueueBusy, lockVars, busVars, deleteVars
  <2>2. \A q \in Procs : pc'[q] = pc[q] \/ (pc[q] \notin Seat /\ pc'[q] \notin Seat)
    <3>1. CASE pc' = [pc EXCEPT ![r] = "done"]
      BY <1>1, <1>2, <2>1, <3>1
    <3>2. CASE pc' = ScheduleRetry([pc EXCEPT ![r] = "queued"], r)
      BY <1>1, <1>2, <2>1, <3>2 DEF ScheduleRetry
    <3> QED BY <2>1, <3>1, <3>2
  <2> QED BY <2>1, <2>2, SeatsStay
<1> QED BY <1>3, <1>4, <1>5, <1>6 DEF Handle

\* So do those of a turn.
LEMMA SeatsTurn ==
    ASSUME AdmInv, IndInv, SeatInv, NEW r \in Requests \cup Foreign,
           \/ TurnEnd(r) \/ TurnRelease(r)
           \/ r \in Requests /\ Turn(r)
    PROVE  SeatInv'
<1>1. /\ r \in Procs /\ pc \in [Procs -> Places] /\ Foreign \cap Requests = {}
      /\ \A q \in Procs : pc[q] \in Held <=> Holding(q)
  BY SeatFacts DEF IndInv
<1>2. /\ \A x \in {"done", "idle", "drainAcq"} : x \notin Seat /\ x \notin Held /\ x \in Places
      /\ \A x \in {"turn", "rel"} : x \in Held /\ x \in Live /\ x # "sched" /\ x \notin {"drainGot", "drainDrop", "got"}
      /\ "sched" \in Held /\ "relDone" \in Live /\ "relDone" \notin Held /\ "relDone" \in Places
  BY DEF Seat, Held, Live, Places
<1>3. CASE r \in Requests /\ TurnBegin(r)
  <2>1. /\ pc[r] = "sched" /\ UNCHANGED <<registered, lock, current, active, teardown, victim>>
        /\ pc' = [pc EXCEPT ![r] = IF registered THEN "turn" ELSE "rel"]
    BY <1>3 DEF TurnBegin, lockVars, busVars
  <2>2. CASE registered
    BY <1>1, <1>2, <2>1, <2>2, SeatsPass
  <2>3. CASE ~registered
    BY <1>1, <1>2, <2>1, <2>3, SeatsPass
  <2> QED BY <2>2, <2>3
<1>4. CASE TurnEnd(r)
  <2>1. /\ pc[r] = "turn" /\ UNCHANGED <<registered, lock, current, active, teardown, victim>>
        /\ pc' = [pc EXCEPT ![r] = "rel"]
    BY <1>4 DEF TurnEnd, lockVars, busVars
  <2> QED BY <1>1, <1>2, <2>1, SeatsPass
<1>5. CASE TurnRelease(r)
  <2>1. /\ pc[r] = "rel" /\ lock' = lock \ {r} /\ UNCHANGED <<registered, current, active,
                                                              teardown, victim>>
        /\ pc' = [pc EXCEPT ![r] = IF r \in Foreign THEN "done" ELSE "relDone"]
    BY <1>5 DEF TurnRelease, Release, busVars
  <2>2. lock' = {}
    BY <1>1, <1>2, <2>1 DEF IndInv, LockInv, Token
  <2>3. CASE r \in Foreign
    BY <1>1, <1>2, <2>1, <2>2, <2>3, SeatsLeft
  <2>4. CASE r \notin Foreign
    BY <1>1, <1>2, <2>1, <2>2, <2>4, SeatsLeft
  <2> QED BY <2>3, <2>4
<1>6. ASSUME r \in Requests, TickReturns(r) \/ TurnReturns(r) \/ \E w \in WakeReqs : TurnWakes(r, w)
      PROVE  SeatInv'
  <2>1. /\ pc[r] = "relDone" /\ UNCHANGED <<registered, lock, active, teardown, victim>>
        /\ registered => current' = CurrentAfter(r)
    BY <1>6 DEF TickReturns, TurnReturns, TurnWakes, lockVars, deleteVars
  <2>2. /\ \A q \in Procs : q # r => pc'[q] = pc[q]
        /\ pc'[r] \in {"done", "idle", "drainAcq"}
    <3>1. CASE TurnReturns(r)
      BY <1>1, <3>1, EnterFacts DEF TurnReturns
    <3>2. CASE TickReturns(r) \/ \E w \in WakeReqs : TurnWakes(r, w)
      BY <1>1, <3>2 DEF TickReturns, TurnWakes, PopInto
    <3> QED BY <1>6, <3>1, <3>2
  <2> QED BY <1>2, <1>6, <2>1, <2>2, SeatsCleared
<1> QED BY <1>3, <1>4, <1>5, <1>6 DEF Turn

\* So do those that move no turn.
LEMMA SeatsOther ==
    ASSUME AdmInv, IndInv, SeatInv,
           \/ Helper \/ Client \/ Expire \/ UNCHANGED vars
           \/ \E r \in Requests : TurnInject(r)
           \/ \E r \in Requests, w \in WakeReqs : TurnAwaits(r, w)
           \/ \E w \in WakeReqs : RunsFinish(w)
    PROVE  SeatInv'
<1>1. /\ Retry \in Procs /\ WakeTask \in Procs /\ Requests \subseteq Procs /\ pc \in [Procs -> Places]
  BY SeatFacts DEF IndInv
<1>2. \A x \in {"idle", "sleep", "acq", "drainAcq", "done"} : x \notin Seat
  BY DEF Seat, Held, Live
<1>3. ASSUME NEW p \in Procs, pc[p] \in {"idle", "sleep"}, pc'[p] \in {"idle", "sleep", "acq", "drainAcq", "done"},
             \A q \in Procs : q # p => pc'[q] = pc[q],
             UNCHANGED <<registered, lock, current, active, teardown, victim>>
      PROVE  SeatInv'
  BY <1>2, <1>3, SeatsStay
<1>4. ASSUME UNCHANGED <<registered, lock, current, active, teardown, victim, pc>>
      PROVE  SeatInv'
  BY <1>4 DEF SeatInv
<1>5. CASE RetryFires
  <2>1. /\ pc[Retry] = "sleep" /\ UNCHANGED <<registered, lock, current, active, teardown, victim>>
        /\ EnterDrain(Retry, adm, current)
    BY <1>5 DEF RetryFires, lockVars, deleteVars
  <2>2. /\ \A q \in Procs : q # Retry => pc'[q] = pc[q]
        /\ pc'[Retry] \in {"done", "idle", "drainAcq"}
    BY <1>1, <2>1, EnterFacts
  <2> QED BY <1>1, <1>3, <2>1, <2>2
<1>6. CASE WakeIdles \/ \E w \in WakeReqs : WakeFires(w)
  <2>1. /\ pc[WakeTask] = "sleep" /\ UNCHANGED <<registered, lock, current, active, teardown, victim>>
        /\ \E x \in {"idle", "drainAcq"} : pc' = [pc EXCEPT ![WakeTask] = x]
    BY <1>6 DEF WakeIdles, WakeFires, PopInto, lockVars, busVars, deleteVars
  <2> QED BY <1>1, <1>3, <2>1
<1>7. ASSUME NEW r \in Requests, Arrive(r) PROVE SeatInv'
  <2>1. /\ pc[r] = "idle" /\ UNCHANGED <<registered, lock, current, active, teardown, victim>>
        /\ pc' = [pc EXCEPT ![r] = "acq"]
    BY <1>7 DEF Arrive, lockVars, busVars
  <2> QED BY <1>1, <1>3, <2>1
<1>8. ASSUME NEW w \in WakeReqs, RunsFinish(w) PROVE SeatInv'
  <2>1. /\ UNCHANGED <<registered, lock, current, active, teardown, victim>>
        /\ pc' = [pc EXCEPT ![WakeTask] = IF @ = "idle" THEN "sleep" ELSE @]
    BY <1>8 DEF RunsFinish, lockVars, busVars
  <2>2. CASE pc[WakeTask] = "idle"
    BY <1>1, <1>3, <2>1, <2>2
  <2>3. CASE pc[WakeTask] # "idle"
    <3>1. pc' = pc
      BY <1>1, <2>1, <2>3
    <3> QED BY <1>4, <2>1, <3>1
  <2> QED BY <2>2, <2>3
<1>9. CASE Steer \/ Cancel \/ \E r \in QueueReqs : Promote(r) \/ Drop(r)
  BY <1>4, <1>9 DEF Steer, Cancel, Promote, Drop, lockVars, deleteVars
<1>10. CASE \/ \E r \in Requests : TurnInject(r)
            \/ \E r \in Requests, w \in WakeReqs : TurnAwaits(r, w)
  BY <1>4, <1>10 DEF TurnInject, TurnAwaits, lockVars, busVars, deleteVars
<1>11. CASE Expire \/ UNCHANGED vars
  BY <1>4, <1>11 DEF Expire, vars, busVars
<1> QED BY <1>5, <1>6, <1>7, <1>8, <1>9, <1>10, <1>11 DEF Helper, Client

\* So do those of a teardown.
LEMMA SeatsTeardown ==
    ASSUME AdmInv, IndInv, SeatInv, Teardown
    PROVE  SeatInv'
<1>1. /\ pc \in [Procs -> Places] /\ (registered => teardown = "none") /\ Requests \subseteq Procs
      /\ WakeTask \notin Requests /\ Retry \notin Requests /\ NoReq \notin Requests
  BY SeatFacts
<1>2. CASE Detach
  <2>1. /\ registered' = FALSE /\ registered /\ teardown' = "detached"
        /\ \A q \in Requests : pc'[q] = pc[q]
        /\ active' = active
    BY <1>1, <1>2 DEF Detach, CancelRetry
  <2> QED BY <1>1, <2>1 DEF SeatInv
<1>3. CASE Quiesce
  <2>1. /\ ~registered /\ registered' = registered /\ teardown = "detached" /\ teardown' = "quiesce"
        /\ victim' = active /\ active' = active
        /\ \A q \in Requests : pc'[q] = pc[q]
    BY <1>1, <1>3 DEF Quiesce, busVars
  <2> QED BY <2>1 DEF SeatInv
<1>4. CASE HardCancel
  <2>1. /\ ~registered /\ UNCHANGED <<registered, teardown, victim, active>>
        /\ \A q \in Requests : pc'[q] = pc[q] \/ pc'[q] \in {"rel", "done"}
    BY <1>1, <1>4 DEF HardCancel, busVars
  <2> QED BY <2>1 DEF SeatInv
<1>5. CASE CleanupSpill
  <2>1. /\ ~registered /\ UNCHANGED <<registered, victim, active, pc>> /\ teardown = "quiesce"
        /\ victim \in {NoReq} \cup {r \in Requests : pc[r] = "done"}
    BY <1>1, <1>5 DEF CleanupSpill, busVars
  <2>2. TickReqs = {} => \A r \in Requests : pc[r] # "turn"
    BY <1>1, <2>1 DEF SeatInv
  <2> QED BY <2>1, <2>2 DEF SeatInv
<1> QED BY <1>2, <1>3, <1>4, <1>5 DEF Teardown

\* So do those of another process.
LEMMA SeatsForeign ==
    ASSUME AdmInv, IndInv, SeatInv, NEW f \in Foreign, ForeignAcquire(f) \/ ForeignCrash(f)
    PROVE  SeatInv'
<1>1. /\ f \in Procs /\ f \notin Requests
      /\ \A q \in Procs : pc[q] \in Held <=> Holding(q)
  BY SeatFacts
<1>2. CASE ForeignAcquire(f)
  <2>1. /\ pc[f] = "idle" /\ LockFree /\ pc' = [pc EXCEPT ![f] = "turn"]
        /\ UNCHANGED <<registered, current, active, teardown, victim>>
    BY <1>2 DEF ForeignAcquire, busVars
  <2>2. "turn" \in Held /\ pc[f] \notin Live
    BY <2>1 DEF Held, Live
  <2> QED BY <1>1, <2>1, <2>2, SeatsTaken
<1>3. CASE ForeignCrash(f)
  <2>1. /\ pc[f] \in {"turn", "rel"} /\ pc' = [pc EXCEPT ![f] = "done"]
        /\ UNCHANGED <<registered, current, active, lock, teardown, victim>>
    BY <1>3 DEF ForeignCrash, busVars, lockVars
  <2>2. pc[f] \in Held /\ "done" \in Places \ Held
    BY <2>1 DEF Held, Places
  <2>3. lock' = {f}
    BY <1>1, <2>1, <2>2 DEF IndInv, LockInv, Token
  <2> QED BY <1>1, <2>1, <2>2, <2>3, SeatsLeft
<1> QED BY <1>2, <1>3

SessionInv == AdmInv /\ IndInv /\ SeatInv

\* The three invariants together are inductive.
THEOREM SessionStep ==
    ASSUME ~LiveTurnsExpire
    PROVE  SessionInv /\ [Next]_vars => SessionInv'
<1> SUFFICES ASSUME SessionInv, [Next]_vars PROVE SessionInv'
  OBVIOUS
<1>1. AdmInv' /\ IndInv'
  BY BooksStep, StepInd DEF SessionInv
<1>2. SeatInv'
  <2>1. CASE UNCHANGED vars
    BY <2>1, SeatsOther DEF SessionInv
  <2>2. CASE Next
    BY <2>2, SeatsDrain, SeatsHandle, SeatsTurn, SeatsOther, SeatsTeardown, SeatsForeign
       DEF SessionInv, Next
  <2> QED BY <2>1, <2>2
<1> QED BY <1>1, <1>2 DEF SessionInv

\* The books, the claim and the seat agree in every state.
THEOREM SessionSafety ==
    ASSUME ~LiveTurnsExpire
    PROVE  Spec => []SessionInv
<1>1. Init => SessionInv
  <2>1. Init => SeatInv
    <3> SUFFICES ASSUME Init PROVE SeatInv
      OBVIOUS
    <3>1. /\ current = NoReq /\ lock = {} /\ \A r \in Requests : pc[r] = "idle"
      BY ProcFacts DEF Init
    <3> QED BY <3>1 DEF SeatInv
  <2> QED BY <2>1, InitBooks, InitInd DEF SessionInv
<1> QED BY <1>1, SessionStep, PTL DEF Spec

\* The copies of a request are one at most, and none of a settled one.
LEMMA BooksHaveOnePlace ==
    ASSUME AdmInv
    PROVE  OnePlace
<1> SUFFICES ASSUME registered, NEW r \in Requests
             PROVE  Cardinality(Copies(r)) <= IF fate[r] = "accepted" \/ r \in adm.dropped THEN 1 ELSE 0
  BY DEF OnePlace
<1>1. /\ adm \in Admission /\ Requests \subseteq Procs /\ r # NoReq
      /\ BookedOnce(adm) /\ Fated(adm, pc, fate) /\ Hands(adm, pc, item)
  BY AdmShapes, ProcFacts DEF AdmInv, Sound, Books
<1> DEFINE Q == {<<"queued", i>> : i \in {j \in DOMAIN adm.followUp : adm.followUp[j].rid = r}}
           S == {<<"steer", i>> : i \in {j \in DOMAIN adm.steer : adm.steer[j].queued = r}}
           P == {<<"popped", p>> : p \in {q \in Procs : Popped(q) /\ item[q].rid = r}}
           T == {<<"turn", p>> : p \in {r} \cap {q \in Procs : pc[q] = "sched"}}
<1>2. Copies(r) = Q \cup S \cup P \cup T
  BY DEF Copies
<1>3. r \notin Ids(adm.followUp) => Q = {}
  BY DEF Ids
<1>4. r \notin Sources(adm.steer) => S = {}
  BY <1>1 DEF Sources
<1>5. r \notin adm.draining => P = {}
  BY <1>1 DEF Hands, Popped, InHand
<1>6. pc[r] # "sched" => T = {}
  OBVIOUS
<1>7. \A c, d \in Q : c = d
  BY <1>1 DEF BookedOnce, Once
<1>8. \A c, d \in S : c = d
  BY <1>1 DEF BookedOnce, OnceFrom
<1>9. \A c, d \in P : c = d
  BY <1>1 DEF Hands, Popped, InHand
<1>10. \A c, d \in T : c = d
  OBVIOUS
<1>11. r \in Booked(adm) => pc[r] # "sched" /\ (fate[r] = "accepted" \/ r \in adm.dropped)
  BY <1>1 DEF Fated, Rests
<1>12. pc[r] = "sched" => fate[r] = "accepted"
  BY <1>1 DEF Fated
<1>13. /\ r \in Ids(adm.followUp) => r \in Booked(adm) /\ r \notin Sources(adm.steer) /\ r \notin adm.draining
       /\ r \in Sources(adm.steer) => r \in Booked(adm) /\ r \notin adm.draining
       /\ r \in adm.draining => r \in Booked(adm)
  BY <1>1 DEF BookedOnce, Booked
<1> HIDE DEF Q, S, P, T
<1>14. \A c, d \in Copies(r) : c = d
  BY <1>2, <1>3, <1>4, <1>5, <1>6, <1>7, <1>8, <1>9, <1>10, <1>11, <1>13
<1>15. Copies(r) # {} => fate[r] = "accepted" \/ r \in adm.dropped
  BY <1>2, <1>3, <1>4, <1>5, <1>6, <1>11, <1>12, <1>13
<1>16. CASE Copies(r) = {}
  <2>1. Cardinality({}) = 0
    BY FS_EmptySet
  <2> QED BY <1>16, <2>1
<1>17. CASE Copies(r) # {}
  <2>1. PICK c : c \in Copies(r)
    BY <1>17
  <2>2. Copies(r) = {c}
    BY <1>14, <2>1
  <2>3. Cardinality({c}) = 1
    BY FS_Singleton
  <2> QED BY <1>15, <1>17, <2>2, <2>3
<1> QED BY <1>16, <1>17

\* The claim, the current turn, the queues and the prompts in the hands of
\* drains agree, for any number of requests, replicas and queue sizes: when no
\* turn outlasts the stale window and no body fails to parse.
THEOREM AdmissionSafety ==
    ASSUME ~LiveTurnsExpire, BadBodies = {}
    PROVE  Spec => []AdmissionSafe
<1>1. SessionInv => AdmissionSafe
  <2> SUFFICES ASSUME SessionInv PROVE AdmissionSafe
    OBVIOUS
  <2>0. AdmInv /\ IndInv /\ SeatInv
    BY DEF SessionInv
  <2>1. TypeOK
    BY <2>0, AdmShapes DEF AdmInv, AdmTypes, TypeOK
  <2>2. LockHasOwner
    <3> SUFFICES ASSUME registered, lock # {}, lock \subseteq Requests
                 PROVE  \E p \in Procs : Holding(p) /\ lock = {Token(p)}
      BY DEF LockHasOwner
    <3>1. PICK p \in Procs : pc[p] \in Held
      BY <2>0 DEF SeatInv
    <3>2. Holding(p)
      BY <3>1 DEF Holding, Held
    <3> QED BY <2>0, <3>2 DEF IndInv, LockInv
  <2>3. CurrentIsLive
    BY <2>0 DEF CurrentIsLive, SeatInv, Live
  <2>4. OnePlace
    BY <2>0, BooksHaveOnePlace
  <2>5. PoppedIsDraining
    BY <2>0 DEF PoppedIsDraining, Popped, AdmInv, Sound, Shapes, Books, Hands, InHand
  <2> QED BY <2>1, <2>2, <2>3, <2>4, <2>5 DEF AdmissionSafe
<1> QED BY SessionSafety, <1>1, PTL

\* No turn is running when remove_async removes the spill directories: when no
\* turn outlasts the stale window and every turn has a task of its own.
THEOREM SpillSafety ==
    ASSUME ~LiveTurnsExpire, TickReqs = {}
    PROVE  Spec => []SpillQuiet
<1>1. SessionInv => SpillQuiet
  BY DEF SessionInv, SeatInv, SpillQuiet
<1> QED BY SessionSafety, <1>1, PTL
===========================================================================
