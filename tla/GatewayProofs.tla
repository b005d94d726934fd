-------------------------- MODULE GatewayProofs ---------------------------
(*************************************************************************)
(* What holds of the services of the gateway for every value of their    *)
(* constants: an installed configuration is served whole and with its    *)
(* own resources, whoever edits, reloads or shuts down (ConfigReload); a *)
(* message finds its way from the history to a drawer of the palace      *)
(* (MemoryOutbox); the starts that move the memory, rename the embedder  *)
(* and create the id agree (PalaceStartup); the rings and queues of the  *)
(* event stream deliver what EventDelivery promises (EventStream);       *)
(* verdicts are charged, shown and obeyed once (Verifier); and a voice   *)
(* call stores and answers each thing once (RealtimeCall).               *)
(*************************************************************************)
EXTENDS MCGateway, SublistProofs, SequenceTheorems

\* The configuration and its reload (ConfigReload).
\* A reload under way: its snapshot, what it staged, what it would put back.
ReloadRec == [phase : Phases, cfg : Configs, diff : SUBSET Parts,
              staging : Slices, memory : Versions, pin : Versions, overlay : Versions]

\* The types of the variables.
RlTypes ==
    /\ disk \in Configs /\ committed \in Configs /\ pin \in Versions /\ memory \in Versions
    /\ edits \in Versions /\ built \in Nat /\ requests \in Nat /\ judged \in Nat
    /\ mailbox \in [0..MaxReloads -> Nat] /\ serving \in Slices
    /\ mcp \in [overlay : Versions, catalog : Versions]
    /\ reload \in ReloadRec \union {NoReload, [phase |-> "publish"]}
    /\ DOMAIN turns = Turns

\* A slice is of one verifier, and was built from one configuration.
Aligned(s) == s.observer = s.guard /\ s.guard = s.verifier
Fits(s, cfg) == /\ s.provider = cfg["provider"] /\ s.inspectors = cfg["computer"]
                /\ s.hooks = cfg["memory"] /\ s.verifier.of = cfg["verifier"]
Placed(cfg) == memory = cfg["memory"] /\ pin = cfg["computer"]

\* The serving verifier is the newest that was built or kept, is not closed,
\* and has every verdict.
VerifiersOK ==
    /\ built <= requests /\ requests <= MaxReloads
    /\ Aligned(serving) /\ serving.verifier \notin closed /\ mailbox[serving.verifier.id] = judged
    /\ \A v \in closed \union {serving.verifier} : v.id \in 0..built

Holds(t) == turns[t].at \in {"pinned", "running"}

\* A turn that holds a pin has slices of one configuration, with the verifier
\* that serves.
PinsOK ==
    \A t \in Turns : Holds(t) =>
        /\ Fits(turns[t].slices, turns[t].cfg)
        /\ turns[t].slices.observer = serving.verifier /\ turns[t].slices.guard = serving.verifier
        /\ turns[t].at = "running" => turns[t].mailbox = serving.verifier

Waiting == reload.phase \in {"mcp_wait", "mcp_apply", "verifier_wait"}

\* What a reload at one of its waits has staged fits its snapshot, and what it
\* keeps for an abort fits the committed configuration.
StagingOK ==
    Waiting =>
        /\ Fits(reload.staging, reload.cfg) /\ Aligned(reload.staging) /\ Placed(reload.cfg)
        /\ Fits(serving, committed)
        /\ reload.memory = committed["memory"] /\ reload.pin = committed["computer"]
        /\ Replaced(reload.staging) =>
               /\ reload.staging.verifier.id = built
               /\ \A v \in closed \union {serving.verifier} : v.id < built
        /\ reload.phase = "verifier_wait" => Replaced(reload.staging)

\* What is served is of the committed configuration, or of the one a reload has
\* just installed.
ServedOK ==
    /\ reload.phase \in {"free", "publish"} => Fits(serving, committed) /\ Placed(committed)
    /\ reload.phase = "warm" => Fits(serving, reload.cfg) /\ Placed(reload.cfg)

\* The inductive invariant.
RlInv == RlTypes /\ VerifiersOK /\ PinsOK /\ StagingOK /\ ServedOK

\* The phases of the two reloads without a snapshot.
LEMMA FreeIsFree == NoReload.phase = "free" /\ [phase |-> "publish"].phase = "publish"
BY DEF NoReload

\* The fields of a slice.
LEMMA SliceFields ==
    ASSUME NEW s \in Slices
    PROVE  /\ s.provider \in Versions /\ s.inspectors \in Versions /\ s.hooks \in Versions
           /\ s.guard \in VerifierObjects /\ s.observer \in VerifierObjects
           /\ s.verifier \in VerifierObjects /\ s.verifier.id \in Nat
BY DEF Slices, VerifierObjects

\* A gateway that has started serves what it read.
LEMMA RlInitInv == RlInit => RlInv
<1> SUFFICES ASSUME RlInit PROVE RlInv
  OBVIOUS
<1>1. 0 \in Versions /\ 0 \in 0..MaxReloads
  BY ReloadAssumption DEF Versions
<1>2. First \in VerifierObjects /\ First.id = 0 /\ First.of = 0
  BY <1>1 DEF First, VerifierObjects
<1>3. /\ serving \in Slices /\ Aligned(serving) /\ serving.verifier = First
      /\ serving.provider = 0 /\ serving.inspectors = 0 /\ serving.hooks = 0
  BY <1>1, <1>2 DEF RlInit, Slices, Aligned
<1>4. /\ committed \in Configs /\ disk \in Configs
      /\ committed["provider"] = 0 /\ committed["computer"] = 0
      /\ committed["memory"] = 0 /\ committed["verifier"] = 0
  BY <1>1 DEF RlInit, Configs, Parts
<1>5. mcp \in [overlay : Versions, catalog : Versions] /\ mailbox \in [0..MaxReloads -> Nat] /\ mailbox[0] = 0
  BY <1>1 DEF RlInit
<1>6. reload = NoReload /\ reload.phase = "free"
  BY FreeIsFree DEF RlInit
<1>7. RlTypes
  BY <1>1, <1>3, <1>4, <1>5, <1>6 DEF RlTypes, RlInit
<1>8. VerifiersOK
  BY <1>1, <1>2, <1>3, <1>5, ReloadAssumption DEF VerifiersOK, RlInit
<1>9. PinsOK
  BY DEF PinsOK, Holds, RlInit, NoPins
<1>10. StagingOK /\ ServedOK
  BY <1>2, <1>3, <1>4, <1>6 DEF StagingOK, ServedOK, Waiting, Fits, Placed, RlInit
<1> QED BY <1>7, <1>8, <1>9, <1>10 DEF RlInv

\* What a reload stages fits its snapshot: a slice whose keys did not change is
\* the serving one.
LEMMA Rebuilt ==
    ASSUME serving \in Slices, built \in Nat, Aligned(serving), Fits(serving, committed),
           memory = committed["memory"], NEW cfg \in Configs
    PROVE  LET s == RebuildLiveSlices(cfg, DiffKeys(cfg)) IN
           /\ s \in Slices /\ Fits(s, cfg) /\ Aligned(s)
           /\ StagedMemory(cfg, DiffKeys(cfg)) = cfg["memory"]
           /\ Replaced(s) => s.verifier.id = built + 1
<1> DEFINE d == DiffKeys(cfg)
           v == IF "verifier" \in d THEN [id |-> built + 1, of |-> cfg["verifier"]] ELSE serving.verifier
           rehook == d \intersect {"memory", "verifier"} # {}
           s == [provider   |-> IF "provider" \in d THEN cfg["provider"] ELSE serving.provider,
                 inspectors |-> IF "computer" \in d THEN cfg["computer"] ELSE serving.inspectors,
                 guard      |-> v,
                 hooks      |-> IF rehook THEN cfg["memory"] ELSE serving.hooks,
                 observer   |-> IF rehook THEN v ELSE serving.observer,
                 verifier   |-> v]
<1>1. RebuildLiveSlices(cfg, d) = s
  BY DEF RebuildLiveSlices
<1>2. \A p \in Parts : cfg[p] \in Versions /\ (p \notin d => cfg[p] = committed[p])
  BY DEF Configs, DiffKeys
<1>3. /\ serving.provider = committed["provider"] /\ serving.inspectors = committed["computer"]
      /\ serving.hooks = committed["memory"] /\ serving.verifier.of = committed["verifier"]
      /\ serving.observer = serving.verifier /\ serving.guard = serving.verifier
  BY DEF Fits, Aligned
<1>4. v \in VerifierObjects /\ v.of = cfg["verifier"] /\ (v # serving.verifier => v.id = built + 1)
  BY <1>2, <1>3, SliceFields DEF VerifierObjects, Parts
<1>5. /\ ("memory" \notin d /\ "verifier" \notin d) \/ rehook
      /\ ~rehook => "memory" \notin d /\ "verifier" \notin d
  OBVIOUS
<1>6. (IF rehook THEN v ELSE serving.observer) = v
  BY <1>3, <1>5
<1>7. (IF rehook THEN cfg["memory"] ELSE serving.hooks) = cfg["memory"]
  BY <1>2, <1>3, <1>5 DEF Parts
<1>8. (IF "provider" \in d THEN cfg["provider"] ELSE serving.provider) = cfg["provider"]
  BY <1>2, <1>3 DEF Parts
<1>9. (IF "computer" \in d THEN cfg["computer"] ELSE serving.inspectors) = cfg["computer"]
  BY <1>2, <1>3 DEF Parts
<1>10. StagedMemory(cfg, d) = cfg["memory"]
  BY <1>2, <1>5 DEF StagedMemory, Parts
<1>11. s = [provider |-> cfg["provider"], inspectors |-> cfg["computer"], guard |-> v,
            hooks |-> cfg["memory"], observer |-> v, verifier |-> v]
  BY <1>6, <1>7, <1>8, <1>9
<1>12. /\ cfg["provider"] \in Versions /\ cfg["computer"] \in Versions /\ cfg["memory"] \in Versions
  BY <1>2 DEF Parts
<1> HIDE DEF v, s, d
<1>13. s \in Slices /\ Fits(s, cfg) /\ Aligned(s) /\ s.verifier = v
  BY <1>4, <1>11, <1>12 DEF Slices, Fits, Aligned
<1> QED BY <1>1, <1>4, <1>10, <1>13 DEF Replaced, d

\* What Install does, whichever step it is part of.
LEMMA Installs ==
    ASSUME NEW r \in ReloadRec, Install(r), Fits(r.staging, r.cfg), Aligned(r.staging),
           memory' = r.cfg["memory"], pin' = r.cfg["computer"], committed \in Configs
    PROVE  /\ serving' = r.staging /\ serving' \in Slices /\ committed' \in Configs
           /\ reload' \in ReloadRec /\ StagingOK' /\ ServedOK'
<1>1. /\ r.staging \in Slices /\ r.cfg \in Configs
      /\ \A p \in Phases : [r EXCEPT !.phase = p] \in ReloadRec /\ [r EXCEPT !.phase = p].phase = p
                           /\ [r EXCEPT !.phase = p].cfg = r.cfg
  BY DEF ReloadRec
<1>2. serving' = r.staging
  BY DEF Install
<1>3. Placed(r.cfg)'
  BY DEF Placed
<1>4. CASE "provider" \in r.diff
  <2>1. reload' = [r EXCEPT !.phase = "warm"] /\ committed' = committed
    BY <1>4 DEF Install, storeVars
  <2>2. reload' \in ReloadRec /\ reload'.phase = "warm" /\ reload'.cfg = r.cfg
    BY <1>1, <2>1 DEF Phases
  <2> QED BY <1>1, <1>2, <1>3, <2>1, <2>2 DEF StagingOK, ServedOK, Waiting, Placed, Fits
<1>5. CASE "provider" \notin r.diff
  <2>1. reload' = [r EXCEPT !.phase = "publish"] /\ committed' = r.cfg
    BY <1>5 DEF Install
  <2>2. reload' \in ReloadRec /\ reload'.phase = "publish"
    BY <1>1, <2>1 DEF Phases
  <2> QED BY <1>1, <1>2, <1>3, <2>1, <2>2 DEF StagingOK, ServedOK, Waiting, Placed, Fits
<1> QED BY <1>4, <1>5

\* A copy with the serving verifier takes nothing from the turns.
LEMMA InstallsSame ==
    ASSUME VerifiersOK, PinsOK, NEW r \in ReloadRec, Install(r), ~Replaced(r.staging), Aligned(r.staging),
           built' = built, UNCHANGED <<mailbox, judged, turns>>,
           built <= requests', requests' <= MaxReloads
    PROVE  VerifiersOK' /\ PinsOK'
<1>1. serving' = r.staging /\ closed' = closed /\ serving'.verifier = serving.verifier
  BY DEF Install, Replaced
<1>2. VerifiersOK'
  BY <1>1 DEF VerifiersOK, Aligned
<1>3. PinsOK'
  BY <1>1 DEF PinsOK, Holds, Fits
<1> QED BY <1>2, <1>3

\* A reload that gives up puts back what it staged.
LEMMA Aborts ==
    ASSUME RlTypes, VerifiersOK, PinsOK, StagingOK, Waiting, AbortStaged(reload),
           UNCHANGED <<committed, serving, mailbox, judged, built, requests, turns>>
    PROVE  /\ memory' \in Versions /\ pin' \in Versions /\ reload' = NoReload
           /\ VerifiersOK' /\ PinsOK' /\ StagingOK' /\ ServedOK'
<1>1. reload \in ReloadRec
  BY FreeIsFree DEF RlTypes, Waiting
<1>2. reload.memory \in Versions /\ reload.pin \in Versions /\ reload.staging \in Slices
  BY <1>1 DEF ReloadRec
<1>3. /\ memory' = reload.memory /\ pin' = reload.pin /\ reload' = NoReload
      /\ closed' = IF Replaced(reload.staging) THEN closed \union {reload.staging.verifier} ELSE closed
  BY DEF AbortStaged
<1>4. /\ Fits(serving, committed) /\ reload.memory = committed["memory"] /\ reload.pin = committed["computer"]
      /\ Replaced(reload.staging) => reload.staging.verifier.id = built
  BY DEF StagingOK
<1>5. built \in Nat
  BY DEF RlTypes
<1>6. VerifiersOK'
  <2>1. CASE Replaced(reload.staging)
    <3>1. reload.staging.verifier.id \in 0..built /\ reload.staging.verifier # serving.verifier
      BY <1>4, <1>5, <2>1 DEF Replaced
    <3>2. closed' = closed \union {reload.staging.verifier}
      BY <1>3, <2>1
    <3> QED BY <3>1, <3>2 DEF VerifiersOK, Aligned
  <2>2. CASE ~Replaced(reload.staging)
    BY <1>3, <2>2 DEF VerifiersOK, Aligned
  <2> QED BY <2>1, <2>2
<1>7. PinsOK'
  BY DEF PinsOK, Holds, Fits
<1>8. StagingOK' /\ ServedOK'
  BY <1>3, <1>4, FreeIsFree DEF StagingOK, ServedOK, Waiting, Fits, Placed
<1> QED BY <1>2, <1>3, <1>6, <1>7, <1>8

\* A turn that moves on, and nothing else.
LEMMA TurnMoves ==
    ASSUME RlInv, UNCHANGED <<disk, pin, storeVars, serving, memory, mcp, mailbox, judged, closed, built,
                              reload, requests, edits>>,
           DOMAIN turns' = Turns,
           NEW t \in Turns, \A u \in Turns \ {t} : turns'[u] = turns[u],
           turns'[t].at \in {"pinned", "running"} =>
               /\ Fits(turns'[t].slices, turns'[t].cfg)
               /\ turns'[t].slices.observer = serving.verifier /\ turns'[t].slices.guard = serving.verifier
               /\ turns'[t].at = "running" => turns'[t].mailbox = serving.verifier
    PROVE  RlInv'
<1>1. RlTypes'
  BY DEF RlInv, RlTypes, storeVars
<1>2. VerifiersOK'
  BY DEF RlInv, VerifiersOK, Aligned
<1>3. PinsOK'
  BY DEF RlInv, PinsOK, Holds, Fits
<1>4. StagingOK' /\ ServedOK'
  BY DEF RlInv, StagingOK, ServedOK, Waiting, Fits, Aligned, Placed, Replaced, storeVars
<1> QED BY <1>1, <1>2, <1>3, <1>4 DEF RlInv

\* Every step of the configuration keeps the invariant.
LEMMA RlStepInv ==
    ASSUME RlInv, [RlNext]_rlVars
    PROVE  RlInv'
<1>1. RlTypes
  BY DEF RlInv
<1>2. VerifiersOK
  BY DEF RlInv
<1>3. PinsOK
  BY DEF RlInv
<1>4. StagingOK
  BY DEF RlInv
<1>5. ServedOK
  BY DEF RlInv
<1>6. CASE EditFile
  <2>1. edits + 1 \in Versions /\ edits' = edits + 1
    BY <1>1, <1>6, ReloadAssumption DEF EditFile, RlTypes, Versions
  <2>2. disk' \in Configs
    <3>1. PICK s \in SUBSET Parts : disk' = [p \in Parts |-> IF p \in s THEN edits + 1 ELSE disk[p]]
      BY <1>6 DEF EditFile
    <3> QED BY <1>1, <2>1, <3>1 DEF RlTypes, Configs
  <2>3. UNCHANGED <<pin, storeVars, serving, memory, mcp, judgeVars, closed, built, reload,
                    requests, turns>>
    BY <1>6 DEF EditFile
  <2>4. RlTypes'
    BY <1>1, <2>1, <2>2, <2>3 DEF RlTypes, storeVars, judgeVars
  <2>5. VerifiersOK' /\ PinsOK'
    BY <1>2, <1>3, <2>3 DEF VerifiersOK, PinsOK, Holds, Aligned, Fits, judgeVars
  <2>6. StagingOK' /\ ServedOK'
    BY <1>4, <1>5, <2>3 DEF StagingOK, ServedOK, Waiting, Fits, Aligned, Placed, Replaced, storeVars
  <2> QED BY <2>4, <2>5, <2>6 DEF RlInv
<1>7. ASSUME NEW t \in Turns, StartTurn(t) PROVE RlInv'
  <2>1. /\ UNCHANGED <<disk, pin, storeVars, serving, memory, mcp, mailbox, judged, closed, built, reload, requests,
                       edits>>
        /\ turns' = [turns EXCEPT ![t] = [at |-> "wait"]]
    BY <1>7 DEF StartTurn, judgeVars
  <2>2. turns'[t].at = "wait" /\ DOMAIN turns' = Turns /\ \A u \in Turns \ {t} : turns'[u] = turns[u]
    BY <1>1, <2>1 DEF RlTypes
  <2> QED BY <1>7, <2>1, <2>2, TurnMoves
<1>8. ASSUME NEW t \in Turns, PinTurn(t) PROVE RlInv'
  <2>1. /\ UNCHANGED <<disk, pin, storeVars, serving, memory, mcp, mailbox, judged, closed, built, reload, requests,
                       edits>>
        /\ turns' = [turns EXCEPT ![t] = [at |-> "pinned", cfg |-> committed, slices |-> serving]]
        /\ reload = NoReload
    BY <1>8 DEF PinTurn, judgeVars
  <2>2. /\ turns'[t] = [at |-> "pinned", cfg |-> committed, slices |-> serving]
        /\ DOMAIN turns' = Turns /\ \A u \in Turns \ {t} : turns'[u] = turns[u]
    BY <1>1, <2>1 DEF RlTypes
  <2>3. turns'[t].at = "pinned" /\ turns'[t].cfg = committed /\ turns'[t].slices = serving
    BY <2>2
  <2>4. Fits(serving, committed) /\ serving.observer = serving.verifier /\ serving.guard = serving.verifier
    BY <1>2, <1>5, <2>1, FreeIsFree DEF ServedOK, VerifiersOK, Aligned
  <2> QED BY <1>8, <2>1, <2>2, <2>3, <2>4, TurnMoves
<1>9. ASSUME NEW t \in Turns, BuildContext(t) PROVE RlInv'
  <2>1. /\ UNCHANGED <<disk, pin, storeVars, serving, memory, mcp, mailbox, judged, closed, built, reload, requests,
                       edits>>
        /\ turns' = [turns EXCEPT ![t] = [at |-> "running", cfg |-> turns[t].cfg, slices |-> turns[t].slices,
                                          memory |-> memory, mailbox |-> serving.verifier, mcp |-> mcp]]
        /\ turns[t].at = "pinned"
    BY <1>9 DEF BuildContext, judgeVars
  <2>2. /\ turns'[t] = [at |-> "running", cfg |-> turns[t].cfg, slices |-> turns[t].slices,
                        memory |-> memory, mailbox |-> serving.verifier, mcp |-> mcp]
        /\ DOMAIN turns' = Turns /\ \A u \in Turns \ {t} : turns'[u] = turns[u]
    BY <1>1, <2>1 DEF RlTypes
  <2>3. /\ turns'[t].cfg = turns[t].cfg /\ turns'[t].slices = turns[t].slices
        /\ turns'[t].mailbox = serving.verifier
    BY <2>2
  <2>4. /\ Fits(turns[t].slices, turns[t].cfg)
        /\ turns[t].slices.observer = serving.verifier /\ turns[t].slices.guard = serving.verifier
    BY <1>3, <2>1 DEF PinsOK, Holds
  <2> QED BY <1>9, <2>1, <2>2, <2>3, <2>4, TurnMoves
<1>10. ASSUME NEW t \in Turns, EndTurn(t) PROVE RlInv'
  <2>1. /\ UNCHANGED <<disk, pin, storeVars, serving, memory, mcp, mailbox, judged, closed, built, reload, requests,
                       edits>>
        /\ turns' = [turns EXCEPT ![t] = [at |-> "over"]]
    BY <1>10 DEF EndTurn, judgeVars
  <2>2. turns'[t].at = "over" /\ DOMAIN turns' = Turns /\ \A u \in Turns \ {t} : turns'[u] = turns[u]
    BY <1>1, <2>1 DEF RlTypes
  <2> QED BY <1>10, <2>1, <2>2, TurnMoves
<1>11. ASSUME NEW t \in Turns, EnqueueWork(t) PROVE RlInv'
  <2>1. UNCHANGED <<disk, pin, storeVars, serving, memory, mcp, mailbox, judged, closed, built, reload, requests,
                    edits, turns>>
    BY <1>11 DEF EnqueueWork
  <2> QED BY <1>1, <1>3, <1>11, <2>1, TurnMoves DEF RlTypes, PinsOK, Holds
<1>12. CASE WorkEnds
  <2>1. /\ UNCHANGED <<disk, pin, storeVars, serving, memory, mcp, closed, built, reload, requests,
                       edits, turns>>
        /\ \E v \in {0, 1} : /\ mailbox' = [mailbox EXCEPT ![serving.verifier.id] = @ + v]
                             /\ judged' = judged + v
    BY <1>12 DEF WorkEnds
  <2>2. serving.verifier.id \in 0..MaxReloads /\ serving.verifier.id \in 0..built
    BY <1>1, <1>2, ReloadAssumption DEF RlTypes, VerifiersOK
  <2>3. mailbox' \in [0..MaxReloads -> Nat] /\ judged' \in Nat /\ mailbox'[serving.verifier.id] = judged'
    BY <1>1, <1>2, <2>1, <2>2 DEF RlTypes, VerifiersOK
  <2>4. RlTypes'
    BY <1>1, <2>1, <2>3 DEF RlTypes, storeVars
  <2>5. VerifiersOK'
    BY <1>2, <2>1, <2>3 DEF VerifiersOK, Aligned
  <2>6. PinsOK'
    BY <1>3, <2>1 DEF PinsOK, Holds, Fits
  <2>7. StagingOK' /\ ServedOK'
    BY <1>4, <1>5, <2>1 DEF StagingOK, ServedOK, Waiting, Fits, Aligned, Placed, Replaced, storeVars
  <2> QED BY <2>4, <2>5, <2>6, <2>7 DEF RlInv
<1>13. ASSUME requests < MaxReloads, requests' = requests + 1
       PROVE  requests' \in Nat /\ requests' <= MaxReloads /\ built <= requests' /\ built + 1 <= requests'
  BY <1>1, <1>2, <1>13, ReloadAssumption DEF RlTypes, VerifiersOK
<1>14. ASSUME NEW patch \in {pin, edits} PROVE Prepared(patch) \in Configs /\ Prepared(patch)["computer"] = patch
  BY <1>1 DEF RlTypes, Prepared, Configs, Parts
<1>15. CASE ReloadRefused
  <2>1. /\ UNCHANGED <<disk, pin, storeVars, serving, memory, mcp, judgeVars, closed, built,
                       reload, edits, turns>>
        /\ requests' \in Nat /\ requests' <= MaxReloads /\ built <= requests'
    BY <1>13, <1>15 DEF ReloadRefused
  <2>2. RlTypes'
    BY <1>1, <2>1 DEF RlTypes, storeVars, judgeVars
  <2>3. VerifiersOK' /\ PinsOK'
    BY <1>2, <1>3, <2>1 DEF VerifiersOK, PinsOK, Holds, Aligned, Fits, judgeVars
  <2>4. StagingOK' /\ ServedOK'
    BY <1>4, <1>5, <2>1 DEF StagingOK, ServedOK, Waiting, Fits, Aligned, Placed, Replaced, storeVars
  <2> QED BY <2>2, <2>3, <2>4 DEF RlInv
<1>16. CASE ReloadHot
  <2>1. /\ UNCHANGED <<disk, pin, serving, memory, mcp, judgeVars, closed, built, edits, turns>>
        /\ requests' \in Nat /\ requests' <= MaxReloads /\ built <= requests'
        /\ reload = NoReload /\ reload' = [phase |-> "publish"] /\ committed' = Prepared(pin)
        /\ DiffKeys(Prepared(pin)) = {"hot"}
    BY <1>13, <1>16 DEF ReloadHot
  <2>2. Prepared(pin) \in Configs
    BY <1>14
  <2>3. \A p \in Parts \ {"hot"} : Prepared(pin)[p] = committed[p]
    BY <2>1 DEF DiffKeys
  <2>4. Fits(serving, committed') /\ Placed(committed)'
    BY <1>5, <2>1, <2>3, FreeIsFree DEF ServedOK, Fits, Placed, Parts
  <2>5. RlTypes'
    BY <1>1, <2>1, <2>2 DEF RlTypes, judgeVars
  <2>6. VerifiersOK' /\ PinsOK'
    BY <1>2, <1>3, <2>1 DEF VerifiersOK, PinsOK, Holds, Aligned, Fits, judgeVars
  <2>7. StagingOK' /\ ServedOK'
    BY <2>1, <2>4, FreeIsFree DEF StagingOK, ServedOK, Waiting, Fits, Placed
  <2> QED BY <2>5, <2>6, <2>7 DEF RlInv
<1>17. CASE ReloadApplies
  <2>1. /\ UNCHANGED <<disk, mcp, judgeVars, edits, turns>> /\ reload = NoReload
        /\ requests' \in Nat /\ requests' <= MaxReloads /\ built <= requests' /\ built + 1 <= requests'
    BY <1>13, <1>17 DEF ReloadApplies
  <2>2. PICK patch \in {pin, edits} :
          LET cfg == Prepared(patch)
              s   == RebuildLiveSlices(cfg, DiffKeys(cfg))
              r   == [phase |-> "mcp_wait", cfg |-> cfg, diff |-> DiffKeys(cfg), staging |-> s,
                      memory |-> memory, pin |-> pin, overlay |-> mcp.overlay]
          IN /\ pin' = patch /\ memory' = StagedMemory(cfg, DiffKeys(cfg))
             /\ built' = IF Replaced(s) THEN built + 1 ELSE built
             /\ \/ reload' = r /\ UNCHANGED <<serving, storeVars, closed>>
                \/ /\ Replaced(s) /\ reload' = [r EXCEPT !.phase = "verifier_wait"]
                   /\ UNCHANGED <<serving, storeVars, closed>>
                \/ ~Replaced(s) /\ Install(r)
    BY <1>17 DEF ReloadApplies
  <2> DEFINE cfg == Prepared(patch)
             s   == RebuildLiveSlices(cfg, DiffKeys(cfg))
             r   == [phase |-> "mcp_wait", cfg |-> cfg, diff |-> DiffKeys(cfg), staging |-> s,
                     memory |-> memory, pin |-> pin, overlay |-> mcp.overlay]
  <2>3. Fits(serving, committed) /\ Placed(committed) /\ Aligned(serving)
    BY <1>2, <1>5, <2>1, FreeIsFree DEF ServedOK, VerifiersOK
  <2>4. cfg \in Configs /\ cfg["computer"] = patch /\ patch \in Versions /\ DiffKeys(cfg) \in SUBSET Parts
    BY <1>1, <1>14 DEF RlTypes, DiffKeys
  <2>5. /\ s \in Slices /\ Fits(s, cfg) /\ Aligned(s) /\ StagedMemory(cfg, DiffKeys(cfg)) = cfg["memory"]
        /\ Replaced(s) => s.verifier.id = built + 1
    BY <1>1, <2>3, <2>4, Rebuilt DEF RlTypes, Placed
  <2>6. /\ memory \in Versions /\ pin \in Versions /\ mcp.overlay \in Versions
        /\ memory' = cfg["memory"] /\ memory' \in Versions /\ pin' = cfg["computer"] /\ pin' \in Versions
        /\ built \in Nat /\ built' \in Nat /\ built' <= requests' /\ built <= built'
    BY <1>1, <2>1, <2>2, <2>4, <2>5 DEF RlTypes, Configs, Parts
  <2> HIDE DEF s, cfg
  <2>7. r \in ReloadRec /\ r.staging = s /\ r.cfg = cfg /\ r.memory = memory /\ r.pin = pin /\ r.phase = "mcp_wait"
    BY <2>4, <2>5, <2>6 DEF ReloadRec, Phases
  <2>8. /\ [r EXCEPT !.phase = "verifier_wait"] \in ReloadRec
        /\ [r EXCEPT !.phase = "verifier_wait"].staging = s /\ [r EXCEPT !.phase = "verifier_wait"].cfg = cfg
        /\ [r EXCEPT !.phase = "verifier_wait"].memory = memory /\ [r EXCEPT !.phase = "verifier_wait"].pin = pin
        /\ [r EXCEPT !.phase = "verifier_wait"].phase = "verifier_wait"
    BY <2>7 DEF ReloadRec, Phases
  <2> HIDE DEF r
  <2>9. CASE /\ UNCHANGED <<serving, storeVars, closed>>
             /\ reload' \in ReloadRec /\ reload'.staging = s /\ reload'.cfg = cfg
             /\ reload'.memory = memory /\ reload'.pin = pin
             /\ reload'.phase = "mcp_wait" \/ (reload'.phase = "verifier_wait" /\ Replaced(s))
    <3>1. RlTypes'
      BY <1>1, <2>1, <2>6, <2>9 DEF RlTypes, storeVars, judgeVars
    <3>2. \A v \in closed \union {serving.verifier} : v.id \in 0..built
      BY <1>2 DEF VerifiersOK
    <3>3. VerifiersOK'
      <4>1. \A v \in closed' \union {serving'.verifier} : v.id \in 0..built'
        BY <2>6, <2>9, <3>2
      <4> QED BY <1>2, <2>1, <2>6, <2>9, <4>1 DEF VerifiersOK, Aligned, judgeVars
    <3>4. PinsOK'
      BY <1>3, <2>1, <2>9 DEF PinsOK, Holds, Fits
    <3>5. StagingOK' /\ ServedOK'
      <4>1. Replaced(s) => /\ s.verifier.id = built'
                           /\ \A v \in closed' \union {serving'.verifier} : v.id < built'
        <5> SUFFICES ASSUME Replaced(s) PROVE s.verifier.id = built' /\ \A v \in closed' \union {serving'.verifier} : v.id < built'
          OBVIOUS
        <5>1. built' = built + 1
          BY <2>2 DEF s, cfg
        <5> QED BY <2>5, <2>6, <2>9, <3>2, <5>1
      <4>2. Fits(reload'.staging, reload'.cfg) /\ Aligned(reload'.staging) /\ Fits(serving', committed')
        BY <2>3, <2>5, <2>9 DEF Fits, Aligned, storeVars
      <4>3. reload'.memory = committed'["memory"] /\ reload'.pin = committed'["computer"] /\ Placed(reload.cfg)'
        BY <2>3, <2>6, <2>9 DEF Placed, storeVars
      <4>4. Replaced(reload.staging)' <=> Replaced(s)
        BY <2>9 DEF Replaced
      <4> QED BY <2>9, <4>1, <4>2, <4>3, <4>4 DEF StagingOK, ServedOK, Waiting, Fits, Aligned
    <3> QED BY <3>1, <3>3, <3>4, <3>5 DEF RlInv
  <2>10. CASE ~Replaced(s) /\ Install(r)
    <3>1. built' = built
      BY <2>2, <2>10 DEF s, cfg
    <3>2. /\ serving' = s /\ serving' \in Slices /\ committed' \in Configs
          /\ reload' \in ReloadRec /\ StagingOK' /\ ServedOK'
      BY <1>1, <2>5, <2>6, <2>7, <2>10, Installs DEF RlTypes
    <3>3. VerifiersOK' /\ PinsOK'
      BY <1>2, <1>3, <2>1, <2>5, <2>7, <2>10, <3>1, InstallsSame DEF judgeVars
    <3>4. RlTypes'
      BY <1>1, <2>1, <2>6, <3>2 DEF RlTypes, judgeVars
    <3> QED BY <3>2, <3>3, <3>4 DEF RlInv
  <2> QED BY <2>2, <2>7, <2>8, <2>9, <2>10 DEF r, s, cfg
<1>18. Waiting => /\ reload \in ReloadRec /\ reload.cfg \in Configs /\ reload.staging \in Slices
                  /\ reload.overlay \in Versions /\ reload.cfg["mcp"] \in Versions
  BY <1>1, FreeIsFree DEF RlTypes, Waiting, ReloadRec, Configs, Parts
<1>19. CASE McpIdle
  <2>1. /\ UNCHANGED <<disk, pin, storeVars, serving, memory, judgeVars, closed, built, requests,
                       edits, turns>>
        /\ reload.phase = "mcp_wait" /\ mcp' = [mcp EXCEPT !.overlay = reload.cfg["mcp"]]
        /\ reload' = [reload EXCEPT !.phase = "mcp_apply"]
    BY <1>19 DEF McpIdle
  <2>2. Waiting
    BY <2>1 DEF Waiting
  <2>3. /\ reload' \in ReloadRec /\ reload'.phase = "mcp_apply" /\ reload'.cfg = reload.cfg
        /\ reload'.staging = reload.staging /\ reload'.memory = reload.memory /\ reload'.pin = reload.pin
    BY <1>18, <2>1, <2>2 DEF ReloadRec, Phases
  <2>4. mcp' \in [overlay : Versions, catalog : Versions]
    BY <1>1, <1>18, <2>1, <2>2 DEF RlTypes
  <2>5. RlTypes'
    BY <1>1, <2>1, <2>3, <2>4 DEF RlTypes, storeVars, judgeVars
  <2>6. VerifiersOK' /\ PinsOK'
    BY <1>2, <1>3, <2>1 DEF VerifiersOK, PinsOK, Holds, Aligned, Fits, judgeVars
  <2>7. StagingOK' /\ ServedOK'
    BY <1>4, <2>1, <2>2, <2>3 DEF StagingOK, ServedOK, Waiting, Fits, Aligned, Placed, Replaced,
       storeVars
  <2> QED BY <2>5, <2>6, <2>7 DEF RlInv
<1>20. CASE McpApplied
  <2>1. /\ UNCHANGED <<disk, pin, memory, judgeVars, built, requests, edits, turns>>
        /\ reload.phase = "mcp_apply" /\ mcp' = [mcp EXCEPT !.catalog = reload.cfg["mcp"]]
        /\ \/ /\ Replaced(reload.staging) /\ reload' = [reload EXCEPT !.phase = "verifier_wait"]
              /\ UNCHANGED <<serving, storeVars, closed>>
           \/ ~Replaced(reload.staging) /\ Install(reload)
    BY <1>20 DEF McpApplied
  <2>2. Waiting
    BY <2>1 DEF Waiting
  <2>3. mcp' \in [overlay : Versions, catalog : Versions]
    BY <1>1, <1>18, <2>1, <2>2 DEF RlTypes
  <2>4. CASE Replaced(reload.staging) /\ reload' = [reload EXCEPT !.phase = "verifier_wait"]
             /\ UNCHANGED <<serving, storeVars, closed>>
    <3>1. /\ reload' \in ReloadRec /\ reload'.phase = "verifier_wait" /\ reload'.cfg = reload.cfg
          /\ reload'.staging = reload.staging /\ reload'.memory = reload.memory /\ reload'.pin = reload.pin
      BY <1>18, <2>2, <2>4 DEF ReloadRec, Phases
    <3>2. RlTypes'
      BY <1>1, <2>1, <2>3, <2>4, <3>1 DEF RlTypes, storeVars, judgeVars
    <3>3. VerifiersOK' /\ PinsOK'
      BY <1>2, <1>3, <2>1, <2>4 DEF VerifiersOK, PinsOK, Holds, Aligned, Fits, judgeVars
    <3>4. StagingOK' /\ ServedOK'
      BY <1>4, <2>1, <2>2, <2>4, <3>1 DEF StagingOK, ServedOK, Waiting, Fits, Aligned, Placed,
         Replaced, storeVars
    <3> QED BY <3>2, <3>3, <3>4 DEF RlInv
  <2>5. CASE ~Replaced(reload.staging) /\ Install(reload)
    <3>1. Fits(reload.staging, reload.cfg) /\ Aligned(reload.staging) /\ Placed(reload.cfg)
      BY <1>4, <2>2 DEF StagingOK
    <3>2. memory' = reload.cfg["memory"] /\ pin' = reload.cfg["computer"]
      BY <2>1, <3>1 DEF Placed
    <3>3. /\ serving' \in Slices /\ committed' \in Configs
          /\ reload' \in ReloadRec /\ StagingOK' /\ ServedOK'
      BY <1>1, <1>18, <2>2, <2>5, <3>1, <3>2, Installs DEF RlTypes
    <3>4. VerifiersOK' /\ PinsOK'
      BY <1>2, <1>3, <1>18, <2>1, <2>2, <2>5, <3>1, InstallsSame DEF judgeVars, VerifiersOK
    <3>5. RlTypes'
      BY <1>1, <2>1, <2>3, <3>3 DEF RlTypes, judgeVars
    <3> QED BY <3>3, <3>4, <3>5 DEF RlInv
  <2> QED BY <2>1, <2>4, <2>5
<1>21. ASSUME Waiting, AbortStaged(reload), mcp' \in [overlay : Versions, catalog : Versions],
              UNCHANGED <<disk, storeVars, serving, judgeVars, built, requests, edits, turns>>
       PROVE  RlInv'
  <2>1. /\ memory' \in Versions /\ pin' \in Versions /\ reload' = NoReload
        /\ VerifiersOK' /\ PinsOK' /\ StagingOK' /\ ServedOK'
    BY <1>1, <1>2, <1>3, <1>4, <1>21, Aborts DEF storeVars, judgeVars
  <2>2. RlTypes'
    BY <1>1, <1>21, <2>1 DEF RlTypes, storeVars, judgeVars
  <2> QED BY <2>1, <2>2 DEF RlInv
<1>22. CASE McpFails
  <2>1. /\ Waiting /\ AbortStaged(reload)
        /\ UNCHANGED <<disk, storeVars, serving, judgeVars, built, requests, edits, turns>>
        /\ \/ UNCHANGED mcp
           \/ \E c \in {mcp.catalog, reload.cfg["mcp"]} : mcp' = [overlay |-> reload.overlay, catalog |-> c]
    BY <1>22 DEF McpFails, Waiting
  <2>2. mcp' \in [overlay : Versions, catalog : Versions]
    BY <1>1, <1>18, <2>1 DEF RlTypes
  <2> QED BY <1>21, <2>1, <2>2
<1>23. CASE VerifierTimesOut
  <2>1. /\ Waiting /\ AbortStaged(reload) /\ UNCHANGED mcp
        /\ UNCHANGED <<disk, storeVars, serving, judgeVars, built, requests, edits, turns>>
    BY <1>23 DEF VerifierTimesOut, Waiting
  <2> QED BY <1>1, <1>21, <2>1 DEF RlTypes
<1>24. CASE VerifierDrained
  <2>1. /\ UNCHANGED <<disk, pin, memory, mcp, judged, built, requests, edits, turns>>
        /\ reload.phase = "verifier_wait" /\ InFlight = {} /\ Install(reload)
        /\ mailbox' = [mailbox EXCEPT ![reload.staging.verifier.id] = mailbox[serving.verifier.id]]
    BY <1>24 DEF VerifierDrained
  <2>2. Waiting
    BY <2>1 DEF Waiting
  <2>3. /\ Fits(reload.staging, reload.cfg) /\ Aligned(reload.staging) /\ Placed(reload.cfg)
        /\ Replaced(reload.staging) /\ reload.staging.verifier.id = built
        /\ \A v \in closed \union {serving.verifier} : v.id < built
    BY <1>4, <2>1, <2>2 DEF StagingOK
  <2>4. memory' = reload.cfg["memory"] /\ pin' = reload.cfg["computer"]
    BY <2>1, <2>3 DEF Placed
  <2>5. /\ serving' = reload.staging /\ serving' \in Slices /\ committed' \in Configs
        /\ reload' \in ReloadRec /\ StagingOK' /\ ServedOK'
    BY <1>1, <1>18, <2>1, <2>2, <2>3, <2>4, Installs DEF RlTypes
  <2>6. built \in Nat /\ built \in 0..MaxReloads /\ serving.verifier.id \in 0..MaxReloads
    BY <1>1, <1>2, ReloadAssumption DEF RlTypes, VerifiersOK
  <2>7. mailbox' \in [0..MaxReloads -> Nat] /\ mailbox'[built] = judged
    BY <1>1, <1>2, <2>1, <2>3, <2>6 DEF RlTypes, VerifiersOK
  <2>8. RlTypes'
    BY <1>1, <2>1, <2>5, <2>7 DEF RlTypes
  <2>9. VerifiersOK'
    <3>1. closed' = closed \union {serving.verifier} /\ serving'.verifier = reload.staging.verifier
      BY <2>1, <2>3, <2>5 DEF Install
    <3>2. \A v \in closed' : v.id < built
      BY <2>3, <3>1
    <3>3. serving'.verifier \notin closed' /\ serving'.verifier.id = built
      BY <2>3, <2>6, <3>1, <3>2
    <3>4. \A v \in closed' \union {serving'.verifier} : v.id \in 0..built
      BY <1>2, <2>6, <3>1, <3>3 DEF VerifiersOK
    <3> QED BY <1>2, <2>1, <2>3, <2>5, <2>7, <3>3, <3>4 DEF VerifiersOK, Aligned
  <2>10. PinsOK'
    BY <2>1 DEF PinsOK, Holds, InFlight
  <2> QED BY <2>5, <2>8, <2>9, <2>10 DEF RlInv
<1>25. CASE Warmed
  <2>1. /\ UNCHANGED <<disk, pin, serving, memory, mcp, judgeVars, closed, built, requests, edits,
                       turns>>
        /\ reload.phase = "warm" /\ committed' = reload.cfg /\ reload' = [phase |-> "publish"]
    BY <1>25 DEF Warmed
  <2>2. reload.cfg \in Configs
    BY <1>1, <2>1, FreeIsFree DEF RlTypes, ReloadRec
  <2>3. Fits(serving, reload.cfg) /\ Placed(reload.cfg)
    BY <1>5, <2>1 DEF ServedOK
  <2>4. RlTypes'
    BY <1>1, <2>1, <2>2 DEF RlTypes, judgeVars
  <2>5. VerifiersOK' /\ PinsOK'
    BY <1>2, <1>3, <2>1 DEF VerifiersOK, PinsOK, Holds, Aligned, Fits, judgeVars
  <2>6. StagingOK' /\ ServedOK'
    BY <2>1, <2>3, FreeIsFree DEF StagingOK, ServedOK, Waiting, Fits, Placed
  <2> QED BY <2>4, <2>5, <2>6 DEF RlInv
<1>26. CASE Published
  <2>1. /\ UNCHANGED <<disk, pin, storeVars, serving, memory, mcp, judgeVars, closed, built,
                       requests, edits, turns>>
        /\ reload.phase = "publish" /\ reload' = NoReload
    BY <1>26 DEF Published
  <2>2. RlTypes'
    BY <1>1, <2>1 DEF RlTypes, storeVars, judgeVars
  <2>3. VerifiersOK' /\ PinsOK'
    BY <1>2, <1>3, <2>1 DEF VerifiersOK, PinsOK, Holds, Aligned, Fits, judgeVars
  <2>4. StagingOK' /\ ServedOK'
    BY <1>5, <2>1, FreeIsFree DEF StagingOK, ServedOK, Waiting, Fits, Placed, storeVars
  <2> QED BY <2>2, <2>3, <2>4 DEF RlInv
<1>27. CASE UNCHANGED rlVars
  <2>1. RlTypes'
    BY <1>1, <1>27 DEF rlVars, RlTypes, storeVars, judgeVars
  <2>2. VerifiersOK' /\ PinsOK'
    BY <1>2, <1>3, <1>27 DEF rlVars, VerifiersOK, PinsOK, Holds, Aligned, Fits, judgeVars
  <2>3. StagingOK' /\ ServedOK'
    BY <1>4, <1>5, <1>27 DEF rlVars, StagingOK, ServedOK, Waiting, Fits, Aligned, Placed, Replaced,
       storeVars
  <2> QED BY <2>1, <2>2, <2>3 DEF RlInv
<1> QED
  BY <1>6, <1>7, <1>8, <1>9, <1>10, <1>11, <1>12, <1>15, <1>16, <1>17, <1>19, <1>20, <1>22, <1>23,
     <1>24, <1>25,
     <1>26, <1>27 DEF RlNext

(* A turn works with one revision and one verifier however reloads come and *)
(* go around it, what is served follows the committed configuration, also   *)
(* after a reload that failed at any of its waits, and no verdict is lost   *)
(* when the verifier is replaced.                                           *)
THEOREM ReloadSafety == RlSpec => []ReloadSafe
<1>1. RlInv => ReloadSafe
  <2> SUFFICES ASSUME RlInv PROVE ReloadSafe
    OBVIOUS
  <2>1. PinnedTogether
    BY DEF RlInv, PinsOK, Holds, Fits, PinnedTogether, InFlight
  <2>2. OneVerifierPerTurn
    BY DEF RlInv, PinsOK, Holds, VerifiersOK, OneVerifierPerTurn, InFlight
  <2>3. ServesCommitted
    BY FreeIsFree DEF RlInv, ServedOK, VerifiersOK, Fits, Placed, ServesCommitted
  <2>4. VerdictsSurvive
    BY DEF RlInv, VerifiersOK, VerdictsSurvive
  <2> QED BY <2>1, <2>2, <2>3, <2>4 DEF ReloadSafe
<1> QED BY <1>1, RlInitInv, RlStepInv, PTL DEF RlSpec

-----------------------------------------------------------------------------
(* The outbox.  Whoever may still file a message is bound to the palace of  *)
(* its row, so that a row that changes hands takes no drawer to another one. *)

\* The types of the outbox.
CallStates == {"new", "retry", "plain", "acked", "stored", "raised"}

MmTypes ==
    /\ call \in [Msgs -> CallStates] /\ copies \in [Msgs -> 0..1]
    /\ box \in [Msgs -> Row] /\ writer \in [Writers -> Writer]
    /\ threads \subseteq Writers \X Msgs /\ drawers \in [Palaces -> SUBSET Msgs]

\* A writer that is not flushing has nothing in hand, and only a running one flushes.
WritersOK ==
    \A w \in Writers :
        /\ writer[w].step = "idle" => writer[w].batch = {} /\ writer[w].cur = Nobody
        /\ writer[w].step \in {"upsert", "ok", "transient", "permanent"} => writer[w].cur \in Msgs
        /\ writer[w].up = "up" => writer[w].palace \in Palaces
        /\ writer[w].up # "up" => writer[w].step = "idle"

Bound(m, p) == box[m].st # "absent" /\ box[m].palace = p

\* Whatever a writer or a thread it left behind may still file is bound to its palace.
HandlesOK ==
    \A w \in Writers, m \in Msgs :
        m \in writer[w].batch \/ writer[w].cur = m \/ <<w, m>> \in threads =>
            writer[w].palace \in Palaces /\ Bound(m, writer[w].palace)

\* What was filed is bound to the palace it was filed in.
FiledOK == \A p \in Palaces : \A m \in drawers[p] : Bound(m, p)

\* An upsert that succeeded has written its drawer.
OkFiled == \A w \in Writers : writer[w].step = "ok" => writer[w].cur \in drawers[writer[w].palace]

\* Exactly the leased rows have an owner.
OwnedOK == \A m \in Msgs : box[m].st = "processing" <=> box[m].owner # Nobody

\* The row a flush has done with is not leased to it any more.
CurDone ==
    \A w \in Writers : writer[w].step = "next" /\ writer[w].cur \in Msgs => box[writer[w].cur].owner # w

\* A row that was ever claimed is bound to a palace.
ClaimedBound == \A m \in Msgs : box[m].st \in {"processing", "committed", "gone"} => box[m].palace \in Palaces

\* A writer that has not started owns nothing.
HoldsNew ==
    \A w \in Writers : writer[w].up = "new" => \A m \in Msgs : <<w, m>> \notin threads /\ box[m].owner # w

\* The inductive invariant of the outbox.
MmInv == /\ MmTypes /\ WritersOK /\ HandlesOK /\ FiledOK /\ OkFiled /\ OwnedOK /\ CurDone /\ HoldsNew
         /\ ClaimedBound /\ CommittedIsFiled /\ HistoryCanonical /\ LeaseHasHolder

\* The records a row and a writer start with.
LEMMA NoRowIsRow == NoRow \in Row /\ NoRow.st = "absent" /\ NoRow.owner = Nobody
BY DEF NoRow, Row, Status, Final

\* A writer that has not started is a writer.
LEMMA NewIsWriter ==
    /\ NewWriter \in Writer /\ NewWriter.up = "new" /\ NewWriter.step = "idle"
    /\ NewWriter.batch = {} /\ NewWriter.cur = Nobody
BY DEF NewWriter, Writer

\* The fields of a row and of a writer.
LEMMA RowFields ==
    ASSUME NEW r \in Row
    PROVE  /\ r.st \in Status /\ r.owner \in Writers \union {Nobody} /\ r.palace \in Palaces \union {Unbound}
BY DEF Row

\* The fields of a writer.
LEMMA WriterFields ==
    ASSUME NEW v \in Writer
    PROVE  /\ v.up \in {"new", "up", "closed"} /\ v.palace \in Palaces \union {Unbound}
           /\ v.step \in {"idle", "next", "upsert", "ok", "transient", "permanent"}
           /\ v.batch \in SUBSET Msgs /\ v.cur \in Msgs \union {Nobody}
BY DEF Writer

\* What each write of the store makes of a row.
LEMMA RowOps ==
    ASSUME NEW r \in Row
    PROVE  /\ Released(r) \in Row /\ Released(r).st = "pending" /\ Released(r).owner = Nobody
           /\ Released(r).palace = r.palace
           /\ \A p \in Palaces \union {Unbound} :
                 LET n == [NoRow EXCEPT !.st = "pending", !.palace = p] IN
                 n \in Row /\ n.st = "pending" /\ n.owner = Nobody /\ n.palace = p
           /\ LET n == [r EXCEPT !.st = "committed", !.owner = Nobody, !.expired = FALSE] IN
              n \in Row /\ n.st = "committed" /\ n.owner = Nobody /\ n.palace = r.palace
           /\ LET n == [Released(r) EXCEPT !.st = "dead", !.due = TRUE] IN
              n \in Row /\ n.st = "dead" /\ n.owner = Nobody /\ n.palace = r.palace
           /\ LET n == [Released(r) EXCEPT !.st = "pending", !.due = FALSE] IN
              n \in Row /\ n.st = "pending" /\ n.owner = Nobody /\ n.palace = r.palace
           /\ LET n == [r EXCEPT !.expired = TRUE] IN
              n \in Row /\ n.st = r.st /\ n.owner = r.owner /\ n.palace = r.palace
           /\ LET n == [r EXCEPT !.due = TRUE] IN
              n \in Row /\ n.st = r.st /\ n.owner = r.owner /\ n.palace = r.palace
           /\ LET n == [r EXCEPT !.st = "gone"] IN
              n \in Row /\ n.st = "gone" /\ n.owner = r.owner /\ n.palace = r.palace
<1>1. /\ Released(r) \in Row /\ Released(r).st = "pending" /\ Released(r).owner = Nobody
      /\ Released(r).palace = r.palace
  BY DEF Row, Released, Status, Final
<1>2. ASSUME NEW p \in Palaces \union {Unbound}
      PROVE LET n == [NoRow EXCEPT !.st = "pending", !.palace = p] IN
                 n \in Row /\ n.st = "pending" /\ n.owner = Nobody /\ n.palace = p
  BY DEF Row, NoRow, Status, Final
<1>4. LET n == [r EXCEPT !.st = "committed", !.owner = Nobody, !.expired = FALSE] IN
              n \in Row /\ n.st = "committed" /\ n.owner = Nobody /\ n.palace = r.palace
  BY DEF Row, Status, Final
<1>5. /\ LET n == [Released(r) EXCEPT !.st = "dead", !.due = TRUE] IN
         n \in Row /\ n.st = "dead" /\ n.owner = Nobody /\ n.palace = r.palace
      /\ LET n == [Released(r) EXCEPT !.st = "pending", !.due = FALSE] IN
         n \in Row /\ n.st = "pending" /\ n.owner = Nobody /\ n.palace = r.palace
  BY <1>1 DEF Row, Status, Final
<1>6. LET n == [r EXCEPT !.expired = TRUE] IN
              n \in Row /\ n.st = r.st /\ n.owner = r.owner /\ n.palace = r.palace
  BY DEF Row
<1>7. LET n == [r EXCEPT !.due = TRUE] IN
              n \in Row /\ n.st = r.st /\ n.owner = r.owner /\ n.palace = r.palace
  BY DEF Row
<1>8. LET n == [r EXCEPT !.st = "gone"] IN
              n \in Row /\ n.st = "gone" /\ n.owner = r.owner /\ n.palace = r.palace
  BY DEF Row, Status, Final
<1> QED BY <1>1, <1>2, <1>4, <1>5, <1>6, <1>7, <1>8

\* A claim binds a row to the palace of the writer.
LEMMA Claims ==
    ASSUME NEW r \in Row, NEW w \in Writers, writer[w].palace \in Palaces
    PROVE  /\ ClaimRow(r, w) \in Row /\ ClaimRow(r, w).st = "processing" /\ ClaimRow(r, w).owner = w
           /\ ClaimRow(r, w).palace = IF r.palace = Unbound THEN writer[w].palace ELSE r.palace
BY DEF Row, ClaimRow, Status, Final

\* What a step outside the writers may do to a row: nothing that the writers see,
\* create it, collect it, or free its lease.
Changed(m) ==
    \/ box'[m].st = box[m].st /\ box'[m].owner = box[m].owner /\ box'[m].palace = box[m].palace
    \/ box[m].st = "absent" /\ box'[m].st = "pending" /\ box'[m].owner = Nobody
    \/ /\ box[m].st = "processing" /\ box'[m].st = "pending" /\ box'[m].owner = Nobody
       /\ box'[m].palace = box[m].palace
    \/ /\ box[m].st = "committed" /\ box'[m].st = "gone" /\ box'[m].owner = box[m].owner
       /\ box'[m].palace = box[m].palace

\* The parts that speak of rows survive such steps of the store.
LEMMA StoreKeeps ==
    ASSUME MmInv, UNCHANGED <<writer, threads, drawers>>, \A m \in Msgs : Changed(m)
    PROVE  /\ WritersOK' /\ HandlesOK' /\ FiledOK' /\ OkFiled' /\ OwnedOK' /\ CurDone' /\ HoldsNew'
           /\ ClaimedBound' /\ CommittedIsFiled' /\ LeaseHasHolder'
<1>0. /\ writer' = writer /\ threads' = threads /\ drawers' = drawers
      /\ drawers \in [Palaces -> SUBSET Msgs] /\ Nobody \notin Writers
      /\ \A m \in Msgs : Changed(m)
  BY OutboxAssumption DEF MmInv, MmTypes
<1>1. WritersOK'
  BY <1>0 DEF MmInv, WritersOK
<1>2. HandlesOK'
  BY <1>0 DEF MmInv, HandlesOK, Bound, Changed
<1>3. FiledOK'
  BY <1>0 DEF MmInv, FiledOK, Bound, Changed
<1>4. OkFiled'
  BY <1>0 DEF MmInv, OkFiled
<1>5. OwnedOK'
  BY <1>0 DEF MmInv, OwnedOK, Changed
<1>6. CurDone'
  BY <1>0 DEF MmInv, CurDone, OwnedOK, Changed
<1>7. HoldsNew'
  BY <1>0 DEF MmInv, HoldsNew, OwnedOK, Changed
<1>8. CommittedIsFiled'
  BY <1>0 DEF MmInv, CommittedIsFiled, Changed
<1>9. LeaseHasHolder'
  BY <1>0 DEF MmInv, LeaseHasHolder, OwnedOK, Changed
<1>10. ClaimedBound'
  BY <1>0 DEF MmInv, ClaimedBound, Changed
<1> QED BY <1>1, <1>2, <1>3, <1>4, <1>5, <1>6, <1>7, <1>8, <1>9, <1>10

\* persist_message stores both rows of a message, each unless it is there.
LEMMA Appends ==
    ASSUME MmInv, NEW m \in Msgs, NEW p \in Palaces \union {Unbound}, AppendWithOutbox(m, p)
    PROVE  /\ copies' \in [Msgs -> 0..1] /\ box' \in [Msgs -> Row]
           /\ copies'[m] = 1 /\ \A q \in Msgs \ {m} : copies'[q] = copies[q] /\ box'[q] = box[q]
           /\ box'[m].st # "absent" /\ \A q \in Msgs : Changed(q)
<1>1. copies \in [Msgs -> 0..1] /\ box \in [Msgs -> Row]
  BY DEF MmInv, MmTypes
<1>2. copies' = [copies EXCEPT ![m] = IF @ = 0 THEN 1 ELSE @]
  BY DEF AppendWithOutbox, InsertHistory
<1>3. copies' \in [Msgs -> 0..1] /\ copies'[m] = 1 /\ \A q \in Msgs \ {m} : copies'[q] = copies[q]
  BY <1>1, <1>2
<1> DEFINE n == [NoRow EXCEPT !.st = "pending", !.palace = p]
<1>4. n \in Row /\ n.st = "pending" /\ n.owner = Nobody
  BY NoRowIsRow, RowOps
<1> HIDE DEF n
<1>5. box' = [box EXCEPT ![m] = IF box[m].st = "absent" THEN n ELSE box[m]]
  BY DEF AppendWithOutbox, InsertPending, n
<1>6. box' \in [Msgs -> Row] /\ box'[m].st # "absent" /\ \A q \in Msgs \ {m} : box'[q] = box[q]
  BY <1>1, <1>4, <1>5
<1>7. \A q \in Msgs : Changed(q)
  BY <1>1, <1>4, <1>5 DEF Changed
<1> QED BY <1>3, <1>6, <1>7

\* A step of persist_message keeps the invariant.
LEMMA PersistInv ==
    ASSUME MmInv, NEW m \in Msgs,
           \/ AppendAcked(m) \/ AppendAmbiguous(m) \/ AppendFails(m) \/ LateEnds(m) \/ AppendHistory(m)
    PROVE  MmInv'
<1> DEFINE Both == \E p \in Palaces \union {Unbound} : AppendWithOutbox(m, p)
<1>1. UNCHANGED <<writer, threads, drawers>>
  BY DEF AppendAcked, AppendAmbiguous, AppendFails, LateEnds, AppendHistory
<1>2. /\ call \in [Msgs -> CallStates] /\ copies \in [Msgs -> 0..1] /\ box \in [Msgs -> Row]
      /\ HistoryCanonical
  BY DEF MmInv, MmTypes
<1>3. \/ Both /\ call' \in [Msgs -> CallStates] /\ \A q \in Msgs \ {m} : call'[q] = call[q]
      \/ /\ UNCHANGED <<copies, box>> /\ call' \in [Msgs -> CallStates]
         /\ \A q \in Msgs : call'[q] = call[q] \/ call'[q] \notin {"acked", "stored"}
      \/ InsertHistory(m) /\ UNCHANGED box /\ call' = [call EXCEPT ![m] = "stored"]
  BY <1>2 DEF AppendAcked, AppendAmbiguous, AppendFails, LateEnds, AppendHistory, CallStates
<1>4. /\ call' \in [Msgs -> CallStates] /\ copies' \in [Msgs -> 0..1] /\ box' \in [Msgs -> Row]
      /\ HistoryCanonical' /\ \A q \in Msgs : Changed(q)
  <2>1. CASE Both /\ call' \in [Msgs -> CallStates] /\ \A q \in Msgs \ {m} : call'[q] = call[q]
    <3>1. PICK p \in Palaces \union {Unbound} : AppendWithOutbox(m, p)
      BY <2>1
    <3>2. /\ copies' \in [Msgs -> 0..1] /\ box' \in [Msgs -> Row]
          /\ copies'[m] = 1 /\ \A q \in Msgs \ {m} : copies'[q] = copies[q] /\ box'[q] = box[q]
          /\ box'[m].st # "absent" /\ \A q \in Msgs : Changed(q)
      BY <3>1, Appends
    <3>3. HistoryCanonical'
      BY <1>2, <2>1, <3>2 DEF HistoryCanonical
    <3> QED BY <2>1, <3>2, <3>3
  <2>2. CASE /\ UNCHANGED <<copies, box>> /\ call' \in [Msgs -> CallStates]
             /\ \A q \in Msgs : call'[q] = call[q] \/ call'[q] \notin {"acked", "stored"}
    <3>1. HistoryCanonical'
      BY <1>2, <2>2 DEF HistoryCanonical
    <3> QED BY <1>2, <2>2, <3>1 DEF Changed
  <2>3. CASE InsertHistory(m) /\ UNCHANGED box /\ call' = [call EXCEPT ![m] = "stored"]
    <3>1. call' \in [Msgs -> CallStates] /\ call'[m] = "stored" /\ \A q \in Msgs \ {m} : call'[q] = call[q]
      BY <1>2, <2>3 DEF CallStates
    <3>2. copies' \in [Msgs -> 0..1] /\ copies'[m] = 1 /\ \A q \in Msgs \ {m} : copies'[q] = copies[q]
      BY <1>2, <2>3 DEF InsertHistory
    <3>3. HistoryCanonical'
      BY <1>2, <2>3, <3>1, <3>2 DEF HistoryCanonical
    <3> QED BY <1>2, <2>3, <3>1, <3>2, <3>3 DEF Changed
  <2> QED BY <1>3, <2>1, <2>2, <2>3
<1>5. MmTypes'
  BY <1>1, <1>4 DEF MmInv, MmTypes
<1> QED BY <1>1, <1>4, <1>5, StoreKeeps DEF MmInv

\* The clock keeps the invariant.
LEMMA ClockInv ==
    ASSUME MmInv, NEW m \in Msgs, LeaseExpires(m) \/ BackoffEnds(m)
    PROVE  MmInv'
<1>1. UNCHANGED <<call, copies, writer, threads, drawers>>
  BY DEF LeaseExpires, BackoffEnds
<1>2. PICK n : /\ box' = [box EXCEPT ![m] = n] /\ n \in Row
               /\ n.st = box[m].st /\ n.owner = box[m].owner /\ n.palace = box[m].palace
  <2>1. box[m] \in Row
    BY DEF MmInv, MmTypes
  <2>2. CASE LeaseExpires(m)
    <3> DEFINE n == [box[m] EXCEPT !.expired = TRUE]
    <3>1. n \in Row /\ n.st = box[m].st /\ n.owner = box[m].owner /\ n.palace = box[m].palace
      BY <2>1, RowOps
    <3>2. box' = [box EXCEPT ![m] = n]
      BY <2>2 DEF LeaseExpires
    <3> HIDE DEF n
    <3> QED BY <3>1, <3>2
  <2>3. CASE BackoffEnds(m)
    <3> DEFINE n == [box[m] EXCEPT !.due = TRUE]
    <3>1. n \in Row /\ n.st = box[m].st /\ n.owner = box[m].owner /\ n.palace = box[m].palace
      BY <2>1, RowOps
    <3>2. box' = [box EXCEPT ![m] = n]
      BY <2>3 DEF BackoffEnds
    <3> HIDE DEF n
    <3> QED BY <3>1, <3>2
  <2> QED BY <2>2, <2>3
<1>3. box' \in [Msgs -> Row] /\ \A q \in Msgs : Changed(q)
  BY <1>2 DEF MmInv, MmTypes, Changed
<1>4. MmTypes'
  BY <1>1, <1>3 DEF MmInv, MmTypes
<1>5. HistoryCanonical'
  BY <1>1, <1>2 DEF MmInv, MmTypes, HistoryCanonical
<1> QED BY <1>1, <1>3, <1>4, <1>5, StoreKeeps DEF MmInv

\* What a drawer gains when a writer files a message.
LEMMA Files ==
    ASSUME MmInv, NEW w \in Writers, NEW m \in Msgs, File(w, m), writer[w].palace \in Palaces
    PROVE  /\ drawers' \in [Palaces -> SUBSET Msgs] /\ m \in drawers'[writer[w].palace]
           /\ \A p \in Palaces : /\ drawers[p] \subseteq drawers'[p]
                                 /\ \A q \in drawers'[p] \ drawers[p] : q = m /\ p = writer[w].palace
BY DEF File, MmInv, MmTypes

\* A step of one writer that leaves the rows alone, and may file what it has in
\* hand, keeps the parts that speak of rows and drawers.
LEMMA WriterKeeps ==
    ASSUME MmInv, NEW w \in Writers, UNCHANGED <<call, copies, box>>,
           writer' \in [Writers -> Writer], \A u \in Writers \ {w} : writer'[u] = writer[u],
           writer'[w].palace = writer[w].palace,
           drawers' \in [Palaces -> SUBSET Msgs],
           \A p \in Palaces : /\ drawers[p] \subseteq drawers'[p]
                              /\ \A q \in drawers'[p] \ drawers[p] : Bound(q, p),
           threads' \subseteq Writers \X Msgs,
           writer[w].up = "closed" => writer'[w].up = "closed",
           \A m \in Msgs : box[m].owner = w /\ (m \in writer[w].batch \/ writer[w].cur = m) =>
               m \in writer'[w].batch \/ writer'[w].cur = m \/ writer'[w].up = "closed"
    PROVE  LeaseHasHolder' /\ MmTypes' /\ FiledOK' /\ OwnedOK' /\ CommittedIsFiled' /\ HistoryCanonical' /\ ClaimedBound'
<1>1. MmTypes'
  BY DEF MmInv, MmTypes
<1>2. FiledOK'
  BY DEF MmInv, MmTypes, FiledOK, Bound
<1>3. OwnedOK'
  BY DEF MmInv, OwnedOK
<1>4. CommittedIsFiled'
  <2>1. ASSUME NEW m \in Msgs, box[m].st \in {"committed", "gone"} PROVE m \in drawers'[box[m].palace]
    <3>1. m \in drawers[box[m].palace]
      BY <2>1 DEF MmInv, CommittedIsFiled
    <3>2. box[m].palace \in Palaces
      BY <2>1 DEF MmInv, ClaimedBound
    <3> QED BY <3>1, <3>2
  <2> QED BY <2>1 DEF CommittedIsFiled
<1>5. HistoryCanonical'
  BY DEF MmInv, HistoryCanonical
<1>6. ClaimedBound'
  BY DEF MmInv, ClaimedBound
<1>7. LeaseHasHolder'
  <2>1. ASSUME NEW m \in Msgs, box[m].st = "processing"
        PROVE  /\ box[m].owner # Nobody /\ box[m].palace = writer'[box[m].owner].palace
               /\ \/ m \in writer'[box[m].owner].batch \/ writer'[box[m].owner].cur = m
                  \/ writer'[box[m].owner].up = "closed"
    <3>1. /\ box[m].owner \in Writers /\ box[m].owner # Nobody
          /\ box[m].palace = writer[box[m].owner].palace
          /\ \/ m \in writer[box[m].owner].batch \/ writer[box[m].owner].cur = m
             \/ writer[box[m].owner].up = "closed"
      BY <2>1, RowFields DEF MmInv, MmTypes, LeaseHasHolder
    <3>2. CASE box[m].owner # w
      <4>1. writer'[box[m].owner] = writer[box[m].owner]
        BY <3>1, <3>2
      <4> QED BY <3>1, <4>1
    <3>3. CASE box[m].owner = w
      BY <3>1, <3>3
    <3> QED BY <3>2, <3>3
  <2>2. UNCHANGED box
    OBVIOUS
  <2> QED BY <2>1, <2>2 DEF LeaseHasHolder
<1> QED BY <1>1, <1>2, <1>3, <1>4, <1>5, <1>6, <1>7

\* What the steps of a flush, of a close and of a crash do to the writer.
\* Taking the next row of the batch keeps the invariant.
LEMMA NextRowInv ==
    ASSUME MmInv, NEW w \in Writers, NextRow(w)
    PROVE  MmInv'
<1>0. /\ writer[w] \in Writer /\ writer \in [Writers -> Writer] /\ threads \subseteq Writers \X Msgs
      /\ drawers \in [Palaces -> SUBSET Msgs] /\ Nobody \notin Writers \union Msgs /\ writer[w].step = "next"
      /\ UNCHANGED <<call, late, copies, box, threads, drawers, faults>>
  BY OutboxAssumption DEF MmInv, MmTypes, NextRow
<1>1. /\ writer' \in [Writers -> Writer] /\ \A u \in Writers \ {w} : writer'[u] = writer[u]
      /\ writer'[w].palace = writer[w].palace /\ writer'[w].up = writer[w].up
      /\ \/ /\ writer[w].batch = {} /\ writer'[w].step = "idle" /\ writer'[w].batch = {}
            /\ writer'[w].cur = Nobody
         \/ \E m \in writer[w].batch : /\ writer'[w].step = "upsert" /\ writer'[w].cur = m
                                       /\ writer'[w].batch = writer[w].batch \ {m}
  <2>1. CASE writer[w].batch = {}
    <3> DEFINE v == [writer[w] EXCEPT !.step = "idle", !.cur = Nobody]
    <3>1. /\ v \in Writer /\ v.palace = writer[w].palace /\ v.up = writer[w].up
          /\ v.step = "idle" /\ v.batch = {} /\ v.cur = Nobody
      BY <1>0, <2>1 DEF Writer
    <3>2. writer' = [writer EXCEPT ![w] = v]
      BY <1>0, <2>1 DEF NextRow
    <3> HIDE DEF v
    <3> QED BY <1>0, <2>1, <3>1, <3>2
  <2>2. CASE writer[w].batch # {}
    <3>0. PICK m \in writer[w].batch :
            writer' = [writer EXCEPT ![w].step = "upsert", ![w].cur = m, ![w].batch = @ \ {m}]
      BY <2>2 DEF NextRow
    <3> DEFINE v == [writer[w] EXCEPT !.step = "upsert", !.cur = m, !.batch = @ \ {m}]
    <3>1. /\ v \in Writer /\ v.palace = writer[w].palace /\ v.up = writer[w].up
          /\ v.step = "upsert" /\ v.batch = writer[w].batch \ {m} /\ v.cur = m
      BY <1>0, <3>0 DEF Writer
    <3>2. writer' = [writer EXCEPT ![w] = v]
      BY <1>0, <3>0
    <3> HIDE DEF v
    <3>3. writer' \in [Writers -> Writer] /\ writer'[w] = v /\ \A u \in Writers \ {w} : writer'[u] = writer[u]
      BY <1>0, <3>1, <3>2
    <3> QED BY <3>0, <3>1, <3>3
  <2> QED BY <2>1, <2>2
<1>2. /\ MmTypes' /\ FiledOK' /\ OwnedOK' /\ CommittedIsFiled' /\ HistoryCanonical' /\ ClaimedBound'
      /\ LeaseHasHolder'
  <2>1. \A m \in Msgs : box[m].owner = w => writer[w].cur # m
    BY <1>0 DEF MmInv, CurDone
  <2>2. \A m \in writer[w].batch : m \in writer'[w].batch \/ writer'[w].cur = m
    BY <1>1
  <2>3. writer[w].up = "closed" => writer'[w].up = "closed"
    BY <1>1
  <2>4. \A m \in Msgs : box[m].owner = w /\ (m \in writer[w].batch \/ writer[w].cur = m) =>
               m \in writer'[w].batch \/ writer'[w].cur = m \/ writer'[w].up = "closed"
    BY <2>1, <2>2
  <2> QED BY <1>0, <1>1, <2>3, <2>4, WriterKeeps
<1>3. WritersOK'
  BY <1>0, <1>1, WriterFields DEF MmInv, WritersOK
<1>4. HandlesOK'
  BY <1>0, <1>1 DEF MmInv, HandlesOK, Bound
<1>5. OkFiled'
  BY <1>0, <1>1 DEF MmInv, OkFiled
<1>6. CurDone'
  BY <1>0, <1>1 DEF MmInv, CurDone
<1>7. HoldsNew'
  BY <1>0, <1>1 DEF MmInv, HoldsNew
<1> QED BY <1>2, <1>3, <1>4, <1>5, <1>6, <1>7 DEF MmInv

\* The upsert into the palace keeps the invariant.
LEMMA UpsertInv ==
    ASSUME MmInv, NEW w \in Writers, UpsertOne(w)
    PROVE  MmInv'
<1>0. /\ writer[w] \in Writer /\ writer \in [Writers -> Writer] /\ threads \subseteq Writers \X Msgs
      /\ drawers \in [Palaces -> SUBSET Msgs] /\ Nobody \notin Writers \union Msgs
      /\ writer[w].step = "upsert" /\ UNCHANGED <<call, late, copies, box, threads>>
  BY OutboxAssumption DEF MmInv, MmTypes, UpsertOne
<1>9. /\ writer[w].cur \in Msgs /\ writer[w].palace \in Palaces /\ Bound(writer[w].cur, writer[w].palace)
  BY <1>0 DEF MmInv, WritersOK, HandlesOK
<1>1. /\ writer' \in [Writers -> Writer] /\ \A u \in Writers \ {w} : writer'[u] = writer[u]
      /\ writer'[w].palace = writer[w].palace /\ writer'[w].up = writer[w].up
      /\ writer'[w].batch = writer[w].batch /\ writer'[w].cur = writer[w].cur
      /\ writer'[w].step \in {"ok", "transient", "permanent"}
      /\ UNCHANGED drawers => writer'[w].step # "ok" \/ writer[w].cur \in drawers[writer[w].palace]
  <2>1. PICK s \in {"ok", "transient", "permanent"} :
            /\ writer' = [writer EXCEPT ![w].step = s]
            /\ s = "ok" => File(w, writer[w].cur)
    BY <1>0 DEF UpsertOne
  <2> DEFINE v == [writer[w] EXCEPT !.step = s]
  <2>2. /\ v \in Writer /\ v.palace = writer[w].palace /\ v.up = writer[w].up
        /\ v.step = s /\ v.batch = writer[w].batch /\ v.cur = writer[w].cur
    BY <1>0 DEF Writer
  <2>3. writer' = [writer EXCEPT ![w] = v]
    BY <1>0, <2>1
  <2> HIDE DEF v
  <2>4. writer' \in [Writers -> Writer] /\ writer'[w] = v /\ \A u \in Writers \ {w} : writer'[u] = writer[u]
    BY <1>0, <2>2, <2>3
  <2>5. UNCHANGED drawers /\ s = "ok" => writer[w].cur \in drawers[writer[w].palace]
    BY <1>0, <1>9, <2>1 DEF File
  <2> QED BY <2>2, <2>4, <2>5
<1>10. /\ drawers' \in [Palaces -> SUBSET Msgs]
       /\ \A p \in Palaces : /\ drawers[p] \subseteq drawers'[p]
                             /\ \A q \in drawers'[p] \ drawers[p] : Bound(q, p)
       /\ writer'[w].step = "ok" => writer[w].cur \in drawers'[writer[w].palace]
  <2>1. CASE File(w, writer[w].cur)
    BY <1>0, <1>9, <2>1, Files
  <2>2. CASE UNCHANGED drawers
    BY <1>0, <1>1, <2>2
  <2> QED BY <2>1, <2>2 DEF UpsertOne
<1>2. /\ MmTypes' /\ FiledOK' /\ OwnedOK' /\ CommittedIsFiled' /\ HistoryCanonical' /\ ClaimedBound'
      /\ LeaseHasHolder'
  BY <1>0, <1>1, <1>10, WriterKeeps
<1>3. WritersOK'
  BY <1>0, <1>1, WriterFields DEF MmInv, WritersOK
<1>4. HandlesOK'
  BY <1>0, <1>1 DEF MmInv, HandlesOK, Bound
<1>5. OkFiled'
  BY <1>0, <1>1, <1>10, WriterFields DEF MmInv, WritersOK, OkFiled
<1>6. CurDone'
  BY <1>0, <1>1 DEF MmInv, CurDone
<1>7. HoldsNew'
  BY <1>0, <1>1 DEF MmInv, HoldsNew
<1> QED BY <1>2, <1>3, <1>4, <1>5, <1>6, <1>7 DEF MmInv

\* A thread that a cancelled flush left behind keeps the invariant.
LEMMA ThreadInv ==
    ASSUME MmInv, NEW w \in Writers, NEW m \in Msgs, ThreadEnds(w, m)
    PROVE  MmInv'
<1>0. /\ writer[w] \in Writer /\ writer \in [Writers -> Writer] /\ threads \subseteq Writers \X Msgs
      /\ drawers \in [Palaces -> SUBSET Msgs] /\ Nobody \notin Writers \union Msgs
      /\ UNCHANGED <<call, late, copies, box, writer, faults>>
      /\ <<w, m>> \in threads /\ threads' \subseteq threads
  BY OutboxAssumption DEF MmInv, MmTypes, ThreadEnds
<1>9. writer[w].palace \in Palaces /\ Bound(m, writer[w].palace)
  BY <1>0 DEF MmInv, HandlesOK
<1>10. /\ drawers' \in [Palaces -> SUBSET Msgs]
       /\ \A p \in Palaces : /\ drawers[p] \subseteq drawers'[p]
                             /\ \A q \in drawers'[p] \ drawers[p] : Bound(q, p)
  <2>1. CASE File(w, m)
    BY <1>0, <1>9, <2>1, Files
  <2>2. CASE UNCHANGED drawers
    BY <1>0, <2>2
  <2> QED BY <2>1, <2>2 DEF ThreadEnds
<1>2. /\ MmTypes' /\ FiledOK' /\ OwnedOK' /\ CommittedIsFiled' /\ HistoryCanonical' /\ ClaimedBound'
      /\ LeaseHasHolder'
  BY <1>0, <1>10, WriterKeeps
<1>3. WritersOK'
  BY <1>0, WriterFields DEF MmInv, WritersOK
<1>4. HandlesOK'
  BY <1>0 DEF MmInv, HandlesOK, Bound
<1>5. OkFiled'
  <2>1. \A u \in Writers : writer[u].step = "ok" => writer[u].palace \in Palaces
    BY WriterFields DEF MmInv, WritersOK, HandlesOK
  <2> QED BY <1>0, <1>10, <2>1 DEF MmInv, OkFiled
<1>6. CurDone'
  BY <1>0 DEF MmInv, CurDone
<1>7. HoldsNew'
  BY <1>0 DEF MmInv, HoldsNew
<1> QED BY <1>2, <1>3, <1>4, <1>5, <1>6, <1>7 DEF MmInv

\* The start of a drain keeps the invariant.
LEMMA CloseInv ==
    ASSUME MmInv, NEW w \in Writers, Close(w)
    PROVE  MmInv'
<1>0. /\ writer[w] \in Writer /\ writer \in [Writers -> Writer] /\ threads \subseteq Writers \X Msgs
      /\ drawers \in [Palaces -> SUBSET Msgs] /\ Nobody \notin Writers \union Msgs
      /\ UNCHANGED <<call, late, copies, box, threads, drawers, faults>>
  BY OutboxAssumption DEF MmInv, MmTypes, Close
<1>1. /\ writer' \in [Writers -> Writer] /\ \A u \in Writers \ {w} : writer'[u] = writer[u]
      /\ writer'[w].palace = writer[w].palace /\ writer'[w].up = writer[w].up
      /\ writer'[w].batch = writer[w].batch /\ writer'[w].cur = writer[w].cur
      /\ writer'[w].step = writer[w].step
  <2> DEFINE v == [writer[w] EXCEPT !.drain = TRUE]
  <2>2. /\ v \in Writer /\ v.palace = writer[w].palace /\ v.up = writer[w].up
        /\ v.step = writer[w].step /\ v.batch = writer[w].batch /\ v.cur = writer[w].cur
    BY <1>0 DEF Writer
  <2>3. writer' = [writer EXCEPT ![w] = v]
    BY <1>0 DEF Close
  <2> HIDE DEF v
  <2>4. writer' \in [Writers -> Writer] /\ writer'[w] = v /\ \A u \in Writers \ {w} : writer'[u] = writer[u]
    BY <1>0, <2>2, <2>3
  <2> QED BY <2>2, <2>4
<1>2. /\ MmTypes' /\ FiledOK' /\ OwnedOK' /\ CommittedIsFiled' /\ HistoryCanonical' /\ ClaimedBound'
      /\ LeaseHasHolder'
  BY <1>0, <1>1, WriterKeeps
<1>3. WritersOK'
  BY <1>0, <1>1, WriterFields DEF MmInv, WritersOK
<1>4. HandlesOK'
  BY <1>0, <1>1 DEF MmInv, HandlesOK, Bound
<1>5. OkFiled'
  BY <1>0, <1>1 DEF MmInv, OkFiled
<1>6. CurDone'
  BY <1>0, <1>1 DEF MmInv, CurDone
<1>7. HoldsNew'
  BY <1>0, <1>1 DEF MmInv, HoldsNew
<1> QED BY <1>2, <1>3, <1>4, <1>5, <1>6, <1>7 DEF MmInv

\* The end of a writer, by stop or by a crash, keeps the invariant.
LEMMA StopInv ==
    ASSUME MmInv, NEW w \in Writers, StopWriter(w) \/ Crash(w)
    PROVE  MmInv'
<1>0. /\ writer[w] \in Writer /\ writer \in [Writers -> Writer] /\ threads \subseteq Writers \X Msgs
      /\ drawers \in [Palaces -> SUBSET Msgs] /\ Nobody \notin Writers \union Msgs
      /\ UNCHANGED <<call, late, copies, box, drawers>>
      /\ writer' = [writer EXCEPT ![w].up = "closed", ![w].step = "idle", ![w].batch = {},
                                  ![w].cur = Nobody, ![w].drain = FALSE]
  BY OutboxAssumption DEF MmInv, MmTypes, StopWriter, Crash
<1>1. /\ writer' \in [Writers -> Writer] /\ \A u \in Writers \ {w} : writer'[u] = writer[u]
      /\ writer'[w].palace = writer[w].palace /\ writer'[w].up = "closed"
      /\ writer'[w].batch = {} /\ writer'[w].cur = Nobody /\ writer'[w].step = "idle"
  <2> DEFINE v == [writer[w] EXCEPT !.up = "closed", !.step = "idle", !.batch = {}, !.cur = Nobody, !.drain = FALSE]
  <2>2. /\ v \in Writer /\ v.palace = writer[w].palace /\ v.up = "closed"
        /\ v.step = "idle" /\ v.batch = {} /\ v.cur = Nobody
    BY <1>0 DEF Writer
  <2>3. writer' = [writer EXCEPT ![w] = v]
    BY <1>0
  <2> HIDE DEF v
  <2>4. writer \in [Writers -> Writer]
    BY <1>0
  <2>5. writer' \in [Writers -> Writer] /\ writer'[w] = v /\ \A u \in Writers \ {w} : writer'[u] = writer[u]
    BY <2>2, <2>3, <2>4
  <2> QED BY <2>2, <2>5
<1>9. /\ threads' \subseteq Writers \X Msgs
      /\ \A u \in Writers, m \in Msgs : <<u, m>> \in threads' =>
             <<u, m>> \in threads \/ (u = w /\ writer[w].cur = m /\ writer[w].step = "upsert")
  <2>1. writer[w].step = "upsert" => writer[w].cur \in Msgs
    BY DEF MmInv, WritersOK
  <2>2. CASE StopWriter(w)
    BY <1>0, <2>1, <2>2 DEF StopWriter, Abandoned
  <2>3. CASE Crash(w)
    BY <1>0, <2>3 DEF Crash
  <2> QED BY <2>2, <2>3
<1>2. /\ MmTypes' /\ FiledOK' /\ OwnedOK' /\ CommittedIsFiled' /\ HistoryCanonical' /\ ClaimedBound'
      /\ LeaseHasHolder'
  BY <1>0, <1>1, <1>9, WriterKeeps
<1>3. WritersOK'
  BY <1>0, <1>1, <1>9, WriterFields DEF MmInv, WritersOK
<1>4. HandlesOK'
  BY <1>0, <1>1, <1>9 DEF MmInv, HandlesOK, Bound
<1>5. OkFiled'
  BY <1>0, <1>1, <1>9 DEF MmInv, OkFiled
<1>6. CurDone'
  BY <1>0, <1>1, <1>9 DEF MmInv, CurDone
<1>7. HoldsNew'
  BY <1>0, <1>1, <1>9 DEF MmInv, HoldsNew
<1> QED BY <1>2, <1>3, <1>4, <1>5, <1>6, <1>7 DEF MmInv

\* The mark on the row keeps the invariant.
LEMMA CommitInv ==
    ASSUME MmInv, NEW w \in Writers, CommitRow(w)
    PROVE  MmInv'
<1>0. /\ writer[w] \in Writer /\ writer \in [Writers -> Writer] /\ threads \subseteq Writers \X Msgs
      /\ drawers \in [Palaces -> SUBSET Msgs] /\ Nobody \notin Writers \union Msgs
      /\ box \in [Msgs -> Row] /\ call \in [Msgs -> CallStates] /\ copies \in [Msgs -> 0..1]
      /\ writer[w].step \in {"ok", "transient", "permanent"}
      /\ UNCHANGED <<call, late, copies, threads, drawers, faults>>
  BY OutboxAssumption DEF MmInv, MmTypes, CommitRow
<1>1. /\ writer' \in [Writers -> Writer] /\ \A u \in Writers \ {w} : writer'[u] = writer[u]
      /\ writer'[w].palace = writer[w].palace /\ writer'[w].up = writer[w].up
      /\ writer'[w].batch = writer[w].batch /\ writer'[w].cur = writer[w].cur
      /\ writer'[w].step = "next"
  <2> DEFINE v == [writer[w] EXCEPT !.step = "next"]
  <2>2. /\ v \in Writer /\ v.palace = writer[w].palace /\ v.up = writer[w].up
        /\ v.step = "next" /\ v.batch = writer[w].batch /\ v.cur = writer[w].cur
    BY <1>0 DEF Writer
  <2>3. writer' = [writer EXCEPT ![w] = v]
    BY <1>0 DEF CommitRow
  <2> HIDE DEF v
  <2>4. writer' \in [Writers -> Writer] /\ writer'[w] = v /\ \A u \in Writers \ {w} : writer'[u] = writer[u]
    BY <1>0, <2>2, <2>3
  <2> QED BY <2>2, <2>4
<1>2. writer[w].cur \in Msgs
  BY <1>0 DEF MmInv, WritersOK
<1> DEFINE m == writer[w].cur
<1>3. /\ box' \in [Msgs -> Row] /\ \A q \in Msgs \ {m} : box'[q] = box[q]
      /\ box[m].owner # w => box'[m] = box[m]
      /\ box[m].owner = w => /\ box'[m].st \in {"committed", "dead", "pending"} /\ box'[m].owner = Nobody
                             /\ box'[m].palace = box[m].palace
                             /\ box'[m].st = "committed" => writer[w].step = "ok"
  <2>1. CASE writer[w].step = "ok"
    <3> DEFINE n == [box[m] EXCEPT !.st = "committed", !.owner = Nobody, !.expired = FALSE]
    <3>1. n \in Row /\ n.st = "committed" /\ n.owner = Nobody /\ n.palace = box[m].palace
      BY <1>0, <1>2, RowOps
    <3>2. box' = [box EXCEPT ![m] = IF box[m].owner = w THEN n ELSE box[m]]
      BY <1>0, <1>2, <2>1 DEF CommitRow, MarkCommitted
    <3> HIDE DEF n
    <3> QED BY <1>0, <1>2, <2>1, <3>1, <3>2
  <2>2. CASE writer[w].step = "transient"
    <3> DEFINE n == [Released(box[m]) EXCEPT !.st = "pending", !.due = FALSE]
    <3>1. n \in Row /\ n.st = "pending" /\ n.owner = Nobody /\ n.palace = box[m].palace
      BY <1>0, <1>2, RowOps
    <3>2. box' = [box EXCEPT ![m] = IF box[m].owner = w THEN n ELSE box[m]]
      BY <1>0, <1>2, <2>2 DEF CommitRow, MarkRetry
    <3> HIDE DEF n
    <3> QED BY <1>0, <1>2, <2>2, <3>1, <3>2
  <2>3. CASE writer[w].step = "permanent"
    <3> DEFINE n == [Released(box[m]) EXCEPT !.st = "dead", !.due = TRUE]
    <3>1. n \in Row /\ n.st = "dead" /\ n.owner = Nobody /\ n.palace = box[m].palace
      BY <1>0, <1>2, RowOps
    <3>2. box' = [box EXCEPT ![m] = IF box[m].owner = w THEN n ELSE box[m]]
      BY <1>0, <1>2, <2>3 DEF CommitRow, MarkRetry
    <3> HIDE DEF n
    <3> QED BY <1>0, <1>2, <2>3, <3>1, <3>2
  <2> QED BY <1>0, <2>1, <2>2, <2>3
<1> HIDE DEF m
<1>4. m \in Msgs /\ m = writer[w].cur
  BY <1>2 DEF m
<1>5. box[m].owner = w => box[m].st = "processing" /\ box[m].palace = writer[w].palace /\ box[m].palace \in Palaces
  BY <1>0, <1>4 DEF MmInv, OwnedOK, LeaseHasHolder, ClaimedBound
<1>11. MmTypes'
  BY <1>0, <1>1, <1>3, <1>4, <1>5 DEF MmInv, MmTypes
<1>12. WritersOK'
  BY <1>0, <1>1, <1>3, <1>4, <1>5 DEF MmInv, WritersOK
<1>13. HandlesOK'
  BY <1>0, <1>1, <1>3, <1>4, <1>5 DEF MmInv, HandlesOK, Bound
<1>14. FiledOK'
  BY <1>0, <1>1, <1>3, <1>4, <1>5 DEF MmInv, FiledOK, Bound
<1>15. OkFiled'
  BY <1>0, <1>1, <1>3, <1>4, <1>5 DEF MmInv, OkFiled
<1>16. OwnedOK'
  BY <1>0, <1>1, <1>3, <1>4, <1>5 DEF MmInv, OwnedOK
<1>17. CurDone'
  BY <1>0, <1>1, <1>3, <1>4, <1>5 DEF MmInv, CurDone
<1>18. HoldsNew'
  BY <1>0, <1>1, <1>3, <1>4, <1>5 DEF MmInv, HoldsNew
<1>19. ClaimedBound'
  BY <1>0, <1>1, <1>3, <1>4, <1>5 DEF MmInv, ClaimedBound
<1>20. CommittedIsFiled'
  BY <1>0, <1>1, <1>3, <1>4, <1>5 DEF MmInv, OkFiled, CommittedIsFiled
<1>21. HistoryCanonical'
  BY <1>0, <1>1, <1>3, <1>4, <1>5 DEF MmInv, HistoryCanonical
<1>22. LeaseHasHolder'
  <2>1. ASSUME NEW q \in Msgs, box'[q].st = "processing"
        PROVE  /\ box'[q].owner # Nobody /\ box'[q].palace = writer'[box'[q].owner].palace
               /\ \/ q \in writer'[box'[q].owner].batch \/ writer'[box'[q].owner].cur = q
                  \/ writer'[box'[q].owner].up = "closed"
    <3>1. box'[q] = box[q]
      BY <1>3, <1>4, <2>1
    <3>2. /\ box[q].owner \in Writers /\ box[q].owner # Nobody
          /\ box[q].palace = writer[box[q].owner].palace
          /\ \/ q \in writer[box[q].owner].batch \/ writer[box[q].owner].cur = q
             \/ writer[box[q].owner].up = "closed"
      BY <1>0, <2>1, <3>1, RowFields DEF MmInv, LeaseHasHolder
    <3>3. CASE box[q].owner # w
      <4>1. writer'[box[q].owner] = writer[box[q].owner]
        BY <1>1, <3>2, <3>3
      <4> QED BY <3>1, <3>2, <4>1
    <3>4. CASE box[q].owner = w
      BY <1>1, <3>1, <3>2, <3>4
    <3> QED BY <3>3, <3>4
  <2> QED BY <2>1 DEF LeaseHasHolder
<1> QED BY <1>11, <1>12, <1>13, <1>14, <1>15, <1>16, <1>17, <1>18, <1>19, <1>20, <1>21, <1>22 DEF MmInv

\* A drain whose time runs out keeps the invariant.
LEMMA DrainInv ==
    ASSUME MmInv, NEW w \in Writers, DrainTimesOut(w)
    PROVE  MmInv'
<1>0. /\ writer[w] \in Writer /\ writer \in [Writers -> Writer] /\ threads \subseteq Writers \X Msgs
      /\ drawers \in [Palaces -> SUBSET Msgs] /\ Nobody \notin Writers \union Msgs
      /\ box \in [Msgs -> Row] /\ call \in [Msgs -> CallStates] /\ copies \in [Msgs -> 0..1]
      /\ UNCHANGED <<call, late, copies, drawers>>
  BY OutboxAssumption DEF MmInv, MmTypes, DrainTimesOut
<1>1. /\ writer' \in [Writers -> Writer] /\ \A u \in Writers \ {w} : writer'[u] = writer[u]
      /\ writer'[w].palace = writer[w].palace /\ writer'[w].up = writer[w].up
      /\ \/ writer'[w] = writer[w]
         \/ writer'[w].batch = {} /\ writer'[w].cur = Nobody /\ writer'[w].step = "idle"
  <2>1. CASE UNCHANGED writer
    BY <1>0, <2>1
  <2>2. CASE writer' = [writer EXCEPT ![w].step = "idle", ![w].batch = {}, ![w].cur = Nobody]
    <3> DEFINE v == [writer[w] EXCEPT !.step = "idle", !.batch = {}, !.cur = Nobody]
    <3>2. /\ v \in Writer /\ v.palace = writer[w].palace /\ v.up = writer[w].up
          /\ v.step = "idle" /\ v.batch = {} /\ v.cur = Nobody
      BY <1>0 DEF Writer
    <3>3. writer' = [writer EXCEPT ![w] = v]
      BY <2>2
    <3> HIDE DEF v
    <3>4. writer \in [Writers -> Writer]
      BY <1>0
    <3>5. writer' \in [Writers -> Writer] /\ writer'[w] = v /\ \A u \in Writers \ {w} : writer'[u] = writer[u]
      BY <3>2, <3>3, <3>4
    <3> QED BY <3>2, <3>5
  <2> QED BY <2>1, <2>2 DEF DrainTimesOut
<1>2. /\ threads' \subseteq Writers \X Msgs
      /\ \A u \in Writers, m \in Msgs : <<u, m>> \in threads' =>
             <<u, m>> \in threads \/ (u = w /\ writer[w].cur = m /\ writer[w].step = "upsert")
  <2>1. writer[w].step = "upsert" => writer[w].cur \in Msgs
    BY DEF MmInv, WritersOK
  <2> QED BY <1>0, <2>1 DEF DrainTimesOut, Abandoned
<1>3. box' = [m \in Msgs |-> IF box[m].st = "processing" /\ box[m].owner = w THEN Released(box[m]) ELSE box[m]]
  BY DEF DrainTimesOut, ReleaseProcessing
<1>4. \A m \in Msgs : /\ box[m] \in Row /\ Released(box[m]) \in Row /\ Released(box[m]).st = "pending"
                      /\ Released(box[m]).owner = Nobody /\ Released(box[m]).palace = box[m].palace
  BY <1>0, RowOps
<1>5. /\ box' \in [Msgs -> Row]
      /\ \A m \in Msgs : \/ box'[m] = box[m] /\ (box[m].st = "processing" => box[m].owner # w)
                         \/ /\ box[m].st = "processing" /\ box[m].owner = w
                            /\ box'[m].st = "pending" /\ box'[m].owner = Nobody /\ box'[m].palace = box[m].palace
  BY <1>3, <1>4
<1>11. MmTypes'
  BY <1>0, <1>1, <1>2, <1>5 DEF MmInv, MmTypes
<1>12. WritersOK'
  BY <1>0, <1>1, <1>2, <1>5 DEF MmInv, WritersOK
<1>13. HandlesOK'
  BY <1>0, <1>1, <1>2, <1>5 DEF MmInv, HandlesOK, Bound
<1>14. FiledOK'
  BY <1>0, <1>1, <1>2, <1>5 DEF MmInv, FiledOK, Bound
<1>15. OkFiled'
  BY <1>0, <1>1, <1>2, <1>5 DEF MmInv, OkFiled
<1>16. OwnedOK'
  BY <1>0, <1>1, <1>2, <1>5 DEF MmInv, OwnedOK
<1>17. CurDone'
  BY <1>0, <1>1, <1>2, <1>5 DEF MmInv, CurDone
<1>18. HoldsNew'
  BY <1>0, <1>1, <1>2, <1>5 DEF MmInv, HoldsNew, WritersOK
<1>19. ClaimedBound'
  BY <1>0, <1>1, <1>2, <1>5 DEF MmInv, ClaimedBound
<1>20. CommittedIsFiled'
  BY <1>0, <1>1, <1>2, <1>5 DEF MmInv, CommittedIsFiled
<1>21. HistoryCanonical'
  BY <1>0, <1>1, <1>2, <1>5 DEF MmInv, HistoryCanonical
<1>22. LeaseHasHolder'
  <2>1. ASSUME NEW q \in Msgs, box'[q].st = "processing"
        PROVE  /\ box'[q].owner # Nobody /\ box'[q].palace = writer'[box'[q].owner].palace
               /\ \/ q \in writer'[box'[q].owner].batch \/ writer'[box'[q].owner].cur = q
                  \/ writer'[box'[q].owner].up = "closed"
    <3>1. box'[q] = box[q]
      BY <1>5, <2>1
    <3>2. /\ box[q].owner \in Writers /\ box[q].owner # Nobody
          /\ box[q].palace = writer[box[q].owner].palace
          /\ \/ q \in writer[box[q].owner].batch \/ writer[box[q].owner].cur = q
             \/ writer[box[q].owner].up = "closed"
      BY <1>0, <2>1, <3>1, RowFields DEF MmInv, LeaseHasHolder
    <3>3. CASE box[q].owner # w
      <4>1. writer'[box[q].owner] = writer[box[q].owner]
        BY <1>1, <3>2, <3>3
      <4> QED BY <3>1, <3>2, <4>1
    <3>4. CASE box[q].owner = w
      BY <1>5, <2>1, <3>1, <3>4
    <3> QED BY <3>3, <3>4
  <2> QED BY <2>1 DEF LeaseHasHolder
<1> QED BY <1>11, <1>12, <1>13, <1>14, <1>15, <1>16, <1>17, <1>18, <1>19, <1>20, <1>21, <1>22 DEF MmInv

\* The start of a writer keeps the invariant.
LEMMA EnsureInv ==
    ASSUME MmInv, NEW w \in Writers, EnsureReady(w)
    PROVE  MmInv'
<1>0. /\ writer[w] \in Writer /\ writer \in [Writers -> Writer] /\ threads \subseteq Writers \X Msgs
      /\ drawers \in [Palaces -> SUBSET Msgs] /\ Nobody \notin Writers \union Msgs
      /\ box \in [Msgs -> Row] /\ call \in [Msgs -> CallStates] /\ copies \in [Msgs -> 0..1]
      /\ UNCHANGED <<call, late, copies, threads, drawers, faults>> /\ writer[w].up = "new"
  BY OutboxAssumption DEF MmInv, MmTypes, EnsureReady
<1>9. writer[w].step = "idle" /\ writer[w].batch = {} /\ writer[w].cur = Nobody
  BY <1>0 DEF MmInv, WritersOK
<1>1. /\ writer' \in [Writers -> Writer] /\ \A u \in Writers \ {w} : writer'[u] = writer[u]
      /\ writer'[w].palace \in Palaces /\ writer'[w].up = "up"
      /\ writer'[w].batch = {} /\ writer'[w].cur = Nobody /\ writer'[w].step = "idle"
  <2>1. PICK p \in Palaces : writer' = [writer EXCEPT ![w].up = "up", ![w].palace = p]
    BY DEF EnsureReady
  <2> DEFINE v == [writer[w] EXCEPT !.up = "up", !.palace = p]
  <2>2. /\ v \in Writer /\ v.palace = p /\ v.up = "up"
        /\ v.step = "idle" /\ v.batch = {} /\ v.cur = Nobody
    BY <1>0, <1>9 DEF Writer
  <2>3. writer' = [writer EXCEPT ![w] = v]
    BY <2>1
  <2> HIDE DEF v
  <2>4. writer \in [Writers -> Writer]
    BY <1>0
  <2>5. writer' \in [Writers -> Writer] /\ writer'[w] = v /\ \A u \in Writers \ {w} : writer'[u] = writer[u]
    BY <2>2, <2>3, <2>4
  <2> QED BY <2>2, <2>5
<1>3. PICK S \in SUBSET {m \in Msgs : box[m].st = "committed"} :
         box' = [m \in Msgs |-> IF m \in S THEN [box[m] EXCEPT !.st = "gone"] ELSE box[m]]
  BY DEF EnsureReady
<1>4. \A m \in Msgs : LET n == [box[m] EXCEPT !.st = "gone"] IN
          n \in Row /\ n.st = "gone" /\ n.owner = box[m].owner /\ n.palace = box[m].palace
  BY <1>0, RowOps
<1>5. /\ box' \in [Msgs -> Row]
      /\ \A m \in Msgs : \/ box'[m] = box[m]
                         \/ /\ box[m].st = "committed" /\ box'[m].st = "gone"
                            /\ box'[m].owner = box[m].owner /\ box'[m].palace = box[m].palace
  BY <1>0, <1>3, <1>4
<1>11. MmTypes'
  BY <1>0, <1>1, <1>9, <1>5 DEF MmInv, MmTypes
<1>12. WritersOK'
  BY <1>0, <1>1, <1>9, <1>5 DEF MmInv, WritersOK
<1>13. HandlesOK'
  <2>1. ASSUME NEW u \in Writers, NEW m \in Msgs,
               m \in writer'[u].batch \/ writer'[u].cur = m \/ <<u, m>> \in threads
        PROVE  /\ writer'[u].palace \in Palaces
               /\ box'[m].st # "absent" /\ box'[m].palace = writer'[u].palace
    <3>1. u # w
      BY <1>0, <1>1, <2>1 DEF MmInv, HoldsNew
    <3>2. writer'[u] = writer[u]
      BY <1>1, <3>1
    <3>3. writer[u].palace \in Palaces /\ Bound(m, writer[u].palace)
      BY <2>1, <3>2 DEF MmInv, HandlesOK
    <3> QED BY <1>5, <3>2, <3>3 DEF Bound
  <2> QED BY <1>0, <2>1 DEF HandlesOK, Bound
<1>14. FiledOK'
  BY <1>0, <1>1, <1>9, <1>5 DEF MmInv, FiledOK, Bound
<1>15. OkFiled'
  BY <1>0, <1>1, <1>9, <1>5 DEF MmInv, OkFiled
<1>16. OwnedOK'
  BY <1>0, <1>1, <1>9, <1>5 DEF MmInv, OwnedOK
<1>17. CurDone'
  BY <1>0, <1>1, <1>9, <1>5 DEF MmInv, CurDone
<1>18. HoldsNew'
  BY <1>0, <1>1, <1>9, <1>5 DEF MmInv, HoldsNew
<1>19. ClaimedBound'
  BY <1>0, <1>1, <1>9, <1>5 DEF MmInv, ClaimedBound
<1>20. CommittedIsFiled'
  BY <1>0, <1>1, <1>9, <1>5 DEF MmInv, CommittedIsFiled
<1>21. HistoryCanonical'
  BY <1>0, <1>1, <1>9, <1>5 DEF MmInv, HistoryCanonical
<1>22. LeaseHasHolder'
  <2>1. ASSUME NEW q \in Msgs, box'[q].st = "processing"
        PROVE  /\ box'[q].owner # Nobody /\ box'[q].palace = writer'[box'[q].owner].palace
               /\ \/ q \in writer'[box'[q].owner].batch \/ writer'[box'[q].owner].cur = q
                  \/ writer'[box'[q].owner].up = "closed"
    <3>1. box'[q] = box[q]
      BY <1>5, <2>1
    <3>2. /\ box[q].owner \in Writers /\ box[q].owner # Nobody
          /\ box[q].palace = writer[box[q].owner].palace
          /\ \/ q \in writer[box[q].owner].batch \/ writer[box[q].owner].cur = q
             \/ writer[box[q].owner].up = "closed"
      BY <1>0, <2>1, <3>1, RowFields DEF MmInv, LeaseHasHolder
    <3>3. CASE box[q].owner # w
      <4>1. writer'[box[q].owner] = writer[box[q].owner]
        BY <1>1, <3>2, <3>3
      <4> QED BY <3>1, <3>2, <4>1
    <3>4. CASE box[q].owner = w
      BY <1>0, <3>2, <3>4 DEF MmInv, HoldsNew
    <3> QED BY <3>3, <3>4
  <2> QED BY <2>1 DEF LeaseHasHolder
<1> QED BY <1>11, <1>12, <1>13, <1>14, <1>15, <1>16, <1>17, <1>18, <1>19, <1>20, <1>21, <1>22 DEF MmInv

\* The claim of a batch keeps the invariant.
LEMMA FlushInv ==
    ASSUME MmInv, NEW w \in Writers, NEW t \in {"run", "drain"}, FlushOnce(w, t)
    PROVE  MmInv'
<1>0. /\ writer[w] \in Writer /\ writer \in [Writers -> Writer] /\ threads \subseteq Writers \X Msgs
      /\ drawers \in [Palaces -> SUBSET Msgs] /\ Nobody \notin Writers \union Msgs
      /\ box \in [Msgs -> Row] /\ call \in [Msgs -> CallStates] /\ copies \in [Msgs -> 0..1]
      /\ UNCHANGED <<call, late, copies, threads, drawers, faults>>
      /\ writer[w].up = "up" /\ writer[w].step = "idle"
  BY OutboxAssumption DEF MmInv, MmTypes, FlushOnce
<1>9. writer[w].batch = {} /\ writer[w].cur = Nobody /\ writer[w].palace \in Palaces
  BY <1>0 DEF MmInv, WritersOK
<1>3. PICK S \in SUBSET {m \in Msgs : Claimable(w, m)} :
         ClaimBatch(w, S) /\ writer' = [writer EXCEPT ![w].step = "next", ![w].batch = S, ![w].by = t]
  BY DEF FlushOnce
<1>1. /\ writer' \in [Writers -> Writer] /\ \A u \in Writers \ {w} : writer'[u] = writer[u]
      /\ writer'[w].palace = writer[w].palace /\ writer'[w].up = "up"
      /\ writer'[w].batch = S /\ writer'[w].cur = Nobody /\ writer'[w].step = "next"
  <2> DEFINE v == [writer[w] EXCEPT !.step = "next", !.batch = S, !.by = t]
  <2>2. /\ v \in Writer /\ v.palace = writer[w].palace /\ v.up = "up"
        /\ v.step = "next" /\ v.batch = S /\ v.cur = Nobody
    BY <1>0, <1>9 DEF Writer
  <2>3. writer' = [writer EXCEPT ![w] = v]
    BY <1>3
  <2> HIDE DEF v
  <2>4. writer \in [Writers -> Writer]
    BY <1>0
  <2>5. writer' \in [Writers -> Writer] /\ writer'[w] = v /\ \A u \in Writers \ {w} : writer'[u] = writer[u]
    BY <2>2, <2>3, <2>4
  <2> QED BY <2>2, <2>5
<1>2. \A m \in S : m \in Msgs /\ box[m].st \in {"pending", "processing"} /\ box[m].palace \in {Unbound, writer[w].palace}
  BY <1>3 DEF Claimable
<1>4. \A m \in Msgs : /\ box[m] \in Row /\ Released(box[m]) \in Row /\ Released(box[m]).st = "pending"
                      /\ Released(box[m]).owner = Nobody /\ Released(box[m]).palace = box[m].palace
                      /\ ClaimRow(box[m], w) \in Row /\ ClaimRow(box[m], w).st = "processing"
                      /\ ClaimRow(box[m], w).owner = w
                      /\ m \in S => ClaimRow(box[m], w).palace = writer[w].palace
  <2> SUFFICES ASSUME NEW m \in Msgs
               PROVE /\ box[m] \in Row /\ Released(box[m]) \in Row /\ Released(box[m]).st = "pending"
                     /\ Released(box[m]).owner = Nobody /\ Released(box[m]).palace = box[m].palace
                     /\ ClaimRow(box[m], w) \in Row /\ ClaimRow(box[m], w).st = "processing"
                     /\ ClaimRow(box[m], w).owner = w
                     /\ m \in S => ClaimRow(box[m], w).palace = writer[w].palace
    OBVIOUS
  <2>1. box[m] \in Row
    BY <1>0
  <2>2. /\ Released(box[m]) \in Row /\ Released(box[m]).st = "pending"
        /\ Released(box[m]).owner = Nobody /\ Released(box[m]).palace = box[m].palace
    BY <2>1, RowOps
  <2>3. /\ ClaimRow(box[m], w) \in Row /\ ClaimRow(box[m], w).st = "processing"
        /\ ClaimRow(box[m], w).owner = w
        /\ ClaimRow(box[m], w).palace = IF box[m].palace = Unbound THEN writer[w].palace ELSE box[m].palace
    BY <1>9, <2>1, Claims
  <2> QED BY <1>2, <2>1, <2>2, <2>3
<1>5. /\ box' \in [Msgs -> Row]
      /\ \A m \in S : box'[m].st = "processing" /\ box'[m].owner = w /\ box'[m].palace = writer[w].palace
      /\ \A m \in Msgs \ S : \/ box'[m] = box[m]
                             \/ /\ box[m].st = "processing" /\ box'[m].st = "pending"
                                /\ box'[m].owner = Nobody /\ box'[m].palace = box[m].palace
  <2>1. box' = [m \in Msgs |-> IF m \in S THEN ClaimRow(box[m], w)
                              ELSE IF box[m].st = "processing" /\ box[m].expired THEN Released(box[m]) ELSE box[m]]
    BY <1>3 DEF ClaimBatch
  <2>2. box' \in [Msgs -> Row]
    <3>1. ASSUME NEW m \in Msgs
          PROVE (IF m \in S THEN ClaimRow(box[m], w)
                 ELSE IF box[m].st = "processing" /\ box[m].expired THEN Released(box[m]) ELSE box[m]) \in Row
      <4>1. box[m] \in Row /\ Released(box[m]) \in Row /\ ClaimRow(box[m], w) \in Row
        BY <1>4
      <4> QED BY <4>1
    <3> QED BY <2>1, <3>1
  <2>3. \A m \in S : box'[m] = ClaimRow(box[m], w)
    BY <1>2, <2>1
  <2>4. \A m \in Msgs \ S : box'[m] = box[m] \/ (box[m].st = "processing" /\ box'[m] = Released(box[m]))
    BY <2>1
  <2>5. \A m \in S : box'[m].st = "processing" /\ box'[m].owner = w /\ box'[m].palace = writer[w].palace
    <3> SUFFICES ASSUME NEW m \in S
                 PROVE  box'[m].st = "processing" /\ box'[m].owner = w /\ box'[m].palace = writer[w].palace
      OBVIOUS
    <3>1. box'[m] = ClaimRow(box[m], w)
      BY <2>3
    <3>2. ClaimRow(box[m], w).st = "processing" /\ ClaimRow(box[m], w).owner = w
          /\ ClaimRow(box[m], w).palace = writer[w].palace
      BY <1>2, <1>4
    <3> QED BY <3>1, <3>2
  <2>6. \A m \in Msgs \ S : \/ box'[m] = box[m]
                            \/ /\ box[m].st = "processing" /\ box'[m].st = "pending"
                               /\ box'[m].owner = Nobody /\ box'[m].palace = box[m].palace
    <3> SUFFICES ASSUME NEW m \in Msgs \ S
                 PROVE  \/ box'[m] = box[m]
                        \/ /\ box[m].st = "processing" /\ box'[m].st = "pending"
                           /\ box'[m].owner = Nobody /\ box'[m].palace = box[m].palace
      OBVIOUS
    <3>1. Released(box[m]).st = "pending" /\ Released(box[m]).owner = Nobody
          /\ Released(box[m]).palace = box[m].palace
      BY <1>4
    <3> QED BY <2>4, <3>1
  <2> QED BY <2>2, <2>5, <2>6
<1>6. Unbound \notin Palaces /\ S \subseteq Msgs
  BY <1>2, OutboxAssumption
<1>11. MmTypes'
  BY <1>0, <1>1, <1>2, <1>5, <1>6, <1>9 DEF MmInv, MmTypes
<1>12. WritersOK'
  BY <1>0, <1>1, <1>2, <1>5, <1>6, <1>9 DEF MmInv, WritersOK
<1>13. HandlesOK'
  BY <1>0, <1>1, <1>2, <1>5, <1>6, <1>9 DEF MmInv, HandlesOK, Bound
<1>14. FiledOK'
  BY <1>0, <1>1, <1>2, <1>5, <1>6, <1>9 DEF MmInv, FiledOK, Bound
<1>15. OkFiled'
  BY <1>0, <1>1, <1>2, <1>5, <1>6, <1>9 DEF MmInv, OkFiled
<1>16. OwnedOK'
  BY <1>0, <1>1, <1>2, <1>5, <1>6, <1>9 DEF MmInv, OwnedOK
<1>17. CurDone'
  BY <1>0, <1>1, <1>2, <1>5, <1>6, <1>9 DEF MmInv, CurDone
<1>18. HoldsNew'
  BY <1>0, <1>1, <1>2, <1>5, <1>6, <1>9 DEF MmInv, HoldsNew
<1>19. ClaimedBound'
  BY <1>0, <1>1, <1>2, <1>5, <1>6, <1>9 DEF MmInv, ClaimedBound
<1>20. CommittedIsFiled'
  BY <1>0, <1>1, <1>2, <1>5, <1>6, <1>9 DEF MmInv, CommittedIsFiled
<1>21. HistoryCanonical'
  BY <1>0, <1>1, <1>2, <1>5, <1>6, <1>9 DEF MmInv, HistoryCanonical
<1>22. LeaseHasHolder'
  <2>1. ASSUME NEW q \in Msgs, box'[q].st = "processing"
        PROVE  /\ box'[q].owner # Nobody /\ box'[q].palace = writer'[box'[q].owner].palace
               /\ \/ q \in writer'[box'[q].owner].batch \/ writer'[box'[q].owner].cur = q
                  \/ writer'[box'[q].owner].up = "closed"
    <3>9. CASE q \in S
      BY <1>0, <1>1, <1>5, <3>9
    <3>10. CASE q \notin S
      <4>1. box'[q] = box[q]
        BY <1>5, <2>1, <3>10
      <4>2. /\ box[q].owner \in Writers /\ box[q].owner # Nobody
            /\ box[q].palace = writer[box[q].owner].palace
            /\ \/ q \in writer[box[q].owner].batch \/ writer[box[q].owner].cur = q
               \/ writer[box[q].owner].up = "closed"
        BY <1>0, <2>1, <4>1, RowFields DEF MmInv, LeaseHasHolder
      <4>3. box[q].owner # w
        BY <1>0, <1>9, <4>2
      <4>4. writer'[box[q].owner] = writer[box[q].owner]
        BY <1>1, <4>2, <4>3
      <4> QED BY <4>1, <4>2, <4>4
    <3> QED BY <3>9, <3>10
  <2> QED BY <2>1 DEF LeaseHasHolder
<1> QED BY <1>11, <1>12, <1>13, <1>14, <1>15, <1>16, <1>17, <1>18, <1>19, <1>20, <1>21, <1>22 DEF MmInv

\* Nothing is stored, and no writer runs.
LEMMA MmInitInv == MemInit => MmInv
<1> SUFFICES ASSUME MemInit PROVE MmInv
  OBVIOUS
<1>0. /\ call = [m \in Msgs |-> "new"] /\ copies = [m \in Msgs |-> 0]
      /\ box = [m \in Msgs |-> NoRow] /\ writer = [w \in Writers |-> NewWriter] /\ threads = {}
      /\ drawers = [p \in Palaces |-> {}] /\ Nobody \notin Writers \union Msgs
  BY OutboxAssumption DEF MemInit
<1>1. MmTypes
  BY <1>0, NoRowIsRow, NewIsWriter DEF MmTypes, CallStates
<1>2. WritersOK /\ HandlesOK
  BY <1>0, NewIsWriter DEF WritersOK, HandlesOK
<1>3. FiledOK /\ OkFiled /\ OwnedOK /\ CurDone /\ HoldsNew /\ ClaimedBound
  BY <1>0, NoRowIsRow, NewIsWriter DEF FiledOK, OkFiled, OwnedOK, CurDone, HoldsNew, ClaimedBound
<1>4. CommittedIsFiled /\ HistoryCanonical /\ LeaseHasHolder
  BY <1>0, NoRowIsRow DEF CommittedIsFiled, HistoryCanonical, LeaseHasHolder
<1> QED BY <1>1, <1>2, <1>3, <1>4 DEF MmInv

\* Every step of the outbox keeps the invariant.
LEMMA MmStepInv ==
    ASSUME MmInv, [MemNext]_memVars
    PROVE  MmInv'
<1>1. CASE UNCHANGED memVars
  <2>1. UNCHANGED <<call, copies, box, writer, threads, drawers>>
    BY <1>1 DEF memVars
  <2>2. \A m \in Msgs : Changed(m)
    BY <2>1 DEF Changed
  <2>3. MmTypes'
    BY <2>1 DEF MmInv, MmTypes
  <2>4. HistoryCanonical'
    BY <2>1 DEF MmInv, HistoryCanonical
  <2> QED BY <2>1, <2>2, <2>3, <2>4, StoreKeeps DEF MmInv
<1>2. ASSUME NEW m \in Msgs, \/ AppendAcked(m) \/ AppendAmbiguous(m) \/ AppendFails(m) \/ LateEnds(m)
                            \/ AppendHistory(m) \/ LeaseExpires(m) \/ BackoffEnds(m)
      PROVE MmInv'
  BY <1>2, PersistInv, ClockInv
<1>3. ASSUME NEW w \in Writers, \/ EnsureReady(w) \/ NextRow(w) \/ UpsertOne(w) \/ CommitRow(w)
                               \/ Close(w) \/ DrainTimesOut(w) \/ StopWriter(w) \/ Crash(w)
      PROVE MmInv'
  BY <1>3, EnsureInv, NextRowInv, UpsertInv, CommitInv, CloseInv, DrainInv, StopInv
<1>4. ASSUME NEW w \in Writers, NEW t \in {"run", "drain"}, FlushOnce(w, t) PROVE MmInv'
  BY <1>4, FlushInv
<1>5. ASSUME NEW w \in Writers, NEW m \in Msgs, ThreadEnds(w, m) PROVE MmInv'
  BY <1>5, ThreadInv
<1> QED BY <1>1, <1>2, <1>3, <1>4, <1>5 DEF MemNext

\* The invariant is at least as strong as what the outbox promises.
LEMMA MmInvSafe == MmInv => OutboxSafe
<1> SUFFICES ASSUME MmInv PROVE OutboxSafe
  OBVIOUS
<1>1. OnePalace
  <2>1. ASSUME NEW p \in Palaces, NEW q \in Palaces, p # q, NEW m \in drawers[p] \intersect drawers[q]
        PROVE  FALSE
    BY <2>1 DEF MmInv, FiledOK, Bound
  <2> QED BY <2>1 DEF OnePalace
<1> QED BY <1>1 DEF MmInv, OutboxSafe

(* A message is in the history once, it is filed in one palace at most, a   *)
(* row marked committed has its drawer there, and a leased row is in known  *)
(* hands, whatever acknowledgements are lost and whichever processes close, *)
(* crash or run out of time (persist_message, MemoryWriter).                *)
THEOREM OutboxSafety == MemSpec => []OutboxSafe
<1>1. MemInit => MmInv
  BY MmInitInv
<1>2. MmInv /\ [MemNext]_memVars => MmInv'
  BY MmStepInv
<1>3. MmInv => OutboxSafe
  BY MmInvSafe
<1> QED BY <1>1, <1>2, <1>3, PTL DEF MemSpec

-----------------------------------------------------------------------------
(* The starts.                                                             *)

\* The types of a start and of what it finds.
StartRec == [at : Steps, file : Notes \union {NewStart.file}, uri : {"old", "new"},
             model : {"legacy", "minilm"}, was : {"none", "legacy", "minilm"}, skipped : BOOLEAN,
             id : Starts \union {NoStart}]
HitRec == [deaths : Nat, errors : Nat, slow : BOOLEAN, beaten : BOOLEAN, clobbered : BOOLEAN,
           halfRead : BOOLEAN, mislabelled : BOOLEAN]
YamlRec == [uri : {"old", "new"}, model : {"legacy", "minilm"}, torn : BOOLEAN]
LockRec == [by : Starts \union {NoStart}, aged : BOOLEAN]

PsTypes ==
    /\ ps \in [Starts -> StartRec] /\ hit \in HitRec /\ yaml \in YamlRec /\ mLock \in LockRec
    /\ oldDir \in BOOLEAN /\ nested \in BOOLEAN /\ palaceDir \in BOOLEAN
    /\ new \in [Notes -> {"none", "part", "whole"}] /\ recorded \in {"none", "legacy", "minilm"}
    /\ idFile \in Starts \union {"none", "empty"} /\ idLock \in Starts \union {NoStart}

\* The steps between the lock of the layout and its release.
LayoutSteps == {"look", "rename", "merge", "copying", "free"}

\* data/memory is whole or gone.
OldOK == old = IF oldDir THEN Notes ELSE {}

\* Unless a live lock was removed, whoever is at these steps created the lock.
Exclusive == hit.slow \/ \A p \in Starts : ps[p].at \in LayoutSteps => mLock.by = p

\* A merge has data/memory before it, and half a file only while it copies it.
MergesOK ==
    hit.slow \/ \A p \in Starts :
        /\ ps[p].at \in {"merge", "copying"} => oldDir
        /\ ps[p].at = "merge" => \A f \in Notes : new[f] # "part"
        /\ ps[p].at = "copying" => \A f \in Notes \ {ps[p].file} : new[f] # "part"

\* Once data/memory is gone, its notes are whole in memory.
MovedOK ==
    \/ hit.slow \/ oldDir \/ nested
    \/ \A f \in Notes : new[f] = "none"
    \/ \A f \in Notes : new[f] = "whole"

\* The rewrites of monkeybot.yaml crossed.
Astray == hit.clobbered \/ hit.halfRead

\* A palace of the new embedder goes with a configuration of the new embedder,
\* also in what each start has read of it.
NamedOK ==
    /\ recorded # "none" => palaceDir
    /\ \A p \in Starts : ps[p].at = "identity" => palaceDir
    /\ Astray \/
        /\ recorded = "minilm" => yaml.model = "minilm"
        /\ \A p \in Starts :
             /\ ps[p].at \in {"open", "modelWrite"} /\ ps[p].model = "minilm" => yaml.model = "minilm"
             /\ ps[p].at \in {"identity", "verify"} => yaml.model = "minilm"
             /\ ps[p].at = "read" /\ ~ps[p].skipped => yaml.model = "minilm"
             /\ ps[p].at = "open" /\ ~ps[p].skipped => ps[p].model = "minilm"

\* A start that was not told to skip has seen to the name in the palace.
RenamedOK ==
    Astray \/ hit.mislabelled \/ \A p \in Starts :
        /\ ps[p].at \in {"modelRead", "modelWrite", "verify"} =>
               IF ps[p].was = "legacy" THEN palaceDir ELSE recorded # "legacy"
        /\ ps[p].at \in {"read", "open"} /\ ~ps[p].skipped => recorded # "legacy"
        /\ ps[p].at = "refused" => ps[p].skipped

\* The id is created and written under the lock, and every start has that one.
IdsOK ==
    \A p \in Starts :
        /\ ps[p].at \in {"idCreate", "idWrite"} => idLock = p
        /\ ps[p].at = "idWrite" => idFile = "empty"
        /\ ps[p].id # NoStart => idFile = ps[p].id

\* The inductive invariant of the start.
PsInv == /\ PsTypes /\ OldOK /\ Exclusive /\ MergesOK /\ MovedOK /\ NamedOK /\ RenamedOK /\ IdsOK
         /\ NotesFound /\ YamlWhole

\* The invariant is at least as strong as what a start promises.
LEMMA PsInvSafe == PsInv => StartupSafe
<1> SUFFICES ASSUME PsInv PROVE StartupSafe
  OBVIOUS
<1>1. NotesKept
  <2>1. OldOK /\ MovedOK
    BY DEF PsInv
  <2> QED BY <2>1 DEF OldOK, MovedOK, NotesKept, HadNotes
<1>2. IdentityFollows
  <2>1. NamedOK
    BY DEF PsInv
  <2> QED BY <2>1 DEF NamedOK, Astray, IdentityFollows, Configured
<1>3. Opens
  <2>1. RenamedOK
    BY DEF PsInv
  <2> QED BY <2>1 DEF RenamedOK, Astray, Opens
<1>4. OneId
  <2>1. IdsOK
    BY DEF PsInv
  <2> QED BY <2>1 DEF IdsOK, OneId
<1> QED BY <1>1, <1>2, <1>3, <1>4 DEF PsInv, StartupSafe

\* A step of one start, and what it leaves of what the start has read.
Moves(p) == ps' \in [Starts -> StartRec] /\ \A q \in Starts \ {p} : ps'[q] = ps[q]
Remembers(p) == /\ ps'[p].file = ps[p].file /\ ps'[p].uri = ps[p].uri /\ ps'[p].model = ps[p].model
                /\ ps'[p].was = ps[p].was /\ ps'[p].skipped = ps[p].skipped /\ ps'[p].id = ps[p].id

\* The fields of a start.
LEMMA StartFields ==
    ASSUME NEW v \in StartRec
    PROVE  /\ v.at \in Steps /\ v.file \in Notes \union {NewStart.file} /\ v.uri \in {"old", "new"}
           /\ v.model \in {"legacy", "minilm"} /\ v.was \in {"none", "legacy", "minilm"}
           /\ v.skipped \in BOOLEAN /\ v.id \in Starts \union {NoStart}
BY DEF StartRec

\* A start gets a new record.
LEMMA Sets ==
    ASSUME ps \in [Starts -> StartRec], NEW p \in Starts, NEW v \in StartRec, ps' = [ps EXCEPT ![p] = v]
    PROVE  Moves(p) /\ ps'[p] = v
BY DEF Moves

\* What Goto changes.
LEMMA GotoDoes ==
    ASSUME ps \in [Starts -> StartRec], NEW p \in Starts, NEW a \in Steps, Goto(p, a)
    PROVE  Moves(p) /\ Remembers(p) /\ ps'[p].at = a
<1> DEFINE v == [ps[p] EXCEPT !.at = a]
<1>1. /\ v \in StartRec /\ v.at = a /\ v.file = ps[p].file /\ v.uri = ps[p].uri /\ v.model = ps[p].model
      /\ v.was = ps[p].was /\ v.skipped = ps[p].skipped /\ v.id = ps[p].id
  BY DEF StartRec
<1>2. ps' = [ps EXCEPT ![p] = v]
  BY DEF Goto
<1> HIDE DEF v
<1> QED BY <1>1, <1>2, Sets DEF Remembers

\* The names of the steps.
LEMMA StepNames ==
    /\ LayoutSteps \subseteq Steps
    /\ {"layout", "steal", "uri", "uriWrite", "uriEnd", "embed", "model", "modelRead", "modelWrite",
        "verify", "identity", "read", "open", "id", "idCreate", "idWrite", "ready", "refused", "dead"} \subseteq Steps
BY DEF Steps, LayoutSteps

\* A step of the layout leaves the configuration, the palace and its id alone.
LEMMA LayoutFrame ==
    ASSUME PsInv, NEW p \in Starts, Moves(p),
           ps'[p].model = ps[p].model, ps'[p].was = ps[p].was, ps'[p].skipped = ps[p].skipped,
           ps'[p].id = ps[p].id,
           ps[p].at \in LayoutSteps \union {"layout", "steal"}, ps'[p].at \in LayoutSteps \union {"steal", "uri"},
           UNCHANGED layoutRest,
           hit'.deaths = hit.deaths, hit'.clobbered = hit.clobbered, hit'.halfRead = hit.halfRead,
           hit'.mislabelled = hit.mislabelled
    PROVE  NamedOK' /\ RenamedOK' /\ IdsOK' /\ YamlWhole'
<1>1. UNCHANGED <<palaceDir, yaml, recorded, idFile, idLock>>
  BY DEF layoutRest
<1>2. NamedOK'
  BY <1>1 DEF PsInv, NamedOK, Astray, Moves, LayoutSteps
<1>3. RenamedOK'
  BY <1>1 DEF PsInv, RenamedOK, Astray, Moves, LayoutSteps
<1>4. IdsOK'
  BY <1>1 DEF PsInv, IdsOK, Moves, LayoutSteps
<1>5. YamlWhole'
  BY <1>1 DEF PsInv, YamlWhole, Moves, LayoutSteps
<1> QED BY <1>2, <1>3, <1>4, <1>5

\* A step outside the layout leaves the notes alone.
LEMMA NotesFrame ==
    ASSUME PsInv, NEW p \in Starts, Moves(p), ps'[p].at \notin LayoutSteps,
           UNCHANGED <<old, oldDir, new, nested, mLock>>,
           hit'.slow = hit.slow, hit'.beaten = hit.beaten
    PROVE  OldOK' /\ Exclusive' /\ MergesOK' /\ MovedOK' /\ NotesFound'
<1>1. OldOK'
  BY DEF PsInv, OldOK
<1>2. Exclusive'
  BY DEF PsInv, Exclusive, Moves
<1>3. MergesOK'
  BY DEF PsInv, MergesOK, Moves, LayoutSteps
<1>4. MovedOK'
  BY DEF PsInv, MovedOK
<1>5. NotesFound'
  BY DEF PsInv, NotesFound
<1> QED BY <1>1, <1>2, <1>3, <1>4, <1>5

\* What the steps record of what happened.
LEMMA HitSlow ==
    ASSUME hit \in HitRec, NEW b \in BOOLEAN, hit' = [hit EXCEPT !.slow = b]
    PROVE  /\ hit' \in HitRec /\ hit'.slow = b
           /\ hit'.deaths = hit.deaths /\ hit'.errors = hit.errors /\ hit'.beaten = hit.beaten
           /\ hit'.clobbered = hit.clobbered /\ hit'.halfRead = hit.halfRead
           /\ hit'.mislabelled = hit.mislabelled
BY DEF HitRec

\* What each event of the history makes of it.
LEMMA HitBeaten ==
    ASSUME hit \in HitRec, NEW b \in BOOLEAN, hit' = [hit EXCEPT !.beaten = b]
    PROVE  /\ hit' \in HitRec /\ hit'.beaten = b
           /\ hit'.deaths = hit.deaths /\ hit'.errors = hit.errors /\ hit'.slow = hit.slow
           /\ hit'.clobbered = hit.clobbered /\ hit'.halfRead = hit.halfRead
           /\ hit'.mislabelled = hit.mislabelled
BY DEF HitRec

\* Another start rewrote the configuration.
LEMMA HitClobbered ==
    ASSUME hit \in HitRec, NEW b \in BOOLEAN, hit' = [hit EXCEPT !.clobbered = b]
    PROVE  /\ hit' \in HitRec /\ hit'.clobbered = b
           /\ hit'.deaths = hit.deaths /\ hit'.errors = hit.errors /\ hit'.slow = hit.slow
           /\ hit'.beaten = hit.beaten /\ hit'.halfRead = hit.halfRead
           /\ hit'.mislabelled = hit.mislabelled
BY DEF HitRec

\* A start read a half-written configuration.
LEMMA HitHalfRead ==
    ASSUME hit \in HitRec, NEW b \in BOOLEAN, hit' = [hit EXCEPT !.halfRead = b]
    PROVE  /\ hit' \in HitRec /\ hit'.halfRead = b
           /\ hit'.deaths = hit.deaths /\ hit'.errors = hit.errors /\ hit'.slow = hit.slow
           /\ hit'.beaten = hit.beaten /\ hit'.clobbered = hit.clobbered
           /\ hit'.mislabelled = hit.mislabelled
BY DEF HitRec

\* A start labelled a palace it was told to skip.
LEMMA HitMislabelled ==
    ASSUME hit \in HitRec, NEW b \in BOOLEAN, hit' = [hit EXCEPT !.mislabelled = b]
    PROVE  /\ hit' \in HitRec /\ hit'.mislabelled = b
           /\ hit'.deaths = hit.deaths /\ hit'.errors = hit.errors /\ hit'.slow = hit.slow
           /\ hit'.beaten = hit.beaten /\ hit'.clobbered = hit.clobbered
           /\ hit'.halfRead = hit.halfRead
BY DEF HitRec

\* A start died.
LEMMA HitDeaths ==
    ASSUME hit \in HitRec, hit' = [hit EXCEPT !.deaths = @ + 1]
    PROVE  /\ hit' \in HitRec /\ hit'.deaths = hit.deaths + 1 /\ hit'.deaths > 0
           /\ hit'.errors = hit.errors /\ hit'.slow = hit.slow /\ hit'.beaten = hit.beaten
           /\ hit'.clobbered = hit.clobbered /\ hit'.halfRead = hit.halfRead
           /\ hit'.mislabelled = hit.mislabelled
BY DEF HitRec

\* A file operation failed.
LEMMA HitErrors ==
    ASSUME hit \in HitRec, hit' = [hit EXCEPT !.errors = @ + 1]
    PROVE  /\ hit' \in HitRec /\ hit'.errors = hit.errors + 1 /\ hit'.errors > 0
           /\ hit'.deaths = hit.deaths /\ hit'.slow = hit.slow /\ hit'.beaten = hit.beaten
           /\ hit'.clobbered = hit.clobbered /\ hit'.halfRead = hit.halfRead
           /\ hit'.mislabelled = hit.mislabelled
BY DEF HitRec

\* AcquireLayout keeps the invariant.
LEMMA AcquireInv ==
    ASSUME PsInv, NEW p \in Starts, AcquireLayout(p)
    PROVE  PsInv'
<1>0. /\ ps \in [Starts -> StartRec] /\ hit \in HitRec /\ mLock \in LockRec /\ OldOK /\ NoStart \notin Starts
      /\ new \in [Notes -> {"none", "part", "whole"}] /\ ps[p] \in StartRec
      /\ oldDir \in BOOLEAN /\ nested \in BOOLEAN
  BY StartupAssumption DEF PsInv, PsTypes
<1>1. /\ UNCHANGED <<old, oldDir, new, newDir, nested, hit>> /\ UNCHANGED layoutRest
      /\ ps[p].at = "layout"
      /\ \/ mLock.by = NoStart /\ mLock' = [by |-> p, aged |-> FALSE] /\ Goto(p, "look")
         \/ Goto(p, "steal") /\ UNCHANGED mLock
         \/ Goto(p, "uri") /\ UNCHANGED mLock
  BY DEF AcquireLayout
<1>2. /\ Moves(p) /\ Remembers(p)
      /\ \/ ps'[p].at = "look" /\ mLock.by = NoStart /\ mLock' = [by |-> p, aged |-> FALSE]
         \/ ps'[p].at \in {"steal", "uri"} /\ UNCHANGED mLock
  BY <1>0, <1>1, GotoDoes, StepNames DEF LayoutSteps
<1>3. mLock' \in LockRec /\ (ps'[p].at = "look" => mLock'.by = p)
  <2> DEFINE taken == [by |-> p, aged |-> FALSE]
  <2>1. taken \in LockRec /\ taken.by = p
    BY DEF LockRec
  <2> HIDE DEF taken
  <2>2. mLock' = taken \/ (UNCHANGED mLock /\ ps'[p].at # "look")
    BY <1>2 DEF taken
  <2> QED BY <1>0, <2>1, <2>2
<1>8. NamedOK' /\ RenamedOK' /\ IdsOK' /\ YamlWhole'
  BY <1>0, <1>1, <1>2, <1>3, LayoutFrame DEF Remembers, LayoutSteps
<1>9. PsTypes'
  BY <1>0, <1>1, <1>2, <1>3 DEF PsInv, PsTypes, Moves, layoutRest
<1>10. OldOK'
  BY <1>0, <1>1, <1>2, <1>3 DEF OldOK
<1>11. Exclusive'
  BY <1>0, <1>1, <1>2, <1>3 DEF PsInv, Exclusive, Moves, LayoutSteps
<1>12. MergesOK'
  BY <1>0, <1>1, <1>2, <1>3 DEF PsInv, Exclusive, MergesOK, Moves, Remembers, LayoutSteps
<1>13. MovedOK'
  BY <1>0, <1>1, <1>2, <1>3 DEF PsInv, MovedOK
<1>14. NotesFound'
  BY <1>0, <1>1, <1>2, <1>3 DEF PsInv, NotesFound
<1> QED BY <1>8, <1>9, <1>10, <1>11, <1>12, <1>13, <1>14 DEF PsInv

\* StealLayout keeps the invariant.
LEMMA StealInv ==
    ASSUME PsInv, NEW p \in Starts, StealLayout(p)
    PROVE  PsInv'
<1>0. /\ ps \in [Starts -> StartRec] /\ hit \in HitRec /\ mLock \in LockRec /\ OldOK /\ NoStart \notin Starts
      /\ new \in [Notes -> {"none", "part", "whole"}] /\ ps[p] \in StartRec
      /\ oldDir \in BOOLEAN /\ nested \in BOOLEAN
  BY StartupAssumption DEF PsInv, PsTypes
<1>1. /\ UNCHANGED <<old, oldDir, new, newDir, nested>> /\ UNCHANGED layoutRest
      /\ ps[p].at = "steal" /\ mLock' = [by |-> p, aged |-> FALSE] /\ Goto(p, "look")
      /\ hit' = [hit EXCEPT !.slow = @ \/ (mLock.by # NoStart /\ ps[mLock.by].at # "dead")]
  BY DEF StealLayout
<1>2. Moves(p) /\ Remembers(p) /\ ps'[p].at = "look"
  BY <1>0, <1>1, GotoDoes, StepNames DEF LayoutSteps
<1>3. mLock' \in LockRec /\ mLock'.by = p
  BY <1>1 DEF LockRec
<1>4. PICK b \in BOOLEAN : /\ hit' = [hit EXCEPT !.slow = b]
                           /\ b = (hit.slow \/ (mLock.by # NoStart /\ ps[mLock.by].at # "dead"))
  BY <1>1
<1>5. /\ hit' \in HitRec /\ hit'.slow = b /\ hit'.beaten = hit.beaten
      /\ hit'.deaths = hit.deaths /\ hit'.clobbered = hit.clobbered /\ hit'.halfRead = hit.halfRead
      /\ hit'.mislabelled = hit.mislabelled
  BY <1>0, <1>4, HitSlow
<1>6. hit.slow => hit'.slow
  BY <1>4, <1>5
<1>7. hit'.slow \/ \A q \in Starts : ps[q].at \notin LayoutSteps
  BY <1>0, <1>4, <1>5 DEF PsInv, Exclusive, LayoutSteps
<1>8. NamedOK' /\ RenamedOK' /\ IdsOK' /\ YamlWhole'
  BY <1>0, <1>1, <1>2, <1>3, <1>5, <1>6, <1>7, LayoutFrame DEF Remembers, LayoutSteps
<1>9. PsTypes'
  BY <1>0, <1>1, <1>2, <1>3, <1>5, <1>6, <1>7 DEF PsInv, PsTypes, Moves, layoutRest
<1>10. OldOK'
  BY <1>0, <1>1, <1>2, <1>3, <1>5, <1>6, <1>7 DEF OldOK
<1>11. Exclusive'
  BY <1>0, <1>1, <1>2, <1>3, <1>5, <1>6, <1>7 DEF PsInv, Exclusive, Moves, LayoutSteps
<1>12. MergesOK'
  BY <1>0, <1>1, <1>2, <1>3, <1>5, <1>6, <1>7 DEF PsInv, Exclusive, MergesOK, Moves, Remembers,
     LayoutSteps
<1>13. MovedOK'
  BY <1>0, <1>1, <1>2, <1>3, <1>5, <1>6, <1>7 DEF PsInv, MovedOK
<1>14. NotesFound'
  BY <1>0, <1>1, <1>2, <1>3, <1>5, <1>6, <1>7 DEF PsInv, NotesFound
<1> QED BY <1>8, <1>9, <1>10, <1>11, <1>12, <1>13, <1>14 DEF PsInv

\* LooksAtBoth keeps the invariant.
LEMMA LooksInv ==
    ASSUME PsInv, NEW p \in Starts, LooksAtBoth(p)
    PROVE  PsInv'
<1>0. /\ ps \in [Starts -> StartRec] /\ hit \in HitRec /\ mLock \in LockRec /\ OldOK /\ NoStart \notin Starts
      /\ new \in [Notes -> {"none", "part", "whole"}] /\ ps[p] \in StartRec
      /\ oldDir \in BOOLEAN /\ nested \in BOOLEAN
  BY StartupAssumption DEF PsInv, PsTypes
<1>1. /\ UNCHANGED <<old, oldDir, new, newDir, nested, mLock, hit>> /\ UNCHANGED layoutRest
      /\ ps[p].at = "look"
      /\ \/ Goto(p, "free") \/ Goto(p, "rename")
         \/ Goto(p, "merge") /\ oldDir /\ \A f \in Notes : new[f] = "none"
  BY DEF LooksAtBoth, ScaffoldOnly
<1>2. /\ Moves(p) /\ Remembers(p)
      /\ \/ ps'[p].at \in {"free", "rename"}
         \/ ps'[p].at = "merge" /\ oldDir /\ \A f \in Notes : new[f] = "none"
  BY <1>0, <1>1, GotoDoes, StepNames DEF LayoutSteps
<1>8. NamedOK' /\ RenamedOK' /\ IdsOK' /\ YamlWhole'
  BY <1>0, <1>1, <1>2, LayoutFrame DEF Remembers, LayoutSteps
<1>9. PsTypes'
  BY <1>0, <1>1, <1>2 DEF PsInv, PsTypes, Moves, layoutRest
<1>10. OldOK'
  BY <1>0, <1>1, <1>2 DEF OldOK
<1>11. Exclusive'
  BY <1>0, <1>1, <1>2 DEF PsInv, Exclusive, Moves, LayoutSteps
<1>12. MergesOK'
  BY <1>0, <1>1, <1>2 DEF PsInv, Exclusive, MergesOK, Moves, Remembers, LayoutSteps
<1>13. MovedOK'
  BY <1>0, <1>1, <1>2 DEF PsInv, MovedOK
<1>14. NotesFound'
  BY <1>0, <1>1, <1>2 DEF PsInv, NotesFound
<1> QED BY <1>8, <1>9, <1>10, <1>11, <1>12, <1>13, <1>14 DEF PsInv

\* RenameOld keeps the invariant.
LEMMA RenameInv ==
    ASSUME PsInv, NEW p \in Starts, RenameOld(p)
    PROVE  PsInv'
<1>0. /\ ps \in [Starts -> StartRec] /\ hit \in HitRec /\ mLock \in LockRec /\ OldOK /\ NoStart \notin Starts
      /\ new \in [Notes -> {"none", "part", "whole"}] /\ ps[p] \in StartRec
      /\ oldDir \in BOOLEAN /\ nested \in BOOLEAN
  BY StartupAssumption DEF PsInv, PsTypes
<1>1. /\ UNCHANGED mLock /\ UNCHANGED layoutRest /\ ps[p].at = "rename" /\ Goto(p, "free")
  BY DEF RenameOld
<1>2. Moves(p) /\ Remembers(p) /\ ps'[p].at = "free"
  BY <1>0, <1>1, GotoDoes, StepNames DEF LayoutSteps
<1>3. \/ UNCHANGED <<old, oldDir, new, newDir, nested, hit>>
      \/ /\ oldDir /\ old' = {} /\ oldDir' = FALSE /\ UNCHANGED <<nested, hit>>
         /\ new' \in [Notes -> {"none", "part", "whole"}] /\ \A f \in Notes : new'[f] = "whole"
      \/ /\ old' = {} /\ oldDir' = FALSE /\ nested' = TRUE /\ hit' = [hit EXCEPT !.beaten = TRUE]
         /\ UNCHANGED new
  BY <1>0 DEF RenameOld, OldOK
<1>4. /\ hit' \in HitRec /\ hit'.slow = hit.slow /\ (hit.beaten => hit'.beaten)
      /\ hit'.deaths = hit.deaths /\ hit'.clobbered = hit.clobbered /\ hit'.halfRead = hit.halfRead
      /\ hit'.mislabelled = hit.mislabelled
      /\ UNCHANGED nested \/ hit'.beaten
  <2>1. CASE UNCHANGED <<nested, hit>>
    BY <1>0, <2>1
  <2>2. CASE hit' = [hit EXCEPT !.beaten = TRUE]
    BY <1>0, <2>2, HitBeaten
  <2> QED BY <1>3, <2>1, <2>2
<1>5. oldDir' \in BOOLEAN /\ nested' \in BOOLEAN /\ new' \in [Notes -> {"none", "part", "whole"}]
  BY <1>0, <1>3
<1>8. NamedOK' /\ RenamedOK' /\ IdsOK' /\ YamlWhole'
  BY <1>0, <1>1, <1>2, <1>3, <1>4, <1>5, LayoutFrame DEF Remembers, LayoutSteps
<1>9. PsTypes'
  BY <1>0, <1>1, <1>2, <1>3, <1>4, <1>5 DEF PsInv, PsTypes, Moves, layoutRest
<1>10. OldOK'
  BY <1>0, <1>1, <1>2, <1>3, <1>4, <1>5 DEF OldOK
<1>11. Exclusive'
  BY <1>0, <1>1, <1>2, <1>3, <1>4, <1>5 DEF PsInv, Exclusive, Moves, LayoutSteps
<1>12. MergesOK'
  BY <1>0, <1>1, <1>2, <1>3, <1>4, <1>5 DEF PsInv, Exclusive, MergesOK, Moves, Remembers, LayoutSteps
<1>13. MovedOK'
  BY <1>0, <1>1, <1>2, <1>3, <1>4, <1>5 DEF PsInv, MovedOK
<1>14. NotesFound'
  BY <1>0, <1>1, <1>2, <1>3, <1>4, <1>5 DEF PsInv, NotesFound
<1> QED BY <1>8, <1>9, <1>10, <1>11, <1>12, <1>13, <1>14 DEF PsInv

\* CopyStarts keeps the invariant.
LEMMA CopyStartsInv ==
    ASSUME PsInv, NEW p \in Starts, NEW f \in Notes, CopyStarts(p, f)
    PROVE  PsInv'
<1>0. /\ ps \in [Starts -> StartRec] /\ hit \in HitRec /\ mLock \in LockRec /\ OldOK /\ NoStart \notin Starts
      /\ new \in [Notes -> {"none", "part", "whole"}] /\ ps[p] \in StartRec
      /\ oldDir \in BOOLEAN /\ nested \in BOOLEAN
  BY StartupAssumption DEF PsInv, PsTypes
<1>1. /\ UNCHANGED <<old, oldDir, newDir, nested, mLock, hit>> /\ UNCHANGED layoutRest
      /\ ps[p].at = "merge" /\ f \in old /\ new' = [new EXCEPT ![f] = "part"]
      /\ ps' = [ps EXCEPT ![p].at = "copying", ![p].file = f]
  BY DEF CopyStarts
<1>2. /\ Moves(p) /\ ps'[p].at = "copying" /\ ps'[p].file = f /\ ps'[p].model = ps[p].model
      /\ ps'[p].was = ps[p].was /\ ps'[p].skipped = ps[p].skipped /\ ps'[p].id = ps[p].id
  <2> DEFINE v == [ps[p] EXCEPT !.at = "copying", !.file = f]
  <2>0. "copying" \in Steps
    BY DEF Steps
  <2>1. /\ v \in StartRec /\ v.at = "copying" /\ v.file = f /\ v.model = ps[p].model
        /\ v.was = ps[p].was /\ v.skipped = ps[p].skipped /\ v.id = ps[p].id
    BY <1>0, <2>0 DEF StartRec
  <2>2. ps' = [ps EXCEPT ![p] = v]
    BY <1>1
  <2> HIDE DEF v
  <2> QED BY <1>0, <2>1, <2>2, Sets
<1>3. /\ new' \in [Notes -> {"none", "part", "whole"}] /\ oldDir
      /\ \A g \in Notes \ {f} : new'[g] = new[g]
  BY <1>0, <1>1 DEF OldOK
<1>8. NamedOK' /\ RenamedOK' /\ IdsOK' /\ YamlWhole'
  BY <1>0, <1>1, <1>2, <1>3, LayoutFrame DEF Remembers, LayoutSteps
<1>9. PsTypes'
  BY <1>0, <1>1, <1>2, <1>3 DEF PsInv, PsTypes, Moves, layoutRest
<1>10. OldOK'
  BY <1>0, <1>1, <1>2, <1>3 DEF OldOK
<1>11. Exclusive'
  BY <1>0, <1>1, <1>2, <1>3 DEF PsInv, Exclusive, Moves, LayoutSteps
<1>12. MergesOK'
  BY <1>0, <1>1, <1>2, <1>3 DEF PsInv, Exclusive, MergesOK, Moves, Remembers, LayoutSteps
<1>13. MovedOK'
  BY <1>0, <1>1, <1>2, <1>3 DEF PsInv, MovedOK
<1>14. NotesFound'
  BY <1>0, <1>1, <1>2, <1>3 DEF PsInv, NotesFound
<1> QED BY <1>8, <1>9, <1>10, <1>11, <1>12, <1>13, <1>14 DEF PsInv

\* CopyEnds keeps the invariant.
LEMMA CopyEndsInv ==
    ASSUME PsInv, NEW p \in Starts, CopyEnds(p)
    PROVE  PsInv'
<1>0. /\ ps \in [Starts -> StartRec] /\ hit \in HitRec /\ mLock \in LockRec /\ OldOK /\ NoStart \notin Starts
      /\ new \in [Notes -> {"none", "part", "whole"}] /\ ps[p] \in StartRec
      /\ oldDir \in BOOLEAN /\ nested \in BOOLEAN
  BY StartupAssumption DEF PsInv, PsTypes
<1>1. /\ UNCHANGED <<old, oldDir, newDir, nested, mLock, hit>> /\ UNCHANGED layoutRest
      /\ ps[p].at = "copying" /\ new' = [new EXCEPT ![ps[p].file] = "whole"] /\ Goto(p, "merge")
  BY DEF CopyEnds
<1>2. Moves(p) /\ Remembers(p) /\ ps'[p].at = "merge"
  BY <1>0, <1>1, GotoDoes, StepNames DEF LayoutSteps
<1>3. /\ new' \in [Notes -> {"none", "part", "whole"}]
      /\ \A g \in Notes \ {ps[p].file} : new'[g] = new[g]
      /\ ps[p].file \in Notes => new'[ps[p].file] = "whole"
  BY <1>0, <1>1
<1>8. NamedOK' /\ RenamedOK' /\ IdsOK' /\ YamlWhole'
  BY <1>0, <1>1, <1>2, <1>3, LayoutFrame DEF Remembers, LayoutSteps
<1>9. PsTypes'
  BY <1>0, <1>1, <1>2, <1>3 DEF PsInv, PsTypes, Moves, layoutRest
<1>10. OldOK'
  BY <1>0, <1>1, <1>2, <1>3 DEF OldOK
<1>11. Exclusive'
  BY <1>0, <1>1, <1>2, <1>3 DEF PsInv, Exclusive, Moves, LayoutSteps
<1>12. MergesOK'
  BY <1>0, <1>1, <1>2, <1>3 DEF PsInv, Exclusive, MergesOK, Moves, Remembers, LayoutSteps
<1>13. MovedOK'
  BY <1>0, <1>1, <1>2, <1>3 DEF PsInv, MergesOK, MovedOK
<1>14. NotesFound'
  BY <1>0, <1>1, <1>2, <1>3 DEF PsInv, NotesFound
<1> QED BY <1>8, <1>9, <1>10, <1>11, <1>12, <1>13, <1>14 DEF PsInv

\* CopyFails keeps the invariant.
LEMMA CopyFailsInv ==
    ASSUME PsInv, NEW p \in Starts, CopyFails(p)
    PROVE  PsInv'
<1>0. /\ ps \in [Starts -> StartRec] /\ hit \in HitRec /\ mLock \in LockRec /\ OldOK /\ NoStart \notin Starts
      /\ new \in [Notes -> {"none", "part", "whole"}] /\ ps[p] \in StartRec
      /\ oldDir \in BOOLEAN /\ nested \in BOOLEAN
  BY StartupAssumption DEF PsInv, PsTypes
<1>1. /\ UNCHANGED <<old, oldDir, new, newDir, nested, mLock>> /\ UNCHANGED layoutRest
      /\ ps[p].at = "copying" /\ Goto(p, "free") /\ hit' = [hit EXCEPT !.errors = @ + 1]
  BY DEF CopyFails
<1>2. Moves(p) /\ Remembers(p) /\ ps'[p].at = "free"
  BY <1>0, <1>1, GotoDoes, StepNames DEF LayoutSteps
<1>3. /\ hit' \in HitRec /\ hit'.slow = hit.slow /\ hit'.beaten = hit.beaten
      /\ hit'.deaths = hit.deaths /\ hit'.clobbered = hit.clobbered /\ hit'.halfRead = hit.halfRead
      /\ hit'.mislabelled = hit.mislabelled
  BY <1>0, <1>1, HitErrors
<1>8. NamedOK' /\ RenamedOK' /\ IdsOK' /\ YamlWhole'
  BY <1>0, <1>1, <1>2, <1>3, LayoutFrame DEF Remembers, LayoutSteps
<1>9. PsTypes'
  BY <1>0, <1>1, <1>2, <1>3 DEF PsInv, PsTypes, Moves, layoutRest
<1>10. OldOK'
  BY <1>0, <1>1, <1>2, <1>3 DEF OldOK
<1>11. Exclusive'
  BY <1>0, <1>1, <1>2, <1>3 DEF PsInv, Exclusive, Moves, LayoutSteps
<1>12. MergesOK'
  BY <1>0, <1>1, <1>2, <1>3 DEF PsInv, Exclusive, MergesOK, Moves, Remembers, LayoutSteps
<1>13. MovedOK'
  BY <1>0, <1>1, <1>2, <1>3 DEF PsInv, MovedOK
<1>14. NotesFound'
  BY <1>0, <1>1, <1>2, <1>3 DEF PsInv, NotesFound
<1> QED BY <1>8, <1>9, <1>10, <1>11, <1>12, <1>13, <1>14 DEF PsInv

\* RemoveOld keeps the invariant.
LEMMA RemoveInv ==
    ASSUME PsInv, NEW p \in Starts, RemoveOld(p)
    PROVE  PsInv'
<1>0. /\ ps \in [Starts -> StartRec] /\ hit \in HitRec /\ mLock \in LockRec /\ OldOK /\ NoStart \notin Starts
      /\ new \in [Notes -> {"none", "part", "whole"}] /\ ps[p] \in StartRec
      /\ oldDir \in BOOLEAN /\ nested \in BOOLEAN
  BY StartupAssumption DEF PsInv, PsTypes
<1>1. /\ UNCHANGED <<new, newDir, nested, mLock, hit>> /\ UNCHANGED layoutRest
      /\ ps[p].at = "merge" /\ \A f \in old : new[f] # "none"
      /\ old' = {} /\ oldDir' = FALSE /\ Goto(p, "free")
  BY DEF RemoveOld
<1>2. Moves(p) /\ Remembers(p) /\ ps'[p].at = "free"
  BY <1>0, <1>1, GotoDoes, StepNames DEF LayoutSteps
<1>3. hit.slow \/ \A f \in Notes : new[f] = "whole"
  BY <1>0, <1>1 DEF PsInv, MergesOK, OldOK
<1>8. NamedOK' /\ RenamedOK' /\ IdsOK' /\ YamlWhole'
  BY <1>0, <1>1, <1>2, <1>3, LayoutFrame DEF Remembers, LayoutSteps
<1>9. PsTypes'
  BY <1>0, <1>1, <1>2, <1>3 DEF PsInv, PsTypes, Moves, layoutRest
<1>10. OldOK'
  BY <1>0, <1>1, <1>2, <1>3 DEF OldOK
<1>11. Exclusive'
  BY <1>0, <1>1, <1>2, <1>3 DEF PsInv, Exclusive, Moves, LayoutSteps
<1>12. MergesOK'
  BY <1>0, <1>1, <1>2, <1>3 DEF PsInv, Exclusive, MergesOK, Moves, Remembers, LayoutSteps
<1>13. MovedOK'
  BY <1>0, <1>1, <1>2, <1>3 DEF PsInv, MovedOK
<1>14. NotesFound'
  BY <1>0, <1>1, <1>2, <1>3 DEF PsInv, NotesFound
<1> QED BY <1>8, <1>9, <1>10, <1>11, <1>12, <1>13, <1>14 DEF PsInv

\* FreeLayout keeps the invariant.
LEMMA FreeInv ==
    ASSUME PsInv, NEW p \in Starts, FreeLayout(p)
    PROVE  PsInv'
<1>0. /\ ps \in [Starts -> StartRec] /\ hit \in HitRec /\ mLock \in LockRec /\ OldOK /\ NoStart \notin Starts
      /\ new \in [Notes -> {"none", "part", "whole"}] /\ ps[p] \in StartRec
      /\ oldDir \in BOOLEAN /\ nested \in BOOLEAN
  BY StartupAssumption DEF PsInv, PsTypes
<1>1. /\ UNCHANGED <<old, oldDir, new, newDir, nested, hit>> /\ UNCHANGED layoutRest
      /\ ps[p].at = "free" /\ mLock' = [by |-> NoStart, aged |-> FALSE] /\ Goto(p, "uri")
  BY DEF FreeLayout
<1>2. Moves(p) /\ Remembers(p) /\ ps'[p].at = "uri"
  BY <1>0, <1>1, GotoDoes, StepNames DEF LayoutSteps
<1>3. mLock' \in LockRec
  BY <1>1 DEF LockRec
<1>4. hit.slow \/ \A q \in Starts \ {p} : ps[q].at \notin LayoutSteps
  BY <1>1 DEF PsInv, Exclusive, LayoutSteps
<1>8. NamedOK' /\ RenamedOK' /\ IdsOK' /\ YamlWhole'
  BY <1>0, <1>1, <1>2, <1>3, <1>4, LayoutFrame DEF Remembers, LayoutSteps
<1>9. PsTypes'
  BY <1>0, <1>1, <1>2, <1>3, <1>4 DEF PsInv, PsTypes, Moves, layoutRest
<1>10. OldOK'
  BY <1>0, <1>1, <1>2, <1>3, <1>4 DEF OldOK
<1>11. Exclusive'
  BY <1>0, <1>1, <1>2, <1>3, <1>4 DEF PsInv, Exclusive, Moves, LayoutSteps
<1>12. MergesOK'
  BY <1>0, <1>1, <1>2, <1>3, <1>4 DEF PsInv, Exclusive, MergesOK, Moves, Remembers, LayoutSteps
<1>13. MovedOK'
  BY <1>0, <1>1, <1>2, <1>3, <1>4 DEF PsInv, MovedOK
<1>14. NotesFound'
  BY <1>0, <1>1, <1>2, <1>3, <1>4 DEF PsInv, NotesFound
<1> QED BY <1>8, <1>9, <1>10, <1>11, <1>12, <1>13, <1>14 DEF PsInv

\* The lock of the layout ages: no start moves.
LEMMA AgesInv ==
    ASSUME PsInv, LayoutLockAges
    PROVE  PsInv'
<1>1. /\ UNCHANGED <<old, oldDir, new, newDir, nested, ps, hit>> /\ UNCHANGED layoutRest
      /\ mLock' \in LockRec /\ mLock'.by = mLock.by
  BY DEF LayoutLockAges, PsInv, PsTypes, LockRec
<1>2. PsTypes' /\ OldOK' /\ MergesOK' /\ MovedOK' /\ NotesFound'
  BY <1>1 DEF PsInv, PsTypes, OldOK, MergesOK, MovedOK, NotesFound, layoutRest
<1>3. Exclusive'
  BY <1>1 DEF PsInv, Exclusive
<1>4. NamedOK' /\ RenamedOK'
  BY <1>1 DEF PsInv, NamedOK, RenamedOK, Astray, layoutRest
<1>5. IdsOK' /\ YamlWhole'
  BY <1>1 DEF PsInv, IdsOK, YamlWhole, layoutRest
<1> QED BY <1>2, <1>3, <1>4, <1>5 DEF PsInv

\* A start that neither creates nor writes the id leaves it alone.
LEMMA IdsFrame ==
    ASSUME PsInv, NEW p \in Starts, Moves(p), ps'[p].id = ps[p].id, ps'[p].at \notin {"idCreate", "idWrite"},
           UNCHANGED <<idFile, idLock>>
    PROVE  IdsOK'
BY DEF PsInv, IdsOK, Moves

\* What a reader of monkeybot.yaml records.
LEMMA ReadsHit ==
    ASSUME hit \in HitRec, ReadConfig
    PROVE  /\ hit' \in HitRec /\ (hit'.halfRead <=> hit.halfRead \/ yaml.torn)
           /\ hit'.deaths = hit.deaths /\ hit'.errors = hit.errors /\ hit'.slow = hit.slow
           /\ hit'.beaten = hit.beaten /\ hit'.clobbered = hit.clobbered /\ hit'.mislabelled = hit.mislabelled
<1>1. PICK b \in BOOLEAN : hit' = [hit EXCEPT !.halfRead = b] /\ b = (hit.halfRead \/ yaml.torn)
  BY DEF ReadConfig
<1> QED BY <1>1, HitHalfRead

\* ReadsUri keeps the invariant.
LEMMA ReadsUriInv ==
    ASSUME PsInv, NEW p \in Starts, ReadsUri(p)
    PROVE  PsInv'
<1>0. /\ ps \in [Starts -> StartRec] /\ hit \in HitRec /\ yaml \in YamlRec /\ mLock \in LockRec
      /\ NoStart \notin Starts /\ ps[p] \in StartRec /\ recorded \in {"none", "legacy", "minilm"}
      /\ palaceDir \in BOOLEAN /\ yaml.model \in {"legacy", "minilm"} /\ Configured \in {"legacy", "minilm"}
      /\ ps[p].model \in {"legacy", "minilm"}
  BY StartupAssumption, StartFields DEF PsInv, PsTypes, YamlRec, Configured
<1>1. /\ UNCHANGED memoryDirs /\ UNCHANGED <<yaml, recorded, eLock, idFile, idLock,
                                             hit>> /\ ps[p].at = "uri"
      /\ Goto(p, "embed") \/ ps' = [ps EXCEPT ![p].at = "uriWrite", ![p].model = yaml.model]
  BY DEF ReadsUri
<1>2. /\ Moves(p) /\ ps'[p].at \in {"embed", "uriWrite"} /\ ps'[p].id = ps[p].id
  <2>1. CASE Goto(p, "embed")
    BY <1>0, <2>1, GotoDoes, StepNames DEF Remembers
  <2>2. CASE ps' = [ps EXCEPT ![p].at = "uriWrite", ![p].model = yaml.model]
    <3> DEFINE v == [ps[p] EXCEPT !.at = "uriWrite", !.model = yaml.model]
    <3>0. "uriWrite" \in Steps
      BY DEF Steps
    <3>1. v \in StartRec /\ v.at = "uriWrite" /\ v.id = ps[p].id
      BY <1>0, <3>0 DEF StartRec
    <3>2. ps' = [ps EXCEPT ![p] = v]
      BY <2>2
    <3> HIDE DEF v
    <3> QED BY <1>0, <3>1, <3>2, Sets
  <2> QED BY <1>1, <2>1, <2>2
<1>8. OldOK' /\ Exclusive' /\ MergesOK' /\ MovedOK' /\ NotesFound'
  BY <1>0, <1>1, <1>2, NotesFrame DEF LayoutSteps, memoryDirs
<1>9. PsTypes'
  BY <1>0, <1>1, <1>2 DEF PsInv, PsTypes, Moves, memoryDirs
<1>10. NamedOK'
  BY <1>0, <1>1, <1>2 DEF PsInv, NamedOK, Astray, Moves, Remembers, memoryDirs
<1>11. RenamedOK'
  BY <1>0, <1>1, <1>2 DEF PsInv, NamedOK, RenamedOK, Astray, Moves, Remembers, memoryDirs
<1>12. IdsOK'
  BY <1>0, <1>1, <1>2, IdsFrame DEF Remembers
<1>13. YamlWhole'
  BY <1>0, <1>1, <1>2 DEF PsInv, YamlWhole, Moves
<1> QED BY <1>8, <1>9, <1>10, <1>11, <1>12, <1>13 DEF PsInv

\* TruncatesYaml keeps the invariant.
LEMMA TruncatesInv ==
    ASSUME PsInv, NEW p \in Starts, TruncatesYaml(p)
    PROVE  PsInv'
<1>0. /\ ps \in [Starts -> StartRec] /\ hit \in HitRec /\ yaml \in YamlRec /\ mLock \in LockRec
      /\ NoStart \notin Starts /\ ps[p] \in StartRec /\ recorded \in {"none", "legacy", "minilm"}
      /\ palaceDir \in BOOLEAN /\ yaml.model \in {"legacy", "minilm"} /\ Configured \in {"legacy", "minilm"}
      /\ ps[p].model \in {"legacy", "minilm"}
  BY StartupAssumption, StartFields DEF PsInv, PsTypes, YamlRec, Configured
<1>1. /\ UNCHANGED memoryDirs /\ UNCHANGED <<recorded, eLock, idFile, idLock, hit>>
      /\ ps[p].at = "uriWrite" /\ yaml' = [yaml EXCEPT !.torn = TRUE] /\ Goto(p, "uriEnd")
  BY DEF TruncatesYaml
<1>2. Moves(p) /\ Remembers(p) /\ ps'[p].at = "uriEnd"
  BY <1>0, <1>1, GotoDoes, StepNames
<1>3. yaml' \in YamlRec /\ yaml'.model = yaml.model
  BY <1>0, <1>1 DEF YamlRec
<1>8. OldOK' /\ Exclusive' /\ MergesOK' /\ MovedOK' /\ NotesFound'
  BY <1>0, <1>1, <1>2, <1>3, NotesFrame DEF LayoutSteps, memoryDirs
<1>9. PsTypes'
  BY <1>0, <1>1, <1>2, <1>3 DEF PsInv, PsTypes, Moves, memoryDirs
<1>10. NamedOK'
  BY <1>0, <1>1, <1>2, <1>3 DEF PsInv, NamedOK, Astray, Moves, Remembers, memoryDirs
<1>11. RenamedOK'
  BY <1>0, <1>1, <1>2, <1>3 DEF PsInv, NamedOK, RenamedOK, Astray, Moves, Remembers, memoryDirs
<1>12. IdsOK'
  BY <1>0, <1>1, <1>2, <1>3, IdsFrame DEF Remembers
<1>13. YamlWhole'
  BY <1>0, <1>1, <1>2, <1>3 DEF PsInv, YamlWhole, Moves
<1> QED BY <1>8, <1>9, <1>10, <1>11, <1>12, <1>13 DEF PsInv

\* WritesUri keeps the invariant.
LEMMA WritesUriInv ==
    ASSUME PsInv, NEW p \in Starts, WritesUri(p)
    PROVE  PsInv'
<1>0. /\ ps \in [Starts -> StartRec] /\ hit \in HitRec /\ yaml \in YamlRec /\ mLock \in LockRec
      /\ NoStart \notin Starts /\ ps[p] \in StartRec /\ recorded \in {"none", "legacy", "minilm"}
      /\ palaceDir \in BOOLEAN /\ yaml.model \in {"legacy", "minilm"} /\ Configured \in {"legacy", "minilm"}
      /\ ps[p].model \in {"legacy", "minilm"}
  BY StartupAssumption, StartFields DEF PsInv, PsTypes, YamlRec, Configured
<1>1. /\ UNCHANGED memoryDirs /\ UNCHANGED <<recorded, eLock, idFile, idLock>>
      /\ ps[p].at = "uriEnd" /\ yaml' = [uri |-> "new", model |-> ps[p].model, torn |-> FALSE] /\ Goto(p, "embed")
      /\ hit' = [hit EXCEPT !.clobbered = @ \/ yaml.model # ps[p].model]
  BY DEF WritesUri
<1>2. Moves(p) /\ Remembers(p) /\ ps'[p].at = "embed"
  BY <1>0, <1>1, GotoDoes, StepNames
<1>3. yaml' \in YamlRec /\ yaml'.model = ps[p].model /\ ~yaml'.torn
  BY <1>0, <1>1 DEF YamlRec
<1>4. /\ hit' \in HitRec /\ (hit'.clobbered <=> hit.clobbered \/ yaml.model # ps[p].model)
      /\ hit'.slow = hit.slow /\ hit'.beaten = hit.beaten /\ hit'.halfRead = hit.halfRead
      /\ hit'.mislabelled = hit.mislabelled
  <2>1. PICK b \in BOOLEAN : hit' = [hit EXCEPT !.clobbered = b] /\ b = (hit.clobbered \/ yaml.model # ps[p].model)
    BY <1>1
  <2> QED BY <1>0, <2>1, HitClobbered
<1>8. OldOK' /\ Exclusive' /\ MergesOK' /\ MovedOK' /\ NotesFound'
  BY <1>0, <1>1, <1>2, <1>3, <1>4, NotesFrame DEF LayoutSteps, memoryDirs
<1>9. PsTypes'
  BY <1>0, <1>1, <1>2, <1>3, <1>4 DEF PsInv, PsTypes, Moves, memoryDirs
<1>10. NamedOK'
  BY <1>0, <1>1, <1>2, <1>3, <1>4 DEF PsInv, NamedOK, Astray, Moves, Remembers, memoryDirs
<1>11. RenamedOK'
  BY <1>0, <1>1, <1>2, <1>3, <1>4 DEF PsInv, NamedOK, RenamedOK, Astray, Moves, Remembers, memoryDirs
<1>12. IdsOK'
  BY <1>0, <1>1, <1>2, <1>3, <1>4, IdsFrame DEF Remembers
<1>13. YamlWhole'
  BY <1>0, <1>1, <1>2, <1>3, <1>4 DEF PsInv, YamlWhole, Moves
<1> QED BY <1>8, <1>9, <1>10, <1>11, <1>12, <1>13 DEF PsInv

\* LocksEmbedding keeps the invariant.
LEMMA LocksInv ==
    ASSUME PsInv, NEW p \in Starts, LocksEmbedding(p)
    PROVE  PsInv'
<1>0. /\ ps \in [Starts -> StartRec] /\ hit \in HitRec /\ yaml \in YamlRec /\ mLock \in LockRec
      /\ NoStart \notin Starts /\ ps[p] \in StartRec /\ recorded \in {"none", "legacy", "minilm"}
      /\ palaceDir \in BOOLEAN /\ yaml.model \in {"legacy", "minilm"} /\ Configured \in {"legacy", "minilm"}
      /\ ps[p].model \in {"legacy", "minilm"}
  BY StartupAssumption, StartFields DEF PsInv, PsTypes, YamlRec, Configured
<1>1. /\ UNCHANGED memoryDirs /\ UNCHANGED <<yaml, recorded, idFile, idLock, hit>> /\ ps[p].at = "embed"
      /\ Goto(p, "model") \/ ps' = [ps EXCEPT ![p].at = "read", ![p].skipped = TRUE]
  BY DEF LocksEmbedding
<1>2. /\ Moves(p) /\ ps'[p].id = ps[p].id
      /\ ps'[p].at = "model" \/ (ps'[p].at = "read" /\ ps'[p].skipped)
  <2>1. CASE Goto(p, "model")
    BY <1>0, <2>1, GotoDoes, StepNames DEF Remembers
  <2>2. CASE ps' = [ps EXCEPT ![p].at = "read", ![p].skipped = TRUE]
    <3> DEFINE v == [ps[p] EXCEPT !.at = "read", !.skipped = TRUE]
    <3>0. "read" \in Steps
      BY DEF Steps
    <3>1. v \in StartRec /\ v.at = "read" /\ v.skipped /\ v.id = ps[p].id
      BY <1>0, <3>0 DEF StartRec
    <3>2. ps' = [ps EXCEPT ![p] = v]
      BY <2>2
    <3> HIDE DEF v
    <3> QED BY <1>0, <3>1, <3>2, Sets
  <2> QED BY <1>1, <2>1, <2>2
<1>8. OldOK' /\ Exclusive' /\ MergesOK' /\ MovedOK' /\ NotesFound'
  BY <1>0, <1>1, <1>2, NotesFrame DEF LayoutSteps, memoryDirs
<1>9. PsTypes'
  BY <1>0, <1>1, <1>2 DEF PsInv, PsTypes, Moves, memoryDirs
<1>10. NamedOK'
  BY <1>0, <1>1, <1>2 DEF PsInv, NamedOK, Astray, Moves, Remembers, memoryDirs
<1>11. RenamedOK'
  BY <1>0, <1>1, <1>2 DEF PsInv, NamedOK, RenamedOK, Astray, Moves, Remembers, memoryDirs
<1>12. IdsOK'
  BY <1>0, <1>1, <1>2, IdsFrame DEF Remembers
<1>13. YamlWhole'
  BY <1>0, <1>1, <1>2 DEF PsInv, YamlWhole, Moves
<1> QED BY <1>8, <1>9, <1>10, <1>11, <1>12, <1>13 DEF PsInv

\* ReadsModel keeps the invariant.
LEMMA ReadsModelInv ==
    ASSUME PsInv, NEW p \in Starts, ReadsModel(p)
    PROVE  PsInv'
<1>0. /\ ps \in [Starts -> StartRec] /\ hit \in HitRec /\ yaml \in YamlRec /\ mLock \in LockRec
      /\ NoStart \notin Starts /\ ps[p] \in StartRec /\ recorded \in {"none", "legacy", "minilm"}
      /\ palaceDir \in BOOLEAN /\ yaml.model \in {"legacy", "minilm"} /\ Configured \in {"legacy", "minilm"}
      /\ ps[p].model \in {"legacy", "minilm"}
  BY StartupAssumption, StartFields DEF PsInv, PsTypes, YamlRec, Configured
<1>1. /\ UNCHANGED memoryDirs /\ UNCHANGED <<yaml, recorded, idFile, idLock>> /\ ps[p].at = "model"
      /\ ReadConfig
      /\ \/ ps' = [ps EXCEPT ![p].at = "modelRead", ![p].was = recorded]
         \/ Configured # "legacy" /\ recorded # "legacy" /\ Goto(p, "read")
  BY DEF ReadsModel
<1>2. /\ Moves(p) /\ ps'[p].id = ps[p].id
      /\ \/ ps'[p].at = "modelRead" /\ ps'[p].was = recorded
         \/ Configured # "legacy" /\ recorded # "legacy" /\ ps'[p].at = "read"
  <2>1. CASE Configured # "legacy" /\ recorded # "legacy" /\ Goto(p, "read")
    BY <1>0, <2>1, GotoDoes, StepNames DEF Remembers
  <2>2. CASE ps' = [ps EXCEPT ![p].at = "modelRead", ![p].was = recorded]
    <3> DEFINE v == [ps[p] EXCEPT !.at = "modelRead", !.was = recorded]
    <3>0. "modelRead" \in Steps
      BY DEF Steps
    <3>1. v \in StartRec /\ v.at = "modelRead" /\ v.was = recorded /\ v.id = ps[p].id
      BY <1>0, <3>0 DEF StartRec
    <3>2. ps' = [ps EXCEPT ![p] = v]
      BY <2>2
    <3> HIDE DEF v
    <3> QED BY <1>0, <3>1, <3>2, Sets
  <2> QED BY <1>1, <2>1, <2>2
<1>3. /\ hit' \in HitRec /\ (hit'.halfRead <=> hit.halfRead \/ yaml.torn)
      /\ hit'.deaths = hit.deaths /\ hit'.slow = hit.slow
      /\ hit'.beaten = hit.beaten /\ hit'.clobbered = hit.clobbered /\ hit'.mislabelled = hit.mislabelled
  BY <1>0, <1>1, ReadsHit
<1>4. hit'.halfRead \/ Configured = yaml.model
  BY <1>3 DEF Configured
<1>8. OldOK' /\ Exclusive' /\ MergesOK' /\ MovedOK' /\ NotesFound'
  BY <1>0, <1>1, <1>2, <1>3, <1>4, NotesFrame DEF LayoutSteps, memoryDirs
<1>9. PsTypes'
  BY <1>0, <1>1, <1>2, <1>3, <1>4 DEF PsInv, PsTypes, Moves, memoryDirs
<1>10. NamedOK'
  BY <1>0, <1>1, <1>2, <1>3, <1>4 DEF PsInv, NamedOK, Astray, Moves, Remembers, memoryDirs
<1>11. RenamedOK'
  BY <1>0, <1>1, <1>2, <1>3, <1>4 DEF PsInv, NamedOK, RenamedOK, Astray, Moves, Remembers, memoryDirs
<1>12. IdsOK'
  BY <1>0, <1>1, <1>2, <1>3, <1>4, IdsFrame DEF Remembers
<1>13. YamlWhole'
  BY <1>0, <1>1, <1>2, <1>3, <1>4 DEF PsInv, YamlWhole, Moves
<1> QED BY <1>8, <1>9, <1>10, <1>11, <1>12, <1>13 DEF PsInv

\* ReadsText keeps the invariant.
LEMMA ReadsTextInv ==
    ASSUME PsInv, NEW p \in Starts, ReadsText(p)
    PROVE  PsInv'
<1>0. /\ ps \in [Starts -> StartRec] /\ hit \in HitRec /\ yaml \in YamlRec /\ mLock \in LockRec
      /\ NoStart \notin Starts /\ ps[p] \in StartRec /\ recorded \in {"none", "legacy", "minilm"}
      /\ palaceDir \in BOOLEAN /\ yaml.model \in {"legacy", "minilm"} /\ Configured \in {"legacy", "minilm"}
      /\ ps[p].model \in {"legacy", "minilm"}
  BY StartupAssumption, StartFields DEF PsInv, PsTypes, YamlRec, Configured
<1>1. /\ UNCHANGED memoryDirs /\ UNCHANGED <<yaml, recorded, idFile, idLock>> /\ ps[p].at = "modelRead"
      /\ ReadConfig
      /\ ps' = [ps EXCEPT ![p].at = "modelWrite", ![p].uri = yaml.uri, ![p].model = Configured]
  BY DEF ReadsText
<1>2. /\ Moves(p) /\ ps'[p].id = ps[p].id /\ ps'[p].at = "modelWrite" /\ ps'[p].model = Configured
      /\ ps'[p].was = ps[p].was
  <2> DEFINE v == [ps[p] EXCEPT !.at = "modelWrite", !.uri = yaml.uri, !.model = Configured]
  <2>0. "modelWrite" \in Steps /\ yaml.uri \in {"old", "new"}
    BY <1>0 DEF Steps, YamlRec
  <2>1. v \in StartRec /\ v.at = "modelWrite" /\ v.model = Configured /\ v.id = ps[p].id /\ v.was = ps[p].was
    BY <1>0, <2>0 DEF StartRec
  <2>2. ps' = [ps EXCEPT ![p] = v]
    BY <1>1
  <2> HIDE DEF v
  <2> QED BY <1>0, <2>1, <2>2, Sets
<1>3. /\ hit' \in HitRec /\ (hit'.halfRead <=> hit.halfRead \/ yaml.torn)
      /\ hit'.deaths = hit.deaths /\ hit'.slow = hit.slow
      /\ hit'.beaten = hit.beaten /\ hit'.clobbered = hit.clobbered /\ hit'.mislabelled = hit.mislabelled
  BY <1>0, <1>1, ReadsHit
<1>4. hit'.halfRead \/ Configured = yaml.model
  BY <1>3 DEF Configured
<1>8. OldOK' /\ Exclusive' /\ MergesOK' /\ MovedOK' /\ NotesFound'
  BY <1>0, <1>1, <1>2, <1>3, <1>4, NotesFrame DEF LayoutSteps, memoryDirs
<1>9. PsTypes'
  BY <1>0, <1>1, <1>2, <1>3, <1>4 DEF PsInv, PsTypes, Moves, memoryDirs
<1>10. NamedOK'
  BY <1>0, <1>1, <1>2, <1>3, <1>4 DEF PsInv, NamedOK, Astray, Moves, Remembers, memoryDirs
<1>11. RenamedOK'
  BY <1>0, <1>1, <1>2, <1>3, <1>4 DEF PsInv, NamedOK, RenamedOK, Astray, Moves, Remembers, memoryDirs
<1>12. IdsOK'
  BY <1>0, <1>1, <1>2, <1>3, <1>4, IdsFrame DEF Remembers
<1>13. YamlWhole'
  BY <1>0, <1>1, <1>2, <1>3, <1>4 DEF PsInv, YamlWhole, Moves
<1> QED BY <1>8, <1>9, <1>10, <1>11, <1>12, <1>13 DEF PsInv

\* WritesModel keeps the invariant.
LEMMA WritesModelInv ==
    ASSUME PsInv, NEW p \in Starts, WritesModel(p)
    PROVE  PsInv'
<1>0. /\ ps \in [Starts -> StartRec] /\ hit \in HitRec /\ yaml \in YamlRec /\ mLock \in LockRec
      /\ NoStart \notin Starts /\ ps[p] \in StartRec /\ recorded \in {"none", "legacy", "minilm"}
      /\ palaceDir \in BOOLEAN /\ yaml.model \in {"legacy", "minilm"} /\ Configured \in {"legacy", "minilm"}
      /\ ps[p].model \in {"legacy", "minilm"}
  BY StartupAssumption, StartFields DEF PsInv, PsTypes, YamlRec, Configured
<1>1. /\ UNCHANGED memoryDirs /\ UNCHANGED <<recorded, idFile, idLock, hit>> /\ ps[p].at = "modelWrite"
      /\ Goto(p, "verify")
      /\ yaml' = IF ps[p].model = "legacy" THEN [uri |-> ps[p].uri, model |-> "minilm", torn |-> FALSE] ELSE yaml
  BY DEF WritesModel
<1>2. Moves(p) /\ Remembers(p) /\ ps'[p].at = "verify"
  BY <1>0, <1>1, GotoDoes, StepNames
<1>3. /\ yaml' \in YamlRec /\ (yaml'.torn => yaml.torn)
      /\ yaml'.model = "minilm" \/ (ps[p].model = "minilm" /\ yaml'.model = yaml.model)
  <2>1. CASE ps[p].model = "legacy"
    <3>1. ps[p].uri \in {"old", "new"}
      BY <1>0, StartFields
    <3> QED BY <1>1, <2>1, <3>1 DEF YamlRec
  <2>2. CASE ps[p].model = "minilm"
    BY <1>0, <1>1, <2>2
  <2> QED BY <1>0, <2>1, <2>2
<1>8. OldOK' /\ Exclusive' /\ MergesOK' /\ MovedOK' /\ NotesFound'
  BY <1>0, <1>1, <1>2, <1>3, NotesFrame DEF LayoutSteps, memoryDirs
<1>9. PsTypes'
  BY <1>0, <1>1, <1>2, <1>3 DEF PsInv, PsTypes, Moves, memoryDirs
<1>10. NamedOK'
  BY <1>0, <1>1, <1>2, <1>3 DEF PsInv, NamedOK, Astray, Moves, Remembers, memoryDirs
<1>11. RenamedOK'
  BY <1>0, <1>1, <1>2, <1>3 DEF PsInv, NamedOK, RenamedOK, Astray, Moves, Remembers, memoryDirs
<1>12. IdsOK'
  BY <1>0, <1>1, <1>2, <1>3, IdsFrame DEF Remembers
<1>13. YamlWhole'
  BY <1>0, <1>1, <1>2, <1>3 DEF PsInv, YamlWhole, Moves
<1> QED BY <1>8, <1>9, <1>10, <1>11, <1>12, <1>13 DEF PsInv

\* VerifiesModel keeps the invariant.
LEMMA VerifiesInv ==
    ASSUME PsInv, NEW p \in Starts, VerifiesModel(p)
    PROVE  PsInv'
<1>0. /\ ps \in [Starts -> StartRec] /\ hit \in HitRec /\ yaml \in YamlRec /\ mLock \in LockRec
      /\ NoStart \notin Starts /\ ps[p] \in StartRec /\ recorded \in {"none", "legacy", "minilm"}
      /\ palaceDir \in BOOLEAN /\ yaml.model \in {"legacy", "minilm"} /\ Configured \in {"legacy", "minilm"}
      /\ ps[p].model \in {"legacy", "minilm"}
  BY StartupAssumption, StartFields DEF PsInv, PsTypes, YamlRec, Configured
<1>1. /\ UNCHANGED memoryDirs /\ UNCHANGED <<yaml, recorded, idFile, idLock>> /\ ps[p].at = "verify"
      /\ ReadConfig
      /\ \/ Configured = "minilm" /\ palaceDir /\ Goto(p, "identity")
         \/ ~(Configured = "minilm" /\ palaceDir /\ ps[p].was = "legacy") /\ Goto(p, "read")
  BY DEF VerifiesModel
<1>2. /\ Moves(p) /\ Remembers(p)
      /\ \/ Configured = "minilm" /\ palaceDir /\ ps'[p].at = "identity"
         \/ ~(Configured = "minilm" /\ palaceDir /\ ps[p].was = "legacy") /\ ps'[p].at = "read"
  BY <1>0, <1>1, GotoDoes, StepNames
<1>3. /\ hit' \in HitRec /\ (hit'.halfRead <=> hit.halfRead \/ yaml.torn)
      /\ hit'.deaths = hit.deaths /\ hit'.slow = hit.slow
      /\ hit'.beaten = hit.beaten /\ hit'.clobbered = hit.clobbered /\ hit'.mislabelled = hit.mislabelled
  BY <1>0, <1>1, ReadsHit
<1>4. hit'.halfRead \/ Configured = yaml.model
  BY <1>3 DEF Configured
<1>8. OldOK' /\ Exclusive' /\ MergesOK' /\ MovedOK' /\ NotesFound'
  BY <1>0, <1>1, <1>2, <1>3, <1>4, NotesFrame DEF LayoutSteps, memoryDirs
<1>9. PsTypes'
  BY <1>0, <1>1, <1>2, <1>3, <1>4 DEF PsInv, PsTypes, Moves, memoryDirs
<1>10. NamedOK'
  BY <1>0, <1>1, <1>2, <1>3, <1>4 DEF PsInv, NamedOK, Astray, Moves, Remembers, memoryDirs
<1>11. RenamedOK'
  BY <1>0, <1>1, <1>2, <1>3, <1>4 DEF PsInv, NamedOK, RenamedOK, Astray, Moves, Remembers, memoryDirs
<1>12. IdsOK'
  BY <1>0, <1>1, <1>2, <1>3, <1>4, IdsFrame DEF Remembers
<1>13. YamlWhole'
  BY <1>0, <1>1, <1>2, <1>3, <1>4 DEF PsInv, YamlWhole, Moves
<1> QED BY <1>8, <1>9, <1>10, <1>11, <1>12, <1>13 DEF PsInv

\* WritesIdentity keeps the invariant.
LEMMA IdentityInv ==
    ASSUME PsInv, NEW p \in Starts, WritesIdentity(p)
    PROVE  PsInv'
<1>0. /\ ps \in [Starts -> StartRec] /\ hit \in HitRec /\ yaml \in YamlRec /\ mLock \in LockRec
      /\ NoStart \notin Starts /\ ps[p] \in StartRec /\ recorded \in {"none", "legacy", "minilm"}
      /\ palaceDir \in BOOLEAN /\ yaml.model \in {"legacy", "minilm"} /\ Configured \in {"legacy", "minilm"}
      /\ ps[p].model \in {"legacy", "minilm"}
  BY StartupAssumption, StartFields DEF PsInv, PsTypes, YamlRec, Configured
<1>1. /\ UNCHANGED memoryDirs /\ UNCHANGED <<yaml, idFile, idLock, hit>> /\ ps[p].at = "identity"
      /\ recorded' = "minilm" /\ Goto(p, "read")
  BY DEF WritesIdentity
<1>2. Moves(p) /\ Remembers(p) /\ ps'[p].at = "read"
  BY <1>0, <1>1, GotoDoes, StepNames
<1>8. OldOK' /\ Exclusive' /\ MergesOK' /\ MovedOK' /\ NotesFound'
  BY <1>0, <1>1, <1>2, NotesFrame DEF LayoutSteps, memoryDirs
<1>9. PsTypes'
  BY <1>0, <1>1, <1>2 DEF PsInv, PsTypes, Moves, memoryDirs
<1>10. NamedOK'
  BY <1>0, <1>1, <1>2 DEF PsInv, NamedOK, Astray, Moves, Remembers, memoryDirs
<1>11. RenamedOK'
  BY <1>0, <1>1, <1>2 DEF PsInv, NamedOK, RenamedOK, Astray, Moves, Remembers, memoryDirs
<1>12. IdsOK'
  BY <1>0, <1>1, <1>2, IdsFrame DEF Remembers
<1>13. YamlWhole'
  BY <1>0, <1>1, <1>2 DEF PsInv, YamlWhole, Moves
<1> QED BY <1>8, <1>9, <1>10, <1>11, <1>12, <1>13 DEF PsInv

\* ReadsConfig keeps the invariant.
LEMMA ReadsConfigInv ==
    ASSUME PsInv, NEW p \in Starts, ReadsConfig(p)
    PROVE  PsInv'
<1>0. /\ ps \in [Starts -> StartRec] /\ hit \in HitRec /\ yaml \in YamlRec /\ mLock \in LockRec
      /\ NoStart \notin Starts /\ ps[p] \in StartRec /\ recorded \in {"none", "legacy", "minilm"}
      /\ palaceDir \in BOOLEAN /\ yaml.model \in {"legacy", "minilm"} /\ Configured \in {"legacy", "minilm"}
      /\ ps[p].model \in {"legacy", "minilm"}
  BY StartupAssumption, StartFields DEF PsInv, PsTypes, YamlRec, Configured
<1>1. /\ UNCHANGED memoryDirs /\ UNCHANGED <<yaml, recorded, idFile, idLock>> /\ ps[p].at = "read"
      /\ ReadConfig /\ ps' = [ps EXCEPT ![p].at = "open", ![p].model = Configured]
  BY DEF ReadsConfig
<1>2. /\ Moves(p) /\ ps'[p].id = ps[p].id /\ ps'[p].at = "open" /\ ps'[p].model = Configured
      /\ ps'[p].skipped = ps[p].skipped
  <2> DEFINE v == [ps[p] EXCEPT !.at = "open", !.model = Configured]
  <2>0. "open" \in Steps
    BY DEF Steps
  <2>1. v \in StartRec /\ v.at = "open" /\ v.model = Configured /\ v.id = ps[p].id /\ v.skipped = ps[p].skipped
    BY <1>0, <2>0 DEF StartRec
  <2>2. ps' = [ps EXCEPT ![p] = v]
    BY <1>1
  <2> HIDE DEF v
  <2> QED BY <1>0, <2>1, <2>2, Sets
<1>3. /\ hit' \in HitRec /\ (hit'.halfRead <=> hit.halfRead \/ yaml.torn)
      /\ hit'.deaths = hit.deaths /\ hit'.slow = hit.slow
      /\ hit'.beaten = hit.beaten /\ hit'.clobbered = hit.clobbered /\ hit'.mislabelled = hit.mislabelled
  BY <1>0, <1>1, ReadsHit
<1>4. hit'.halfRead \/ Configured = yaml.model
  BY <1>3 DEF Configured
<1>8. OldOK' /\ Exclusive' /\ MergesOK' /\ MovedOK' /\ NotesFound'
  BY <1>0, <1>1, <1>2, <1>3, <1>4, NotesFrame DEF LayoutSteps, memoryDirs
<1>9. PsTypes'
  BY <1>0, <1>1, <1>2, <1>3, <1>4 DEF PsInv, PsTypes, Moves, memoryDirs
<1>10. NamedOK'
  BY <1>0, <1>1, <1>2, <1>3, <1>4 DEF PsInv, NamedOK, Astray, Moves, Remembers, memoryDirs
<1>11. RenamedOK'
  BY <1>0, <1>1, <1>2, <1>3, <1>4 DEF PsInv, NamedOK, RenamedOK, Astray, Moves, Remembers, memoryDirs
<1>12. IdsOK'
  BY <1>0, <1>1, <1>2, <1>3, <1>4, IdsFrame DEF Remembers
<1>13. YamlWhole'
  BY <1>0, <1>1, <1>2, <1>3, <1>4 DEF PsInv, YamlWhole, Moves
<1> QED BY <1>8, <1>9, <1>10, <1>11, <1>12, <1>13 DEF PsInv

\* OpensPalace keeps the invariant.
LEMMA OpensInv ==
    ASSUME PsInv, NEW p \in Starts, OpensPalace(p)
    PROVE  PsInv'
<1>0. /\ ps \in [Starts -> StartRec] /\ hit \in HitRec /\ yaml \in YamlRec /\ mLock \in LockRec
      /\ NoStart \notin Starts /\ ps[p] \in StartRec /\ recorded \in {"none", "legacy", "minilm"}
      /\ palaceDir \in BOOLEAN /\ yaml.model \in {"legacy", "minilm"} /\ Configured \in {"legacy", "minilm"}
      /\ ps[p].model \in {"legacy", "minilm"}
  BY StartupAssumption, StartFields DEF PsInv, PsTypes, YamlRec, Configured
<1>1. /\ UNCHANGED <<old, oldDir, new, nested, mLock, yaml, idFile, idLock>> /\ ps[p].at = "open"
      /\ palaceDir' = TRUE
      /\ Goto(p, IF recorded \in {"none", ps[p].model} /\ ps[p].model = "minilm" THEN "id" ELSE "refused")
      /\ recorded' = IF recorded = "none" THEN ps[p].model ELSE recorded
      /\ hit' = [hit EXCEPT !.mislabelled = @ \/ (recorded' = "legacy" /\ recorded = "none")]
  BY DEF OpensPalace
<1>2. /\ Moves(p) /\ Remembers(p)
      /\ \/ ps'[p].at = "id"
         \/ ps'[p].at = "refused" /\ ~(recorded \in {"none", ps[p].model} /\ ps[p].model = "minilm")
  <2>1. CASE recorded \in {"none", ps[p].model} /\ ps[p].model = "minilm"
    <3>1. Goto(p, "id")
      BY <1>1, <2>1
    <3> QED BY <1>0, <3>1, GotoDoes, StepNames
  <2>2. CASE ~(recorded \in {"none", ps[p].model} /\ ps[p].model = "minilm")
    <3>1. Goto(p, "refused")
      BY <1>1, <2>2
    <3> QED BY <1>0, <2>2, <3>1, GotoDoes, StepNames
  <2> QED BY <2>1, <2>2
<1>3. /\ hit' \in HitRec /\ (hit'.mislabelled <=> hit.mislabelled \/ (recorded' = "legacy" /\ recorded = "none"))
      /\ hit'.deaths = hit.deaths /\ hit'.slow = hit.slow
      /\ hit'.beaten = hit.beaten /\ hit'.clobbered = hit.clobbered /\ hit'.halfRead = hit.halfRead
  <2>1. PICK b \in BOOLEAN : /\ hit' = [hit EXCEPT !.mislabelled = b]
                             /\ b = (hit.mislabelled \/ (recorded' = "legacy" /\ recorded = "none"))
    BY <1>1
  <2> QED BY <1>0, <2>1, HitMislabelled
<1>4. recorded' \in {"none", "legacy", "minilm"}
  BY <1>0, <1>1
<1>8. OldOK' /\ Exclusive' /\ MergesOK' /\ MovedOK' /\ NotesFound'
  BY <1>0, <1>1, <1>2, <1>3, <1>4, NotesFrame DEF LayoutSteps, memoryDirs
<1>9. PsTypes'
  BY <1>0, <1>1, <1>2, <1>3, <1>4 DEF PsInv, PsTypes, Moves, memoryDirs
<1>10. NamedOK'
  <2>1. UNCHANGED yaml /\ (Astray' <=> Astray) /\ palaceDir'
    BY <1>1, <1>3 DEF Astray
  <2>2. Astray \/ (recorded' = "minilm" => yaml.model = "minilm")
    BY <1>0, <1>1 DEF PsInv, NamedOK
  <2>3. Astray \/ \A q \in Starts :
             /\ ps'[q].at \in {"open", "modelWrite"} /\ ps'[q].model = "minilm" => yaml.model = "minilm"
             /\ ps'[q].at \in {"identity", "verify"} => yaml.model = "minilm"
             /\ ps'[q].at = "read" /\ ~ps'[q].skipped => yaml.model = "minilm"
             /\ ps'[q].at = "open" /\ ~ps'[q].skipped => ps'[q].model = "minilm"
    BY <1>2 DEF PsInv, NamedOK, Moves
  <2> QED BY <2>1, <2>2, <2>3 DEF NamedOK
<1>11. RenamedOK'
  BY <1>0, <1>1, <1>2, <1>3, <1>4 DEF PsInv, NamedOK, RenamedOK, Astray, Moves, Remembers, memoryDirs
<1>12. IdsOK'
  BY <1>0, <1>1, <1>2, <1>3, <1>4, IdsFrame DEF Remembers
<1>13. YamlWhole'
  BY <1>0, <1>1, <1>2, <1>3, <1>4 DEF PsInv, YamlWhole, Moves
<1> QED BY <1>8, <1>9, <1>10, <1>11, <1>12, <1>13 DEF PsInv

\* ReadsId keeps the invariant.
LEMMA ReadsIdInv ==
    ASSUME PsInv, NEW p \in Starts, ReadsId(p)
    PROVE  PsInv'
<1>0. /\ ps \in [Starts -> StartRec] /\ ps[p] \in StartRec /\ NoStart \notin Starts /\ "empty" \notin Starts
      /\ idFile \in Starts \union {"none", "empty"} /\ idLock \in Starts \union {NoStart}
      /\ \A q \in Starts : ps[q].id \in Starts \union {NoStart}
  BY StartupAssumption, StartFields DEF PsInv, PsTypes
<1>1. /\ UNCHANGED memoryDirs /\ UNCHANGED <<yaml, recorded, eLock, hit, idFile>> /\ ps[p].at = "id"
      /\ \/ idFile \in Starts /\ ps' = [ps EXCEPT ![p].at = "ready", ![p].id = idFile] /\ UNCHANGED idLock
         \/ idLock = NoStart /\ idLock' = p /\ Goto(p, "idCreate")
  BY DEF ReadsId, palace
<1>2. /\ Moves(p)
      /\ \/ ps'[p].at = "ready" /\ ps'[p].id = idFile /\ UNCHANGED idLock
         \/ ps'[p].at = "idCreate" /\ ps'[p].id = ps[p].id /\ idLock = NoStart /\ idLock' = p
  <2>1. CASE idFile \in Starts /\ ps' = [ps EXCEPT ![p].at = "ready", ![p].id = idFile] /\ UNCHANGED idLock
    <3> DEFINE v == [ps[p] EXCEPT !.at = "ready", !.id = idFile]
    <3>0. "ready" \in Steps
      BY DEF Steps
    <3>1. v \in StartRec /\ v.at = "ready" /\ v.id = idFile
      BY <1>0, <2>1, <3>0 DEF StartRec
    <3>2. ps' = [ps EXCEPT ![p] = v]
      BY <2>1
    <3> HIDE DEF v
    <3> QED BY <1>0, <2>1, <3>1, <3>2, Sets
  <2>2. CASE idLock = NoStart /\ idLock' = p /\ Goto(p, "idCreate")
    BY <1>0, <2>2, GotoDoes, StepNames DEF Remembers
  <2> QED BY <1>1, <2>1, <2>2
<1>8. OldOK' /\ Exclusive' /\ MergesOK' /\ MovedOK' /\ NotesFound'
  BY <1>0, <1>1, <1>2, NotesFrame DEF LayoutSteps, memoryDirs
<1>9. PsTypes'
  BY <1>0, <1>1, <1>2 DEF PsInv, PsTypes, Moves, memoryDirs
<1>10. NamedOK'
  BY <1>0, <1>1, <1>2 DEF PsInv, NamedOK, Astray, Moves, memoryDirs
<1>11. RenamedOK'
  BY <1>0, <1>1, <1>2 DEF PsInv, RenamedOK, Astray, Moves, memoryDirs
<1>12. IdsOK'
  BY <1>0, <1>1, <1>2 DEF PsInv, IdsOK, Moves
<1>13. YamlWhole'
  BY <1>0, <1>1, <1>2 DEF PsInv, YamlWhole, Moves
<1> QED BY <1>8, <1>9, <1>10, <1>11, <1>12, <1>13 DEF PsInv

\* CreatesId keeps the invariant.
LEMMA CreatesIdInv ==
    ASSUME PsInv, NEW p \in Starts, CreatesId(p)
    PROVE  PsInv'
<1>0. /\ ps \in [Starts -> StartRec] /\ ps[p] \in StartRec /\ NoStart \notin Starts /\ "empty" \notin Starts
      /\ idFile \in Starts \union {"none", "empty"} /\ idLock \in Starts \union {NoStart}
      /\ \A q \in Starts : ps[q].id \in Starts \union {NoStart}
  BY StartupAssumption, StartFields DEF PsInv, PsTypes
<1>1. /\ UNCHANGED memoryDirs /\ UNCHANGED <<yaml, recorded, eLock, hit>> /\ ps[p].at = "idCreate"
      /\ \/ /\ idFile \in Starts /\ ps' = [ps EXCEPT ![p].at = "ready", ![p].id = idFile]
            /\ idLock' = NoStart /\ UNCHANGED idFile
         \/ idFile \notin Starts /\ idFile' = "empty" /\ Goto(p, "idWrite") /\ UNCHANGED idLock
  BY DEF CreatesId, palace
<1>2. /\ Moves(p)
      /\ \/ ps'[p].at = "ready" /\ ps'[p].id = idFile /\ idLock' = NoStart /\ UNCHANGED idFile
         \/ /\ ps'[p].at = "idWrite" /\ ps'[p].id = ps[p].id /\ idFile \notin Starts /\ idFile' = "empty"
            /\ UNCHANGED idLock
  <2>1. CASE idFile \in Starts /\ ps' = [ps EXCEPT ![p].at = "ready", ![p].id = idFile] /\ idLock' = NoStart /\ UNCHANGED idFile
    <3> DEFINE v == [ps[p] EXCEPT !.at = "ready", !.id = idFile]
    <3>0. "ready" \in Steps
      BY DEF Steps
    <3>1. v \in StartRec /\ v.at = "ready" /\ v.id = idFile
      BY <1>0, <2>1, <3>0 DEF StartRec
    <3>2. ps' = [ps EXCEPT ![p] = v]
      BY <2>1
    <3> HIDE DEF v
    <3> QED BY <1>0, <2>1, <3>1, <3>2, Sets
  <2>2. CASE idFile \notin Starts /\ idFile' = "empty" /\ Goto(p, "idWrite") /\ UNCHANGED idLock
    BY <1>0, <2>2, GotoDoes, StepNames DEF Remembers
  <2> QED BY <1>1, <2>1, <2>2
<1>8. OldOK' /\ Exclusive' /\ MergesOK' /\ MovedOK' /\ NotesFound'
  BY <1>0, <1>1, <1>2, NotesFrame DEF LayoutSteps, memoryDirs
<1>9. PsTypes'
  BY <1>0, <1>1, <1>2 DEF PsInv, PsTypes, Moves, memoryDirs
<1>10. NamedOK'
  BY <1>0, <1>1, <1>2 DEF PsInv, NamedOK, Astray, Moves, memoryDirs
<1>11. RenamedOK'
  BY <1>0, <1>1, <1>2 DEF PsInv, RenamedOK, Astray, Moves, memoryDirs
<1>12. IdsOK'
  BY <1>0, <1>1, <1>2 DEF PsInv, IdsOK, Moves
<1>13. YamlWhole'
  BY <1>0, <1>1, <1>2 DEF PsInv, YamlWhole, Moves
<1> QED BY <1>8, <1>9, <1>10, <1>11, <1>12, <1>13 DEF PsInv

\* WritesId keeps the invariant.
LEMMA WritesIdInv ==
    ASSUME PsInv, NEW p \in Starts, WritesId(p)
    PROVE  PsInv'
<1>0. /\ ps \in [Starts -> StartRec] /\ ps[p] \in StartRec /\ NoStart \notin Starts /\ "empty" \notin Starts
      /\ idFile \in Starts \union {"none", "empty"} /\ idLock \in Starts \union {NoStart}
      /\ \A q \in Starts : ps[q].id \in Starts \union {NoStart}
  BY StartupAssumption, StartFields DEF PsInv, PsTypes
<1>1. /\ UNCHANGED memoryDirs /\ UNCHANGED <<yaml, recorded, eLock, hit>> /\ ps[p].at = "idWrite"
      /\ idFile' = p /\ idLock' = NoStart /\ ps' = [ps EXCEPT ![p].at = "ready", ![p].id = p]
  BY DEF WritesId, palace
<1>2. Moves(p) /\ ps'[p].at = "ready" /\ ps'[p].id = p
  <2>1. p \in Starts /\ ps' = [ps EXCEPT ![p].at = "ready", ![p].id = p]
    BY <1>1
  <2>2. QED
    <3> DEFINE v == [ps[p] EXCEPT !.at = "ready", !.id = p]
    <3>0. "ready" \in Steps
      BY DEF Steps
    <3>1. v \in StartRec /\ v.at = "ready" /\ v.id = p
      BY <1>0, <2>1, <3>0 DEF StartRec
    <3>2. ps' = [ps EXCEPT ![p] = v]
      BY <2>1
    <3> HIDE DEF v
    <3> QED BY <1>0, <2>1, <3>1, <3>2, Sets
<1>8. OldOK' /\ Exclusive' /\ MergesOK' /\ MovedOK' /\ NotesFound'
  BY <1>0, <1>1, <1>2, NotesFrame DEF LayoutSteps, memoryDirs
<1>9. PsTypes'
  BY <1>0, <1>1, <1>2 DEF PsInv, PsTypes, Moves, memoryDirs
<1>10. NamedOK'
  BY <1>0, <1>1, <1>2 DEF PsInv, NamedOK, Astray, Moves, memoryDirs
<1>11. RenamedOK'
  BY <1>0, <1>1, <1>2 DEF PsInv, RenamedOK, Astray, Moves, memoryDirs
<1>12. IdsOK'
  BY <1>0, <1>1, <1>2 DEF PsInv, IdsOK, Moves
<1>13. YamlWhole'
  BY <1>0, <1>1, <1>2 DEF PsInv, YamlWhole, Moves
<1> QED BY <1>8, <1>9, <1>10, <1>11, <1>12, <1>13 DEF PsInv

\* StartDies keeps the invariant.
LEMMA DiesInv ==
    ASSUME PsInv, NEW p \in Starts, StartDies(p)
    PROVE  PsInv'
<1>0. /\ ps \in [Starts -> StartRec] /\ ps[p] \in StartRec /\ NoStart \notin Starts /\ "empty" \notin Starts
      /\ idFile \in Starts \union {"none", "empty"} /\ idLock \in Starts \union {NoStart}
      /\ \A q \in Starts : ps[q].id \in Starts \union {NoStart}
  BY StartupAssumption, StartFields DEF PsInv, PsTypes
<1>1. /\ UNCHANGED memoryDirs /\ UNCHANGED <<yaml, recorded, idFile>>
      /\ Goto(p, "dead") /\ hit' = [hit EXCEPT !.deaths = @ + 1]
      /\ idLock' = IF idLock = p THEN NoStart ELSE idLock
  BY DEF StartDies
<1>2. Moves(p) /\ Remembers(p) /\ ps'[p].at = "dead"
  BY <1>0, <1>1, GotoDoes, StepNames
<1>3. /\ hit' \in HitRec /\ hit'.deaths > 0 /\ hit'.slow = hit.slow /\ hit'.beaten = hit.beaten
      /\ hit'.clobbered = hit.clobbered /\ hit'.halfRead = hit.halfRead /\ hit'.mislabelled = hit.mislabelled
  BY <1>1, HitDeaths DEF PsInv, PsTypes
<1>8. OldOK' /\ Exclusive' /\ MergesOK' /\ MovedOK' /\ NotesFound'
  BY <1>0, <1>1, <1>2, <1>3, NotesFrame DEF LayoutSteps, memoryDirs
<1>9. PsTypes'
  BY <1>0, <1>1, <1>2, <1>3 DEF PsInv, PsTypes, Moves, memoryDirs
<1>10. NamedOK'
  BY <1>0, <1>1, <1>2, <1>3 DEF PsInv, NamedOK, Astray, Moves, memoryDirs
<1>11. RenamedOK'
  BY <1>0, <1>1, <1>2, <1>3 DEF PsInv, RenamedOK, Astray, Moves, memoryDirs
<1>12. IdsOK'
  BY <1>0, <1>1, <1>2, <1>3 DEF PsInv, IdsOK, Moves, Remembers
<1>13. YamlWhole'
  BY <1>0, <1>1, <1>2, <1>3 DEF PsInv, YamlWhole, Moves
<1> QED BY <1>8, <1>9, <1>10, <1>11, <1>12, <1>13 DEF PsInv

\* The memory as it may be found, and nobody has started.
LEMMA PsInitInv == PsInit => PsInv
<1> SUFFICES ASSUME PsInit PROVE PsInv
  OBVIOUS
<1>1. /\ NewStart \in StartRec /\ NewStart.at = "layout" /\ NewStart.id = NoStart
  BY DEF NewStart, StartRec, Steps
<1>2. /\ ps = [p \in Starts |-> NewStart] /\ idFile = "none" /\ idLock = NoStart
      /\ oldDir \in BOOLEAN /\ palaceDir \in BOOLEAN /\ nested = FALSE
      /\ new = [f \in Notes |-> "none"] /\ recorded \in {"none", yaml.model}
      /\ (recorded # "none" => palaceDir) /\ old = (IF oldDir THEN Notes ELSE {})
  BY DEF PsInit
<1>3. yaml \in YamlRec /\ ~yaml.torn /\ yaml.model \in {"legacy", "minilm"}
  BY DEF PsInit, YamlRec
<1>4. /\ hit = [deaths |-> 0, errors |-> 0, slow |-> FALSE, beaten |-> FALSE, clobbered |-> FALSE,
                 halfRead |-> FALSE, mislabelled |-> FALSE]
      /\ mLock = [by |-> NoStart, aged |-> FALSE]
  BY DEF PsInit
<1>5. hit \in HitRec /\ mLock \in LockRec
  BY <1>4 DEF HitRec, LockRec
<1>6. PsTypes
  BY <1>1, <1>2, <1>3, <1>5 DEF PsTypes
<1>7. OldOK /\ Exclusive /\ MergesOK /\ MovedOK /\ NotesFound
  BY <1>1, <1>2 DEF OldOK, Exclusive, MergesOK, MovedOK, NotesFound, LayoutSteps
<1>8. NamedOK /\ RenamedOK /\ IdsOK /\ YamlWhole
  BY <1>1, <1>2, <1>3 DEF NamedOK, RenamedOK, IdsOK, YamlWhole
<1> QED BY <1>6, <1>7, <1>8 DEF PsInv

\* Every step of a start keeps the invariant.
LEMMA PsStepInv ==
    ASSUME PsInv, [PsNext]_psVars
    PROVE  PsInv'
<1>1. CASE UNCHANGED psVars
  <2>1. /\ PsTypes' /\ OldOK' /\ Exclusive' /\ MergesOK' /\ MovedOK'
    BY <1>1 DEF psVars, PsInv, PsTypes, OldOK, Exclusive, MergesOK, MovedOK
  <2>2. NamedOK' /\ RenamedOK' /\ IdsOK' /\ NotesFound' /\ YamlWhole'
    BY <1>1 DEF psVars, PsInv, NamedOK, RenamedOK, Astray, IdsOK, NotesFound, YamlWhole
  <2> QED BY <2>1, <2>2 DEF PsInv
<1>2. ASSUME NEW p \in Starts, StartStep(p) PROVE PsInv'
  <2>1. CASE \/ AcquireLayout(p) \/ StealLayout(p) \/ LooksAtBoth(p) \/ RenameOld(p) \/ CopyEnds(p)
             \/ CopyFails(p) \/ (\E f \in Notes : CopyStarts(p, f)) \/ RemoveOld(p) \/ FreeLayout(p)
    BY <2>1, AcquireInv, StealInv, LooksInv, RenameInv, CopyEndsInv, CopyFailsInv, CopyStartsInv,
       RemoveInv, FreeInv
  <2>2. CASE \/ ReadsUri(p) \/ TruncatesYaml(p) \/ WritesUri(p) \/ LocksEmbedding(p) \/ ReadsModel(p)
             \/ ReadsText(p) \/ WritesModel(p) \/ VerifiesModel(p) \/ WritesIdentity(p)
    BY <2>2, ReadsUriInv, TruncatesInv, WritesUriInv, LocksInv, ReadsModelInv, ReadsTextInv,
       WritesModelInv,
       VerifiesInv, IdentityInv
  <2>3. CASE ReadsConfig(p) \/ OpensPalace(p) \/ ReadsId(p) \/ CreatesId(p) \/ WritesId(p)
    BY <2>3, ReadsConfigInv, OpensInv, ReadsIdInv, CreatesIdInv, WritesIdInv
  <2> QED BY <1>2, <2>1, <2>2, <2>3 DEF StartStep
<1>3. ASSUME NEW p \in Starts, StartDies(p) PROVE PsInv'
  BY <1>3, DiesInv
<1>4. CASE LayoutLockAges
  BY <1>4, AgesInv
<1> QED BY <1>1, <1>2, <1>3, <1>4 DEF PsNext

(* A start loses no note, leaves data/memory where it is looked for, names  *)
(* the embedder of the palace in the configuration as well, refuses no      *)
(* palace and gives it one id, whoever else starts or dies, unless a live   *)
(* lock was removed, memory appeared before the move, the rewrites of       *)
(* monkeybot.yaml crossed, or a palace was labelled by a start that was     *)
(* told to skip (bootstrap_agent_layout).                                   *)
THEOREM StartupSafety == PsSpec => []StartupSafe
<1>1. PsInit => PsInv
  BY PsInitInv
<1>2. PsInv /\ [PsNext]_psVars => PsInv'
  BY PsStepInv
<1>3. PsInv => StartupSafe
  BY PsInvSafe
<1> QED BY <1>1, <1>2, <1>3, PTL DEF PsSpec

-----------------------------------------------------------------------------
(* The memory of an agent is safe in the gateway as a whole: a message is   *)
(* filed once, in the palace it was stored for, and a start loses none of   *)
(* what was filed (persist_message, MemoryWriter, bootstrap_agent_layout).  *)
THEOREM MemorySafety == GatewaySpec => []MemorySafe
<1>1. GatewayInit => MmInv /\ PsInv
  BY MmInitInv, PsInitInv DEF GatewayInit
<1>2. MmInv /\ PsInv /\ [GatewayNext]_gatewayVars => MmInv' /\ PsInv'
  <2>1. [GatewayNext]_gatewayVars => [MemNext]_memVars /\ [PsNext]_psVars
    BY DEF GatewayNext, gatewayVars
  <2> QED BY <2>1, MmStepInv, PsStepInv
<1>3. MmInv /\ PsInv => MemorySafe
  BY MmInvSafe, PsInvSafe DEF MemorySafe
<1> QED BY <1>1, <1>2, <1>3, PTL DEF GatewaySpec

-----------------------------------------------------------------------------
(* The event stream (EventStream).  A frame that is not in its ring has been *)
(* pushed out of it by as many newer ones as it holds; a subscriber is given *)
(* what the rings hold, so its queue has all frames above the last one read *)
(* but those.                                                               *)

Sorted(s) == \A i, j \in DOMAIN s : i < j => s[i] < s[j]

In(s, x) == \E i \in DOMAIN s : s[i] = x

\* A ring that is full of frames above j.
Full(q, j, max) == Len(q) = max /\ \A i \in DOMAIN q : j < q[i]

RingsOK ==
    /\ seq = Len(lanes) /\ lanes \in Seq(DOMAIN KeepMax)
    /\ ring \in [DOMAIN KeepMax -> Seq(Nat)]
    /\ \A l \in DOMAIN KeepMax :
          /\ Sorted(ring[l]) /\ Len(ring[l]) <= KeepMax[l]
          /\ \A i \in DOMAIN ring[l] : ring[l][i] \in 1..seq /\ lanes[ring[l][i]] = l
          /\ \A j \in 1..seq : lanes[j] = l => In(ring[l], j) \/ Full(ring[l], j, KeepMax[l])

ClientsOK ==
    /\ live \in BOOLEAN /\ restarts \in Nat /\ (MaxRestarts = 0 => live) /\ (~live => seq = 0)
    /\ last \in [Clients -> Nat] /\ got \in [Clients -> Seq(Nat)] /\ wire \in [Clients -> Seq(Nat)]
    /\ conn \in [Clients -> {"off", "open", "dead"}]
    /\ \A c \in Clients :
          /\ live => last[c] = Delivery!Latest(c) /\ last[c] <= seq
          /\ conn[c] = "open" =>
                /\ live /\ Sorted(wire[c])
                /\ \A i \in DOMAIN wire[c] : wire[c][i] \in (last[c] + 1)..seq
                /\ \A j \in (last[c] + 1)..seq : In(wire[c], j) \/ Delivery!PushedOut(j)

EvInv == RingsOK /\ ClientsOK

\* The lanes and how many frames each keeps.
LEMMA Keeps == KeepMax \in [DOMAIN KeepMax -> Nat] /\ DOMAIN KeepMax = {"primary", "nested"}
BY StreamAssumption DEF KeepMax

\* A deque with a bound: the newest entries, in order.
LEMMA PushedRing ==
    ASSUME NEW q \in Seq(Nat), NEW x \in Nat, NEW max \in Nat, Sorted(q), Len(q) <= max,
           \A i \in DOMAIN q : q[i] < x
    PROVE  LET r == Pushed(q, x, max)
           IN  /\ r \in Seq(Nat) /\ Sorted(r) /\ Len(r) <= max
               /\ \A i \in DOMAIN r : r[i] = x \/ In(q, r[i])
               /\ \A j \in Nat : In(q, j) => In(r, j) \/ Full(r, j, max)
               /\ \A j \in Nat : j < x /\ Full(q, j, max) => Full(r, j, max)
               /\ In(r, x) \/ Full(r, x, max)
<1> DEFINE all == Append(q, x)
           r == Pushed(q, x, max)
<1>1. /\ all \in Seq(Nat) /\ Len(all) = Len(q) + 1 /\ all[Len(q) + 1] = x
      /\ \A i \in DOMAIN q : all[i] = q[i]
  OBVIOUS
<1>2. /\ DOMAIN q = 1..Len(q) /\ DOMAIN all = 1..(Len(q) + 1) /\ Len(q) \in Nat
      /\ \A i \in DOMAIN q : q[i] \in Nat
  BY <1>1
<1>3. Sorted(all)
  BY <1>1, <1>2 DEF Sorted
<1> HIDE DEF all
<1>4. CASE Len(q) < max
  <2>1. r = all
    BY <1>4 DEF Pushed, all
  <2>2. \A i \in DOMAIN all : all[i] = x \/ In(q, all[i])
    BY <1>1, <1>2 DEF In
  <2>3. \A j \in Nat : (In(q, j) => In(all, j)) /\ ~Full(q, j, max)
    <3>1. \A i \in DOMAIN q : i \in DOMAIN all
      BY <1>2
    <3>2. \A j \in Nat : In(q, j) => In(all, j)
      BY <1>1, <3>1 DEF In
    <3>3. \A j \in Nat : ~Full(q, j, max)
      <4>1. Len(q) # max
        BY <1>4
      <4> QED BY <4>1 DEF Full
    <3> QED BY <3>2, <3>3
  <2>4. In(all, x) /\ Len(all) <= max
    BY <1>1, <1>2, <1>4 DEF In
  <2> QED BY <1>1, <1>3, <2>1, <2>2, <2>3, <2>4
<1>5. CASE Len(q) = max
  <2>1. r = Tail(all)
    BY <1>5 DEF Pushed, all
  <2>2. /\ r \in Seq(Nat) /\ Len(r) = max /\ DOMAIN r = 1..max
        /\ \A i \in 1..max : i + 1 \in 1..(max + 1) /\ r[i] = all[i + 1]
    <3>1. all # <<>>
      BY <1>1, <1>2
    <3>2. Tail(all) \in Seq(Nat) /\ Len(Tail(all)) = Len(all) - 1
          /\ \A i \in 1..Len(Tail(all)) : Tail(all)[i] = all[i + 1]
      BY <1>1, <3>1, HeadTailProperties
    <3> QED BY <1>1, <1>5, <2>1, <3>2
  <2> HIDE DEF r
  <2>a. /\ \A i \in DOMAIN r : i \in Nat /\ i + 1 \in DOMAIN all /\ 1 < i + 1 /\ r[i] = all[i + 1]
        /\ 1 \in DOMAIN all
    BY <1>2, <1>5, <2>2
  <2>3. Sorted(r)
    <3> SUFFICES ASSUME NEW i \in DOMAIN r, NEW k \in DOMAIN r, i < k PROVE r[i] < r[k]
      BY DEF Sorted
    <3>1. i + 1 < k + 1
      BY <2>a
    <3>2. all[i + 1] < all[k + 1]
      BY <1>3, <2>a, <3>1 DEF Sorted
    <3> QED BY <2>a, <3>2
  <2>4. \A i \in DOMAIN r : r[i] = x \/ In(q, r[i])
    <3> SUFFICES ASSUME NEW i \in DOMAIN r PROVE all[i + 1] = x \/ In(q, all[i + 1])
      BY <2>a
    <3>1. CASE i + 1 = Len(q) + 1
      BY <1>1, <3>1
    <3>2. CASE i + 1 # Len(q) + 1
      <4>1. i + 1 \in DOMAIN q
        BY <1>2, <2>a, <3>2
      <4> QED BY <1>1, <4>1 DEF In
    <3> QED BY <3>1, <3>2
  <2>5. \A i \in DOMAIN r : all[1] < r[i]
    <3> SUFFICES ASSUME NEW i \in DOMAIN r PROVE all[1] < all[i + 1]
      BY <2>a
    <3> QED BY <1>3, <2>a DEF Sorted
  <2>6. ASSUME NEW j \in Nat, In(q, j) PROVE In(r, j) \/ Full(r, j, max)
    <3>1. PICK i \in DOMAIN q : q[i] = j
      BY <2>6 DEF In
    <3>2. CASE i = 1
      BY <1>1, <1>2, <2>2, <2>5, <3>1, <3>2 DEF Full
    <3>3. CASE i # 1
      <4>1. i \in 1..max /\ i - 1 \in 1..max /\ (i - 1) + 1 = i
        BY <1>2, <1>5, <3>1, <3>3
      <4>2. i - 1 \in DOMAIN r /\ r[i - 1] = all[(i - 1) + 1]
        BY <2>2, <4>1
      <4> QED BY <1>1, <3>1, <4>1, <4>2 DEF In
    <3> QED BY <3>2, <3>3
  <2>7. ASSUME NEW j \in Nat, j < x, Full(q, j, max) PROVE Full(r, j, max)
    <3>1. \A i \in DOMAIN all : j < all[i]
      BY <1>1, <1>2, <2>7 DEF Full
    <3> QED BY <1>2, <1>5, <2>2, <3>1 DEF Full
  <2>8. In(r, x) \/ Full(r, x, max)
    <3>1. CASE max = 0
      BY <2>2, <3>1 DEF Full
    <3>2. CASE max # 0
      <4>1. max \in DOMAIN r /\ r[max] = all[max + 1]
        BY <2>2, <3>2
      <4> QED BY <1>1, <1>5, <4>1 DEF In
    <3> QED BY <3>1, <3>2
  <2> QED BY <2>2, <2>3, <2>4, <2>6, <2>7, <2>8 DEF r
<1>6. Len(q) < max \/ Len(q) = max
  <2>1. Len(q) \in Nat /\ Len(q) <= max
    OBVIOUS
  <2> QED BY <2>1
<1> QED BY <1>4, <1>5, <1>6

\* The frames of a lane after frame j.
Newer(p, j) == {i \in (j + 1)..Len(p) : p[i] = p[j]}

\* A lane that grows has as many newer frames after each of its frames, or more.
LEMMA NewerGrows ==
    ASSUME NEW T, NEW p \in Seq(T), NEW x \in T, NEW j \in 1..Len(p)
    PROVE  /\ IsFiniteSet(Newer(p, j)) /\ Cardinality(Newer(p, j)) \in Nat
           /\ Cardinality(Newer(Append(p, x), j)) \in Nat
           /\ Cardinality(Newer(p, j)) <= Cardinality(Newer(Append(p, x), j))
<1> DEFINE p2 == Append(p, x)
<1>1. Len(p) \in Nat /\ Len(p2) = Len(p) + 1 /\ \A i \in 1..Len(p) : p2[i] = p[i]
  OBVIOUS
<1> HIDE DEF p2
<1>2. IsFiniteSet((j + 1)..Len(p2)) /\ Newer(p2, j) \in SUBSET ((j + 1)..Len(p2))
  <2>1. j + 1 \in Int /\ Len(p2) \in Int
    BY <1>1
  <2> QED BY <2>1, FS_Interval DEF Newer
<1>3. IsFiniteSet(Newer(p2, j)) /\ Cardinality(Newer(p2, j)) \in Nat
  BY <1>2, FS_Subset, FS_CardinalityType
<1>4. Newer(p, j) \in SUBSET Newer(p2, j)
  BY <1>1 DEF Newer
<1>5. IsFiniteSet(Newer(p, j)) /\ Cardinality(Newer(p, j)) <= Cardinality(Newer(p2, j))
  BY <1>3, <1>4, FS_Subset
<1>6. Cardinality(Newer(p, j)) \in Nat
  BY <1>5, FS_CardinalityType
<1> QED BY <1>3, <1>5, <1>6 DEF p2

\* What a ring has no room for is pushed out.
LEMMA FullIsPushedOut ==
    ASSUME RingsOK, NEW j \in 1..seq, Full(ring[lanes[j]], j, KeepMax[lanes[j]])
    PROVE  Delivery!PushedOut(j)
<1> DEFINE l == lanes[j]
           q == ring[l]
           N == Newer(lanes, j)
<1>1. l \in DOMAIN KeepMax /\ seq \in Nat /\ seq = Len(lanes)
  BY DEF RingsOK
<1>2. q \in Seq(Nat) /\ Len(q) = KeepMax[l] /\ Len(q) \in Nat /\ DOMAIN q = 1..Len(q)
  BY <1>1 DEF RingsOK, Full
<1>3. \A i \in DOMAIN q : q[i] \in N
  <2>1. ASSUME NEW i \in DOMAIN q PROVE q[i] \in 1..seq /\ lanes[q[i]] = l /\ j < q[i]
    BY <1>1 DEF RingsOK, Full
  <2> QED BY <1>1, <2>1 DEF Newer
<1>4. IsFiniteSet(N) /\ Cardinality(N) \in Nat
  <2>1. PICK x : x \in DOMAIN KeepMax
    BY <1>1
  <2> QED BY <1>1, <2>1, NewerGrows DEF RingsOK
<1>5. \A i, k \in DOMAIN q : i # k => q[i] # q[k]
  <2>1. Sorted(q)
    BY <1>1 DEF RingsOK
  <2>2. \A i \in DOMAIN q : q[i] \in Nat
    BY <1>2
  <2> HIDE DEF q
  <2> QED BY <1>2, <2>1, <2>2 DEF Sorted
<1>6. Cardinality(DOMAIN q) = Len(q) /\ IsFiniteSet(DOMAIN q)
  BY <1>2, FS_Interval
<1>7. q \in [DOMAIN q -> N]
  BY <1>2, <1>3
<1>8. ~(Cardinality(N) < Cardinality(DOMAIN q))
  <2> HIDE DEF q, N
  <2> QED BY <1>4, <1>5, <1>6, <1>7, FS_PigeonHole
<1>9. Cardinality(N) >= KeepMax[l]
  <2> HIDE DEF q, N
  <2> QED BY <1>2, <1>4, <1>6, <1>8
<1>10. N = {i \in (j + 1)..Len(lanes) : lanes[i] = lanes[j]}
  BY DEF Newer
<1>11. Cardinality(N) = Delivery!Cardinality(N)
  BY DEF Cardinality, Delivery!Cardinality
<1> QED BY <1>9, <1>10, <1>11 DEF Delivery!PushedOut
\* PushedOut in terms of Newer, now and after a step.
LEMMA PushedOutIs ==
    ASSUME NEW j
    PROVE  /\ Delivery!PushedOut(j) <=> Cardinality(Newer(lanes, j)) >= KeepMax[lanes[j]]
           /\ Delivery!PushedOut(j)' <=> Cardinality(Newer(lanes', j)) >= KeepMax[lanes'[j]]
<1>1. \A S : Cardinality(S) = Delivery!Cardinality(S)
  BY DEF Cardinality, Delivery!Cardinality
<1> QED BY <1>1 DEF Delivery!PushedOut, Newer

\* A frame of lane l joins its ring and the queues of those who listen.
LEMMA PublishStep ==
    ASSUME EvInv, NEW l \in DOMAIN KeepMax, PublishData(l)
    PROVE  EvInv'
<1> DEFINE n == seq + 1
           r == Pushed(ring[l], n, KeepMax[l])
<1>1. /\ seq \in Nat /\ seq = Len(lanes) /\ lanes \in Seq(DOMAIN KeepMax)
      /\ ring \in [DOMAIN KeepMax -> Seq(Nat)] /\ KeepMax[l] \in Nat
  BY Keeps DEF EvInv, RingsOK
<1>2. /\ n \in Nat /\ seq' = n /\ live /\ lanes' = Append(lanes, l)
      /\ ring' = [ring EXCEPT ![l] = r]
      /\ wire' = [c \in Clients |-> IF conn[c] = "open" THEN Append(wire[c], n) ELSE wire[c]]
      /\ UNCHANGED <<live, conn, last, got, restarts>>
  BY <1>1 DEF PublishData
<1>3. /\ Len(lanes') = n /\ lanes' \in Seq(DOMAIN KeepMax) /\ lanes'[n] = l
      /\ \A j \in 1..seq : lanes'[j] = lanes[j]
  BY <1>1, <1>2
<1>4. \A j \in 1..seq : Delivery!PushedOut(j) => Delivery!PushedOut(j)'
  <2> SUFFICES ASSUME NEW j \in 1..seq, Delivery!PushedOut(j) PROVE Delivery!PushedOut(j)'
    OBVIOUS
  <2>1. /\ Cardinality(Newer(lanes, j)) \in Nat /\ Cardinality(Newer(lanes', j)) \in Nat
        /\ Cardinality(Newer(lanes, j)) <= Cardinality(Newer(lanes', j))
    BY <1>1, <1>2, NewerGrows
  <2>2. Cardinality(Newer(lanes, j)) >= KeepMax[lanes[j]] /\ lanes'[j] = lanes[j] /\ lanes[j] \in DOMAIN KeepMax
    BY <1>1, <1>3, PushedOutIs
  <2>3. KeepMax[lanes[j]] \in Nat
    BY <2>2, Keeps
  <2>4. Cardinality(Newer(lanes', j)) >= KeepMax[lanes'[j]]
    BY <2>1, <2>2, <2>3
  <2> QED BY <2>4, PushedOutIs
<1>5. /\ Sorted(ring[l]) /\ Len(ring[l]) <= KeepMax[l] /\ ring[l] \in Seq(Nat)
      /\ \A i \in DOMAIN ring[l] : ring[l][i] \in 1..seq /\ lanes[ring[l][i]] = l /\ ring[l][i] < n
      /\ \A j \in 1..seq : lanes[j] = l => In(ring[l], j) \/ Full(ring[l], j, KeepMax[l])
  BY <1>1 DEF EvInv, RingsOK
<1>6. /\ r \in Seq(Nat) /\ Sorted(r) /\ Len(r) <= KeepMax[l]
      /\ \A i \in DOMAIN r : r[i] = n \/ In(ring[l], r[i])
      /\ \A j \in Nat : In(ring[l], j) => In(r, j) \/ Full(r, j, KeepMax[l])
      /\ \A j \in Nat : j < n /\ Full(ring[l], j, KeepMax[l]) => Full(r, j, KeepMax[l])
      /\ In(r, n) \/ Full(r, n, KeepMax[l])
  BY <1>1, <1>2, <1>5, PushedRing
<1> HIDE DEF r
<1>7. /\ ring' \in [DOMAIN KeepMax -> Seq(Nat)] /\ ring'[l] = r
      /\ \A m \in DOMAIN KeepMax \ {l} : ring'[m] = ring[m]
  BY <1>1, <1>2, <1>6
<1>8. RingsOK'
  <2>1. ASSUME NEW m \in DOMAIN KeepMax
        PROVE  /\ Sorted(ring'[m]) /\ Len(ring'[m]) <= KeepMax[m]
               /\ \A i \in DOMAIN ring'[m] : ring'[m][i] \in 1..n /\ lanes'[ring'[m][i]] = m
               /\ \A j \in 1..n : lanes'[j] = m => In(ring'[m], j) \/ Full(ring'[m], j, KeepMax[m])
    <3>1. CASE m = l
      <4>1. \A i \in DOMAIN r : r[i] \in 1..n /\ lanes'[r[i]] = l
        BY <1>1, <1>2, <1>3, <1>5, <1>6 DEF In
      <4>2. ASSUME NEW j \in 1..n, lanes'[j] = l PROVE In(r, j) \/ Full(r, j, KeepMax[l])
        <5>1. CASE j = n
          BY <1>6, <5>1
        <5>2. CASE j # n
          <6>1. j \in 1..seq /\ j \in Nat /\ j < n
            BY <1>1, <5>2
          <6>2. In(ring[l], j) \/ Full(ring[l], j, KeepMax[l])
            BY <1>3, <1>5, <4>2, <6>1
          <6> QED BY <1>6, <6>1, <6>2
        <5> QED BY <5>1, <5>2
      <4> QED BY <1>6, <1>7, <3>1, <4>1, <4>2
    <3>2. CASE m # l
      <4>1. /\ ring'[m] = ring[m] /\ Sorted(ring[m]) /\ Len(ring[m]) <= KeepMax[m]
            /\ \A i \in DOMAIN ring[m] : ring[m][i] \in 1..seq /\ lanes[ring[m][i]] = m
            /\ \A j \in 1..seq : lanes[j] = m => In(ring[m], j) \/ Full(ring[m], j, KeepMax[m])
        BY <1>7, <3>2 DEF EvInv, RingsOK
      <4>2. \A j \in 1..n : lanes'[j] = m => j \in 1..seq
        BY <1>1, <1>3, <3>2
      <4>3. 1..seq \subseteq 1..n
        BY <1>1
      <4> QED BY <1>3, <4>1, <4>2, <4>3
    <3> QED BY <3>1, <3>2
  <2> QED BY <1>2, <1>3, <1>7, <2>1 DEF RingsOK
<1>9. ClientsOK'
  <2>1. /\ live \in BOOLEAN /\ restarts \in Nat /\ (MaxRestarts = 0 => live)
        /\ last \in [Clients -> Nat] /\ got \in [Clients -> Seq(Nat)] /\ wire \in [Clients -> Seq(Nat)]
        /\ conn \in [Clients -> {"off", "open", "dead"}]
    BY DEF EvInv, ClientsOK
  <2>2. wire' \in [Clients -> Seq(Nat)]
    BY <1>2, <2>1
  <2>3. ASSUME NEW c \in Clients
        PROVE  /\ last'[c] = Delivery!Latest(c)' /\ last'[c] <= seq'
               /\ conn'[c] = "open" =>
                    /\ live' /\ Sorted(wire'[c])
                    /\ \A i \in DOMAIN wire'[c] : wire'[c][i] \in (last'[c] + 1)..seq'
                    /\ \A j \in (last'[c] + 1)..seq' : In(wire'[c], j) \/ Delivery!PushedOut(j)'
    <3>1. /\ last[c] = Delivery!Latest(c) /\ last[c] <= seq /\ last[c] \in Nat /\ wire[c] \in Seq(Nat)
          /\ conn[c] = "open" =>
                /\ Sorted(wire[c])
                /\ \A i \in DOMAIN wire[c] : wire[c][i] \in (last[c] + 1)..seq
                /\ \A j \in (last[c] + 1)..seq : In(wire[c], j) \/ Delivery!PushedOut(j)
      BY <1>2, <2>1 DEF EvInv, ClientsOK
    <3>2. last'[c] = Delivery!Latest(c)' /\ last'[c] <= seq'
      BY <1>1, <1>2, <3>1 DEF Delivery!Latest
    <3>3. ASSUME conn[c] = "open"
          PROVE  /\ Sorted(wire'[c])
                 /\ \A i \in DOMAIN wire'[c] : wire'[c][i] \in (last[c] + 1)..n
                 /\ \A j \in (last[c] + 1)..n : In(wire'[c], j) \/ Delivery!PushedOut(j)'
      <4> DEFINE w == wire[c]
                 w2 == wire'[c]
      <4>1. /\ w2 = Append(w, n) /\ w \in Seq(Nat) /\ Len(w) \in Nat /\ Len(w2) = Len(w) + 1
            /\ DOMAIN w = 1..Len(w) /\ DOMAIN w2 = 1..(Len(w) + 1) /\ w2[Len(w) + 1] = n
            /\ \A i \in DOMAIN w : w2[i] = w[i] /\ w[i] \in (last[c] + 1)..seq
        BY <1>2, <3>1, <3>3
      <4>2. Sorted(w)
        BY <3>1, <3>3
      <4> HIDE DEF w, w2
      <4>3. \A i \in DOMAIN w : w[i] \in Nat /\ w[i] < n /\ w[i] \in (last[c] + 1)..n
        BY <1>1, <3>1, <4>1
      <4>4. Sorted(w2)
        <5> SUFFICES ASSUME NEW i \in DOMAIN w2, NEW k \in DOMAIN w2, i < k PROVE w2[i] < w2[k]
          BY DEF Sorted
        <5>1. i \in DOMAIN w /\ w2[i] = w[i]
          BY <4>1
        <5>2. CASE k = Len(w) + 1
          BY <4>1, <4>3, <5>1, <5>2
        <5>3. CASE k # Len(w) + 1
          <6>1. k \in DOMAIN w
            BY <4>1, <5>3
          <6> QED BY <4>1, <4>2, <5>1, <6>1 DEF Sorted
        <5> QED BY <5>2, <5>3
      <4>5. \A i \in DOMAIN w2 : w2[i] \in (last[c] + 1)..n
        <5> SUFFICES ASSUME NEW i \in DOMAIN w2 PROVE w2[i] \in (last[c] + 1)..n
          OBVIOUS
        <5>1. CASE i = Len(w) + 1
          BY <1>1, <3>1, <4>1, <5>1
        <5>2. CASE i # Len(w) + 1
          <6>1. i \in DOMAIN w
            BY <4>1, <5>2
          <6> QED BY <4>1, <4>3, <6>1
        <5> QED BY <5>1, <5>2
      <4>6. ASSUME NEW j \in (last[c] + 1)..n PROVE In(w2, j) \/ Delivery!PushedOut(j)'
        <5>1. CASE j = n
          BY <4>1, <5>1 DEF In
        <5>2. CASE j # n
          <6>1. j \in (last[c] + 1)..seq /\ j \in 1..seq
            BY <1>1, <3>1, <5>2
          <6>2. In(w, j) \/ Delivery!PushedOut(j)
            BY <3>1, <3>3, <6>1 DEF w
          <6>3. In(w, j) => In(w2, j)
            <7>1. \A i \in DOMAIN w : i \in DOMAIN w2
              BY <4>1
            <7> QED BY <4>1, <7>1 DEF In
          <6> QED BY <1>4, <6>1, <6>2, <6>3
        <5> QED BY <5>1, <5>2
      <4> QED BY <4>4, <4>5, <4>6 DEF w2
    <3> QED BY <1>2, <3>2, <3>3
  <2> QED BY <1>2, <2>1, <2>2, <2>3 DEF ClientsOK
<1> QED BY <1>8, <1>9 DEF EvInv

\* A stream begins with all that the rings still have for its client.
LEMMA OpenStep ==
    ASSUME EvInv, NEW c \in Clients, OpenStream(c)
    PROVE  EvInv'
<1> DEFINE keep == {n \in Buffered : n > last[c]}
           w == Ascending(keep)
<1>1. /\ live /\ conn' = [conn EXCEPT ![c] = "open"] /\ wire' = [wire EXCEPT ![c] = w]
      /\ UNCHANGED <<live, seq, ring, last, lanes, got, restarts>>
  BY DEF OpenStream, ReplayAfter
<1>2. /\ seq \in Nat /\ seq = Len(lanes) /\ lanes \in Seq(DOMAIN KeepMax) /\ ring \in [DOMAIN KeepMax -> Seq(Nat)]
      /\ last[c] \in Nat
  BY DEF EvInv, RingsOK, ClientsOK
<1>3. keep \in SUBSET (1..seq) /\ \A x \in keep : x \in (last[c] + 1)..seq
  <2> SUFFICES ASSUME NEW x \in Buffered, x > last[c] PROVE x \in 1..seq /\ x \in (last[c] + 1)..seq
    OBVIOUS
  <2>1. PICK l \in DOMAIN ring : \E i \in DOMAIN ring[l] : x = ring[l][i]
    BY DEF Buffered
  <2>2. x \in 1..seq
    BY <1>2, <2>1 DEF EvInv, RingsOK
  <2> QED BY <1>2, <2>2
<1>4. /\ w \in Seq(1..seq) /\ Sorted(w) /\ \A i \in DOMAIN w : w[i] \in keep
      /\ \A x \in keep : In(w, x)
  <2> HIDE DEF keep
  <2> QED BY <1>2, <1>3, AscendingType DEF Sorted, In
<1>5. ASSUME NEW j \in (last[c] + 1)..seq PROVE In(w, j) \/ Delivery!PushedOut(j)
  <2>1. j \in 1..seq /\ j > last[c] /\ lanes[j] \in DOMAIN KeepMax
    BY <1>2
  <2>2. CASE In(ring[lanes[j]], j)
    <3>1. j \in keep
      BY <1>2, <2>1, <2>2 DEF Buffered, In
    <3> QED BY <1>4, <3>1
  <2>3. CASE Full(ring[lanes[j]], j, KeepMax[lanes[j]])
    BY <2>1, <2>3, FullIsPushedOut DEF EvInv
  <2> QED BY <2>1, <2>2, <2>3 DEF EvInv, RingsOK
<1> HIDE DEF w
<1>6. RingsOK'
  BY <1>1 DEF EvInv, RingsOK
<1>7. w \in Seq(Nat)
  <2>1. 1..seq \subseteq Nat
    OBVIOUS
  <2> QED BY <1>4, <2>1, SeqMonotonic
<1>8. \A j : Delivery!PushedOut(j)' <=> Delivery!PushedOut(j)
  BY <1>1, PushedOutIs
<1>9. \A d \in Clients : Delivery!Latest(d)' = Delivery!Latest(d)
  BY <1>1 DEF Delivery!Latest
<1>10. ClientsOK'
  <2>1. /\ live' \in BOOLEAN /\ restarts' \in Nat /\ (MaxRestarts = 0 => live') /\ (~live' => seq' = 0)
        /\ last' \in [Clients -> Nat] /\ got' \in [Clients -> Seq(Nat)] /\ wire' \in [Clients -> Seq(Nat)]
        /\ conn' \in [Clients -> {"off", "open", "dead"}]
    BY <1>1, <1>7 DEF EvInv, ClientsOK
  <2>2. ASSUME NEW d \in Clients
        PROVE  /\ last'[d] = Delivery!Latest(d)' /\ last'[d] <= seq'
               /\ conn'[d] = "open" =>
                    /\ live' /\ Sorted(wire'[d])
                    /\ \A i \in DOMAIN wire'[d] : wire'[d][i] \in (last'[d] + 1)..seq'
                    /\ \A j \in (last'[d] + 1)..seq' : In(wire'[d], j) \/ Delivery!PushedOut(j)'
    <3>1. last'[d] = Delivery!Latest(d)' /\ last'[d] <= seq'
      BY <1>1, <1>9 DEF EvInv, ClientsOK
    <3>2. CASE d = c
      <4>1. wire'[d] = w
        BY <1>1, <3>2 DEF EvInv, ClientsOK
      <4>2. \A i \in DOMAIN w : w[i] \in (last[c] + 1)..seq
        BY <1>3, <1>4
      <4> QED BY <1>1, <1>4, <1>5, <1>8, <3>1, <3>2, <4>1, <4>2
    <3>3. CASE d # c
      <4>1. wire'[d] = wire[d] /\ conn'[d] = conn[d]
        BY <1>1, <3>3 DEF EvInv, ClientsOK
      <4> QED BY <1>1, <1>8, <3>1, <4>1 DEF EvInv, ClientsOK
    <3> QED BY <3>2, <3>3
  <2> QED BY <2>1, <2>2 DEF ClientsOK
<1> QED BY <1>6, <1>10 DEF EvInv

\* The next frame of a stream is the next one the client may be given.
LEMMA ReadStep ==
    ASSUME EvInv, NEW c \in Clients, ReadFrame(c)
    PROVE  EvInv' /\ Delivery!Deliver(c)
<1> DEFINE w == wire[c]
           x == Head(w)
           w2 == Tail(w)
<1>1. /\ conn[c] = "open" /\ w # <<>> /\ wire' = [wire EXCEPT ![c] = w2]
      /\ last' = [last EXCEPT ![c] = x] /\ got' = [got EXCEPT ![c] = Append(@, x)]
      /\ UNCHANGED <<live, seq, ring, conn, lanes, restarts>>
  BY DEF ReadFrame
<1>2. /\ seq \in Nat /\ seq = Len(lanes) /\ live
      /\ last \in [Clients -> Nat] /\ got \in [Clients -> Seq(Nat)] /\ wire \in [Clients -> Seq(Nat)]
      /\ conn \in [Clients -> {"off", "open", "dead"}]
  BY <1>1 DEF EvInv, RingsOK, ClientsOK
<1>3. /\ w \in Seq(Nat) /\ Sorted(w) /\ \A i \in DOMAIN w : w[i] \in (last[c] + 1)..seq
      /\ \A j \in (last[c] + 1)..seq : In(w, j) \/ Delivery!PushedOut(j)
      /\ last[c] = Delivery!Latest(c) /\ last[c] \in Nat /\ last[c] <= seq /\ got[c] \in Seq(Nat)
  BY <1>1, <1>2 DEF EvInv, ClientsOK
<1>4. /\ Len(w) \in Nat /\ DOMAIN w = 1..Len(w) /\ 1 \in DOMAIN w /\ x = w[1]
      /\ w2 \in Seq(Nat) /\ DOMAIN w2 = 1..(Len(w) - 1)
      /\ \A i \in DOMAIN w2 : i \in Nat /\ i + 1 \in DOMAIN w /\ 1 < i + 1 /\ w2[i] = w[i + 1]
  <2>1. /\ w2 \in Seq(Nat) /\ Len(w2) = Len(w) - 1 /\ x = w[1]
        /\ \A i \in 1..Len(w2) : w2[i] = w[i + 1]
    BY <1>1, <1>3, HeadTailProperties
  <2>2. Len(w) \in Nat \ {0} /\ DOMAIN w = 1..Len(w) /\ DOMAIN w2 = 1..Len(w2)
    BY <1>1, <1>3, <2>1
  <2> HIDE DEF w, w2, x
  <2> QED BY <2>1, <2>2
<1>5. x \in Nat /\ x \in (last[c] + 1)..seq
  BY <1>3, <1>4
<1> HIDE DEF w, w2, x
<1>6. Delivery!Deliver(c)
  <2>1. x \in (Delivery!Latest(c) + 1)..Len(lanes)
    BY <1>2, <1>3, <1>5
  <2>2. ASSUME NEW j \in (Delivery!Latest(c) + 1)..(x - 1) PROVE Delivery!PushedOut(j)
    <3>1. j \in (last[c] + 1)..seq /\ j < x
      BY <1>2, <1>3, <1>5, <2>2
    <3>2. ~In(w, j)
      <4> SUFFICES ASSUME NEW i \in DOMAIN w, w[i] = j PROVE FALSE
        BY DEF In
      <4>1. i = 1 \/ 1 < i
        BY <1>4
      <4>2. w[1] = w[i] \/ w[1] < w[i]
        BY <1>3, <1>4, <4>1 DEF Sorted
      <4> QED BY <1>2, <1>4, <1>5, <3>1, <4>2
    <3> QED BY <1>3, <3>1, <3>2
  <2> QED BY <1>1, <2>1, <2>2 DEF Delivery!Deliver
<1>7. RingsOK'
  BY <1>1 DEF EvInv, RingsOK
<1>8. \A j : Delivery!PushedOut(j)' <=> Delivery!PushedOut(j)
  BY <1>1, PushedOutIs
<1>9. Sorted(w2) /\ \A i \in DOMAIN w2 : w2[i] \in (x + 1)..seq
  <2>1. \A i, k \in DOMAIN w2 : i < k => i + 1 < k + 1
    BY <1>4
  <2>2. Sorted(w2)
    BY <1>3, <1>4, <2>1 DEF Sorted
  <2>3. ASSUME NEW i \in DOMAIN w2 PROVE w2[i] \in (x + 1)..seq
    <3>1. w[1] < w[i + 1] /\ w[i + 1] \in (last[c] + 1)..seq
      BY <1>3, <1>4 DEF Sorted
    <3> QED BY <1>2, <1>4, <1>5, <3>1
  <2> QED BY <2>2, <2>3
<1>10. ASSUME NEW j \in (x + 1)..seq PROVE In(w2, j) \/ Delivery!PushedOut(j)
  <2>1. j \in (last[c] + 1)..seq /\ j # x
    BY <1>2, <1>3, <1>5
  <2>2. ASSUME In(w, j) PROVE In(w2, j)
    <3>1. PICK i \in DOMAIN w : w[i] = j
      BY <2>2 DEF In
    <3>2. i # 1
      BY <1>4, <2>1, <3>1
    <3>3. i - 1 \in DOMAIN w2 /\ (i - 1) + 1 = i
      BY <1>4, <3>2
    <3> QED BY <1>4, <3>1, <3>3 DEF In
  <2> QED BY <1>3, <2>1, <2>2
<1>11. ClientsOK'
  <2>1. /\ live' \in BOOLEAN /\ restarts' \in Nat /\ (MaxRestarts = 0 => live') /\ (~live' => seq' = 0)
        /\ last' \in [Clients -> Nat] /\ got' \in [Clients -> Seq(Nat)] /\ wire' \in [Clients -> Seq(Nat)]
        /\ conn' \in [Clients -> {"off", "open", "dead"}]
    BY <1>1, <1>2, <1>3, <1>4, <1>5 DEF EvInv, ClientsOK
  <2>2. ASSUME NEW d \in Clients
        PROVE  /\ last'[d] = Delivery!Latest(d)' /\ last'[d] <= seq'
               /\ conn'[d] = "open" =>
                    /\ live' /\ Sorted(wire'[d])
                    /\ \A i \in DOMAIN wire'[d] : wire'[d][i] \in (last'[d] + 1)..seq'
                    /\ \A j \in (last'[d] + 1)..seq' : In(wire'[d], j) \/ Delivery!PushedOut(j)'
    <3>1. CASE d = c
      <4>1. wire'[d] = w2 /\ last'[d] = x /\ got'[d] = Append(got[c], x)
        BY <1>1, <1>2, <3>1
      <4>2. Delivery!Latest(d)' = x
        BY <1>3, <1>5, <4>1 DEF Delivery!Latest
      <4> QED BY <1>1, <1>2, <1>5, <1>8, <1>9, <1>10, <4>1, <4>2
    <3>2. CASE d # c
      <4>1. wire'[d] = wire[d] /\ last'[d] = last[d] /\ got'[d] = got[d]
        BY <1>1, <1>2, <3>2
      <4>2. Delivery!Latest(d)' = Delivery!Latest(d)
        BY <4>1 DEF Delivery!Latest
      <4> QED BY <1>1, <1>2, <1>8, <4>1, <4>2 DEF EvInv, ClientsOK
    <3> QED BY <3>1, <3>2
  <2> QED BY <2>1, <2>2 DEF ClientsOK
<1> QED BY <1>6, <1>7, <1>11 DEF EvInv

\* A client that is off or gives up.
LEMMA OffStep ==
    ASSUME EvInv, NEW c \in Clients, StreamNotFound(c) \/ ReconnectFails(c) \/ LoseStream(c)
    PROVE  EvInv' /\ UNCHANGED <<lanes, got>>
<1>1. PICK x \in {"off", "dead"} : conn' = [conn EXCEPT ![c] = x]
  BY DEF StreamNotFound, ReconnectFails, LoseStream
<1>2. /\ wire' = wire \/ wire' = [wire EXCEPT ![c] = <<>>]
      /\ UNCHANGED <<live, seq, ring, last, lanes, got, restarts>>
  BY DEF StreamNotFound, ReconnectFails, LoseStream
<1>3. RingsOK'
  BY <1>2 DEF EvInv, RingsOK
<1>4. \A j : Delivery!PushedOut(j)' <=> Delivery!PushedOut(j)
  BY <1>2, PushedOutIs
<1>5. \A d \in Clients : Delivery!Latest(d)' = Delivery!Latest(d)
  BY <1>2 DEF Delivery!Latest
<1>6. /\ conn' \in [Clients -> {"off", "open", "dead"}] /\ wire' \in [Clients -> Seq(Nat)]
      /\ \A d \in Clients : conn'[d] = "open" => conn[d] = "open" /\ wire'[d] = wire[d]
  <2>1. conn \in [Clients -> {"off", "open", "dead"}] /\ wire \in [Clients -> Seq(Nat)]
    BY DEF EvInv, ClientsOK
  <2>2. conn' \in [Clients -> {"off", "open", "dead"}] /\ conn'[c] # "open"
    BY <1>1, <2>1
  <2>3. wire' \in [Clients -> Seq(Nat)] /\ \A d \in Clients \ {c} : wire'[d] = wire[d] /\ conn'[d] = conn[d]
    <3>1. CASE wire' = wire
      BY <1>1, <2>1, <3>1
    <3>2. CASE wire' = [wire EXCEPT ![c] = <<>>]
      BY <1>1, <2>1, <3>2
    <3> QED BY <1>2, <3>1, <3>2
  <2> QED BY <2>2, <2>3
<1>7. ClientsOK'
  BY <1>2, <1>4, <1>5, <1>6 DEF EvInv, ClientsOK
<1> QED BY <1>2, <1>3, <1>7 DEF EvInv

\* A client that joins again knows nothing; if it creates the session again,
\* it is the only one.
LEMMA ResumeStep ==
    ASSUME EvInv, MaxRestarts = 0 \/ \A d, e \in Clients : d = e, NEW c \in Clients, ResumeSession(c)
    PROVE  EvInv' /\ Delivery!Rejoin(c)
<1>1. /\ conn[c] = "dead" /\ live' = TRUE /\ conn' = [conn EXCEPT ![c] = "off"]
      /\ last' = [last EXCEPT ![c] = 0] /\ got' = [got EXCEPT ![c] = <<>>]
      /\ UNCHANGED <<seq, ring, wire, lanes, restarts>>
  BY DEF ResumeSession
<1>2. RingsOK'
  BY <1>1 DEF EvInv, RingsOK
<1>3. \A j : Delivery!PushedOut(j)' <=> Delivery!PushedOut(j)
  BY <1>1, PushedOutIs
<1>4. seq \in Nat /\ last' \in [Clients -> Nat] /\ got' \in [Clients -> Seq(Nat)]
      /\ conn' \in [Clients -> {"off", "open", "dead"}]
  BY <1>1 DEF EvInv, RingsOK, ClientsOK
<1>5. ASSUME NEW d \in Clients
      PROVE  /\ last'[d] = Delivery!Latest(d)' /\ last'[d] <= seq'
             /\ conn'[d] = "open" =>
                    /\ live' /\ Sorted(wire'[d])
                    /\ \A i \in DOMAIN wire'[d] : wire'[d][i] \in (last'[d] + 1)..seq'
                    /\ \A j \in (last'[d] + 1)..seq' : In(wire'[d], j) \/ Delivery!PushedOut(j)'
  <2>1. CASE d = c
    <3>1. last'[d] = 0 /\ got'[d] = <<>> /\ conn'[d] = "off"
      BY <1>1, <2>1 DEF EvInv, ClientsOK
    <3> QED BY <1>1, <1>4, <3>1 DEF Delivery!Latest
  <2>2. CASE d # c
    <3>1. live /\ last'[d] = last[d] /\ got'[d] = got[d] /\ conn'[d] = conn[d]
      BY <1>1, <2>2 DEF EvInv, ClientsOK
    <3>2. Delivery!Latest(d)' = Delivery!Latest(d)
      BY <3>1 DEF Delivery!Latest
    <3> QED BY <1>1, <1>3, <3>1, <3>2 DEF EvInv, ClientsOK
  <2> QED BY <2>1, <2>2
<1>6. ClientsOK'
  BY <1>1, <1>4, <1>5 DEF EvInv, ClientsOK
<1>7. Delivery!Rejoin(c)
  BY <1>1 DEF Delivery!Rejoin
<1> QED BY <1>2, <1>6, <1>7 DEF EvInv

\* A new process has published nothing and no client has its stream.
LEMMA RestartStep ==
    ASSUME EvInv, GatewayRestart
    PROVE  EvInv' /\ Delivery!Forget
<1>1. /\ restarts < MaxRestarts /\ restarts' = restarts + 1 /\ live' = FALSE /\ seq' = 0
      /\ ring' = [l \in DOMAIN KeepMax |-> <<>>] /\ lanes' = <<>>
      /\ conn' = [c \in Clients |-> IF conn[c] = "open" THEN "off" ELSE conn[c]]
      /\ wire' = [c \in Clients |-> <<>>] /\ got' = [c \in Clients |-> <<>>]
      /\ UNCHANGED last
  BY DEF GatewayRestart
<1>2. restarts \in Nat /\ last \in [Clients -> Nat] /\ conn \in [Clients -> {"off", "open", "dead"}]
  BY DEF EvInv, ClientsOK
<1>3. RingsOK'
  BY <1>1, Keeps DEF RingsOK, Sorted
<1>4. /\ restarts' \in Nat /\ MaxRestarts # 0 /\ got' \in [Clients -> Seq(Nat)] /\ wire' \in [Clients -> Seq(Nat)]
      /\ conn' \in [Clients -> {"off", "open", "dead"}] /\ \A c \in Clients : conn'[c] # "open"
  BY <1>1, <1>2
<1>5. ClientsOK'
  BY <1>1, <1>2, <1>4 DEF ClientsOK
<1> QED BY <1>1, <1>3, <1>5 DEF EvInv, Delivery!Forget

\* Every ring and every client start with nothing.
LEMMA InitStream == EvInit => EvInv /\ Delivery!DeliveryInit
<1> SUFFICES ASSUME EvInit PROVE EvInv /\ Delivery!DeliveryInit
  OBVIOUS
<1>1. RingsOK
  BY Keeps DEF EvInit, RingsOK, Sorted
<1>2. ClientsOK
  BY DEF EvInit, ClientsOK, Delivery!Latest
<1> QED BY <1>1, <1>2 DEF EvInit, EvInv, Delivery!DeliveryInit

\* Every step of the stream is one of the abstract delivery, or stutters.
LEMMA StreamStep ==
    ASSUME EvInv, MaxRestarts = 0 \/ \A d, e \in Clients : d = e, [EvNext]_evVars
    PROVE  EvInv' /\ [Delivery!DeliveryNext]_<<lanes, got>>
<1>1. CASE UNCHANGED evVars
  <2>1. UNCHANGED <<live, seq, ring, conn, wire, last, lanes, got, restarts>>
    BY <1>1 DEF evVars
  <2>2. \A j : Delivery!PushedOut(j)' <=> Delivery!PushedOut(j)
    BY <2>1, PushedOutIs
  <2>3. \A d \in Clients : Delivery!Latest(d)' = Delivery!Latest(d)
    BY <2>1 DEF Delivery!Latest
  <2>4. RingsOK' /\ ClientsOK'
    BY <2>1, <2>2, <2>3 DEF EvInv, RingsOK, ClientsOK
  <2> QED BY <2>1, <2>4 DEF EvInv
<1>2. ASSUME NEW l \in DOMAIN KeepMax, PublishData(l)
      PROVE  EvInv' /\ Delivery!DeliveryNext
  <2>1. Delivery!Emit(l)
    BY <1>2 DEF PublishData, Delivery!Emit
  <2> QED BY <1>2, <2>1, PublishStep DEF Delivery!DeliveryNext, Delivery!Lanes
<1>3. ASSUME NEW c \in Clients, OpenStream(c)
      PROVE  EvInv' /\ UNCHANGED <<lanes, got>>
  BY <1>3, OpenStep DEF OpenStream
<1>4. ASSUME NEW c \in Clients, StreamNotFound(c) \/ ReconnectFails(c) \/ LoseStream(c)
      PROVE  EvInv' /\ UNCHANGED <<lanes, got>>
  BY <1>4, OffStep
<1>5. ASSUME NEW c \in Clients, ReadFrame(c) PROVE EvInv' /\ Delivery!DeliveryNext
  BY <1>5, ReadStep DEF Delivery!DeliveryNext
<1>6. ASSUME NEW c \in Clients, ResumeSession(c) PROVE EvInv' /\ Delivery!DeliveryNext
  BY <1>6, ResumeStep DEF Delivery!DeliveryNext
<1>7. CASE GatewayRestart
  BY <1>7, RestartStep DEF Delivery!DeliveryNext
<1> QED BY <1>1, <1>2, <1>3, <1>4, <1>5, <1>6, <1>7 DEF EvNext

\* The bus, the route and the reconnect loop together deliver what
\* EventDelivery promises, for rings of any size and any number of clients; if
\* the gateway restarts, for one client.
THEOREM DeliveryRefinement ==
    ASSUME MaxRestarts = 0 \/ \A c, d \in Clients : c = d
    PROVE  GatewaySpec => ImplementsDelivery
<1>1. GatewayInit => EvInv /\ Delivery!DeliveryInit
  BY InitStream DEF GatewayInit
<1>2. [GatewayNext]_gatewayVars => [EvNext]_evVars
  BY DEF GatewayNext, gatewayVars
<1>3. EvInv /\ [GatewayNext]_gatewayVars => EvInv' /\ [Delivery!DeliveryNext]_<<lanes, got>>
  BY <1>2, StreamStep
<1> QED BY <1>1, <1>3, PTL DEF GatewaySpec, ImplementsDelivery, Delivery!DeliverySpec, Delivery!deliveryVars

-----------------------------------------------------------------------------
(* The background verifier (Verifier).  A verdict in the mailbox belongs to   *)
(* an episode of its request, the jobs of a request are one per checkpoint,   *)
(* and the books count them.                                                  *)

Epochs == UNION {[S -> Nat] : S \in SUBSET Signals}
Jobs == [r : Reqs, turn : Nat, st : {"wait", "run", "cancelled"}, queued : BOOLEAN, prev : Nat,
         epochs : Epochs]
Verdicts == [id : Reqs \X Nat, r : Reqs, turn : Nat, sev : {"none", "nudge", "replan"},
             epochs : Epochs]

JobsOf(r) == {j \in jobs : j.r = r}

VfTypes ==
    /\ req \in 0..MaxRequests /\ at \in {"idle", "run", "tail"} /\ inner \in Nat /\ emitted \in BOOLEAN
    /\ current \in 0..req /\ (at # "idle" => current = req /\ req # 0)
    /\ pend \in [Reqs -> Nat] /\ charged \in [Reqs -> Nat] /\ landed \in [Reqs -> Nat]
    /\ lastTurn \in [Reqs -> Nat] /\ jobs \in SUBSET Jobs /\ IsFiniteSet(jobs)
    /\ ready \in Seq(Verdicts) /\ draining \in Seq(Verdicts)
    /\ replan \in Verdicts \union {NoEpisode} /\ lastVerdict \in Verdicts \union {NoEpisode}
    /\ episode \in Episodes \union {NoEpisode} /\ replans \in Seq(Reqs \X Nat)

VerdictOK(v) == v.r \in 1..req /\ v.id = <<v.r, v.turn>> /\ (v.r = req => v.turn <= inner)

MayNudge(r) == at # "idle" /\ r = req => Of(episode, req)

JobsOK ==
    /\ \A j \in jobs : /\ j.r \in 1..req /\ j.turn \in Nat /\ MayNudge(j.r)
                       /\ j.r = req => j.turn <= inner /\ (j.turn = inner => emitted)
    /\ \A j, k \in jobs : j.r = k.r /\ j.turn = k.turn => j = k

BooksOK ==
    /\ BudgetExact /\ PendingExact
    /\ \A r \in Reqs : r > req => pend[r] = 0

VerdictsOK ==
    /\ \A i \in DOMAIN ready : VerdictOK(ready[i]) /\ MayNudge(ready[i].r)
    /\ \A i \in DOMAIN draining : VerdictOK(draining[i]) /\ draining[i].r = req /\ MayNudge(req)
    /\ at = "idle" => draining = <<>>
    /\ lastVerdict # NoEpisode => VerdictOK(lastVerdict)

NudgeOK ==
    nudge # NoEpisode =>
        /\ nudge.r \in 1..req /\ nudge.epochs = nudge.judged
        /\ at # "idle" /\ nudge.r = req =>
              /\ Of(episode, req) /\ DOMAIN nudge.epochs # {}
              /\ \A s \in DOMAIN nudge.epochs : s \in episode.signals /\ nudge.judged[s] = episode.epochs[s]

ReplansOK ==
    /\ \A i \in DOMAIN replans : replans[i] \in armed /\ replans[i][1] <= req
    /\ \A i, k \in DOMAIN replans : replans[i] = replans[k] => i = k
    /\ replan # NoEpisode => /\ VerdictOK(replan) /\ replan.id \in armed
                             /\ \A i \in DOMAIN replans : replans[i] # replan.id

VfInv == VfTypes /\ JobsOK /\ BooksOK /\ VerdictsOK /\ NudgeOK /\ ReplansOK

\* A one-to-one correspondence keeps the number of elements.
LEMMA SameCount ==
    ASSUME NEW S, NEW T, IsFiniteSet(S), NEW f \in [S -> T],
           \A x, y \in S : f[x] = f[y] => x = y, \A t \in T : \E x \in S : f[x] = t
    PROVE  IsFiniteSet(T) /\ Cardinality(T) = Cardinality(S)
<1>1. f \in Bijection(S, T)
  BY DEF Bijection, Injection, Surjection, IsInjective
<1>2. ExistsBijection(S, T)
  BY <1>1 DEF ExistsBijection
<1> QED BY <1>2, FS_Bijection

\* The jobs of a request are finitely many.
LEMMA JobsFinite ==
    ASSUME IsFiniteSet(jobs), NEW r
    PROVE  IsFiniteSet(JobsOf(r)) /\ Cardinality(JobsOf(r)) \in Nat
<1>1. JobsOf(r) \in SUBSET jobs
  BY DEF JobsOf
<1> QED BY <1>1, FS_Subset, FS_CardinalityType

\* What the invariant says of the jobs of one request.
LEMMA Books ==
    ASSUME VfInv, NEW r \in Reqs
    PROVE  /\ charged[r] = landed[r] + Cardinality(JobsOf(r)) /\ Cardinality(JobsOf(r)) \in Nat
           /\ at # "idle" => pend[req] = Cardinality(JobsOf(req))
<1>1. IsFiniteSet(JobsOf(r)) /\ Cardinality(JobsOf(r)) \in Nat
  BY JobsFinite DEF VfInv, VfTypes
<1> QED BY <1>1 DEF VfInv, BooksOK, BudgetExact, PendingExact, JobsOf

\* The books are read off the jobs.
LEMMA BooksFrom ==
    ASSUME \A r \in Reqs : charged[r] = landed[r] + Cardinality(JobsOf(r)),
           at # "idle" => pend[req] = Cardinality(JobsOf(req)),
           \A r \in Reqs : r > req => pend[r] = 0
    PROVE  BooksOK
BY DEF BooksOK, BudgetExact, PendingExact, JobsOf

\* A verifier that has seen nothing satisfies the invariant.
LEMMA VfInitInv == VfInit => VfInv
<1> SUFFICES ASSUME VfInit PROVE VfInv
  OBVIOUS
<1>1. MaxRequests \in Nat
  BY VerifierAssumption
<1>2. IsFiniteSet(jobs) /\ Cardinality({}) = 0
  BY FS_EmptySet DEF VfInit
<1>3. VfTypes
  <2>1. /\ req \in 0..MaxRequests /\ current \in 0..req
        /\ pend \in [Reqs -> Nat] /\ charged \in [Reqs -> Nat] /\ landed \in [Reqs -> Nat]
        /\ lastTurn \in [Reqs -> Nat]
    BY <1>1 DEF VfInit
  <2>2. ready \in Seq(Verdicts) /\ draining \in Seq(Verdicts) /\ replans \in Seq(Reqs \X Nat)
    BY DEF VfInit
  <2> QED BY <1>2, <2>1, <2>2 DEF VfInit, VfTypes
<1>4. JobsOK /\ VerdictsOK /\ NudgeOK /\ ReplansOK
  BY DEF VfInit, JobsOK, VerdictsOK, NudgeOK, ReplansOK
<1>5. BooksOK
  <2>1. \A r : {j \in jobs : j.r = r} = {}
    BY DEF VfInit
  <2> QED BY <1>2, <2>1 DEF VfInit, BooksOK, BudgetExact, PendingExact
<1> QED BY <1>3, <1>4, <1>5 DEF VfInv

\* The invariant is what the run checks.
LEMMA VfInvSafe == VfInv => VerdictsSafe
<1> SUFFICES ASSUME VfInv PROVE VerdictsSafe
  OBVIOUS
<1> USE DEF VfInv
<1>1. NudgeIsLive
  BY DEF NudgeOK, NudgeIsLive, Of
<1>2. BudgetExact /\ PendingExact
  BY DEF BooksOK
<1>3. ReplanOnce
  BY DEF ReplansOK, ReplanOnce
<1>4. RequestsApart
  BY DEF VfTypes, VerdictsOK, ReplansOK, RequestsApart, VerdictOK, Of
<1> QED BY <1>1, <1>2, <1>3, <1>4 DEF VerdictsSafe

-----------------------------------------------------------------------------
\* The next request starts with nothing of its own.
LEMMA OpenInv ==
    ASSUME VfInv, OpenRequest
    PROVE  VfInv'
<1>1. /\ MaxRequests \in Nat /\ req \in 0..MaxRequests /\ req < MaxRequests
      /\ req' = req + 1 /\ current' = req + 1 /\ at = "idle" /\ at' = "run" /\ inner' = 0
      /\ UNCHANGED <<emitted, episode, nudge, replan, ready, lastVerdict, pend, armed, draining, jobs,
                     charged, lastTurn, landed, replans>>
  BY VerifierAssumption DEF VfInv, VfTypes, OpenRequest
<1>2. VfTypes'
  BY <1>1 DEF VfInv, VfTypes
<1>3. \A r \in 1..req : r \in 1..req' /\ r # req'
  BY <1>1
<1>4. JobsOK'
  BY <1>1, <1>3 DEF VfInv, JobsOK, MayNudge
<1>5. BooksOK'
  <2>1. {j \in jobs : j.r = req + 1} = {}
    BY <1>1, <1>3 DEF VfInv, JobsOK
  <2>2. pend[req + 1] = 0 /\ \A r \in Reqs : r > req + 1 => pend[r] = 0
    BY <1>1 DEF VfInv, BooksOK, Reqs
  <2>3. BudgetExact'
    BY <1>1 DEF VfInv, BooksOK, BudgetExact
  <2> QED BY <1>1, <2>1, <2>2, <2>3, FS_EmptySet DEF BooksOK, PendingExact
<1>6. VerdictsOK'
  BY <1>1, <1>3 DEF VfInv, VerdictsOK, VerdictOK, MayNudge
<1>7. NudgeOK'
  BY <1>1, <1>3 DEF VfInv, NudgeOK
<1>8. ReplansOK'
  <2>1. replan # NoEpisode => VerdictOK(replan)'
    BY <1>1, <1>3 DEF VfInv, ReplansOK, VerdictOK
  <2>2. \A i \in DOMAIN replans : replans[i][1] \in Nat
    <3>1. \A i \in DOMAIN replans : replans[i] \in Reqs \X Nat
      BY DEF VfInv, VfTypes
    <3>2. \A p \in Reqs \X Nat : p[1] \in Nat
      BY DEF Reqs
    <3> QED BY <3>1, <3>2
  <2> QED BY <1>1, <2>1, <2>2 DEF VfInv, ReplansOK
<1> QED BY <1>2, <1>4, <1>5, <1>6, <1>7, <1>8 DEF VfInv

\* A step that leaves the jobs and the books alone keeps them.
LEMMA JobsKept ==
    ASSUME VfInv, UNCHANGED <<req, inner, emitted, episode, jobs>>, at' # "idle" => at # "idle"
    PROVE  JobsOK'
BY DEF VfInv, JobsOK, MayNudge, Of

\* The list comprehensions of the mailbox split what is ready.
LEMMA ReadySplit ==
    ASSUME VfInv, NEW keep \in SUBSET DOMAIN ready
    PROVE  /\ Sublist(ready, keep) \in Seq(Verdicts)
           /\ \A k \in DOMAIN Sublist(ready, keep) : \E i \in keep : Sublist(ready, keep)[k] = ready[i]
<1>1. ready \in Seq(Verdicts)
  BY DEF VfInv, VfTypes
<1> QED BY <1>1, SublistType, SublistElements

\* take_ready takes the verdicts of the open request.
LEMMA TakeReadyInv ==
    ASSUME VfInv, Drain
    PROVE  VfInv'
<1>1. /\ draining' = Sublist(ready, ReadyOf(req)) /\ ready' = Sublist(ready, DOMAIN ready \ ReadyOf(req))
      /\ at # "idle"
      /\ UNCHANGED <<req, at, inner, emitted, current, episode, nudge, replan, lastVerdict, pend, armed,
                     jobs, charged, lastTurn, landed, replans>>
  BY DEF Drain
<1>2. /\ draining' \in Seq(Verdicts) /\ ready' \in Seq(Verdicts)
      /\ \A k \in DOMAIN draining' : \E i \in ReadyOf(req) : draining'[k] = ready[i]
      /\ \A k \in DOMAIN ready' : \E i \in DOMAIN ready : ready'[k] = ready[i]
  <2>1. ReadyOf(req) \in SUBSET DOMAIN ready /\ DOMAIN ready \ ReadyOf(req) \in SUBSET DOMAIN ready
    BY DEF ReadyOf
  <2> QED BY <1>1, <2>1, ReadySplit
<1>3. VfTypes'
  BY <1>1, <1>2 DEF VfInv, VfTypes
<1>4. JobsOK'
  BY <1>1, JobsKept
<1>5. BooksOK'
  BY <1>1 DEF VfInv, BooksOK, BudgetExact, PendingExact
<1>6. VerdictsOK'
  BY <1>1, <1>2 DEF VfInv, VerdictsOK, VerdictOK, MayNudge, Of, ReadyOf
<1>7. NudgeOK' /\ ReplansOK'
  BY <1>1 DEF VfInv, NudgeOK, ReplansOK, VerdictOK, Of
<1> QED BY <1>3, <1>4, <1>5, <1>6, <1>7 DEF VfInv

\* The turn ends with its verdicts.
LEMMA TurnEndsInv ==
    ASSUME VfInv, TurnEnds
    PROVE  VfInv'
<1>1. /\ at' = "tail" /\ at = "run"
      /\ UNCHANGED <<req, inner, emitted, current, episode, nudge, replan, ready, lastVerdict, pend, armed,
                     draining, jobs, charged, lastTurn, landed, replans>>
  BY DEF TurnEnds
<1>3. VfTypes' /\ JobsOK'
  BY <1>1, JobsKept DEF VfInv, VfTypes
<1>4. BooksOK' /\ VerdictsOK'
  BY <1>1 DEF VfInv, BooksOK, BudgetExact, PendingExact, VerdictsOK, VerdictOK, MayNudge, Of
<1>5. NudgeOK' /\ ReplansOK'
  BY <1>1 DEF VfInv, NudgeOK, ReplansOK, VerdictOK, Of
<1> QED BY <1>3, <1>4, <1>5 DEF VfInv

\* A tail that is cut off leaves its verdicts to nobody.
LEMMA TailCancelledInv ==
    ASSUME VfInv, TailCancelled
    PROVE  VfInv'
<1>1. /\ at' = "idle" /\ draining' = <<>> /\ at = "tail"
      /\ UNCHANGED <<req, inner, emitted, current, episode, nudge, replan, ready, lastVerdict, pend, armed,
                     jobs, charged, lastTurn, landed, replans>>
  BY DEF TailCancelled
<1>3. VfTypes' /\ JobsOK'
  BY <1>1, JobsKept DEF VfInv, VfTypes
<1>4. BooksOK' /\ VerdictsOK'
  BY <1>1 DEF VfInv, BooksOK, BudgetExact, PendingExact, VerdictsOK, VerdictOK, MayNudge
<1>5. NudgeOK' /\ ReplansOK'
  BY <1>1 DEF VfInv, NudgeOK, ReplansOK, VerdictOK, Of
<1> QED BY <1>3, <1>4, <1>5 DEF VfInv

\* clear_request forgets what the request left.
LEMMA ClearInv ==
    ASSUME VfInv, ClearRequest
    PROVE  VfInv'
<1>1. /\ at = "tail" /\ draining = <<>> /\ at' = "idle" /\ current' \in {0, current}
      /\ ready' = Sublist(ready, DOMAIN ready \ ReadyOf(req))
      /\ pend' = [pend EXCEPT ![req] = 0]
      /\ lastVerdict' \in {lastVerdict, NoEpisode} /\ nudge' \in {nudge, NoEpisode}
      /\ episode' \in {episode, NoEpisode} /\ replan' \in {replan, NoEpisode}
      /\ UNCHANGED <<req, inner, emitted, armed, draining, jobs, charged, lastTurn, landed, replans>>
  BY DEF ClearRequest, Without
<1>2. /\ ready' \in Seq(Verdicts)
      /\ \A k \in DOMAIN ready' : \E i \in DOMAIN ready : ready'[k] = ready[i]
  <2>1. DOMAIN ready \ ReadyOf(req) \in SUBSET DOMAIN ready
    OBVIOUS
  <2> QED BY <1>1, <2>1, ReadySplit
<1>3. VfTypes'
  <2>1. current' \in 0..req' /\ pend' \in [Reqs -> Nat]
    <3>1. req \in 0..MaxRequests /\ current \in 0..req /\ MaxRequests \in Nat
      BY VerifierAssumption DEF VfInv, VfTypes
    <3>2. current' \in 0..req'
      BY <1>1, <3>1
    <3>3. pend' \in [Reqs -> Nat]
      BY <1>1 DEF VfInv, VfTypes
    <3> QED BY <3>2, <3>3
  <2>2. /\ episode' \in Episodes \union {NoEpisode} /\ replan' \in Verdicts \union {NoEpisode}
        /\ lastVerdict' \in Verdicts \union {NoEpisode}
    BY <1>1 DEF VfInv, VfTypes
  <2> QED BY <1>1, <1>2, <2>1, <2>2 DEF VfInv, VfTypes
<1>4. JobsOK'
  BY <1>1 DEF VfInv, JobsOK, MayNudge
<1>5. BooksOK'
  BY <1>1 DEF VfInv, VfTypes, BooksOK, BudgetExact, PendingExact
<1>6. VerdictsOK'
  <2>1. \A k \in DOMAIN ready' : VerdictOK(ready[k])'
    <3> SUFFICES ASSUME NEW k \in DOMAIN ready' PROVE VerdictOK(ready[k])'
      OBVIOUS
    <3>1. PICK i \in DOMAIN ready : ready'[k] = ready[i]
      BY <1>2
    <3>2. VerdictOK(ready[i])
      BY DEF VfInv, VerdictsOK
    <3> QED BY <1>1, <3>1, <3>2 DEF VerdictOK
  <2>2. lastVerdict' # NoEpisode => VerdictOK(lastVerdict)'
    BY <1>1 DEF VfInv, VerdictsOK, VerdictOK
  <2>3. draining' = <<>> /\ DOMAIN draining' = {}
    BY <1>1
  <2>4. \A i \in DOMAIN ready' : MayNudge(ready[i].r)'
    BY <1>1 DEF MayNudge
  <2> QED BY <2>1, <2>2, <2>3, <2>4 DEF VerdictsOK
<1>7. NudgeOK' /\ ReplansOK'
  BY <1>1 DEF VfInv, NudgeOK, ReplansOK, VerdictOK
<1> QED BY <1>3, <1>4, <1>5, <1>6, <1>7 DEF VfInv

\* The next provider call takes a replan once.
LEMMA ProviderCallInv ==
    ASSUME VfInv, ProviderCall
    PROVE  VfInv'
<1>1. /\ at = "run" /\ draining = <<>> /\ inner' = inner + 1 /\ emitted' = FALSE /\ replan' = NoEpisode
      /\ replans' = IF Of(replan, req) THEN Append(replans, replan.id) ELSE replans
      /\ UNCHANGED <<req, at, current, episode, nudge, ready, lastVerdict, pend, armed, draining, jobs,
                     charged, lastTurn, landed>>
  BY DEF ProviderCall
<1>2. inner \in Nat /\ inner' \in Nat /\ inner' > inner /\ \A n \in Nat : n <= inner => n <= inner' /\ n # inner'
  BY <1>1 DEF VfInv, VfTypes
<1>3. replans \in Seq(Reqs \X Nat) /\ (Of(replan, req) => replan \in Verdicts /\ replan.id \in Reqs \X Nat)
  BY DEF VfInv, VfTypes, Of, Verdicts
<1>4. VfTypes'
  <2>1. replans' \in Seq(Reqs \X Nat)
    BY <1>1, <1>3
  <2>2. replan' \in Verdicts \union {NoEpisode}
    BY <1>1
  <2> QED BY <1>1, <1>2, <2>1, <2>2 DEF VfInv, VfTypes
<1>5. JobsOK'
  BY <1>1, <1>2 DEF VfInv, JobsOK, MayNudge, Of
<1>6. BooksOK'
  BY <1>1 DEF VfInv, BooksOK, BudgetExact, PendingExact
<1>7. VerdictsOK'
  <2>1. ASSUME NEW v \in Verdicts, VerdictOK(v)
        PROVE  v.r \in 1..req' /\ v.id = <<v.r, v.turn>> /\ (v.r = req' => v.turn <= inner')
    BY <1>1, <1>2, <2>1 DEF VerdictOK, Verdicts
  <2>2. /\ \A i \in DOMAIN ready : ready[i] \in Verdicts
        /\ lastVerdict # NoEpisode => lastVerdict \in Verdicts
    BY DEF VfInv, VfTypes
  <2>3. \A i \in DOMAIN ready : VerdictOK(ready[i])'
    <3>1. \A i \in DOMAIN ready : ready[i] \in Verdicts /\ VerdictOK(ready[i])
      BY <2>2 DEF VfInv, VerdictsOK
    <3> QED BY <1>1, <2>1, <3>1 DEF VerdictOK
  <2>4. lastVerdict # NoEpisode => VerdictOK(lastVerdict)'
    <3>1. lastVerdict # NoEpisode => VerdictOK(lastVerdict)
      BY DEF VfInv, VerdictsOK
    <3> QED BY <1>1, <2>1, <2>2, <3>1 DEF VerdictOK
  <2> QED BY <1>1, <2>3, <2>4 DEF VfInv, VerdictsOK, MayNudge, Of, VerdictOK
<1>8. NudgeOK'
  BY <1>1 DEF VfInv, NudgeOK, Of
<1>9. ReplansOK'
  <2>1. CASE ~Of(replan, req)
    BY <1>1, <2>1 DEF VfInv, ReplansOK
  <2>2. CASE Of(replan, req)
    <3>1. /\ replans' = Append(replans, replan.id) /\ replan.id \in armed /\ replan.id[1] <= req
          /\ \A i \in DOMAIN replans : replans[i] # replan.id
      BY <1>1, <1>3, <2>2 DEF VfInv, VfTypes, ReplansOK, VerdictOK, Of
    <3>2. /\ DOMAIN replans = 1..Len(replans) /\ DOMAIN replans' = 1..(Len(replans) + 1)
          /\ Len(replans) \in Nat
          /\ \A i \in DOMAIN replans' : replans'[i] = IF i = Len(replans) + 1 THEN replan.id ELSE replans[i]
      BY <1>3, <2>2, <3>1
    <3>3. \A i \in DOMAIN replans' : i = Len(replans) + 1 \/ i \in DOMAIN replans
      BY <3>2
    <3> QED BY <1>1, <3>1, <3>2, <3>3 DEF VfInv, ReplansOK
  <2> QED BY <2>1, <2>2
<1> QED BY <1>4, <1>5, <1>6, <1>7, <1>8, <1>9 DEF VfInv

-----------------------------------------------------------------------------
\* Arming a verdict that may nudge keeps the nudge live and a replan single.
LEMMA Armed ==
    ASSUME VfInv, NEW v \in Verdicts, VerdictOK(v), MayNudge(v.r), NEW newest, ArmEscalation(v, newest),
           UNCHANGED <<req, at, inner, current, episode, replans>>
    PROVE  NudgeOK' /\ ReplansOK' /\ replan' \in Verdicts \union {NoEpisode}
<1>1. CASE nudge' = ActivateNudge(v) /\ UNCHANGED <<replan, armed>>
  <2>1. ReplansOK' /\ replan' \in Verdicts \union {NoEpisode}
    BY <1>1 DEF VfInv, VfTypes, ReplansOK, VerdictOK
  <2>2. CASE nudge' = nudge
    BY <2>1, <2>2 DEF VfInv, NudgeOK, Of
  <2>3. CASE nudge' # nudge
    <3> DEFINE incoming == Fenced(episode, v)
               before == IF Of(nudge, v.r) THEN DOMAIN nudge.epochs ELSE {}
    <3>1. /\ incoming # {}
          /\ nudge' = [r |-> v.r,
                       epochs |-> [s \in before \union incoming |->
                                      IF s \in incoming THEN episode.epochs[s] ELSE nudge.epochs[s]],
                       judged |-> [s \in before \union incoming |->
                                      IF s \in incoming THEN v.epochs[s] ELSE nudge.judged[s]]]
      BY <1>1, <2>3 DEF ActivateNudge
    <3>2. \A s \in incoming : s \in episode.signals /\ v.epochs[s] = episode.epochs[s]
      BY DEF Fenced
    <3>3. \A s \in before : Of(nudge, v.r) /\ s \in DOMAIN nudge.epochs /\ nudge.epochs = nudge.judged
      BY DEF VfInv, NudgeOK, Of
    <3> HIDE DEF incoming, before
    <3>4. nudge'.r = v.r /\ DOMAIN nudge'.epochs = before \union incoming
      BY <3>1
    <3>5. nudge'.epochs = nudge'.judged
      BY <3>1, <3>2, <3>3
    <3>6. ASSUME at # "idle", v.r = req
          PROVE  /\ Of(episode, req)
                 /\ \A s \in before \union incoming :
                       s \in episode.signals /\ nudge'.judged[s] = episode.epochs[s]
      <4>1. Of(episode, req)
        BY <3>6 DEF MayNudge
      <4>2. \A s \in before : s \in episode.signals /\ nudge.judged[s] = episode.epochs[s]
        BY <3>3, <3>6 DEF VfInv, NudgeOK, Of
      <4> QED BY <3>1, <3>2, <4>1, <4>2
    <3>7. v.r \in 1..req
      BY DEF VerdictOK
    <3> QED BY <2>1, <3>1, <3>4, <3>5, <3>6, <3>7 DEF NudgeOK, Of
  <2> QED BY <2>2, <2>3
<1>2. CASE v.id \notin armed /\ replan' = v /\ armed' = armed \union {v.id} /\ UNCHANGED nudge
  <2>1. NudgeOK'
    BY <1>2 DEF VfInv, NudgeOK, Of
  <2>2. \A i \in DOMAIN replans : replans[i] \in armed' /\ replans[i] # v.id
    BY <1>2 DEF VfInv, ReplansOK
  <2>3. VerdictOK(replan)' /\ replan'.id \in armed'
    BY <1>2 DEF VerdictOK
  <2>4. ReplansOK'
    BY <1>2, <2>2, <2>3 DEF VfInv, ReplansOK
  <2> QED BY <1>2, <2>1, <2>4
<1>3. CASE UNCHANGED <<nudge, replan, armed>>
  BY <1>3 DEF VfInv, VfTypes, NudgeOK, ReplansOK, VerdictOK, Of
<1> QED BY <1>1, <1>2, <1>3 DEF ArmEscalation

\* _drain_verdicts commits one verdict.
LEMMA DrainOneInv ==
    ASSUME VfInv, DrainOne
    PROVE  VfInv'
<1>1. /\ draining # <<>> /\ draining' = Tail(draining) /\ ArmEscalation(Head(draining), lastVerdict)
      /\ UNCHANGED <<req, at, inner, emitted, current, episode, ready, lastVerdict, pend, jobs,
                     charged, lastTurn, landed, replans>>
  BY DEF DrainOne
<1>2. draining \in Seq(Verdicts)
  BY DEF VfInv, VfTypes
<1>3. /\ Head(draining) \in Verdicts /\ Head(draining) = draining[1] /\ 1 \in DOMAIN draining
      /\ draining' \in Seq(Verdicts)
      /\ \A i \in DOMAIN draining' : i + 1 \in DOMAIN draining /\ draining'[i] = draining[i + 1]
  BY <1>1, <1>2, HeadTailProperties
<1>4. NudgeOK' /\ ReplansOK' /\ replan' \in Verdicts \union {NoEpisode}
  <2>1. VerdictOK(Head(draining)) /\ MayNudge(Head(draining).r)
    BY <1>3 DEF VfInv, VerdictsOK
  <2> QED BY <1>1, <1>3, <2>1, Armed
<1>5. VfTypes'
  BY <1>1, <1>3, <1>4 DEF VfInv, VfTypes
<1>6. JobsOK'
  BY <1>1, JobsKept
<1>7. BooksOK'
  BY <1>1 DEF VfInv, BooksOK, BudgetExact, PendingExact
<1>8. VerdictsOK'
  <2>1. \A i \in DOMAIN draining : VerdictOK(draining[i]) /\ draining[i].r = req /\ MayNudge(req)
    BY DEF VfInv, VerdictsOK
  <2>2. at # "idle"
    BY <1>1 DEF VfInv, VerdictsOK
  <2>3. \A i \in DOMAIN draining' : VerdictOK(draining[i])' /\ draining'[i].r = req' /\ MayNudge(req)'
    BY <1>1, <1>3, <2>1 DEF VerdictOK, MayNudge, Of
  <2>4. /\ \A i \in DOMAIN ready' : VerdictOK(ready[i])' /\ MayNudge(ready[i].r)'
        /\ lastVerdict' # NoEpisode => VerdictOK(lastVerdict)'
    BY <1>1 DEF VfInv, VerdictsOK, VerdictOK, MayNudge, Of
  <2> QED BY <1>1, <2>2, <2>3, <2>4 DEF VerdictsOK
<1> QED BY <1>4, <1>5, <1>6, <1>7, <1>8 DEF VfInv

-----------------------------------------------------------------------------
\* Two jobs are two checkpoints.
LEMMA OneJob ==
    ASSUME VfInv, NEW j \in jobs, NEW k \in jobs, j.r = k.r, j.turn = k.turn
    PROVE  j = k
BY DEF VfInv, JobsOK

\* A job that changes its state is the same checkpoint.
LEMMA JobChanged ==
    ASSUME VfInv, NEW j \in jobs, NEW k \in Jobs, k.r = j.r, k.turn = j.turn,
           jobs' = (jobs \ {j}) \union {k}, UNCHANGED <<req, at, inner, emitted, episode, charged, landed, pend>>
    PROVE  jobs' \in SUBSET Jobs /\ IsFiniteSet(jobs') /\ JobsOK' /\ BooksOK'
<1>1. jobs \in SUBSET Jobs /\ IsFiniteSet(jobs)
  BY DEF VfInv, VfTypes
<1>2. jobs' \in SUBSET Jobs /\ IsFiniteSet(jobs')
  BY <1>1, FS_RemoveElement, FS_AddElement
<1>3. JobsOK'
  <2>1. \A i \in jobs' : \E o \in jobs : o.r = i.r /\ o.turn = i.turn /\ (i = o \/ (i = k /\ o = j))
    OBVIOUS
  <2>2. ASSUME NEW i \in jobs'
        PROVE  /\ i.r \in 1..req' /\ i.turn \in Nat /\ MayNudge(i.r)'
               /\ i.r = req' => i.turn <= inner' /\ (i.turn = inner' => emitted')
    BY <2>1, <2>2 DEF VfInv, JobsOK, MayNudge, Of
  <2>3. ASSUME NEW i \in jobs', NEW l \in jobs', i.r = l.r, i.turn = l.turn PROVE i = l
    <3>1. PICK o \in jobs : o.r = i.r /\ o.turn = i.turn /\ (i = o \/ (i = k /\ o = j))
      BY <2>1
    <3>2. PICK q \in jobs : q.r = l.r /\ q.turn = l.turn /\ (l = q \/ (l = k /\ q = j))
      BY <2>1
    <3>3. o = q
      BY <2>3, <3>1, <3>2, OneJob
    <3>4. (i # j /\ l # j) \/ k = j
      OBVIOUS
    <3> QED BY <3>1, <3>2, <3>3, <3>4
  <2> QED BY <2>2, <2>3 DEF JobsOK
<1>4. \A r : Cardinality(JobsOf(r)') = Cardinality(JobsOf(r))
  <2> SUFFICES ASSUME NEW r PROVE Cardinality(JobsOf(r)') = Cardinality(JobsOf(r))
    OBVIOUS
  <2>1. CASE j.r # r
    <3>1. JobsOf(r)' = JobsOf(r)
      BY <2>1 DEF JobsOf
    <3> QED BY <3>1
  <2>2. CASE j.r = r
    <3>1. /\ JobsOf(r)' = (JobsOf(r) \ {j}) \union {k} /\ j \in JobsOf(r)
          /\ IsFiniteSet(JobsOf(r)) /\ Cardinality(JobsOf(r)) \in Nat
      BY <1>1, <2>2, JobsFinite DEF JobsOf
    <3>2. k \notin JobsOf(r) \ {j}
      BY OneJob DEF JobsOf
    <3>3. /\ IsFiniteSet(JobsOf(r) \ {j})
          /\ Cardinality(JobsOf(r) \ {j}) = Cardinality(JobsOf(r)) - 1
      BY <3>1, FS_RemoveElement
    <3>4. Cardinality((JobsOf(r) \ {j}) \union {k}) = Cardinality(JobsOf(r) \ {j}) + 1
      BY <3>2, <3>3, FS_AddElement
    <3> QED BY <3>1, <3>3, <3>4
  <2> QED BY <2>1, <2>2
<1>5. BooksOK'
  <2>1. UNCHANGED <<req, at, charged, landed, pend>>
    OBVIOUS
  <2>2. \A r \in Reqs : charged'[r] = landed'[r] + Cardinality(JobsOf(r)')
    BY <1>4, <2>1, Books
  <2>3. at' # "idle" => pend'[req'] = Cardinality(JobsOf(req)')
    <3>1. at # "idle" => pend[req] = Cardinality(JobsOf(req))
      BY DEF VfInv, BooksOK, PendingExact, JobsOf
    <3>2. Cardinality(JobsOf(req)') = Cardinality(JobsOf(req))
      <4> DEFINE n == req
      <4>1. Cardinality({j1 \in jobs' : j1.r = n}) = Cardinality({j1 \in jobs : j1.r = n})
        BY <1>4 DEF JobsOf
      <4> QED BY <2>1, <4>1 DEF JobsOf
    <3> QED BY <2>1, <3>1, <3>2
  <2>4. \A r \in Reqs : r > req' => pend'[r] = 0
    BY <2>1 DEF VfInv, BooksOK
  <2> QED BY <2>2, <2>3, <2>4 DEF BooksOK, BudgetExact, PendingExact, JobsOf
<1> QED BY <1>2, <1>3, <1>5

\* A job that ends leaves the books of its request, and no other.
LEMMA JobGone ==
    ASSUME VfInv, NEW j \in jobs, jobs' = jobs \ {j}, ReleasePending(j),
           UNCHANGED <<req, at, inner, emitted, episode>>,
           \A r \in Reqs : charged'[r] = landed'[r] + Cardinality(JobsOf(r)) - (IF r = j.r THEN 1 ELSE 0)
    PROVE  /\ jobs' \in SUBSET Jobs /\ IsFiniteSet(jobs') /\ pend' \in [Reqs -> Nat]
           /\ JobsOK' /\ BooksOK'
<1>1. jobs \in SUBSET Jobs /\ IsFiniteSet(jobs) /\ pend \in [Reqs -> Nat]
  BY DEF VfInv, VfTypes
<1>2. jobs' \in SUBSET Jobs /\ IsFiniteSet(jobs')
  BY <1>1, FS_RemoveElement
<1>3. j.r \in Reqs /\ j.r \in 1..req /\ req \in Nat /\ req \in 0..MaxRequests /\ Reqs \subseteq Nat
  BY <1>1, VerifierAssumption DEF VfInv, VfTypes, JobsOK, Jobs, Reqs
<1>4. JobsOK'
  <2>1. \A i \in jobs' : i \in jobs
    OBVIOUS
  <2> QED BY <2>1 DEF VfInv, JobsOK, MayNudge, Of
<1>5. ASSUME NEW r
      PROVE  Cardinality(JobsOf(r)') = Cardinality(JobsOf(r)) - (IF r = j.r THEN 1 ELSE 0)
  <2>1. IsFiniteSet(JobsOf(r)) /\ Cardinality(JobsOf(r)) \in Nat
    BY <1>1, JobsFinite
  <2>2. CASE r = j.r
    <3>1. JobsOf(r)' = JobsOf(r) \ {j} /\ j \in JobsOf(r)
      BY <2>2 DEF JobsOf
    <3>2. Cardinality(JobsOf(r) \ {j}) = Cardinality(JobsOf(r)) - 1
      BY <2>1, <3>1, FS_RemoveElement
    <3> QED BY <2>2, <3>1, <3>2
  <2>3. CASE r # j.r
    <3>1. JobsOf(r)' = JobsOf(r)
      BY <2>3 DEF JobsOf
    <3> QED BY <2>1, <2>3, <3>1
  <2> QED BY <2>2, <2>3
<1>6. /\ pend' \in [Reqs -> Nat] /\ \A r \in Reqs : r # j.r => pend'[r] = pend[r]
      /\ pend[j.r] > 0 => pend'[j.r] = pend[j.r] - 1
  BY <1>1, <1>3 DEF ReleasePending
<1>7. BooksOK'
  <2>1. \A r \in Reqs : charged'[r] = landed'[r] + Cardinality(JobsOf(r)')
    <3> SUFFICES ASSUME NEW r \in Reqs PROVE charged'[r] = landed'[r] + Cardinality(JobsOf(r)')
      OBVIOUS
    <3>1. charged'[r] = landed'[r] + Cardinality(JobsOf(r)) - (IF r = j.r THEN 1 ELSE 0)
      OBVIOUS
    <3>2. landed[r] \in Nat /\ Cardinality(JobsOf(r)) \in Nat
      BY Books DEF VfInv, VfTypes
    <3> DEFINE c == Cardinality(JobsOf(r))
               d == Cardinality(JobsOf(r)')
    <3>3. d = c - (IF r = j.r THEN 1 ELSE 0) /\ c \in Nat
          /\ charged'[r] = landed'[r] + c - (IF r = j.r THEN 1 ELSE 0)
      BY <1>5, <3>1, <3>2
    <3> HIDE DEF c, d
    <3>4. charged'[r] = landed'[r] + d
      BY <3>3
    <3> QED BY <3>4 DEF d
  <2>2. ASSUME at' # "idle" PROVE pend'[req'] = Cardinality({i \in jobs' : i.r = req'})
    <3>1. at # "idle" /\ req' = req /\ req \in Reqs
      BY <1>3, <2>2 DEF VfInv, VfTypes, Reqs
    <3>2. pend[req] = Cardinality(JobsOf(req)) /\ Cardinality(JobsOf(req)) \in Nat
      BY <3>1, Books
    <3>3. Cardinality({i \in jobs' : i.r = req}) = Cardinality({i \in jobs : i.r = req}) - (IF req = j.r THEN 1 ELSE 0)
      <4> DEFINE n == req
      <4>1. Cardinality({i \in jobs' : i.r = n}) = Cardinality({i \in jobs : i.r = n}) - (IF n = j.r THEN 1 ELSE 0)
        BY <1>5 DEF JobsOf
      <4> QED BY <4>1
    <3>4. req = j.r => pend[req] > 0
      <4>1. req = j.r => j \in JobsOf(req)
        BY DEF JobsOf
      <4> QED BY <1>1, <3>2, <4>1, JobsFinite, FS_EmptySet
    <3> QED BY <1>1, <1>6, <3>1, <3>2, <3>3, <3>4 DEF JobsOf
  <2>3. \A r \in Reqs : r > req' => pend'[r] = 0
    BY <1>3, <1>6 DEF VfInv, BooksOK
  <2> QED BY <2>1, <2>2, <2>3 DEF BooksOK, BudgetExact, PendingExact, JobsOf
<1> QED BY <1>2, <1>4, <1>6, <1>7

\* A judge call starts.
LEMMA StartsInv ==
    ASSUME VfInv, NEW j \in jobs, JudgeStarts(j)
    PROVE  VfInv'
<1> DEFINE k == [j EXCEPT !.st = "run", !.queued = FALSE]
<1>1. /\ jobs' = (jobs \ {j}) \union {k}
      /\ UNCHANGED <<req, at, inner, emitted, current, episode, nudge, replan, ready, lastVerdict, pend,
                     armed, draining, charged, lastTurn, landed, replans>>
  BY DEF JudgeStarts
<1>2. k \in Jobs /\ k.r = j.r /\ k.turn = j.turn
  BY DEF VfInv, VfTypes, Jobs
<1> HIDE DEF k
<1>3. jobs' \in SUBSET Jobs /\ IsFiniteSet(jobs') /\ JobsOK' /\ BooksOK'
  BY <1>1, <1>2, JobChanged
<1>4. VfTypes'
  BY <1>1, <1>3 DEF VfInv, VfTypes
<1>5. VerdictsOK' /\ NudgeOK' /\ ReplansOK'
  BY <1>1 DEF VfInv, VerdictsOK, VerdictOK, MayNudge, NudgeOK, ReplansOK, Of
<1> QED BY <1>3, <1>4, <1>5 DEF VfInv

\* A refund gives one charge back.
LEMMA Refunded ==
    ASSUME VfInv, NEW j \in jobs, Refund(j), UNCHANGED landed
    PROVE  /\ charged' \in [Reqs -> Nat] /\ lastTurn' \in [Reqs -> Nat]
           /\ \A r \in Reqs : charged'[r] = landed'[r] + Cardinality(JobsOf(r)) - (IF r = j.r THEN 1 ELSE 0)
<1>1. /\ j.r \in Reqs /\ j.prev \in Nat /\ charged \in [Reqs -> Nat] /\ landed \in [Reqs -> Nat]
      /\ lastTurn \in [Reqs -> Nat]
  BY DEF VfInv, VfTypes, Jobs
<1>2. /\ charged' = [charged EXCEPT ![j.r] = @ - 1]
      /\ lastTurn' = [lastTurn EXCEPT ![j.r] = IF @ = j.turn THEN j.prev ELSE @]
  BY DEF Refund
<1>3. \A r \in Reqs : charged[r] = landed[r] + Cardinality(JobsOf(r)) /\ Cardinality(JobsOf(r)) \in Nat
  BY Books
<1>4. Cardinality(JobsOf(j.r)) # 0
  <2>1. j \in JobsOf(j.r) /\ IsFiniteSet(JobsOf(j.r))
    BY JobsFinite DEF JobsOf, VfInv, VfTypes
  <2> QED BY <2>1, FS_EmptySet
<1>5. charged[j.r] \in Nat /\ charged[j.r] > 0
  BY <1>1, <1>3, <1>4
<1>6. charged' \in [Reqs -> Nat]
  <2>1. charged[j.r] - 1 \in Nat
    BY <1>5
  <2> QED BY <1>1, <1>2, <2>1
<1>7. lastTurn' \in [Reqs -> Nat]
  BY <1>1, <1>2
<1>8. ASSUME NEW r \in Reqs
      PROVE  charged'[r] = landed'[r] + Cardinality(JobsOf(r)) - (IF r = j.r THEN 1 ELSE 0)
  <2> DEFINE c == Cardinality(JobsOf(r))
  <2>1. /\ charged[r] = landed[r] + c /\ c \in Nat /\ landed'[r] = landed[r] /\ landed[r] \in Nat
        /\ charged'[r] = IF r = j.r THEN charged[r] - 1 ELSE charged[r]
    BY <1>1, <1>2, <1>3
  <2> HIDE DEF c
  <2>2. charged'[r] = landed'[r] + c - (IF r = j.r THEN 1 ELSE 0)
    BY <2>1
  <2> QED BY <2>2 DEF c
<1> QED BY <1>6, <1>7, <1>8

\* A call that bails out pays nothing.
LEMMA GivesUpInv ==
    ASSUME VfInv, NEW j \in jobs, JudgeGivesUp(j)
    PROVE  VfInv'
<1>1. /\ jobs' = jobs \ {j} /\ Refund(j) /\ ReleasePending(j)
      /\ UNCHANGED <<req, at, inner, emitted, current, episode, nudge, replan, ready, lastVerdict,
                     armed, draining, landed, replans>>
  BY DEF JudgeGivesUp
<1>2. /\ charged' \in [Reqs -> Nat] /\ lastTurn' \in [Reqs -> Nat]
      /\ \A r \in Reqs : charged'[r] = landed'[r] + Cardinality(JobsOf(r)) - (IF r = j.r THEN 1 ELSE 0)
  BY <1>1, Refunded
<1>3. /\ jobs' \in SUBSET Jobs /\ IsFiniteSet(jobs') /\ pend' \in [Reqs -> Nat]
      /\ JobsOK' /\ BooksOK'
  BY <1>1, <1>2, JobGone
<1>4. VfTypes'
  BY <1>1, <1>2, <1>3 DEF VfInv, VfTypes
<1>5. VerdictsOK' /\ NudgeOK' /\ ReplansOK'
  BY <1>1 DEF VfInv, VerdictsOK, VerdictOK, MayNudge, NudgeOK, ReplansOK, Of
<1> QED BY <1>3, <1>4, <1>5 DEF VfInv

\* A call that returns deposits its verdict, or fails and pays nothing.
LEMMA ReturnsInv ==
    ASSUME VfInv, NEW j \in jobs, JudgeReturns(j)
    PROVE  VfInv'
<1>1. /\ jobs' = jobs \ {j} /\ ReleasePending(j)
      /\ UNCHANGED <<req, at, inner, emitted, current, episode, draining, replans>>
  BY DEF JudgeReturns
<1>2. CASE Refund(j) /\ UNCHANGED <<ready, lastVerdict, nudge, replan, armed, landed>>
  <2>1. /\ charged' \in [Reqs -> Nat] /\ lastTurn' \in [Reqs -> Nat]
        /\ \A r \in Reqs : charged'[r] = landed'[r] + Cardinality(JobsOf(r)) - (IF r = j.r THEN 1 ELSE 0)
    BY <1>2, Refunded
  <2>2. /\ jobs' \in SUBSET Jobs /\ IsFiniteSet(jobs') /\ pend' \in [Reqs -> Nat]
        /\ JobsOK' /\ BooksOK'
    BY <1>1, <2>1, JobGone
  <2>3. VfTypes'
    BY <1>1, <1>2, <2>1, <2>2 DEF VfInv, VfTypes
  <2>4. VerdictsOK' /\ NudgeOK' /\ ReplansOK'
    BY <1>1, <1>2 DEF VfInv, VerdictsOK, VerdictOK, MayNudge, NudgeOK, ReplansOK, Of
  <2> QED BY <2>2, <2>3, <2>4 DEF VfInv
<1>3. ASSUME NEW sev \in {"none", "nudge", "replan"},
             Put([id |-> <<j.r, j.turn>>, r |-> j.r, turn |-> j.turn, sev |-> sev, epochs |-> j.epochs]),
             landed' = [landed EXCEPT ![j.r] = @ + 1], UNCHANGED <<charged, lastTurn>>
      PROVE  VfInv'
  <2> DEFINE v == [id |-> <<j.r, j.turn>>, r |-> j.r, turn |-> j.turn, sev |-> sev, epochs |-> j.epochs]
  <2>1. j \in Jobs /\ j.r \in Reqs /\ j.r \in 1..req /\ MayNudge(j.r) /\ (j.r = req => j.turn <= inner)
    BY DEF VfInv, VfTypes, JobsOK, Jobs
  <2>2. v \in Verdicts /\ VerdictOK(v) /\ MayNudge(v.r)
    BY <2>1 DEF Verdicts, VerdictOK, Jobs
  <2>3. Put(v)
    BY <1>3
  <2> HIDE DEF v
  <2>4. landed' \in [Reqs -> Nat] /\ charged' \in [Reqs -> Nat]
    BY <1>3, <2>1 DEF VfInv, VfTypes
  <2>5. ASSUME NEW r \in Reqs
        PROVE  charged'[r] = landed'[r] + Cardinality(JobsOf(r)) - (IF r = j.r THEN 1 ELSE 0)
    <3> DEFINE c == Cardinality(JobsOf(r))
    <3>1. /\ charged[r] = landed[r] + c /\ c \in Nat /\ charged'[r] = charged[r] /\ landed[r] \in Nat
          /\ landed'[r] = IF r = j.r THEN landed[r] + 1 ELSE landed[r]
      BY <1>3, <2>1, Books DEF VfInv, VfTypes
    <3> HIDE DEF c
    <3>2. charged'[r] = landed'[r] + c - (IF r = j.r THEN 1 ELSE 0)
      BY <3>1
    <3> QED BY <3>2 DEF c
  <2>6. /\ jobs' \in SUBSET Jobs /\ IsFiniteSet(jobs') /\ pend' \in [Reqs -> Nat]
        /\ JobsOK' /\ BooksOK'
    BY <1>1, <2>5, JobGone
  <2>7. CASE Accepted(v)
    <3>1. ready' = Append(ready, v) /\ lastVerdict' = v /\ ArmEscalation(v, v)
      BY <2>3, <2>7 DEF Put
    <3>2. NudgeOK' /\ ReplansOK' /\ replan' \in Verdicts \union {NoEpisode}
      BY <1>1, <2>2, <3>1, Armed
    <3>3. /\ ready \in Seq(Verdicts) /\ ready' \in Seq(Verdicts)
          /\ \A i \in DOMAIN ready' : ready'[i] = v \/ (i \in DOMAIN ready /\ ready'[i] = ready[i])
      <4>1. ready \in Seq(Verdicts)
        BY DEF VfInv, VfTypes
      <4> QED BY <2>2, <3>1, <4>1
    <3>4. VfTypes'
      BY <1>1, <1>3, <2>2, <2>4, <2>6, <3>1, <3>2, <3>3 DEF VfInv, VfTypes
    <3>5. VerdictsOK'
      <4>1. \A i \in DOMAIN ready' : VerdictOK(ready[i])' /\ MayNudge(ready[i].r)'
        BY <1>1, <2>2, <3>3 DEF VfInv, VerdictsOK, VerdictOK, MayNudge, Of
      <4>2. VerdictOK(lastVerdict)'
        BY <1>1, <2>2, <3>1 DEF VerdictOK
      <4> QED BY <1>1, <4>1, <4>2 DEF VfInv, VerdictsOK, VerdictOK, MayNudge, Of
    <3> QED BY <2>6, <3>2, <3>4, <3>5 DEF VfInv
  <2>8. CASE ~Accepted(v)
    <3>1. UNCHANGED <<ready, lastVerdict, nudge, replan, armed>>
      BY <2>3, <2>8 DEF Put
    <3>2. VfTypes'
      BY <1>1, <1>3, <2>4, <2>6, <3>1 DEF VfInv, VfTypes
    <3>3. VerdictsOK' /\ NudgeOK' /\ ReplansOK'
      BY <1>1, <3>1 DEF VfInv, VerdictsOK, VerdictOK, MayNudge, NudgeOK, ReplansOK, Of
    <3> QED BY <2>6, <3>2, <3>3 DEF VfInv
  <2> QED BY <2>7, <2>8
<1> QED BY <1>2, <1>3 DEF JudgeReturns

\* A published episode is one of the request that runs.
LEMMA EpisodeType ==
    ASSUME VfInv, NEW r \in Reqs, NEW sigs \in SUBSET Signals
    PROVE  /\ NewEpisode(r, sigs) \in Episodes /\ Of(NewEpisode(r, sigs), r)
           /\ NewEpisode(r, sigs).signals = sigs
<1> DEFINE base == IF Of(episode, r) THEN episode
                  ELSE [r |-> r, signals |-> {}, epochs |-> [s \in Signals |-> 0]]
           grown == [s \in Signals |-> base.epochs[s] + IF s \in sigs \ base.signals THEN 1 ELSE 0]
<1>1. base \in Episodes
  BY DEF VfInv, VfTypes, Of, Episodes
<1>2. NewEpisode(r, sigs) = [r |-> r, signals |-> sigs, epochs |-> grown]
  BY DEF NewEpisode
<1> HIDE DEF base
<1>3. grown \in [Signals -> Nat]
  BY <1>1 DEF Episodes
<1> HIDE DEF grown
<1>4. NewEpisode(r, sigs) \in Episodes /\ NewEpisode(r, sigs).r = r /\ NewEpisode(r, sigs).signals = sigs
  BY <1>2, <1>3 DEF Episodes
<1> QED BY <1>4, VerifierAssumption DEF Of

\* A pruned nudge is live in the new episode.
LEMMA PrunedLive ==
    ASSUME VfInv, NEW ep, Of(ep, req), nudge' = Pruned(req, ep), episode' = ep, UNCHANGED <<req, at>>
    PROVE  NudgeOK'
<1>1. CASE ~Of(nudge, req)
  <2>1. nudge' = nudge
    BY <1>1 DEF Pruned
  <2> QED BY <1>1, <2>1 DEF VfInv, NudgeOK, Of
<1>2. CASE Of(nudge, req)
  <2> DEFINE kept == {s \in DOMAIN nudge.epochs \intersect ep.signals : nudge.epochs[s] = ep.epochs[s]}
  <2>1. /\ nudge # NoEpisode /\ nudge.r = req /\ nudge.r \in 1..req /\ nudge.epochs = nudge.judged
    BY <1>2 DEF VfInv, NudgeOK, Of
  <2>2. \A s \in kept : s \in ep.signals /\ nudge.judged[s] = ep.epochs[s]
    BY <2>1
  <2>3. nudge' = IF kept = {} THEN NoEpisode
                 ELSE [r |-> req, epochs |-> [s \in kept |-> ep.epochs[s]],
                       judged |-> [s \in kept |-> nudge.judged[s]]]
    BY <1>2 DEF Pruned, Restricted
  <2> HIDE DEF kept
  <2>4. CASE kept = {}
    BY <2>3, <2>4 DEF NudgeOK
  <2>5. CASE kept # {}
    <3>1. /\ nudge'.r = req /\ DOMAIN nudge'.epochs = kept /\ nudge'.epochs = nudge'.judged
          /\ \A s \in kept : s \in ep.signals /\ nudge'.judged[s] = ep.epochs[s]
      BY <2>2, <2>3, <2>5
    <3> QED BY <2>1, <2>5, <3>1 DEF NudgeOK, Of
  <2> QED BY <2>4, <2>5
<1> QED BY <1>1, <1>2

\* enqueue adds one job, of a checkpoint that had none, and charges for it.
LEMMA Enqueued ==
    ASSUME VfInv, at = "run", ~emitted, emitted', NEW sigs, NEW ep \in Episodes,
           Of(episode, req)', Enqueue(sigs, ep), UNCHANGED <<req, at, inner, current, landed>>
    PROVE  /\ jobs' \in SUBSET Jobs /\ IsFiniteSet(jobs') /\ pend' \in [Reqs -> Nat]
           /\ charged' \in [Reqs -> Nat] /\ lastTurn' \in [Reqs -> Nat]
           /\ JobsOK' /\ BooksOK'
<1> DEFINE F(j) == IF j.r = req /\ j.turn < inner THEN [j EXCEPT !.st = "cancelled"] ELSE j
           job == [r |-> req, turn |-> inner, st |-> "wait", queued |-> TRUE, prev |-> lastTurn[req],
                   epochs |-> Restricted(ep.epochs, sigs \intersect ep.signals)]
<1>1. /\ charged' = [charged EXCEPT ![req] = @ + 1] /\ lastTurn' = [lastTurn EXCEPT ![req] = inner]
      /\ pend' = [pend EXCEPT ![req] = @ + 1] /\ jobs' = {F(j) : j \in jobs} \union {job}
  BY DEF Enqueue, VfInv, VfTypes
<1>2. /\ req \in Reqs /\ req \in Nat /\ req # 0 /\ inner \in Nat /\ req \in 1..req
      /\ jobs \in SUBSET Jobs /\ IsFiniteSet(jobs) /\ pend \in [Reqs -> Nat]
      /\ charged \in [Reqs -> Nat] /\ lastTurn \in [Reqs -> Nat] /\ landed \in [Reqs -> Nat]
  <2>1. MaxRequests \in Nat /\ req \in 0..MaxRequests /\ req # 0
    BY VerifierAssumption DEF VfInv, VfTypes
  <2>2. req \in Reqs /\ req \in Nat /\ req \in 1..req
    BY <2>1 DEF Reqs
  <2> QED BY <2>1, <2>2 DEF VfInv, VfTypes
<1>3. charged' \in [Reqs -> Nat] /\ lastTurn' \in [Reqs -> Nat] /\ pend' \in [Reqs -> Nat]
  BY <1>1, <1>2
<1>4. job \in Jobs /\ job.r = req /\ job.turn = inner
  <2>1. Restricted(ep.epochs, sigs \intersect ep.signals) \in Epochs
    <3> DEFINE S == sigs \intersect ep.signals
    <3>1. S \in SUBSET Signals /\ ep.epochs \in [Signals -> Nat]
      BY DEF Episodes
    <3> HIDE DEF S
    <3>2. [s \in S |-> ep.epochs[s]] \in [S -> Nat]
      BY <3>1
    <3>3. [s \in S |-> ep.epochs[s]] \in Epochs
      BY <3>1, <3>2 DEF Epochs
    <3> QED BY <3>3 DEF Restricted, S
  <2>2. lastTurn[req] \in Nat
    BY <1>2
  <2> QED BY <1>2, <2>1, <2>2 DEF Jobs
<1>5. \A j \in jobs : F(j) \in Jobs /\ F(j).r = j.r /\ F(j).turn = j.turn
  BY <1>2 DEF Jobs
<1> HIDE DEF F, job
<1>6. \A j \in jobs : ~(j.r = req /\ j.turn = inner)
  BY DEF VfInv, JobsOK
<1>7. ASSUME NEW S \in SUBSET jobs
      PROVE  IsFiniteSet({F(j) : j \in S}) /\ Cardinality({F(j) : j \in S}) = Cardinality(S)
  <2> DEFINE T == {F(j) : j \in S}
             f == [j \in S |-> F(j)]
  <2>1. IsFiniteSet(S)
    BY <1>2, FS_Subset
  <2>2. f \in [S -> T] /\ \A j \in S : f[j] = F(j)
    OBVIOUS
  <2>3. \A t \in T : \E j \in S : f[j] = t
    OBVIOUS
  <2>4. \A x, y \in S : f[x] = f[y] => x = y
    <3> SUFFICES ASSUME NEW x \in S, NEW y \in S, F(x) = F(y) PROVE x = y
      BY <2>2
    <3>1. x.r = y.r /\ x.turn = y.turn
      BY <1>5
    <3> QED BY <3>1, OneJob
  <2> HIDE DEF f, T
  <2>5. IsFiniteSet(T) /\ Cardinality(T) = Cardinality(S)
    BY <2>1, <2>2, <2>3, <2>4, SameCount
  <2> QED BY <2>5 DEF T
<1>8. jobs' \in SUBSET Jobs /\ IsFiniteSet(jobs')
  <2>1. jobs' \in SUBSET Jobs
    BY <1>1, <1>4, <1>5
  <2>2. IsFiniteSet({F(j) : j \in jobs})
    BY <1>7
  <2> QED BY <1>1, <2>1, <2>2, FS_AddElement
<1>9. JobsOK'
  <2>1. \A i \in jobs' : i = job \/ \E j \in jobs : i = F(j) /\ i.r = j.r /\ i.turn = j.turn
    BY <1>1, <1>5
  <2>2. ASSUME NEW i \in jobs'
        PROVE  /\ i.r \in 1..req' /\ i.turn \in Nat /\ MayNudge(i.r)'
               /\ i.r = req' => i.turn <= inner' /\ (i.turn = inner' => emitted')
    <3>1. CASE i = job
      BY <1>2, <1>4, <3>1 DEF MayNudge
    <3>2. CASE \E j \in jobs : i = F(j) /\ i.r = j.r /\ i.turn = j.turn
      BY <3>2 DEF VfInv, JobsOK, MayNudge
    <3> QED BY <2>1, <3>1, <3>2
  <2>3. ASSUME NEW i \in jobs', NEW k \in jobs', i.r = k.r, i.turn = k.turn PROVE i = k
    <3>1. CASE i = job
      BY <1>4, <1>6, <2>1, <2>3, <3>1
    <3>2. CASE k = job
      BY <1>4, <1>6, <2>1, <2>3, <3>2
    <3>3. CASE i # job /\ k # job
      <4>1. PICK x \in jobs : i = F(x) /\ i.r = x.r /\ i.turn = x.turn
        BY <2>1, <3>3
      <4>2. PICK y \in jobs : k = F(y) /\ k.r = y.r /\ k.turn = y.turn
        BY <2>1, <3>3
      <4>3. x = y
        BY <2>3, <4>1, <4>2, OneJob
      <4> QED BY <4>1, <4>2, <4>3
    <3> QED BY <3>1, <3>2, <3>3
  <2> QED BY <2>2, <2>3 DEF JobsOK
<1>10. ASSUME NEW r
       PROVE  Cardinality(JobsOf(r)') = Cardinality(JobsOf(r)) + (IF r = req THEN 1 ELSE 0)
  <2> DEFINE T == {F(j) : j \in JobsOf(r)}
  <2>1. IsFiniteSet(T) /\ Cardinality(T) = Cardinality(JobsOf(r)) /\ Cardinality(JobsOf(r)) \in Nat
    <3>1. JobsOf(r) \in SUBSET jobs
      BY DEF JobsOf
    <3> QED BY <1>2, <1>7, <3>1, JobsFinite
  <2>2. \A i \in T : i.r = r /\ i # job
    <3> SUFFICES ASSUME NEW j \in JobsOf(r) PROVE F(j).r = r /\ F(j) # job
      OBVIOUS
    <3>1. j \in jobs /\ j.r = r
      BY DEF JobsOf
    <3> QED BY <1>4, <1>5, <1>6, <3>1
  <2>3. CASE r = req
    <3>1. JobsOf(r)' = T \union {job}
      BY <1>1, <1>4, <1>5, <2>3 DEF JobsOf
    <3>2. job \notin T
      BY <2>2
    <3> HIDE DEF T
    <3>3. Cardinality(T \union {job}) = Cardinality(T) + 1
      BY <2>1, <3>2, FS_AddElement
    <3> QED BY <2>1, <2>3, <3>1, <3>3
  <2>4. CASE r # req
    <3>1. JobsOf(r)' = T
      BY <1>1, <1>4, <1>5, <2>4 DEF JobsOf
    <3> HIDE DEF T
    <3> QED BY <2>1, <2>4, <3>1
  <2> QED BY <2>3, <2>4
<1>11. BooksOK'
  <2>1. ASSUME NEW r \in Reqs PROVE charged'[r] = landed'[r] + Cardinality({j \in jobs' : j.r = r})
    <3> DEFINE c == Cardinality(JobsOf(r))
               d == Cardinality(JobsOf(r)')
    <3>1. charged[r] = landed[r] + c /\ c \in Nat
      BY Books
    <3>2. charged'[r] = charged[r] + (IF r = req THEN 1 ELSE 0) /\ landed'[r] = landed[r] /\ landed[r] \in Nat
      BY <1>1, <1>2
    <3>3. d = c + (IF r = req THEN 1 ELSE 0)
      BY <1>10
    <3> HIDE DEF c, d
    <3>4. charged'[r] = landed'[r] + d
      BY <3>1, <3>2, <3>3
    <3> QED BY <3>4 DEF d, JobsOf
  <2>2. pend'[req'] = Cardinality({j \in jobs' : j.r = req'})
    <3>1. pend[req] = Cardinality(JobsOf(req)) /\ Cardinality(JobsOf(req)) \in Nat
      BY <1>2, Books
    <3>2. Cardinality({j \in jobs' : j.r = req}) = Cardinality({j \in jobs : j.r = req}) + 1
      <4> DEFINE n == req
      <4>1. Cardinality({j \in jobs' : j.r = n}) = Cardinality({j \in jobs : j.r = n}) + (IF n = req THEN 1 ELSE 0)
        BY <1>10 DEF JobsOf
      <4> QED BY <4>1
    <3> QED BY <1>1, <1>2, <3>1, <3>2 DEF JobsOf
  <2>3. \A r \in Reqs : r > req' => pend'[r] = 0
    BY <1>1, <1>2 DEF VfInv, BooksOK, Reqs
  <2> QED BY <2>1, <2>2, <2>3 DEF BooksOK, BudgetExact, PendingExact
<1> QED BY <1>3, <1>8, <1>9, <1>11

\* The tracker publishes the signals and asks the judge once per provider call.
LEMMA ObserveInv ==
    ASSUME VfInv, ObserveTool
    PROVE  VfInv'
<1>1. PICK latched \in SUBSET Signals, fired \in SUBSET Signals :
          LET ep == NewEpisode(req, latched)
              emit == fired # {} /\ ~emitted
          IN  /\ fired \subseteq latched
              /\ IF current = req THEN episode' = ep /\ nudge' = Pruned(req, ep)
                 ELSE UNCHANGED <<episode, nudge>>
              /\ emitted' = (emitted \/ emit)
              /\ \/ emit /\ Enqueueable(req, inner) /\ Enqueue(fired, ep)
                 \/ UNCHANGED <<charged, lastTurn, pend, jobs>>
  BY DEF ObserveTool
<1> DEFINE ep == NewEpisode(req, latched)
<1>2. /\ at = "run" /\ current = req /\ req \in Reqs
      /\ UNCHANGED <<req, at, inner, current, replan, ready, lastVerdict, armed, draining, landed, replans>>
  BY VerifierAssumption DEF ObserveTool, VfInv, VfTypes, Reqs
<1>3. /\ episode' = ep /\ nudge' = Pruned(req, ep) /\ emitted' \in BOOLEAN /\ (emitted => emitted')
      /\ \/ ~emitted /\ emitted' /\ Enqueue(fired, ep)
         \/ UNCHANGED <<charged, lastTurn, pend, jobs>>
  BY <1>1, <1>2 DEF VfInv, VfTypes
<1>4. ep \in Episodes /\ Of(ep, req) /\ Of(episode, req)'
  BY <1>2, <1>3, EpisodeType DEF Of
<1> HIDE DEF ep
<1>5. NudgeOK'
  BY <1>2, <1>3, <1>4, PrunedLive
<1>6. /\ jobs' \in SUBSET Jobs /\ IsFiniteSet(jobs') /\ pend' \in [Reqs -> Nat]
      /\ charged' \in [Reqs -> Nat] /\ lastTurn' \in [Reqs -> Nat] /\ JobsOK' /\ BooksOK'
  <2>1. CASE ~emitted /\ emitted' /\ Enqueue(fired, ep)
    BY <1>2, <1>4, <2>1, Enqueued
  <2>2. CASE UNCHANGED <<charged, lastTurn, pend, jobs>>
    <3>1. JobsOK'
      BY <1>2, <1>3, <1>4, <2>2 DEF VfInv, JobsOK, MayNudge
    <3> QED BY <1>2, <2>2, <3>1 DEF VfInv, VfTypes, BooksOK, BudgetExact, PendingExact
  <2> QED BY <1>3, <2>1, <2>2
<1>7. VfTypes'
  BY <1>2, <1>3, <1>4, <1>6 DEF VfInv, VfTypes
<1>8. VerdictsOK' /\ ReplansOK'
  BY <1>2, <1>4 DEF VfInv, VerdictsOK, VerdictOK, MayNudge, ReplansOK
<1> QED BY <1>5, <1>6, <1>7, <1>8 DEF VfInv

\* Every step of the verifier keeps the invariant.
LEMMA VfStepInv ==
    ASSUME VfInv, [VfNext]_vfVars
    PROVE  VfInv'
<1>1. CASE UNCHANGED vfVars
  <2>1. /\ VfTypes' /\ JobsOK' /\ BooksOK'
    BY <1>1 DEF vfVars, VfInv, VfTypes, JobsOK, BooksOK, BudgetExact, PendingExact, MayNudge, Of
  <2>2. VerdictsOK' /\ NudgeOK' /\ ReplansOK'
    BY <1>1 DEF vfVars, VfInv, VerdictsOK, VerdictOK, MayNudge, NudgeOK, ReplansOK, Of
  <2> QED BY <2>1, <2>2 DEF VfInv
<1>2. CASE ObserveTool \/ OpenRequest \/ Drain \/ DrainOne \/ ProviderCall
  BY <1>2, ObserveInv, OpenInv, TakeReadyInv, DrainOneInv, ProviderCallInv
<1>3. CASE TurnEnds \/ ClearRequest \/ TailCancelled
  BY <1>3, TurnEndsInv, ClearInv, TailCancelledInv
<1>4. ASSUME NEW j \in jobs, Judge(j) PROVE VfInv'
  BY <1>4, StartsInv, ReturnsInv, GivesUpInv DEF Judge
<1> QED BY <1>1, <1>2, <1>3, <1>4 DEF VfNext

\* Verdicts act on the request and the suspicion they were made for, once,
\* and the budget, the pending marks and the replans agree with the judge's
\* jobs, for any number of requests, signals and calls (VerdictMailbox,
\* JudgeWorker).
THEOREM VerdictsSafety == GatewaySpec => []VerdictsSafe
<1>1. GatewayInit => VfInv
  BY VfInitInv DEF GatewayInit
<1>2. VfInv /\ [GatewayNext]_gatewayVars => VfInv'
  <2>1. [GatewayNext]_gatewayVars => [VfNext]_vfVars
    BY DEF GatewayNext, gatewayVars
  <2> QED BY <2>1, VfStepInv
<1>3. VfInv => VerdictsSafe
  BY VfInvSafe
<1> QED BY <1>1, <1>2, <1>3, PTL DEF GatewaySpec

\* The voice calls (RealtimeCall).
\* A turn of the assistant, by its fields.
Utterance == [text : Seq(Nat), tools : Seq(Nat)]
\* The utterance buffer.
Buffer ==
    [inUser : BOOLEAN, parts : Seq(Nat), last : Seq(Nat), committed : BOOLEAN,
     inTurn : BOOLEAN, now : Utterance, ended : Utterance]
\* Where a task can be.
Sites == {"rest", "boundary", "lock", "user", "assistant", "tool", "confirm", "running", "elicit",
          "results", "inject", "teardown"}
\* A task.
TaskRecord == [at : Sites, turn : Utterance, user : Seq(Nat), next : Int, notes : Int]
\* A row that a call stores.
CallRow == [who : {"user", "assistant", "results"}, text : Seq(Nat), tools : Seq(Nat)]
\* The counters.
Counts == [said : Nat, spoken : Nat, tools : Nat, barges : Nat, trouble : Nat, slots : Nat, marks : Nat]

\* The types of the manager's variables.
ManagerTypes ==
    /\ conns \in [Conns -> {"new", "accepting", "connecting", "running", "closing", "dropped", "gone"}]
    /\ slots \in Int /\ registered \in Conns \union {NoCall} /\ rewriting \in BOOLEAN /\ moved \in BOOLEAN

\* The types of the variables of a call.
TalkTypes ==
    /\ st \in {"listening", "thinking", "speaking", "interrupted", "tool_running", "closing"}
    /\ buf \in Buffer /\ task \in [Tasks -> TaskRecord] /\ rows \in Seq(CallRow)
    /\ lingering \in Int /\ inflight \in Int /\ count \in Counts

\* The registered connection is the one that runs or closes.
Seated ==
    /\ registered # NoCall => conns[registered] \in {"running", "closing"}
    /\ \A c \in Conns : conns[c] \in {"running", "closing"} => registered = c

\* The connections that hold a slot.
Slotted == {c \in Conns : conns[c] \in {"accepting", "connecting", "running", "closing"}}

\* What the manager keeps.
ManagerInv == ManagerTypes /\ Seated /\ CallsApart /\ count.slots \in Int /\ slots = Cardinality(Slotted) + count.slots

\* Where the tasks may be.
TaskPlaces ==
    /\ \A t \in Tasks : /\ ~Running => task[t].at \in {"rest", "teardown"}
                        /\ registered = NoCall => task[t].at = "rest"
                        /\ task[t].at \in {"rest", "boundary"} => task[t].turn = Quiet
    /\ task["client"].at # "boundary" /\ task["client"].turn.tools = <<>>

\* The state of the call while the provider's task handles a turn.
StateFits ==
    Running =>
      /\ task["provider"].at # "rest" => st \in {"listening", "tool_running"}
      /\ task["provider"].at \in {"rest", "teardown"} => st # "tool_running"

\* While the provider's task handles a turn no other begins; at a boundary the
\* turn that ended is the one in the buffer.
BoundaryFits ==
    /\ task["provider"].at # "rest" => ~buf.inTurn /\ buf.now = Quiet
    /\ task["provider"].at = "boundary" /\ st = "tool_running" => buf.ended.tools # <<>>

\* A task that holds an executor.
Inside(t) == IF task[t].at \in {"rest", "boundary", "lock"} THEN 0 ELSE 1

\* The turns in flight are those that hold an executor, or left a mark.
Counted == inflight = Inside("provider") + Inside("client") + lingering + count.marks

\* What the tasks keep.
TaskInv == TaskPlaces /\ StateFits /\ BoundaryFits /\ Counted /\ IdleDelivered

\* The row i, of who, has the text id.
InRow(who, id, i) == rows[i].who = who /\ id \in Ids(rows[i].text)
\* No row of who has it.
Unstored(who, id) == \A i \in DOMAIN rows : ~InRow(who, id, i)

\* The task t will store the user text u.
Takes(t, u) == task[t].at \in {"lock", "user"} /\ u \in Ids(task[t].user)

\* The user text u is in the buffer, and not stored yet.
Said(u) == u \in Ids(buf.parts) \/ (u \in Ids(buf.last) /\ ~buf.committed)

\* The user texts there are have been said.
UserIds ==
    /\ Ids(buf.parts) \union Ids(buf.last) \subseteq 1..count.said
    /\ \A t \in Tasks : Ids(task[t].user) \subseteq 1..count.said
    /\ \A i \in DOMAIN rows : rows[i].who = "user" => Ids(rows[i].text) \subseteq 1..count.said
    /\ Ids(buf.parts) \intersect Ids(buf.last) = {}
    /\ ~buf.inUser => buf.parts = <<>>

\* A user text is in one place.
UserPlaces ==
    \A u \in Nat \ reopened :
      /\ \A i, j \in DOMAIN rows : InRow("user", u, i) /\ InRow("user", u, j) => i = j
      /\ \A t \in Tasks : Takes(t, u) => Unstored("user", u)
      /\ ~(Takes("provider", u) /\ Takes("client", u))
      /\ Said(u) => Unstored("user", u) /\ ~Takes("provider", u) /\ ~Takes("client", u)

\* The task t will store the text s of the assistant.
Carries(t, s) == task[t].at \in {"lock", "user", "assistant"} /\ s \in Ids(task[t].turn.text)

\* The text s of the assistant is in the buffer, and will be handled.
Spoken(s) == s \in Ids(buf.now.text) \/ (task["provider"].at = "boundary" /\ s \in Ids(buf.ended.text))

\* The texts of the assistant there are have been spoken.
SpokenIds ==
    /\ Ids(buf.now.text) \union Ids(buf.ended.text) \subseteq 1..count.spoken
    /\ \A t \in Tasks : Ids(task[t].turn.text) \subseteq 1..count.spoken
    /\ \A i \in DOMAIN rows : rows[i].who = "assistant" => Ids(rows[i].text) \subseteq 1..count.spoken

\* A text of the assistant is in one place.
SpokenPlaces ==
    \A s \in Nat :
      /\ \A i, j \in DOMAIN rows : InRow("assistant", s, i) /\ InRow("assistant", s, j) => i = j
      /\ \A t \in Tasks : Carries(t, s) => Unstored("assistant", s)
      /\ ~(Carries("provider", s) /\ Carries("client", s))
      /\ Spoken(s) => Unstored("assistant", s) /\ ~Carries("provider", s) /\ ~Carries("client", s)

\* The tool call id is of a turn that is not stored yet.
Asked(id) ==
    \/ id \in Ids(buf.now.tools)
    \/ task["provider"].at = "boundary" /\ id \in Ids(buf.ended.tools)
    \/ task["provider"].at \in {"lock", "user", "assistant"} /\ id \in Ids(task["provider"].turn.tools)

\* The row i names the tool call id.
Names(id, i) == id \in Ids(rows[i].tools)

\* The tool calls there are have been counted.
ToolIds ==
    /\ Ids(buf.now.tools) \union Ids(buf.ended.tools) \subseteq 1..count.tools
    /\ Ids(task["provider"].turn.tools) \subseteq 1..count.tools
    /\ \A i \in DOMAIN rows : Ids(rows[i].tools) \subseteq 1..count.tools
    /\ \A id \in Nat : Asked(id) => \A i \in DOMAIN rows : ~Names(id, i)

\* The row of results is the last one that names a call.
Resulted(id) ==
    \E j \in DOMAIN rows : /\ rows[j].who = "results" /\ Names(id, j)
                           /\ \A i \in DOMAIN rows : Names(id, i) => i <= j

\* The provider's task still has the tool call id.
Open(id) == task["provider"].at # "teardown" /\ id \in Ids(task["provider"].turn.tools)

\* Where a stored tool call is.
ToolPlaces ==
    /\ task["provider"].at = "inject" => \A id \in Ids(task["provider"].turn.tools) : Resulted(id)
    /\ \A i \in DOMAIN rows : \A id \in Ids(rows[i].tools) :
          id \in unlucky \/ Open(id) \/ (id \in answered /\ Resulted(id))

\* The inductive invariant of the calls.
CallInv ==
    /\ ManagerInv /\ TalkTypes /\ TaskInv
    /\ UserIds /\ UserPlaces /\ SpokenIds /\ SpokenPlaces /\ ToolIds /\ ToolPlaces

\* What a step of a task does not touch, by kind: no user text that is not on its
\* way already, ...
UserQuiet ==
    /\ Ids(buf'.parts) \union Ids(buf'.last) \subseteq Ids(buf.parts) \union Ids(buf.last)
    /\ Ids(buf'.parts) \intersect Ids(buf'.last) = {}
    /\ ~buf'.inUser => buf'.parts = <<>>
    /\ \A u \in Nat : Said(u)' => Said(u)
    /\ \A t \in Tasks : /\ Ids(task'[t].user) \subseteq Ids(task[t].user)
                        /\ \A u \in Nat : Takes(t, u)' => Takes(t, u)
    /\ \A i \in DOMAIN rows' : rows'[i].who = "user" => i \in DOMAIN rows /\ rows'[i] = rows[i]
    /\ reopened \subseteq reopened' /\ count'.said >= count.said

\* ... no text of the assistant, ...
SpokenQuiet ==
    /\ Ids(buf'.now.text) \union Ids(buf'.ended.text) \subseteq Ids(buf.now.text) \union Ids(buf.ended.text)
    /\ \A s \in Nat : Spoken(s)' => Spoken(s)
    /\ \A t \in Tasks : /\ Ids(task'[t].turn.text) \subseteq Ids(task[t].turn.text)
                        /\ \A s \in Nat : Carries(t, s)' => Carries(t, s)
    /\ \A i \in DOMAIN rows' : rows'[i].who = "assistant" => i \in DOMAIN rows /\ rows'[i] = rows[i]
    /\ count'.spoken >= count.spoken

\* ... and no tool call.
ToolQuiet ==
    /\ Ids(buf'.now.tools) \union Ids(buf'.ended.tools) \subseteq Ids(buf.now.tools) \union Ids(buf.ended.tools)
    /\ \A id \in Nat : Asked(id)' => Asked(id)
    /\ Ids(task'["provider"].turn.tools) \subseteq Ids(task["provider"].turn.tools) \union Ids(buf.ended.tools)
    /\ \A id \in Nat : Open(id) => Open(id)' \/ id \in unlucky' \/ \A i \in DOMAIN rows : ~Names(id, i)
    /\ task'["provider"].at = "inject" => task["provider"].at = "inject" \/ task'["provider"].turn.tools = <<>>
    /\ task'["provider"].at = "inject" /\ task["provider"].at = "inject" => task'["provider"].turn = task["provider"].turn
    /\ \A i \in DOMAIN rows' : rows'[i].tools # <<>> => i \in DOMAIN rows /\ rows'[i] = rows[i]
    /\ \A i \in DOMAIN rows : i \in DOMAIN rows' /\ rows'[i] = rows[i]
    /\ unlucky \subseteq unlucky' /\ answered \subseteq answered' /\ count'.tools >= count.tools

\* A step that touches no user text keeps every user text in its one place.
LEMMA UserFrame ==
    ASSUME CallInv, TalkTypes', UserQuiet
    PROVE  UserIds' /\ UserPlaces'
<1>1. count.said \in Nat /\ count'.said \in Nat /\ Tasks = {"provider", "client"}
  BY DEF CallInv, TalkTypes, Counts, Tasks
<1>2. UserIds'
  <2>1. 1..count.said \subseteq 1..count'.said
    BY <1>1 DEF UserQuiet
  <2> QED BY <2>1 DEF CallInv, UserIds, UserQuiet
<1>3. UserPlaces'
  <2> SUFFICES ASSUME NEW u \in Nat, u \notin reopened'
      PROVE /\ \A i, j \in DOMAIN rows' : InRow("user", u, i)' /\ InRow("user", u, j)' => i = j
            /\ \A t \in Tasks : Takes(t, u)' => Unstored("user", u)'
            /\ ~(Takes("provider", u)' /\ Takes("client", u)')
            /\ Said(u)' => Unstored("user", u)' /\ ~Takes("provider", u)' /\ ~Takes("client", u)'
    BY DEF UserPlaces
  <2>1. u \notin reopened /\ (Said(u)' => Said(u)) /\ \A t \in Tasks : Takes(t, u)' => Takes(t, u)
    BY DEF UserQuiet
  <2>2. \A i \in DOMAIN rows' : InRow("user", u, i)' => i \in DOMAIN rows /\ InRow("user", u, i)
    BY DEF UserQuiet, InRow
  <2>3. /\ \A i, j \in DOMAIN rows : InRow("user", u, i) /\ InRow("user", u, j) => i = j
        /\ \A t \in Tasks : Takes(t, u) => Unstored("user", u)
        /\ ~(Takes("provider", u) /\ Takes("client", u))
        /\ Said(u) => Unstored("user", u) /\ ~Takes("provider", u) /\ ~Takes("client", u)
    BY <2>1 DEF CallInv, UserPlaces
  <2>4. Unstored("user", u) => Unstored("user", u)'
    BY <2>2 DEF Unstored
  <2> QED BY <1>1, <2>1, <2>2, <2>3, <2>4
<1> QED BY <1>2, <1>3

\* A step that touches no text of the assistant keeps each in its one place.
LEMMA SpokenFrame ==
    ASSUME CallInv, TalkTypes', SpokenQuiet
    PROVE  SpokenIds' /\ SpokenPlaces'
<1>1. count.spoken \in Nat /\ count'.spoken \in Nat /\ Tasks = {"provider", "client"}
  BY DEF CallInv, TalkTypes, Counts, Tasks
<1>2. SpokenIds'
  <2>1. 1..count.spoken \subseteq 1..count'.spoken
    BY <1>1 DEF SpokenQuiet
  <2> QED BY <2>1 DEF CallInv, SpokenIds, SpokenQuiet
<1>3. SpokenPlaces'
  <2> SUFFICES ASSUME NEW s \in Nat
      PROVE /\ \A i, j \in DOMAIN rows' : InRow("assistant", s, i)' /\ InRow("assistant", s, j)' => i = j
            /\ \A t \in Tasks : Carries(t, s)' => Unstored("assistant", s)'
            /\ ~(Carries("provider", s)' /\ Carries("client", s)')
            /\ Spoken(s)' => Unstored("assistant", s)' /\ ~Carries("provider", s)' /\ ~Carries("client", s)'
    BY DEF SpokenPlaces
  <2>1. (Spoken(s)' => Spoken(s)) /\ \A t \in Tasks : Carries(t, s)' => Carries(t, s)
    BY DEF SpokenQuiet
  <2>2. \A i \in DOMAIN rows' : InRow("assistant", s, i)' => i \in DOMAIN rows /\ InRow("assistant", s, i)
    BY DEF SpokenQuiet, InRow
  <2>3. /\ \A i, j \in DOMAIN rows : InRow("assistant", s, i) /\ InRow("assistant", s, j) => i = j
        /\ \A t \in Tasks : Carries(t, s) => Unstored("assistant", s)
        /\ ~(Carries("provider", s) /\ Carries("client", s))
        /\ Spoken(s) => Unstored("assistant", s) /\ ~Carries("provider", s) /\ ~Carries("client", s)
    BY DEF CallInv, SpokenPlaces
  <2>4. Unstored("assistant", s) => Unstored("assistant", s)'
    BY <2>2 DEF Unstored
  <2> QED BY <1>1, <2>1, <2>2, <2>3, <2>4
<1> QED BY <1>2, <1>3

\* A step that touches no tool call keeps every stored call open or answered.
LEMMA ToolFrame ==
    ASSUME CallInv, TalkTypes', ToolQuiet
    PROVE  ToolIds' /\ ToolPlaces'
<1>1. /\ count.tools \in Nat /\ count'.tools \in Nat /\ Ids(<<>>) = {} /\ 1..count.tools \subseteq 1..count'.tools
  <2>1. count.tools \in Nat /\ count'.tools \in Nat /\ count'.tools >= count.tools
    BY DEF CallInv, TalkTypes, Counts, ToolQuiet
  <2>2. Ids(<<>>) = {}
    BY DEF Ids
  <2> QED BY <2>1, <2>2
<1>2. \A i \in DOMAIN rows', id \in Nat : Names(id, i)' => i \in DOMAIN rows /\ Names(id, i)
  BY <1>1 DEF ToolQuiet, Names
<1>3. \A i \in DOMAIN rows, id \in Nat : Names(id, i) => i \in DOMAIN rows' /\ Names(id, i)'
  BY DEF ToolQuiet, Names
<1>4. ToolIds'
  <2>1. \A i \in DOMAIN rows' : Ids(rows'[i].tools) \subseteq 1..count'.tools
    <3> TAKE i \in DOMAIN rows'
    <3>1. CASE rows'[i].tools = <<>>
      BY <1>1, <3>1
    <3>2. CASE i \in DOMAIN rows /\ rows'[i] = rows[i]
      BY <1>1, <3>2 DEF CallInv, ToolIds
    <3> QED BY <3>1, <3>2 DEF ToolQuiet
  <2>2. \A id \in Nat : Asked(id)' => \A i \in DOMAIN rows' : ~Names(id, i)'
    BY <1>2 DEF CallInv, ToolIds, ToolQuiet
  <2>3. /\ Ids(buf'.now.tools) \union Ids(buf'.ended.tools) \subseteq 1..count'.tools
        /\ Ids(task'["provider"].turn.tools) \subseteq 1..count'.tools
    BY <1>1 DEF CallInv, ToolIds, ToolQuiet
  <2> QED BY <2>1, <2>2, <2>3 DEF ToolIds
<1>5. \A id \in Nat : Resulted(id) => Resulted(id)'
  <2> SUFFICES ASSUME NEW id \in Nat, Resulted(id) PROVE Resulted(id)'
    OBVIOUS
  <2>1. PICK j \in DOMAIN rows : /\ rows[j].who = "results" /\ Names(id, j)
                                 /\ \A i \in DOMAIN rows : Names(id, i) => i <= j
    BY DEF Resulted
  <2>2. j \in DOMAIN rows' /\ rows'[j].who = "results" /\ Names(id, j)'
    BY <1>3, <2>1 DEF ToolQuiet
  <2>3. \A i \in DOMAIN rows' : Names(id, i)' => i <= j
    BY <1>2, <2>1
  <2> QED BY <2>2, <2>3 DEF Resulted
<1>6. Ids(task["provider"].turn.tools) \subseteq Nat /\ Ids(task'["provider"].turn.tools) \subseteq Nat
  BY <1>1, <1>4 DEF CallInv, ToolIds
<1>7. ToolPlaces'
  <2>1. task'["provider"].at = "inject" => \A id \in Ids(task'["provider"].turn.tools) : Resulted(id)'
    BY <1>1, <1>5, <1>6 DEF CallInv, ToolPlaces, ToolQuiet
  <2>2. ASSUME NEW i \in DOMAIN rows', NEW id \in Ids(rows'[i].tools)
        PROVE id \in unlucky' \/ Open(id)' \/ (id \in answered' /\ Resulted(id)')
    <3>1. id \in Nat /\ i \in DOMAIN rows /\ Names(id, i)
      <4>1. id \in Nat /\ Names(id, i)'
        BY <1>1, <1>4, <2>2 DEF ToolIds, Names
      <4> QED BY <1>2, <4>1
    <3>2. id \in unlucky \/ Open(id) \/ (id \in answered /\ Resulted(id))
      BY <3>1 DEF CallInv, ToolPlaces, Names
    <3> QED BY <1>5, <3>1, <3>2 DEF ToolQuiet
  <2> QED BY <2>1, <2>2 DEF ToolPlaces
<1> QED BY <1>4, <1>7

\* The steps of the tasks leave the manager alone.
LEMMA ManagerFrame ==
    ASSUME CallInv, UNCHANGED managerVars, count'.slots = count.slots
    PROVE  ManagerInv' /\ Running' = Running
<1>1. /\ conns' = conns /\ slots' = slots /\ claimed' = claimed /\ registered' = registered
      /\ rewriting' = rewriting /\ moved' = moved
  BY DEF managerVars
<1>2. ManagerTypes' /\ Seated' /\ Slotted' = Slotted /\ Running' = Running
  BY <1>1 DEF CallInv, ManagerInv, ManagerTypes, Seated, Slotted, Running
<1>3. CallsApart'
  BY <1>1 DEF CallInv, ManagerInv, CallsApart, Calling
<1> QED BY <1>1, <1>2, <1>3 DEF CallInv, ManagerInv

\* A step of the manager that leaves the registered call alone leaves its talk
\* alone.
LEMMA TalkFrame ==
    ASSUME CallInv, UNCHANGED <<registered, callVars, lingering, inflight, historyVars>>, Running' = Running,
           count' \in Counts, count'.said = count.said, count'.spoken = count.spoken,
           count'.tools = count.tools, count'.marks = count.marks
    PROVE  /\ TalkTypes' /\ TaskInv'
           /\ UserIds' /\ UserPlaces' /\ SpokenIds' /\ SpokenPlaces' /\ ToolIds' /\ ToolPlaces'
<1>1. /\ st' = st /\ buf' = buf /\ idleQueue' = idleQueue /\ task' = task /\ registered' = registered
      /\ lingering' = lingering /\ inflight' = inflight /\ rows' = rows /\ answered' = answered
      /\ reopened' = reopened /\ unlucky' = unlucky
  BY DEF callVars, historyVars
<1>2. /\ TalkTypes /\ count.said \in Nat /\ count.spoken \in Nat /\ count.tools \in Nat
  BY DEF CallInv, TalkTypes, Counts
<1>3. TalkTypes'
  BY <1>1, <1>2 DEF TalkTypes
<1>4. TaskInv'
  <2>1. TaskPlaces' /\ StateFits' /\ BoundaryFits' /\ IdleDelivered'
    BY <1>1 DEF CallInv, TaskInv, TaskPlaces, StateFits, BoundaryFits, IdleDelivered
  <2>2. Counted'
    BY <1>1 DEF CallInv, TaskInv, Counted, Inside
  <2> QED BY <2>1, <2>2 DEF TaskInv
<1>5. UserQuiet
  BY <1>1, <1>2 DEF UserQuiet, CallInv, UserIds, Said, Takes
<1>6. SpokenQuiet
  BY <1>1, <1>2 DEF SpokenQuiet, Spoken, Carries
<1>7. ToolQuiet
  BY <1>1, <1>2 DEF ToolQuiet, Asked, Open
<1> QED BY <1>3, <1>4, <1>5, <1>6, <1>7, UserFrame, SpokenFrame, ToolFrame

\* The count of the slots follows the connections.
LEMMA SlotMoves ==
    ASSUME CallInv, NEW c \in Conns, NEW w, conns' = [conns EXCEPT ![c] = w]
    PROVE  /\ Cardinality(Slotted) \in Nat
           /\ c \notin Slotted /\ w \in {"accepting", "connecting", "running", "closing"} =>
                Cardinality(Slotted') = Cardinality(Slotted) + 1
           /\ c \in Slotted /\ w \notin {"accepting", "connecting", "running", "closing"} =>
                Cardinality(Slotted') = Cardinality(Slotted) - 1
           /\ (c \in Slotted <=> w \in {"accepting", "connecting", "running", "closing"}) => Slotted' = Slotted
<1>1. IsFiniteSet(Slotted) /\ Cardinality(Slotted) \in Nat
  <2>1. IsFiniteSet(Conns)
    BY CallAssumption, FS_Interval DEF Conns
  <2>2. IsFiniteSet(Slotted)
    BY <2>1, FS_Subset DEF Slotted
  <2> QED BY <2>2, FS_CardinalityType
<1>2. /\ DOMAIN conns = Conns /\ conns'[c] = w /\ \A d \in Conns : d # c => conns'[d] = conns[d]
  BY DEF CallInv, ManagerInv, ManagerTypes
<1>3. CASE c \notin Slotted /\ w \in {"accepting", "connecting", "running", "closing"}
  <2>1. Slotted' = Slotted \union {c}
    BY <1>2, <1>3 DEF Slotted
  <2> QED BY <1>1, <1>3, <2>1, FS_AddElement
<1>4. CASE c \in Slotted /\ w \notin {"accepting", "connecting", "running", "closing"}
  <2>1. Slotted' = Slotted \ {c}
    BY <1>2, <1>4 DEF Slotted
  <2> QED BY <1>1, <1>4, <2>1, FS_RemoveElement
<1>5. CASE c \in Slotted <=> w \in {"accepting", "connecting", "running", "closing"}
  <2>1. Slotted' = Slotted
    BY <1>2, <1>5 DEF Slotted
  <2> QED BY <1>1, <1>5, <2>1
<1> QED BY <1>1, <1>3, <1>4, <1>5

\* A connection that is not registered changes, and the call does not.
LEMMA OtherConn ==
    ASSUME CallInv, NEW c \in Conns, conns[c] \notin {"running", "closing"},
           NEW w \in {"accepting", "connecting", "gone"},
           conns' = [conns EXCEPT ![c] = w], registered' = registered
    PROVE  /\ Running' = Running /\ Seated'
           /\ conns' \in [Conns -> {"new", "accepting", "connecting", "running", "closing", "dropped", "gone"}]
           /\ \A d \in Conns : d # c => conns'[d] = conns[d]
           /\ conns'[c] = w
<1>1. /\ DOMAIN conns = Conns /\ conns'[c] = w /\ \A d \in Conns : d # c => conns'[d] = conns[d]
      /\ conns' \in [Conns -> {"new", "accepting", "connecting", "running", "closing", "dropped", "gone"}]
  BY DEF CallInv, ManagerInv, ManagerTypes
<1>2. registered \in Conns \union {NoCall} /\ registered # c
  <2>1. registered \in Conns \union {NoCall} /\ NoCall \notin Conns
    BY CallAssumption DEF CallInv, ManagerInv, ManagerTypes, NoCall, Conns
  <2> QED BY <2>1 DEF CallInv, ManagerInv, Seated
<1>3. Running' = Running
  BY <1>1, <1>2 DEF Running
<1>4. Seated'
  BY <1>1, <1>2 DEF CallInv, ManagerInv, Seated
<1> QED BY <1>1, <1>3, <1>4

\* A connection that takes a slot, or finds none, keeps the invariant
\* (RealtimeSessionManager.acquire_slot).
LEMMA AcquireSlotInv ==
    ASSUME CallInv, NEW c \in Conns, AcquireSlot(c)
    PROVE  CallInv'
<1>1. PICK w \in {"accepting", "gone"} :
         conns' = [conns EXCEPT ![c] = w] /\ slots' = IF w = "gone" THEN slots ELSE slots + 1
  BY DEF AcquireSlot
<1>2. /\ conns[c] = "new" /\ UNCHANGED <<claimed, registered, rewriting, moved, callVars, lingering, inflight, historyVars, count>>
  BY DEF AcquireSlot
<1>3. /\ Running' = Running /\ Seated' /\ conns'[c] = w /\ \A d \in Conns : d # c => conns'[d] = conns[d]
      /\ conns' \in [Conns -> {"new", "accepting", "connecting", "running", "closing", "dropped", "gone"}]
  BY <1>1, <1>2, OtherConn
<1>4. slots' = Cardinality(Slotted') + count'.slots
  <2>1. c \notin Slotted /\ slots = Cardinality(Slotted) + count.slots /\ count.slots \in Int
    BY <1>2 DEF Slotted, CallInv, ManagerInv
  <2>2. CASE w = "gone"
    <3>1. Slotted' = Slotted
      BY <1>1, <2>1, <2>2, SlotMoves
    <3> QED BY <1>1, <1>2, <2>1, <2>2, <3>1
  <2>3. CASE w = "accepting"
    <3>1. Cardinality(Slotted) \in Nat /\ Cardinality(Slotted') = Cardinality(Slotted) + 1
      BY <1>1, <2>1, <2>3, SlotMoves
    <3> QED BY <1>1, <1>2, <2>1, <2>3, <3>1
  <2> QED BY <2>2, <2>3
<1>5. CallsApart'
  BY <1>1, <1>2, <1>3 DEF CallInv, ManagerInv, CallsApart, Calling
<1>6. ManagerInv'
  BY <1>1, <1>2, <1>3, <1>4, <1>5 DEF CallInv, ManagerInv, ManagerTypes
<1>7. count' \in Counts
  BY <1>2 DEF CallInv, TalkTypes
<1> QED BY <1>2, <1>3, <1>6, <1>7, TalkFrame DEF CallInv

\* A client that leaves before the handshake keeps it: the lost slot is counted.
LEMMA AcceptFailsInv ==
    ASSUME CallInv, NEW c \in Conns, AcceptFails(c)
    PROVE  CallInv'
<1>1. /\ conns[c] = "accepting" /\ conns' = [conns EXCEPT ![c] = "gone"]
      /\ UNCHANGED <<slots, claimed, registered, rewriting, moved, callVars, lingering, inflight, historyVars>>
  BY DEF AcceptFails
<1>2. /\ count' \in Counts /\ count'.said = count.said /\ count'.spoken = count.spoken
      /\ count'.tools = count.tools /\ count'.marks = count.marks /\ count'.slots = count.slots + 1
  <2>1. PICK one : one = [count EXCEPT !.trouble = count.trouble + 1]
    OBVIOUS
  <2>2. count \in Counts
    BY DEF CallInv, TalkTypes
  <2>3. /\ one \in Counts /\ one.said = count.said /\ one.spoken = count.spoken /\ one.tools = count.tools
        /\ one.marks = count.marks /\ one.slots = count.slots
    BY <2>1, <2>2 DEF Counts
  <2>4. count' = [one EXCEPT !.slots = one.slots + 1]
    BY <2>1, <2>2 DEF AcceptFails, Counts
  <2> QED BY <2>2, <2>3, <2>4 DEF Counts
<1>3. /\ Running' = Running /\ Seated' /\ conns'[c] = "gone" /\ \A d \in Conns : d # c => conns'[d] = conns[d]
      /\ conns' \in [Conns -> {"new", "accepting", "connecting", "running", "closing", "dropped", "gone"}]
  BY <1>1, OtherConn
<1>4. slots' = Cardinality(Slotted') + count'.slots
  <2>1. c \in Slotted /\ slots = Cardinality(Slotted) + count.slots /\ count.slots \in Int
    BY <1>1 DEF Slotted, CallInv, ManagerInv
  <2>2. PICK w \in {"gone"} : conns' = [conns EXCEPT ![c] = w]
    BY <1>1
  <2>3. Cardinality(Slotted) \in Nat /\ Cardinality(Slotted') = Cardinality(Slotted) - 1
    BY <1>1, <2>1, <2>2, SlotMoves
  <2> QED BY <1>1, <1>2, <2>1, <2>3
<1>5. CallsApart'
  BY <1>1, <1>3 DEF CallInv, ManagerInv, CallsApart, Calling
<1>6. ManagerInv'
  BY <1>1, <1>2, <1>3, <1>4, <1>5 DEF CallInv, ManagerInv, ManagerTypes, Counts
<1> QED BY <1>1, <1>2, <1>3, <1>6, TalkFrame DEF CallInv

\* The claim keeps it: no other connection calls, and no rewrite runs.
LEMMA ClaimInv ==
    ASSUME CallInv, NEW c \in Conns, Claim(c)
    PROVE  CallInv'
<1>1. PICK w \in {"connecting", "gone"} :
         /\ conns' = [conns EXCEPT ![c] = w]
         /\ w = "gone" => slots' = slots - 1 /\ claimed' = claimed /\ moved' = moved
         /\ w = "connecting" => ~rewriting /\ claimed = NoCall /\ claimed' = c /\ moved' = FALSE /\ slots' = slots
  BY DEF Claim
<1>2. /\ conns[c] = "accepting" /\ UNCHANGED <<registered, rewriting, callVars, lingering, inflight, historyVars, count>>
  BY DEF Claim
<1>3. /\ Running' = Running /\ Seated' /\ conns'[c] = w /\ \A d \in Conns : d # c => conns'[d] = conns[d]
      /\ conns' \in [Conns -> {"new", "accepting", "connecting", "running", "closing", "dropped", "gone"}]
  BY <1>1, <1>2, OtherConn
<1>4. slots' = Cardinality(Slotted') + count'.slots
  <2>1. c \in Slotted /\ slots = Cardinality(Slotted) + count.slots /\ count.slots \in Int
    BY <1>2 DEF Slotted, CallInv, ManagerInv
  <2>2. CASE w = "gone"
    <3>1. Cardinality(Slotted) \in Nat /\ Cardinality(Slotted') = Cardinality(Slotted) - 1
      BY <1>1, <2>1, <2>2, SlotMoves
    <3> QED BY <1>1, <1>2, <2>1, <2>2, <3>1
  <2>3. CASE w = "connecting"
    <3>1. Slotted' = Slotted
      BY <1>1, <2>1, <2>3, SlotMoves
    <3> QED BY <1>1, <1>2, <2>1, <2>3, <3>1
  <2> QED BY <2>2, <2>3
<1>5. CallsApart'
  <2>1. NoCall \notin Conns
    BY DEF NoCall, Conns
  <2>2. \A d \in Conns : Calling(d) => ~rewriting /\ ~moved /\ claimed = d
    BY DEF CallInv, ManagerInv, CallsApart
  <2> QED BY <1>1, <1>2, <1>3, <2>1, <2>2 DEF CallsApart, Calling
<1>6. moved' \in BOOLEAN /\ slots' \in Int
  <2>1. slots \in Int /\ moved \in BOOLEAN
    BY DEF CallInv, ManagerInv, ManagerTypes
  <2>2. CASE w = "gone"
    BY <1>1, <2>1, <2>2
  <2>3. CASE w = "connecting"
    BY <1>1, <2>1, <2>3
  <2> QED BY <2>2, <2>3
<1>7. ManagerInv'
  BY <1>2, <1>3, <1>4, <1>5, <1>6 DEF CallInv, ManagerInv, ManagerTypes
<1>8. count' \in Counts
  BY <1>2 DEF CallInv, TalkTypes
<1> QED BY <1>2, <1>3, <1>7, <1>8, TalkFrame DEF CallInv

\* A provider that cannot be reached keeps it: slot and claim go back.
LEMMA ConnectFailsInv ==
    ASSUME CallInv, NEW c \in Conns, ConnectFails(c)
    PROVE  CallInv'
<1>1. /\ conns[c] = "connecting" /\ conns' = [conns EXCEPT ![c] = "gone"] /\ slots' = slots - 1
      /\ claimed' = IF claimed = c THEN NoCall ELSE claimed
      /\ UNCHANGED <<registered, rewriting, moved, callVars, lingering, inflight, historyVars>>
  BY DEF ConnectFails
<1>2. /\ count' \in Counts /\ count'.said = count.said /\ count'.spoken = count.spoken
      /\ count'.tools = count.tools /\ count'.marks = count.marks /\ count'.slots = count.slots
  <2>1. count \in Counts
    BY DEF CallInv, TalkTypes
  <2> QED BY <2>1 DEF ConnectFails, Trouble, Counts
<1>3. /\ Running' = Running /\ Seated' /\ conns'[c] = "gone" /\ \A d \in Conns : d # c => conns'[d] = conns[d]
      /\ conns' \in [Conns -> {"new", "accepting", "connecting", "running", "closing", "dropped", "gone"}]
  BY <1>1, OtherConn
<1>4. slots' = Cardinality(Slotted') + count'.slots
  <2>1. c \in Slotted /\ slots = Cardinality(Slotted) + count.slots /\ count.slots \in Int
    BY <1>1 DEF Slotted, CallInv, ManagerInv
  <2>2. PICK w \in {"gone"} : conns' = [conns EXCEPT ![c] = w]
    BY <1>1
  <2>3. Cardinality(Slotted) \in Nat /\ Cardinality(Slotted') = Cardinality(Slotted) - 1
    BY <1>1, <2>1, <2>2, SlotMoves
  <2> QED BY <1>1, <1>2, <2>1, <2>3
<1>5. CallsApart'
  <2>1. \A d \in Conns : Calling(d) => ~rewriting /\ ~moved /\ claimed = d
    BY DEF CallInv, ManagerInv, CallsApart
  <2>2. Calling(c)
    BY <1>1 DEF Calling
  <2> QED BY <1>1, <1>3, <2>1, <2>2 DEF CallsApart, Calling
<1>6. ManagerInv'
  BY <1>1, <1>2, <1>3, <1>4, <1>5 DEF CallInv, ManagerInv, ManagerTypes, Counts
<1> QED BY <1>1, <1>2, <1>3, <1>6, TalkFrame DEF CallInv

\* A rewrite of the history keeps it: it begins when nobody calls.
LEMMA RewriteInv ==
    ASSUME CallInv, BeginRewrite \/ EndRewrite
    PROVE  CallInv'
<1>1. UNCHANGED <<conns, slots, claimed, registered, callVars, lingering, inflight, historyVars, count>>
  BY DEF BeginRewrite, EndRewrite
<1>2. Running' = Running /\ Seated' /\ Slotted' = Slotted /\ \A c \in Conns : Calling(c)' = Calling(c)
  BY <1>1 DEF Running, CallInv, ManagerInv, Seated, Slotted, Calling
<1>3. \A d \in Conns : Calling(d) => ~rewriting /\ ~moved /\ claimed = d
  BY DEF CallInv, ManagerInv, CallsApart
<1>4. rewriting' \in BOOLEAN /\ moved' \in BOOLEAN /\ \A c \in Conns : ~Calling(c)
  <2>1. NoCall \notin Conns
    BY DEF NoCall, Conns
  <2>2. CASE BeginRewrite
    BY <1>3, <2>1, <2>2 DEF BeginRewrite, CallInv, ManagerInv, ManagerTypes
  <2>3. CASE EndRewrite
    <3>1. rewriting' = FALSE /\ \A c \in Conns : ~Calling(c)
      BY <1>3, <2>3 DEF EndRewrite
    <3>2. moved' = \E c \in Conns : Calling(c)
      BY <2>3 DEF EndRewrite
    <3> QED BY <3>1, <3>2
  <2> QED BY <2>2, <2>3
<1>5. CallsApart'
  BY <1>2, <1>4 DEF CallsApart
<1>6. ManagerInv'
  BY <1>1, <1>2, <1>4, <1>5 DEF CallInv, ManagerInv, ManagerTypes
<1>7. count' \in Counts
  BY <1>1 DEF CallInv, TalkTypes
<1> QED BY <1>1, <1>2, <1>6, <1>7, TalkFrame DEF CallInv

\* What the empty turn, buffer and task are.
LEMMA Empties ==
    /\ Quiet \in Utterance /\ Fresh \in Buffer /\ Rest \in TaskRecord /\ Ids(<<>>) = {}
    /\ Quiet.text = <<>> /\ Quiet.tools = <<>> /\ Rest.at = "rest" /\ Rest.turn = Quiet /\ Rest.user = <<>>
    /\ ~Fresh.inUser /\ Fresh.parts = <<>> /\ Fresh.last = <<>> /\ ~Fresh.inTurn /\ Fresh.now = Quiet /\ Fresh.ended = Quiet
<1>1. <<>> \in Seq(Nat) /\ <<>> \in Seq(CallRow)
  OBVIOUS
<1>2. Quiet \in Utterance /\ Quiet.text = <<>> /\ Quiet.tools = <<>>
  BY <1>1 DEF Quiet, Utterance
<1>3. /\ Fresh \in Buffer
      /\ ~Fresh.inUser /\ Fresh.parts = <<>> /\ Fresh.last = <<>> /\ ~Fresh.inTurn /\ Fresh.now = Quiet /\ Fresh.ended = Quiet
  BY <1>1, <1>2 DEF Fresh, Buffer
<1>4. Rest \in TaskRecord /\ Rest.at = "rest" /\ Rest.turn = Quiet /\ Rest.user = <<>>
  BY <1>1, <1>2 DEF Rest, TaskRecord, Sites
<1>5. Ids(<<>>) = {}
  BY DEF Ids
<1> QED BY <1>2, <1>3, <1>4, <1>5

\* The registration keeps it: the call begins with an empty buffer.
LEMMA RegisterInv ==
    ASSUME CallInv, NEW c \in Conns, Register(c)
    PROVE  CallInv'
<1>1. /\ conns[c] = "connecting" /\ registered = NoCall
      /\ conns' = [conns EXCEPT ![c] = "running"] /\ registered' = c
      /\ st' = "listening" /\ buf' = Fresh /\ idleQueue' = 0
      /\ slots' = slots /\ claimed' = claimed /\ rewriting' = rewriting /\ moved' = moved
      /\ task' = task /\ lingering' = lingering /\ inflight' = inflight
      /\ rows' = rows /\ answered' = answered /\ reopened' = reopened /\ unlucky' = unlucky /\ count' = count
  BY DEF Register, historyVars
<1>2. /\ ManagerTypes /\ Seated /\ TalkTypes /\ TaskPlaces
  BY DEF CallInv, ManagerInv, TaskInv
<1>3. /\ conns'[c] = "running" /\ \A d \in Conns : d # c => conns'[d] = conns[d]
      /\ conns' \in [Conns -> {"new", "accepting", "connecting", "running", "closing", "dropped", "gone"}]
  BY <1>1, <1>2 DEF ManagerTypes
<1>4. NoCall \notin Conns
  BY DEF NoCall, Conns
<1>5. ManagerInv'
  <2>1. Seated'
    BY <1>1, <1>2, <1>3, <1>4 DEF Seated
  <2>2. Slotted' = Slotted
    BY <1>1, <1>3 DEF Slotted
  <2>3. CallsApart'
    BY <1>1, <1>3 DEF CallInv, ManagerInv, CallsApart, Calling
  <2>4. ManagerTypes'
    BY <1>1, <1>2, <1>3 DEF ManagerTypes
  <2> QED BY <1>1, <2>1, <2>2, <2>3, <2>4 DEF CallInv, ManagerInv
<1>6. TalkTypes'
  BY <1>1, <1>2, Empties DEF TalkTypes
<1>7. \A t \in Tasks : task[t].at = "rest" /\ task[t].turn = Quiet
  BY <1>1, <1>2 DEF TaskPlaces
<1>8. "provider" \in Tasks /\ "client" \in Tasks
  BY DEF Tasks
<1>9. TaskInv'
  <2>1. TaskPlaces'
    BY <1>1, <1>2, <1>4, <1>7, <1>8 DEF TaskPlaces
  <2>2. StateFits' /\ BoundaryFits' /\ IdleDelivered'
    BY <1>1, <1>7, <1>8 DEF StateFits, BoundaryFits, IdleDelivered
  <2>3. Counted'
    BY <1>1 DEF CallInv, TaskInv, Counted, Inside
  <2> QED BY <2>1, <2>2, <2>3 DEF TaskInv
<1>10. count.said \in Nat /\ count.spoken \in Nat /\ count.tools \in Nat
  BY <1>2 DEF TalkTypes, Counts
<1>11. UserQuiet
  BY <1>1, <1>10, Empties DEF UserQuiet, Said, Takes
<1>12. SpokenQuiet
  BY <1>1, <1>7, <1>8, <1>10, Empties DEF SpokenQuiet, Spoken, Carries
<1>13. ToolQuiet
  BY <1>1, <1>7, <1>8, <1>10, Empties DEF ToolQuiet, Asked, Open
<1> QED BY <1>5, <1>6, <1>9, <1>11, <1>12, <1>13, UserFrame, SpokenFrame, ToolFrame DEF CallInv

\* A task that is cancelled has its executor to close, or nothing.
LEMMA CancelledIs ==
    ASSUME NEW k \in TaskRecord
    PROVE  /\ Cancelled(k) \in TaskRecord
           /\ k.at \in {"rest", "boundary", "lock"} => Cancelled(k) = Rest
           /\ k.at \notin {"rest", "boundary", "lock"} =>
                Cancelled(k).at = "teardown" /\ Cancelled(k).turn = k.turn /\ Cancelled(k).user = k.user
<1>1. CASE k.at \in {"rest", "boundary", "lock"}
  BY <1>1, Empties DEF Cancelled
<1>2. CASE k.at \notin {"rest", "boundary", "lock"}
  <2>1. Cancelled(k) = [k EXCEPT !.at = "teardown"] /\ "teardown" \in Sites
    BY <1>2 DEF Cancelled, Sites
  <2> QED BY <1>2, <2>1 DEF TaskRecord
<1> QED BY <1>1, <1>2

\* The end of a call keeps it, whichever tasks are left to close their executor.
LEMMA EndCallInv ==
    ASSUME CallInv, registered # NoCall, NEW tasks \in [Tasks -> TaskRecord], EndCall(tasks),
           \A t \in Tasks : \/ tasks[t] = Rest
                            \/ tasks[t].at = "teardown" /\ tasks[t].turn = task[t].turn /\ tasks[t].user = task[t].user,
           UNCHANGED <<slots, claimed, registered, rewriting, moved, st, idleQueue, lingering, inflight>>,
           count' \in Counts, count'.said = count.said, count'.spoken = count.spoken,
           count'.tools = count.tools, count'.slots = count.slots, Counted'
    PROVE  CallInv'
<1>1. /\ conns' = [conns EXCEPT ![registered] = "closing"] /\ task' = tasks
      /\ buf' = Fresh /\ rows' = <<>> /\ answered' = {} /\ reopened' = {} /\ unlucky' = {}
  BY DEF EndCall
<1>2. /\ ManagerTypes /\ Seated /\ TalkTypes /\ TaskPlaces /\ registered \in Conns
      /\ conns[registered] \in {"running", "closing"}
  BY DEF CallInv, ManagerInv, TaskInv, ManagerTypes, Seated
<1>3. /\ conns'[registered] = "closing" /\ \A d \in Conns : d # registered => conns'[d] = conns[d]
      /\ conns' \in [Conns -> {"new", "accepting", "connecting", "running", "closing", "dropped", "gone"}]
  BY <1>1, <1>2 DEF ManagerTypes
<1>4. ManagerInv'
  <2>1. Seated'
    BY <1>2, <1>3 DEF Seated
  <2>2. Slotted' = Slotted
    BY <1>2, <1>3 DEF Slotted
  <2>3. CallsApart'
    BY <1>2, <1>3 DEF CallInv, ManagerInv, CallsApart, Calling
  <2>4. ManagerTypes'
    BY <1>2, <1>3 DEF ManagerTypes
  <2> QED BY <2>1, <2>2, <2>3, <2>4 DEF CallInv, ManagerInv
<1>5. TalkTypes'
  <2>1. <<>> \in Seq(CallRow)
    OBVIOUS
  <2> QED BY <1>1, <1>2, <2>1, Empties DEF TalkTypes
<1>6. "provider" \in Tasks /\ "client" \in Tasks /\ DOMAIN rows' = {} /\ ~Running'
  <2>1. DOMAIN rows' = {}
    BY <1>1
  <2>2. ~Running'
    BY <1>3 DEF Running
  <2> QED BY <2>1, <2>2 DEF Tasks
<1>7. \A t \in Tasks : \/ task'[t].at = "rest" /\ task'[t].turn = Quiet /\ task'[t].user = <<>>
                       \/ task'[t].at = "teardown" /\ task'[t].turn = task[t].turn /\ task'[t].user = task[t].user
  BY <1>1, Empties
<1>8. TaskInv'
  <2>1. TaskPlaces'
    BY <1>2, <1>6, <1>7, Empties DEF TaskPlaces
  <2>2. StateFits' /\ BoundaryFits' /\ IdleDelivered'
    BY <1>1, <1>6, <1>7, Empties DEF StateFits, BoundaryFits, IdleDelivered
  <2> QED BY <2>1, <2>2 DEF TaskInv
<1>9. UserIds' /\ UserPlaces'
  <2>1. UserIds'
    BY <1>1, <1>6, <1>7, Empties DEF CallInv, UserIds
  <2>2. \A u \in Nat : ~Said(u)' /\ \A t \in Tasks : ~Takes(t, u)'
    BY <1>1, <1>7, Empties DEF Said, Takes
  <2>3. UserPlaces'
    BY <1>6, <2>2 DEF UserPlaces
  <2> QED BY <2>1, <2>3
<1>10. SpokenIds' /\ SpokenPlaces'
  <2>1. SpokenIds'
    BY <1>1, <1>6, <1>7, Empties DEF CallInv, SpokenIds
  <2>2. \A s \in Nat : ~Spoken(s)' /\ \A t \in Tasks : ~Carries(t, s)'
    BY <1>1, <1>6, <1>7, Empties DEF Spoken, Carries
  <2>3. SpokenPlaces'
    BY <1>6, <2>2 DEF SpokenPlaces
  <2> QED BY <2>1, <2>3
<1>11. ToolIds' /\ ToolPlaces'
  <2>1. ToolIds'
    BY <1>1, <1>6, <1>7, Empties DEF CallInv, ToolIds
  <2>2. ToolPlaces'
    BY <1>6, <1>7 DEF ToolPlaces
  <2> QED BY <2>1, <2>2
<1> QED BY <1>4, <1>5, <1>8, <1>9, <1>10, <1>11 DEF CallInv

\* A call that ends by itself keeps the invariant.
LEMMA CallEndsInv ==
    ASSUME CallInv, CallEnds
    PROVE  CallInv'
<1> DEFINE tasks == [t \in Tasks |-> Cancelled(task[t])]
<1>1. /\ Running /\ EndCall(tasks)
      /\ UNCHANGED <<slots, claimed, registered, rewriting, moved, st, idleQueue, lingering, inflight, count>>
  BY DEF CallEnds
<1>2. registered # NoCall /\ task \in [Tasks -> TaskRecord] /\ count \in Counts
  BY <1>1 DEF Running, CallInv, TalkTypes
<1>3. /\ tasks \in [Tasks -> TaskRecord]
      /\ \A t \in Tasks : \/ tasks[t] = Rest /\ task[t].at \in {"rest", "boundary", "lock"}
                          \/ /\ tasks[t].at = "teardown" /\ tasks[t].turn = task[t].turn /\ tasks[t].user = task[t].user
                             /\ task[t].at \notin {"rest", "boundary", "lock"}
  BY <1>2, CancelledIs
<1>4. task' = tasks
  BY <1>1 DEF EndCall
<1> HIDE DEF tasks
<1>5. Counted'
  BY <1>1, <1>3, <1>4, Empties DEF CallInv, TaskInv, Counted, Inside, Tasks
<1> QED BY <1>1, <1>2, <1>3, <1>5, EndCallInv

\* An executor that cannot be closed keeps it: its mark is counted.
LEMMA TeardownLeaksInv ==
    ASSUME CallInv, NEW t \in Tasks, TeardownLeaks(t)
    PROVE  CallInv'
<1> DEFINE tasks == [u \in Tasks |-> IF u = t THEN Rest ELSE Cancelled(task[u])]
<1>1. /\ task[t].at = "teardown" /\ EndCall(tasks)
      /\ UNCHANGED <<slots, claimed, registered, rewriting, moved, st, idleQueue, lingering, inflight>>
  BY DEF TeardownLeaks
<1>2. registered # NoCall /\ task \in [Tasks -> TaskRecord] /\ count \in Counts
  BY <1>1 DEF CallInv, TalkTypes, TaskInv, TaskPlaces
<1>3. /\ tasks \in [Tasks -> TaskRecord]
      /\ \A u \in Tasks \ {t} :
            \/ tasks[u] = Rest /\ task[u].at \in {"rest", "boundary", "lock"}
            \/ /\ tasks[u].at = "teardown" /\ tasks[u].turn = task[u].turn /\ tasks[u].user = task[u].user
               /\ task[u].at \notin {"rest", "boundary", "lock"}
      /\ tasks[t] = Rest
  BY <1>2, CancelledIs, Empties
<1>4. task' = tasks
  BY <1>1 DEF EndCall
<1>5. /\ count' \in Counts /\ count'.said = count.said /\ count'.spoken = count.spoken /\ count'.slots = count.slots
      /\ count'.tools = count.tools /\ count'.marks = count.marks + 1
  <2>1. PICK one : one = [count EXCEPT !.trouble = count.trouble + 1]
    OBVIOUS
  <2>3. /\ one \in Counts /\ one.said = count.said /\ one.spoken = count.spoken /\ one.tools = count.tools
        /\ one.marks = count.marks /\ one.slots = count.slots
    BY <1>2, <2>1 DEF Counts
  <2>4. count' = [one EXCEPT !.marks = one.marks + 1]
    BY <1>2, <2>1 DEF TeardownLeaks, Counts
  <2> QED BY <1>2, <2>3, <2>4 DEF Counts
<1> HIDE DEF tasks
<1>6. Counted'
  <2>1. count.marks \in Nat /\ inflight \in Int /\ lingering \in Int
    BY <1>2 DEF Counts, CallInv, TalkTypes
  <2>2. CASE t = "provider"
    BY <1>1, <1>3, <1>4, <1>5, <2>1, <2>2, Empties DEF CallInv, TaskInv, Counted, Inside, Tasks
  <2>3. CASE t = "client"
    BY <1>1, <1>3, <1>4, <1>5, <2>1, <2>3, Empties DEF CallInv, TaskInv, Counted, Inside, Tasks
  <2> QED BY <2>2, <2>3 DEF Tasks
<1> QED BY <1>1, <1>2, <1>3, <1>5, <1>6, EndCallInv

\* _close_session keeps it: the tasks that are left become lingering handlers.
LEMMA CloseSessionInv ==
    ASSUME CallInv, CloseSession
    PROVE  CallInv'
<1> DEFINE left == {t \in Tasks : task[t].at = "teardown"}
<1>1. /\ registered # NoCall /\ conns[registered] = "closing"
      /\ conns' = [conns EXCEPT ![registered] = "gone"] /\ registered' = NoCall /\ claimed' = NoCall
      /\ slots' = slots - 1 /\ st' = "closing" /\ idleQueue' = 0
      /\ task' = [t \in Tasks |-> Rest] /\ lingering' = lingering + Cardinality(left)
      /\ rewriting' = rewriting /\ moved' = moved /\ buf' = buf /\ inflight' = inflight /\ count' = count
      /\ rows' = rows /\ answered' = answered /\ reopened' = reopened /\ unlucky' = unlucky
  BY DEF CloseSession, historyVars
<1>2. /\ ManagerTypes /\ Seated /\ TalkTypes /\ TaskPlaces /\ registered \in Conns /\ ~Running
      /\ "provider" \in Tasks /\ "client" \in Tasks
  BY <1>1 DEF CallInv, ManagerInv, TaskInv, ManagerTypes, Running, Tasks
<1>3. /\ conns'[registered] = "gone" /\ \A d \in Conns : d # registered => conns'[d] = conns[d]
      /\ conns' \in [Conns -> {"new", "accepting", "connecting", "running", "closing", "dropped", "gone"}]
  BY <1>1, <1>2 DEF ManagerTypes
<1>4. ManagerInv'
  <2>1. Seated'
    BY <1>1, <1>2, <1>3 DEF Seated
  <2>2. slots' = Cardinality(Slotted') + count'.slots
    <3>1. registered \in Slotted /\ slots = Cardinality(Slotted) + count.slots /\ count.slots \in Int
      BY <1>1, <1>2 DEF Slotted, CallInv, ManagerInv
    <3>2. PICK w \in {"gone"} : conns' = [conns EXCEPT ![registered] = w]
      BY <1>1
    <3>3. Cardinality(Slotted) \in Nat /\ Cardinality(Slotted') = Cardinality(Slotted) - 1
      BY <1>2, <3>1, <3>2, SlotMoves
    <3> QED BY <1>1, <3>1, <3>3
  <2>3. CallsApart'
    <3>1. \A d \in Conns : Calling(d) => claimed = d
      BY DEF CallInv, ManagerInv, CallsApart
    <3>2. Calling(registered)
      BY <1>1 DEF Calling
    <3>3. \A d \in Conns : ~Calling(d)'
      BY <1>2, <1>3, <3>1, <3>2 DEF Calling
    <3> QED BY <3>3 DEF CallsApart
  <2>4. ManagerTypes'
    BY <1>1, <1>2, <1>3 DEF ManagerTypes
  <2> QED BY <1>1, <2>1, <2>2, <2>3, <2>4 DEF CallInv, ManagerInv
<1>5. /\ \A t \in Tasks : task[t].at \in {"rest", "teardown"} /\ (task[t].at = "rest" => task[t].turn = Quiet)
      /\ \A t \in Tasks : task'[t] = Rest
  BY <1>1, <1>2 DEF TaskPlaces
<1>6. Cardinality(left) = Inside("provider") + Inside("client") /\ Cardinality(left) \in Int
  <2>0. Tasks = {"provider", "client"}
    BY DEF Tasks
  <2>1. CASE task["provider"].at = "teardown" /\ task["client"].at = "teardown"
    <3>1. PICK p \in {"provider"}, k \in {"client"} : left = {p} \union {k} /\ k \notin {p}
      BY <2>0, <2>1
    <3>2. IsFiniteSet({p}) /\ Cardinality({p}) = 1
      BY FS_Singleton
    <3>3. Cardinality({p} \union {k}) = Cardinality({p}) + 1
      BY <3>1, <3>2, FS_AddElement
    <3> QED BY <2>1, <3>1, <3>2, <3>3 DEF Inside
  <2>2. CASE task["provider"].at = "teardown" /\ task["client"].at = "rest"
    <3>1. PICK t \in {"provider"} : left = {t}
      BY <2>0, <2>2
    <3>2. Cardinality({t}) = 1
      BY FS_Singleton
    <3>3. Inside("provider") = 1 /\ Inside("client") = 0
      BY <2>2 DEF Inside
    <3>4. Cardinality(left) = 1
      BY <3>1, <3>2
    <3> QED BY <3>3, <3>4
  <2>3. CASE task["provider"].at = "rest" /\ task["client"].at = "teardown"
    <3>1. PICK t \in {"client"} : left = {t}
      BY <2>0, <2>3
    <3>2. Cardinality({t}) = 1
      BY FS_Singleton
    <3>3. Inside("client") = 1 /\ Inside("provider") = 0
      BY <2>3 DEF Inside
    <3>4. Cardinality(left) = 1
      BY <3>1, <3>2
    <3> QED BY <3>3, <3>4
  <2>4. CASE task["provider"].at = "rest" /\ task["client"].at = "rest"
    <3>1. left = {}
      BY <2>0, <2>4
    <3> QED BY <2>4, <3>1, FS_EmptySet DEF Inside
  <2> QED BY <1>2, <1>5, <2>1, <2>2, <2>3, <2>4
<1> HIDE DEF left
<1>7. TalkTypes'
  <2>1. lingering' \in Int /\ task' \in [Tasks -> TaskRecord]
    BY <1>1, <1>2, <1>6, Empties DEF TalkTypes
  <2> QED BY <1>1, <1>2, <2>1 DEF TalkTypes
<1>8. TaskInv'
  <2>1. TaskPlaces'
    BY <1>2, <1>5, Empties DEF TaskPlaces
  <2>2. StateFits' /\ BoundaryFits' /\ IdleDelivered'
    BY <1>1, <1>2, <1>5, Empties DEF StateFits, BoundaryFits, IdleDelivered, Running
  <2>3. Counted'
    <3>1. Inside("provider")' = 0 /\ Inside("client")' = 0
      BY <1>2, <1>5, Empties DEF Inside
    <3>2. inflight = Inside("provider") + Inside("client") + lingering + count.marks
      BY DEF CallInv, TaskInv, Counted
    <3>3. lingering \in Int /\ inflight \in Int /\ count.marks \in Int /\ Inside("provider") \in Int /\ Inside("client") \in Int
      BY <1>2 DEF TalkTypes, Counts, Inside
    <3> QED BY <1>1, <1>6, <3>1, <3>2, <3>3 DEF Counted
  <2> QED BY <2>1, <2>2, <2>3 DEF TaskInv
<1>9. count.said \in Nat /\ count.spoken \in Nat /\ count.tools \in Nat
  BY <1>2 DEF TalkTypes, Counts
<1>10. UserQuiet
  BY <1>1, <1>5, <1>9, Empties DEF UserQuiet, Said, Takes, CallInv, UserIds
<1>11. SpokenQuiet
  BY <1>1, <1>2, <1>5, <1>9, Empties DEF SpokenQuiet, Spoken, Carries
<1>12. ToolQuiet
  BY <1>1, <1>2, <1>5, <1>9, Empties DEF ToolQuiet, Asked, Open
<1> QED BY <1>4, <1>7, <1>8, <1>10, <1>11, <1>12, UserFrame, SpokenFrame, ToolFrame DEF CallInv

\* A step of a task goes somewhere else, and keeps its turn and its user text.
LEMMA GoesIs ==
    ASSUME task \in [Tasks -> TaskRecord], NEW t \in Tasks, NEW w \in Sites, Goes(t, w)
    PROVE  /\ task' \in [Tasks -> TaskRecord]
           /\ task'[t].at = w /\ task'[t].turn = task[t].turn /\ task'[t].user = task[t].user
           /\ \A o \in Tasks : o # t => task'[o] = task[o]
<1>1. PICK k : k = [task[t] EXCEPT !.at = w]
  OBVIOUS
<1>2. k \in TaskRecord /\ k.at = w /\ k.turn = task[t].turn /\ k.user = task[t].user
  BY <1>1 DEF TaskRecord
<1>3. task' = [task EXCEPT ![t] = k]
  BY <1>1 DEF Goes
<1> QED BY <1>2, <1>3

\* So does the end of one of its calls.
LEMMA NextCallIs ==
    ASSUME NEW k \in TaskRecord, NEW notes \in 0..1
    PROVE  /\ NextCall(k, notes) \in TaskRecord /\ NextCall(k, notes).at \in {"results", "tool"}
           /\ NextCall(k, notes).turn = k.turn /\ NextCall(k, notes).user = k.user
<1>1. CASE k.next = Len(k.turn.tools)
  <2>1. PICK one : one = [k EXCEPT !.at = "results"]
    OBVIOUS
  <2>2. one \in TaskRecord /\ one.at = "results" /\ one.turn = k.turn /\ one.user = k.user /\ one.notes = k.notes
    BY <2>1 DEF TaskRecord, Sites
  <2>3. NextCall(k, notes) = [one EXCEPT !.notes = one.notes + notes]
    BY <1>1, <2>1, <2>2 DEF NextCall, TaskRecord
  <2> QED BY <2>2, <2>3 DEF TaskRecord
<1>2. CASE k.next # Len(k.turn.tools)
  <2>0. PICK one : one = [k EXCEPT !.at = "tool"]
    OBVIOUS
  <2>1. PICK two : two = [one EXCEPT !.next = one.next + 1]
    OBVIOUS
  <2>2. /\ one \in TaskRecord /\ one.at = "tool" /\ one.turn = k.turn /\ one.user = k.user /\ one.notes = k.notes
        /\ one.next = k.next
    BY <2>0 DEF TaskRecord, Sites
  <2>3. two \in TaskRecord /\ two.at = "tool" /\ two.turn = k.turn /\ two.user = k.user /\ two.notes = k.notes
    BY <2>1, <2>2 DEF TaskRecord
  <2>4. NextCall(k, notes) = [two EXCEPT !.notes = two.notes + notes]
    BY <1>2, <2>0, <2>1, <2>2, <2>3 DEF NextCall, TaskRecord
  <2> QED BY <2>3, <2>4 DEF TaskRecord
<1> QED BY <1>1, <1>2

\* What the tasks keep, when one of them goes on.
LEMMA TaskMove ==
    ASSUME CallInv, NEW t \in Tasks, Running, UNCHANGED <<conns, registered, buf, lingering>>,
           task' \in [Tasks -> TaskRecord],
           task[t].at \notin {"rest", "boundary"}, task'[t].at \notin {"rest", "boundary"},
           task'[t].turn = task[t].turn,
           \A o \in Tasks : o # t => task'[o] = task[o],
           st' = st \/ (st = "tool_running" /\ st' = "listening"),
           t = "provider" /\ task'[t].at = "teardown" => st' # "tool_running",
           idleQueue' = idleQueue \/ (IsIdle(st, buf) => idleQueue' = 0),
           inflight' = inflight + Inside(t)' - Inside(t), count'.marks = count.marks
    PROVE  TaskInv'
<1>1. /\ "provider" \in Tasks /\ "client" \in Tasks /\ t \in {"provider", "client"} /\ Running'
      /\ TaskPlaces /\ StateFits /\ BoundaryFits /\ IdleDelivered /\ registered # NoCall
  BY DEF Tasks, Running, CallInv, TaskInv
<1>2. TaskPlaces'
  BY <1>1 DEF TaskPlaces
<1>3. StateFits'
  BY <1>1 DEF StateFits
<1>4. BoundaryFits'
  BY <1>1 DEF BoundaryFits
<1>5. IdleDelivered'
  BY <1>1 DEF IdleDelivered, IsIdle, StateFits
<1>6. Counted'
  <2>1. /\ inflight \in Int /\ lingering \in Int /\ count.marks \in Int /\ Inside(t) \in Int /\ Inside(t)' \in Int
        /\ inflight = Inside("provider") + Inside("client") + lingering + count.marks
        /\ \A o \in Tasks : Inside(o) \in Int /\ (o # t => Inside(o)' = Inside(o))
    BY DEF CallInv, TalkTypes, TaskInv, Counts, Counted, Inside
  <2>2. CASE t = "provider"
    BY <1>1, <2>1, <2>2 DEF Counted
  <2>3. CASE t = "client"
    BY <1>1, <2>1, <2>3 DEF Counted
  <2> QED BY <1>1, <2>2, <2>3
<1> QED BY <1>2, <1>3, <1>4, <1>5, <1>6 DEF TaskInv

\* Rows are appended.
LEMMA AppendRow ==
    ASSUME rows \in Seq(CallRow), NEW r \in CallRow, rows' = Append(rows, r)
    PROVE  /\ rows' \in Seq(CallRow) /\ Len(rows) \in Nat /\ DOMAIN rows = 1..Len(rows)
           /\ DOMAIN rows' = 1..(Len(rows) + 1) /\ rows'[Len(rows) + 1] = r
           /\ \A i \in DOMAIN rows : i \in DOMAIN rows' /\ rows'[i] = rows[i]
           /\ \A i \in DOMAIN rows' : i \in DOMAIN rows \/ i = Len(rows) + 1
  OBVIOUS

\* A handler that gets the lock keeps it (run_realtime_turn).
LEMMA BeginTurnInv ==
    ASSUME CallInv, NEW t \in Tasks, BeginTurn(t)
    PROVE  CallInv'
<1>1. /\ Running /\ task[t].at = "lock" /\ Goes(t, "user") /\ inflight' = inflight + 1 /\ UNCHANGED managerVars
      /\ st' = st /\ buf' = buf /\ idleQueue' = idleQueue /\ lingering' = lingering /\ rows' = rows
      /\ answered' = answered /\ reopened' = reopened /\ unlucky' = unlucky /\ count' = count
  BY DEF BeginTurn, At, historyVars
<1>2. TalkTypes /\ count.said \in Nat /\ count.spoken \in Nat /\ count.tools \in Nat /\ "user" \in Sites
  BY DEF CallInv, TalkTypes, Counts, Sites
<1>3. /\ task' \in [Tasks -> TaskRecord]
      /\ task'[t].at = "user" /\ task'[t].turn = task[t].turn /\ task'[t].user = task[t].user
      /\ \A o \in Tasks : o # t => task'[o] = task[o]
  BY <1>1, <1>2, GoesIs DEF TalkTypes
<1>4. TalkTypes'
  BY <1>1, <1>2, <1>3 DEF TalkTypes
<1>5. ManagerInv'
  BY <1>1, ManagerFrame
<1>6. TaskInv'
  <2>1. Inside(t) = 0 /\ Inside(t)' = 1 /\ inflight \in Int
    BY <1>1, <1>2, <1>3 DEF Inside, TalkTypes
  <2> QED BY <1>1, <1>3, <2>1, TaskMove DEF managerVars
<1>7. UserQuiet
  BY <1>1, <1>2, <1>3 DEF UserQuiet, Said, Takes, CallInv, UserIds
<1>8. SpokenQuiet
  BY <1>1, <1>2, <1>3 DEF SpokenQuiet, Spoken, Carries, Tasks
<1>9. ToolQuiet
  BY <1>1, <1>2, <1>3 DEF ToolQuiet, Asked, Open, Tasks
<1> QED BY <1>4, <1>5, <1>6, <1>7, <1>8, <1>9, UserFrame, SpokenFrame, ToolFrame DEF CallInv

\* The steps of a tool call keep it.
LEMMA ToolStepInv ==
    ASSUME CallInv, NEW t \in Tasks, ToolStep(t)
    PROVE  CallInv'
<1>1. /\ UNCHANGED managerVars /\ inflight' = inflight
      /\ st' = st /\ buf' = buf /\ idleQueue' = idleQueue /\ lingering' = lingering /\ rows' = rows
      /\ answered' = answered /\ reopened' = reopened /\ unlucky' = unlucky /\ count' = count
  BY DEF ToolStep, historyVars
<1>2. TalkTypes /\ count.said \in Nat /\ count.spoken \in Nat /\ count.tools \in Nat
  BY DEF CallInv, TalkTypes, Counts
<1>3. Running /\ task[t].at \in {"tool", "confirm", "running", "elicit"}
  BY DEF ToolStep, At
<1>4. /\ task' \in [Tasks -> TaskRecord] /\ task'[t].at \in {"tool", "confirm", "running", "elicit", "results"}
      /\ task'[t].turn = task[t].turn /\ task'[t].user = task[t].user
      /\ \A o \in Tasks : o # t => task'[o] = task[o]
  <2>1. CASE \E notes \in 0..1 : task' = [task EXCEPT ![t] = NextCall(task[t], notes)]
    <3>1. PICK notes \in 0..1 : task' = [task EXCEPT ![t] = NextCall(task[t], notes)]
      BY <2>1
    <3>2. task \in [Tasks -> TaskRecord] /\ task[t] \in TaskRecord
      BY <1>2 DEF TalkTypes
    <3> QED BY <3>1, <3>2, NextCallIs
  <2>2. CASE \E w \in {"confirm", "running", "elicit"} : Goes(t, w)
    <3>1. PICK w \in {"confirm", "running", "elicit"} : Goes(t, w)
      BY <2>2
    <3> QED BY <1>2, <3>1, GoesIs DEF TalkTypes, Sites
  <2>3. 0 \in 0..1
    OBVIOUS
  <2> QED BY <2>1, <2>2, <2>3 DEF ToolStep
<1>5. TalkTypes'
  BY <1>1, <1>2, <1>4 DEF TalkTypes
<1>6. ManagerInv'
  BY <1>1, ManagerFrame
<1>7. TaskInv'
  <2>1. Inside(t) = 1 /\ Inside(t)' = 1 /\ inflight \in Int
    BY <1>2, <1>3, <1>4 DEF Inside, TalkTypes
  <2> QED BY <1>1, <1>3, <1>4, <2>1, TaskMove DEF managerVars
<1>8. UserQuiet
  BY <1>1, <1>2, <1>4 DEF UserQuiet, Said, Takes, CallInv, UserIds
<1>9. SpokenQuiet
  BY <1>1, <1>2, <1>3, <1>4 DEF SpokenQuiet, Spoken, Carries, Tasks
<1>10. ToolQuiet
  BY <1>1, <1>2, <1>3, <1>4 DEF ToolQuiet, Asked, Open, Tasks
<1> QED BY <1>5, <1>6, <1>7, <1>8, <1>9, <1>10, UserFrame, SpokenFrame, ToolFrame DEF CallInv

\* A handler that closes its executor keeps it.
LEMMA TeardownInv ==
    ASSUME CallInv, NEW t \in Tasks, Teardown(t)
    PROVE  CallInv'
<1>1. /\ task[t].at = "teardown" /\ task' = [task EXCEPT ![t] = Rest] /\ inflight' = inflight - 1
      /\ UNCHANGED managerVars
      /\ st' = st /\ buf' = buf /\ lingering' = lingering /\ rows' = rows
      /\ answered' = answered /\ reopened' = reopened /\ unlucky' = unlucky /\ count' = count
      /\ IF t = "provider" /\ Running THEN Flush(st, buf) ELSE idleQueue' = idleQueue
  BY DEF Teardown, historyVars
<1>2. TalkTypes /\ count.said \in Nat /\ count.spoken \in Nat /\ count.tools \in Nat
  BY DEF CallInv, TalkTypes, Counts
<1>3. /\ task' \in [Tasks -> TaskRecord] /\ task'[t] = Rest
      /\ \A o \in Tasks : o # t => task'[o] = task[o]
  BY <1>1, <1>2, Empties DEF TalkTypes
<1>4. TalkTypes'
  BY <1>1, <1>2, <1>3 DEF TalkTypes
<1>5. ManagerInv' /\ Running' = Running /\ registered' = registered
  BY <1>1, ManagerFrame DEF managerVars
<1>6. /\ "provider" \in Tasks /\ "client" \in Tasks /\ t \in {"provider", "client"}
      /\ TaskPlaces /\ StateFits /\ BoundaryFits /\ IdleDelivered
  BY DEF Tasks, CallInv, TaskInv
<1>7. TaskInv'
  <2>1. TaskPlaces'
    BY <1>1, <1>3, <1>5, <1>6, Empties DEF TaskPlaces
  <2>2. StateFits'
    BY <1>1, <1>3, <1>5, <1>6, Empties DEF StateFits
  <2>3. BoundaryFits'
    BY <1>1, <1>3, <1>6, Empties DEF BoundaryFits
  <2>4. IdleDelivered'
    BY <1>1, <1>3, <1>5, <1>6, Empties DEF IdleDelivered, Flush
  <2>5. Counted'
    <3>1. /\ inflight \in Int /\ lingering \in Int /\ count.marks \in Int /\ Inside(t) = 1 /\ Inside(t)' = 0
          /\ inflight = Inside("provider") + Inside("client") + lingering + count.marks
          /\ \A o \in Tasks : Inside(o) \in Int /\ (o # t => Inside(o)' = Inside(o))
      BY <1>1, <1>2, <1>3, Empties DEF CallInv, TalkTypes, TaskInv, Counts, Counted, Inside
    <3>2. CASE t = "provider"
      BY <1>1, <1>6, <3>1, <3>2 DEF Counted
    <3>3. CASE t = "client"
      BY <1>1, <1>6, <3>1, <3>3 DEF Counted
    <3> QED BY <1>6, <3>2, <3>3
  <2> QED BY <2>1, <2>2, <2>3, <2>4, <2>5 DEF TaskInv
<1>8. UserQuiet
  BY <1>1, <1>2, <1>3, Empties DEF UserQuiet, Said, Takes, CallInv, UserIds
<1>9. SpokenQuiet
  BY <1>1, <1>2, <1>3, Empties DEF SpokenQuiet, Spoken, Carries, Tasks
<1>10. ToolQuiet
  BY <1>1, <1>2, <1>3, Empties DEF ToolQuiet, Asked, Open, Tasks
<1> QED BY <1>4, <1>5, <1>7, <1>8, <1>9, <1>10, UserFrame, SpokenFrame, ToolFrame DEF CallInv

\* A handler of a closed call that ends keeps it.
LEMMA LingerInv ==
    ASSUME CallInv, LingerEnds
    PROVE  CallInv'
<1>1. /\ UNCHANGED managerVars /\ lingering' = lingering - 1
      /\ st' = st /\ buf' = buf /\ idleQueue' = idleQueue /\ task' = task /\ rows' = rows
      /\ answered' = answered /\ reopened' = reopened /\ unlucky' = unlucky
  BY DEF LingerEnds, callVars, historyVars
<1>2. TalkTypes /\ count \in Counts /\ count.said \in Nat /\ count.spoken \in Nat /\ count.tools \in Nat
  BY DEF CallInv, TalkTypes, Counts
<1>3. /\ count' \in Counts /\ count'.said = count.said /\ count'.spoken = count.spoken /\ count'.slots = count.slots
      /\ count'.tools = count.tools
      /\ \/ inflight' = inflight - 1 /\ count'.marks = count.marks
         \/ inflight' = inflight /\ count'.marks = count.marks + 1
  <2>1. CASE inflight' = inflight - 1 /\ count' = count
    BY <1>2, <2>1
  <2>2. CASE /\ count' = [count EXCEPT !.trouble = @ + 1, !.marks = @ + 1]
             /\ inflight' = inflight
    <3>1. PICK one : one = [count EXCEPT !.trouble = count.trouble + 1]
      OBVIOUS
    <3>2. /\ one \in Counts /\ one.said = count.said /\ one.spoken = count.spoken /\ one.tools = count.tools
          /\ one.marks = count.marks /\ one.slots = count.slots
      BY <1>2, <3>1 DEF Counts
    <3>3. count' = [one EXCEPT !.marks = one.marks + 1]
      BY <1>2, <2>2, <3>1 DEF Counts
    <3> QED BY <1>2, <2>2, <3>2, <3>3 DEF Counts
  <2> QED BY <2>1, <2>2 DEF LingerEnds
<1>4. TalkTypes'
  BY <1>1, <1>2, <1>3 DEF TalkTypes
<1>5. ManagerInv' /\ Running' = Running /\ registered' = registered
  BY <1>1, <1>3, ManagerFrame DEF managerVars
<1>6. TaskInv'
  <2>1. TaskPlaces' /\ StateFits' /\ BoundaryFits' /\ IdleDelivered'
    BY <1>1, <1>5 DEF CallInv, TaskInv, TaskPlaces, StateFits, BoundaryFits, IdleDelivered
  <2>2. Counted'
    <3>1. /\ inflight \in Int /\ lingering \in Int /\ count.marks \in Int /\ Inside("provider") \in Int /\ Inside("client") \in Int
          /\ inflight = Inside("provider") + Inside("client") + lingering + count.marks
          /\ Inside("provider")' = Inside("provider") /\ Inside("client")' = Inside("client")
      BY <1>1, <1>2 DEF CallInv, TalkTypes, TaskInv, Counts, Counted, Inside
    <3> QED BY <1>1, <1>3, <3>1 DEF Counted
  <2> QED BY <2>1, <2>2 DEF TaskInv
<1>7. UserQuiet
  BY <1>1, <1>2, <1>3 DEF UserQuiet, Said, Takes, CallInv, UserIds
<1>8. SpokenQuiet
  BY <1>1, <1>2, <1>3 DEF SpokenQuiet, Spoken, Carries, Tasks
<1>9. ToolQuiet
  BY <1>1, <1>2, <1>3 DEF ToolQuiet, Asked, Open, Tasks
<1> QED BY <1>4, <1>5, <1>6, <1>7, <1>8, <1>9, UserFrame, SpokenFrame, ToolFrame DEF CallInv

\* The row of the user's text keeps it: the text was nowhere else.
LEMMA StoreUserInv ==
    ASSUME CallInv, NEW t \in Tasks, StoreUser(t)
    PROVE  CallInv'
<1>1. /\ UNCHANGED managerVars /\ inflight' = inflight /\ Goes(t, "assistant") /\ Running /\ task[t].at = "user"
      /\ st' = st /\ buf' = buf /\ idleQueue' = idleQueue /\ lingering' = lingering
      /\ rows' = IF task[t].user = <<>> THEN rows ELSE Append(rows, NewRow("user", task[t].user, <<>>))
      /\ answered' = answered /\ reopened' = reopened /\ unlucky' = unlucky /\ count' = count
  BY DEF StoreUser, At
<1>2. /\ TalkTypes /\ count.said \in Nat /\ count.spoken \in Nat /\ count.tools \in Nat /\ "assistant" \in Sites
      /\ task[t].user \in Seq(Nat) /\ rows \in Seq(CallRow)
  BY DEF CallInv, TalkTypes, Counts, Sites, TaskRecord
<1>3. /\ task' \in [Tasks -> TaskRecord]
      /\ task'[t].at = "assistant" /\ task'[t].turn = task[t].turn /\ task'[t].user = task[t].user
      /\ \A o \in Tasks : o # t => task'[o] = task[o]
  BY <1>1, <1>2, GoesIs DEF TalkTypes
<1>4. /\ rows' \in Seq(CallRow) /\ Len(rows) \in Nat /\ DOMAIN rows = 1..Len(rows)
      /\ \A i \in DOMAIN rows : i \in DOMAIN rows' /\ rows'[i] = rows[i]
      /\ \A i \in DOMAIN rows' : \/ i \in DOMAIN rows
                                 \/ /\ i = Len(rows) + 1 /\ rows'[i].who = "user"
                                    /\ rows'[i].text = task[t].user /\ rows'[i].tools = <<>>
  <2>1. CASE task[t].user = <<>>
    BY <1>1, <1>2, <2>1
  <2>2. CASE task[t].user # <<>>
    <3>1. PICK r : r = NewRow("user", task[t].user, <<>>)
      OBVIOUS
    <3>2. <<>> \in Seq(Nat)
      OBVIOUS
    <3>3. r \in CallRow /\ r.who = "user" /\ r.text = task[t].user /\ r.tools = <<>>
      BY <1>2, <3>1, <3>2 DEF NewRow, CallRow
    <3>4. rows' = Append(rows, r)
      BY <1>1, <2>2, <3>1
    <3> QED BY <1>2, <3>3, <3>4, AppendRow
  <2> QED BY <2>1, <2>2
<1>5. TalkTypes'
  BY <1>1, <1>2, <1>3, <1>4 DEF TalkTypes
<1>6. ManagerInv'
  BY <1>1, ManagerFrame
<1>7. TaskInv'
  <2>1. Inside(t) = 1 /\ Inside(t)' = 1 /\ inflight \in Int
    BY <1>1, <1>2, <1>3 DEF Inside, TalkTypes
  <2> QED BY <1>1, <1>3, <2>1, TaskMove DEF managerVars
<1>8. UserIds'
  BY <1>1, <1>3, <1>4 DEF CallInv, UserIds
<1>9. UserPlaces'
  <2> SUFFICES ASSUME NEW u \in Nat, u \notin reopened
      PROVE /\ \A i, j \in DOMAIN rows' : InRow("user", u, i)' /\ InRow("user", u, j)' => i = j
            /\ \A o \in Tasks : Takes(o, u)' => Unstored("user", u)'
            /\ ~(Takes("provider", u)' /\ Takes("client", u)')
            /\ Said(u)' => Unstored("user", u)' /\ ~Takes("provider", u)' /\ ~Takes("client", u)'
    BY <1>1 DEF UserPlaces
  <2>1. /\ \A i, j \in DOMAIN rows : InRow("user", u, i) /\ InRow("user", u, j) => i = j
        /\ \A o \in Tasks : Takes(o, u) => Unstored("user", u)
        /\ ~(Takes("provider", u) /\ Takes("client", u))
        /\ Said(u) => Unstored("user", u) /\ ~Takes("provider", u) /\ ~Takes("client", u)
    BY DEF CallInv, UserPlaces
  <2>2. /\ Said(u)' = Said(u) /\ ~Takes(t, u)' /\ \A o \in Tasks : o # t => Takes(o, u)' = Takes(o, u)
        /\ "provider" \in Tasks /\ "client" \in Tasks /\ t \in {"provider", "client"}
        /\ \A o \in Tasks : o \in {"provider", "client"}
    BY <1>1, <1>3 DEF Said, Takes, Tasks
  <2>3. \A i \in DOMAIN rows' : InRow("user", u, i)' =>
          \/ i \in DOMAIN rows /\ InRow("user", u, i)
          \/ i = Len(rows) + 1 /\ Takes(t, u)
    BY <1>1, <1>4 DEF InRow, Takes
  <2>4. CASE Takes(t, u)
    <3>1. Unstored("user", u) /\ ~Said(u) /\ \A o \in Tasks : ~Takes(o, u)'
      BY <2>1, <2>2, <2>4
    <3>2. \A i \in DOMAIN rows' : InRow("user", u, i)' => i = Len(rows) + 1
      BY <2>3, <3>1 DEF Unstored
    <3> QED BY <2>2, <3>1, <3>2
  <2>5. CASE ~Takes(t, u)
    <3>1. Unstored("user", u) => Unstored("user", u)'
      BY <2>3, <2>5 DEF Unstored
    <3> QED BY <2>1, <2>2, <2>3, <2>5, <3>1
  <2> QED BY <2>4, <2>5
<1>10. SpokenQuiet
  BY <1>1, <1>2, <1>3, <1>4 DEF SpokenQuiet, Spoken, Carries, Tasks
<1>11. ToolQuiet
  BY <1>1, <1>2, <1>3, <1>4 DEF ToolQuiet, Asked, Open, Tasks
<1> QED BY <1>5, <1>6, <1>7, <1>8, <1>9, <1>10, <1>11, SpokenFrame, ToolFrame DEF CallInv

\* The row of the assistant's turn keeps it: its text and its calls were in no row.
LEMMA StoreAssistantInv ==
    ASSUME CallInv, NEW t \in Tasks, StoreAssistant(t)
    PROVE  CallInv'
<1>1. PICK w \in {"inject", "tool"} : Goes(t, w) /\ (w = "inject" => task[t].turn.tools = <<>>)
  BY DEF StoreAssistant
<1>2. /\ UNCHANGED managerVars /\ inflight' = inflight /\ Running /\ task[t].at = "assistant"
      /\ st' = st /\ buf' = buf /\ idleQueue' = idleQueue /\ lingering' = lingering
      /\ rows' = Append(rows, NewRow("assistant", task[t].turn.text, task[t].turn.tools))
      /\ answered' = answered /\ reopened' = reopened /\ unlucky' = unlucky /\ count' = count
  BY DEF StoreAssistant, At
<1>3. /\ TalkTypes /\ count.said \in Nat /\ count.spoken \in Nat /\ count.tools \in Nat /\ w \in Sites
      /\ task[t].turn.text \in Seq(Nat) /\ task[t].turn.tools \in Seq(Nat) /\ rows \in Seq(CallRow)
  BY DEF CallInv, TalkTypes, Counts, Sites, TaskRecord, Utterance
<1>4. /\ task' \in [Tasks -> TaskRecord]
      /\ task'[t].at = w /\ task'[t].turn = task[t].turn /\ task'[t].user = task[t].user
      /\ \A o \in Tasks : o # t => task'[o] = task[o]
  BY <1>1, <1>3, GoesIs DEF TalkTypes
<1>5. /\ rows' \in Seq(CallRow) /\ Len(rows) \in Nat /\ DOMAIN rows = 1..Len(rows)
      /\ \A i \in DOMAIN rows : i \in DOMAIN rows' /\ rows'[i] = rows[i]
      /\ \A i \in DOMAIN rows' : \/ i \in DOMAIN rows
                                 \/ /\ i = Len(rows) + 1 /\ rows'[i].who = "assistant"
                                    /\ rows'[i].text = task[t].turn.text /\ rows'[i].tools = task[t].turn.tools
  <2>1. PICK r : r = NewRow("assistant", task[t].turn.text, task[t].turn.tools)
    OBVIOUS
  <2>2. r \in CallRow /\ r.who = "assistant" /\ r.text = task[t].turn.text /\ r.tools = task[t].turn.tools
    BY <1>3, <2>1 DEF NewRow, CallRow
  <2> QED BY <1>2, <1>3, <2>1, <2>2, AppendRow
<1>6. TalkTypes'
  BY <1>2, <1>3, <1>4, <1>5 DEF TalkTypes
<1>7. ManagerInv'
  BY <1>2, ManagerFrame
<1>8. TaskInv'
  <2>1. Inside(t) = 1 /\ Inside(t)' = 1 /\ inflight \in Int
    BY <1>2, <1>3, <1>4 DEF Inside, TalkTypes
  <2> QED BY <1>2, <1>4, <2>1, TaskMove DEF managerVars
<1>9. UserQuiet
  <2>1. \A i \in DOMAIN rows' : rows'[i].who = "user" => i \in DOMAIN rows /\ rows'[i] = rows[i]
    BY <1>5
  <2>2. \A o \in Tasks : /\ Ids(task'[o].user) \subseteq Ids(task[o].user)
                         /\ \A x \in Nat : Takes(o, x)' => Takes(o, x)
    BY <1>1, <1>4 DEF Takes
  <2>3. /\ Ids(buf'.parts) \intersect Ids(buf'.last) = {} /\ (~buf'.inUser => buf'.parts = <<>>)
        /\ \A x \in Nat : Said(x)' => Said(x)
    BY <1>2 DEF Said, CallInv, UserIds
  <2>4. /\ Ids(buf'.parts) \union Ids(buf'.last) \subseteq Ids(buf.parts) \union Ids(buf.last)
        /\ reopened \subseteq reopened' /\ count'.said >= count.said
    BY <1>2, <1>3
  <2> QED BY <2>1, <2>2, <2>3, <2>4 DEF UserQuiet
<1>10. SpokenIds'
  BY <1>2, <1>4, <1>5 DEF CallInv, SpokenIds
<1>11. SpokenPlaces'
  <2> SUFFICES ASSUME NEW s \in Nat
      PROVE /\ \A i, j \in DOMAIN rows' : InRow("assistant", s, i)' /\ InRow("assistant", s, j)' => i = j
            /\ \A o \in Tasks : Carries(o, s)' => Unstored("assistant", s)'
            /\ ~(Carries("provider", s)' /\ Carries("client", s)')
            /\ Spoken(s)' => Unstored("assistant", s)' /\ ~Carries("provider", s)' /\ ~Carries("client", s)'
    BY DEF SpokenPlaces
  <2>1. /\ \A i, j \in DOMAIN rows : InRow("assistant", s, i) /\ InRow("assistant", s, j) => i = j
        /\ \A o \in Tasks : Carries(o, s) => Unstored("assistant", s)
        /\ ~(Carries("provider", s) /\ Carries("client", s))
        /\ Spoken(s) => Unstored("assistant", s) /\ ~Carries("provider", s) /\ ~Carries("client", s)
    BY DEF CallInv, SpokenPlaces
  <2>2. /\ (Spoken(s)' => Spoken(s)) /\ ~Carries(t, s)' /\ \A o \in Tasks : o # t => Carries(o, s)' = Carries(o, s)
        /\ "provider" \in Tasks /\ "client" \in Tasks /\ t \in {"provider", "client"}
        /\ \A o \in Tasks : o \in {"provider", "client"}
    BY <1>2, <1>4 DEF Spoken, Carries, Tasks
  <2>3. \A i \in DOMAIN rows' : InRow("assistant", s, i)' =>
          \/ i \in DOMAIN rows /\ InRow("assistant", s, i)
          \/ i = Len(rows) + 1 /\ Carries(t, s)
    BY <1>2, <1>5 DEF InRow, Carries
  <2>4. CASE Carries(t, s)
    <3>1. Unstored("assistant", s) /\ ~Spoken(s) /\ \A o \in Tasks : ~Carries(o, s)'
      BY <2>1, <2>2, <2>4
    <3>2. \A i \in DOMAIN rows' : InRow("assistant", s, i)' => i = Len(rows) + 1
      BY <2>3, <3>1 DEF Unstored
    <3> QED BY <2>2, <3>1, <3>2
  <2>5. CASE ~Carries(t, s)
    <3>1. Unstored("assistant", s) => Unstored("assistant", s)'
      BY <2>3, <2>5 DEF Unstored
    <3> QED BY <2>1, <2>2, <2>3, <2>5, <3>1
  <2> QED BY <2>4, <2>5
<1>12. ToolIds' /\ ToolPlaces'
  <2>0. "provider" \in Tasks /\ "client" \in Tasks /\ t \in {"provider", "client"}
    BY DEF Tasks
  <2>1. CASE t = "client"
    <3>1. task[t].turn.tools = <<>>
      BY <2>1 DEF CallInv, TaskInv, TaskPlaces
    <3>2. ToolQuiet
      BY <1>2, <1>3, <1>4, <1>5, <2>0, <2>1, <3>1 DEF ToolQuiet, Asked, Open
    <3> QED BY <1>6, <3>2, ToolFrame
  <2>2. CASE t = "provider"
    <3>1. buf.now.tools = <<>> /\ Ids(<<>>) = {} /\ Ids(task[t].turn.tools) \subseteq Nat
      BY <1>2, <1>3, <2>2, Empties DEF CallInv, TaskInv, BoundaryFits, ToolIds
    <3>2. \A id \in Nat : ~Asked(id)'
      BY <1>1, <1>2, <1>4, <2>2, <3>1 DEF Asked
    <3>3. ToolIds'
      BY <1>2, <1>4, <1>5, <2>2, <3>2 DEF CallInv, ToolIds
    <3>4. \A id \in Nat : id \in Ids(task[t].turn.tools) => \A i \in DOMAIN rows : ~Names(id, i)
      BY <1>2, <2>2 DEF CallInv, ToolIds, Asked
    <3>5. \A i \in DOMAIN rows', id \in Nat : Names(id, i)' => IF i \in DOMAIN rows THEN Names(id, i) ELSE id \in Ids(task[t].turn.tools)
      BY <1>5 DEF Names
    <3>6. \A id \in Nat : Resulted(id) => Resulted(id)'
      <4> SUFFICES ASSUME NEW id \in Nat, Resulted(id) PROVE Resulted(id)'
        OBVIOUS
      <4>1. PICK j \in DOMAIN rows : /\ rows[j].who = "results" /\ Names(id, j)
                                     /\ \A i \in DOMAIN rows : Names(id, i) => i <= j
        BY DEF Resulted
      <4>2. j \in DOMAIN rows' /\ rows'[j].who = "results" /\ Names(id, j)'
        BY <1>5, <4>1 DEF Names
      <4>3. \A i \in DOMAIN rows' : Names(id, i)' => i <= j
        BY <3>4, <3>5, <4>1
      <4> QED BY <4>2, <4>3 DEF Resulted
    <3>7. \A id \in Ids(task[t].turn.tools) : Open(id)'
      BY <1>1, <1>4, <2>2 DEF Open
    <3>8. ASSUME NEW i \in DOMAIN rows', NEW id \in Ids(rows'[i].tools)
          PROVE id \in unlucky' \/ Open(id)' \/ (id \in answered' /\ Resulted(id)')
      <4>1. CASE id \in Ids(task[t].turn.tools)
        BY <3>7, <4>1
      <4>2. CASE id \notin Ids(task[t].turn.tools)
        <5>1. i \in DOMAIN rows /\ id \in Ids(rows[i].tools) /\ id \in Nat
          <6>1. i \in DOMAIN rows /\ id \in Ids(rows[i].tools)
            BY <1>5, <3>8, <4>2
          <6>2. Ids(rows[i].tools) \subseteq 1..count.tools
            BY <6>1 DEF CallInv, ToolIds
          <6> QED BY <1>3, <6>1, <6>2
        <5>2. ~Open(id)
          BY <2>2, <4>2 DEF Open
        <5>3. id \in unlucky \/ (id \in answered /\ Resulted(id))
          BY <5>1, <5>2 DEF CallInv, ToolPlaces
        <5> QED BY <1>2, <3>6, <5>1, <5>3
      <4> QED BY <4>1, <4>2
    <3>9. task'["provider"].at = "inject" => Ids(task'["provider"].turn.tools) = {}
      BY <1>1, <1>4, <2>2, <3>1
    <3>10. ToolPlaces'
      BY <3>8, <3>9 DEF ToolPlaces
    <3> QED BY <3>3, <3>10
  <2> QED BY <2>0, <2>1, <2>2
<1> QED BY <1>6, <1>7, <1>8, <1>9, <1>10, <1>11, <1>12, UserFrame DEF CallInv

\* The row of results keeps it: it is the last that names its calls.
LEMMA StoreResultsInv ==
    ASSUME CallInv, NEW t \in Tasks, StoreResults(t)
    PROVE  CallInv'
<1>1. /\ UNCHANGED managerVars /\ inflight' = inflight /\ Running /\ task[t].at = "results" /\ Goes(t, "inject")
      /\ st' = st /\ buf' = buf /\ idleQueue' = idleQueue /\ lingering' = lingering
      /\ rows' = Append(rows, NewRow("results", <<>>, task[t].turn.tools))
      /\ answered' = answered /\ reopened' = reopened /\ unlucky' = unlucky /\ count' = count
  BY DEF StoreResults, At
<1>2. /\ TalkTypes /\ count.said \in Nat /\ count.spoken \in Nat /\ count.tools \in Nat /\ "inject" \in Sites
      /\ task[t].turn.tools \in Seq(Nat) /\ rows \in Seq(CallRow)
  BY DEF CallInv, TalkTypes, Counts, Sites, TaskRecord, Utterance
<1>3. /\ task' \in [Tasks -> TaskRecord]
      /\ task'[t].at = "inject" /\ task'[t].turn = task[t].turn /\ task'[t].user = task[t].user
      /\ \A o \in Tasks : o # t => task'[o] = task[o]
  BY <1>1, <1>2, GoesIs DEF TalkTypes
<1>4. /\ rows' \in Seq(CallRow) /\ Len(rows) \in Nat /\ DOMAIN rows = 1..Len(rows)
      /\ DOMAIN rows' = 1..(Len(rows) + 1) /\ rows'[Len(rows) + 1].who = "results"
      /\ rows'[Len(rows) + 1].tools = task[t].turn.tools
      /\ \A i \in DOMAIN rows : i \in DOMAIN rows' /\ rows'[i] = rows[i]
      /\ \A i \in DOMAIN rows' : i \in DOMAIN rows \/ i = Len(rows) + 1
  <2>1. PICK r : r = NewRow("results", <<>>, task[t].turn.tools)
    OBVIOUS
  <2>2. <<>> \in Seq(Nat)
    OBVIOUS
  <2>3. r \in CallRow /\ r.who = "results" /\ r.tools = task[t].turn.tools
    BY <1>2, <2>1, <2>2 DEF NewRow, CallRow
  <2> QED BY <1>1, <1>2, <2>1, <2>3, AppendRow
<1>5. TalkTypes'
  BY <1>1, <1>2, <1>3, <1>4 DEF TalkTypes
<1>6. ManagerInv'
  BY <1>1, ManagerFrame
<1>7. TaskInv'
  <2>1. Inside(t) = 1 /\ Inside(t)' = 1 /\ inflight \in Int
    BY <1>1, <1>2, <1>3 DEF Inside, TalkTypes
  <2> QED BY <1>1, <1>3, <2>1, TaskMove DEF managerVars
<1>8. UserQuiet
  BY <1>1, <1>2, <1>3, <1>4 DEF UserQuiet, Said, Takes, CallInv, UserIds
<1>9. SpokenQuiet
  BY <1>1, <1>2, <1>3, <1>4 DEF SpokenQuiet, Spoken, Carries, Tasks
<1>10. ToolIds' /\ ToolPlaces'
  <2>0. "provider" \in Tasks /\ "client" \in Tasks /\ t \in {"provider", "client"}
    BY DEF Tasks
  <2>1. CASE t = "client"
    <3>1. task[t].turn.tools = <<>>
      BY <2>1 DEF CallInv, TaskInv, TaskPlaces
    <3>2. ToolQuiet
      BY <1>1, <1>2, <1>3, <1>4, <2>0, <2>1, <3>1 DEF ToolQuiet, Asked, Open
    <3> QED BY <1>5, <3>2, ToolFrame
  <2>2. CASE t = "provider"
    <3>1. buf.now.tools = <<>> /\ Ids(<<>>) = {} /\ Ids(task[t].turn.tools) \subseteq 1..count.tools
      BY <1>1, <1>2, <2>2, Empties DEF CallInv, TaskInv, BoundaryFits, ToolIds
    <3>2. \A id \in Nat : ~Asked(id)'
      BY <1>1, <1>3, <2>2, <3>1 DEF Asked
    <3>3. ToolIds'
      <4>1. \A i \in DOMAIN rows' : Ids(rows'[i].tools) \subseteq 1..count.tools
        BY <1>4, <3>1 DEF CallInv, ToolIds
      <4> QED BY <1>1, <1>3, <2>2, <3>2, <4>1 DEF CallInv, ToolIds
    <3>4. \A id \in Ids(task[t].turn.tools) : Resulted(id)'
      <4> TAKE id \in Ids(task[t].turn.tools)
      <4>1. PICK n : n = Len(rows) + 1
        OBVIOUS
      <4>2. n \in DOMAIN rows' /\ rows'[n].who = "results" /\ \A i \in DOMAIN rows' : i <= n
        BY <1>4, <4>1
      <4>3. id \in Ids(rows'[n].tools)
        BY <1>4, <4>1
      <4> QED BY <4>2, <4>3 DEF Resulted, Names
    <3>5. ASSUME NEW id, Resulted(id), id \notin Ids(task[t].turn.tools) PROVE Resulted(id)'
      <4>1. PICK j \in DOMAIN rows : /\ rows[j].who = "results" /\ Names(id, j)
                                     /\ \A i \in DOMAIN rows : Names(id, i) => i <= j
        BY <3>5 DEF Resulted
      <4>2. j \in DOMAIN rows' /\ rows'[j].who = "results" /\ Names(id, j)'
        BY <1>4, <4>1 DEF Names
      <4>3. \A i \in DOMAIN rows' : Names(id, i)' => i <= j
        BY <1>4, <3>5, <4>1 DEF Names
      <4> QED BY <4>2, <4>3 DEF Resulted
    <3>6. ASSUME NEW i \in DOMAIN rows', NEW id \in Ids(rows'[i].tools)
          PROVE id \in unlucky' \/ Open(id)' \/ (id \in answered' /\ Resulted(id)')
      <4>1. CASE id \in Ids(task[t].turn.tools)
        BY <1>3, <2>2, <4>1 DEF Open
      <4>2. CASE id \notin Ids(task[t].turn.tools)
        <5>1. i \in DOMAIN rows /\ id \in Ids(rows[i].tools)
          BY <1>4, <3>6, <4>2
        <5>2. ~Open(id)
          BY <2>2, <4>2 DEF Open
        <5>3. id \in unlucky \/ (id \in answered /\ Resulted(id))
          BY <5>1, <5>2 DEF CallInv, ToolPlaces
        <5> QED BY <1>1, <3>5, <4>2, <5>3
      <4> QED BY <4>1, <4>2
    <3>7. ToolPlaces'
      BY <1>3, <2>2, <3>4, <3>6 DEF ToolPlaces
    <3> QED BY <3>3, <3>7
  <2> QED BY <2>0, <2>1, <2>2
<1> QED BY <1>5, <1>6, <1>7, <1>8, <1>9, <1>10, UserFrame, SpokenFrame DEF CallInv

\* The answer to the provider keeps it: every call it answers has its result.
LEMMA InjectInv ==
    ASSUME CallInv, NEW t \in Tasks, InjectResults(t)
    PROVE  CallInv'
<1>1. /\ UNCHANGED managerVars /\ inflight' = inflight /\ Running /\ task[t].at = "inject" /\ Goes(t, "teardown")
      /\ st' = (IF st = "tool_running" THEN "listening" ELSE st) /\ buf' = buf
      /\ idleQueue' = (IF IsIdle(st, buf) THEN 0 ELSE idleQueue + task[t].notes) /\ lingering' = lingering
      /\ answered' = answered \union Ids(task[t].turn.tools)
      /\ rows' = rows /\ reopened' = reopened /\ unlucky' = unlucky /\ count' = count
  BY DEF InjectResults, At
<1>2. /\ TalkTypes /\ count.said \in Nat /\ count.spoken \in Nat /\ count.tools \in Nat /\ "teardown" \in Sites
  BY DEF CallInv, TalkTypes, Counts, Sites
<1>3. /\ task' \in [Tasks -> TaskRecord]
      /\ task'[t].at = "teardown" /\ task'[t].turn = task[t].turn /\ task'[t].user = task[t].user
      /\ \A o \in Tasks : o # t => task'[o] = task[o]
  BY <1>1, <1>2, GoesIs DEF TalkTypes
<1>4. TalkTypes'
  BY <1>1, <1>2, <1>3 DEF TalkTypes
<1>5. ManagerInv'
  BY <1>1, ManagerFrame
<1>6. TaskInv'
  <2>1. Inside(t) = 1 /\ Inside(t)' = 1 /\ inflight \in Int
    BY <1>1, <1>2, <1>3 DEF Inside, TalkTypes
  <2>2. /\ st' # "tool_running" /\ (st' = st \/ (st = "tool_running" /\ st' = "listening"))
        /\ IsIdle(st, buf) => idleQueue' = 0
    BY <1>1
  <2> QED BY <1>1, <1>3, <2>1, <2>2, TaskMove DEF managerVars
<1>7. UserQuiet
  BY <1>1, <1>2, <1>3 DEF UserQuiet, Said, Takes, CallInv, UserIds
<1>8. SpokenQuiet
  BY <1>1, <1>2, <1>3 DEF SpokenQuiet, Spoken, Carries, Tasks
<1>9. ToolIds' /\ ToolPlaces'
  <2>0. "provider" \in Tasks /\ "client" \in Tasks /\ t \in {"provider", "client"}
    BY DEF Tasks
  <2>1. CASE t = "client"
    <3>1. ToolQuiet
      BY <1>1, <1>2, <1>3, <2>0, <2>1 DEF ToolQuiet, Asked, Open
    <3> QED BY <1>4, <3>1, ToolFrame
  <2>2. CASE t = "provider"
    <3>1. \A id : Asked(id)' => Asked(id)
      BY <1>1, <1>3, <2>2 DEF Asked
    <3>2. \A i \in DOMAIN rows, id \in Nat : Names(id, i)' = Names(id, i)
      BY <1>1 DEF Names
    <3>3. ToolIds'
      BY <1>1, <1>3, <2>2, <3>1, <3>2 DEF CallInv, ToolIds
    <3>4. \A id : Resulted(id)' = Resulted(id)
      BY <1>1 DEF Resulted, Names
    <3>5. \A id \in Ids(task[t].turn.tools) : Resulted(id) /\ id \in answered'
      BY <1>1, <2>2 DEF CallInv, ToolPlaces
    <3>6. ToolPlaces'
      BY <1>1, <1>3, <2>2, <3>4, <3>5 DEF CallInv, ToolPlaces, Open
    <3> QED BY <3>3, <3>6
  <2> QED BY <2>0, <2>1, <2>2
<1> QED BY <1>4, <1>5, <1>6, <1>7, <1>8, <1>9, UserFrame, SpokenFrame DEF CallInv

\* A store or a provider that fails keeps it: the calls are unlucky.
LEMMA HandlerFailsInv ==
    ASSUME CallInv, NEW t \in Tasks, HandlerFails(t)
    PROVE  CallInv'
<1>1. /\ UNCHANGED managerVars /\ inflight' = inflight /\ Running /\ Goes(t, "teardown")
      /\ task[t].at \in {"user", "assistant", "results", "inject"}
      /\ st' = (IF st = "tool_running" THEN "listening" ELSE st) /\ buf' = buf
      /\ idleQueue' = idleQueue /\ lingering' = lingering
      /\ unlucky' = unlucky \union Ids(task[t].turn.tools)
      /\ rows' = rows /\ reopened' = reopened /\ answered' = answered
  BY DEF HandlerFails
<1>2. /\ TalkTypes /\ count.said \in Nat /\ count.spoken \in Nat /\ count.tools \in Nat /\ "teardown" \in Sites
  BY DEF CallInv, TalkTypes, Counts, Sites
<1>3. /\ count' \in Counts /\ count'.said = count.said /\ count'.spoken = count.spoken
      /\ count'.tools = count.tools /\ count'.marks = count.marks /\ count'.slots = count.slots
  <2>1. count \in Counts
    BY DEF CallInv, TalkTypes
  <2> QED BY <2>1 DEF HandlerFails, Trouble, Counts
<1>4. /\ task' \in [Tasks -> TaskRecord]
      /\ task'[t].at = "teardown" /\ task'[t].turn = task[t].turn /\ task'[t].user = task[t].user
      /\ \A o \in Tasks : o # t => task'[o] = task[o]
  BY <1>1, <1>2, GoesIs DEF TalkTypes
<1>5. TalkTypes'
  BY <1>1, <1>2, <1>3, <1>4 DEF TalkTypes
<1>6. ManagerInv'
  BY <1>1, <1>3, ManagerFrame
<1>7. TaskInv'
  <2>1. Inside(t) = 1 /\ Inside(t)' = 1 /\ inflight \in Int
    BY <1>1, <1>2, <1>4 DEF Inside, TalkTypes
  <2>2. st' # "tool_running" /\ (st' = st \/ (st = "tool_running" /\ st' = "listening"))
    BY <1>1
  <2> QED BY <1>1, <1>3, <1>4, <2>1, <2>2, TaskMove DEF managerVars
<1>8. UserQuiet
  BY <1>1, <1>2, <1>3, <1>4 DEF UserQuiet, Said, Takes, CallInv, UserIds
<1>9. SpokenQuiet
  BY <1>1, <1>2, <1>3, <1>4 DEF SpokenQuiet, Spoken, Carries, Tasks
<1>10. ToolQuiet
  BY <1>1, <1>2, <1>3, <1>4 DEF ToolQuiet, Asked, Open, Tasks
<1> QED BY <1>5, <1>6, <1>7, <1>8, <1>9, <1>10, UserFrame, SpokenFrame, ToolFrame DEF CallInv

\* What the operations of the buffer do, field by field.
LEMMA UserAddsIs ==
    ASSUME NEW b \in Buffer, NEW texts \in Seq(Nat)
    PROVE  LET d == UserAdds(b, texts) IN
           /\ d \in Buffer /\ d.inUser /\ d.parts = b.parts \o texts /\ d.last = b.last /\ d.committed = b.committed
           /\ d.inTurn = b.inTurn /\ d.now = b.now /\ d.ended = b.ended
<1>1. PICK one : one = [b EXCEPT !.inUser = TRUE]
  OBVIOUS
<1>2. /\ one \in Buffer /\ one.inUser /\ one.parts = b.parts /\ one.last = b.last /\ one.committed = b.committed
      /\ one.inTurn = b.inTurn /\ one.now = b.now /\ one.ended = b.ended
  BY <1>1 DEF Buffer
<1>3. UserAdds(b, texts) = [one EXCEPT !.parts = one.parts \o texts]
  BY <1>1, <1>2 DEF UserAdds, Buffer
<1>4. one.parts \o texts \in Seq(Nat)
  BY <1>2 DEF Buffer
<1> QED BY <1>2, <1>3, <1>4 DEF Buffer

\* The end of an utterance: its text becomes the last one, not committed.
LEMMA UserBoundaryIs ==
    ASSUME NEW b \in Buffer
    PROVE  LET d == UserBoundary(b) IN
           /\ d \in Buffer /\ ~d.inUser /\ d.parts = <<>> /\ d.last = b.parts /\ ~d.committed
           /\ d.inTurn = b.inTurn /\ d.now = b.now /\ d.ended = b.ended
<1>0. <<>> \in Seq(Nat)
  OBVIOUS
<1>1. PICK one : one = [b EXCEPT !.inUser = FALSE]
  OBVIOUS
<1>2. /\ one \in Buffer /\ ~one.inUser /\ one.parts = b.parts
      /\ one.inTurn = b.inTurn /\ one.now = b.now /\ one.ended = b.ended
  BY <1>1 DEF Buffer
<1>3. PICK two : two = [one EXCEPT !.last = b.parts]
  OBVIOUS
<1>4. /\ two \in Buffer /\ ~two.inUser /\ two.last = b.parts
      /\ two.inTurn = b.inTurn /\ two.now = b.now /\ two.ended = b.ended
  BY <1>2, <1>3 DEF Buffer
<1>5. PICK three : three = [two EXCEPT !.parts = <<>>]
  OBVIOUS
<1>6. /\ three \in Buffer /\ ~three.inUser /\ three.last = b.parts /\ three.parts = <<>>
      /\ three.inTurn = b.inTurn /\ three.now = b.now /\ three.ended = b.ended
  BY <1>0, <1>4, <1>5 DEF Buffer
<1>7. UserBoundary(b) = [three EXCEPT !.committed = FALSE]
  BY <1>1, <1>3, <1>5 DEF UserBoundary, Buffer
<1> QED BY <1>6, <1>7 DEF Buffer

\* A final transcript joins the open utterance, or the last one.
LEMMA FinalIs ==
    ASSUME NEW b \in Buffer, NEW u \in Nat
    PROVE  LET d == FinalTranscript(b, u) IN
           /\ d \in Buffer /\ d.inUser = b.inUser /\ d.inTurn = b.inTurn /\ d.now = b.now /\ d.ended = b.ended
           /\ b.inUser => d.parts = Append(b.parts, u) /\ d.last = b.last /\ d.committed = b.committed
           /\ ~b.inUser => d.parts = b.parts /\ d.last = Append(b.last, u) /\ ~d.committed
<1>0. Append(b.parts, u) \in Seq(Nat) /\ Append(b.last, u) \in Seq(Nat) /\ b.inUser \in BOOLEAN
  BY DEF Buffer
<1>1. CASE b.inUser
  <2>1. FinalTranscript(b, u) = [b EXCEPT !.parts = Append(b.parts, u)]
    BY <1>1 DEF FinalTranscript
  <2> QED BY <1>0, <1>1, <2>1 DEF Buffer
<1>2. CASE ~b.inUser
  <2>1. PICK one : one = [b EXCEPT !.last = Append(b.last, u)]
    OBVIOUS
  <2>2. /\ one \in Buffer /\ one.inUser = b.inUser /\ one.parts = b.parts /\ one.last = Append(b.last, u)
        /\ one.inTurn = b.inTurn /\ one.now = b.now /\ one.ended = b.ended
    BY <1>0, <2>1 DEF Buffer
  <2>3. FinalTranscript(b, u) = [one EXCEPT !.committed = FALSE]
    BY <1>2, <2>1 DEF FinalTranscript, Buffer
  <2> QED BY <1>0, <1>2, <2>2, <2>3 DEF Buffer
<1> QED BY <1>0, <1>1, <1>2

\* A text that is consumed is committed, unless its utterance is open.
LEMMA ConsumeIs ==
    ASSUME NEW b \in Buffer
    PROVE  LET d == Consume(b) IN
           /\ d \in Buffer /\ d.inUser = b.inUser /\ d.parts = b.parts /\ d.last = b.last
           /\ d.inTurn = b.inTurn /\ d.now = b.now /\ d.ended = b.ended
           /\ d.committed = b.committed \/ d.committed
           /\ ~b.inUser /\ b.last # <<>> => d.committed
<1>1. CASE b.inUser \/ b.last = <<>>
  BY <1>1 DEF Consume
<1>2. CASE ~(b.inUser \/ b.last = <<>>)
  <2>1. Consume(b) = [b EXCEPT !.committed = TRUE]
    BY <1>2 DEF Consume
  <2> QED BY <1>2, <2>1 DEF Buffer
<1> QED BY <1>1, <1>2

\* The end of the assistant's turn: the turn becomes the last one.
LEMMA AssistantBoundaryIs ==
    ASSUME NEW b \in Buffer
    PROVE  LET d == AssistantBoundary(b) IN
           /\ d \in Buffer /\ d.inUser = b.inUser /\ d.parts = b.parts /\ d.last = b.last /\ d.committed = b.committed
           /\ ~d.inTurn /\ d.now = Quiet /\ d.ended = b.now
<1>1. PICK one : one = [b EXCEPT !.inTurn = FALSE]
  OBVIOUS
<1>2. /\ one \in Buffer /\ one.inUser = b.inUser /\ one.parts = b.parts /\ one.last = b.last
      /\ one.committed = b.committed /\ ~one.inTurn /\ one.now = b.now
  BY <1>1 DEF Buffer
<1>3. PICK two : two = [one EXCEPT !.ended = b.now]
  OBVIOUS
<1>4. /\ two \in Buffer /\ two.inUser = b.inUser /\ two.parts = b.parts /\ two.last = b.last
      /\ two.committed = b.committed /\ ~two.inTurn /\ two.ended = b.now
  BY <1>2, <1>3 DEF Buffer
<1>5. AssistantBoundary(b) = [two EXCEPT !.now = Quiet]
  BY <1>1, <1>3 DEF AssistantBoundary, Buffer
<1> QED BY <1>4, <1>5, Empties DEF Buffer

\* An interruption keeps what was said and drops the tool calls.
LEMMA InterruptIs ==
    ASSUME NEW b \in Buffer
    PROVE  LET d == Interrupt(b) IN
           /\ d \in Buffer /\ d.inUser = b.inUser /\ d.parts = b.parts /\ d.last = b.last /\ d.committed = b.committed
           /\ ~d.inTurn /\ d.now = Quiet
           /\ b.now.text = <<>> => d.ended = b.ended
           /\ b.now.text # <<>> => d.ended.text = b.now.text /\ d.ended.tools = <<>>
<1>1. PICK one : one = [b EXCEPT !.inTurn = FALSE]
  OBVIOUS
<1>2. /\ one \in Buffer /\ one.inUser = b.inUser /\ one.parts = b.parts /\ one.last = b.last
      /\ one.committed = b.committed /\ ~one.inTurn /\ one.ended = b.ended
  BY <1>1 DEF Buffer
<1>3. PICK two : two = [one EXCEPT !.now = Quiet]
  OBVIOUS
<1>4. /\ two \in Buffer /\ two.inUser = b.inUser /\ two.parts = b.parts /\ two.last = b.last
      /\ two.committed = b.committed /\ ~two.inTurn /\ two.now = Quiet /\ two.ended = b.ended
  BY <1>2, <1>3, Empties DEF Buffer
<1>5. PICK e : e = IF b.now.text = <<>> THEN b.ended ELSE [b.now EXCEPT !.tools = <<>>]
  OBVIOUS
<1>6. /\ e \in Utterance
      /\ b.now.text = <<>> => e = b.ended
      /\ b.now.text # <<>> => e.text = b.now.text /\ e.tools = <<>>
  <2>1. b.now \in Utterance /\ b.ended \in Utterance
    BY DEF Buffer
  <2>2. <<>> \in Seq(Nat)
    OBVIOUS
  <2> QED BY <1>5, <2>1, <2>2 DEF Utterance
<1>7. Interrupt(b) = [two EXCEPT !.ended = e]
  BY <1>1, <1>3, <1>5 DEF Interrupt, Buffer
<1> QED BY <1>4, <1>6, <1>7 DEF Buffer

\* What a sequence names, with one more at its end.
LEMMA AppendIds ==
    ASSUME NEW s \in Seq(Nat), NEW n \in Nat
    PROVE  Ids(Append(s, n)) = Ids(s) \union {n}
<1>1. /\ Len(s) \in Nat /\ DOMAIN s = 1..Len(s) /\ DOMAIN Append(s, n) = 1..(Len(s) + 1)
      /\ Append(s, n)[Len(s) + 1] = n /\ \A i \in 1..Len(s) : Append(s, n)[i] = s[i]
  OBVIOUS
<1>2. DOMAIN Append(s, n) = DOMAIN s \union {Len(s) + 1}
  BY <1>1
<1> QED BY <1>1, <1>2 DEF Ids

\* What the tasks keep, when only the buffer and the state change.
LEMMA TalkMove ==
    ASSUME CallInv, UNCHANGED <<conns, registered, task, lingering, inflight>>, count'.marks = count.marks,
           \/ task["provider"].at = "rest"
           \/ st' = st /\ buf'.inTurn = buf.inTurn /\ buf'.now = buf.now /\ buf'.ended = buf.ended,
           st' # "tool_running" \/ st' = st,
           IsIdle(st', buf') => idleQueue' = 0
    PROVE  TaskInv'
<1>1. /\ "provider" \in Tasks /\ "client" \in Tasks /\ Running' = Running
      /\ TaskPlaces /\ StateFits /\ BoundaryFits /\ IdleDelivered
  BY DEF Tasks, Running, CallInv, TaskInv
<1>2. TaskPlaces' /\ StateFits' /\ BoundaryFits' /\ IdleDelivered'
  <2>1. TaskPlaces'
    BY <1>1 DEF TaskPlaces
  <2>2. StateFits'
    BY <1>1 DEF StateFits
  <2>3. BoundaryFits'
    BY <1>1 DEF BoundaryFits
  <2>4. IdleDelivered'
    BY <1>1 DEF IdleDelivered
  <2> QED BY <2>1, <2>2, <2>3, <2>4
<1>3. Counted'
  BY DEF CallInv, TaskInv, Counted, Inside
<1> QED BY <1>2, <1>3 DEF TaskInv

\* A text delta keeps the invariant: its id is new.
LEMMA TextDeltaInv ==
    ASSUME CallInv, TextDelta
    PROVE  CallInv'
<1> DEFINE n == count.spoken + 1
<1>0. count' = [count EXCEPT !.spoken = @ + 1] /\ buf' = [buf EXCEPT !.inTurn = TRUE, !.now.text = Append(@, n)]
  BY DEF TextDelta
<1>1. /\ UNCHANGED managerVars /\ task["provider"].at = "rest"
      /\ st' = (IF st \in {"listening", "thinking"} THEN "speaking" ELSE st)
      /\ idleQueue' = idleQueue /\ task' = task /\ lingering' = lingering /\ inflight' = inflight
      /\ rows' = rows /\ answered' = answered /\ reopened' = reopened /\ unlucky' = unlucky
  BY DEF TextDelta, Listens, historyVars
<1>2. TalkTypes /\ count \in Counts /\ count.said \in Nat /\ count.spoken \in Nat /\ count.tools \in Nat /\ n \in Nat
  BY DEF CallInv, TalkTypes, Counts
<1>3. /\ count' \in Counts /\ count'.spoken = n /\ count'.said = count.said
      /\ count'.tools = count.tools /\ count'.marks = count.marks /\ count'.slots = count.slots
  BY <1>0, <1>2 DEF Counts
<1>4. buf \in Buffer /\ buf.now.text \in Seq(Nat) /\ Ids(buf.now.text) \subseteq 1..count.spoken
  BY <1>2 DEF TalkTypes, Buffer, Utterance, CallInv, SpokenIds
<1> HIDE DEF n
<1>5. /\ buf' \in Buffer /\ buf'.inUser = buf.inUser /\ buf'.parts = buf.parts /\ buf'.last = buf.last
      /\ buf'.committed = buf.committed /\ buf'.ended = buf.ended
      /\ buf'.now.text = Append(buf.now.text, n) /\ buf'.now.tools = buf.now.tools
  <2>1. n \in Nat /\ buf \in Buffer
    BY <1>2, <1>4
  <2>2. PICK b \in Buffer : b = buf
    BY <2>1
  <2>3. PICK one : one = [b EXCEPT !.inTurn = TRUE]
    OBVIOUS
  <2>4. PICK k : k = [b.now EXCEPT !.text = Append(b.now.text, n)]
    OBVIOUS
  <2>5. PICK d : d = [one EXCEPT !.now = k]
    OBVIOUS
  <2>6. buf' = d
    BY <1>0, <2>2, <2>3, <2>4, <2>5 DEF Buffer
  <2>7. /\ b.now \in Utterance /\ Append(b.now.text, n) \in Seq(Nat)
    BY <2>1 DEF Buffer, Utterance
  <2>8. /\ one \in Buffer /\ one.inUser = b.inUser /\ one.parts = b.parts /\ one.last = b.last
        /\ one.committed = b.committed /\ one.ended = b.ended
    BY <2>3 DEF Buffer
  <2>9. k \in Utterance /\ k.text = Append(b.now.text, n) /\ k.tools = b.now.tools
    BY <2>4, <2>7 DEF Utterance
  <2>10. /\ d \in Buffer /\ d.inUser = b.inUser /\ d.parts = b.parts /\ d.last = b.last /\ d.committed = b.committed
         /\ d.ended = b.ended /\ d.now = k
    BY <2>5, <2>8, <2>9 DEF Buffer
  <2> QED BY <2>2, <2>6, <2>9, <2>10
<1>6. TalkTypes'
  BY <1>1, <1>2, <1>3, <1>5 DEF TalkTypes
<1>7. ManagerInv'
  BY <1>1, <1>3, ManagerFrame
<1>8. TaskInv'
  <2>1. st' # "listening" /\ (st' # "tool_running" \/ st' = st)
    BY <1>1
  <2> QED BY <1>1, <1>3, <2>1, TalkMove DEF managerVars, IsIdle
<1>9. UserQuiet
  BY <1>1, <1>2, <1>3, <1>5 DEF UserQuiet, Said, Takes, CallInv, UserIds
<1>10. Ids(buf'.now.text) = Ids(buf.now.text) \union {n}
  BY <1>2, <1>4, <1>5, AppendIds
<1>11. SpokenIds'
  <2>1. 1..count.spoken \subseteq 1..count'.spoken /\ n \in 1..count'.spoken
    BY <1>2, <1>3 DEF n
  <2> QED BY <1>1, <1>5, <1>10, <2>1 DEF CallInv, SpokenIds
<1>12. SpokenPlaces'
  <2> SUFFICES ASSUME NEW s \in Nat
      PROVE /\ \A i, j \in DOMAIN rows : InRow("assistant", s, i) /\ InRow("assistant", s, j) => i = j
            /\ \A o \in Tasks : Carries(o, s) => Unstored("assistant", s)
            /\ ~(Carries("provider", s) /\ Carries("client", s))
            /\ Spoken(s)' => Unstored("assistant", s) /\ ~Carries("provider", s) /\ ~Carries("client", s)
    BY <1>1 DEF SpokenPlaces, InRow, Carries, Unstored
  <2>1. /\ \A i, j \in DOMAIN rows : InRow("assistant", s, i) /\ InRow("assistant", s, j) => i = j
        /\ \A o \in Tasks : Carries(o, s) => Unstored("assistant", s)
        /\ ~(Carries("provider", s) /\ Carries("client", s))
        /\ Spoken(s) => Unstored("assistant", s) /\ ~Carries("provider", s) /\ ~Carries("client", s)
    BY DEF CallInv, SpokenPlaces
  <2>2. Spoken(s)' => Spoken(s) \/ s = n
    BY <1>1, <1>10 DEF Spoken
  <2>3. s = n => Unstored("assistant", s) /\ ~Carries("provider", s) /\ ~Carries("client", s)
    <3>1. n \notin 1..count.spoken /\ "provider" \in Tasks /\ "client" \in Tasks
      BY <1>2 DEF n, Tasks
    <3> QED BY <3>1 DEF CallInv, SpokenIds, Unstored, InRow, Carries
  <2> QED BY <2>1, <2>2, <2>3
<1>13. ToolQuiet
  BY <1>1, <1>2, <1>3, <1>5 DEF ToolQuiet, Asked, Open, Tasks
<1> QED BY <1>6, <1>7, <1>8, <1>9, <1>11, <1>12, <1>13, UserFrame, ToolFrame DEF CallInv

\* A tool call keeps it: its id is new.
LEMMA ToolCallInv ==
    ASSUME CallInv, ToolCall
    PROVE  CallInv'
<1> DEFINE n == count.tools + 1
<1>0. count' = [count EXCEPT !.tools = @ + 1] /\ buf' = [buf EXCEPT !.inTurn = TRUE, !.now.tools = Append(@, n)]
  BY DEF ToolCall
<1>1. /\ UNCHANGED managerVars /\ task["provider"].at = "rest"
      /\ Flush(st, buf) /\ st' = st /\ task' = task /\ lingering' = lingering /\ inflight' = inflight
      /\ rows' = rows /\ answered' = answered /\ reopened' = reopened /\ unlucky' = unlucky
  BY DEF ToolCall, Listens, historyVars
<1>2. TalkTypes /\ count \in Counts /\ count.said \in Nat /\ count.spoken \in Nat /\ count.tools \in Nat /\ n \in Nat
  BY DEF CallInv, TalkTypes, Counts
<1>3. /\ count' \in Counts /\ count'.tools = n /\ count'.said = count.said
      /\ count'.spoken = count.spoken /\ count'.marks = count.marks /\ count'.slots = count.slots
  BY <1>0, <1>2 DEF Counts
<1>4. buf \in Buffer /\ buf.now.tools \in Seq(Nat) /\ Ids(buf.now.tools) \subseteq 1..count.tools
  BY <1>2 DEF TalkTypes, Buffer, Utterance, CallInv, ToolIds
<1> HIDE DEF n
<1>5. /\ buf' \in Buffer /\ buf'.inUser = buf.inUser /\ buf'.parts = buf.parts /\ buf'.last = buf.last
      /\ buf'.committed = buf.committed /\ buf'.ended = buf.ended
      /\ buf'.now.tools = Append(buf.now.tools, n) /\ buf'.now.text = buf.now.text
  <2>1. n \in Nat /\ buf \in Buffer
    BY <1>2, <1>4
  <2>2. PICK b \in Buffer : b = buf
    BY <2>1
  <2>3. PICK one : one = [b EXCEPT !.inTurn = TRUE]
    OBVIOUS
  <2>4. PICK k : k = [b.now EXCEPT !.tools = Append(b.now.tools, n)]
    OBVIOUS
  <2>5. PICK d : d = [one EXCEPT !.now = k]
    OBVIOUS
  <2>6. buf' = d
    BY <1>0, <2>2, <2>3, <2>4, <2>5 DEF Buffer
  <2>7. /\ b.now \in Utterance /\ Append(b.now.tools, n) \in Seq(Nat)
    BY <2>1 DEF Buffer, Utterance
  <2>8. /\ one \in Buffer /\ one.inUser = b.inUser /\ one.parts = b.parts /\ one.last = b.last
        /\ one.committed = b.committed /\ one.ended = b.ended
    BY <2>3 DEF Buffer
  <2>9. k \in Utterance /\ k.tools = Append(b.now.tools, n) /\ k.text = b.now.text
    BY <2>4, <2>7 DEF Utterance
  <2>10. /\ d \in Buffer /\ d.inUser = b.inUser /\ d.parts = b.parts /\ d.last = b.last /\ d.committed = b.committed
         /\ d.ended = b.ended /\ d.now = k
    BY <2>5, <2>8, <2>9 DEF Buffer
  <2> QED BY <2>2, <2>6, <2>9, <2>10
<1>6. TalkTypes'
  BY <1>1, <1>2, <1>3, <1>5 DEF TalkTypes
<1>7. ManagerInv'
  BY <1>1, <1>3, ManagerFrame
<1>8. TaskInv'
  <2>1. IsIdle(st', buf') => idleQueue' = 0
    BY <1>1, <1>5 DEF IsIdle, Flush
  <2> QED BY <1>1, <1>3, <2>1, TalkMove DEF managerVars
<1>9. UserQuiet
  BY <1>1, <1>2, <1>3, <1>5 DEF UserQuiet, Said, Takes, CallInv, UserIds
<1>10. SpokenQuiet
  BY <1>1, <1>2, <1>3, <1>5 DEF SpokenQuiet, Spoken, Carries, Tasks
<1>11. Ids(buf'.now.tools) = Ids(buf.now.tools) \union {n}
  BY <1>2, <1>4, <1>5, AppendIds
<1>12. ToolIds'
  <2>1. 1..count.tools \subseteq 1..count'.tools /\ n \in 1..count'.tools /\ n \notin 1..count.tools
    BY <1>2, <1>3 DEF n
  <2>2. /\ Ids(buf'.now.tools) \union Ids(buf'.ended.tools) \subseteq 1..count'.tools
        /\ Ids(task'["provider"].turn.tools) \subseteq 1..count'.tools
        /\ \A i \in DOMAIN rows' : Ids(rows'[i].tools) \subseteq 1..count'.tools
    BY <1>1, <1>5, <1>11, <2>1 DEF CallInv, ToolIds
  <2>3. ASSUME NEW id \in Nat, Asked(id)', NEW i \in DOMAIN rows' PROVE ~Names(id, i)'
    <3>1. Asked(id) \/ id = n
      BY <1>1, <1>11, <2>3 DEF Asked
    <3> QED BY <1>1, <2>1, <2>3, <3>1 DEF CallInv, ToolIds, Names
  <2> QED BY <2>2, <2>3 DEF ToolIds
<1>13. ToolPlaces'
  BY <1>1 DEF CallInv, ToolPlaces, Resulted, Names, Open
<1> QED BY <1>6, <1>7, <1>8, <1>9, <1>10, <1>12, <1>13, UserFrame, SpokenFrame DEF CallInv

\* The provider's interruption keeps it.
LEMMA InterruptedInv ==
    ASSUME CallInv, InterruptedEvent
    PROVE  CallInv'
<1>1. /\ UNCHANGED managerVars /\ task["provider"].at = "rest" /\ count' = count /\ buf' = buf
      /\ st' = "interrupted" /\ idleQueue' = idleQueue /\ task' = task /\ lingering' = lingering /\ inflight' = inflight
      /\ rows' = rows /\ answered' = answered /\ reopened' = reopened /\ unlucky' = unlucky
  BY DEF InterruptedEvent, Listens, historyVars
<1>2. TalkTypes /\ count.said \in Nat /\ count.spoken \in Nat /\ count.tools \in Nat
  BY DEF CallInv, TalkTypes, Counts
<1>3. TalkTypes'
  BY <1>1, <1>2 DEF TalkTypes
<1>4. ManagerInv'
  BY <1>1, ManagerFrame
<1>5. TaskInv'
  BY <1>1, TalkMove DEF managerVars, IsIdle
<1>6. UserQuiet
  BY <1>1, <1>2 DEF UserQuiet, Said, Takes, CallInv, UserIds
<1>7. SpokenQuiet
  BY <1>1, <1>2 DEF SpokenQuiet, Spoken, Carries, Tasks
<1>8. ToolQuiet
  BY <1>1, <1>2 DEF ToolQuiet, Asked, Open, Tasks
<1> QED BY <1>3, <1>4, <1>5, <1>6, <1>7, <1>8, UserFrame, SpokenFrame, ToolFrame DEF CallInv

\* A new text of the user is nowhere yet.
LEMMA UserAdded ==
    ASSUME CallInv, rows' = rows, task' = task, reopened \subseteq reopened', count' \in Counts,
           count'.said = count.said + 1, Ids(buf'.parts) \union Ids(buf'.last) \subseteq 1..count'.said,
           Ids(buf'.parts) \intersect Ids(buf'.last) = {}, ~buf'.inUser => buf'.parts = <<>>,
           \A u \in Nat \ reopened' : Said(u)' => Said(u) \/ u = count.said + 1
    PROVE  UserIds' /\ UserPlaces'
<1>1. count.said \in Nat /\ 1..count.said \subseteq 1..count'.said /\ count.said + 1 \notin 1..count.said
  BY DEF CallInv, TalkTypes, Counts
<1>2. UserIds'
  BY <1>1 DEF CallInv, UserIds
<1>3. UserPlaces'
  <2> SUFFICES ASSUME NEW u \in Nat, u \notin reopened'
      PROVE /\ \A i, j \in DOMAIN rows : InRow("user", u, i) /\ InRow("user", u, j) => i = j
            /\ \A o \in Tasks : Takes(o, u) => Unstored("user", u)
            /\ ~(Takes("provider", u) /\ Takes("client", u))
            /\ Said(u)' => Unstored("user", u) /\ ~Takes("provider", u) /\ ~Takes("client", u)
    BY DEF UserPlaces, InRow, Takes, Unstored
  <2>1. /\ \A i, j \in DOMAIN rows : InRow("user", u, i) /\ InRow("user", u, j) => i = j
        /\ \A o \in Tasks : Takes(o, u) => Unstored("user", u)
        /\ ~(Takes("provider", u) /\ Takes("client", u))
        /\ Said(u) => Unstored("user", u) /\ ~Takes("provider", u) /\ ~Takes("client", u)
    BY DEF CallInv, UserPlaces
  <2>2. u = count.said + 1 => Unstored("user", u) /\ ~Takes("provider", u) /\ ~Takes("client", u)
    BY <1>1 DEF CallInv, UserIds, Unstored, InRow, Takes, Tasks
  <2> QED BY <2>1, <2>2
<1> QED BY <1>2, <1>3

\* A final transcript keeps it: a text that was stored counts as reopened.
LEMMA TranscriptInv ==
    ASSUME CallInv, Transcript
    PROVE  CallInv'
<1>1. PICK n : n = count.said + 1
  OBVIOUS
<1>2. /\ UNCHANGED managerVars /\ task["provider"].at = "rest" /\ count' = [count EXCEPT !.said = @ + 1]
      /\ buf' = FinalTranscript(buf, n) /\ Flush(st, buf')
      /\ reopened' = (IF ~buf.inUser /\ buf.committed THEN reopened \union Ids(buf.last) ELSE reopened)
      /\ st' = st /\ task' = task /\ lingering' = lingering /\ inflight' = inflight
      /\ rows' = rows /\ answered' = answered /\ unlucky' = unlucky
  BY <1>1 DEF Transcript, Listens
<1>3. /\ TalkTypes /\ count \in Counts /\ count.said \in Nat /\ count.spoken \in Nat /\ count.tools \in Nat /\ n \in Nat
      /\ buf \in Buffer /\ buf.parts \in Seq(Nat) /\ buf.last \in Seq(Nat)
  BY <1>1 DEF CallInv, TalkTypes, Counts, Buffer
<1>4. /\ count' \in Counts /\ count'.said = n /\ count'.spoken = count.spoken
      /\ count'.tools = count.tools /\ count'.marks = count.marks /\ count'.slots = count.slots
  BY <1>1, <1>2, <1>3 DEF Counts
<1>5. /\ buf' \in Buffer /\ buf'.inUser = buf.inUser
      /\ buf'.inTurn = buf.inTurn /\ buf'.now = buf.now /\ buf'.ended = buf.ended
      /\ buf.inUser => buf'.parts = Append(buf.parts, n) /\ buf'.last = buf.last /\ buf'.committed = buf.committed
      /\ ~buf.inUser => buf'.parts = buf.parts /\ buf'.last = Append(buf.last, n) /\ ~buf'.committed
  BY <1>2, <1>3, FinalIs
<1>6. TalkTypes'
  BY <1>2, <1>3, <1>4, <1>5 DEF TalkTypes
<1>7. ManagerInv'
  BY <1>2, <1>4, ManagerFrame
<1>8. TaskInv'
  BY <1>2, <1>4, TalkMove DEF managerVars, Flush
<1>9. UserIds' /\ UserPlaces'
  <2>1. Ids(Append(buf.parts, n)) = Ids(buf.parts) \union {n} /\ Ids(Append(buf.last, n)) = Ids(buf.last) \union {n}
    BY <1>3, AppendIds
  <2>2. /\ Ids(buf.parts) \union Ids(buf.last) \subseteq 1..count.said /\ Ids(buf.parts) \intersect Ids(buf.last) = {}
        /\ ~buf.inUser => buf.parts = <<>>
        /\ n \notin 1..count.said /\ n \in 1..count'.said /\ 1..count.said \subseteq 1..count'.said
    BY <1>1, <1>3, <1>4 DEF CallInv, UserIds
  <2>3. /\ Ids(buf'.parts) \union Ids(buf'.last) \subseteq 1..count'.said
        /\ Ids(buf'.parts) \intersect Ids(buf'.last) = {} /\ (~buf'.inUser => buf'.parts = <<>>)
    BY <1>5, <2>1, <2>2
  <2>4. \A u \in Nat \ reopened' : Said(u)' => Said(u) \/ u = n
    BY <1>2, <1>5, <2>1 DEF Said
  <2> QED BY <1>1, <1>2, <1>4, <2>3, <2>4, UserAdded
<1>10. SpokenQuiet
  BY <1>2, <1>3, <1>4, <1>5 DEF SpokenQuiet, Spoken, Carries, Tasks
<1>11. ToolQuiet
  BY <1>2, <1>3, <1>4, <1>5 DEF ToolQuiet, Asked, Open, Tasks
<1> QED BY <1>6, <1>7, <1>8, <1>9, <1>10, <1>11, SpokenFrame, ToolFrame DEF CallInv

\* A typed text keeps it.
LEMMA TypeTextInv ==
    ASSUME CallInv, TypeText
    PROVE  CallInv'
<1>1. PICK n : n = count.said + 1
  OBVIOUS
<1>2. /\ UNCHANGED managerVars /\ count' = [count EXCEPT !.said = @ + 1]
      /\ buf' = UserAdds(buf, <<n>>) /\ idleQueue' = idleQueue /\ reopened' = reopened
      /\ st' = st /\ task' = task /\ lingering' = lingering /\ inflight' = inflight
      /\ rows' = rows /\ answered' = answered /\ unlucky' = unlucky
  BY <1>1 DEF TypeText, historyVars
<1>3. /\ TalkTypes /\ count \in Counts /\ count.said \in Nat /\ count.spoken \in Nat /\ count.tools \in Nat /\ n \in Nat
      /\ buf \in Buffer /\ buf.parts \in Seq(Nat)
  BY <1>1 DEF CallInv, TalkTypes, Counts, Buffer
<1>4. /\ count' \in Counts /\ count'.said = n /\ count'.spoken = count.spoken
      /\ count'.tools = count.tools /\ count'.marks = count.marks /\ count'.slots = count.slots
  BY <1>1, <1>2, <1>3 DEF Counts
<1>5. /\ buf' \in Buffer /\ buf'.inUser /\ buf'.parts = buf.parts \o <<n>> /\ buf'.last = buf.last
      /\ buf'.committed = buf.committed
      /\ buf'.inTurn = buf.inTurn /\ buf'.now = buf.now /\ buf'.ended = buf.ended
  <2>1. <<n>> \in Seq(Nat)
    BY <1>3
  <2> QED BY <1>2, <1>3, <2>1, UserAddsIs
<1>6. TalkTypes'
  BY <1>2, <1>3, <1>4, <1>5 DEF TalkTypes
<1>7. ManagerInv'
  BY <1>2, <1>4, ManagerFrame
<1>8. TaskInv'
  BY <1>2, <1>4, <1>5, TalkMove DEF managerVars, IsIdle
<1>9. UserIds' /\ UserPlaces'
  <2>1. buf'.parts = Append(buf.parts, n) /\ Ids(Append(buf.parts, n)) = Ids(buf.parts) \union {n}
    BY <1>3, <1>5, AppendIds
  <2>2. /\ Ids(buf.parts) \union Ids(buf.last) \subseteq 1..count.said /\ Ids(buf.parts) \intersect Ids(buf.last) = {}
        /\ n \notin 1..count.said /\ n \in 1..count'.said /\ 1..count.said \subseteq 1..count'.said
    BY <1>1, <1>3, <1>4 DEF CallInv, UserIds
  <2>3. /\ Ids(buf'.parts) \union Ids(buf'.last) \subseteq 1..count'.said
        /\ Ids(buf'.parts) \intersect Ids(buf'.last) = {}
    BY <1>5, <2>1, <2>2
  <2>4. \A u \in Nat \ reopened' : Said(u)' => Said(u) \/ u = n
    BY <1>5, <2>1 DEF Said
  <2> QED BY <1>1, <1>2, <1>4, <1>5, <2>3, <2>4, UserAdded
<1>10. SpokenQuiet
  BY <1>2, <1>3, <1>4, <1>5 DEF SpokenQuiet, Spoken, Carries, Tasks
<1>11. ToolQuiet
  BY <1>2, <1>3, <1>4, <1>5 DEF ToolQuiet, Asked, Open, Tasks
<1> QED BY <1>6, <1>7, <1>8, <1>9, <1>10, <1>11, SpokenFrame, ToolFrame DEF CallInv

\* Audio, its end and the end of a typed text keep it.
LEMMA AudioInv ==
    ASSUME CallInv, Audio \/ AudioStreamEnd \/ TextSent
    PROVE  CallInv'
<1>1. /\ UNCHANGED managerVars /\ count' = count /\ reopened' = reopened
      /\ st' = st /\ task' = task /\ lingering' = lingering /\ inflight' = inflight
      /\ rows' = rows /\ answered' = answered /\ unlucky' = unlucky
      /\ \/ buf' = UserAdds(buf, <<>>) /\ idleQueue' = idleQueue
         \/ buf' = UserBoundary(buf) /\ Flush(st, buf')
  BY DEF Audio, AudioStreamEnd, TextSent, historyVars
<1>2. /\ TalkTypes /\ count.said \in Nat /\ count.spoken \in Nat /\ count.tools \in Nat
      /\ buf \in Buffer /\ buf.parts \in Seq(Nat)
  BY DEF CallInv, TalkTypes, Counts, Buffer
<1>3. /\ buf' \in Buffer
      /\ buf'.inTurn = buf.inTurn /\ buf'.now = buf.now /\ buf'.ended = buf.ended
      /\ \/ buf'.inUser /\ buf'.parts = buf.parts /\ buf'.last = buf.last /\ buf'.committed = buf.committed
         \/ ~buf'.inUser /\ buf'.parts = <<>> /\ buf'.last = buf.parts /\ ~buf'.committed
  <2>1. CASE buf' = UserAdds(buf, <<>>)
    <3>1. <<>> \in Seq(Nat) /\ buf.parts \o <<>> = buf.parts
      BY <1>2
    <3> QED BY <1>2, <2>1, <3>1, UserAddsIs
  <2>2. CASE buf' = UserBoundary(buf)
    BY <1>2, <2>2, UserBoundaryIs
  <2> QED BY <1>1, <2>1, <2>2
<1>4. TalkTypes'
  BY <1>1, <1>2, <1>3 DEF TalkTypes
<1>5. ManagerInv'
  BY <1>1, ManagerFrame
<1>6. TaskInv'
  <2>1. IsIdle(st', buf') => idleQueue' = 0
    <3>1. CASE buf' = UserAdds(buf, <<>>)
      <4>1. <<>> \in Seq(Nat)
        OBVIOUS
      <4>2. buf'.inUser
        BY <1>2, <3>1, <4>1, UserAddsIs
      <4> QED BY <4>2 DEF IsIdle
    <3>2. CASE Flush(st, buf')
      BY <1>1, <3>2 DEF Flush
    <3> QED BY <1>1, <3>1, <3>2
  <2> QED BY <1>1, <1>3, <2>1, TalkMove DEF managerVars
<1>7. UserQuiet
  BY <1>1, <1>2, <1>3, Empties DEF UserQuiet, Said, Takes, CallInv, UserIds
<1>8. SpokenQuiet
  BY <1>1, <1>2, <1>3 DEF SpokenQuiet, Spoken, Carries, Tasks
<1>9. ToolQuiet
  BY <1>1, <1>2, <1>3 DEF ToolQuiet, Asked, Open, Tasks
<1> QED BY <1>4, <1>5, <1>6, <1>7, <1>8, <1>9, UserFrame, SpokenFrame, ToolFrame DEF CallInv

\* The end of the assistant's turn keeps it, also when it was interrupted.
LEMMA TurnBoundaryInv ==
    ASSUME CallInv, NEW complete \in BOOLEAN, TurnBoundary(complete)
    PROVE  CallInv'
<1>1. PICK b : b = AssistantBoundary(buf)
  OBVIOUS
<1>2. PICK d : d = AssistantBoundary(b)
  OBVIOUS
<1>3. TalkTypes /\ buf \in Buffer /\ count.said \in Nat /\ count.spoken \in Nat /\ count.tools \in Nat
  BY DEF CallInv, TalkTypes, Counts
<1>4. /\ b \in Buffer /\ b.inUser = buf.inUser /\ b.parts = buf.parts /\ b.last = buf.last
      /\ b.committed = buf.committed /\ ~b.inTurn /\ b.now = Quiet /\ b.ended = buf.now
  BY <1>1, <1>3, AssistantBoundaryIs
<1>5. /\ d \in Buffer /\ d.inUser = buf.inUser /\ d.parts = buf.parts /\ d.last = buf.last
      /\ d.committed = buf.committed /\ ~d.inTurn /\ d.now = Quiet /\ d.ended = Quiet
  BY <1>2, <1>4, AssistantBoundaryIs
<1>6. /\ UNCHANGED managerVars /\ Running /\ task["provider"].at = "rest" /\ count' = count
      /\ lingering' = lingering /\ inflight' = inflight
      /\ rows' = rows /\ answered' = answered /\ reopened' = reopened
  BY DEF TurnBoundary, Listens
<1>7. \/ /\ b.ended.tools # <<>> /\ st = "interrupted"
         /\ unlucky' = unlucky \union Ids(b.ended.tools)
         /\ buf' = (IF complete THEN d ELSE b)
         /\ st' = (IF complete THEN "listening" ELSE st)
         /\ Flush(st', buf') /\ task' = task
      \/ /\ st' = (IF b.ended.tools # <<>> THEN "tool_running" ELSE "listening")
         /\ buf' = b /\ task' = [task EXCEPT !["provider"].at = "boundary"]
         /\ idleQueue' = idleQueue /\ unlucky' = unlucky
  BY <1>1, <1>2 DEF TurnBoundary
<1>8. ManagerInv' /\ Running' = Running /\ registered' = registered
  BY <1>6, ManagerFrame DEF managerVars
<1>9. /\ "provider" \in Tasks /\ "client" \in Tasks /\ \A t \in Tasks : t \in {"provider", "client"}
      /\ task["provider"].turn = Quiet /\ TaskPlaces /\ StateFits /\ registered # NoCall
  BY <1>6 DEF Tasks, Running, CallInv, TaskInv, TaskPlaces
<1>10. CASE /\ b.ended.tools # <<>> /\ st = "interrupted"
            /\ unlucky' = unlucky \union Ids(b.ended.tools)
            /\ buf' = (IF complete THEN d ELSE b)
            /\ st' = (IF complete THEN "listening" ELSE st)
            /\ Flush(st', buf') /\ task' = task
  <2>1. /\ buf' \in Buffer /\ buf'.inUser = buf.inUser /\ buf'.parts = buf.parts /\ buf'.last = buf.last
        /\ buf'.committed = buf.committed /\ ~buf'.inTurn /\ buf'.now = Quiet /\ buf'.ended \in {buf.now, Quiet}
    BY <1>4, <1>5, <1>10
  <2>2. st' \in {"listening", "interrupted"} /\ (IsIdle(st', buf') => idleQueue' = 0)
    BY <1>10 DEF Flush
  <2>3. TalkTypes'
    BY <1>3, <1>6, <1>10, <2>1, <2>2 DEF TalkTypes
  <2>4. TaskInv'
    BY <1>6, <1>10, <2>2, TalkMove DEF managerVars
  <2>5. UserQuiet
    BY <1>3, <1>6, <1>10, <2>1 DEF UserQuiet, Said, Takes, CallInv, UserIds
  <2>6. SpokenQuiet
    BY <1>3, <1>6, <1>10, <2>1, Empties DEF SpokenQuiet, Spoken, Carries, Tasks
  <2>7. ToolQuiet
    BY <1>3, <1>6, <1>10, <2>1, Empties DEF ToolQuiet, Asked, Open, Tasks
  <2> QED BY <1>8, <2>3, <2>4, <2>5, <2>6, <2>7, UserFrame, SpokenFrame, ToolFrame DEF CallInv
<1>11. CASE /\ st' = (IF b.ended.tools # <<>> THEN "tool_running" ELSE "listening")
            /\ buf' = b /\ task' = [task EXCEPT !["provider"].at = "boundary"]
            /\ idleQueue' = idleQueue /\ unlucky' = unlucky
  <2>1. /\ task' \in [Tasks -> TaskRecord]
        /\ task'["provider"].at = "boundary" /\ task'["provider"].turn = Quiet
        /\ task'["provider"].user = task["provider"].user
        /\ task'["client"] = task["client"]
    <3>1. Goes("provider", "boundary") /\ "boundary" \in Sites /\ task \in [Tasks -> TaskRecord]
      BY <1>3, <1>11 DEF Goes, Sites, TalkTypes
    <3> QED BY <1>9, <3>1, GoesIs
  <2>2. /\ buf' \in Buffer /\ buf'.inUser = buf.inUser /\ buf'.parts = buf.parts /\ buf'.last = buf.last
        /\ buf'.committed = buf.committed /\ ~buf'.inTurn /\ buf'.now = Quiet /\ buf'.ended = buf.now
        /\ st' \in {"listening", "tool_running"} /\ (st' = "tool_running" => buf'.ended.tools # <<>>)
        /\ unlucky' = unlucky /\ idleQueue' = idleQueue
    BY <1>4, <1>11
  <2>3. TalkTypes'
    BY <1>3, <1>6, <2>1, <2>2 DEF TalkTypes
  <2>4. TaskInv'
    <3>1. TaskPlaces'
      BY <1>6, <1>8, <1>9, <2>1 DEF TaskPlaces
    <3>2. StateFits' /\ BoundaryFits' /\ IdleDelivered'
      BY <2>1, <2>2 DEF StateFits, BoundaryFits, IdleDelivered
    <3>3. Counted'
      BY <1>6, <2>1 DEF CallInv, TaskInv, Counted, Inside
    <3> QED BY <3>1, <3>2, <3>3 DEF TaskInv
  <2>5. UserQuiet
    BY <1>3, <1>6, <1>9, <2>1, <2>2 DEF UserQuiet, Said, Takes, CallInv, UserIds
  <2>6. SpokenQuiet
    BY <1>3, <1>6, <1>9, <2>1, <2>2, Empties DEF SpokenQuiet, Spoken, Carries
  <2>7. ToolQuiet
    BY <1>3, <1>6, <1>9, <2>1, <2>2, Empties DEF ToolQuiet, Asked, Open
  <2> QED BY <1>8, <2>3, <2>4, <2>5, <2>6, <2>7, UserFrame, SpokenFrame, ToolFrame DEF CallInv
<1> QED BY <1>7, <1>10, <1>11

\* Handling a turn takes it, and the user text that is not stored yet, out of
\* the buffer.
LEMMA HandleIs ==
    ASSUME CallInv, NEW t \in Tasks, NEW b \in Buffer, Handle(t, b), ~b.inTurn, b.now = Quiet,
           b.inUser = buf.inUser, b.parts = buf.parts, b.last = buf.last, b.committed = buf.committed,
           rows' = rows, count' \in Counts, count'.said = count.said, count'.spoken = count.spoken,
           task[t].at \in {"rest", "boundary"}, t = "provider" \/ task["provider"].at = "rest",
           Ids(b.ended.text) \subseteq 1..count.spoken,
           \A s \in Ids(b.ended.text) : Spoken(s)
    PROVE  /\ task' \in [Tasks -> TaskRecord] /\ task'[t].at = "lock" /\ task'[t].turn = b.ended
           /\ \A o \in Tasks : o # t => task'[o] = task[o]
           /\ buf' \in Buffer /\ buf'.inTurn = b.inTurn /\ buf'.now = b.now /\ buf'.ended = b.ended /\ buf'.inUser = b.inUser
           /\ UserIds' /\ UserPlaces' /\ SpokenIds' /\ SpokenPlaces'
<1>1. /\ buf.inUser \in BOOLEAN /\ buf.parts \in Seq(Nat) /\ buf.last \in Seq(Nat) /\ b.ended \in Utterance
      /\ count.said \in Nat /\ count.spoken \in Nat /\ task \in [Tasks -> TaskRecord]
  BY DEF CallInv, TalkTypes, Buffer, Counts
<1>2. PICK k : k = [Rest EXCEPT !.at = "lock", !.turn = CurrentTurn(b), !.user = UserText(b)]
  OBVIOUS
<1>3. CurrentTurn(b) = b.ended /\ UserText(b) \in Seq(Nat)
  <2>1. <<>> \in Seq(Nat)
    OBVIOUS
  <2> QED BY <1>1, <2>1 DEF CurrentTurn, UserText
<1>4. k \in TaskRecord /\ k.at = "lock" /\ k.turn = b.ended /\ k.user = UserText(b)
  <2>1. PICK one : one = [Rest EXCEPT !.at = "lock"]
    OBVIOUS
  <2>2. one \in TaskRecord /\ one.at = "lock"
    BY <2>1, Empties DEF TaskRecord, Sites
  <2>3. PICK two : two = [one EXCEPT !.turn = CurrentTurn(b)]
    OBVIOUS
  <2>4. two \in TaskRecord /\ two.at = "lock" /\ two.turn = b.ended
    BY <1>1, <1>3, <2>2, <2>3 DEF TaskRecord
  <2>5. k = [two EXCEPT !.user = UserText(b)]
    BY <1>2, <2>1, <2>3, Empties DEF TaskRecord
  <2> QED BY <1>3, <2>4, <2>5 DEF TaskRecord
<1>5. /\ task' = [task EXCEPT ![t] = k] /\ buf' = Consume(b)
      /\ reopened' = IF b.inUser THEN reopened \union Ids(b.parts) ELSE reopened
  BY <1>2 DEF Handle
<1>6. /\ task' \in [Tasks -> TaskRecord] /\ task'[t] = k
      /\ \A o \in Tasks : o # t => task'[o] = task[o]
  BY <1>1, <1>4, <1>5
<1>7. /\ buf' \in Buffer /\ buf'.inUser = buf.inUser /\ buf'.parts = buf.parts /\ buf'.last = buf.last
      /\ buf'.inTurn = b.inTurn /\ buf'.now = b.now /\ buf'.ended = b.ended
      /\ buf'.committed = buf.committed \/ buf'.committed
      /\ ~buf.inUser /\ buf.last # <<>> => buf'.committed
  BY <1>5, ConsumeIs
<1>8. /\ "provider" \in Tasks /\ "client" \in Tasks /\ t \in {"provider", "client"}
      /\ \A o \in Tasks : o \in {"provider", "client"}
  BY DEF Tasks
<1>9. UserIds'
  <2>1. Ids(UserText(b)) \subseteq 1..count.said
    BY Empties DEF UserText, CallInv, UserIds
  <2> QED BY <1>4, <1>6, <1>7, <1>8, <2>1 DEF CallInv, UserIds
<1>10. UserPlaces'
  <2> SUFFICES ASSUME NEW u \in Nat, u \notin reopened'
      PROVE /\ \A i, j \in DOMAIN rows : InRow("user", u, i) /\ InRow("user", u, j) => i = j
            /\ \A o \in Tasks : Takes(o, u)' => Unstored("user", u)
            /\ ~(Takes("provider", u)' /\ Takes("client", u)')
            /\ Said(u)' => Unstored("user", u) /\ ~Takes("provider", u)' /\ ~Takes("client", u)'
    BY DEF UserPlaces, InRow, Unstored
  <2>1. u \notin reopened /\ (b.inUser => u \notin Ids(b.parts))
    BY <1>5
  <2>2. /\ \A i, j \in DOMAIN rows : InRow("user", u, i) /\ InRow("user", u, j) => i = j
        /\ \A o \in Tasks : Takes(o, u) => Unstored("user", u)
        /\ ~(Takes("provider", u) /\ Takes("client", u))
        /\ Said(u) => Unstored("user", u) /\ ~Takes("provider", u) /\ ~Takes("client", u)
    BY <2>1 DEF CallInv, UserPlaces
  <2>3. (Said(u)' => Said(u)) /\ \A o \in Tasks : o # t => Takes(o, u)' = Takes(o, u)
    BY <1>6, <1>7 DEF Said, Takes
  <2>4. Takes(t, u)' => Said(u) /\ ~Said(u)'
    <3>1. Takes(t, u)' => u \in Ids(UserText(b))
      BY <1>4, <1>6 DEF Takes
    <3>2. u \in Ids(UserText(b)) => ~b.inUser /\ ~b.committed /\ b.last # <<>> /\ u \in Ids(b.last)
      BY <2>1, Empties DEF UserText
    <3>3. ~buf.inUser => buf.parts = <<>>
      BY DEF CallInv, UserIds
    <3> QED BY <1>7, <3>1, <3>2, <3>3, Empties DEF Said
  <2> QED BY <1>8, <2>2, <2>3, <2>4
<1>11. SpokenIds'
  BY <1>4, <1>6, <1>7, <1>8, Empties DEF CallInv, SpokenIds
<1>12. SpokenPlaces'
  <2> SUFFICES ASSUME NEW s \in Nat
      PROVE /\ \A i, j \in DOMAIN rows : InRow("assistant", s, i) /\ InRow("assistant", s, j) => i = j
            /\ \A o \in Tasks : Carries(o, s)' => Unstored("assistant", s)
            /\ ~(Carries("provider", s)' /\ Carries("client", s)')
            /\ ~Spoken(s)'
    BY DEF SpokenPlaces, InRow, Unstored
  <2>1. /\ \A i, j \in DOMAIN rows : InRow("assistant", s, i) /\ InRow("assistant", s, j) => i = j
        /\ \A o \in Tasks : Carries(o, s) => Unstored("assistant", s)
        /\ ~(Carries("provider", s) /\ Carries("client", s))
        /\ Spoken(s) => Unstored("assistant", s) /\ ~Carries("provider", s) /\ ~Carries("client", s)
    BY DEF CallInv, SpokenPlaces
  <2>2. \A o \in Tasks : o # t => Carries(o, s)' = Carries(o, s)
    BY <1>6 DEF Carries
  <2>3. Carries(t, s)' => Spoken(s)
    BY <1>4, <1>6 DEF Carries
  <2>4. ~Spoken(s)'
    <3>1. task'["provider"].at # "boundary"
      BY <1>4, <1>6, <1>8
    <3> QED BY <1>7, <3>1, Empties DEF Spoken
  <2> QED BY <1>8, <2>1, <2>2, <2>3, <2>4
<1> QED BY <1>4, <1>6, <1>7, <1>9, <1>10, <1>11, <1>12

\* A boundary that was sent keeps it: the turn goes to the task.
LEMMA BoundarySentInv ==
    ASSUME CallInv, BoundarySent
    PROVE  CallInv'
<1>1. /\ UNCHANGED managerVars /\ Running /\ task["provider"].at = "boundary" /\ count' = count /\ st' = st
      /\ lingering' = lingering /\ inflight' = inflight
      /\ rows' = rows /\ answered' = answered /\ unlucky' = unlucky
  BY DEF BoundarySent
<1>2. /\ TalkTypes /\ buf \in Buffer /\ count \in Counts
      /\ count.said \in Nat /\ count.spoken \in Nat /\ count.tools \in Nat
  BY DEF CallInv, TalkTypes, Counts
<1>3. ManagerInv' /\ Running' = Running /\ registered' = registered
  BY <1>1, ManagerFrame DEF managerVars
<1>4. /\ "provider" \in Tasks /\ "client" \in Tasks /\ \A t \in Tasks : t \in {"provider", "client"}
      /\ task["provider"].turn = Quiet /\ TaskPlaces /\ StateFits /\ registered # NoCall
      /\ ~buf.inTurn /\ buf.now = Quiet /\ (st = "tool_running" => buf.ended.tools # <<>>)
      /\ CurrentTurn(buf) = buf.ended
  BY <1>1 DEF Tasks, Running, CallInv, TaskInv, TaskPlaces, BoundaryFits, CurrentTurn
<1>5. CASE Empty(CurrentTurn(buf))
  <2>1. buf.ended = Quiet /\ task' = [task EXCEPT !["provider"] = Rest] /\ Flush(st, buf) /\ buf' = buf /\ reopened' = reopened
    BY <1>4, <1>5 DEF BoundarySent, Empty
  <2>2. task' \in [Tasks -> TaskRecord] /\ task'["provider"] = Rest /\ task'["client"] = task["client"]
    BY <1>2, <1>4, <2>1, Empties DEF TalkTypes
  <2>3. TalkTypes'
    BY <1>1, <1>2, <2>1, <2>2 DEF TalkTypes
  <2>4. TaskInv'
    <3>1. TaskPlaces'
      BY <1>1, <1>3, <1>4, <2>2, Empties DEF TaskPlaces
    <3>2. StateFits' /\ BoundaryFits'
      BY <1>1, <1>4, <2>1, <2>2, Empties DEF StateFits, BoundaryFits
    <3>3. IdleDelivered'
      BY <1>1, <2>1 DEF IdleDelivered, Flush
    <3>4. Counted'
      BY <1>1, <2>2, Empties DEF CallInv, TaskInv, Counted, Inside
    <3> QED BY <3>1, <3>2, <3>3, <3>4 DEF TaskInv
  <2>5. UserQuiet
    BY <1>1, <1>2, <1>4, <2>1, <2>2, Empties DEF UserQuiet, Said, Takes, CallInv, UserIds
  <2>6. SpokenQuiet
    BY <1>1, <1>2, <1>4, <2>1, <2>2, Empties DEF SpokenQuiet, Spoken, Carries
  <2>7. ToolQuiet
    BY <1>1, <1>2, <1>4, <2>1, <2>2, Empties DEF ToolQuiet, Asked, Open
  <2> QED BY <1>3, <2>3, <2>4, <2>5, <2>6, <2>7, UserFrame, SpokenFrame, ToolFrame DEF CallInv
<1>6. CASE ~Empty(CurrentTurn(buf))
  <2>1. Handle("provider", buf) /\ idleQueue' = idleQueue
    BY <1>6 DEF BoundarySent
  <2>2. Ids(buf.ended.text) \subseteq 1..count.spoken /\ \A s \in Ids(buf.ended.text) : Spoken(s)
    BY <1>1 DEF CallInv, SpokenIds, Spoken
  <2>3. PICK b \in Buffer : b = buf
    BY <1>2
  <2>4. /\ task' \in [Tasks -> TaskRecord] /\ task'["provider"].at = "lock" /\ task'["provider"].turn = b.ended
        /\ \A o \in Tasks : o # "provider" => task'[o] = task[o]
        /\ buf' \in Buffer /\ buf'.inTurn = b.inTurn /\ buf'.now = b.now /\ buf'.ended = b.ended
        /\ UserIds' /\ UserPlaces' /\ SpokenIds' /\ SpokenPlaces'
    BY <1>1, <1>2, <1>4, <2>1, <2>2, <2>3, HandleIs
  <2>5. /\ buf'.inTurn = buf.inTurn /\ buf'.now = buf.now /\ buf'.ended = buf.ended /\ task'["provider"].turn = buf.ended
        /\ task'["client"] = task["client"]
    BY <1>4, <2>3, <2>4
  <2>6. TalkTypes'
    BY <1>1, <1>2, <2>4 DEF TalkTypes
  <2>7. TaskInv'
    <3>1. TaskPlaces'
      BY <1>1, <1>3, <1>4, <2>4, <2>5 DEF TaskPlaces
    <3>2. StateFits' /\ BoundaryFits' /\ IdleDelivered'
      BY <1>1, <1>4, <2>4, <2>5 DEF StateFits, BoundaryFits, IdleDelivered
    <3>3. Counted'
      BY <1>1, <2>4, <2>5 DEF CallInv, TaskInv, Counted, Inside
    <3> QED BY <3>1, <3>2, <3>3 DEF TaskInv
  <2>8. ToolQuiet
    BY <1>1, <1>2, <1>4, <2>4, <2>5, Empties DEF ToolQuiet, Asked, Open
  <2> QED BY <1>3, <2>2, <2>4, <2>5, <2>6, <2>7, <2>8, ToolFrame DEF CallInv
<1> QED BY <1>5, <1>6

\* An interrupt frame keeps it, whatever the call is doing.
LEMMA InterruptFrameInv ==
    ASSUME CallInv, InterruptFrame
    PROVE  CallInv'
<1>1. PICK b : b = Interrupt(buf)
  OBVIOUS
<1>2. /\ TalkTypes /\ buf \in Buffer /\ count \in Counts /\ task \in [Tasks -> TaskRecord]
      /\ count.said \in Nat /\ count.spoken \in Nat /\ count.tools \in Nat
  BY DEF CallInv, TalkTypes, Counts
<1>3. count' = [count EXCEPT !.barges = @ + 1]
  BY DEF InterruptFrame
<1>4. /\ count' \in Counts /\ count'.said = count.said /\ count'.spoken = count.spoken
      /\ count'.tools = count.tools /\ count'.marks = count.marks /\ count'.slots = count.slots
  BY <1>2, <1>3 DEF Counts
<1>5. /\ Running /\ task["client"].at = "rest"
      /\ UNCHANGED <<slots, claimed, registered, rewriting, moved, idleQueue, lingering, inflight>>
  BY DEF InterruptFrame, Reads
<1>6. /\ "provider" \in Tasks /\ "client" \in Tasks /\ \A t \in Tasks : t \in {"provider", "client"}
      /\ task["client"].turn = Quiet /\ TaskPlaces /\ StateFits /\ BoundaryFits /\ registered # NoCall /\ IdleDelivered
  BY <1>5 DEF Tasks, Running, CallInv, TaskInv, TaskPlaces
<1>7. CASE task["provider"].at = "confirm"
  <2>0. st # "speaking"
    BY <1>5, <1>6, <1>7 DEF StateFits
  <2>1. /\ task' = [task EXCEPT !["provider"] = SettleRest(@)]
        /\ conns' = conns /\ st' = st /\ buf' = buf
        /\ rows' = rows /\ answered' = answered /\ reopened' = reopened /\ unlucky' = unlucky
    BY <1>7, <2>0 DEF InterruptFrame, historyVars
  <2>2. /\ task' \in [Tasks -> TaskRecord] /\ task'["provider"].at = "results"
        /\ task'["provider"].turn = task["provider"].turn /\ task'["provider"].user = task["provider"].user
        /\ task'["client"] = task["client"]
    <3>1. Goes("provider", "results") /\ "results" \in Sites
      BY <2>1 DEF Goes, SettleRest, Sites
    <3> QED BY <1>2, <1>6, <3>1, GoesIs
  <2>3. TalkTypes'
    BY <1>2, <1>4, <1>5, <2>1, <2>2 DEF TalkTypes
  <2>4. ManagerInv'
    BY <1>4, <1>5, <2>1, ManagerFrame DEF managerVars
  <2>5. TaskInv'
    <3>1. Inside("provider") = 1 /\ Inside("provider")' = 1 /\ inflight \in Int
      BY <1>2, <1>7, <2>2 DEF Inside, TalkTypes
    <3>2. \A o \in Tasks : o # "provider" => task'[o] = task[o]
      BY <1>6, <2>2
    <3> QED BY <1>4, <1>5, <1>6, <1>7, <2>1, <2>2, <3>1, <3>2, TaskMove
  <2>6. UserQuiet
    BY <1>2, <1>4, <1>6, <2>1, <2>2 DEF UserQuiet, Said, Takes, CallInv, UserIds
  <2>7. SpokenQuiet
    BY <1>2, <1>4, <1>6, <2>1, <2>2 DEF SpokenQuiet, Spoken, Carries
  <2>8. ToolQuiet
    BY <1>2, <1>4, <1>6, <2>1, <2>2 DEF ToolQuiet, Asked, Open
  <2> QED BY <2>3, <2>4, <2>5, <2>6, <2>7, <2>8, UserFrame, SpokenFrame, ToolFrame DEF CallInv
<1>8. CASE task["provider"].at = "elicit"
  <2> DEFINE tasks == [t \in Tasks |-> Cancelled(task[t])]
  <2>0. st # "speaking"
    BY <1>5, <1>6, <1>8 DEF StateFits
  <2>1. EndCall(tasks) /\ st' = st
    BY <1>8, <2>0 DEF InterruptFrame
  <2>2. /\ tasks \in [Tasks -> TaskRecord]
        /\ \A t \in Tasks : \/ tasks[t] = Rest /\ task[t].at \in {"rest", "boundary", "lock"}
                            \/ /\ tasks[t].at = "teardown" /\ tasks[t].turn = task[t].turn /\ tasks[t].user = task[t].user
                               /\ task[t].at \notin {"rest", "boundary", "lock"}
    BY <1>2, CancelledIs
  <2>3. task' = tasks
    BY <2>1 DEF EndCall
  <2> HIDE DEF tasks
  <2>4. Counted'
    BY <1>4, <1>5, <2>2, <2>3, Empties DEF CallInv, TaskInv, Counted, Inside, Tasks
  <2> QED BY <1>4, <1>5, <1>6, <2>1, <2>2, <2>4, EndCallInv
<1>9. CASE task["provider"].at \notin {"confirm", "elicit"} /\ st = "speaking"
  <2>1. /\ conns' = conns /\ st' = "interrupted" /\ rows' = rows /\ answered' = answered /\ unlucky' = unlucky
        /\ IF buf.now.text = <<>> THEN buf' = b /\ task' = task /\ reopened' = reopened ELSE Handle("client", b)
    BY <1>1, <1>9 DEF InterruptFrame
  <2>2. /\ b \in Buffer /\ b.inUser = buf.inUser /\ b.parts = buf.parts /\ b.last = buf.last /\ b.committed = buf.committed
        /\ ~b.inTurn /\ b.now = Quiet
        /\ buf.now.text = <<>> => b.ended = buf.ended
        /\ buf.now.text # <<>> => b.ended.text = buf.now.text /\ b.ended.tools = <<>>
    BY <1>1, <1>2, InterruptIs
  <2>3. task["provider"].at = "rest" /\ task["provider"].turn = Quiet
    BY <1>5, <1>6, <1>9 DEF StateFits, TaskPlaces
  <2>4. ManagerInv' /\ Running' = Running /\ registered' = registered
    BY <1>4, <1>5, <2>1, ManagerFrame DEF managerVars
  <2>5. CASE buf.now.text = <<>>
    <3>1. buf' = b /\ task' = task /\ reopened' = reopened
      BY <2>1, <2>5
    <3>2. TalkTypes'
      BY <1>2, <1>4, <1>5, <2>1, <2>2, <3>1 DEF TalkTypes
    <3>3. TaskInv'
      BY <1>4, <1>5, <2>1, <2>3, <3>1, TalkMove DEF IsIdle
    <3>4. UserQuiet
      BY <1>2, <1>4, <2>1, <2>2, <3>1 DEF UserQuiet, Said, Takes, CallInv, UserIds
    <3>5. SpokenQuiet
      BY <1>2, <1>4, <2>1, <2>2, <2>3, <2>5, <3>1, Empties DEF SpokenQuiet, Spoken, Carries
    <3>6. ToolQuiet
      BY <1>2, <1>4, <2>1, <2>2, <2>3, <2>5, <3>1, Empties DEF ToolQuiet, Asked, Open
    <3> QED BY <2>4, <3>2, <3>3, <3>4, <3>5, <3>6, UserFrame, SpokenFrame, ToolFrame DEF CallInv
  <2>6. CASE buf.now.text # <<>>
    <3>1. Handle("client", b)
      BY <2>1, <2>6
    <3>2. Ids(b.ended.text) \subseteq 1..count.spoken /\ \A s \in Ids(b.ended.text) : Spoken(s)
      BY <2>2, <2>6 DEF CallInv, SpokenIds, Spoken
    <3>3. /\ task' \in [Tasks -> TaskRecord] /\ task'["client"].at = "lock" /\ task'["client"].turn = b.ended
          /\ \A o \in Tasks : o # "client" => task'[o] = task[o]
          /\ buf' \in Buffer /\ buf'.inTurn = b.inTurn /\ buf'.now = b.now /\ buf'.ended = b.ended
          /\ UserIds' /\ UserPlaces' /\ SpokenIds' /\ SpokenPlaces'
      BY <1>4, <1>5, <1>6, <2>1, <2>2, <2>3, <3>1, <3>2, HandleIs
    <3>4. TalkTypes'
      BY <1>2, <1>4, <1>5, <2>1, <3>3 DEF TalkTypes
    <3>5. TaskInv'
      <4>1. task'["provider"] = task["provider"]
        BY <1>6, <3>3
      <4>2. TaskPlaces'
        BY <1>5, <1>6, <2>2, <2>4, <2>6, <3>3, <4>1 DEF TaskPlaces
      <4>3. StateFits' /\ BoundaryFits' /\ IdleDelivered'
        BY <2>1, <2>3, <4>1 DEF StateFits, BoundaryFits, IdleDelivered, IsIdle
      <4>4. Counted'
        BY <1>4, <1>5, <3>3, <4>1 DEF CallInv, TaskInv, Counted, Inside
      <4> QED BY <4>2, <4>3, <4>4 DEF TaskInv
    <3>6. ToolQuiet
      BY <1>2, <1>4, <1>6, <2>1, <2>2, <2>3, <2>6, <3>3, Empties DEF ToolQuiet, Asked, Open
    <3> QED BY <2>4, <3>2, <3>3, <3>4, <3>5, <3>6, ToolFrame DEF CallInv
  <2> QED BY <2>5, <2>6
<1>10. CASE task["provider"].at \notin {"confirm", "elicit"} /\ st # "speaking"
  <2>1. /\ conns' = conns /\ st' = st /\ buf' = buf /\ task' = task
        /\ rows' = rows /\ answered' = answered /\ reopened' = reopened /\ unlucky' = unlucky
    BY <1>10 DEF InterruptFrame, historyVars
  <2>2. TalkTypes'
    BY <1>2, <1>4, <1>5, <2>1 DEF TalkTypes
  <2>3. ManagerInv' /\ Running' = Running
    BY <1>4, <1>5, <2>1, ManagerFrame DEF managerVars
  <2>4. TaskInv'
    <3>1. TaskPlaces' /\ StateFits' /\ BoundaryFits' /\ IdleDelivered'
      BY <1>5, <1>6, <2>1, <2>3 DEF TaskPlaces, StateFits, BoundaryFits, IdleDelivered
    <3>2. Counted'
      BY <1>4, <1>5, <2>1 DEF CallInv, TaskInv, Counted, Inside
    <3> QED BY <3>1, <3>2 DEF TaskInv
  <2>5. UserQuiet
    BY <1>2, <1>4, <2>1 DEF UserQuiet, Said, Takes, CallInv, UserIds
  <2>6. SpokenQuiet
    BY <1>2, <1>4, <2>1 DEF SpokenQuiet, Spoken, Carries
  <2>7. ToolQuiet
    BY <1>2, <1>4, <2>1 DEF ToolQuiet, Asked, Open
  <2> QED BY <2>2, <2>3, <2>4, <2>5, <2>6, <2>7, UserFrame, SpokenFrame, ToolFrame DEF CallInv
<1> QED BY <1>7, <1>8, <1>9, <1>10

\* The invariant holds at first.
LEMMA CallInitInv == RtInit => CallInv
<1> SUFFICES ASSUME RtInit PROVE CallInv
  OBVIOUS
<1>1. /\ conns = [c \in Conns |-> "new"] /\ slots = 0 /\ claimed = NoCall /\ registered = NoCall
      /\ rewriting = FALSE /\ moved = FALSE /\ st = "closing" /\ buf = Fresh /\ idleQueue = 0
      /\ task = [t \in Tasks |-> Rest] /\ lingering = 0 /\ inflight = 0 /\ rows = <<>>
  BY DEF RtInit
<1>2. count \in Counts /\ count.slots = 0 /\ count.marks = 0
  BY DEF RtInit, Counts
<1>3. ManagerInv
  <2>1. ManagerTypes /\ Seated /\ Slotted = {} /\ CallsApart
    <3>1. \A c \in Conns : conns[c] = "new"
      BY <1>1
    <3>2. ManagerTypes
      <4>1. conns \in [Conns -> {"new", "accepting", "connecting", "running", "closing", "dropped", "gone"}]
        BY <1>1
      <4>2. rewriting \in BOOLEAN /\ moved \in BOOLEAN
        BY <1>1
      <4>3. slots \in Int /\ registered \in Conns \union {NoCall}
        BY <1>1
      <4> QED BY <4>1, <4>2, <4>3 DEF ManagerTypes
    <3> QED BY <1>1, <3>1, <3>2 DEF Seated, Slotted, CallsApart, Calling
  <2>2. Cardinality(Slotted) = 0
    BY <2>1, FS_EmptySet
  <2> QED BY <1>1, <1>2, <2>1, <2>2 DEF ManagerInv
<1>4. TalkTypes
  <2>1. <<>> \in Seq(CallRow)
    OBVIOUS
  <2> QED BY <1>1, <1>2, <2>1, Empties DEF TalkTypes
<1>5. /\ "provider" \in Tasks /\ "client" \in Tasks /\ ~Running /\ DOMAIN rows = {}
      /\ \A t \in Tasks : task[t].at = "rest" /\ task[t].turn = Quiet /\ task[t].user = <<>>
  BY <1>1, Empties DEF Tasks, Running
<1>6. TaskInv
  <2>1. TaskPlaces /\ StateFits /\ BoundaryFits /\ IdleDelivered
    BY <1>1, <1>5, Empties DEF TaskPlaces, StateFits, BoundaryFits, IdleDelivered
  <2>2. Counted
    BY <1>1, <1>2, <1>5 DEF Counted, Inside
  <2> QED BY <2>1, <2>2 DEF TaskInv
<1>7. UserIds /\ UserPlaces
  BY <1>1, <1>5, Empties DEF UserIds, UserPlaces, Said, Takes
<1>8. SpokenIds /\ SpokenPlaces
  BY <1>1, <1>5, Empties DEF SpokenIds, SpokenPlaces, Spoken, Carries
<1>9. ToolIds /\ ToolPlaces
  BY <1>1, <1>5, Empties DEF ToolIds, ToolPlaces, Asked
<1> QED BY <1>3, <1>4, <1>6, <1>7, <1>8, <1>9 DEF CallInv

\* Every step of a call keeps the invariant.
LEMMA CallStepInv ==
    ASSUME CallInv, [RtNext]_rtVars
    PROVE  CallInv'
<1>1. CASE UNCHANGED rtVars
  <2>1. /\ UNCHANGED managerVars
        /\ UNCHANGED <<registered, callVars, lingering, inflight, historyVars, count>>
    BY <1>1 DEF rtVars, managerVars
  <2>2. ManagerInv' /\ Running' = Running
    BY <2>1, ManagerFrame
  <2>3. count' \in Counts
    BY <2>1 DEF CallInv, TalkTypes
  <2> QED BY <2>1, <2>2, <2>3, TalkFrame DEF CallInv
<1>2. ASSUME NEW c \in Conns, AcquireSlot(c) \/ AcceptFails(c) \/ Claim(c) \/ ConnectFails(c) \/ Register(c)
      PROVE  CallInv'
  BY <1>2, AcquireSlotInv, AcceptFailsInv, ClaimInv, ConnectFailsInv, RegisterInv
<1>3. CASE BeginRewrite \/ EndRewrite
  BY <1>3, RewriteInv
<1>4. CASE TextDelta \/ ToolCall \/ InterruptedEvent \/ Transcript \/ BoundarySent
  BY <1>4, TextDeltaInv, ToolCallInv, InterruptedInv, TranscriptInv, BoundarySentInv
<1>5. ASSUME NEW complete \in BOOLEAN, TurnBoundary(complete) PROVE CallInv'
  BY <1>5, TurnBoundaryInv
<1>6. CASE Audio \/ AudioStreamEnd \/ TypeText \/ TextSent \/ InterruptFrame
  BY <1>6, AudioInv, TypeTextInv, InterruptFrameInv
<1>7. ASSUME NEW t \in Tasks, \/ BeginTurn(t) \/ StoreUser(t) \/ StoreAssistant(t) \/ ToolStep(t) \/ StoreResults(t)
                              \/ InjectResults(t) \/ HandlerFails(t) \/ Teardown(t) \/ TeardownLeaks(t)
      PROVE  CallInv'
  BY <1>7, BeginTurnInv, StoreUserInv, StoreAssistantInv, ToolStepInv, StoreResultsInv, InjectInv,
     HandlerFailsInv, TeardownInv, TeardownLeaksInv
<1>8. CASE CallEnds \/ CloseSession \/ LingerEnds
  BY <1>8, CallEndsInv, CloseSessionInv, LingerInv
<1> QED BY <1>1, <1>2, <1>3, <1>4, <1>5, <1>6, <1>7, <1>8 DEF RtNext

\* A set whose members are all equal has at most one.
LEMMA AtMostOne ==
    ASSUME NEW S, \A x, y \in S : x = y
    PROVE  Cardinality(S) <= 1
<1>1. CASE S = {}
  BY <1>1, FS_EmptySet
<1>2. ASSUME NEW x \in S PROVE Cardinality(S) <= 1
  <2>1. S = {x}
    BY <1>2
  <2> QED BY <2>1, FS_Singleton
<1> QED BY <1>1, <1>2

\* The invariant says all that the property does.
LEMMA CallInvSafe == CallInv => RealtimeSafe
<1> SUFFICES ASSUME CallInv PROVE RealtimeSafe
  OBVIOUS
<1>1. UserOnce
  <2> SUFFICES ASSUME NEW u \in 1..MaxSaid \ reopened PROVE Cardinality(Stored("user", u)) <= 1
    BY DEF UserOnce
  <2>1. \A i, j \in Stored("user", u) : i = j
    <3>1. u \in Nat \ reopened
      OBVIOUS
    <3> QED BY <3>1 DEF CallInv, UserPlaces, Stored, InRow
  <2> QED BY <2>1, AtMostOne
<1>2. SpokenOnce
  <2> SUFFICES ASSUME NEW s \in 1..MaxSpoken PROVE Cardinality(Stored("assistant", s)) <= 1
    BY DEF SpokenOnce
  <2>1. \A i, j \in Stored("assistant", s) : i = j
    BY DEF CallInv, SpokenPlaces, Stored, InRow
  <2> QED BY <2>1, AtMostOne
<1>3. ToolsAnswered
  <2> SUFFICES ASSUME NEW i \in DOMAIN rows, NEW id \in Ids(rows[i].tools)
      PROVE \/ id \in unlucky
            \/ \E t \in Tasks : task[t].at # "teardown" /\ id \in Ids(task[t].turn.tools)
            \/ id \in answered /\ \E j \in i..Len(rows) : rows[j].who = "results" /\ id \in Ids(rows[j].tools)
    BY DEF ToolsAnswered
  <2>1. id \in unlucky \/ Open(id) \/ (id \in answered /\ Resulted(id))
    BY DEF CallInv, ToolPlaces
  <2>2. Open(id) => \E t \in Tasks : task[t].at # "teardown" /\ id \in Ids(task[t].turn.tools)
    BY DEF Open, Tasks
  <2>3. ASSUME Resulted(id) PROVE \E j \in i..Len(rows) : rows[j].who = "results" /\ id \in Ids(rows[j].tools)
    <3>1. PICK j \in DOMAIN rows : /\ rows[j].who = "results" /\ Names(id, j)
                                   /\ \A k \in DOMAIN rows : Names(id, k) => k <= j
      BY <2>3 DEF Resulted
    <3>2. i <= j
      BY <3>1 DEF Names
    <3>3. DOMAIN rows = 1..Len(rows) /\ Len(rows) \in Nat
      BY DEF CallInv, TalkTypes
    <3>4. j \in i..Len(rows)
      BY <3>1, <3>2, <3>3
    <3> QED BY <3>1, <3>4 DEF Names
  <2> QED BY <2>1, <2>2, <2>3
<1>4. NotStuck /\ CallsApart /\ IdleDelivered
  BY DEF CallInv, ManagerInv, TaskInv, NotStuck, StateFits
<1>5. InFlightExact
  <2> DEFINE in == {t \in Tasks : task[t].at \notin {"rest", "boundary", "lock"}}
  <2>1. Cardinality(in) = Inside("provider") + Inside("client")
    <3>1. PICK p, k : p = "provider" /\ k = "client"
      OBVIOUS
    <3>2. p # k /\ Tasks = {p, k}
      BY <3>1 DEF Tasks
    <3>3. /\ IsFiniteSet({}) /\ Cardinality({}) = 0 /\ IsFiniteSet({p}) /\ Cardinality({p}) = 1 /\ Cardinality({k}) = 1
          /\ Cardinality({p} \union {k}) = 2
      BY <3>2, FS_EmptySet, FS_Singleton, FS_AddElement
    <3>4. in \in {{}, {p}, {k}, {p} \union {k}}
      BY <3>2
    <3>5. (p \in in <=> Inside("provider") = 1) /\ (k \in in <=> Inside("client") = 1)
      BY <3>1, <3>2 DEF Inside
    <3>6. Inside("provider") \in {0, 1} /\ Inside("client") \in {0, 1}
      BY DEF Inside
    <3> HIDE DEF in
    <3>7. CASE in = {}
      BY <3>3, <3>5, <3>6, <3>7
    <3>8. CASE in = {p}
      BY <3>2, <3>3, <3>5, <3>6, <3>8
    <3>9. CASE in = {k}
      BY <3>2, <3>3, <3>5, <3>6, <3>9
    <3>10. CASE in = {p} \union {k}
      BY <3>2, <3>3, <3>5, <3>6, <3>10
    <3> QED BY <3>4, <3>7, <3>8, <3>9, <3>10
  <2> QED BY <2>1 DEF InFlightExact, CallInv, TaskInv, Counted
<1>6. SlotsExact
  BY DEF SlotsExact, CallInv, ManagerInv, Slotted
<1> QED BY <1>1, <1>2, <1>3, <1>4, <1>5, <1>6 DEF RealtimeSafe

\* A voice call stores what is said once, answers every tool call it stored, and
\* gives back its claim, its slots and its marks, for any number of connections,
\* texts, calls, interrupts and failures (realtime_loop.py, UtteranceBuffer and
\* RealtimeSessionManager).
THEOREM RealtimeSafety == GatewaySpec => []RealtimeSafe
<1>1. GatewayInit => CallInv
  BY CallInitInv DEF GatewayInit
<1>2. CallInv /\ [GatewayNext]_gatewayVars => CallInv'
  <2>1. [GatewayNext]_gatewayVars => [RtNext]_rtVars
    BY DEF GatewayNext, gatewayVars
  <2> QED BY <2>1, CallStepInv
<1>3. CallInv => RealtimeSafe
  BY CallInvSafe
<1> QED BY <1>1, <1>2, <1>3, PTL DEF GatewaySpec
===========================================================================
