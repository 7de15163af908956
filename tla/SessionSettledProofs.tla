-------------------------- MODULE SessionSettledProofs --------------------------
(***************************************************************************)
(* What a settled grant is: never left half done, served when reported      *)
(* Ready, registered where the platform's gateway is, and never swept while *)
(* its key is valid. Each is a fact about many steps of the worker, the     *)
(* informers and the sweep; the invariants below say what every one of them *)
(* leaves behind.                                                           *)
(***************************************************************************)
EXTENDS SessionKeysProofs

Present == {"live", "deleting"}
Acceptable == {"Ready", "Rejected", "Terminating"}
Removing == {"lookup", "remove", "release"}

\* The worker is on a pass for the grant; or it will be, before all is quiet.
Attending(s) == w.pc # "idle" /\ w.s = s
Woken(s) == queued[s] \/ secretEvent[s] \/ seen[s].st # "live"

--------------------------------------------------------------------------------
(***************************************************************************)
(* What a step can do to a grant, to the work ahead of it and to its Secret.*)
(***************************************************************************)

Opens(s) ==
    /\ sess[s].st = "none" /\ sess'[s].st = "live" /\ sess'[s].status = NewStatus
    /\ UNCHANGED <<secret, secretEvent, reg, now, seen, secretSeen, regSeen, queued, w, sweep>>

Closes(s) ==
    /\ sess[s].st \in Present /\ sess'[s].st \in {"deleting", "gone"}
    /\ sess'[s].st = "deleting" => expiryFor(sess'[s]) = expiryFor(sess[s])
    /\ sess'[s].status \in {sess[s].status, NewStatus}

Amends(s) ==
    /\ sess[s].st \in Present /\ sess'[s].st = sess[s].st
    /\ sess'[s].status = sess[s].status
    /\ "editTTL" \notin Faults => expiryFor(sess'[s]) = expiryFor(sess[s])

Reports(s) ==
    /\ w.pc = "status" /\ w.s = s /\ seen[s] = sess[s]
    /\ sess[s].st \in Present /\ sess'[s].st = sess[s].st
    /\ expiryFor(sess'[s]) = expiryFor(sess[s])
    /\ sess'[s].status = w.snap.status
    /\ w'.pc = "idle" /\ (w.requeue => queued'[s])

\* A grant is created, released, amended or given a status by the pass, and
\* otherwise stays as it is.
LEMMA GrantSteps ==
    ASSUME TypeOK, GuardInv, [Next]_vars, NEW s \in Sessions
    PROVE  sess'[s] = sess[s] \/ Opens(s) \/ Closes(s) \/ Amends(s) \/ Reports(s)
<1> DEFINE Goal == sess'[s] = sess[s] \/ Opens(s) \/ Closes(s) \/ Amends(s) \/ Reports(s)
<1>a. w.s \in Sessions /\ sess \in [Sessions -> Grant] /\ w \in Worker /\ w.snap \in Grant
  BY DEF TypeOK, Worker
<1>b. Gone.st = "gone" /\ Gone.status = NewStatus
  BY GrantTypes DEF Gone, Absent, Grant
<1>1. ASSUME NEW x \in Sessions, NEW ttl \in TTLs, CreateSession(x, ttl) PROVE Goal
  <2>1. CASE x = s
    <3> DEFINE made == [Absent EXCEPT !.st = "live", !.ttl = ttl, !.created = now]
    <3>1. sess'[s] = made
      BY <1>1, <1>a, <2>1 DEF CreateSession
    <3>2. made.st = "live" /\ made.status = NewStatus
      BY GrantTypes DEF Absent
    <3>3. sess[s].st = "none"
      BY <1>1, <2>1 DEF CreateSession
    <3>4. UNCHANGED <<secret, secretEvent, reg, now, seen, secretSeen, regSeen, queued, w, sweep>>
      BY <1>1 DEF CreateSession, OperatorIdle, caches, secretVars
    <3> HIDE DEF made
    <3> QED
      BY <3>1, <3>2, <3>3, <3>4 DEF Opens
  <2>2. CASE x # s
    BY <1>1, <1>a, <2>2 DEF CreateSession
  <2> QED
    BY <2>1, <2>2
<1>2. ASSUME NEW x \in Sessions, NEW ttl \in TTLs, EditTTL(x, ttl) PROVE Goal
  <2>1. CASE x = s
    <3>1. sess'[s] = [sess[s] EXCEPT !.ttl = ttl]
      BY <1>2, <1>a, <2>1 DEF EditTTL
    <3>2. "editTTL" \in Faults /\ sess[s].st = "live"
      BY <1>2, <2>1 DEF EditTTL
    <3> QED
      BY <1>a, <3>1, <3>2 DEF Amends, Present, Grant
  <2>2. CASE x # s
    BY <1>2, <1>a, <2>2 DEF EditTTL
  <2> QED
    BY <2>1, <2>2
<1>3. ASSUME NEW x \in Sessions, DeleteSession(x) PROVE Goal
  <2>1. CASE x = s
    <3>1. /\ sess[s].st = "live"
          /\ \/ sess'[s] = [sess[s] EXCEPT !.st = "deleting", !.delAt = now]
             \/ sess'[s] = Gone
      BY <1>3, <1>a, <2>1 DEF DeleteSession
    <3>2. /\ [sess[s] EXCEPT !.st = "deleting", !.delAt = now].st = "deleting"
          /\ [sess[s] EXCEPT !.st = "deleting", !.delAt = now].created = sess[s].created
          /\ [sess[s] EXCEPT !.st = "deleting", !.delAt = now].ttl = sess[s].ttl
          /\ [sess[s] EXCEPT !.st = "deleting", !.delAt = now].status = sess[s].status
      BY <1>a DEF Grant
    <3> QED
      BY <1>b, <3>1, <3>2 DEF Closes, Present, expiryFor
  <2>2. CASE x # s
    BY <1>3, <1>a, <2>2 DEF DeleteSession
  <2> QED
    BY <2>1, <2>2
<1>4. ASSUME NEW x \in Sessions, ForceDelete(x) PROVE Goal
  <2>1. CASE x = s
    BY <1>4, <1>a, <1>b, <2>1 DEF ForceDelete, Closes, Present
  <2>2. CASE x # s
    BY <1>4, <1>a, <2>2 DEF ForceDelete
  <2> QED
    BY <2>1, <2>2
<1>5. ASSUME AddFinalizer PROVE Goal
  <2>1. CASE UNCHANGED sess
    BY <2>1
  <2>2. CASE w.s # s
    BY <1>5, <1>a, <2>2 DEF AddFinalizer
  <2>3. CASE w.s = s /\ sess[w.s] = w.snap /\ sess' = [sess EXCEPT ![w.s].fin = TRUE]
    <3>1. sess'[s] = [sess[s] EXCEPT !.fin = TRUE]
      BY <1>a, <2>3
    <3>2. sess[s].st = "live"
      BY <1>5, <2>3 DEF AddFinalizer, GuardInv
    <3> QED
      BY <1>a, <3>1, <3>2 DEF Amends, Present, Grant, expiryFor
  <2> QED
    BY <1>5, <2>1, <2>2, <2>3 DEF AddFinalizer
<1>6. ASSUME updateSessionStatus PROVE Goal
  <2>1. CASE UNCHANGED sess
    BY <2>1
  <2>2. CASE w.s # s
    BY <1>6, <1>a, <2>2 DEF updateSessionStatus
  <2>3. CASE /\ w.s = s /\ seen[w.s] = sess[w.s] /\ sess[w.s].st \in {"live", "deleting"}
             /\ sess' = [sess EXCEPT ![w.s].status = w.snap.status]
             /\ Finish(w.requeue)
    <3>1. sess'[s] = [sess[s] EXCEPT !.status = w.snap.status]
      BY <1>a, <2>3
    <3>2. sess[s] \in Grant
      BY <1>a
    <3>3. /\ sess'[s].st = sess[s].st /\ sess'[s].status = w.snap.status
          /\ expiryFor(sess'[s]) = expiryFor(sess[s])
      BY <3>1, <3>2 DEF Grant, expiryFor
    <3>4. w'.pc = "idle"
      BY <2>3, IdleWorkerType DEF Finish
    <3>5. queued' = [queued EXCEPT ![s] = @ \/ w.requeue]
      BY <2>3 DEF Finish
    <3>6. w.requeue => queued'[s]
      BY <3>5 DEF TypeOK
    <3>7. w.pc = "status"
      BY <1>6 DEF updateSessionStatus
    <3> QED
      BY <2>3, <3>3, <3>4, <3>6, <3>7 DEF Reports, Present
  <2> QED
    BY <1>6, <2>1, <2>2, <2>3 DEF updateSessionStatus
<1>7. ASSUME releaseSessionFinalizer PROVE Goal
  <2>1. CASE UNCHANGED sess
    BY <2>1
  <2>2. CASE w.s # s
    BY <1>7, <1>a, <2>2 DEF releaseSessionFinalizer
  <2>3. CASE w.s = s /\ sess[w.s].st = "deleting" /\ sess' = [sess EXCEPT ![w.s] = Gone]
    BY <1>a, <1>b, <2>3 DEF Closes, Present
  <2> QED
    BY <1>7, <2>1, <2>2, <2>3 DEF releaseSessionFinalizer
<1>8. ASSUME \/ \E x \in Sessions, readable \in BOOLEAN : Reconcile(x, readable)
             \/ resolveCatalog \/ readSecret \/ updateSecretURL \/ checkEnding
             \/ (\E k \in Keys : mintKey(k)) \/ writeSecret \/ ensureRegistration \/ recordOwner
             \/ gatewayNamespaceForTeardown \/ removeRegistration
             \/ SweepStep \/ Tick \/ UNCHANGED vars
             \/ \E x \in Sessions : \/ Deliver(x) \/ EndSessionNamespace(x) \/ CollectSecret(x)
                                    \/ TamperSecret(x)
             \/ CatalogChange \/ PlatformDelete \/ Restart
             \/ \E g \in Gateways : PlatformMove(g) \/ GatewayNamespaceGone(g)
      PROVE  sess' = sess
  <2>1. ASSUME NEW x \in Sessions, Deliver(x) PROVE sess' = sess
    BY <2>1 DEF Deliver, DeliverSession, DeliverNamespace, DeliverSecret, DeliverRegistration,
                apiVars
  <2>2. CASE SweepStep
    BY <2>2 DEF SweepStep, SweepList, SweepDelete, apiVars
  <2>3. ASSUME \/ (\E x \in Sessions, readable \in BOOLEAN : Reconcile(x, readable))
               \/ resolveCatalog \/ readSecret \/ updateSecretURL \/ checkEnding
               \/ (\E k \in Keys : mintKey(k)) \/ writeSecret \/ ensureRegistration \/ recordOwner
               \/ gatewayNamespaceForTeardown \/ removeRegistration
        PROVE  sess' = sess
    BY <2>3 DEF Reconcile, resolveCatalog, readSecret, updateSecretURL, checkEnding, mintKey,
        writeSecret, ensureRegistration, recordOwner, gatewayNamespaceForTeardown,
        removeRegistration, apiVars
  <2> QED
    BY <1>8, <2>1, <2>2, <2>3 DEF Tick, vars, EndSessionNamespace, CollectSecret, TamperSecret,
        CatalogChange, PlatformDelete, Restart, PlatformMove, GatewayNamespaceGone
<1> QED
  <2>1. CASE WorkerStep
    BY <2>1, <1>5, <1>6, <1>7, <1>8, Zenon DEF WorkerStep
  <2>2. CASE Environment
    BY <2>2, <1>1, <1>2, <1>3, <1>4, <1>8, Zenon DEF Environment
  <2>3. CASE (\E x \in Sessions : Deliver(x)) \/ SweepStep \/ Tick \/ UNCHANGED vars
    BY <2>3, <1>8, Zenon
  <2> QED
    BY <2>1, <2>2, <2>3 DEF Next

\* Ending a pass keeps the queue as it is, but for the grant it may put back.
LEMMA FinishQueues ==
    ASSUME TypeOK, NEW STATE requeue, requeue \in BOOLEAN, Finish(requeue), NEW s \in Sessions
    PROVE  (queued[s] => queued'[s]) /\ (requeue /\ w.s = s => queued'[s])
BY DEF TypeOK, Finish

\* A status to be written is what the step said, and so is the retry.
LEMMA ReportSays ==
    ASSUME TypeOK, NEW STATE status, NEW STATE requeue, requeue \in BOOLEAN,
           Report(status, requeue)
    PROVE  /\ w'.pc = "status" /\ w'.s = w.s /\ w'.requeue = requeue
           /\ w'.snap.status = status
<1>1. w' = [IdleWorker EXCEPT !.pc = "status", !.s = w.s,
                              !.snap = [IdleWorker.snap EXCEPT !.status = status],
                              !.requeue = requeue]
  BY IdleWorkerType DEF Report, Worker
<1>2. [IdleWorker.snap EXCEPT !.status = status].status = status
  BY IdleWorkerType DEF Worker, Grant
<1> QED
  BY <1>1, <1>2, IdleWorkerType DEF Worker

\* A failed step is reported, and tried again.
LEMMA FailedSays ==
    ASSUME TypeOK, Failed
    PROVE  /\ w'.pc = "status" /\ w'.s = w.s /\ w'.requeue = TRUE
           /\ w'.snap.status.phase = "Failed" /\ queued' = queued
<1>1. w.snap.status \in Status
  BY DEF TypeOK, Worker, Grant
<1>2. [w.snap.status EXCEPT !.phase = "Failed"].phase = "Failed"
  BY <1>1 DEF Status
<1>3. Report([w.snap.status EXCEPT !.phase = "Failed"], TRUE)
  BY DEF Failed
<1>4. w'.snap.status = [w.snap.status EXCEPT !.phase = "Failed"]
  BY <1>3, ReportSays
<1>5. w'.pc = "status" /\ w'.s = w.s /\ w'.requeue = TRUE
  BY <1>3, ReportSays
<1> QED
  BY <1>2, <1>3, <1>4, <1>5, Zenon DEF Report

Passing(s) == w'.pc # "idle" /\ w'.s = s

\* The steps of a pass that go on: the same grant stays in hand and in the queue.
LEMMA PassContinues ==
    ASSUME TypeOK,
           \/ AddFinalizer \/ resolveCatalog \/ readSecret \/ updateSecretURL \/ checkEnding
           \/ (\E k \in Keys : mintKey(k)) \/ writeSecret \/ ensureRegistration \/ recordOwner
           \/ gatewayNamespaceForTeardown \/ removeRegistration
    PROVE  /\ w.pc \notin {"idle", "status", "release"} /\ seen' = seen
           /\ \/ w'.pc # "idle" /\ w'.s = w.s /\ queued' = queued
              \/ Finish(TRUE)
<1> DEFINE Goal == (w'.pc # "idle" /\ w'.s = w.s /\ queued' = queued) \/ Finish(TRUE)
<1>a. w \in Worker /\ w.snap \in Grant
  BY DEF TypeOK, Worker
<1>b. \A status, requeue : requeue \in BOOLEAN /\ Report(status, requeue) => Goal
  BY ReportSays DEF Report
<1>c. Failed => Goal
  BY FailedSays
<1>1. w.pc \notin {"idle", "status", "release"} /\ seen' = seen
  BY DEF AddFinalizer, resolveCatalog, readSecret, updateSecretURL, checkEnding, mintKey,
         writeSecret, ensureRegistration, recordOwner, gatewayNamespaceForTeardown,
         removeRegistration, caches
<1>2. ASSUME AddFinalizer PROVE Goal
  BY <1>2, <1>a DEF AddFinalizer, Worker
<1>3. ASSUME resolveCatalog PROVE Goal
  BY <1>3, <1>a, <1>b DEF resolveCatalog, Worker
<1>4. ASSUME readSecret PROVE Goal
  BY <1>4, <1>a, <1>c DEF readSecret, Worker
<1>5. ASSUME updateSecretURL PROVE Goal
  BY <1>5, <1>a, <1>c DEF updateSecretURL, Worker
<1>6. ASSUME checkEnding PROVE Goal
  BY <1>6, <1>a, <1>b, <1>c DEF checkEnding, Worker
<1>7. ASSUME \E k \in Keys : mintKey(k) PROVE Goal
  BY <1>7, <1>a, <1>c DEF mintKey, Worker
<1>8. ASSUME writeSecret PROVE Goal
  <2>1. \/ Failed
        \/ \E k : /\ w' = [w EXCEPT !.pc = "register", !.key = k,
                                    !.live = NoSecret, !.owned = FALSE]
                  /\ UNCHANGED queued
    BY <1>8 DEF writeSecret
  <2> QED
    BY <1>a, <1>c, <2>1 DEF Worker
<1>9. ASSUME ensureRegistration PROVE Goal
  <2>1. \/ Failed
        \/ /\ w' = [w EXCEPT !.pc = "record", !.key = NoKey, !.ns = NoGateway, !.url = NoGateway]
           /\ UNCHANGED queued
    BY <1>9 DEF ensureRegistration
  <2> QED
    BY <1>a, <1>c, <2>1 DEF Worker
<1>10. ASSUME recordOwner PROVE Goal
  BY <1>10, <1>b DEF recordOwner
<1>11. ASSUME gatewayNamespaceForTeardown PROVE Goal
  BY <1>11, <1>a DEF gatewayNamespaceForTeardown, Worker
<1>12. ASSUME removeRegistration PROVE Goal
  BY <1>12, <1>a DEF removeRegistration, Worker
<1> QED
  BY <1>1, <1>2, <1>3, <1>4, <1>5, <1>6, <1>7, <1>8, <1>9, <1>10, <1>11, <1>12

\* Everyone but the worker, the informers and a new process leaves the pass and
\* the caches as they are and takes no grant off the queue.
LEMMA OthersQueue ==
    ASSUME TypeOK, NEW s \in Sessions,
           \/ \E x \in Sessions :
                 \/ \E ttl \in TTLs : CreateSession(x, ttl) \/ EditTTL(x, ttl)
                 \/ DeleteSession(x) \/ ForceDelete(x) \/ EndSessionNamespace(x)
                 \/ CollectSecret(x) \/ TamperSecret(x)
           \/ CatalogChange \/ PlatformDelete \/ Tick \/ SweepStep \/ UNCHANGED vars
           \/ \E g \in Gateways : PlatformMove(g) \/ GatewayNamespaceGone(g)
    PROVE  /\ UNCHANGED <<w, seen, nsSeen, secretSeen, regSeen>>
           /\ (queued[s] => queued'[s]) /\ (secretEvent[s] => secretEvent'[s])
<1> DEFINE Goal == /\ UNCHANGED <<w, seen, nsSeen, secretSeen, regSeen>>
                   /\ (queued[s] => queued'[s]) /\ (secretEvent[s] => secretEvent'[s])
<1>a. \A x, obj : SetSecret(x, obj) => (secretEvent[s] => secretEvent'[s])
  BY DEF SetSecret, TypeOK
<1>1. ASSUME NEW x \in Sessions,
             \/ \E ttl \in TTLs : CreateSession(x, ttl) \/ EditTTL(x, ttl)
             \/ DeleteSession(x) \/ ForceDelete(x) \/ EndSessionNamespace(x)
      PROVE  Goal
  BY <1>1 DEF CreateSession, EditTTL, DeleteSession, ForceDelete, EndSessionNamespace,
              OperatorIdle, caches, secretVars
<1>2. ASSUME NEW x \in Sessions, CollectSecret(x) \/ TamperSecret(x) PROVE Goal
  <2>1. \E obj : SetSecret(x, obj)
    BY <1>2, Zenon DEF CollectSecret, TamperSecret
  <2>2. OperatorIdle
    BY <1>2 DEF CollectSecret, TamperSecret
  <2> QED
    BY <1>a, <2>1, <2>2 DEF OperatorIdle, caches
<1>3. ASSUME CatalogChange PROVE Goal
  BY <1>3 DEF CatalogChange, TypeOK, caches, secretVars
<1>4. ASSUME SweepStep PROVE Goal
  BY <1>4 DEF SweepStep, SweepList, SweepDelete, caches, apiVars, secretVars
<1>5. ASSUME \/ PlatformDelete \/ Tick \/ UNCHANGED vars
             \/ \E g \in Gateways : PlatformMove(g) \/ GatewayNamespaceGone(g)
      PROVE  Goal
  BY <1>5 DEF PlatformDelete, Tick, vars, PlatformMove, GatewayNamespaceGone, OperatorIdle,
              caches, secretVars
<1> QED
  BY <1>1, <1>2, <1>3, <1>4, <1>5, Zenon

\* Whatever is to be done for a grant is done, or stays ahead of it: an event is
\* delivered into the queue, a grant is taken off it by a pass that starts, and a
\* pass ends in a report or puts the grant back.
LEMMA WorkKept ==
    ASSUME TypeOK, GuardInv, [Next]_vars, NEW s \in Sessions
    PROVE  /\ Woken(s) => Woken(s)' \/ (w.pc = "idle" /\ Attending(s)')
           /\ Attending(s) => Attending(s)' \/ Woken(s)' \/ Reports(s)
<1> DEFINE Goal == /\ Woken(s) => Woken(s)' \/ (w.pc = "idle" /\ Attending(s)')
                   /\ Attending(s) => Attending(s)' \/ Woken(s)' \/ Reports(s)
<1>a. /\ w \in Worker /\ sess[s] \in Grant /\ seen[s] \in Grant
      /\ queued \in [Sessions -> BOOLEAN] /\ secretEvent \in [Sessions -> BOOLEAN]
      /\ seen \in [Sessions -> Grant] /\ secretSeen \in [Sessions -> Secret \union {NoSecret}]
  BY DEF TypeOK
<1>1. ASSUME seen' = seen, queued[s] => queued'[s], secretEvent[s] => secretEvent'[s],
             w.s = s /\ w.pc # "idle" => (w'.s = s /\ w'.pc # "idle") \/ queued'[s] \/ seen[s].st # "live"
      PROVE  Goal
  BY <1>1 DEF Woken, Attending
<1>b. \A x, obj : SetSecret(x, obj) => (secretEvent[s] => secretEvent'[s])
  BY DEF SetSecret, TypeOK
<1>c. Finish(TRUE) => (queued[s] => queued'[s]) /\ (w.s = s => queued'[s])
  BY FinishQueues
<1>2. ASSUME \/ AddFinalizer \/ resolveCatalog \/ readSecret \/ updateSecretURL \/ checkEnding
             \/ (\E k \in Keys : mintKey(k)) \/ writeSecret \/ ensureRegistration \/ recordOwner
             \/ gatewayNamespaceForTeardown \/ removeRegistration
      PROVE  Goal
  <2>1. secretEvent[s] => secretEvent'[s]
    <3>1. (\E obj : SetSecret(w.s, obj)) \/ UNCHANGED secretEvent
      BY <1>2, Zenon DEF AddFinalizer, resolveCatalog, readSecret, updateSecretURL, checkEnding,
         mintKey, writeSecret, ensureRegistration, recordOwner, gatewayNamespaceForTeardown,
         removeRegistration, apiVars, secretVars
    <3> QED
      BY <3>1, <1>b
  <2> QED
    BY <1>1, <1>2, <1>c, <2>1, PassContinues
<1>3. ASSUME NEW x \in Sessions, NEW readable \in BOOLEAN, Reconcile(x, readable) PROVE Goal
  <2>1. /\ w.pc = "idle" /\ UNCHANGED <<seen, secretEvent>>
        /\ queued' = [queued EXCEPT ![x] = FALSE]
    BY <1>3 DEF Reconcile, apiVars, caches
  <2>2. seen[x].st = "live" => w'.pc # "idle" /\ w'.s = x
    <3> DEFINE refusal == [seen[x].status EXCEPT !.ready = FALSE, !.phase = "Rejected"]
    <3>1. seen[x].st = "live" =>
             \/ \E pc \in {"catalog", "finalizer"} :
                   w' = [IdleWorker EXCEPT !.pc = pc, !.s = x, !.snap = seen[x]]
             \/ w' = [IdleWorker EXCEPT !.pc = "status", !.s = x,
                                        !.snap = [IdleWorker.snap EXCEPT !.status = refusal]]
      BY <1>3, IdleWorkerType DEF Reconcile, placementValid, reject, Worker
    <3> HIDE DEF refusal
    <3> QED
      BY <3>1, IdleWorkerType DEF Worker
  <2>3. x # s => queued'[s] = queued[s]
    BY <1>a, <2>1
  <2> QED
    BY <2>1, <2>2, <2>3 DEF Woken, Attending
<1>4. ASSUME updateSessionStatus PROVE Goal
  <2>1. UNCHANGED <<seen, secretEvent>> /\ w.pc = "status"
    BY <1>4 DEF updateSessionStatus, caches, secretVars
  <2>2. \/ Finish(TRUE)
        \/ /\ seen[w.s] = sess[w.s] /\ sess[w.s].st \in {"live", "deleting"}
           /\ sess' = [sess EXCEPT ![w.s].status = w.snap.status]
           /\ Finish(w.requeue)
    BY <1>4, Zenon DEF updateSessionStatus
  <2>3. CASE Finish(TRUE)
    BY <1>1, <1>c, <2>1, <2>3
  <2>4. CASE /\ seen[w.s] = sess[w.s] /\ sess[w.s].st \in {"live", "deleting"}
             /\ sess' = [sess EXCEPT ![w.s].status = w.snap.status]
             /\ Finish(w.requeue)
    <3>1. w.requeue \in BOOLEAN
      BY <1>a DEF Worker
    <3>2. (queued[s] => queued'[s]) /\ (w.requeue /\ w.s = s => queued'[s])
      BY <2>4, <3>1, FinishQueues
    <3>3. w.s = s => Reports(s)
      <4> SUFFICES ASSUME w.s = s PROVE Reports(s)
        OBVIOUS
      <4>1. sess'[s] = [sess[s] EXCEPT !.status = w.snap.status]
        BY <2>4 DEF TypeOK
      <4>2. /\ sess'[s].st = sess[s].st /\ sess'[s].status = w.snap.status
            /\ expiryFor(sess'[s]) = expiryFor(sess[s])
        BY <1>a, <4>1 DEF Grant, expiryFor
      <4>3. w'.pc = "idle"
        BY <2>4, IdleWorkerType DEF Finish
      <4> QED
        BY <2>1, <2>4, <3>2, <4>2, <4>3 DEF Reports, Present
    <3> QED
      BY <2>1, <3>2, <3>3 DEF Woken, Attending
  <2> QED
    BY <2>2, <2>3, <2>4
<1>5. ASSUME releaseSessionFinalizer PROVE Goal
  <2>1. UNCHANGED <<seen, secretEvent>>
    BY <1>5 DEF releaseSessionFinalizer, caches, secretVars
  <2>a. \/ Finish(FALSE) /\ seen[w.s] = sess[w.s] /\ sess[w.s].st = "deleting"
        \/ Finish(FALSE) /\ seen[w.s].st = "gone"
        \/ Finish(TRUE)
    BY <1>5, Zenon DEF releaseSessionFinalizer
  <2>2. Finish(TRUE) \/ (Finish(FALSE) /\ seen[w.s].st # "live")
    BY <2>a
  <2>3. Finish(FALSE) => (queued[s] => queued'[s])
    BY FinishQueues
  <2> QED
    BY <1>1, <1>c, <2>1, <2>2, <2>3
<1>6. ASSUME NEW x \in Sessions, DeliverSession(x) PROVE Goal
  <2>1. UNCHANGED <<secretEvent, w>>
    BY <1>6 DEF DeliverSession, apiVars
  <2>2. CASE x # s
    BY <1>1, <1>6, <1>a, <2>1, <2>2 DEF DeliverSession, Woken, Attending
  <2>3. CASE x = s
    <3>1. seen'[s] = sess[s] /\ queued'[s] = (queued[s] \/ GenerationChanged(seen[s], sess[s]))
      BY <1>6, <1>a, <2>3 DEF DeliverSession
    <3>2. seen[s].st # "live" => queued'[s] \/ seen'[s].st # "live"
      BY <3>1 DEF GenerationChanged
    <3> QED
      BY <2>1, <3>1, <3>2 DEF Woken, Attending
  <2> QED
    BY <2>2, <2>3
<1>7. ASSUME NEW x \in Sessions, DeliverSecret(x) PROVE Goal
  <2>1. UNCHANGED <<seen, w>>
    BY <1>7 DEF DeliverSecret
  <2>2. /\ queued' = [queued EXCEPT ![x] = queued[x] \/ secretEvent[x]]
        /\ secretEvent' = [secretEvent EXCEPT ![x] = FALSE]
    BY <1>7 DEF DeliverSecret
  <2>3. (queued[s] => queued'[s]) /\ (secretEvent[s] => secretEvent'[s] \/ queued'[s])
    BY <1>a, <2>2
  <2> QED
    BY <2>1, <2>3 DEF Woken, Attending
<1>8. ASSUME NEW x \in Sessions, DeliverNamespace(x) \/ DeliverRegistration(x) PROVE Goal
  BY <1>1, <1>8 DEF DeliverNamespace, DeliverRegistration, apiVars
<1>9. ASSUME Restart PROVE Goal
  <2>1. seen' = sess /\ queued'[s] = (sess[s].st \in {"live", "deleting"})
    BY <1>9 DEF Restart
  <2>2. Woken(s)'
    BY <2>1 DEF Woken
  <2> QED
    BY <2>2
<1>10. ASSUME \/ \E x \in Sessions :
                 \/ \E ttl \in TTLs : CreateSession(x, ttl) \/ EditTTL(x, ttl)
                 \/ DeleteSession(x) \/ ForceDelete(x) \/ EndSessionNamespace(x)
                 \/ CollectSecret(x) \/ TamperSecret(x)
              \/ CatalogChange \/ PlatformDelete \/ Tick \/ SweepStep \/ UNCHANGED vars
              \/ \E g \in Gateways : PlatformMove(g) \/ GatewayNamespaceGone(g)
       PROVE  Goal
  <2>1. /\ UNCHANGED <<w, seen>>
        /\ (queued[s] => queued'[s]) /\ (secretEvent[s] => secretEvent'[s])
    BY <1>10, OthersQueue
  <2> QED
    BY <1>1, <2>1
<1> QED
  <2>1. CASE WorkerStep
    BY <2>1, <1>2, <1>3, <1>4, <1>5, Zenon DEF WorkerStep
  <2>2. CASE \E x \in Sessions : Deliver(x)
    BY <2>2, <1>6, <1>7, <1>8, Zenon DEF Deliver
  <2>3. CASE Environment \/ Tick \/ SweepStep \/ UNCHANGED vars
    BY <2>3, <1>9, <1>10, Zenon DEF Environment
  <2> QED
    BY <2>1, <2>2, <2>3 DEF Next

\* The status a pass is about to write is that of a failed or waiting pass, with
\* a retry; of a grant that is refused or whose session ends; or Ready, and then
\* the registration has just been dealt with.
LEMMA StatusWritten ==
    ASSUME TypeOK, [Next]_vars, w'.pc = "status"
    PROVE  \/ w' = w
           \/ w'.requeue = TRUE /\ w'.snap.status.phase # "Ready"
           \/ w'.snap.status.phase \in {"Rejected", "Terminating"}
           \/ recordOwner /\ w.pc = "record" /\ w'.s = w.s /\ w'.snap.status.phase = "Ready"
<1> DEFINE Goal == \/ w' = w
                   \/ w'.requeue = TRUE /\ w'.snap.status.phase # "Ready"
                   \/ w'.snap.status.phase \in {"Rejected", "Terminating"}
                   \/ recordOwner /\ w.pc = "record" /\ w'.s = w.s
                      /\ w'.snap.status.phase = "Ready"
<1>a. w \in Worker /\ w.snap \in Grant /\ w.snap.status \in Status
  BY DEF TypeOK, Worker, Grant
<1>b. Failed => Goal
  BY FailedSays
<1>c. \A requeue \in BOOLEAN : ~Finish(requeue)
  BY IdleWorkerType DEF Finish
<1>1. ASSUME resolveCatalog PROVE Goal
  <2>1. \/ Report([w.snap.status EXCEPT !.ready = FALSE, !.phase = "Pending"], TRUE)
        \/ w' = [w EXCEPT !.pc = "secret", !.url = catalog, !.ns = platform]
    BY <1>1, <1>c DEF resolveCatalog
  <2>2. [w.snap.status EXCEPT !.ready = FALSE, !.phase = "Pending"].phase = "Pending"
    BY <1>a DEF Status
  <2> QED
    BY <1>a, <2>1, <2>2, ReportSays DEF Worker
<1>2. ASSUME checkEnding PROVE Goal
  <2>1. \/ Report([w.snap.status EXCEPT !.phase = "Terminating"], FALSE)
        \/ w' = [w EXCEPT !.pc = "owner"] \/ Failed
    BY <1>2, Zenon DEF checkEnding
  <2>2. [w.snap.status EXCEPT !.phase = "Terminating"].phase = "Terminating"
    BY <1>a DEF Status
  <2> QED
    BY <1>a, <1>b, <2>1, <2>2, ReportSays DEF Worker
<1>3. ASSUME recordOwner PROVE Goal
  <2> DEFINE said == [phase |-> "Ready", ready |-> TRUE,
                      recorded |-> w.snap.status.recorded \/ secretOwnerNamespace(w.s)]
  <2>1. Report(said, FALSE) /\ w.pc = "record"
    BY <1>3, <1>c, Zenon DEF recordOwner
  <2>2. said.phase = "Ready"
    OBVIOUS
  <2> HIDE DEF said
  <2>3. w'.snap.status = said /\ w'.s = w.s
    BY <2>1, ReportSays
  <2> QED
    BY <1>3, <2>1, <2>2, <2>3
<1>4. ASSUME NEW x \in Sessions, NEW readable \in BOOLEAN, Reconcile(x, readable) PROVE Goal
  <2> DEFINE refusal == [seen[x].status EXCEPT !.ready = FALSE, !.phase = "Rejected"]
  <2>1. \/ \E pc \in {"catalog", "finalizer", "lookup"} :
              w' = [IdleWorker EXCEPT !.pc = pc, !.s = x, !.snap = seen[x]]
        \/ w' = [IdleWorker EXCEPT !.pc = "status", !.s = x,
                                   !.snap = [IdleWorker.snap EXCEPT !.status = refusal]]
        \/ w' = w
    BY <1>4, IdleWorkerType DEF Reconcile, placementValid, reject, Worker
  <2>2. refusal.phase = "Rejected"
    <3>1. seen[x].status \in Status
      BY DEF TypeOK, Grant
    <3> QED
      BY <3>1 DEF Status
  <2>3. IdleWorker.snap \in Grant
    BY IdleWorkerType DEF Worker
  <2> HIDE DEF refusal
  <2>4. [IdleWorker.snap EXCEPT !.status = refusal].status = refusal
    BY <2>3 DEF Grant
  <2> QED
    BY <2>1, <2>2, <2>4, IdleWorkerType DEF Worker
<1>5. ASSUME AddFinalizer \/ gatewayNamespaceForTeardown \/ removeRegistration PROVE FALSE
  <2>1. ~Finish(TRUE)
    BY <1>c
  <2>2. \/ w' = [w EXCEPT !.pc = "catalog", !.snap.fin = TRUE]
        \/ w' = [w EXCEPT !.pc = "remove", !.ns = platform]
        \/ w' = [w EXCEPT !.pc = "release", !.ns = NoGateway]
        \/ w' = [w EXCEPT !.pc = "release"]
    BY <1>5, <2>1, Zenon DEF AddFinalizer, gatewayNamespaceForTeardown, removeRegistration
  <2> QED
    BY <1>a, <2>2 DEF Worker
<1>6. ASSUME readSecret \/ updateSecretURL \/ (\E k \in Keys : mintKey(k)) PROVE Goal
  <2>1. CASE readSecret
    BY <1>a, <1>b, <2>1 DEF readSecret, Worker
  <2>2. CASE updateSecretURL
    BY <1>a, <1>b, <2>2 DEF updateSecretURL, Worker
  <2>3. CASE \E k \in Keys : mintKey(k)
    BY <1>a, <1>b, <2>3 DEF mintKey, Worker
  <2> QED
    BY <1>6, <2>1, <2>2, <2>3
<1>7. ASSUME writeSecret \/ ensureRegistration PROVE Goal
  <2>1. \/ Failed
        \/ \E k : w' = [w EXCEPT !.pc = "register", !.key = k,
                                 !.live = NoSecret, !.owned = FALSE]
        \/ w' = [w EXCEPT !.pc = "record", !.key = NoKey, !.ns = NoGateway, !.url = NoGateway]
    BY <1>7 DEF writeSecret, ensureRegistration
  <2> QED
    BY <1>a, <1>b, <2>1 DEF Worker
<1>8. ASSUME updateSessionStatus \/ releaseSessionFinalizer PROVE FALSE
  <2>1. \E requeue \in BOOLEAN : Finish(requeue)
    BY <1>8, <1>a DEF updateSessionStatus, releaseSessionFinalizer, Worker
  <2> QED
    BY <2>1, <1>c
<1>9. ASSUME Restart PROVE FALSE
  BY <1>9, IdleWorkerType DEF Restart
<1>10. ASSUME NEW x \in Sessions, Deliver(x) PROVE Goal
  BY <1>10 DEF Deliver, DeliverSession, DeliverNamespace, DeliverSecret, DeliverRegistration
<1>11. ASSUME \/ \E x \in Sessions :
                 \/ \E ttl \in TTLs : CreateSession(x, ttl) \/ EditTTL(x, ttl)
                 \/ DeleteSession(x) \/ ForceDelete(x) \/ EndSessionNamespace(x)
                 \/ CollectSecret(x) \/ TamperSecret(x)
              \/ CatalogChange \/ PlatformDelete \/ Tick \/ SweepStep \/ UNCHANGED vars
              \/ \E g \in Gateways : PlatformMove(g) \/ GatewayNamespaceGone(g)
       PROVE  Goal
  <2>1. \E s : s \in Sessions
    BY ConstantsAssumption
  <2>2. UNCHANGED w
    BY <1>11, <2>1, OthersQueue
  <2> QED
    BY <2>2
<1> QED
  <2>1. CASE WorkerStep
    BY <2>1, <1>1, <1>2, <1>3, <1>4, <1>5, <1>6, <1>7, <1>8, Zenon DEF WorkerStep
  <2>2. CASE \E x \in Sessions : Deliver(x)
    BY <2>2, <1>10, Zenon
  <2>3. CASE Environment \/ Tick \/ SweepStep \/ UNCHANGED vars
    BY <2>3, <1>9, <1>11, Zenon DEF Environment
  <2> QED
    BY <2>1, <2>2, <2>3 DEF Next

--------------------------------------------------------------------------------
(***************************************************************************)
(* No settled grant is left half done.                                      *)
(***************************************************************************)

\* What the cache shows of a grant's life has happened.
Behind ==
    \A s \in Sessions :
        /\ sess[s].st = "none" => seen[s].st = "none"
        /\ seen[s].st = "deleting" => sess[s].st \in {"deleting", "gone"}
        /\ seen[s].st = "gone" => sess[s].st = "gone"

\* A status that asks for more work comes with a retry, and a grant whose phase
\* asks for more has that work ahead of it.
Attended ==
    /\ w.pc = "status" => w.snap.status.phase \in Acceptable \/ w.requeue
    /\ \A s \in Sessions : sess[s].st = "live" =>
          sess[s].status.phase \in Acceptable \/ Woken(s) \/ Attending(s)

\* What a cache shows next is what the API server holds, or what it showed before.
LEMMA CacheSteps ==
    ASSUME TypeOK, [Next]_vars, NEW s \in Sessions
    PROVE  seen'[s] = seen[s] \/ (seen'[s] = sess[s] /\ sess'[s] = sess[s])
<1> DEFINE Goal == seen'[s] = seen[s] \/ (seen'[s] = sess[s] /\ sess'[s] = sess[s])
<1>1. ASSUME WorkerStep PROVE Goal
  BY <1>1 DEF WorkerStep, Reconcile, AddFinalizer, resolveCatalog, readSecret, updateSecretURL,
     checkEnding, mintKey, writeSecret, ensureRegistration, recordOwner, updateSessionStatus,
     gatewayNamespaceForTeardown, removeRegistration, releaseSessionFinalizer, caches
<1>2. ASSUME NEW x \in Sessions, DeliverSession(x) PROVE Goal
  BY <1>2 DEF DeliverSession, TypeOK, apiVars
<1>3. ASSUME NEW x \in Sessions, DeliverNamespace(x) \/ DeliverSecret(x) \/ DeliverRegistration(x)
      PROVE  Goal
  BY <1>3 DEF DeliverNamespace, DeliverSecret, DeliverRegistration
<1>4. ASSUME Restart PROVE Goal
  BY <1>4 DEF Restart
<1>5. ASSUME \/ \E x \in Sessions :
                 \/ \E ttl \in TTLs : CreateSession(x, ttl) \/ EditTTL(x, ttl)
                 \/ DeleteSession(x) \/ ForceDelete(x) \/ EndSessionNamespace(x)
                 \/ CollectSecret(x) \/ TamperSecret(x)
              \/ CatalogChange \/ PlatformDelete \/ Tick \/ SweepStep \/ UNCHANGED vars
              \/ \E g \in Gateways : PlatformMove(g) \/ GatewayNamespaceGone(g)
      PROVE  Goal
  BY <1>5, OthersQueue
<1> QED
  <2>1. CASE \E x \in Sessions : Deliver(x)
    BY <2>1, <1>2, <1>3, Zenon DEF Deliver
  <2>2. CASE Environment \/ Tick \/ SweepStep \/ UNCHANGED vars
    BY <2>2, <1>4, <1>5, Zenon DEF Environment
  <2> QED
    BY <2>1, <2>2, <1>1 DEF Next

\* The cache goes on lagging, never leading.
LEMMA BehindKept ==
    ASSUME TypeOK, GuardInv, Behind, [Next]_vars
    PROVE  Behind'
<1> SUFFICES ASSUME NEW s \in Sessions
             PROVE  /\ sess'[s].st = "none" => seen'[s].st = "none"
                    /\ seen'[s].st = "deleting" => sess'[s].st \in {"deleting", "gone"}
                    /\ seen'[s].st = "gone" => sess'[s].st = "gone"
  BY DEF Behind
<1>1. /\ sess[s].st = "none" => seen[s].st = "none"
      /\ seen[s].st = "deleting" => sess[s].st \in {"deleting", "gone"}
      /\ seen[s].st = "gone" => sess[s].st = "gone"
  BY DEF Behind
<1>2. seen'[s] = seen[s] \/ (seen'[s] = sess[s] /\ sess'[s] = sess[s])
  BY CacheSteps
<1>3. sess'[s] = sess[s] \/ Opens(s) \/ Closes(s) \/ Amends(s) \/ Reports(s)
  BY GrantSteps
<1> QED
  BY <1>1, <1>2, <1>3 DEF Opens, Closes, Amends, Reports, Present

\* The work a grant's phase asks for stays ahead of it.
LEMMA AttendedKept ==
    ASSUME TypeOK, GuardInv, Behind, Attended, [Next]_vars
    PROVE  Attended'
<1>1. w'.pc = "status" => w'.snap.status.phase \in Acceptable \/ w'.requeue
  <2> SUFFICES ASSUME w'.pc = "status"
               PROVE  w'.snap.status.phase \in Acceptable \/ w'.requeue
    OBVIOUS
  <2>1. CASE w' = w
    BY <2>1 DEF Attended
  <2>2. CASE w' # w
    BY <2>2, StatusWritten DEF Acceptable
  <2> QED
    BY <2>1, <2>2
<1>2. ASSUME NEW s \in Sessions, sess'[s].st = "live"
      PROVE  sess'[s].status.phase \in Acceptable \/ Woken(s)' \/ Attending(s)'
  <2>1. sess'[s] = sess[s] \/ Opens(s) \/ Closes(s) \/ Amends(s) \/ Reports(s)
    BY GrantSteps
  <2>2. CASE Opens(s)
    <3>1. seen'[s].st = "none"
      BY <2>2 DEF Opens, Behind
    <3> QED
      BY <3>1 DEF Woken
  <2>3. CASE Closes(s)
    BY <1>2, <2>3 DEF Closes
  <2>4. CASE Reports(s)
    <3>1. sess'[s].status.phase \in Acceptable \/ queued'[s]
      BY <2>4 DEF Reports, Attended
    <3> QED
      BY <3>1 DEF Woken
  <2>5. CASE (sess'[s] = sess[s] \/ Amends(s)) /\ ~Reports(s)
    <3>1. sess[s].st = "live" /\ sess'[s].status = sess[s].status
      BY <1>2, <2>5 DEF Amends
    <3>2. sess[s].status.phase \in Acceptable \/ Woken(s) \/ Attending(s)
      BY <3>1 DEF Attended
    <3> QED
      BY <2>5, <3>1, <3>2, WorkKept
  <2> QED
    BY <2>1, <2>2, <2>3, <2>4, <2>5
<1> QED
  BY <1>1, <1>2 DEF Attended

\* When everything has settled a grant is Ready, refused, or its session is
\* ending: a Pending or Failed grant always has a retry, an event or a pass of
\* its own ahead of it, through conflicts, lost writes and restarts. Proved for
\* any set of stale caches and of faults.
THEOREM NoneStranded == Spec => [](NoGrantStranded /\ Behind /\ Attended)
<1>1. Init => Behind /\ Attended
  BY IdleWorkerType, GrantTypes DEF Init, Behind, Attended
<1>2. TypeOK /\ GuardInv /\ Behind /\ Attended /\ [Next]_vars => Behind' /\ Attended'
  BY BehindKept, AttendedKept
<1>3. Attended => NoGrantStranded
  BY DEF Attended, NoGrantStranded, Quiet, Woken, Attending, Acceptable
<1> QED
  BY <1>1, <1>2, <1>3, TypeCorrect, RegistrationsGuarded, PTL DEF Spec

--------------------------------------------------------------------------------
(***************************************************************************)
(* A sweep spares a valid key, as long as nobody edits a TTL.               *)
(***************************************************************************)

\* A pass starts from what the cache shows of its grant.
Starts(s) ==
    /\ w.pc = "idle" /\ w'.s = s
    /\ \/ /\ seen[s].st = "live" /\ w'.pc \in {"catalog", "finalizer"} /\ w'.snap = seen[s]
          /\ s \notin Misplaced \/ "nsRead" \in Faults
       \/ seen[s].st = "live" /\ w'.pc = "status" /\ s \in Misplaced
       \/ seen[s].st = "deleting" /\ w'.pc = "lookup" /\ w'.snap = seen[s]

\* It goes on for the same grant, with what it read of it.
GoesOn ==
    /\ w.pc # "idle" /\ w'.pc \notin {"idle", "finalizer"} /\ w'.s = w.s
    /\ w'.pc \in Removing => w.pc \in Removing
    /\ w'.pc \in Publishing => /\ w.pc \in Publishing \union {"finalizer"}
                               /\ expiryFor(w'.snap) = expiryFor(w.snap)

\* The worker stands still, is free, starts a pass or goes on with it.
LEMMA PassMoves ==
    ASSUME TypeOK, [Next]_vars
    PROVE  w' = w \/ w'.pc = "idle" \/ (\E s \in Sessions : Starts(s)) \/ GoesOn
<1> DEFINE Goal == w' = w \/ w'.pc = "idle" \/ (\E s \in Sessions : Starts(s)) \/ GoesOn
<1>a. w \in Worker /\ w.snap \in Grant /\ w.s \in Sessions
  BY DEF TypeOK, Worker
<1>b. /\ \A requeue \in BOOLEAN : Finish(requeue) => Goal
      /\ \A status, requeue : w.pc # "idle" /\ requeue \in BOOLEAN /\ Report(status, requeue)
            => GoesOn
      /\ w.pc # "idle" /\ Failed => GoesOn
  <2>1. \A requeue \in BOOLEAN : Finish(requeue) => Goal
    BY IdleWorkerType DEF Finish
  <2>2. ASSUME w.pc # "idle", w'.pc = "status", w'.s = w.s PROVE GoesOn
    BY <2>2 DEF GoesOn, Removing, Publishing
  <2>3. \A status, requeue : requeue \in BOOLEAN /\ Report(status, requeue)
           => w'.pc = "status" /\ w'.s = w.s
    BY ReportSays
  <2> QED
    BY <2>1, <2>2, <2>3, FailedSays
<1>1. ASSUME NEW x \in Sessions, NEW readable \in BOOLEAN, Reconcile(x, readable) PROVE Goal
  <2> DEFINE refusal == [seen[x].status EXCEPT !.ready = FALSE, !.phase = "Rejected"]
  <2>1. /\ w.pc = "idle"
        /\ \/ \E pc \in {"catalog", "finalizer"} :
                 /\ w' = [IdleWorker EXCEPT !.pc = pc, !.s = x, !.snap = seen[x]]
                 /\ seen[x].st = "live" /\ (x \notin Misplaced \/ "nsRead" \in Faults)
           \/ /\ w' = [IdleWorker EXCEPT !.pc = "lookup", !.s = x, !.snap = seen[x]]
              /\ seen[x].st = "deleting"
           \/ /\ w' = [IdleWorker EXCEPT !.pc = "status", !.s = x,
                                   !.snap = [IdleWorker.snap EXCEPT !.status = refusal]]
              /\ seen[x].st = "live" /\ x \in Misplaced
           \/ w' = w
    BY <1>1, IdleWorkerType DEF Reconcile, placementValid, reject, Worker
  <2> HIDE DEF refusal
  <2>2. Starts(x) \/ w' = w
    BY <2>1, IdleWorkerType DEF Worker, Starts
  <2> QED
    BY <2>2
<1>2. ASSUME NEW pc \in {"secret", "register", "url", "ending", "owner", "write"},
             NEW from \in {"catalog", "secret", "url", "ending", "owner", "write"},
             w.pc = from, w'.pc = pc, w'.s = w.s, w'.snap = w.snap
      PROVE  GoesOn
  BY <1>2 DEF GoesOn, Removing, Publishing
<1>3. ASSUME AddFinalizer PROVE Goal
  <2>1. CASE w' = [w EXCEPT !.pc = "catalog", !.snap.fin = TRUE]
    <3>1. /\ w'.pc = "catalog" /\ w'.s = w.s
          /\ expiryFor(w'.snap) = expiryFor(w.snap)
      BY <1>a, <2>1 DEF Worker, Grant, expiryFor
    <3>2. w.pc = "finalizer"
      BY <1>3 DEF AddFinalizer
    <3> QED
      BY <3>1, <3>2 DEF GoesOn, Removing, Publishing
  <2>2. CASE Finish(TRUE)
    BY <1>b, <2>2
  <2> QED
    BY <1>3, <2>1, <2>2, Zenon DEF AddFinalizer
<1>4. ASSUME resolveCatalog \/ readSecret \/ updateSecretURL \/ checkEnding
             \/ (\E k \in Keys : mintKey(k)) \/ writeSecret
      PROVE  Goal
  <2>1. \/ Failed
        \/ \E requeue \in BOOLEAN : Finish(requeue)
        \/ \E status : \E requeue \in BOOLEAN : Report(status, requeue)
        \/ \E pc \in {"secret", "register", "url", "ending", "owner", "write"} :
              w'.pc = pc /\ w'.s = w.s /\ w'.snap = w.snap
    <3>1. CASE resolveCatalog
      BY <3>1, <1>a DEF resolveCatalog, Worker
    <3>2. CASE readSecret
      BY <3>2, <1>a DEF readSecret, Worker
    <3>3. CASE updateSecretURL
      BY <3>3, <1>a DEF updateSecretURL, Worker
    <3>4. CASE checkEnding
      BY <3>4, <1>a DEF checkEnding, Worker
    <3>5. CASE \E k \in Keys : mintKey(k)
      BY <3>5, <1>a DEF mintKey, Worker
    <3>6. CASE writeSecret
      <4>1. \/ Failed
            \/ \E k : w' = [w EXCEPT !.pc = "register", !.key = k,
                                     !.live = NoSecret, !.owned = FALSE]
        BY <3>6 DEF writeSecret
      <4> QED
        BY <1>a, <4>1 DEF Worker
    <3> QED
      BY <1>4, <3>1, <3>2, <3>3, <3>4, <3>5, <3>6
  <2>2. w.pc \in {"catalog", "secret", "url", "ending", "owner", "write"}
    BY <1>4 DEF resolveCatalog, readSecret, updateSecretURL, checkEnding, mintKey, writeSecret
  <2> QED
    BY <1>b, <1>2, <2>1, <2>2
<1>5. ASSUME ensureRegistration \/ recordOwner PROVE Goal
  <2>1. \/ Failed \/ Finish(TRUE)
        \/ \E status : Report(status, FALSE)
        \/ w'.pc = "record" /\ w'.s = w.s
    <3>1. CASE ensureRegistration
      BY <3>1, <1>a DEF ensureRegistration, Worker
    <3>2. CASE recordOwner
      BY <3>2 DEF recordOwner
    <3> QED
      BY <1>5, <3>1, <3>2
  <2>2. w.pc \in {"register", "record"}
    BY <1>5 DEF ensureRegistration, recordOwner
  <2>3. w'.pc = "record" /\ w'.s = w.s => GoesOn
    BY <2>2 DEF GoesOn, Removing, Publishing
  <2> QED
    BY <1>b, <2>1, <2>2, <2>3
<1>6. ASSUME updateSessionStatus \/ releaseSessionFinalizer PROVE Goal
  <2>1. \E requeue \in BOOLEAN : Finish(requeue)
    BY <1>6, <1>a DEF updateSessionStatus, releaseSessionFinalizer, Worker
  <2> QED
    BY <2>1, <1>b
<1>7. ASSUME gatewayNamespaceForTeardown \/ removeRegistration PROVE Goal
  <2>1. Finish(TRUE) \/ (w'.pc \in {"remove", "release"} /\ w'.s = w.s)
    <3>1. CASE gatewayNamespaceForTeardown
      BY <3>1, <1>a DEF gatewayNamespaceForTeardown, Worker
    <3>2. CASE removeRegistration
      BY <3>2, <1>a DEF removeRegistration, Worker
    <3> QED
      BY <1>7, <3>1, <3>2
  <2>2. w.pc \in {"lookup", "remove"}
    BY <1>7 DEF gatewayNamespaceForTeardown, removeRegistration
  <2> QED
    BY <1>b, <2>1, <2>2 DEF GoesOn, Removing, Publishing
<1>8. ASSUME Restart PROVE Goal
  BY <1>8, IdleWorkerType DEF Restart
<1>9. ASSUME NEW x \in Sessions, Deliver(x) PROVE Goal
  BY <1>9 DEF Deliver, DeliverSession, DeliverNamespace, DeliverSecret, DeliverRegistration
<1>10. ASSUME \/ \E x \in Sessions :
                 \/ \E ttl \in TTLs : CreateSession(x, ttl) \/ EditTTL(x, ttl)
                 \/ DeleteSession(x) \/ ForceDelete(x) \/ EndSessionNamespace(x)
                 \/ CollectSecret(x) \/ TamperSecret(x)
              \/ CatalogChange \/ PlatformDelete \/ Tick \/ SweepStep \/ UNCHANGED vars
              \/ \E g \in Gateways : PlatformMove(g) \/ GatewayNamespaceGone(g)
       PROVE  Goal
  <2>1. UNCHANGED w
    BY <1>a, <1>10, OthersQueue
  <2> QED
    BY <2>1
<1> QED
  <2>1. CASE WorkerStep
    BY <2>1, <1>1, <1>3, <1>4, <1>5, <1>6, <1>7, Zenon DEF WorkerStep
  <2>2. CASE \E x \in Sessions : Deliver(x)
    BY <2>2, <1>9, Zenon
  <2>3. CASE Environment \/ Tick \/ SweepStep \/ UNCHANGED vars
    BY <2>3, <1>8, <1>10, Zenon DEF Environment
  <2> QED
    BY <2>1, <2>2, <2>3 DEF Next

Published(s, g) ==
    /\ ensureRegistration /\ w.s = s /\ w.ns = g
    /\ reg'[s][g] = [hash |-> Hash(w.key), exp |-> expiryFor(w.snap)]

Revoked(s, g) ==
    /\ reg'[s][g] = NoReg
    /\ (w.pc = "remove" /\ w.s = s) \/ <<s, g>> \in sweep \/ gwNs[g] = "terminating"

\* A registration is published by the pass of its grant, and goes by that grant's
\* teardown, by a sweep that listed it or with its namespace.
LEMMA RegistrationSteps ==
    ASSUME TypeOK, [Next]_vars, NEW s \in Sessions, NEW g \in Gateways
    PROVE  reg'[s][g] = reg[s][g] \/ Published(s, g) \/ Revoked(s, g)
<1> DEFINE Goal == reg'[s][g] = reg[s][g] \/ Published(s, g) \/ Revoked(s, g)
<1>a. /\ reg \in [Sessions -> [Gateways -> Registration \union {NoReg}]]
      /\ w.s \in Sessions
  BY DEF TypeOK, Worker
<1>1. ASSUME ensureRegistration PROVE Goal
  <2> DEFINE desired == [hash |-> Hash(w.key), exp |-> expiryFor(w.snap)]
  <2>1. UNCHANGED reg \/ reg' = [reg EXCEPT ![w.s][w.ns] = desired]
    BY <1>1 DEF ensureRegistration
  <2> HIDE DEF desired
  <2>2. UNCHANGED reg \/ reg' = [reg EXCEPT ![w.s] = [reg[w.s] EXCEPT ![w.ns] = desired]]
    BY <1>a, <2>1
  <2>3. reg'[s][g] = reg[s][g] \/ (w.s = s /\ w.ns = g /\ reg'[s][g] = desired)
    BY <1>a, <2>2
  <2> QED
    BY <1>1, <2>3 DEF Published, desired
<1>2. ASSUME removeRegistration PROVE Goal
  <2>1. UNCHANGED reg \/ reg' = [reg EXCEPT ![w.s][w.ns] = NoReg]
    BY <1>2 DEF removeRegistration
  <2>2. reg'[s][g] = reg[s][g] \/ (w.s = s /\ reg'[s][g] = NoReg)
    BY <1>a, <2>1
  <2> QED
    BY <1>2, <2>2 DEF removeRegistration, Revoked
<1>3. ASSUME NEW x \in Sessions, NEW h \in Gateways, SweepDelete(x, h) PROVE Goal
  <2>1. UNCHANGED reg \/ reg' = [reg EXCEPT ![x] = [reg[x] EXCEPT ![h] = NoReg]]
    BY <1>3 DEF SweepDelete
  <2>2. reg'[s][g] = reg[s][g] \/ (x = s /\ h = g /\ reg'[s][g] = NoReg)
    BY <1>a, <2>1
  <2> QED
    BY <1>3, <2>2 DEF SweepDelete, Revoked
<1>4. ASSUME NEW h \in Gateways, GatewayNamespaceGone(h) PROVE Goal
  <2>1. reg'[s] = [reg[s] EXCEPT ![h] = NoReg] /\ gwNs[h] = "terminating"
    BY <1>4 DEF GatewayNamespaceGone
  <2> QED
    BY <1>a, <2>1 DEF Revoked
<1>5. ASSUME \/ \E x \in Sessions, readable \in BOOLEAN : Reconcile(x, readable)
             \/ AddFinalizer \/ resolveCatalog \/ readSecret \/ updateSecretURL \/ checkEnding
             \/ (\E k \in Keys : mintKey(k)) \/ writeSecret \/ recordOwner
             \/ updateSessionStatus \/ gatewayNamespaceForTeardown \/ releaseSessionFinalizer
      PROVE  reg' = reg
  BY <1>5 DEF Reconcile, AddFinalizer, resolveCatalog, readSecret, updateSecretURL, checkEnding,
     mintKey, writeSecret, recordOwner, updateSessionStatus, gatewayNamespaceForTeardown,
     releaseSessionFinalizer, apiVars
<1>6. ASSUME NEW x \in Sessions, Deliver(x) PROVE reg' = reg
  BY <1>6 DEF Deliver, DeliverSession, DeliverNamespace, DeliverSecret, DeliverRegistration,
     apiVars
<1>7. ASSUME \/ \E x \in Sessions :
                 \/ \E ttl \in TTLs : CreateSession(x, ttl) \/ EditTTL(x, ttl)
                 \/ DeleteSession(x) \/ ForceDelete(x) \/ EndSessionNamespace(x)
                 \/ CollectSecret(x) \/ TamperSecret(x)
             \/ CatalogChange \/ PlatformDelete \/ Tick \/ SweepList \/ Restart \/ UNCHANGED vars
             \/ \E h \in Gateways : PlatformMove(h)
      PROVE  reg' = reg
  BY <1>7 DEF CreateSession, EditTTL, DeleteSession, ForceDelete, EndSessionNamespace,
     CollectSecret, TamperSecret, CatalogChange, PlatformDelete, Tick, SweepList, Restart, vars,
     PlatformMove, apiVars
<1> QED
  <2>1. CASE WorkerStep
    BY <2>1, <1>1, <1>2, <1>5, Zenon DEF WorkerStep
  <2>2. CASE \E x \in Sessions : Deliver(x)
    BY <2>2, <1>6, Zenon
  <2>3. CASE Environment \/ Tick \/ SweepStep \/ UNCHANGED vars
    BY <2>3, <1>3, <1>4, <1>7, Zenon DEF Environment, SweepStep
  <2> QED
    BY <2>1, <2>2, <2>3 DEF Next

\* The cache of the registrations shows what is there, or what it showed before.
LEMMA RegistrationCacheSteps ==
    ASSUME TypeOK, [Next]_vars, NEW s \in Sessions
    PROVE  regSeen'[s] = regSeen[s] \/ (regSeen'[s] = reg[s] /\ reg'[s] = reg[s])
<1> DEFINE Goal == regSeen'[s] = regSeen[s] \/ (regSeen'[s] = reg[s] /\ reg'[s] = reg[s])
<1>1. ASSUME WorkerStep PROVE Goal
  BY <1>1 DEF WorkerStep, Reconcile, AddFinalizer, resolveCatalog, readSecret, updateSecretURL,
     checkEnding, mintKey, writeSecret, ensureRegistration, recordOwner, updateSessionStatus,
     gatewayNamespaceForTeardown, removeRegistration, releaseSessionFinalizer, caches
<1>2. ASSUME NEW x \in Sessions, DeliverRegistration(x) PROVE Goal
  BY <1>2 DEF DeliverRegistration, TypeOK, apiVars
<1>3. ASSUME NEW x \in Sessions, DeliverNamespace(x) \/ DeliverSecret(x) \/ DeliverSession(x)
      PROVE  Goal
  BY <1>3 DEF DeliverNamespace, DeliverSecret, DeliverSession
<1>4. ASSUME Restart PROVE Goal
  BY <1>4 DEF Restart
<1>5. ASSUME \/ \E x \in Sessions :
                 \/ \E ttl \in TTLs : CreateSession(x, ttl) \/ EditTTL(x, ttl)
                 \/ DeleteSession(x) \/ ForceDelete(x) \/ EndSessionNamespace(x)
                 \/ CollectSecret(x) \/ TamperSecret(x)
              \/ CatalogChange \/ PlatformDelete \/ Tick \/ SweepStep \/ UNCHANGED vars
              \/ \E g \in Gateways : PlatformMove(g) \/ GatewayNamespaceGone(g)
      PROVE  Goal
  BY <1>5, OthersQueue
<1> QED
  <2>1. CASE \E x \in Sessions : Deliver(x)
    BY <2>1, <1>2, <1>3, Zenon DEF Deliver
  <2>2. CASE Environment \/ Tick \/ SweepStep \/ UNCHANGED vars
    BY <2>2, <1>4, <1>5, Zenon DEF Environment
  <2> QED
    BY <2>1, <2>2, <1>1 DEF Next

\* The worker and the sweep share nothing but the API server.
LEMMA WorkerLeavesSweep ==
    ASSUME WorkerStep
    PROVE  UNCHANGED <<now, sweep>>
<1>1. ASSUME \/ AddFinalizer \/ resolveCatalog \/ readSecret \/ updateSecretURL \/ checkEnding
             \/ (\E k \in Keys : mintKey(k)) \/ writeSecret
      PROVE  UNCHANGED <<now, sweep>>
  BY <1>1 DEF AddFinalizer, resolveCatalog, readSecret, updateSecretURL, checkEnding, mintKey,
     writeSecret, apiVars
<1>2. ASSUME \/ ensureRegistration \/ recordOwner \/ updateSessionStatus
             \/ gatewayNamespaceForTeardown \/ removeRegistration \/ releaseSessionFinalizer
             \/ \E x \in Sessions, readable \in BOOLEAN : Reconcile(x, readable)
      PROVE  UNCHANGED <<now, sweep>>
  BY <1>2 DEF ensureRegistration, recordOwner, updateSessionStatus,
     gatewayNamespaceForTeardown, removeRegistration, releaseSessionFinalizer, Reconcile, apiVars
<1> QED
  BY <1>1, <1>2, Zenon DEF WorkerStep

\* The clock does not go back.
LEMMA ClockSteps ==
    ASSUME TypeOK, [Next]_vars
    PROVE  now <= now'
<1>a. now \in Nat
  BY DEF TypeOK
<1>1. ASSUME NEW s \in Sessions, Deliver(s) PROVE UNCHANGED now
  BY <1>1 DEF Deliver, DeliverSession, DeliverNamespace, DeliverSecret, DeliverRegistration,
     apiVars
<1>2. ASSUME \/ \E x \in Sessions :
                 \/ \E ttl \in TTLs : CreateSession(x, ttl) \/ EditTTL(x, ttl)
                 \/ DeleteSession(x) \/ ForceDelete(x) \/ EndSessionNamespace(x)
                 \/ CollectSecret(x) \/ TamperSecret(x)
             \/ CatalogChange \/ PlatformDelete \/ SweepStep \/ Restart \/ UNCHANGED vars
             \/ \E h \in Gateways : PlatformMove(h) \/ GatewayNamespaceGone(h)
      PROVE  UNCHANGED now
  BY <1>2 DEF CreateSession, EditTTL, DeleteSession, ForceDelete, EndSessionNamespace,
     CollectSecret, TamperSecret, CatalogChange, PlatformDelete, SweepStep, SweepList,
     SweepDelete, Restart, vars, PlatformMove, GatewayNamespaceGone, apiVars
<1>3. CASE Tick
  BY <1>3, <1>a DEF Tick
<1>4. CASE UNCHANGED now
  BY <1>4, <1>a
<1> QED
  BY <1>1, <1>2, <1>3, <1>4, WorkerLeavesSweep, Zenon DEF Next, Environment

\* A sweep holds what it held before, or what the cache shows as expired.
LEMMA SweepHolds ==
    ASSUME TypeOK, [Next]_vars, NEW s \in Sessions, NEW g \in Gateways, <<s, g>> \in sweep'
    PROVE  <<s, g>> \in sweep \/ (regSeen[s][g] # NoReg /\ regSeen[s][g].exp <= now)
<1> DEFINE Goal == <<s, g>> \in sweep \/ (regSeen[s][g] # NoReg /\ regSeen[s][g].exp <= now)
<1>1. ASSUME SweepList PROVE Goal
  BY <1>1 DEF SweepList, expired
<1>2. ASSUME NEW x \in Sessions, NEW h \in Gateways, SweepDelete(x, h) PROVE Goal
  BY <1>2 DEF SweepDelete
<1>3. ASSUME Restart PROVE Goal
  BY <1>3 DEF Restart
<1>4. ASSUME NEW x \in Sessions, Deliver(x) PROVE UNCHANGED sweep
  BY <1>4 DEF Deliver, DeliverSession, DeliverNamespace, DeliverSecret, DeliverRegistration
<1>5. ASSUME \/ \E x \in Sessions :
                 \/ \E ttl \in TTLs : CreateSession(x, ttl) \/ EditTTL(x, ttl)
                 \/ DeleteSession(x) \/ ForceDelete(x) \/ EndSessionNamespace(x)
                 \/ CollectSecret(x) \/ TamperSecret(x)
             \/ CatalogChange \/ PlatformDelete \/ Tick \/ UNCHANGED vars
             \/ \E h \in Gateways : PlatformMove(h) \/ GatewayNamespaceGone(h)
      PROVE  UNCHANGED sweep
  BY <1>5 DEF CreateSession, EditTTL, DeleteSession, ForceDelete, EndSessionNamespace,
     CollectSecret, TamperSecret, CatalogChange, PlatformDelete, Tick, vars, PlatformMove,
     GatewayNamespaceGone, OperatorIdle
<1>6. CASE UNCHANGED sweep
  BY <1>6
<1> QED
  BY <1>1, <1>2, <1>3, <1>4, <1>5, <1>6, WorkerLeavesSweep, Zenon
     DEF Next, Environment, SweepStep

\* A pass is for a grant that was created, and a teardown for one that was deleted.
PassBehind ==
    /\ w.pc # "idle" => sess[w.s].st # "none"
    /\ w.pc \in Removing => sess[w.s].st \in {"deleting", "gone"}

\* Every copy of a grant asks for the same expiry, which is that of all of its
\* registrations, and of none that a sweep lists before it has passed.
OneExpiry(s, e) ==
    /\ sess[s].st \in Present => expiryFor(sess[s]) = e
    /\ seen[s].st \in Present => expiryFor(seen[s]) = e
    /\ w.s = s /\ w.pc \in Publishing \union {"finalizer"} => expiryFor(w.snap) = e
    /\ \A g \in Gateways : /\ reg[s][g] # NoReg => reg[s][g].exp = e
                           /\ regSeen[s][g] # NoReg => regSeen[s][g].exp = e
                           /\ <<s, g>> \in sweep => e <= now

Terms == \A s \in Sessions : \E e \in Nat : OneExpiry(s, e)

\* A grant that does not exist yet has no registration anywhere.
Unborn ==
    \A s \in Sessions : sess[s].st = "none" =>
        \A g \in Gateways : reg[s][g] = NoReg /\ regSeen[s][g] = NoReg /\ <<s, g>> \notin sweep

\* A pass stays with a grant that was created, a teardown with one that goes.
LEMMA PassBehindKept ==
    ASSUME TypeOK, GuardInv, Behind, PassBehind, [Next]_vars
    PROVE  PassBehind'
<1>a. \A s \in Sessions :
         /\ sess[s].st # "none" => sess'[s].st # "none"
         /\ sess[s].st \in {"deleting", "gone"} => sess'[s].st \in {"deleting", "gone"}
  <2> TAKE s \in Sessions
  <2>1. sess'[s] = sess[s] \/ Opens(s) \/ Closes(s) \/ Amends(s) \/ Reports(s)
    BY GrantSteps
  <2> QED
    BY <2>1 DEF Opens, Closes, Amends, Reports, Present
<1>b. w.s \in Sessions
  BY DEF TypeOK, Worker
<1>1. CASE w' = w
  BY <1>1, <1>a, <1>b DEF PassBehind
<1>2. CASE w'.pc = "idle"
  BY <1>2 DEF PassBehind, Removing
<1>3. ASSUME NEW s \in Sessions, Starts(s) PROVE PassBehind'
  <2>1. sess[s].st # "none" /\ (w'.pc = "lookup" => sess[s].st \in {"deleting", "gone"})
    BY <1>3 DEF Starts, Behind
  <2>2. w'.s = s /\ (w'.pc \in Removing => w'.pc = "lookup")
    BY <1>3 DEF Starts, Removing
  <2> QED
    BY <1>a, <2>1, <2>2 DEF PassBehind
<1>4. CASE GoesOn
  BY <1>4, <1>a, <1>b DEF GoesOn, PassBehind
<1> QED
  BY <1>1, <1>2, <1>3, <1>4, PassMoves

\* Until a grant is created there is nothing of it to find.
LEMMA UnbornKept ==
    ASSUME TypeOK, GuardInv, PassBehind, Unborn, [Next]_vars
    PROVE  Unborn'
<1> SUFFICES ASSUME NEW s \in Sessions, sess'[s].st = "none", NEW g \in Gateways
             PROVE  reg'[s][g] = NoReg /\ regSeen'[s][g] = NoReg /\ <<s, g>> \notin sweep'
  BY DEF Unborn
<1>1. sess'[s] = sess[s] \/ Opens(s) \/ Closes(s) \/ Amends(s) \/ Reports(s)
  BY GrantSteps
<1>2. sess[s].st = "none"
  BY <1>1 DEF Opens, Closes, Amends, Reports, Present
<1>3. reg[s][g] = NoReg /\ regSeen[s][g] = NoReg /\ <<s, g>> \notin sweep
  BY <1>2 DEF Unborn
<1>4. ~Published(s, g)
  BY <1>2 DEF Published, PassBehind, ensureRegistration
<1>5. reg'[s][g] = NoReg
  BY <1>3, <1>4, RegistrationSteps DEF Revoked
<1>6. regSeen'[s][g] = NoReg
  BY <1>3, RegistrationCacheSteps
<1> QED
  BY <1>3, <1>5, <1>6, SweepHolds

\* Every step keeps the types, and what a pass hands on.
LEMMA TypesKept ==
    ASSUME TypeOK, PassInv, [Next]_vars
    PROVE  TypeOK' /\ PassInv'
<1>1. CASE \E s \in Sessions : Deliver(s)
  BY <1>1, DeliverTypes
<1>2. CASE WorkerStep
  BY <1>2, WorkerTypes
<1>3. CASE Environment \/ Tick \/ SweepStep
  BY <1>3, EnvironmentTypes
<1>4. CASE UNCHANGED vars
  BY <1>4 DEF vars, TypeOK, PassInv
<1> QED
  BY <1>1, <1>2, <1>3, <1>4 DEF Next

\* No step but an edit of the TTL gives a grant a second expiry.
LEMMA TermsKept ==
    ASSUME TypeOK, PassInv, GuardInv, Behind, PassBehind, Unborn, Terms, [Next]_vars,
           "editTTL" \notin Faults
    PROVE  Terms'
<1> SUFFICES ASSUME NEW s \in Sessions PROVE \E e \in Nat : OneExpiry(s, e)'
  BY DEF Terms
<1>a. /\ w.s \in Sessions /\ now \in Nat /\ now' \in Nat
      /\ sess'[s].created \in Nat /\ sess'[s].ttl \in Nat
  <2>1. TypeOK'
    BY TypesKept
  <2> QED
    BY <2>1, ConstantsAssumption DEF TypeOK, Worker, Grant
<1>b. \A g \in Gateways :
         /\ reg'[s][g] = reg[s][g] \/ Published(s, g) \/ Revoked(s, g)
         /\ <<s, g>> \in sweep' => \/ <<s, g>> \in sweep
                                   \/ regSeen[s][g] # NoReg /\ regSeen[s][g].exp <= now
  BY RegistrationSteps, SweepHolds
<1>1. ASSUME Opens(s) PROVE \E e \in Nat : OneExpiry(s, e)'
  <2>1. PICK e \in Nat : e = expiryFor(sess'[s])
    BY <1>a DEF expiryFor
  <2>2. /\ w' = w /\ seen'[s].st = "none" /\ sess[s].st = "none"
        /\ UNCHANGED <<reg, regSeen, sweep>>
    BY <1>1 DEF Opens, Behind
  <2>3. ~(w'.s = s /\ w'.pc # "idle")
    BY <2>2 DEF PassBehind
  <2>4. \A g \in Gateways : reg'[s][g] = NoReg /\ regSeen'[s][g] = NoReg /\ <<s, g>> \notin sweep'
    BY <2>2 DEF Unborn
  <2>5. OneExpiry(s, e)'
    BY <2>1, <2>2, <2>3, <2>4 DEF OneExpiry, Present, Publishing
  <2> QED
    BY <2>5
<1>2. ASSUME ~Opens(s), NEW e \in Nat, OneExpiry(s, e) PROVE OneExpiry(s, e)'
  <2>1. sess'[s].st \in Present => expiryFor(sess'[s]) = e
    <3>1. sess'[s] = sess[s] \/ Opens(s) \/ Closes(s) \/ Amends(s) \/ Reports(s)
      BY GrantSteps
    <3> QED
      BY <1>2, <3>1 DEF Closes, Amends, Reports, Present, OneExpiry
  <2>2. seen'[s].st \in Present => expiryFor(seen'[s]) = e
    BY <1>2, CacheSteps DEF OneExpiry
  <2>3. w'.s = s /\ w'.pc \in Publishing \union {"finalizer"} => expiryFor(w'.snap) = e
    <3>1. CASE w' = w
      BY <1>2, <3>1 DEF OneExpiry
    <3>2. CASE w'.pc = "idle"
      BY <3>2 DEF Publishing
    <3>3. ASSUME NEW x \in Sessions, Starts(x), w'.s = s,
                 w'.pc \in Publishing \union {"finalizer"}
          PROVE  expiryFor(w'.snap) = e
      BY <1>2, <3>3 DEF Starts, OneExpiry, Present, Publishing
    <3>4. CASE GoesOn
      BY <1>2, <3>4 DEF GoesOn, OneExpiry
    <3> QED
      BY <3>1, <3>2, <3>3, <3>4, PassMoves
  <2>4. ASSUME NEW g \in Gateways
        PROVE  /\ reg'[s][g] # NoReg => reg'[s][g].exp = e
               /\ regSeen'[s][g] # NoReg => regSeen'[s][g].exp = e
               /\ <<s, g>> \in sweep' => e <= now'
    <3>1. Published(s, g) => reg'[s][g].exp = e
      BY <1>2 DEF Published, ensureRegistration, OneExpiry, Publishing
    <3>2. reg'[s][g] # NoReg => reg'[s][g].exp = e
      BY <1>2, <1>b, <3>1 DEF Revoked, OneExpiry
    <3>3. regSeen'[s][g] # NoReg => regSeen'[s][g].exp = e
      BY <1>2, RegistrationCacheSteps DEF OneExpiry
    <3>4. <<s, g>> \in sweep' => e <= now
      BY <1>2, <1>b DEF OneExpiry
    <3> QED
      BY <1>a, <3>2, <3>3, <3>4, ClockSteps
  <2> QED
    BY <2>1, <2>2, <2>3, <2>4 DEF OneExpiry
<1>3. PICK e \in Nat : OneExpiry(s, e)
  BY DEF Terms
<1> QED
  BY <1>1, <1>2, <1>3

\* While nobody edits a TTL, a grant has one expiry for good.
LEMMA TermsStand ==
    ASSUME "editTTL" \notin Faults
    PROVE  Spec => [](PassBehind /\ Unborn /\ Terms)
<1> DEFINE Told == PassBehind /\ Unborn /\ Terms
<1>1. Init => Told
  <2> SUFFICES ASSUME Init PROVE Told
    OBVIOUS
  <2>1. \A s \in Sessions : sess[s] = Absent /\ seen[s] = Absent
    BY DEF Init
  <2>2. w.pc = "idle" /\ sweep = {}
    BY IdleWorkerType DEF Init
  <2>3. \A s \in Sessions, g \in Gateways : reg[s][g] = NoReg /\ regSeen[s][g] = NoReg
    BY DEF Init
  <2>4. \A s \in Sessions : OneExpiry(s, 0)
    BY <2>1, <2>2, <2>3, GrantTypes DEF OneExpiry, Present, Publishing
  <2> QED
    BY <2>2, <2>3, <2>4 DEF PassBehind, Unborn, Terms, Removing
<1>2. TypeOK /\ PassInv /\ GuardInv /\ Behind /\ Told /\ [Next]_vars => Told'
  BY PassBehindKept, UnbornKept, TermsKept
<1> QED
  BY <1>1, <1>2, TypeCorrect, RegistrationsGuarded, NoneStranded, PTL DEF Spec

\* While nobody edits a TTL, a sweep deletes only registrations that have expired
\* when it deletes them, however long ago it listed them and from however stale a
\* cache: every version of a registration carries the one expiry its grant was
\* created with (expiryFor counts from the creation), so what was expired when it
\* was listed is expired still.
THEOREM SweepHarmless ==
    ASSUME "editTTL" \notin Faults
    PROVE  Spec => SweepSparesLiveKeys
<1>1. TypeOK /\ Terms /\ [Next]_vars =>
         [\A s \in Sessions, g \in Gateways :
             sweep' # sweep /\ reg[s][g] # NoReg /\ reg'[s][g] = NoReg
                 => reg[s][g].exp <= now]_vars
  <2> SUFFICES ASSUME TypeOK, Terms, [Next]_vars, NEW s \in Sessions, NEW g \in Gateways,
                      sweep' # sweep, reg[s][g] # NoReg, reg'[s][g] = NoReg
               PROVE  reg[s][g].exp <= now
    OBVIOUS
  <2>1. PICK e \in Nat : OneExpiry(s, e)
    BY DEF Terms
  <2>2. reg[s][g].exp = e
    BY <2>1 DEF OneExpiry
  <2>3. <<s, g>> \in sweep
    <3>1. CASE SweepStep
      <4>1. ~SweepList
        BY DEF SweepList, apiVars
      <4>2. PICK x \in Sessions, h \in Gateways : SweepDelete(x, h)
        BY <3>1, <4>1 DEF SweepStep
      <4>3. UNCHANGED reg \/ reg' = [reg EXCEPT ![x] = [reg[x] EXCEPT ![h] = NoReg]]
        BY <4>2 DEF SweepDelete
      <4>4. x = s /\ h = g
        <5>1. reg \in [Sessions -> [Gateways -> Registration \union {NoReg}]]
          BY DEF TypeOK
        <5>2. reg'[s][g] # reg[s][g]
          OBVIOUS
        <5>3. reg'[s] = IF x = s THEN [reg[s] EXCEPT ![h] = NoReg] ELSE reg[s]
          BY <4>3, <5>1, <5>2
        <5>4. x = s /\ reg'[s] = [reg[s] EXCEPT ![h] = NoReg]
          BY <5>2, <5>3
        <5> QED
          BY <5>1, <5>2, <5>4
      <4> QED
        BY <4>2, <4>4 DEF SweepDelete
    <3>2. CASE Restart
      BY <3>2 DEF Restart
    <3>3. CASE Environment /\ ~Restart
      <4>1. UNCHANGED sweep
        BY <3>3, Zenon DEF Environment, CreateSession, EditTTL, DeleteSession, ForceDelete,
           EndSessionNamespace, CollectSecret, TamperSecret, CatalogChange, PlatformDelete,
           PlatformMove, GatewayNamespaceGone, OperatorIdle
      <4> QED
        BY <4>1
    <3>4. CASE Tick \/ UNCHANGED vars \/ \E x \in Sessions : Deliver(x)
      BY <3>4 DEF Tick, vars, OperatorIdle, Deliver, DeliverSession, DeliverNamespace,
         DeliverSecret, DeliverRegistration
    <3>5. CASE WorkerStep
      BY <3>5, WorkerLeavesSweep
    <3> QED
      BY <3>1, <3>2, <3>3, <3>4, <3>5 DEF Next
  <2> QED
    BY <2>1, <2>2, <2>3 DEF OneExpiry
<1> QED
  BY <1>1, TypeCorrect, TermsStand, PTL DEF Spec, SweepSparesLiveKeys

--------------------------------------------------------------------------------
(***************************************************************************)
(* Ready means served.                                                      *)
(***************************************************************************)

Keyed(obj) == obj # NoSecret /\ obj.key # NoKey

\* A Secret without the operator's label was made by somebody else, empty.
Plain(obj) == obj # NoSecret /\ ~obj.labelled => obj.key = NoKey /\ obj.url = NoGateway

Labelled == \A s \in Sessions : Plain(secret[s]) /\ Plain(secretSeen[s])

\* A cache that shows another key than the Secret has, or another address of it,
\* has the event that will wake the grant ahead of it.
Noticed ==
    \A s \in Sessions :
        secretSeen[s] # secret[s] /\ (Keyed(secret[s]) \/ Keyed(secretSeen[s])) => secretEvent[s]

Rewritten(s) ==
    /\ UNCHANGED <<seen, secretSeen>>
    /\ secretEvent'[s] = (\/ secretEvent[s] \/ mapSecretToSession(s, secret[s])
                          \/ mapSecretToSession(s, secret'[s]))
    /\ Plain(secret[s]) => Plain(secret'[s])

\* A Secret stays as it is or is rewritten under the watch; the cache stays as it
\* is or catches up, and only then is an event delivered.
LEMMA SecretSteps ==
    ASSUME TypeOK, PassInv, [Next]_vars, NEW s \in Sessions
    PROVE  /\ secret'[s] = secret[s] \/ Rewritten(s)
           /\ \/ secretSeen'[s] = secretSeen[s] /\ (secretEvent[s] => secretEvent'[s])
              \/ secretSeen'[s] = secret[s] /\ secret'[s] = secret[s]
<1> DEFINE Goal == /\ secret'[s] = secret[s] \/ Rewritten(s)
                   /\ \/ secretSeen'[s] = secretSeen[s] /\ (secretEvent[s] => secretEvent'[s])
                      \/ secretSeen'[s] = secret[s] /\ secret'[s] = secret[s]
<1>a. /\ secret \in [Sessions -> Secret \union {NoSecret}]
      /\ secretSeen \in [Sessions -> Secret \union {NoSecret}]
      /\ secretEvent \in [Sessions -> BOOLEAN]
      /\ w.s \in Sessions
  BY DEF TypeOK, Worker
<1>1. ASSUME NEW STATE x, x \in Sessions, NEW STATE obj, SetSecret(x, obj),
             UNCHANGED <<seen, secretSeen>>, Plain(secret[x]) => Plain(obj)
      PROVE  Goal
  <2>1. CASE x = s
    <3>1. secret'[s] = obj
      BY <1>1, <1>a, <2>1 DEF SetSecret
    <3>2. secretEvent'[s] = (\/ secretEvent[s] \/ mapSecretToSession(s, secret[s])
                             \/ mapSecretToSession(s, obj))
      BY <1>1, <1>a, <2>1 DEF SetSecret, mapSecretToSession
    <3>3. Rewritten(s)
      BY <1>1, <2>1, <3>1, <3>2 DEF Rewritten
    <3> QED
      BY <1>1, <3>2, <3>3
  <2>2. CASE x # s
    BY <1>1, <1>a, <2>2 DEF SetSecret
  <2> QED
    BY <2>1, <2>2
<1>2. ASSUME UNCHANGED secretVars, secretSeen'[s] = secretSeen[s] PROVE Goal
  BY <1>2 DEF secretVars
<1>3. ASSUME updateSecretURL PROVE Goal
  <2>1. CASE UNCHANGED secretVars
    BY <1>2, <1>3, <2>1 DEF updateSecretURL, caches
  <2>2. CASE /\ secret[w.s] = w.live
             /\ SetSecret(w.s, [secret[w.s] EXCEPT !.url = w.url])
    <3>1. secret[w.s] # NoSecret /\ secret[w.s].key # NoKey
      BY <1>3, <2>2 DEF updateSecretURL, PassInv
    <3>2. secret[w.s] \in Secret
      BY <1>a, <3>1
    <3>3. [secret[w.s] EXCEPT !.url = w.url].labelled = secret[w.s].labelled
      BY <3>2 DEF Secret
    <3>4. Plain(secret[w.s]) => Plain([secret[w.s] EXCEPT !.url = w.url])
      BY <3>1, <3>3 DEF Plain
    <3>5. UNCHANGED <<seen, secretSeen>>
      BY <1>3 DEF updateSecretURL, caches
    <3> QED
      BY <1>1, <1>a, <2>2, <3>4, <3>5
  <2> QED
    BY <1>3, <2>1, <2>2, Zenon DEF updateSecretURL
<1>4. ASSUME writeSecret PROVE Goal
  <2>1. CASE UNCHANGED secretVars
    BY <1>2, <1>4, <2>1 DEF writeSecret, caches
  <2>2. ASSUME NEW STATE obj, obj.labelled = TRUE, SetSecret(w.s, obj) PROVE Goal
    BY <1>1, <1>4, <1>a, <2>2 DEF writeSecret, caches, Plain
  <2>3. \/ UNCHANGED secretVars
        \/ SetSecret(w.s, [key |-> w.key, url |-> w.url, owned |-> w.owned, labelled |-> TRUE])
        \/ SetSecret(w.s, [key |-> w.key, url |-> w.url, owned |-> w.live.owned,
                           labelled |-> TRUE])
    BY <1>4, Zenon DEF writeSecret
  <2> QED
    BY <2>1, <2>2, <2>3
<1>5. ASSUME NEW x \in Sessions, CollectSecret(x) PROVE Goal
  BY <1>1, <1>5 DEF CollectSecret, OperatorIdle, caches, Plain
<1>6. ASSUME NEW x \in Sessions, TamperSecret(x) PROVE Goal
  <2>1. UNCHANGED <<seen, secretSeen>>
    BY <1>6 DEF TamperSecret, OperatorIdle, caches
  <2>2. CASE SetSecret(x, NoSecret)
    BY <1>1, <2>1, <2>2 DEF Plain
  <2>3. CASE secret[x] # NoSecret /\ SetSecret(x, [secret[x] EXCEPT !.key = NoKey])
    <3>1. secret[x] \in Secret
      BY <1>a, <2>3
    <3>2. Plain(secret[x]) => Plain([secret[x] EXCEPT !.key = NoKey])
      BY <2>3, <3>1 DEF Plain, Secret
    <3> QED
      BY <1>1, <2>1, <2>3, <3>2
  <2>4. CASE SetSecret(x, [key |-> NoKey, url |-> NoGateway, owned |-> FALSE,
                           labelled |-> FALSE])
    BY <1>1, <2>1, <2>4 DEF Plain
  <2> QED
    BY <1>6, <2>2, <2>3, <2>4, Zenon DEF TamperSecret
<1>7. ASSUME \/ AddFinalizer \/ resolveCatalog \/ readSecret \/ checkEnding
             \/ (\E k \in Keys : mintKey(k)) \/ ensureRegistration \/ recordOwner
             \/ updateSessionStatus \/ gatewayNamespaceForTeardown \/ removeRegistration
             \/ releaseSessionFinalizer
             \/ \E x \in Sessions, readable \in BOOLEAN : Reconcile(x, readable)
      PROVE  UNCHANGED secretVars /\ secretSeen'[s] = secretSeen[s]
  BY <1>7 DEF AddFinalizer, resolveCatalog, readSecret, checkEnding, mintKey, ensureRegistration,
     recordOwner, updateSessionStatus, gatewayNamespaceForTeardown, removeRegistration,
     releaseSessionFinalizer, Reconcile, apiVars, caches, secretVars
<1>8. ASSUME NEW x \in Sessions, DeliverSecret(x) PROVE Goal
  BY <1>8, <1>a DEF DeliverSecret
<1>9. ASSUME NEW x \in Sessions, DeliverSession(x) \/ DeliverNamespace(x) \/ DeliverRegistration(x)
      PROVE  UNCHANGED secretVars /\ secretSeen'[s] = secretSeen[s]
  BY <1>9 DEF DeliverSession, DeliverNamespace, DeliverRegistration, apiVars, secretVars
<1>10. ASSUME Restart PROVE Goal
  BY <1>10 DEF Restart
<1>11. ASSUME \/ \E x \in Sessions :
                 \/ \E ttl \in TTLs : CreateSession(x, ttl) \/ EditTTL(x, ttl)
                 \/ DeleteSession(x) \/ ForceDelete(x) \/ EndSessionNamespace(x)
              \/ CatalogChange \/ PlatformDelete \/ Tick \/ SweepStep \/ UNCHANGED vars
              \/ \E g \in Gateways : PlatformMove(g) \/ GatewayNamespaceGone(g)
       PROVE  UNCHANGED secretVars /\ secretSeen'[s] = secretSeen[s]
  <2>1. secretSeen' = secretSeen
    BY <1>11, OthersQueue, Zenon
  <2>2. UNCHANGED secretVars
    BY <1>11 DEF CreateSession, EditTTL, DeleteSession, ForceDelete, EndSessionNamespace,
       CatalogChange, PlatformDelete, Tick, SweepStep, SweepList, SweepDelete, PlatformMove,
       GatewayNamespaceGone, vars, secretVars, apiVars
  <2> QED
    BY <2>1, <2>2
<1> QED
  <2>1. CASE WorkerStep
    BY <2>1, <1>2, <1>3, <1>4, <1>7, Zenon DEF WorkerStep
  <2>2. CASE \E x \in Sessions : Deliver(x)
    BY <2>2, <1>2, <1>8, <1>9, Zenon DEF Deliver
  <2>3. CASE Environment \/ Tick \/ SweepStep \/ UNCHANGED vars
    BY <2>3, <1>2, <1>5, <1>6, <1>10, <1>11, Zenon DEF Environment
  <2> QED
    BY <2>1, <2>2, <2>3 DEF Next

\* Nobody rewrites a key unnoticed.
LEMMA NoticedKept ==
    ASSUME TypeOK, PassInv, Labelled, Noticed, [Next]_vars
    PROVE  Labelled' /\ Noticed'
<1> SUFFICES ASSUME NEW s \in Sessions
             PROVE  /\ Plain(secret'[s]) /\ Plain(secretSeen'[s])
                    /\ secretSeen'[s] # secret'[s] /\ (Keyed(secret'[s]) \/ Keyed(secretSeen'[s]))
                          => secretEvent'[s]
  BY DEF Labelled, Noticed
<1>1. Plain(secret[s]) /\ Plain(secretSeen[s])
  BY DEF Labelled
<1>2. Plain(secret'[s]) /\ Plain(secretSeen'[s])
  BY <1>1, SecretSteps DEF Rewritten
<1>3. Rewritten(s) /\ (Keyed(secret[s]) \/ Keyed(secret'[s])) => secretEvent'[s]
  BY <1>1, <1>2 DEF Rewritten, Keyed, Plain, mapSecretToSession
<1>4. secretSeen[s] # secret[s] /\ (Keyed(secret[s]) \/ Keyed(secretSeen[s])) => secretEvent[s]
  BY DEF Noticed
<1> QED
  BY <1>2, <1>3, <1>4, SecretSteps

\* The step that moves a pass on is that of the place it has come to.
LEMMA StepAt ==
    ASSUME TypeOK, [Next]_vars, w' # w, w'.pc # "idle", w.pc # "idle"
    PROVE  /\ Current
           /\ w.pc = "catalog" => resolveCatalog
           /\ w.pc = "secret" => readSecret
           /\ w.pc = "url" => updateSecretURL
           /\ w.pc = "ending" => checkEnding
           /\ w.pc = "owner" => \E k \in Keys : mintKey(k)
           /\ w.pc = "write" => writeSecret
           /\ w.pc = "register" => ensureRegistration
           /\ w.pc = "record" => recordOwner
           /\ w.pc \in Removing => w'.pc \in Removing
           /\ w.pc = "finalizer" => w'.pc = "catalog"
           /\ w.pc # "status"
<1>1. WorkerStep /\ Current
  <2>1. ASSUME NEW x \in Sessions, Deliver(x) PROVE w' = w
    BY <2>1 DEF Deliver, DeliverSession, DeliverNamespace, DeliverSecret, DeliverRegistration
  <2>2. ASSUME Restart PROVE w'.pc = "idle"
    BY <2>2, IdleWorkerType DEF Restart
  <2>3. ASSUME \/ \E x \in Sessions :
                   \/ \E ttl \in TTLs : CreateSession(x, ttl) \/ EditTTL(x, ttl)
                   \/ DeleteSession(x) \/ ForceDelete(x) \/ EndSessionNamespace(x)
                   \/ CollectSecret(x) \/ TamperSecret(x)
               \/ CatalogChange \/ PlatformDelete \/ Tick \/ SweepStep \/ UNCHANGED vars
               \/ \E g \in Gateways : PlatformMove(g) \/ GatewayNamespaceGone(g)
        PROVE  w' = w
    <3>1. w.s \in Sessions
      BY DEF TypeOK, Worker
    <3> QED
      BY <2>3, <3>1, OthersQueue
  <2> QED
    BY <2>1, <2>2, <2>3, Zenon DEF Next, Environment
<1>2. /\ w \in Worker
      /\ \A requeue \in BOOLEAN : ~Finish(requeue)
  BY IdleWorkerType DEF Finish, TypeOK
<1>3. ASSUME gatewayNamespaceForTeardown \/ removeRegistration
      PROVE  w.pc \in {"lookup", "remove"} /\ w'.pc \in Removing
  <2>1. /\ w.pc \in {"lookup", "remove"}
        /\ \/ w' = [w EXCEPT !.pc = "remove", !.ns = platform]
           \/ w' = [w EXCEPT !.pc = "release", !.ns = NoGateway]
           \/ w' = [w EXCEPT !.pc = "release"]
    BY <1>2, <1>3 DEF gatewayNamespaceForTeardown, removeRegistration
  <2> QED
    BY <1>2, <2>1 DEF Worker, Removing
<1>4. ASSUME AddFinalizer PROVE w.pc = "finalizer" /\ w'.pc = "catalog"
  BY <1>2, <1>4 DEF AddFinalizer, Worker
<1>5. ~updateSessionStatus /\ ~releaseSessionFinalizer
  <2>1. w.requeue \in BOOLEAN
    BY <1>2 DEF Worker
  <2> QED
    BY <1>2, <2>1 DEF updateSessionStatus, releaseSessionFinalizer
<1>6. \A x \in Sessions, readable \in BOOLEAN : ~Reconcile(x, readable)
  BY DEF Reconcile
<1>7. /\ resolveCatalog => w.pc = "catalog"
      /\ readSecret => w.pc = "secret"
      /\ updateSecretURL => w.pc = "url"
      /\ checkEnding => w.pc = "ending"
      /\ \A k \in Keys : mintKey(k) => w.pc = "owner"
      /\ writeSecret => w.pc = "write"
      /\ ensureRegistration => w.pc = "register"
      /\ recordOwner => w.pc = "record"
  BY DEF resolveCatalog, readSecret, updateSecretURL, checkEnding, mintKey, writeSecret,
         ensureRegistration, recordOwner
<1>8. \/ resolveCatalog \/ readSecret \/ updateSecretURL \/ checkEnding
      \/ (\E k \in Keys : mintKey(k)) \/ writeSecret \/ ensureRegistration \/ recordOwner
      \/ AddFinalizer \/ gatewayNamespaceForTeardown \/ removeRegistration
  BY <1>1, <1>5, <1>6, Zenon DEF WorkerStep
<1> QED
  BY <1>1, <1>3, <1>4, <1>7, <1>8 DEF Removing

\* The key a pass goes on to register is the one the cache of the Secret showed,
\* or the one the Secret now holds.
LEMMA RegisterSteps ==
    ASSUME TypeOK, PassInv, [Next]_vars, w'.pc = "register", w' # w
    PROVE  /\ w'.s = w.s /\ w.pc \in {"secret", "url", "write"}
           /\ \/ /\ Keyed(secretSeen[w.s]) /\ w'.key = secretSeen[w.s].key
                 /\ UNCHANGED <<secret, secretSeen, secretEvent>>
                 /\ secretSeen[w.s].url = w.url \/ (w.pc = "write" /\ w.live = NoSecret)
              \/ /\ secret'[w.s] # NoSecret /\ secret'[w.s].key = w'.key
                 /\ secret'[w.s].url = w.url
<1>a. w \in Worker /\ w.s \in Sessions
  BY DEF TypeOK, Worker
<1>1. w.pc # "idle"
  <2>1. \A s \in Sessions : ~Starts(s)
    BY DEF Starts
  <2> QED
    BY <2>1, PassMoves DEF GoesOn
<1>2. readSecret \/ updateSecretURL \/ writeSecret
  <2>1. /\ ~resolveCatalog /\ ~checkEnding /\ (\A k \in Keys : ~mintKey(k))
        /\ ~ensureRegistration /\ ~recordOwner
    <3>1. /\ \A requeue \in BOOLEAN : ~Finish(requeue)
          /\ \A status, requeue : requeue \in BOOLEAN => ~Report(status, requeue)
          /\ ~Failed
      BY IdleWorkerType, ReportSays, FailedSays DEF Finish
    <3>2. ~resolveCatalog
      BY <1>a, <3>1 DEF resolveCatalog, Worker
    <3>3. ~checkEnding
      BY <1>a, <3>1 DEF checkEnding, Worker
    <3>4. \A k \in Keys : ~mintKey(k)
      BY <1>a, <3>1 DEF mintKey, Worker
    <3>5. ~ensureRegistration
      BY <1>a, <3>1 DEF ensureRegistration, Worker
    <3>6. ~recordOwner
      BY <1>a, <3>1 DEF recordOwner, Worker
    <3> QED
      BY <3>2, <3>3, <3>4, <3>5, <3>6
  <2>2. w.pc \in {"catalog", "secret", "url", "ending", "owner", "write", "register", "record",
                  "finalizer", "status", "lookup", "remove", "release"}
    BY <1>1, <1>a DEF Worker
  <2> QED
    BY <1>1, <2>1, <2>2, StepAt DEF Removing
<1>b. ~Failed
  BY FailedSays
<1>3. CASE readSecret
  <2>1. /\ Keyed(secretSeen[w.s]) /\ w' = [w EXCEPT !.pc = "register", !.key = secretSeen[w.s].key]
        /\ w.pc = "secret" /\ secretSeen[w.s].url = w.url
    BY <1>3, <1>a, <1>b DEF readSecret, Keyed, Worker
  <2>2. UNCHANGED <<secret, secretSeen, secretEvent>>
    BY <1>3 DEF readSecret, apiVars, caches
  <2> QED
    BY <1>a, <2>1, <2>2 DEF Worker
<1>4. CASE updateSecretURL
  <2>1. /\ secret[w.s] = w.live /\ SetSecret(w.s, [secret[w.s] EXCEPT !.url = w.url])
        /\ w' = [w EXCEPT !.pc = "register", !.key = w.live.key, !.live = NoSecret]
        /\ w.pc = "url" /\ w.live # NoSecret
    BY <1>4, <1>b DEF updateSecretURL, PassInv
  <2>2. secret[w.s] \in Secret
    BY <1>a, <2>1 DEF TypeOK
  <2> DEFINE redirected == [secret[w.s] EXCEPT !.url = w.url]
  <2>3. redirected \in Secret /\ redirected.key = w.live.key /\ redirected.url = w.url
    BY <1>a, <2>1, <2>2 DEF Secret, Worker
  <2>4. secret'[w.s] = redirected
    BY <1>a, <2>1 DEF SetSecret, TypeOK
  <2>5. redirected # NoSecret
    BY <2>3, ConstantsAssumption DEF Secret
  <2> HIDE DEF redirected
  <2> QED
    BY <1>a, <2>1, <2>3, <2>4, <2>5 DEF Worker
<1>5. CASE writeSecret
  <2> DEFINE made(owned) == [key |-> w.key, url |-> w.url, owned |-> owned, labelled |-> TRUE]
  <2>1. w.pc = "write" /\ w.key \in Keys /\ w.url \in Gateways \union {NoGateway}
    BY <1>5, <1>a DEF writeSecret, PassInv, Worker
  <2>2. \/ /\ Keyed(secretSeen[w.s]) /\ UNCHANGED secretVars /\ w.live = NoSecret
           /\ w' = [w EXCEPT !.pc = "register", !.key = secretSeen[w.s].key,
                             !.live = NoSecret, !.owned = FALSE]
        \/ \E owned \in BOOLEAN :
              /\ SetSecret(w.s, made(owned))
              /\ w' = [w EXCEPT !.pc = "register", !.key = w.key,
                                !.live = NoSecret, !.owned = FALSE]
    <3>1. w.owned \in BOOLEAN /\ (w.live # NoSecret => w.live.owned \in BOOLEAN)
      BY <1>a DEF Worker, Secret
    <3> QED
      BY <1>5, <1>b, <3>1 DEF writeSecret, Keyed
  <2>3. UNCHANGED secretSeen
    BY <1>5 DEF writeSecret, caches
  <2>4. ASSUME NEW owned \in BOOLEAN, SetSecret(w.s, made(owned))
        PROVE  secret'[w.s] # NoSecret /\ secret'[w.s].key = w.key /\ secret'[w.s].url = w.url
    <3>1. made(owned) \in Secret
      BY <2>1 DEF Secret
    <3>2. secret'[w.s] = made(owned)
      BY <1>a, <2>4 DEF SetSecret, TypeOK
    <3>3. NoSecret \notin Secret
      BY ConstantsAssumption DEF Secret
    <3>4. made(owned).key = w.key /\ made(owned).url = w.url
      OBVIOUS
    <3> HIDE DEF made
    <3> QED
      BY <3>1, <3>2, <3>3, <3>4
  <2> QED
    BY <1>a, <2>1, <2>2, <2>3, <2>4 DEF Worker, secretVars
<1> QED
  BY <1>2, <1>3, <1>4, <1>5

\* A gateway namespace stays while its platform cannot be deleted, or is not its.
GatewaysStay == "platformDelete" \notin Faults \/ Gateways \subseteq External

Standing == \A g \in Gateways : gwNs[g] = "active"

\* A grant whose key has still to be honoured; and one whose key is.
Due(s) == sess[s].st = "live" /\ expiryFor(sess[s]) > now

Served(s) ==
    /\ Keyed(secret[s])
    /\ \E g \in Gateways : reg[s][g] = [hash |-> Hash(secret[s].key), exp |-> expiryFor(sess[s])]

\* The pass registers the key the Secret holds, unless the grant will be woken.
PassKey ==
    w.pc = "register" => (secret[w.s] # NoSecret /\ secret[w.s].key = w.key) \/ Woken(w.s)

\* The pass is about to report Ready.
Reporting == w.pc = "record" \/ (w.pc = "status" /\ w.snap.status.phase = "Ready")

PassServed == Reporting /\ Due(w.s) => Served(w.s) \/ Woken(w.s)

AllServed ==
    \A s \in Sessions : Due(s) /\ sess[s].status.phase = "Ready"
        => Served(s) \/ Woken(s) \/ Attending(s)

\* Facts of the model as a whole that the rest of the argument builds on.
Ground ==
    /\ TypeOK /\ PassInv /\ GuardInv /\ Behind /\ PassBehind /\ Terms
    /\ Labelled /\ Noticed

\* A gateway namespace does not go by itself.
LEMMA StandingKept ==
    ASSUME GatewaysStay, TypeOK, Standing, [Next]_vars
    PROVE  Standing'
<1>1. CASE WorkerStep
  BY <1>1 DEF WorkerStep, Reconcile, AddFinalizer, resolveCatalog, readSecret, updateSecretURL,
     checkEnding, mintKey, writeSecret, ensureRegistration, recordOwner, updateSessionStatus,
     gatewayNamespaceForTeardown, removeRegistration, releaseSessionFinalizer, apiVars, Standing
<1>2. CASE \E s \in Sessions : Deliver(s)
  BY <1>2 DEF Deliver, DeliverSession, DeliverNamespace, DeliverSecret, DeliverRegistration,
     apiVars, Standing
<1>3. CASE PlatformDelete
  <2>1. Gateways \subseteq External
    BY <1>3 DEF PlatformDelete, GatewaysStay
  <2>2. platform \in External
    BY <1>3, <2>1 DEF PlatformDelete, TypeOK
  <2> QED
    BY <1>3, <2>2 DEF PlatformDelete, Standing, TypeOK
<1>4. ASSUME NEW g \in Gateways, GatewayNamespaceGone(g) PROVE FALSE
  BY <1>4 DEF GatewayNamespaceGone, Standing
<1>5. CASE \/ \E x \in Sessions :
                 \/ \E ttl \in TTLs : CreateSession(x, ttl) \/ EditTTL(x, ttl)
                 \/ DeleteSession(x) \/ ForceDelete(x) \/ EndSessionNamespace(x)
                 \/ CollectSecret(x) \/ TamperSecret(x)
           \/ CatalogChange \/ Tick \/ SweepStep \/ UNCHANGED vars \/ Restart
           \/ \E g \in Gateways : PlatformMove(g)
  BY <1>5 DEF CreateSession, EditTTL, DeleteSession, ForceDelete, EndSessionNamespace,
     CollectSecret, TamperSecret, CatalogChange, Tick, SweepStep, SweepList, SweepDelete,
     PlatformMove, Restart, vars, apiVars, Standing
<1> QED
  BY <1>1, <1>2, <1>3, <1>4, <1>5, Zenon DEF Next, Environment

\* The key being registered stays the Secret's, or the grant is woken.
LEMMA PassKeyKept ==
    ASSUME Ground, PassKey, [Next]_vars
    PROVE  PassKey'
<1> USE DEF Ground
<1> SUFFICES ASSUME w'.pc = "register"
             PROVE  (secret'[w'.s] # NoSecret /\ secret'[w'.s].key = w'.key) \/ Woken(w.s)'
  BY DEF PassKey
<1>a. w.s \in Sessions
  BY DEF TypeOK, Worker
<1>1. CASE w' = w
  <2>1. w.key # NoKey
    BY <1>1 DEF PassInv
  <2>2. Woken(w.s) => Woken(w.s)'
    <3>1. ASSUME NEW s \in Sessions, s = w.s, Woken(s) PROVE Woken(s)'
      BY <1>1, <3>1, WorkKept
    <3> QED
      BY <1>a, <1>1, <3>1 DEF Woken
  <2>3. ASSUME secret[w.s] # NoSecret, secret[w.s].key = w.key, secret'[w.s] # secret[w.s]
        PROVE  secretEvent'[w.s]
    <3>1. Rewritten(w.s)
      BY <1>a, <2>3, SecretSteps
    <3>2. secret[w.s].labelled
      BY <1>a, <2>1, <2>3 DEF Labelled, Plain
    <3> QED
      BY <2>3, <3>1, <3>2 DEF Rewritten, mapSecretToSession
  <2> QED
    BY <1>1, <2>2, <2>3 DEF PassKey, Woken
<1>2. CASE w' # w
  <2>1. w'.s = w.s
    BY <1>2, RegisterSteps
  <2>2. CASE secret'[w.s] # NoSecret /\ secret'[w.s].key = w'.key
    BY <2>1, <2>2
  <2>3. CASE /\ Keyed(secretSeen[w.s]) /\ w'.key = secretSeen[w.s].key
             /\ UNCHANGED <<secret, secretSeen, secretEvent>>
    <3>1. CASE secretSeen[w.s] = secret[w.s]
      BY <2>1, <2>3, <3>1 DEF Keyed
    <3>2. CASE secretSeen[w.s] # secret[w.s]
      <4>1. secretEvent'[w.s]
        BY <1>a, <2>3, <3>2 DEF Noticed
      <4> QED
        BY <2>1, <4>1 DEF Woken
    <3> QED
      BY <3>1, <3>2
  <2> QED
    BY <1>2, <2>2, <2>3, RegisterSteps
<1> QED
  BY <1>1, <1>2

\* A grant whose key has to be honoured had to be before, to the same moment,
\* unless it has just been created.
LEMMA DueKept ==
    ASSUME "editTTL" \notin Faults, TypeOK, PassInv, GuardInv, [Next]_vars,
           NEW s \in Sessions, Due(s)', ~Opens(s)
    PROVE  Due(s) /\ expiryFor(sess'[s]) = expiryFor(sess[s])
<1>1. sess'[s] = sess[s] \/ Closes(s) \/ Amends(s) \/ Reports(s)
  BY GrantSteps
<1>2. sess'[s].st = "live" /\ expiryFor(sess'[s]) > now'
  BY DEF Due
<1>3. sess[s].st = "live" /\ expiryFor(sess'[s]) = expiryFor(sess[s])
  BY <1>1, <1>2 DEF Closes, Amends, Reports
<1>4. now <= now' /\ now \in Nat /\ now' \in Nat /\ expiryFor(sess[s]) \in Nat
  <2>1. now <= now'
    BY ClockSteps
  <2>2. TypeOK'
    BY TypesKept
  <2>3. sess[s].created \in Nat /\ sess[s].ttl \in Nat
    BY ConstantsAssumption DEF TypeOK, Grant
  <2> QED
    BY <2>1, <2>2, <2>3 DEF TypeOK, expiryFor
<1> QED
  BY <1>2, <1>3, <1>4 DEF Due

\* A key that is served stays served, or the grant is woken: its Secret is not
\* rewritten without an event, and its registration is removed by nobody while it
\* is due.
LEMMA ServedKept ==
    ASSUME "editTTL" \notin Faults, Ground, Standing, PassKey, [Next]_vars,
           NEW s \in Sessions, Served(s), Due(s)', ~Opens(s)
    PROVE  Served(s)' \/ Woken(s)'
<1> USE DEF Ground
<1>a. Due(s) /\ expiryFor(sess'[s]) = expiryFor(sess[s])
  BY DueKept
<1>1. CASE secret'[s] # secret[s]
  <2>1. Rewritten(s) /\ Plain(secret[s]) /\ Keyed(secret[s])
    BY <1>1, SecretSteps DEF Labelled, Served
  <2>2. secretEvent'[s]
    BY <2>1 DEF Rewritten, Plain, Keyed, mapSecretToSession
  <2> QED
    BY <2>2 DEF Woken
<1>2. CASE secret'[s] = secret[s]
  <2>1. PICK g \in Gateways :
           reg[s][g] = [hash |-> Hash(secret[s].key), exp |-> expiryFor(sess[s])]
    BY DEF Served
  <2>2. PICK e \in Nat : OneExpiry(s, e)
    BY DEF Terms
  <2>3. expiryFor(sess[s]) = e /\ e > now
    BY <1>a, <2>2 DEF OneExpiry, Due, Present
  <2>4. ~Revoked(s, g)
    <3>1. ~(w.pc = "remove" /\ w.s = s)
      BY <1>a DEF PassBehind, Removing, Due
    <3>2. <<s, g>> \notin sweep
      <4>1. now \in Nat
        BY DEF TypeOK
      <4> QED
        BY <2>2, <2>3, <4>1 DEF OneExpiry
    <3>3. gwNs[g] # "terminating"
      BY DEF Standing
    <3> QED
      BY <3>1, <3>2, <3>3 DEF Revoked
  <2>5. CASE reg'[s][g] = reg[s][g]
    BY <1>2, <1>a, <2>1, <2>5 DEF Served
  <2>6. CASE Published(s, g)
    <3>1. w.pc = "register" /\ w.s = s
      BY <2>6 DEF Published, ensureRegistration
    <3>2. expiryFor(w.snap) = e
      BY <2>2, <3>1 DEF OneExpiry, Publishing
    <3>3. CASE Woken(s)
      BY <3>1, <3>3, WorkKept
    <3>4. CASE ~Woken(s)
      <4>1. secret[s].key = w.key
        BY <3>1, <3>4 DEF PassKey, Woken
      <4> QED
        BY <1>2, <1>a, <2>3, <2>6, <3>2, <4>1 DEF Published, Served
    <3> QED
      BY <3>3, <3>4
  <2> QED
    BY <2>4, <2>5, <2>6, RegistrationSteps
<1> QED
  BY <1>1, <1>2

\* A pass that is about to report Ready was so before, or has just dealt with the
\* registration.
LEMMA ReportingSteps ==
    ASSUME TypeOK, [Next]_vars, Reporting', w' # w
    PROVE  /\ w'.s = w.s
           /\ Reporting \/ (ensureRegistration /\ Current /\ w'.pc = "record")
<1>1. CASE w'.pc = "status"
  <2>1. recordOwner /\ w.pc = "record" /\ w'.s = w.s
    BY <1>1, StatusWritten DEF Reporting
  <2> QED
    BY <2>1 DEF Reporting
<1>2. CASE w'.pc = "record"
  <2>1. w.pc # "idle" /\ w'.s = w.s
    <3>1. \A s \in Sessions : ~Starts(s)
      BY <1>2 DEF Starts
    <3> QED
      BY <1>2, <3>1, PassMoves DEF GoesOn
  <2>a. w \in Worker /\ w.pc # "idle"
    BY <2>1 DEF TypeOK
  <2>2. /\ \A requeue \in BOOLEAN : ~Finish(requeue)
        /\ \A status, requeue : requeue \in BOOLEAN => ~Report(status, requeue)
        /\ ~Failed
    BY <1>2, IdleWorkerType, ReportSays, FailedSays DEF Finish
  <2>3. ~resolveCatalog
    BY <1>2, <2>a, <2>2 DEF resolveCatalog, Worker
  <2>4. ~readSecret
    BY <1>2, <2>a, <2>2 DEF readSecret, Worker
  <2>5. ~updateSecretURL
    BY <1>2, <2>a, <2>2 DEF updateSecretURL, Worker
  <2>6. ~checkEnding
    BY <1>2, <2>a, <2>2 DEF checkEnding, Worker
  <2>7. \A k \in Keys : ~mintKey(k)
    BY <1>2, <2>a, <2>2 DEF mintKey, Worker
  <2>8. ~writeSecret
    <3>1. writeSecret => \E k : w' = [w EXCEPT !.pc = "register", !.key = k,
                                               !.live = NoSecret, !.owned = FALSE]
      BY <2>2 DEF writeSecret
    <3> QED
      BY <1>2, <2>a, <3>1 DEF Worker
  <2>9. ~recordOwner
    BY <2>2 DEF recordOwner
  <2>10. w.pc = "register"
    <3>1. w.pc \in {"catalog", "secret", "url", "ending", "owner", "write", "register", "record",
                    "finalizer", "status", "lookup", "remove", "release"}
      BY <2>a DEF Worker
    <3> QED
      BY <1>2, <2>a, <2>3, <2>4, <2>5, <2>6, <2>7, <2>8, <2>9, <3>1, StepAt DEF Removing
  <2> QED
    BY <1>2, <2>1, <2>10, StepAt
<1> QED
  BY <1>1, <1>2 DEF Reporting

\* A pass that is about to report Ready has seen to it that the key is served, or
\* its grant will be woken.
LEMMA PassServedKept ==
    ASSUME "editTTL" \notin Faults, "registration" \notin Lag,
           Ground, Standing, PassKey, PassServed, [Next]_vars
    PROVE  PassServed'
<1> USE DEF Ground
<1> SUFFICES ASSUME NEW s \in Sessions, w'.s = s, Reporting', Due(s)'
             PROVE  Served(s)' \/ Woken(s)'
  <2>1. TypeOK'
    BY TypesKept
  <2>2. w'.s \in Sessions
    BY <2>1 DEF TypeOK, Worker
  <2> QED
    BY <2>2 DEF PassServed, Due, Served, Woken
<1>1. w.s = s /\ w.pc # "idle"
  BY ReportingSteps DEF Reporting, ensureRegistration
<1>2. ~Opens(s)
  BY <1>1 DEF Opens, PassBehind
<1>3. Due(s)
  BY <1>2, DueKept
<1>4. CASE Reporting
  <2>1. Served(s) \/ Woken(s)
    BY <1>1, <1>3, <1>4 DEF PassServed, Due, Served, Woken
  <2> QED
    BY <1>1, <1>2, <2>1, ServedKept, WorkKept
<1>5. CASE ~Reporting
  <2>1. ensureRegistration /\ Current /\ w'.pc = "record"
    <3>1. w' # w
      BY <1>5 DEF Reporting
    <3> QED
      BY <1>5, <3>1, ReportingSteps
  <2>2. w.pc = "register" /\ w.ns \in Gateways /\ w.key # NoKey
    BY <2>1 DEF ensureRegistration, PassInv, Publishing
  <2>3. UNCHANGED <<secret, sess>>
    BY <2>1 DEF ensureRegistration, secretVars
  <2> DEFINE desired == [hash |-> Hash(w.key), exp |-> expiryFor(w.snap)]
  <2>4. reg'[s][w.ns] = desired
    <3>1. regSeen = reg /\ ~Failed
      BY <2>1, FailedSays DEF Current
    <3>2. \/ reg' = [reg EXCEPT ![w.s][w.ns] = desired]
          \/ reg[w.s][w.ns] = desired /\ UNCHANGED reg
      BY <2>1, <3>1 DEF ensureRegistration, entryEquals
    <3> HIDE DEF desired
    <3> QED
      BY <1>1, <2>2, <3>2 DEF TypeOK
  <2>5. expiryFor(w.snap) = expiryFor(sess[s])
    <3>1. PICK e \in Nat : OneExpiry(s, e)
      BY DEF Terms
    <3> QED
      BY <1>1, <1>3, <2>2, <3>1 DEF OneExpiry, Due, Present, Publishing
  <2>6. CASE Woken(s)
    BY <1>1, <2>6, WorkKept
  <2>7. CASE ~Woken(s)
    <3>1. secret[s] # NoSecret /\ secret[s].key = w.key
      BY <1>1, <2>2, <2>7 DEF PassKey, Woken
    <3> QED
      BY <2>2, <2>3, <2>4, <2>5, <3>1 DEF Served, Keyed
  <2> QED
    BY <2>6, <2>7
<1> QED
  BY <1>4, <1>5

\* A grant that says Ready is served, or will be looked at again.
LEMMA AllServedKept ==
    ASSUME "editTTL" \notin Faults, Ground, Standing, PassKey, PassServed, AllServed, [Next]_vars
    PROVE  AllServed'
<1> USE DEF Ground
<1> SUFFICES ASSUME NEW s \in Sessions, Due(s)', sess'[s].status.phase = "Ready"
             PROVE  Served(s)' \/ Woken(s)' \/ Attending(s)'
  BY DEF AllServed
<1>1. ~Opens(s)
  BY DEF Opens, NewStatus
<1>2. Due(s)
  BY <1>1, DueKept
<1>3. sess'[s] = sess[s] \/ Closes(s) \/ Amends(s) \/ Reports(s)
  BY <1>1, GrantSteps
<1>4. CASE Reports(s)
  <2>1. Served(s) \/ Woken(s)
    BY <1>2, <1>4 DEF Reports, PassServed, Reporting, Due, Served, Woken
  <2> QED
    BY <1>1, <1>4, <2>1, ServedKept, WorkKept DEF Reports
<1>5. CASE ~Reports(s)
  <2>1. sess[s].status.phase = "Ready"
    BY <1>3, <1>5 DEF Closes, Amends, Due
  <2>2. Served(s) \/ Woken(s) \/ Attending(s)
    BY <1>2, <2>1 DEF AllServed
  <2> QED
    BY <1>1, <1>5, <2>2, ServedKept, WorkKept
<1> QED
  BY <1>4, <1>5

\* A grant reported Ready whose key has not expired is really served once all has
\* settled: the Secret holds a key and a gateway reads the hash of that key with the
\* expiry the grant asks for, through lost Secrets, conflicts, failed writes, stale
\* caches of grants, namespaces and Secrets, and restarts. The three hypotheses are
\* needed: with a stale cache of the registrations, or an expiry that is edited while
\* a sweep is under way, the code reports Ready for a key nobody serves; and a
\* registration goes with the namespace of a deleted bundled platform.
THEOREM ReadyServed ==
    ASSUME "registration" \notin Lag, "editTTL" \notin Faults, GatewaysStay
    PROVE  Spec => []ReadyMeansServed
<1> DEFINE Serving == Standing /\ PassKey /\ PassServed /\ AllServed
<1>1. Init => Labelled /\ Noticed /\ Serving
  <2> SUFFICES ASSUME Init PROVE Labelled /\ Noticed /\ Serving
    OBVIOUS
  <2>1. \A s \in Sessions : secret[s] = NoSecret /\ secretSeen[s] = NoSecret /\ sess[s] = Absent
    BY DEF Init
  <2>2. w.pc = "idle" /\ \A g \in Gateways : gwNs[g] = "active"
    BY IdleWorkerType DEF Init
  <2>3. \A s \in Sessions : ~Due(s)
    BY <2>1, GrantTypes DEF Due
  <2> QED
    BY <2>1, <2>2, <2>3 DEF Labelled, Plain, Noticed, Standing, PassKey, PassServed, Reporting,
       AllServed
<1>2. Ground /\ Serving /\ [Next]_vars => Labelled' /\ Noticed' /\ Serving'
  <2> SUFFICES ASSUME Ground, Serving, [Next]_vars PROVE Labelled' /\ Noticed' /\ Serving'
    OBVIOUS
  <2>1. Labelled' /\ Noticed'
    BY NoticedKept DEF Ground
  <2>2. Standing'
    BY StandingKept DEF Ground
  <2>3. PassKey'
    BY PassKeyKept
  <2>4. PassServed'
    BY PassServedKept
  <2>5. AllServed'
    BY AllServedKept
  <2> QED
    BY <2>1, <2>2, <2>3, <2>4, <2>5
<1>3. AllServed => ReadyMeansServed
  BY DEF AllServed, ReadyMeansServed, Quiet, Due, Served, Woken, Attending, Keyed
<1>4. /\ TypeOK /\ PassInv /\ GuardInv /\ Behind /\ PassBehind /\ Terms /\ Labelled /\ Noticed
      => Ground
  BY DEF Ground
<1> QED
  BY <1>1, <1>2, <1>3, <1>4, TypeCorrect, RegistrationsGuarded, NoneStranded, TermsStand, PTL
     DEF Spec

--------------------------------------------------------------------------------
(***************************************************************************)
(* A Ready grant follows the gateway.                                       *)
(***************************************************************************)

\* The catalog publishes the address of the platform's gateway.
Aligned == platform # NoGateway /\ catalog = platform

PlatformActive == platform # NoGateway => gwNs[platform] = "active"

\* The grant is where the gateway is.
Here(s) == secret[s] # NoSecret /\ secret[s].url = platform /\ reg[s][platform] # NoReg

\* What the cache shows of a due grant's registrations is still there.
StillThere ==
    \A s \in Sessions, g \in Gateways :
        regSeen[s][g] # NoReg /\ Due(s) /\ gwNs[g] = "active" => reg[s][g] # NoReg

\* A pass that looked the gateway up has the one of now, or its grant is woken.
PassAligned ==
    w.pc \in Publishing \ {"catalog"} /\ w.s \in Pinned /\ Aligned
        => (w.url = platform /\ w.ns = platform) \/ Woken(w.s)

\* A Secret that appears under a pass that read none wakes the grant.
PassReread ==
    w.pc \in {"ending", "owner", "write"} /\ w.live = NoSecret /\ Keyed(secretSeen[w.s])
        => Woken(w.s)

PassAddressed ==
    w.pc = "register" /\ w.s \in Pinned /\ Aligned
        => (secret[w.s] # NoSecret /\ secret[w.s].url = platform) \/ Woken(w.s)

PassFollowed == Reporting /\ w.s \in Pinned /\ Due(w.s) /\ Aligned => Here(w.s) \/ Woken(w.s)

AllFollow ==
    \A s \in Sessions : s \in Pinned /\ Due(s) /\ sess[s].status.phase = "Ready" /\ Aligned
        => Here(s) \/ Woken(s) \/ Attending(s)

\* A misplaced grant is refused for ever, if its namespace can always be read.
Refused ==
    \A s \in Sessions : s \in Misplaced /\ "nsRead" \notin Faults =>
        /\ sess[s].status.phase # "Ready"
        /\ w.s = s => w.pc \notin Publishing \union {"finalizer"} /\ ~Reporting

\* The gateway stays where it is, moves away from the published address, or the
\* address catches up and every grant that needs it is woken.
LEMMA AlignSteps ==
    ASSUME TypeOK, [Next]_vars, Aligned', NEW s \in Sessions, s \in Pinned
    PROVE  (Aligned /\ platform' = platform) \/ Woken(s)'
<1>1. CASE UNCHANGED <<platform, catalog>>
  BY <1>1 DEF Aligned
<1>2. CASE CatalogChange
  <2>1. /\ seen' = seen
        /\ queued'[s] = (queued[s] \/ (s \in Pinned /\ seen[s].st \in {"live", "deleting"}))
    BY <1>2 DEF CatalogChange, caches
  <2> QED
    BY <2>1 DEF Woken
<1>3. CASE PlatformDelete \/ \E g \in Gateways : PlatformMove(g)
  <2>1. CASE PlatformDelete
    BY <2>1 DEF PlatformDelete, Aligned
  <2>2. ASSUME NEW g \in Gateways, PlatformMove(g) PROVE ~Aligned'
    <3>1. platform' = g /\ catalog' = catalog /\ g # platform /\ catalog \in {platform, NoGateway}
      BY <2>2 DEF PlatformMove
    <3> QED
      BY <3>1 DEF Aligned
  <2> QED
    BY <1>3, <2>1, <2>2
<1>4. ASSUME WorkerStep PROVE UNCHANGED <<platform, catalog>>
  <2>1. ASSUME \/ AddFinalizer \/ resolveCatalog \/ readSecret \/ updateSecretURL \/ checkEnding
               \/ (\E k \in Keys : mintKey(k)) \/ writeSecret
        PROVE  UNCHANGED <<platform, catalog>>
    BY <2>1 DEF AddFinalizer, resolveCatalog, readSecret, updateSecretURL, checkEnding, mintKey,
       writeSecret, apiVars
  <2>2. ASSUME \/ ensureRegistration \/ recordOwner \/ updateSessionStatus
               \/ gatewayNamespaceForTeardown \/ removeRegistration \/ releaseSessionFinalizer
               \/ \E x \in Sessions, readable \in BOOLEAN : Reconcile(x, readable)
        PROVE  UNCHANGED <<platform, catalog>>
    BY <2>2 DEF ensureRegistration, recordOwner, updateSessionStatus,
       gatewayNamespaceForTeardown, removeRegistration, releaseSessionFinalizer, Reconcile, apiVars
  <2> QED
    BY <1>4, <2>1, <2>2, Zenon DEF WorkerStep
<1>5. ASSUME NEW x \in Sessions, Deliver(x) PROVE UNCHANGED <<platform, catalog>>
  BY <1>5 DEF Deliver, DeliverSession, DeliverNamespace, DeliverSecret, DeliverRegistration,
     apiVars
<1>6. ASSUME \/ \E x \in Sessions :
                 \/ \E ttl \in TTLs : CreateSession(x, ttl) \/ EditTTL(x, ttl)
                 \/ DeleteSession(x) \/ ForceDelete(x) \/ EndSessionNamespace(x)
                 \/ CollectSecret(x) \/ TamperSecret(x)
             \/ SweepStep \/ Tick \/ Restart \/ UNCHANGED vars
             \/ \E g \in Gateways : GatewayNamespaceGone(g)
      PROVE  UNCHANGED <<platform, catalog>>
  BY <1>6 DEF CreateSession, EditTTL, DeleteSession, ForceDelete, EndSessionNamespace,
     CollectSecret, TamperSecret, SweepStep, SweepList, SweepDelete, Tick, Restart, vars,
     GatewayNamespaceGone, apiVars
<1> QED
  BY <1>1, <1>2, <1>3, <1>4, <1>5, <1>6, Zenon DEF Next, Environment

\* No namespace becomes active again, and the platform's is.
LEMMA ActiveKept ==
    ASSUME TypeOK, PlatformActive, [Next]_vars
    PROVE  PlatformActive' /\ \A g \in Gateways : gwNs'[g] = "active" => gwNs[g] = "active"
<1> DEFINE Goal == PlatformActive' /\ \A g \in Gateways : gwNs'[g] = "active" => gwNs[g] = "active"
<1>a. gwNs \in [Gateways -> {"active", "terminating", "gone"}]
      /\ platform \in Gateways \union {NoGateway}
  BY DEF TypeOK
<1>1. CASE UNCHANGED <<platform, gwNs>>
  BY <1>1 DEF PlatformActive
<1>2. CASE PlatformDelete
  BY <1>2, <1>a DEF PlatformDelete, PlatformActive
<1>3. ASSUME NEW g \in Gateways, PlatformMove(g) PROVE Goal
  BY <1>3, <1>a DEF PlatformMove, PlatformActive
<1>4. ASSUME NEW g \in Gateways, GatewayNamespaceGone(g) PROVE Goal
  BY <1>4, <1>a DEF GatewayNamespaceGone, PlatformActive
<1>5. ASSUME WorkerStep PROVE UNCHANGED <<platform, gwNs>>
  <2>1. ASSUME \/ AddFinalizer \/ resolveCatalog \/ readSecret \/ updateSecretURL \/ checkEnding
               \/ (\E k \in Keys : mintKey(k)) \/ writeSecret
        PROVE  UNCHANGED <<platform, gwNs>>
    BY <2>1 DEF AddFinalizer, resolveCatalog, readSecret, updateSecretURL, checkEnding, mintKey,
       writeSecret, apiVars
  <2>2. ASSUME \/ ensureRegistration \/ recordOwner \/ updateSessionStatus
               \/ gatewayNamespaceForTeardown \/ removeRegistration \/ releaseSessionFinalizer
               \/ \E x \in Sessions, readable \in BOOLEAN : Reconcile(x, readable)
        PROVE  UNCHANGED <<platform, gwNs>>
    BY <2>2 DEF ensureRegistration, recordOwner, updateSessionStatus,
       gatewayNamespaceForTeardown, removeRegistration, releaseSessionFinalizer, Reconcile, apiVars
  <2> QED
    BY <1>5, <2>1, <2>2, Zenon DEF WorkerStep
<1>6. ASSUME NEW x \in Sessions, Deliver(x) PROVE UNCHANGED <<platform, gwNs>>
  BY <1>6 DEF Deliver, DeliverSession, DeliverNamespace, DeliverSecret, DeliverRegistration,
     apiVars
<1>7. ASSUME \/ \E x \in Sessions :
                 \/ \E ttl \in TTLs : CreateSession(x, ttl) \/ EditTTL(x, ttl)
                 \/ DeleteSession(x) \/ ForceDelete(x) \/ EndSessionNamespace(x)
                 \/ CollectSecret(x) \/ TamperSecret(x)
             \/ CatalogChange \/ SweepStep \/ Tick \/ Restart \/ UNCHANGED vars
      PROVE  UNCHANGED <<platform, gwNs>>
  BY <1>7 DEF CreateSession, EditTTL, DeleteSession, ForceDelete, EndSessionNamespace,
     CollectSecret, TamperSecret, CatalogChange, SweepStep, SweepList, SweepDelete, Tick, Restart,
     vars, apiVars
<1> QED
  BY <1>1, <1>2, <1>3, <1>4, <1>5, <1>6, <1>7, Zenon DEF Next, Environment

\* A due grant's registration stays where the gateway namespace does.
LEMMA RegistrationStays ==
    ASSUME "editTTL" \notin Faults, Ground, [Next]_vars,
           NEW s \in Sessions, NEW STATE g, g \in Gateways,
           reg[s][g] # NoReg, gwNs[g] = "active", Due(s)', ~Opens(s)
    PROVE  reg'[s][g] # NoReg
<1> USE DEF Ground
<1>1. Due(s)
  BY DueKept
<1>2. PICK e \in Nat : OneExpiry(s, e)
  BY DEF Terms
<1>3. e > now /\ now \in Nat
  BY <1>1, <1>2 DEF OneExpiry, Due, Present, TypeOK
<1>4. ASSUME NEW h \in Gateways, h = g PROVE reg'[s][h] # NoReg
  <2>1. ~Revoked(s, h)
    <3>1. ~(w.pc = "remove" /\ w.s = s)
      BY <1>1 DEF PassBehind, Removing, Due
    <3>2. <<s, h>> \notin sweep
      BY <1>2, <1>3 DEF OneExpiry
    <3> QED
      BY <1>4, <3>1, <3>2 DEF Revoked
  <2>2. reg'[s][h] = reg[s][h] \/ Published(s, h)
    BY <2>1, RegistrationSteps
  <2>3. CASE Published(s, h)
    <3>1. w.key \in Keys /\ expiryFor(w.snap) \in Nat
      <4>1. w.key # NoKey /\ w.snap \in Grant /\ w.key \in Keys \union {NoKey}
        BY <2>3 DEF Published, ensureRegistration, PassInv, TypeOK, Worker
      <4>2. w.snap.created \in Nat /\ w.snap.ttl \in Nat
        BY <4>1, ConstantsAssumption DEF Grant
      <4> QED
        BY <4>1, <4>2 DEF expiryFor
    <3>2. reg'[s][h] \in Registration
      BY <2>3, <3>1 DEF Published, Hash, Registration
    <3> QED
      BY <3>2, ConstantsAssumption DEF Registration
  <2> QED
    BY <1>4, <2>2, <2>3
<1> QED
  BY <1>4

\* The cache shows no registration of a due grant that has gone.
LEMMA StillThereKept ==
    ASSUME "editTTL" \notin Faults, Ground, Unborn, PlatformActive, StillThere, [Next]_vars
    PROVE  StillThere'
<1> SUFFICES ASSUME NEW s \in Sessions, NEW g \in Gateways,
                    regSeen'[s][g] # NoReg, Due(s)', gwNs'[g] = "active"
             PROVE  reg'[s][g] # NoReg
  BY DEF StillThere
<1>1. CASE regSeen'[s] = reg[s] /\ reg'[s] = reg[s]
  BY <1>1
<1>2. CASE regSeen'[s] = regSeen[s]
  <2>1. ~Opens(s)
    BY <1>2 DEF Opens, Unborn
  <2>2. Due(s)
    BY <2>1, DueKept DEF Ground
  <2>3. gwNs[g] = "active"
    BY ActiveKept DEF Ground
  <2>4. reg[s][g] # NoReg
    BY <1>2, <2>2, <2>3 DEF StillThere
  <2> QED
    BY <2>1, <2>3, <2>4, RegistrationStays
<1> QED
  BY <1>1, <1>2, RegistrationCacheSteps DEF Ground

\* A grant that is where the gateway is stays there, or will be woken.
LEMMA HereKept ==
    ASSUME "editTTL" \notin Faults, Ground, PlatformActive, [Next]_vars,
           Aligned, platform' = platform, NEW s \in Sessions, Here(s), Due(s)', ~Opens(s)
    PROVE  Here(s)' \/ Woken(s)'
<1> USE DEF Ground
<1>1. CASE secret'[s] # secret[s]
  <2>1. Rewritten(s) /\ Plain(secret[s])
    BY <1>1, SecretSteps DEF Labelled
  <2>2. secret[s] # NoSecret /\ secret[s].labelled
    BY <2>1 DEF Here, Aligned, Plain
  <2>3. secretEvent'[s]
    BY <2>1, <2>2 DEF Rewritten, mapSecretToSession
  <2> QED
    BY <2>3 DEF Woken
<1>2. CASE secret'[s] = secret[s]
  <2>1. platform \in Gateways /\ gwNs[platform] = "active"
    BY DEF Aligned, PlatformActive, TypeOK
  <2>2. reg'[s][platform] # NoReg
    BY <2>1, RegistrationStays DEF Here
  <2> QED
    BY <1>2, <2>2 DEF Here
<1> QED
  BY <1>1, <1>2

\* On its way to publishing a pass keeps the address and the namespace it looked up,
\* and what it read of the Secret.
LEMMA PublishSteps ==
    ASSUME TypeOK, [Next]_vars, w' # w, w'.pc \in Publishing \ {"catalog"}
    PROVE  /\ w.pc # "idle" /\ w'.s = w.s
           /\ \/ /\ w.pc = "catalog" /\ w'.pc = "secret"
                 /\ w'.url = catalog /\ w'.ns = platform /\ UNCHANGED <<catalog, platform>>
              \/ /\ w.pc \in Publishing \ {"catalog"} /\ w'.url = w.url /\ w'.ns = w.ns
           /\ w'.pc \in {"ending", "owner", "write"} =>
                 \/ /\ w.pc = "secret" /\ w'.live = secretSeen[w.s] /\ ~Keyed(secretSeen[w.s])
                    /\ UNCHANGED secretSeen
                 \/ w.pc \in {"ending", "owner", "write"} /\ w'.live = w.live
<1>a. w \in Worker /\ w'.pc \in {"secret", "url", "ending", "owner", "write", "register"}
  BY DEF TypeOK, Publishing
<1>b. /\ \A requeue \in BOOLEAN : ~Finish(requeue)
      /\ \A status, requeue : requeue \in BOOLEAN => ~Report(status, requeue)
      /\ ~Failed
  BY <1>a, IdleWorkerType, ReportSays, FailedSays DEF Finish
<1>1. w.pc # "idle" /\ w'.s = w.s /\ w.pc \in Publishing \union {"finalizer"}
  <2>1. \A s \in Sessions : ~Starts(s)
    BY <1>a DEF Starts
  <2> QED
    BY <1>a, <2>1, PassMoves DEF GoesOn
<1>2. CASE w.pc = "catalog"
  <2>1. resolveCatalog
    BY <1>1, <1>2, <1>a, StepAt
  <2>2. w' = [w EXCEPT !.pc = "secret", !.url = catalog, !.ns = platform]
    BY <2>1, <1>b DEF resolveCatalog
  <2>3. UNCHANGED <<catalog, platform>>
    BY <2>1 DEF resolveCatalog, apiVars
  <2> QED
    BY <1>1, <1>2, <1>a, <2>2, <2>3 DEF Worker
<1>3. CASE w.pc = "secret"
  <2>1. readSecret
    BY <1>1, <1>3, <1>a, StepAt
  <2>2. \/ w' = [w EXCEPT !.pc = "register", !.key = secretSeen[w.s].key]
        \/ w' = [w EXCEPT !.pc = "url", !.live = secretSeen[w.s]]
        \/ w' = [w EXCEPT !.pc = "ending", !.live = secretSeen[w.s]] /\ ~Keyed(secretSeen[w.s])
    BY <2>1, <1>b DEF readSecret, Keyed
  <2>3. UNCHANGED secretSeen
    BY <2>1 DEF readSecret, caches
  <2> QED
    BY <1>1, <1>3, <1>a, <2>2, <2>3 DEF Worker, Publishing
<1>4. CASE w.pc = "url"
  <2>1. updateSecretURL
    BY <1>1, <1>4, <1>a, StepAt
  <2>2. w' = [w EXCEPT !.pc = "register", !.key = w.live.key, !.live = NoSecret]
    BY <2>1, <1>b DEF updateSecretURL
  <2> QED
    BY <1>1, <1>4, <1>a, <2>2 DEF Worker, Publishing
<1>5. CASE w.pc = "ending"
  <2>1. checkEnding
    BY <1>1, <1>5, <1>a, StepAt
  <2>2. w' = [w EXCEPT !.pc = "owner"]
    BY <2>1, <1>b DEF checkEnding
  <2> QED
    BY <1>1, <1>5, <1>a, <2>2 DEF Worker, Publishing
<1>6. CASE w.pc = "owner"
  <2>1. \E k \in Keys : mintKey(k)
    BY <1>1, <1>6, <1>a, StepAt
  <2>2. \E k : w' = [w EXCEPT !.pc = "write", !.key = k,
                             !.owned = setSessionNamespaceOwner(w.s)]
    BY <2>1, <1>b, Zenon DEF mintKey
  <2> QED
    BY <1>1, <1>6, <1>a, <2>2 DEF Worker, Publishing
<1>7. CASE w.pc = "write"
  <2>1. writeSecret
    BY <1>1, <1>7, <1>a, StepAt
  <2>2. \E k : w' = [w EXCEPT !.pc = "register", !.key = k, !.live = NoSecret, !.owned = FALSE]
    BY <2>1, <1>b DEF writeSecret
  <2> QED
    BY <1>1, <1>7, <1>a, <2>2 DEF Worker, Publishing
<1>8. w.pc # "register"
  <2>1. ensureRegistration =>
           w' = [w EXCEPT !.pc = "record", !.key = NoKey, !.ns = NoGateway, !.url = NoGateway]
    BY <1>b DEF ensureRegistration
  <2> QED
    BY <1>1, <1>a, <2>1, StepAt DEF Worker
<1>9. w.pc # "finalizer"
  BY <1>1, <1>a, StepAt
<1> QED
  BY <1>1, <1>2, <1>3, <1>4, <1>5, <1>6, <1>7, <1>8, <1>9 DEF Publishing

\* A pass keeps to the gateway of now, or its grant is woken.
LEMMA PassAlignedKept ==
    ASSUME Ground, PassAligned, [Next]_vars
    PROVE  PassAligned'
<1> USE DEF Ground
<1> SUFFICES ASSUME NEW s \in Sessions, w'.s = s, w'.pc \in Publishing \ {"catalog"},
                    s \in Pinned, Aligned'
             PROVE  (w'.url = platform' /\ w'.ns = platform') \/ Woken(s)'
  <2>1. TypeOK'
    BY TypesKept
  <2>2. w'.s \in Sessions
    BY <2>1 DEF TypeOK, Worker
  <2> QED
    BY <2>2 DEF PassAligned, Woken
<1>1. CASE Woken(s)'
  BY <1>1
<1>2. CASE ~Woken(s)'
  <2>1. Aligned /\ platform' = platform
    BY <1>2, AlignSteps
  <2>2. CASE w' = w
    <3>1. w.s = s /\ w.pc # "idle"
      BY <2>2 DEF Publishing
    <3>2. ~Woken(s)
      BY <1>2, <3>1, WorkKept
    <3> QED
      BY <2>1, <2>2, <3>1, <3>2 DEF PassAligned, Woken
  <2>3. CASE w' # w
    <3>1. w.s = s /\ w.pc # "idle"
      BY <2>3, PublishSteps
    <3>2. ~Woken(s)
      BY <1>2, <3>1, WorkKept
    <3>3. CASE w'.url = catalog /\ w'.ns = platform /\ UNCHANGED <<catalog, platform>>
      BY <2>1, <3>3 DEF Aligned
    <3>4. CASE w.pc \in Publishing \ {"catalog"} /\ w'.url = w.url /\ w'.ns = w.ns
      BY <2>1, <3>1, <3>2, <3>4 DEF PassAligned, Woken
    <3> QED
      BY <2>3, <3>3, <3>4, PublishSteps
  <2> QED
    BY <2>2, <2>3
<1> QED
  BY <1>1, <1>2

\* A Secret that turns up under a pass that found none wakes the grant.
LEMMA PassRereadKept ==
    ASSUME Ground, PassReread, [Next]_vars
    PROVE  PassReread'
<1> USE DEF Ground
<1> SUFFICES ASSUME NEW s \in Sessions, w'.s = s, w'.pc \in {"ending", "owner", "write"},
                    w'.live = NoSecret, Keyed(secretSeen'[s])
             PROVE  Woken(s)'
  <2>1. TypeOK'
    BY TypesKept
  <2>2. w'.s \in Sessions
    BY <2>1 DEF TypeOK, Worker
  <2> QED
    BY <2>2 DEF PassReread, Woken, Keyed
<1>1. /\ w.s = s /\ w.pc # "idle"
      /\ \/ ~Keyed(secretSeen[s]) /\ UNCHANGED secretSeen
         \/ w.pc \in {"ending", "owner", "write"} /\ w.live = NoSecret
  <2>1. CASE w' = w
    BY <2>1
  <2>2. CASE w' # w
    BY <2>2, PublishSteps DEF Publishing
  <2> QED
    BY <2>1, <2>2
<1>2. w.pc \in {"ending", "owner", "write"} /\ w.live = NoSecret
  BY <1>1
<1>3. Woken(s)
  <2>1. CASE Keyed(secretSeen[s])
    BY <1>1, <1>2, <2>1 DEF PassReread, Woken
  <2>2. CASE ~Keyed(secretSeen[s])
    <3>1. secretSeen'[s] = secret[s]
      BY <2>2, SecretSteps
    <3>2. secretEvent[s]
      BY <2>2, <3>1 DEF Noticed
    <3> QED
      BY <3>2 DEF Woken
  <2> QED
    BY <2>1, <2>2
<1> QED
  BY <1>1, <1>3, WorkKept

\* The Secret of the key being registered names the gateway of now, or the grant is
\* woken.
LEMMA PassAddressedKept ==
    ASSUME Ground, PassAligned, PassReread, PassAddressed, [Next]_vars
    PROVE  PassAddressed'
<1> USE DEF Ground
<1> SUFFICES ASSUME NEW s \in Sessions, w'.s = s, w'.pc = "register", s \in Pinned, Aligned',
                    ~Woken(s)'
             PROVE  secret'[s] # NoSecret /\ secret'[s].url = platform'
  <2>1. TypeOK'
    BY TypesKept
  <2>2. w'.s \in Sessions
    BY <2>1 DEF TypeOK, Worker
  <2> QED
    BY <2>2 DEF PassAddressed, Woken
<1>1. Aligned /\ platform' = platform
  BY AlignSteps
<1>2. w.s = s /\ w.pc # "idle"
  <2>1. CASE w' = w
    BY <2>1
  <2>2. CASE w' # w
    BY <2>2, RegisterSteps
  <2> QED
    BY <2>1, <2>2
<1>3. ~Woken(s)
  BY <1>2, WorkKept
<1>4. CASE w' = w
  <2>1. secret[s] # NoSecret /\ secret[s].url = platform
    BY <1>1, <1>2, <1>3, <1>4 DEF PassAddressed, Woken
  <2>2. secret'[s] = secret[s]
    <3> SUFFICES ASSUME Rewritten(s) PROVE FALSE
      BY SecretSteps
    <3>1. secret[s].labelled
      BY <1>1, <2>1 DEF Labelled, Plain, Aligned
    <3>2. secretEvent'[s]
      BY <2>1, <3>1 DEF Rewritten, mapSecretToSession
    <3> QED
      BY <3>2 DEF Woken
  <2> QED
    BY <1>1, <2>1, <2>2
<1>5. CASE w' # w
  <2>1. w.url = platform
    <3>1. w.pc \in Publishing \ {"catalog"}
      BY <1>5, RegisterSteps DEF Publishing
    <3> QED
      BY <1>1, <1>2, <1>3, <3>1 DEF PassAligned, Woken
  <2>2. CASE secret'[w.s] # NoSecret /\ secret'[w.s].url = w.url
    BY <1>1, <1>2, <2>1, <2>2
  <2>3. CASE /\ Keyed(secretSeen[w.s]) /\ UNCHANGED <<secret, secretSeen, secretEvent>>
             /\ secretSeen[w.s].url = w.url \/ (w.pc = "write" /\ w.live = NoSecret)
    <3>1. secretSeen[s].url = w.url
      BY <1>2, <1>3, <2>3 DEF PassReread, Woken
    <3>2. secretSeen[s] = secret[s]
      BY <1>2, <1>3, <2>3 DEF Noticed, Woken
    <3> QED
      BY <1>1, <1>2, <2>1, <2>3, <3>1, <3>2 DEF Keyed
  <2> QED
    BY <1>5, <2>2, <2>3, RegisterSteps
<1> QED
  BY <1>4, <1>5

\* A pass about to report Ready has brought the grant to the gateway of now, or the
\* grant is woken.
LEMMA PassFollowedKept ==
    ASSUME "editTTL" \notin Faults, Ground, PlatformActive, StillThere, PassAligned,
           PassAddressed, PassFollowed, [Next]_vars
    PROVE  PassFollowed'
<1> USE DEF Ground
<1> SUFFICES ASSUME NEW s \in Sessions, w'.s = s, Reporting', s \in Pinned, Due(s)', Aligned',
                    ~Woken(s)'
             PROVE  Here(s)'
  <2>1. TypeOK'
    BY TypesKept
  <2>2. w'.s \in Sessions
    BY <2>1 DEF TypeOK, Worker
  <2> QED
    BY <2>2 DEF PassFollowed, Due, Here, Woken
<1>1. w.s = s /\ w.pc # "idle"
  BY ReportingSteps DEF Reporting, ensureRegistration
<1>2. ~Opens(s)
  BY <1>1 DEF Opens, PassBehind
<1>3. Due(s)
  BY <1>2, DueKept
<1>4. ~Woken(s)
  BY <1>1, WorkKept
<1>5. Aligned /\ platform' = platform
  BY AlignSteps
<1>6. CASE Reporting
  <2>1. Here(s)
    BY <1>1, <1>3, <1>4, <1>5, <1>6 DEF PassFollowed, Due, Here, Woken
  <2> QED
    BY <1>2, <1>5, <2>1, HereKept
<1>7. CASE ~Reporting
  <2>1. ensureRegistration /\ w'.pc = "record" /\ w.pc = "register"
    <3>1. w' # w
      BY <1>7 DEF Reporting
    <3> QED
      BY <1>7, <3>1, ReportingSteps DEF ensureRegistration
  <2>2. w.ns = platform /\ platform \in Gateways /\ gwNs[platform] = "active"
    BY <1>1, <1>4, <1>5, <2>1 DEF PassAligned, Woken, Publishing, Aligned, PlatformActive, TypeOK
  <2>3. secret[s] # NoSecret /\ secret[s].url = platform
    BY <1>1, <1>4, <1>5, <2>1 DEF PassAddressed, Woken
  <2>4. UNCHANGED secret
    BY <2>1 DEF ensureRegistration, secretVars
  <2> DEFINE desired == [hash |-> Hash(w.key), exp |-> expiryFor(w.snap)]
  <2>5. \/ reg' = [reg EXCEPT ![w.s][w.ns] = desired]
        \/ reg[w.s][w.ns] # NoReg /\ UNCHANGED reg
        \/ regSeen[w.s][w.ns] # NoReg /\ UNCHANGED reg
    <3>1. ~Failed
      BY <2>1, FailedSays
    <3> QED
      BY <2>1, <3>1 DEF ensureRegistration
  <2>6. desired # NoReg
    <3>1. w.key # NoKey /\ w.snap \in Grant /\ w.key \in Keys \union {NoKey}
      BY <2>1 DEF PassInv, TypeOK, Worker
    <3>2. w.snap.created \in Nat /\ w.snap.ttl \in Nat
      BY <3>1, ConstantsAssumption DEF Grant
    <3>3. desired \in Registration
      BY <3>1, <3>2 DEF Hash, Registration, expiryFor
    <3> QED
      BY <3>3, ConstantsAssumption DEF Registration
  <2> HIDE DEF desired
  <2>7. reg'[s][platform] # NoReg
    <3>1. CASE reg' = [reg EXCEPT ![w.s][w.ns] = desired]
      BY <1>1, <2>2, <2>6, <3>1 DEF TypeOK
    <3>2. CASE reg[w.s][w.ns] # NoReg /\ UNCHANGED reg
      BY <1>1, <2>2, <3>2
    <3>3. CASE regSeen[w.s][w.ns] # NoReg /\ UNCHANGED reg
      BY <1>1, <1>3, <2>2, <3>3 DEF StillThere
    <3> QED
      BY <2>5, <3>1, <3>2, <3>3
  <2> QED
    BY <1>5, <2>3, <2>4, <2>7 DEF Here
<1> QED
  BY <1>6, <1>7

\* A grant that says Ready is where the gateway is, or will be looked at again.
LEMMA AllFollowKept ==
    ASSUME "editTTL" \notin Faults, Ground, PlatformActive, PassFollowed, AllFollow, [Next]_vars
    PROVE  AllFollow'
<1> USE DEF Ground
<1> SUFFICES ASSUME NEW s \in Sessions, s \in Pinned, Due(s)', sess'[s].status.phase = "Ready",
                    Aligned', ~Woken(s)', ~Attending(s)'
             PROVE  Here(s)'
  BY DEF AllFollow
<1>1. ~Opens(s)
  BY DEF Opens, NewStatus
<1>2. Due(s)
  BY <1>1, DueKept
<1>3. Aligned /\ platform' = platform
  BY AlignSteps
<1>4. ~Woken(s)
  BY WorkKept
<1>5. Here(s)
  <2>1. sess'[s] = sess[s] \/ Closes(s) \/ Amends(s) \/ Reports(s)
    BY <1>1, GrantSteps
  <2>2. CASE Reports(s)
    BY <1>2, <1>3, <1>4, <2>2 DEF Reports, PassFollowed, Reporting, Due, Here, Woken
  <2>3. CASE ~Reports(s)
    <3>1. sess[s].status.phase = "Ready"
      BY <2>1, <2>3 DEF Closes, Amends, Due
    <3>2. ~Attending(s)
      BY <2>3, WorkKept
    <3> QED
      BY <1>2, <1>3, <1>4, <3>1, <3>2 DEF AllFollow
  <2> QED
    BY <2>2, <2>3
<1> QED
  BY <1>1, <1>3, <1>5, HereKept

\* A refused grant stays refused.
LEMMA RefusedKept ==
    ASSUME TypeOK, PassInv, GuardInv, Refused, [Next]_vars
    PROVE  Refused'
<1> SUFFICES ASSUME NEW s \in Sessions, s \in Misplaced, "nsRead" \notin Faults
             PROVE  /\ sess'[s].status.phase # "Ready"
                    /\ w'.s = s => w'.pc \notin Publishing \union {"finalizer"} /\ ~Reporting'
  BY DEF Refused
<1>1. /\ sess[s].status.phase # "Ready"
      /\ w.s = s => w.pc \notin Publishing \union {"finalizer"} /\ ~Reporting
  BY DEF Refused
<1>2. sess'[s].status.phase # "Ready"
  <2>1. sess'[s] = sess[s] \/ Opens(s) \/ Closes(s) \/ Amends(s) \/ Reports(s)
    BY GrantSteps
  <2> QED
    BY <1>1, <2>1 DEF Opens, Closes, Amends, Reports, Reporting, NewStatus
<1>3. ASSUME w'.s = s PROVE w'.pc \notin Publishing \union {"finalizer"}
  <2>1. CASE w' = w
    BY <1>1, <1>3, <2>1
  <2>2. CASE w'.pc = "idle"
    BY <2>2 DEF Publishing
  <2>3. ASSUME NEW x \in Sessions, Starts(x) PROVE w'.pc \notin Publishing \union {"finalizer"}
    BY <1>3, <2>3 DEF Starts, Publishing
  <2>4. CASE GoesOn
    BY <1>1, <1>3, <2>4 DEF GoesOn
  <2> QED
    BY <2>1, <2>2, <2>3, <2>4, PassMoves
<1>4. ASSUME w'.s = s PROVE ~Reporting'
  <2>1. CASE w' = w
    BY <1>1, <1>4, <2>1 DEF Reporting
  <2>2. CASE w' # w
    BY <1>1, <1>4, <2>2, ReportingSteps DEF ensureRegistration, Publishing
  <2> QED
    BY <2>1, <2>2
<1> QED
  BY <1>2, <1>3, <1>4

\* Every grant is one the catalog's event wakes, or one that is refused.
PinnedOrRefused ==
    \A s \in Sessions : s \in Pinned \/ (s \in Misplaced /\ "nsRead" \notin Faults)

\* While nobody edits a TTL, a Ready grant whose key is due has followed the
\* gateway once all is quiet and the catalog publishes the platform's address:
\* however the platform moved, was deleted or came back during its passes, and
\* however stale the Secret and the registration its passes read. It is for
\* grants that NeedsReconcileOnCatalogChange lets the catalog's event wake: one
\* that inherits its budget is not woken, and stays with the old address.
THEOREM GatewayFollowed ==
    ASSUME "editTTL" \notin Faults, PinnedOrRefused
    PROVE  Spec => []GrantFollowsGateway
<1> DEFINE Following ==
               /\ PlatformActive /\ StillThere /\ PassAligned /\ PassReread
               /\ PassAddressed /\ PassFollowed /\ AllFollow /\ Refused
<1>1. Init => Labelled /\ Noticed /\ Following
  <2> SUFFICES ASSUME Init PROVE Labelled /\ Noticed /\ Following
    OBVIOUS
  <2>1. \A s \in Sessions : secret[s] = NoSecret /\ secretSeen[s] = NoSecret /\ sess[s] = Absent
    BY DEF Init
  <2>2. w.pc = "idle" /\ \A g \in Gateways : gwNs[g] = "active"
    BY IdleWorkerType DEF Init
  <2>3. \A s \in Sessions : ~Due(s) /\ sess[s].status.phase # "Ready"
    BY <2>1, GrantTypes DEF Due, Absent, NewStatus
  <2>4. Labelled /\ Noticed
    BY <2>1, <2>2 DEF Labelled, Plain, Noticed
  <2>5. PlatformActive /\ StillThere
    BY <2>2, <2>3 DEF PlatformActive, StillThere, Init
  <2>6. PassAligned /\ PassReread /\ PassAddressed /\ PassFollowed
    BY <2>2 DEF PassAligned, PassReread, PassAddressed, PassFollowed, Publishing, Reporting
  <2>7. AllFollow /\ Refused
    BY <2>2, <2>3 DEF AllFollow, Refused, Publishing, Reporting
  <2> QED
    BY <2>4, <2>5, <2>6, <2>7
<1>2. Ground /\ Unborn /\ Following /\ [Next]_vars => Labelled' /\ Noticed' /\ Following'
  <2> SUFFICES ASSUME Ground, Unborn, Following, [Next]_vars
               PROVE  Labelled' /\ Noticed' /\ Following'
    OBVIOUS
  <2>1. Labelled' /\ Noticed'
    BY NoticedKept DEF Ground
  <2>2. PlatformActive'
    BY ActiveKept DEF Ground
  <2>3. StillThere'
    BY StillThereKept
  <2>4. PassAligned' /\ PassReread'
    BY PassAlignedKept, PassRereadKept
  <2>5. PassAddressed'
    BY PassAddressedKept
  <2>6. PassFollowed'
    BY PassFollowedKept
  <2>7. AllFollow'
    BY AllFollowKept
  <2>8. Refused'
    BY RefusedKept DEF Ground
  <2> QED
    BY <2>1, <2>2, <2>3, <2>4, <2>5, <2>6, <2>7, <2>8
<1>3. AllFollow /\ Refused => GrantFollowsGateway
  <2> SUFFICES ASSUME AllFollow, Refused, Quiet, Aligned, NEW s \in Sessions,
                      Due(s), sess[s].status.phase = "Ready"
               PROVE  Here(s)
    BY DEF GrantFollowsGateway, Aligned, Due, Here
  <2>1. s \in Pinned
    BY DEF PinnedOrRefused, Refused
  <2>2. ~Attending(s) /\ ~Woken(s)
    BY DEF Quiet, Attending, Woken, Due
  <2> QED
    BY <2>1, <2>2 DEF AllFollow
<1>4. /\ TypeOK /\ PassInv /\ GuardInv /\ Behind /\ PassBehind /\ Terms /\ Labelled /\ Noticed
      => Ground
  BY DEF Ground
<1> QED
  BY <1>1, <1>2, <1>3, <1>4, TypeCorrect, RegistrationsGuarded, NoneStranded, TermsStand, PTL
     DEF Spec

--------------------------------------------------------------------------------
(***************************************************************************)
(* The teardown's window is kept, as long as the gateway does not move.     *)
(***************************************************************************)

\* The copies of a deleted grant know when it was deleted; a pass that removes works
\* on the gateway that stands, and one that lets go has cleaned it or has waited.
PassWindow ==
    /\ \A s \in Sessions :
          seen[s].st = "deleting" /\ sess[s].st = "deleting" => seen[s].delAt = sess[s].delAt
    /\ w.pc \in Removing /\ sess[w.s].st = "deleting" => w.snap.delAt = sess[w.s].delAt
    /\ w.pc = "remove" /\ platform # NoGateway => w.ns = platform
    /\ w.pc = "release" /\ platform # NoGateway =>
          w.ns = platform \/ now - w.snap.delAt >= FinalizerTimeout

\* The deletion timestamp is set once, and only the pass that releases the finalizer
\* lets the grant go in a step of its own.
LEMMA DeletionSteps ==
    ASSUME TypeOK, [Next]_vars, NEW s \in Sessions, sess[s].st = "deleting"
    PROVE  /\ sess'[s].st = "deleting" => sess'[s].delAt = sess[s].delAt
           /\ sess'[s].st # "deleting" => w' = w \/ (w.pc = "release" /\ w.s = s)
<1> DEFINE Goal == /\ sess'[s].st = "deleting" => sess'[s].delAt = sess[s].delAt
                   /\ sess'[s].st # "deleting" => w' = w \/ (w.pc = "release" /\ w.s = s)
<1>a. sess \in [Sessions -> Grant] /\ w.s \in Sessions /\ Gone.st = "gone"
  BY GrantTypes DEF TypeOK, Worker
<1>b. CASE sess'[s] = sess[s]
  BY <1>b
<1>1. CASE AddFinalizer
  <2>1. sess' = sess \/ sess' = [sess EXCEPT ![w.s].fin = TRUE]
    BY <1>1 DEF AddFinalizer
  <2> QED
    BY <1>a, <2>1 DEF Grant
<1>2. CASE updateSessionStatus
  <2>1. sess' = sess \/ sess' = [sess EXCEPT ![w.s].status = w.snap.status]
    BY <1>2 DEF updateSessionStatus
  <2> QED
    BY <1>a, <2>1 DEF Grant
<1>3. CASE releaseSessionFinalizer
  <2>1. w.pc = "release" /\ (sess' = sess \/ sess' = [sess EXCEPT ![w.s] = Gone])
    BY <1>3 DEF releaseSessionFinalizer
  <2> QED
    BY <1>a, <2>1
<1>4. ASSUME \/ resolveCatalog \/ readSecret \/ updateSecretURL \/ checkEnding
             \/ (\E k \in Keys : mintKey(k)) \/ writeSecret \/ ensureRegistration
             \/ recordOwner \/ gatewayNamespaceForTeardown \/ removeRegistration
             \/ \E x \in Sessions, readable \in BOOLEAN : Reconcile(x, readable)
      PROVE  sess' = sess
  BY <1>4 DEF resolveCatalog, readSecret, updateSecretURL, checkEnding, mintKey, writeSecret,
     ensureRegistration, recordOwner, gatewayNamespaceForTeardown, removeRegistration,
     Reconcile, apiVars
<1>5. ASSUME NEW x \in Sessions, Deliver(x) PROVE sess' = sess
  BY <1>5 DEF Deliver, DeliverSession, DeliverNamespace, DeliverSecret, DeliverRegistration,
     apiVars
<1>6. ASSUME NEW x \in Sessions,
             \/ \E ttl \in TTLs : CreateSession(x, ttl) \/ EditTTL(x, ttl)
             \/ DeleteSession(x)
      PROVE  sess'[s] = sess[s]
  BY <1>6, <1>a DEF CreateSession, EditTTL, DeleteSession
<1>7. ASSUME NEW x \in Sessions, ForceDelete(x) PROVE Goal
  <2>1. w' = w /\ sess' = [sess EXCEPT ![x] = Gone]
    BY <1>7 DEF ForceDelete, OperatorIdle
  <2> QED
    BY <1>a, <2>1
<1>8. ASSUME \/ \E x \in Sessions : EndSessionNamespace(x) \/ CollectSecret(x) \/ TamperSecret(x)
             \/ CatalogChange \/ PlatformDelete \/ Tick \/ SweepStep \/ Restart \/ UNCHANGED vars
             \/ \E g \in Gateways : PlatformMove(g) \/ GatewayNamespaceGone(g)
      PROVE  sess' = sess
  BY <1>8 DEF EndSessionNamespace, CollectSecret, TamperSecret, CatalogChange, PlatformDelete,
     Tick, SweepStep, SweepList, SweepDelete, Restart, vars, apiVars, PlatformMove,
     GatewayNamespaceGone
<1> HIDE DEF Goal
<1>9. Goal
  <2> USE <1>b DEF Goal
  <2>1. CASE WorkerStep
    BY <2>1, <1>1, <1>2, <1>3, <1>4, Zenon DEF WorkerStep
  <2>2. CASE \E x \in Sessions : Deliver(x)
    BY <2>2, <1>5, Zenon
  <2>3. CASE Environment \/ Tick \/ SweepStep \/ UNCHANGED vars
    BY <2>3, <1>6, <1>7, <1>8, Zenon DEF Environment
  <2> QED
    BY <2>1, <2>2, <2>3 DEF Next
<1> QED
  BY <1>9 DEF Goal

\* A platform stays where it is, or goes for good.
LEMMA PlatformStays ==
    ASSUME "move" \notin Faults, [Next]_vars
    PROVE  platform' \in {platform, NoGateway}
<1>1. ASSUME WorkerStep PROVE platform' = platform
  <2>1. ASSUME \/ AddFinalizer \/ resolveCatalog \/ readSecret \/ updateSecretURL \/ checkEnding
               \/ (\E k \in Keys : mintKey(k)) \/ writeSecret \/ ensureRegistration
               \/ recordOwner \/ updateSessionStatus \/ gatewayNamespaceForTeardown
               \/ removeRegistration \/ releaseSessionFinalizer
               \/ \E x \in Sessions, readable \in BOOLEAN : Reconcile(x, readable)
        PROVE  platform' = platform
    BY <2>1 DEF AddFinalizer, resolveCatalog, readSecret, updateSecretURL, checkEnding, mintKey,
       writeSecret, ensureRegistration, recordOwner, updateSessionStatus,
       gatewayNamespaceForTeardown, removeRegistration, releaseSessionFinalizer, Reconcile, apiVars
  <2> QED
    BY <1>1, <2>1, Zenon DEF WorkerStep
<1>2. ASSUME NEW x \in Sessions, Deliver(x) PROVE platform' = platform
  BY <1>2 DEF Deliver, DeliverSession, DeliverNamespace, DeliverSecret, DeliverRegistration,
     apiVars
<1>3. ASSUME \/ \E x \in Sessions :
                 \/ \E ttl \in TTLs : CreateSession(x, ttl) \/ EditTTL(x, ttl)
                 \/ DeleteSession(x) \/ ForceDelete(x) \/ EndSessionNamespace(x)
                 \/ CollectSecret(x) \/ TamperSecret(x)
             \/ CatalogChange \/ SweepStep \/ Tick \/ Restart \/ UNCHANGED vars
             \/ \E g \in Gateways : GatewayNamespaceGone(g)
      PROVE  platform' = platform
  BY <1>3 DEF CreateSession, EditTTL, DeleteSession, ForceDelete, EndSessionNamespace,
     CollectSecret, TamperSecret, CatalogChange, SweepStep, SweepList, SweepDelete, Tick, Restart,
     vars, apiVars, GatewayNamespaceGone
<1>4. PlatformDelete => platform' = NoGateway
  BY DEF PlatformDelete
<1>5. \A g \in Gateways : ~PlatformMove(g)
  BY DEF PlatformMove
<1>6. CASE Environment
  BY <1>3, <1>4, <1>5, <1>6, Zenon DEF Environment
<1> QED
  BY <1>1, <1>2, <1>3, <1>6 DEF Next

\* A teardown looks for the platform's gateway, and removes there or waits in vain.
Looks == /\ w.pc = "lookup" /\ UNCHANGED platform
         /\ \/ w'.pc = "remove" /\ w'.ns = platform
            \/ w'.pc = "release" /\ (platform = NoGateway \/ gwNs[platform] # "active")

Removes == /\ w.pc = "remove" /\ w'.pc = "release" /\ UNCHANGED <<platform, now>>
           /\ w'.ns = w.ns \/ now - w.snap.delAt >= FinalizerTimeout

\* It starts from the grant as the cache shows it, and keeps that copy to its end.
LEMMA TeardownSteps ==
    ASSUME TypeOK, [Next]_vars, w'.pc \in Removing, w' # w
    PROVE  \/ /\ w'.pc = "lookup" /\ w'.snap = seen[w'.s] /\ seen[w'.s].st = "deleting"
           \/ w'.s = w.s /\ w'.snap = w.snap /\ (Looks \/ Removes)
<1>a. w \in Worker /\ w.s \in Sessions
  BY DEF TypeOK, Worker
<1>b. /\ \A requeue \in BOOLEAN : ~Finish(requeue)
      /\ ~(\E status : \E requeue \in BOOLEAN : Report(status, requeue))
      /\ ~Failed
  BY IdleWorkerType, ReportSays, FailedSays DEF Finish, Removing
<1>1. CASE w.pc \notin Removing
  <2>1. PICK s \in Sessions : Starts(s)
    BY <1>1, PassMoves DEF GoesOn, Removing
  <2> QED
    BY <2>1 DEF Starts, Removing, Publishing
<1>2. CASE w.pc \in Removing
  <2>1. gatewayNamespaceForTeardown \/ removeRegistration
    <3>1. \A x \in Sessions : ~Deliver(x)
      BY DEF Deliver, DeliverSession, DeliverNamespace, DeliverSecret, DeliverRegistration
    <3>2. ~Restart
      BY IdleWorkerType DEF Restart, Removing
    <3>3. ~(Tick \/ SweepStep \/ UNCHANGED vars \/ Environment)
      <4>1. ASSUME \/ \E x \in Sessions :
                       \/ \E ttl \in TTLs : CreateSession(x, ttl) \/ EditTTL(x, ttl)
                       \/ DeleteSession(x) \/ ForceDelete(x) \/ EndSessionNamespace(x)
                       \/ CollectSecret(x) \/ TamperSecret(x)
                   \/ CatalogChange \/ PlatformDelete \/ Tick \/ SweepStep \/ UNCHANGED vars
                   \/ \E g \in Gateways : PlatformMove(g) \/ GatewayNamespaceGone(g)
            PROVE  w' = w
        BY <4>1, <1>a, OthersQueue
      <4> QED
        BY <3>2, <4>1, Zenon DEF Environment
    <3>4. ~(AddFinalizer \/ resolveCatalog \/ readSecret \/ updateSecretURL \/ checkEnding
            \/ (\E k \in Keys : mintKey(k)) \/ writeSecret \/ ensureRegistration
            \/ recordOwner \/ updateSessionStatus
            \/ \E x \in Sessions, readable \in BOOLEAN : Reconcile(x, readable))
      BY <1>2 DEF AddFinalizer, resolveCatalog, readSecret, updateSecretURL, checkEnding,
         mintKey, writeSecret, ensureRegistration, recordOwner, updateSessionStatus,
         Reconcile, Removing
    <3>5. ~releaseSessionFinalizer
      BY <1>b DEF releaseSessionFinalizer
    <3> QED
      BY <3>1, <3>3, <3>4, <3>5, Zenon DEF Next, WorkerStep
  <2>2. CASE gatewayNamespaceForTeardown
    <3>1. /\ w.pc = "lookup" /\ UNCHANGED platform
          /\ \/ w' = [w EXCEPT !.pc = "remove", !.ns = platform]
             \/ /\ w' = [w EXCEPT !.pc = "release", !.ns = NoGateway]
                /\ platform = NoGateway \/ gwNs[platform] # "active"
      BY <1>b, <2>2 DEF gatewayNamespaceForTeardown, apiVars
    <3> QED
      BY <1>a, <3>1 DEF Looks, Worker
  <2>3. CASE removeRegistration
    <3>1. /\ w.pc = "remove" /\ UNCHANGED <<platform, now>>
          /\ \/ w' = [w EXCEPT !.pc = "release"]
             \/ /\ w' = [w EXCEPT !.pc = "release", !.ns = NoGateway]
                /\ ~(now - w.snap.delAt < FinalizerTimeout)
      BY <1>b, <2>3 DEF removeRegistration
    <3>2. now \in Nat /\ w.snap.delAt \in Nat /\ FinalizerTimeout \in Nat
      BY <1>a, ConstantsAssumption DEF TypeOK, Worker, Grant
    <3>3. now - w.snap.delAt < FinalizerTimeout \/ now - w.snap.delAt >= FinalizerTimeout
      BY <3>2
    <3>4. w'.pc = "release" /\ w'.s = w.s /\ w'.snap = w.snap
      BY <1>a, <3>1 DEF Worker
    <3>5. w' = [w EXCEPT !.pc = "release"] => w'.ns = w.ns
      BY <1>a DEF Worker
    <3> QED
      BY <3>1, <3>3, <3>4, <3>5 DEF Removes
  <2> QED
    BY <2>1, <2>2, <2>3
<1> QED
  BY <1>1, <1>2

\* No step of anybody ends a window early.
LEMMA PassWindowKept ==
    ASSUME TypeOK, PassInv, GuardInv, Behind, PassBehind, PlatformActive, PassWindow,
           "move" \notin Faults, [Next]_vars
    PROVE  PassWindow'
<1>a. /\ TypeOK' /\ w.s \in Sessions /\ w'.s \in Sessions
      /\ now \in Nat /\ now' \in Nat /\ w.snap.delAt \in Nat /\ FinalizerTimeout \in Nat
  <2>1. TypeOK'
    BY TypesKept
  <2> QED
    BY <2>1, ConstantsAssumption DEF TypeOK, Worker, Grant
<1>b. /\ platform' \in {platform, NoGateway} /\ now <= now'
      /\ platform # NoGateway => gwNs[platform] = "active"
  BY PlatformStays, ClockSteps DEF PlatformActive
<1>c. ASSUME NEW s \in Sessions, sess'[s].st = "deleting",
             sess[s].st \in {"deleting", "gone"}
      PROVE  sess[s].st = "deleting" /\ sess'[s].delAt = sess[s].delAt
  <2>1. sess'[s] = sess[s] \/ Opens(s) \/ Closes(s) \/ Amends(s) \/ Reports(s)
    BY GrantSteps
  <2>2. sess[s].st = "deleting"
    BY <1>c, <2>1 DEF Opens, Closes, Amends, Reports, Present
  <2> QED
    BY <1>c, <2>2, DeletionSteps
<1>d. ASSUME NEW s \in Sessions, seen[s].st = "deleting", sess'[s].st = "deleting"
      PROVE  seen[s].delAt = sess'[s].delAt
  <2>1. sess[s].st \in {"deleting", "gone"}
    BY <1>d DEF Behind
  <2> QED
    BY <1>c, <1>d, <2>1 DEF PassWindow
<1>1. ASSUME NEW s \in Sessions, seen'[s].st = "deleting", sess'[s].st = "deleting"
      PROVE  seen'[s].delAt = sess'[s].delAt
  BY <1>1, <1>d, CacheSteps
<1>2. ASSUME w.pc \in Removing, sess'[w.s].st = "deleting"
      PROVE  w.snap.delAt = sess'[w.s].delAt
  <2>1. sess[w.s].st \in {"deleting", "gone"}
    BY <1>2 DEF PassBehind
  <2> QED
    BY <1>2, <1>a, <1>c, <2>1 DEF PassWindow
<1>3. CASE w' = w
  <2>1. w.pc \in Removing /\ sess'[w.s].st = "deleting" => w.snap.delAt = sess'[w.s].delAt
    BY <1>2
  <2>2. w.pc = "remove" /\ platform' # NoGateway => w.ns = platform'
    BY <1>b DEF PassWindow
  <2>3. w.pc = "release" /\ platform' # NoGateway =>
           w.ns = platform' \/ now' - w.snap.delAt >= FinalizerTimeout
    BY <1>a, <1>b DEF PassWindow
  <2> QED
    BY <1>1, <1>3, <2>1, <2>2, <2>3 DEF PassWindow
<1>4. CASE w'.pc \notin Removing
  BY <1>1, <1>4 DEF PassWindow, Removing
<1>5. CASE w'.pc = "lookup" /\ w'.snap = seen[w'.s] /\ seen[w'.s].st = "deleting"
  BY <1>1, <1>5, <1>a, <1>d DEF PassWindow
<1>6. CASE w'.s = w.s /\ w'.snap = w.snap /\ (Looks \/ Removes)
  <2>1. sess'[w'.s].st = "deleting" => w'.snap.delAt = sess'[w'.s].delAt
    BY <1>2, <1>6 DEF Looks, Removes, Removing
  <2>2. w'.pc = "remove" /\ platform' # NoGateway => w'.ns = platform'
    BY <1>6 DEF Looks, Removes
  <2>3. w'.pc = "release" /\ platform' # NoGateway =>
           w'.ns = platform' \/ now' - w'.snap.delAt >= FinalizerTimeout
    BY <1>6, <1>b DEF Looks, Removes, PassWindow
  <2> QED
    BY <1>1, <2>1, <2>2, <2>3 DEF PassWindow
<1> QED
  BY <1>3, <1>4, <1>5, <1>6, TeardownSteps

\* While the gateway does not move, the window is kept, however many passes, restarts
\* and conflicts it takes. The hypothesis is needed: a pass that has cleaned the
\* namespace it looked up lets the grant go although the gateway has moved since.
THEOREM WindowStands ==
    ASSUME "move" \notin Faults
    PROVE  Spec => WindowKept
<1> DEFINE Window == PlatformActive /\ PassWindow
<1>1. Init => Window
  <2> SUFFICES ASSUME Init PROVE Window
    OBVIOUS
  <2>1. \A s \in Sessions : seen[s] = Absent
    BY DEF Init
  <2>2. w.pc = "idle" /\ \A g \in Gateways : gwNs[g] = "active"
    BY IdleWorkerType DEF Init
  <2>3. PlatformActive
    BY <2>2 DEF PlatformActive, Init
  <2> QED
    BY <2>1, <2>2, <2>3, GrantTypes DEF PassWindow, Removing
<1>2. /\ TypeOK /\ PassInv /\ GuardInv /\ Behind /\ PassBehind /\ Window /\ [Next]_vars
      => Window'
  BY ActiveKept, PassWindowKept
<1>3. TypeOK /\ GuardInv /\ Window /\ [Next]_vars =>
         [\A s \in Sessions :
             /\ sess[s].st = "deleting" /\ sess'[s].st = "gone" /\ w' # w
             /\ platform # NoGateway /\ reg[s][platform] # NoReg
             => now - sess[s].delAt >= FinalizerTimeout]_vars
  <2> SUFFICES ASSUME TypeOK, GuardInv, Window, [Next]_vars, NEW s \in Sessions,
                      sess[s].st = "deleting", sess'[s].st = "gone", w' # w,
                      platform # NoGateway, reg[s][platform] # NoReg
               PROVE  now - sess[s].delAt >= FinalizerTimeout
    OBVIOUS
  <2>1. w.pc = "release" /\ w.s = s
    BY DeletionSteps
  <2>2. w.ns # platform
    BY <2>1 DEF GuardInv
  <2> QED
    BY <2>1, <2>2 DEF PassWindow, Removing
<1>4. PassBehind /\ TypeOK /\ GuardInv /\ Behind /\ [Next]_vars => PassBehind'
  BY PassBehindKept
<1>5. Init => PassBehind
  BY IdleWorkerType DEF Init, PassBehind, Removing
<1> QED
  BY <1>1, <1>2, <1>3, <1>4, <1>5, TypeCorrect, RegistrationsGuarded, NoneStranded, PTL
     DEF Spec, WindowKept

=============================================================================
