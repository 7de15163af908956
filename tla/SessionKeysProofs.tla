--------------------------- MODULE SessionKeysProofs ---------------------------
(***************************************************************************)
(* Proofs about SessionKeys, for any number of grants, keys and gateway     *)
(* namespaces, any clock, any set of stale caches and any set of faults.    *)
(***************************************************************************)
EXTENDS SessionKeys, TLAPS

\* What each step of a pass hands to the next.
PassInv ==
    /\ w.pc \in (Publishing \ {"catalog"}) \union {"remove"} => w.ns \in Gateways
    /\ w.pc = "url" => w.live # NoSecret /\ w.live.key # NoKey
    /\ w.pc \in {"ending", "owner", "write"} => w.live = NoSecret \/ w.live.key = NoKey
    /\ w.pc \in {"write", "register"} => w.key # NoKey

--------------------------------------------------------------------------------
(***************************************************************************)
(* The values the model builds by hand have their types.                    *)
(***************************************************************************)

\* The status and the grants a variable starts from or is reset to are well typed.
LEMMA GrantTypes ==
    /\ NewStatus \in Status
    /\ Absent \in Grant /\ Absent.st = "none" /\ ~Absent.fin
    /\ Gone \in Grant /\ Gone.st = "gone" /\ ~Gone.fin
<1>1. NewStatus \in Status
  BY DEF NewStatus, Status
<1>2. (CHOOSE t \in TTLs : TRUE) \in TTLs
  BY ConstantsAssumption
<1>3. Absent \in Grant /\ Absent.st = "none" /\ ~Absent.fin
  BY <1>1, <1>2 DEF Absent, Grant
<1>4. Gone \in Grant /\ Gone.st = "gone" /\ ~Gone.fin
  BY <1>3 DEF Gone, Grant
<1> QED
  BY <1>1, <1>3, <1>4

\* The worker between passes is well typed.
LEMMA IdleWorkerType ==
    IdleWorker \in Worker /\ IdleWorker.pc = "idle"
<1>1. (CHOOSE s \in Sessions : TRUE) \in Sessions
  BY ConstantsAssumption
<1> QED
  BY <1>1, GrantTypes DEF IdleWorker, Worker

\* A pass that ends, with or without a status to write, leaves a well-typed
\* worker that publishes nothing.
LEMMA ReportType ==
    ASSUME TypeOK, NEW STATE status, status \in Status, NEW STATE requeue, requeue \in BOOLEAN,
           Report(status, requeue)
    PROVE  w' \in Worker /\ w'.pc = "status" /\ w'.s = w.s /\ queued' = queued
<1>1. w.s \in Sessions
  BY DEF TypeOK, Worker
<1>2. [IdleWorker.snap EXCEPT !.status = status] \in Grant
  BY IdleWorkerType DEF Worker, Grant
<1>3. w' = [IdleWorker EXCEPT !.pc = "status", !.s = w.s,
                              !.snap = [IdleWorker.snap EXCEPT !.status = status],
                              !.requeue = requeue]
  BY IdleWorkerType DEF Report, Worker
<1>4. queued' = queued
  BY DEF Report
<1> QED
  BY <1>1, <1>2, <1>3, <1>4, IdleWorkerType DEF Worker

\* Ending a pass without a status keeps the worker and the queue well typed.
LEMMA FinishType ==
    ASSUME TypeOK, NEW STATE requeue, requeue \in BOOLEAN, Finish(requeue)
    PROVE  w' \in Worker /\ w'.pc = "idle" /\ queued' \in [Sessions -> BOOLEAN]
BY IdleWorkerType DEF TypeOK, Finish, Worker

\* Recording a failed step keeps the worker and the queue well typed.
LEMMA FailedType ==
    ASSUME TypeOK, Failed
    PROVE  w' \in Worker /\ w'.pc = "status" /\ w'.s = w.s /\ queued' = queued
<1>1. [w.snap.status EXCEPT !.phase = "Failed"] \in Status
  BY DEF TypeOK, Worker, Grant, Status
<1> QED
  BY <1>1, ReportType DEF Failed

\* Writing one Secret, or one registration, keeps their types.
LEMMA SetSecretType ==
    ASSUME TypeOK, NEW s \in Sessions, NEW STATE obj, obj \in Secret \union {NoSecret},
           SetSecret(s, obj)
    PROVE  /\ secret' \in [Sessions -> Secret \union {NoSecret}]
           /\ secretEvent' \in [Sessions -> BOOLEAN]
BY DEF TypeOK, SetSecret, mapSecretToSession

\* Writing or deleting one registration keeps the registrations well typed.
LEMMA SetRegistrationType ==
    ASSUME TypeOK, NEW STATE s, s \in Sessions, NEW STATE g,
           NEW STATE entry, entry \in Registration \union {NoReg},
           reg' = [reg EXCEPT ![s][g] = entry]
    PROVE  reg' \in [Sessions -> [Gateways -> Registration \union {NoReg}]]
<1>1. reg[s] \in [Gateways -> Registration \union {NoReg}]
  BY DEF TypeOK
<1>2. [reg[s] EXCEPT ![g] = entry] \in [Gateways -> Registration \union {NoReg}]
  BY <1>1
<1>3. reg' = [reg EXCEPT ![s] = [reg[s] EXCEPT ![g] = entry]]
  BY DEF TypeOK
<1> QED
  BY <1>2, <1>3 DEF TypeOK

--------------------------------------------------------------------------------
(***************************************************************************)
(* Every step keeps the types, and what a pass hands on.                    *)
(***************************************************************************)

\* An informer's delivery keeps every type and the facts the pass relies on.
LEMMA DeliverTypes ==
    ASSUME TypeOK, PassInv, NEW s \in Sessions, Deliver(s)
    PROVE  TypeOK' /\ PassInv'
<1> USE DEF TypeOK, PassInv, apiVars, caches, secretVars, OperatorIdle
<1>1. CASE DeliverSession(s)
  BY <1>1 DEF DeliverSession, GenerationChanged
<1>2. CASE DeliverNamespace(s)
  BY <1>2 DEF DeliverNamespace
<1>3. CASE DeliverSecret(s)
  BY <1>3 DEF DeliverSecret
<1>4. CASE DeliverRegistration(s)
  BY <1>4 DEF DeliverRegistration
<1> QED
  BY <1>1, <1>2, <1>3, <1>4 DEF Deliver

\* An edit of the grants alone keeps every other type and the facts the pass
\* relies on.
LEMMA GrantsEdited ==
    ASSUME TypeOK, PassInv, sess' \in [Sessions -> Grant], OperatorIdle,
           UNCHANGED <<sessNs, secretVars, reg, gwNs, platform, catalog, now, excused>>
    PROVE  TypeOK' /\ PassInv'
<1>1. PassInv'
  BY DEF PassInv, OperatorIdle
<1> QED
  BY <1>1 DEF TypeOK, OperatorIdle, caches, secretVars

\* Replacing one grant by a well-typed one keeps the grants well typed.
LEMMA GrantReplaced ==
    ASSUME sess \in [Sessions -> Grant], NEW STATE s, s \in Sessions,
           NEW STATE grant, grant \in Grant, sess' = [sess EXCEPT ![s] = grant]
    PROVE  sess' \in [Sessions -> Grant]
OBVIOUS

\* The clock, outside edits, the sweep and a restart keep every type and the
\* facts the pass relies on.
LEMMA EnvironmentTypes ==
    ASSUME TypeOK, PassInv, Environment \/ Tick \/ SweepStep
    PROVE  TypeOK' /\ PassInv'
<1> USE DEF TypeOK, PassInv, apiVars, caches, secretVars, OperatorIdle
<1>1. ASSUME NEW s \in Sessions, NEW ttl \in TTLs, CreateSession(s, ttl) PROVE TypeOK' /\ PassInv'
  BY <1>1, GrantTypes DEF CreateSession, Grant
<1>2. ASSUME NEW s \in Sessions, NEW ttl \in TTLs, EditTTL(s, ttl) PROVE TypeOK' /\ PassInv'
  <2> HIDE DEF TypeOK, PassInv, caches, secretVars, OperatorIdle
  <2>1. sess \in [Sessions -> Grant] /\ sess[s] \in Grant
    BY DEF TypeOK
  <2>2. [sess[s] EXCEPT !.ttl = ttl] \in Grant
    BY <2>1 DEF Grant
  <2>3. sess' = [sess EXCEPT ![s] = [sess[s] EXCEPT !.ttl = ttl]]
    BY <1>2 DEF EditTTL
  <2>4. sess' \in [Sessions -> Grant]
    BY <2>1, <2>2, <2>3, GrantReplaced
  <2> QED
    BY <1>2, <2>4, GrantsEdited DEF EditTTL
<1>3. ASSUME NEW s \in Sessions, DeleteSession(s) PROVE TypeOK' /\ PassInv'
  <2> HIDE DEF TypeOK, PassInv, caches, secretVars, OperatorIdle
  <2> DEFINE after == IF sess[s].fin THEN [sess[s] EXCEPT !.st = "deleting", !.delAt = now]
                                     ELSE Gone
  <2>1. sess \in [Sessions -> Grant] /\ sess[s] \in Grant /\ now \in Nat
    BY DEF TypeOK
  <2>2. [sess[s] EXCEPT !.st = "deleting", !.delAt = now] \in Grant
    BY <2>1 DEF Grant
  <2>3. after \in Grant
    BY <2>2, GrantTypes
  <2>4. sess' = [sess EXCEPT ![s] = after]
    BY <1>3 DEF DeleteSession
  <2> HIDE DEF after
  <2>5. sess' \in [Sessions -> Grant]
    BY <2>1, <2>3, <2>4, GrantReplaced
  <2> QED
    BY <1>3, <2>5, GrantsEdited DEF DeleteSession
<1>4. ASSUME NEW s \in Sessions, ForceDelete(s) PROVE TypeOK' /\ PassInv'
  BY <1>4, GrantTypes DEF ForceDelete
<1>5. ASSUME NEW s \in Sessions, EndSessionNamespace(s) PROVE TypeOK' /\ PassInv'
  BY <1>5 DEF EndSessionNamespace, NsState
<1>6. ASSUME NEW s \in Sessions, CollectSecret(s) PROVE TypeOK' /\ PassInv'
  BY <1>6 DEF CollectSecret, SetSecret
<1>7. ASSUME NEW s \in Sessions, TamperSecret(s) PROVE TypeOK' /\ PassInv'
  <2>1. PICK obj \in Secret \union {NoSecret} : SetSecret(s, obj)
    <3>1. secret[s] \in Secret \union {NoSecret}
      OBVIOUS
    <3> QED
      BY <1>7, <3>1 DEF TamperSecret, Secret
  <2> QED
    BY <1>7, <2>1, SetSecretType DEF TamperSecret
<1>8. ASSUME CatalogChange PROVE TypeOK' /\ PassInv'
  BY <1>8 DEF CatalogChange
<1>9. ASSUME PlatformDelete PROVE TypeOK' /\ PassInv'
  BY <1>9 DEF PlatformDelete
<1>10. ASSUME NEW g \in Gateways, PlatformMove(g) PROVE TypeOK' /\ PassInv'
  BY <1>10 DEF PlatformMove
<1>11. ASSUME NEW g \in Gateways, GatewayNamespaceGone(g) PROVE TypeOK' /\ PassInv'
  BY <1>11 DEF GatewayNamespaceGone
<1>12. ASSUME Tick PROVE TypeOK' /\ PassInv'
  BY <1>12 DEF Tick
<1>13. ASSUME Restart PROVE TypeOK' /\ PassInv'
  BY <1>13, IdleWorkerType DEF Restart, Publishing
<1>14. ASSUME SweepList PROVE TypeOK' /\ PassInv'
  BY <1>14 DEF SweepList
<1>15. ASSUME NEW s \in Sessions, NEW g \in Gateways, SweepDelete(s, g) PROVE TypeOK' /\ PassInv'
  <2>1. reg' \in [Sessions -> [Gateways -> Registration \union {NoReg}]]
    BY <1>15, SetRegistrationType DEF SweepDelete
  <2> QED
    BY <1>15, <2>1 DEF SweepDelete
<1> QED
  BY <1>1, <1>2, <1>3, <1>4, <1>5, <1>6, <1>7, <1>8, <1>9, <1>10, <1>11, <1>12, <1>13, <1>14,
     <1>15 DEF Environment, SweepStep

\* The three ways a pass ends: nothing is handed on.
LEMMA PassEnds ==
    ASSUME TypeOK,
           \/ \E requeue \in BOOLEAN : Finish(requeue)
           \/ \E status \in Status, requeue \in BOOLEAN : Report(status, requeue)
           \/ Failed
    PROVE  w' \in Worker /\ queued' \in [Sessions -> BOOLEAN] /\ PassInv'
<1>1. w' \in Worker /\ queued' \in [Sessions -> BOOLEAN] /\ w'.pc \in {"idle", "status"}
  <2>1. CASE \E requeue \in BOOLEAN : Finish(requeue)
    BY <2>1, FinishType
  <2>2. CASE \E status \in Status, requeue \in BOOLEAN : Report(status, requeue)
    BY <2>2, ReportType DEF TypeOK
  <2>3. CASE Failed
    BY <2>3, FailedType DEF TypeOK
  <2> QED
    BY <2>1, <2>2, <2>3
<1> QED
  BY <1>1 DEF PassInv, Publishing

\* Every step of the reconcile worker, the teardown's included, keeps every type
\* and the facts the pass relies on.
LEMMA WorkerTypes ==
    ASSUME TypeOK, PassInv, WorkerStep
    PROVE  TypeOK' /\ PassInv'
<1> DEFINE Keeps == TypeOK' /\ PassInv'
           Moves == w' \in Worker /\ queued' \in [Sessions -> BOOLEAN] /\ PassInv'
<1>a. /\ w \in Worker /\ w.s \in Sessions /\ w.snap \in Grant
      /\ queued \in [Sessions -> BOOLEAN]
      /\ w.snap.status \in Status
      /\ w.live \in Secret \union {NoSecret}
  BY DEF TypeOK, Worker, Grant
<1>b. \A ph \in {"Pending", "Terminating"} :
         /\ [w.snap.status EXCEPT !.phase = ph] \in Status
         /\ [w.snap.status EXCEPT !.ready = FALSE, !.phase = ph] \in Status
  BY <1>a DEF Status
<1>1. ASSUME NEW s \in Sessions, NEW readable \in BOOLEAN, Reconcile(s, readable)
      PROVE  Keeps
  <2>1. seen[s] \in Grant /\ seen[s].status \in Status
    BY DEF TypeOK, Grant
  <2>2. [seen[s].status EXCEPT !.ready = FALSE, !.phase = "Rejected"] \in Status
    BY <2>1 DEF Status
  <2>3. [IdleWorker.snap EXCEPT !.status =
            [seen[s].status EXCEPT !.ready = FALSE, !.phase = "Rejected"]] \in Grant
    BY <2>2, IdleWorkerType DEF Worker, Grant
  <2> DEFINE started(pc) == [IdleWorker EXCEPT !.pc = pc, !.s = s, !.snap = seen[s]]
             refused == [IdleWorker EXCEPT !.pc = "status", !.s = s,
                            !.snap = [IdleWorker.snap EXCEPT !.status =
                                [seen[s].status EXCEPT !.ready = FALSE, !.phase = "Rejected"]]]
  <2>a. \A pc \in {"catalog", "finalizer", "lookup"} :
           started(pc) \in Worker /\ started(pc).pc = pc
    BY <2>1, IdleWorkerType DEF Worker
  <2>b. refused \in Worker /\ refused.pc = "status"
    BY <2>3, IdleWorkerType DEF Worker
  <2>c. \/ w' = w \/ w' = refused
        \/ \E pc \in {"catalog", "finalizer", "lookup"} : w' = started(pc)
    BY <1>1, IdleWorkerType DEF Reconcile, placementValid, reject, Worker
  <2>4. w' \in Worker /\ (w' = w \/ w'.pc \in {"catalog", "finalizer", "status", "lookup"})
    <3> HIDE DEF started, refused
    <3> QED
      BY <1>a, <2>a, <2>b, <2>c
  <2>5. PassInv'
    BY <2>4 DEF PassInv, Publishing
  <2> QED
    BY <1>1, <2>4, <2>5 DEF Reconcile, placementValid, reject, TypeOK, apiVars, caches
<1>2. ASSUME AddFinalizer PROVE Keeps
  <2>1. CASE Finish(TRUE) /\ UNCHANGED sess
    BY <1>2, <2>1, PassEnds DEF AddFinalizer, TypeOK, caches, secretVars
  <2>2. CASE /\ sess' = [sess EXCEPT ![w.s].fin = TRUE] /\ UNCHANGED queued
             /\ w' = [w EXCEPT !.pc = "catalog", !.snap.fin = TRUE]
    <3>1. sess' \in [Sessions -> Grant]
      <4>1. sess \in [Sessions -> Grant] /\ sess[w.s] \in Grant
        BY <1>a DEF TypeOK
      <4>2. [sess[w.s] EXCEPT !.fin = TRUE] \in Grant
        BY <4>1 DEF Grant
      <4>3. sess' = [sess EXCEPT ![w.s] = [sess[w.s] EXCEPT !.fin = TRUE]]
        BY <2>2
      <4> QED
        BY <1>a, <4>1, <4>2, <4>3, GrantReplaced
    <3>2. w' \in Worker /\ w'.pc = "catalog"
      BY <1>a, <2>2 DEF Worker, Grant
    <3>3. PassInv'
      BY <3>2 DEF PassInv, Publishing
    <3> QED
      BY <1>2, <2>2, <3>1, <3>2, <3>3 DEF AddFinalizer, TypeOK, caches, secretVars
  <2> QED
    BY <1>2, <2>1, <2>2 DEF AddFinalizer
<1>3. ASSUME resolveCatalog PROVE Keeps
  <2>1. CASE /\ catalog # NoGateway /\ platform # NoGateway /\ UNCHANGED queued
             /\ w' = [w EXCEPT !.pc = "secret", !.url = catalog, !.ns = platform]
    <3>1. w' \in Worker /\ w'.pc = "secret" /\ w'.ns \in Gateways
      BY <1>a, <2>1 DEF TypeOK, Worker
    <3> QED
      BY <1>3, <2>1, <3>1 DEF resolveCatalog, TypeOK, PassInv, apiVars, caches
  <2>2. CASE \/ Report([w.snap.status EXCEPT !.ready = FALSE, !.phase = "Pending"], TRUE)
             \/ Finish(TRUE)
    BY <1>3, <1>b, <2>2, PassEnds DEF resolveCatalog, TypeOK, apiVars, caches
  <2> QED
    BY <1>3, <2>1, <2>2 DEF resolveCatalog
<1>4. ASSUME readSecret PROVE Keeps
  <2>1. secretSeen[w.s] \in Secret \union {NoSecret}
    BY <1>a DEF TypeOK
  <2> DEFINE live == secretSeen[w.s]
             hasKey == live # NoSecret /\ live.key # NoKey
  <2>a. hasKey => live.key \in Keys
    BY <2>1 DEF Secret
  <2>b. w.ns \in Gateways /\ queued' = queued
    BY <1>4 DEF readSecret, PassInv, Publishing
  <2>c. \/ hasKey /\ w' = [w EXCEPT !.pc = "register", !.key = live.key]
        \/ hasKey /\ w' = [w EXCEPT !.pc = "url", !.live = live]
        \/ ~hasKey /\ w' = [w EXCEPT !.pc = "ending", !.live = live]
        \/ Failed
    BY <1>4 DEF readSecret
  <2>d. ASSUME hasKey, w' = [w EXCEPT !.pc = "register", !.key = live.key] PROVE Moves
    <3>1. w' \in Worker /\ w'.pc = "register" /\ w'.key = live.key /\ w'.ns = w.ns
      BY <1>a, <2>a, <2>d DEF Worker
    <3> QED
      BY <1>a, <2>b, <2>d, <3>1 DEF PassInv
  <2>e. ASSUME hasKey, w' = [w EXCEPT !.pc = "url", !.live = live] PROVE Moves
    <3>1. w' \in Worker /\ w'.pc = "url" /\ w'.live = live /\ w'.ns = w.ns
      BY <1>a, <2>1, <2>e DEF Worker
    <3> QED
      BY <1>a, <2>b, <2>e, <3>1 DEF PassInv
  <2>f. ASSUME ~hasKey, w' = [w EXCEPT !.pc = "ending", !.live = live] PROVE Moves
    <3>1. w' \in Worker /\ w'.pc = "ending" /\ w'.live = live /\ w'.ns = w.ns
      BY <1>a, <2>1, <2>f DEF Worker
    <3> QED
      BY <1>a, <2>b, <2>f, <3>1 DEF PassInv
  <2>2. Moves
    <3> HIDE DEF live, hasKey
    <3> QED
      BY <2>c, <2>d, <2>e, <2>f, PassEnds
  <2> QED
    BY <1>4, <2>2 DEF readSecret, TypeOK, apiVars, caches
<1>5. ASSUME updateSecretURL PROVE Keeps
  <2>1. CASE Failed /\ UNCHANGED secretVars
    BY <1>5, <2>1, PassEnds DEF updateSecretURL, TypeOK, caches, secretVars
  <2>2. CASE /\ secret[w.s] = w.live
             /\ SetSecret(w.s, [secret[w.s] EXCEPT !.url = w.url])
             /\ w' = [w EXCEPT !.pc = "register", !.key = w.live.key, !.live = NoSecret]
             /\ UNCHANGED queued
    <3>1. w.live # NoSecret /\ w.live.key # NoKey /\ w.ns \in Gateways
      BY <1>5 DEF updateSecretURL, PassInv, Publishing
    <3>2. w.live.key \in Keys \union {NoKey} /\ w.url \in Gateways \union {NoGateway}
      BY <1>a, <3>1 DEF Secret, Worker
    <3>3. [secret[w.s] EXCEPT !.url = w.url] \in Secret
      BY <1>a, <2>2, <3>1, <3>2 DEF Secret
    <3>4. /\ secret' \in [Sessions -> Secret \union {NoSecret}]
          /\ secretEvent' \in [Sessions -> BOOLEAN]
      BY <1>a, <2>2, <3>3, SetSecretType
    <3>5. w' \in Worker /\ PassInv'
      BY <1>a, <2>2, <3>1, <3>2 DEF Worker, PassInv, Publishing
    <3> QED
      BY <1>5, <2>2, <3>4, <3>5 DEF updateSecretURL, TypeOK, caches
  <2> QED
    BY <1>5, <2>1, <2>2 DEF updateSecretURL
<1>6. ASSUME checkEnding PROVE Keeps
  <2>1. CASE w' = [w EXCEPT !.pc = "owner"] /\ UNCHANGED queued
    <3>1. w' \in Worker /\ PassInv'
      BY <1>6, <1>a, <2>1 DEF checkEnding, Worker, PassInv, Publishing
    <3> QED
      BY <1>6, <2>1, <3>1 DEF checkEnding, TypeOK, apiVars, caches
  <2>2. CASE \/ Report([w.snap.status EXCEPT !.phase = "Terminating"], FALSE)
             \/ Failed
    BY <1>6, <1>b, <2>2, PassEnds DEF checkEnding, TypeOK, apiVars, caches
  <2> QED
    BY <1>6, <2>1, <2>2 DEF checkEnding
<1>7. ASSUME NEW k \in Keys, mintKey(k) PROVE Keeps
  <2>1. CASE Failed
    BY <1>7, <2>1, PassEnds DEF mintKey, setSessionNamespaceOwner, TypeOK, apiVars, caches
  <2>2. CASE /\ w' = [w EXCEPT !.pc = "write", !.key = k,
                                !.owned = nsSeen[w.s] \in {"active", "terminating"}]
             /\ UNCHANGED queued
    <3> DEFINE owned == nsSeen[w.s] \in {"active", "terminating"}
    <3>0. owned \in BOOLEAN /\ w' = [w EXCEPT !.pc = "write", !.key = k, !.owned = owned]
      BY <2>2
    <3> HIDE DEF owned
    <3>1. w' \in Worker /\ w'.pc = "write" /\ w'.key = k /\ w'.live = w.live /\ w'.ns = w.ns
      BY <1>a, <3>0 DEF Worker
    <3>2. k # NoKey
      BY ConstantsAssumption
    <3>3. PassInv'
      BY <1>7, <3>1, <3>2 DEF mintKey, setSessionNamespaceOwner, PassInv, Publishing
    <3> QED
      BY <1>7, <2>2, <3>1, <3>3 DEF mintKey, setSessionNamespaceOwner, TypeOK, apiVars, caches
  <2> QED
    BY <1>7, <2>1, <2>2 DEF mintKey, setSessionNamespaceOwner
<1>8. ASSUME writeSecret PROVE Keeps
  <2> DEFINE minted(owned) == [key |-> w.key, url |-> w.url, owned |-> owned, labelled |-> TRUE]
             registers(k) == /\ w' = [w EXCEPT !.pc = "register", !.key = k,
                                               !.live = NoSecret, !.owned = FALSE]
                             /\ UNCHANGED queued
  <2>1. w.key \in Keys /\ w.url \in Gateways \union {NoGateway} /\ w.ns \in Gateways
    BY <1>8, <1>a DEF writeSecret, PassInv, Publishing, Worker
  <2>2. ASSUME NEW k \in Keys, registers(k)
        PROVE  w' \in Worker /\ PassInv' /\ queued' \in [Sessions -> BOOLEAN]
    <3>1. w' \in Worker /\ w'.pc = "register" /\ w'.key = k /\ w'.ns = w.ns
      BY <1>a, <2>2 DEF Worker
    <3> QED
      BY <1>a, <2>1, <2>2, <3>1, ConstantsAssumption DEF PassInv
  <2>3. CASE Failed /\ UNCHANGED secretVars
    BY <1>8, <2>3, PassEnds DEF writeSecret, TypeOK, caches, secretVars
  <2>4. ASSUME NEW owned \in BOOLEAN, SetSecret(w.s, minted(owned)), registers(w.key)
        PROVE  Keeps
    <3>1. minted(owned) \in Secret
      BY <2>1 DEF Secret
    <3>2. /\ secret' \in [Sessions -> Secret \union {NoSecret}]
          /\ secretEvent' \in [Sessions -> BOOLEAN]
      BY <1>a, <2>4, <3>1, SetSecretType
    <3> QED
      BY <1>8, <2>1, <2>2, <2>4, <3>2 DEF writeSecret, TypeOK, caches
  <2>5. CASE /\ secretSeen[w.s] # NoSecret /\ secretSeen[w.s].key # NoKey
             /\ registers(secretSeen[w.s].key) /\ UNCHANGED secretVars
    <3>1. secretSeen[w.s].key \in Keys
      BY <1>a, <2>5 DEF TypeOK, Secret
    <3> QED
      BY <1>8, <2>2, <2>5, <3>1 DEF writeSecret, TypeOK, caches, secretVars
  <2>6. w.owned \in BOOLEAN /\ (w.live # NoSecret => w.live.owned \in BOOLEAN)
    BY <1>a DEF Worker, Secret
  <2> QED
    BY <1>8, <2>3, <2>4, <2>5, <2>6 DEF writeSecret
<1>9. ASSUME ensureRegistration PROVE Keeps
  <2> DEFINE desired == [hash |-> Hash(w.key), exp |-> expiryFor(w.snap)]
             done == /\ w' = [w EXCEPT !.pc = "record", !.key = NoKey, !.ns = NoGateway,
                                       !.url = NoGateway]
                     /\ UNCHANGED queued
  <2>1. w.key \in Keys
    BY <1>9, <1>a DEF ensureRegistration, PassInv, Worker
  <2>2. desired \in Registration
    <3>1. w.snap.created \in Nat /\ w.snap.ttl \in Nat
      BY <1>a, ConstantsAssumption DEF Grant
    <3>2. expiryFor(w.snap) \in Nat
      BY <3>1 DEF expiryFor
    <3>3. Hash(w.key) \in [sha256 : Keys]
      BY <2>1 DEF Hash
    <3> QED
      BY <3>2, <3>3 DEF Registration
  <2>3. CASE Failed /\ UNCHANGED reg
    BY <1>9, <2>3, PassEnds DEF ensureRegistration, TypeOK, caches, secretVars
  <2>4. CASE done /\ (UNCHANGED reg \/ reg' = [reg EXCEPT ![w.s][w.ns] = desired])
    <3>1. reg' \in [Sessions -> [Gateways -> Registration \union {NoReg}]]
      <4>1. CASE UNCHANGED reg
        BY <4>1 DEF TypeOK
      <4>2. CASE reg' = [reg EXCEPT ![w.s][w.ns] = desired]
        <5> HIDE DEF desired
        <5> QED
          BY <4>2, <1>a, <2>2, SetRegistrationType
      <4> QED
        BY <2>4, <4>1, <4>2
    <3>2. w' \in Worker /\ PassInv'
      BY <1>a, <2>4 DEF Worker, PassInv, Publishing
    <3> QED
      BY <1>9, <2>4, <3>1, <3>2 DEF ensureRegistration, TypeOK, caches, secretVars
  <2> QED
    BY <1>9, <2>3, <2>4 DEF ensureRegistration
<1>10. ASSUME recordOwner PROVE Keeps
  <2>1. CASE Finish(TRUE)
    BY <1>10, <2>1, PassEnds DEF recordOwner, secretOwnerNamespace, TypeOK, apiVars, caches
  <2>2. CASE \E recorded \in BOOLEAN :
               Report([phase |-> "Ready", ready |-> TRUE, recorded |-> recorded], FALSE)
    <3>1. PICK status \in Status : Report(status, FALSE)
      BY <2>2 DEF Status
    <3> QED
      BY <1>10, <3>1, PassEnds DEF recordOwner, secretOwnerNamespace, TypeOK, apiVars, caches
  <2> QED
    BY <1>10, <2>1, <2>2 DEF recordOwner
<1>11. ASSUME updateSessionStatus PROVE Keeps
  <2>1. sess' \in [Sessions -> Grant]
    <3>1. sess[w.s] \in Grant
      BY <1>a DEF TypeOK
    <3>2. [sess[w.s] EXCEPT !.status = w.snap.status] \in Grant
      BY <1>a, <3>1 DEF Grant
    <3>3. \/ UNCHANGED sess
          \/ sess' = [sess EXCEPT ![w.s] = [sess[w.s] EXCEPT !.status = w.snap.status]]
      BY <1>11 DEF updateSessionStatus
    <3> QED
      BY <3>2, <3>3 DEF TypeOK
  <2>2. w.requeue \in BOOLEAN
    BY <1>a DEF Worker
  <2> QED
    BY <1>11, <2>1, <2>2, PassEnds DEF updateSessionStatus, TypeOK, caches, secretVars
<1>12. ASSUME gatewayNamespaceForTeardown PROVE Keeps
  <2>1. CASE Finish(TRUE)
    BY <1>12, <2>1, PassEnds DEF gatewayNamespaceForTeardown, TypeOK, apiVars, caches
  <2>2. CASE /\ UNCHANGED queued
             /\ \/ platform # NoGateway /\ w' = [w EXCEPT !.pc = "remove", !.ns = platform]
                \/ w' = [w EXCEPT !.pc = "release", !.ns = NoGateway]
    <3>1. ASSUME platform # NoGateway, w' = [w EXCEPT !.pc = "remove", !.ns = platform]
          PROVE  w' \in Worker /\ PassInv'
      <4>1. w' \in Worker /\ w'.pc = "remove" /\ w'.ns \in Gateways
        BY <1>a, <3>1 DEF TypeOK, Worker
      <4> QED
        BY <4>1 DEF PassInv
    <3>2. ASSUME w' = [w EXCEPT !.pc = "release", !.ns = NoGateway]
          PROVE  w' \in Worker /\ PassInv'
      <4>1. w' \in Worker /\ w'.pc = "release"
        BY <1>a, <3>2 DEF Worker
      <4> QED
        BY <4>1 DEF PassInv, Publishing
    <3>3. w' \in Worker /\ PassInv'
      BY <2>2, <3>1, <3>2
    <3> QED
      BY <1>12, <2>2, <3>3 DEF gatewayNamespaceForTeardown, TypeOK, apiVars, caches
  <2> QED
    BY <1>12, <2>1, <2>2 DEF gatewayNamespaceForTeardown
<1>13. ASSUME removeRegistration PROVE Keeps
  <2>1. reg' \in [Sessions -> [Gateways -> Registration \union {NoReg}]]
    BY <1>13, <1>a, SetRegistrationType DEF removeRegistration, TypeOK
  <2>2. CASE Finish(TRUE)
    BY <1>13, <2>1, <2>2, PassEnds DEF removeRegistration, TypeOK, caches, secretVars
  <2>3. CASE /\ UNCHANGED queued
             /\ \/ w' = [w EXCEPT !.pc = "release"]
                \/ w' = [w EXCEPT !.pc = "release", !.ns = NoGateway]
    <3>1. w' \in Worker /\ PassInv'
      <4>1. CASE w' = [w EXCEPT !.pc = "release"]
        BY <1>a, <4>1 DEF Worker, PassInv, Publishing
      <4>2. CASE w' = [w EXCEPT !.pc = "release", !.ns = NoGateway]
        BY <1>a, <4>2 DEF Worker, PassInv, Publishing
      <4> QED
        BY <2>3, <4>1, <4>2
    <3> QED
      BY <1>13, <2>1, <2>3, <3>1 DEF removeRegistration, TypeOK, caches, secretVars
  <2> QED
    BY <1>13, <2>2, <2>3 DEF removeRegistration
<1>14. ASSUME releaseSessionFinalizer PROVE Keeps
  <2>1. sess' \in [Sessions -> Grant] /\ excused' \in [Sessions -> SUBSET Gateways]
    <3>1. \/ UNCHANGED <<sess, excused>>
          \/ /\ sess' = [sess EXCEPT ![w.s] = Gone]
             /\ excused' = [excused EXCEPT ![w.s] = @ \union (Gateways \ {w.ns})]
      BY <1>14 DEF releaseSessionFinalizer
    <3>2. excused[w.s] \union (Gateways \ {w.ns}) \in SUBSET Gateways
      BY <1>a DEF TypeOK
    <3>3. sess \in [Sessions -> Grant] /\ excused \in [Sessions -> SUBSET Gateways]
      BY DEF TypeOK
    <3>4. sess' \in [Sessions -> Grant]
      BY <1>a, <3>1, <3>3, GrantTypes, GrantReplaced
    <3>5. excused' \in [Sessions -> SUBSET Gateways]
      BY <1>a, <3>1, <3>2, <3>3
    <3> QED
      BY <3>4, <3>5
  <2> QED
    BY <1>14, <2>1, PassEnds DEF releaseSessionFinalizer, TypeOK, caches, secretVars
<1> QED
  BY <1>1, <1>2, <1>3, <1>4, <1>5, <1>6, <1>7, <1>8, <1>9, <1>10, <1>11, <1>12, <1>13, <1>14
     DEF WorkerStep

\* Every variable keeps its type, and every step of a pass finds what it needs:
\* a namespace before it writes or deletes there, a key before it publishes one,
\* and no key in the Secret it is about to write a fresh one into.
THEOREM TypeCorrect == Spec => [](TypeOK /\ PassInv)
<1>1. Init => TypeOK /\ PassInv
  <2> SUFFICES ASSUME Init PROVE TypeOK /\ PassInv
    OBVIOUS
  <2>1. PassInv
    BY IdleWorkerType DEF Init, PassInv, Publishing
  <2> QED
    BY <2>1, IdleWorkerType, GrantTypes DEF Init, TypeOK, NsState
<1>2. TypeOK /\ PassInv /\ [Next]_vars => TypeOK' /\ PassInv'
  <2> SUFFICES ASSUME TypeOK, PassInv, [Next]_vars PROVE TypeOK' /\ PassInv'
    OBVIOUS
  <2>1. CASE \E s \in Sessions : Deliver(s)
    BY <2>1, DeliverTypes
  <2>2. CASE WorkerStep
    BY <2>2, WorkerTypes
  <2>3. CASE Environment \/ Tick \/ SweepStep
    BY <2>3, EnvironmentTypes
  <2>4. CASE UNCHANGED vars
    BY <2>4 DEF vars, TypeOK, PassInv
  <2> QED
    BY <2>1, <2>2, <2>3, <2>4 DEF Next
<1> QED
  BY <1>1, <1>2, PTL DEF Spec

--------------------------------------------------------------------------------
(***************************************************************************)
(* No key is rotated under an attendee.                                     *)
(***************************************************************************)

\* ensureSecret never overwrites a key: a step that leaves a Secret holding one
\* leaves it the same one, or has only emptied it. TypeCorrect supplies what
\* writeSecret needs, that the copy it updates was read without a key.
THEOREM KeysAreNotRotated == Spec => NoSilentRotation
<1> DEFINE Kept == \A s \in Sessions :
                      secret[s] # NoSecret /\ secret'[s] # NoSecret /\ secret[s].key # NoKey
                          => secret'[s].key \in {secret[s].key, NoKey}
<1>1. TypeOK /\ PassInv /\ [Next]_vars => [Kept]_vars
  <2> SUFFICES ASSUME TypeOK, PassInv, Next PROVE Kept
    OBVIOUS
  <2>1. CASE UNCHANGED secret
    BY <2>1
  <2>2. ASSUME updateSecretURL PROVE Kept
    <3>1. w.s \in Sessions /\ w.live # NoSecret /\ w.live \in Secret \union {NoSecret}
      BY <2>2 DEF updateSecretURL, PassInv, TypeOK, Worker
    <3>2. \/ UNCHANGED secret
          \/ /\ secret[w.s] = w.live
             /\ secret' = [secret EXCEPT ![w.s] = [secret[w.s] EXCEPT !.url = w.url]]
      BY <2>2 DEF updateSecretURL, SetSecret, secretVars
    <3>3. [w.live EXCEPT !.url = w.url].key = w.live.key
      BY <3>1 DEF Secret
    <3>4. secret[w.s] = w.live => [secret[w.s] EXCEPT !.url = w.url].key = secret[w.s].key
      BY <3>3
    <3>5. secret \in [Sessions -> Secret \union {NoSecret}]
      BY DEF TypeOK
    <3>6. \A s \in Sessions : secret'[s] = secret[s] \/ secret'[s].key = secret[s].key
      BY <3>1, <3>2, <3>4, <3>5
    <3> QED
      BY <3>6
  <2>3. ASSUME writeSecret PROVE Kept
    <3>1. w.live = NoSecret \/ w.live.key = NoKey
      BY <2>3 DEF writeSecret, PassInv
    <3>2. \/ UNCHANGED secret
          \/ /\ secret[w.s] = w.live
             /\ \E obj : secret' = [secret EXCEPT ![w.s] = obj]
      BY <2>3 DEF writeSecret, SetSecret, secretVars
    <3> QED
      BY <3>1, <3>2 DEF TypeOK
  <2>4. ASSUME NEW s \in Sessions, CollectSecret(s) PROVE Kept
    BY <2>4 DEF CollectSecret, SetSecret, TypeOK
  <2>5. ASSUME NEW s \in Sessions, TamperSecret(s) PROVE Kept
    <3>1. \/ secret' = [secret EXCEPT ![s] = NoSecret]
          \/ secret[s] # NoSecret /\ secret' = [secret EXCEPT ![s] = [secret[s] EXCEPT !.key = NoKey]]
          \/ secret[s] = NoSecret /\ \E obj : secret' = [secret EXCEPT ![s] = obj]
      BY <2>5 DEF TamperSecret, SetSecret
    <3>2. secret[s] # NoSecret => [secret[s] EXCEPT !.key = NoKey].key = NoKey
      BY DEF TypeOK, Secret
    <3> QED
      BY <3>1, <3>2 DEF TypeOK
  <2>6. ASSUME NEW s \in Sessions, Deliver(s) PROVE UNCHANGED secret
    BY <2>6 DEF Deliver, DeliverSession, DeliverNamespace, DeliverSecret, DeliverRegistration,
                apiVars
  <2>7. CASE WorkerStep
    <3>1. \/ UNCHANGED secret \/ updateSecretURL \/ writeSecret
      BY <2>7 DEF WorkerStep, Reconcile, reject, AddFinalizer, resolveCatalog, readSecret,
                  checkEnding, mintKey, ensureRegistration, recordOwner, updateSessionStatus,
                  gatewayNamespaceForTeardown, removeRegistration, releaseSessionFinalizer,
                  apiVars, secretVars
    <3> QED
      BY <2>1, <2>2, <2>3, <3>1
  <2>8. CASE SweepStep \/ Tick
    BY <2>1, <2>8 DEF SweepStep, SweepList, SweepDelete, Tick, apiVars, secretVars
  <2>9. CASE Environment
    <3>1. \/ UNCHANGED secret
          \/ \E s \in Sessions : CollectSecret(s) \/ TamperSecret(s)
      BY <2>9 DEF Environment, CreateSession, EditTTL, DeleteSession, ForceDelete,
                  EndSessionNamespace, CatalogChange, PlatformDelete, PlatformMove,
                  GatewayNamespaceGone, Restart, secretVars
    <3> QED
      BY <2>1, <2>4, <2>5, <3>1
  <2> QED
    BY <2>1, <2>6, <2>7, <2>8, <2>9 DEF Next
<1> QED
  BY <1>1, TypeCorrect, PTL DEF Spec, NoSilentRotation

--------------------------------------------------------------------------------
(***************************************************************************)
(* A registration always has someone bound to remove it.                    *)
(***************************************************************************)

\* A step of a pass that touches neither grants nor registrations, and either
\* goes on towards publishing for the same grant or gives that up.
LEMMA PassGoesOn ==
    ASSUME GuardInv, RegistrationGuarded, UNCHANGED <<sess, seen, reg, excused>>,
           \/ w'.pc \in {"idle", "status", "record"}
           \/ w.pc \in Publishing /\ w'.pc \in Publishing /\ w'.s = w.s
    PROVE  GuardInv' /\ RegistrationGuarded'
BY DEF GuardInv, RegistrationGuarded, Publishing

\* No step of the reconcile worker leaves a registration without the finalizer
\* that will remove it.
LEMMA GuardWorker ==
    ASSUME TypeOK, PassInv, GuardInv, RegistrationGuarded, WorkerStep
    PROVE  GuardInv' /\ RegistrationGuarded'
<1> DEFINE Keeps == GuardInv' /\ RegistrationGuarded'
           Ends == w'.pc \in {"idle", "status"}
<1>a. /\ w \in Worker /\ w.s \in Sessions
      /\ sess \in [Sessions -> Grant] /\ seen \in [Sessions -> Grant]
      /\ excused \in [Sessions -> SUBSET Gateways]
      /\ reg \in [Sessions -> [Gateways -> Registration \union {NoReg}]]
  BY DEF TypeOK, Worker
<1>b. /\ \A requeue \in BOOLEAN : Finish(requeue) => Ends
      /\ \A status, requeue : Report(status, requeue) => Ends
      /\ Failed => Ends
  BY IdleWorkerType DEF Finish, Report, Failed, Worker
<1>1. ASSUME NEW s \in Sessions, NEW readable \in BOOLEAN, Reconcile(s, readable)
      PROVE  Keeps
  <2>1. \/ w' = w
        \/ w'.pc \in {"status", "lookup"}
        \/ /\ w'.s = s /\ w'.snap = seen[s] /\ seen[s].st = "live"
           /\ w'.pc = IF seen[s].fin THEN "catalog" ELSE "finalizer"
    BY <1>1, IdleWorkerType DEF Reconcile, placementValid, reject, Worker
  <2> QED
    BY <1>1, <2>1 DEF Reconcile, placementValid, reject, GuardInv, RegistrationGuarded,
                      Publishing, apiVars, caches
<1>2. ASSUME AddFinalizer PROVE Keeps
  <2>1. CASE Finish(TRUE) /\ UNCHANGED sess
    BY <1>2, <1>b, <2>1, PassGoesOn DEF AddFinalizer, caches
  <2>2. CASE /\ sess[w.s] = w.snap
             /\ sess' = [sess EXCEPT ![w.s].fin = TRUE]
             /\ w' = [w EXCEPT !.pc = "catalog", !.snap.fin = TRUE]
    <3>1. w.snap.st = "live"
      BY <1>2 DEF AddFinalizer, GuardInv
    <3>2. w'.pc = "catalog" /\ w'.s = w.s
      BY <1>a, <2>2 DEF Worker
    <3>3. /\ sess'[w.s].fin /\ sess'[w.s].st = "live"
          /\ \A s \in Sessions \ {w.s} : sess'[s] = sess[s]
      BY <1>a, <2>2, <3>1 DEF Grant
    <3>4. UNCHANGED <<seen, reg, excused>>
      BY <1>2 DEF AddFinalizer, caches
    <3> QED
      BY <3>2, <3>3, <3>4, <1>a DEF GuardInv, RegistrationGuarded, Publishing
  <2> QED
    BY <1>2, <2>1, <2>2 DEF AddFinalizer
<1>3. ASSUME \/ resolveCatalog \/ readSecret \/ updateSecretURL \/ checkEnding
             \/ (\E k \in Keys : mintKey(k)) \/ writeSecret \/ recordOwner
      PROVE  Keeps
  <2>1. UNCHANGED <<sess, seen, reg, excused>>
    BY <1>3 DEF resolveCatalog, readSecret, updateSecretURL, checkEnding, mintKey, writeSecret,
                recordOwner, apiVars, caches
  <2>2. \/ Ends
        \/ w.pc \in Publishing /\ w'.pc \in Publishing /\ w'.s = w.s
    <3>1. CASE resolveCatalog
      BY <3>1, <1>a, <1>b DEF resolveCatalog, Worker, Publishing
    <3>2. CASE readSecret
      BY <3>2, <1>a, <1>b DEF readSecret, Worker, Publishing
    <3>3. CASE updateSecretURL
      BY <3>3, <1>a, <1>b DEF updateSecretURL, Worker, Publishing
    <3>4. CASE checkEnding
      BY <3>4, <1>a, <1>b DEF checkEnding, Worker, Publishing
    <3>5. CASE \E k \in Keys : mintKey(k)
      BY <3>5, <1>a, <1>b DEF mintKey, Worker, Publishing
    <3>6. CASE writeSecret
      <4>1. \/ Failed
            \/ \E k : w' = [w EXCEPT !.pc = "register", !.key = k,
                                      !.live = NoSecret, !.owned = FALSE]
        BY <3>6 DEF writeSecret
      <4>2. w.pc = "write"
        BY <3>6 DEF writeSecret
      <4>3. CASE Failed
        BY <1>b, <4>3
      <4>4. ASSUME NEW k, w' = [w EXCEPT !.pc = "register", !.key = k,
                                          !.live = NoSecret, !.owned = FALSE]
            PROVE  w'.pc = "register" /\ w'.s = w.s
        BY <1>a, <4>4 DEF Worker
      <4> QED
        BY <4>1, <4>2, <4>3, <4>4 DEF Publishing
    <3>7. CASE recordOwner
      BY <3>7, <1>b DEF recordOwner
    <3> QED
      BY <1>3, <3>1, <3>2, <3>3, <3>4, <3>5, <3>6, <3>7
  <2> QED
    BY <2>1, <2>2, PassGoesOn
<1>4. ASSUME ensureRegistration PROVE Keeps
  <2>1. UNCHANGED <<sess, seen, excused>> /\ w.pc = "register" /\ w.ns \in Gateways
    BY <1>4 DEF ensureRegistration, caches, PassInv, Publishing
  <2>2. w'.pc \in {"idle", "status", "record"}
    BY <1>4, <1>a, <1>b DEF ensureRegistration, Worker
  <2>3. sess[w.s].fin \/ excused[w.s] = Gateways
    BY <2>1 DEF GuardInv, Publishing
  <2>4. \/ UNCHANGED reg
        \/ \E entry : reg' = [reg EXCEPT ![w.s][w.ns] = entry]
    BY <1>4 DEF ensureRegistration
  <2>5. \A s \in Sessions, g \in Gateways :
           reg'[s][g] = reg[s][g] \/ s = w.s
    BY <1>a, <2>4
  <2>6. RegistrationGuarded'
    BY <2>1, <2>3, <2>5 DEF RegistrationGuarded
  <2> QED
    BY <2>1, <2>2, <2>6 DEF GuardInv, Publishing
<1>5. ASSUME updateSessionStatus PROVE Keeps
  <2>1. UNCHANGED <<seen, reg, excused>> /\ w'.pc = "idle"
    BY <1>5, <1>a, FinishType DEF updateSessionStatus, caches, Worker
  <2>2. \A s \in Sessions : sess'[s].st = sess[s].st /\ sess'[s].fin = sess[s].fin
    <3>1. \/ UNCHANGED sess
          \/ sess' = [sess EXCEPT ![w.s] = [sess[w.s] EXCEPT !.status = w.snap.status]]
      BY <1>5 DEF updateSessionStatus
    <3> DEFINE written == [sess[w.s] EXCEPT !.status = w.snap.status]
    <3>2. written.st = sess[w.s].st /\ written.fin = sess[w.s].fin
      BY <1>a DEF Grant
    <3>3. UNCHANGED sess \/ sess' = [sess EXCEPT ![w.s] = written]
      BY <3>1
    <3> HIDE DEF written
    <3> QED
      BY <1>a, <3>2, <3>3
  <2> QED
    BY <2>1, <2>2 DEF GuardInv, RegistrationGuarded, Publishing
<1>6. ASSUME gatewayNamespaceForTeardown PROVE Keeps
  <2>1. UNCHANGED <<sess, seen, reg, excused>>
    BY <1>6 DEF gatewayNamespaceForTeardown, apiVars, caches
  <2>2. \/ Ends \/ w'.pc = "remove"
        \/ w'.pc = "release" /\ w'.ns = NoGateway
    BY <1>6, <1>a, <1>b DEF gatewayNamespaceForTeardown, Worker
  <2> QED
    BY <2>1, <2>2 DEF GuardInv, RegistrationGuarded, Publishing
<1>7. ASSUME removeRegistration PROVE Keeps
  <2>1. UNCHANGED <<sess, seen, excused>> /\ w.ns \in Gateways
    BY <1>7 DEF removeRegistration, caches, PassInv
  <2>2. \A s \in Sessions, g \in Gateways : reg'[s][g] \in {reg[s][g], NoReg}
    <3>1. UNCHANGED reg \/ reg' = [reg EXCEPT ![w.s][w.ns] = NoReg]
      BY <1>7 DEF removeRegistration
    <3> QED
      BY <1>a, <3>1
  <2>3. \/ Ends
        \/ w'.pc = "release" /\ w'.ns = NoGateway
        \/ w'.pc = "release" /\ w'.ns = w.ns /\ w'.s = w.s /\ reg'[w.s][w.ns] = NoReg
    <3>1. CASE /\ reg' = [reg EXCEPT ![w.s][w.ns] = NoReg]
               /\ w' = [w EXCEPT !.pc = "release"]
      <4>1. w'.pc = "release" /\ w'.ns = w.ns /\ w'.s = w.s
        BY <1>a, <3>1 DEF Worker
      <4>2. reg'[w.s][w.ns] = NoReg
        BY <1>a, <2>1, <3>1
      <4> QED
        BY <4>1, <4>2
    <3>2. CASE w' = [w EXCEPT !.pc = "release", !.ns = NoGateway]
      BY <1>a, <3>2 DEF Worker
    <3>3. CASE Finish(TRUE)
      BY <1>b, <3>3
    <3> QED
      BY <1>7, <3>1, <3>2, <3>3 DEF removeRegistration
  <2> QED
    BY <2>1, <2>2, <2>3 DEF GuardInv, RegistrationGuarded, Publishing
<1>8. ASSUME releaseSessionFinalizer PROVE Keeps
  <2>1. UNCHANGED <<seen, reg>> /\ w.pc = "release" /\ w'.pc = "idle"
    BY <1>8, FinishType DEF releaseSessionFinalizer, caches
  <2>2. CASE UNCHANGED <<sess, excused>>
    BY <2>1, <2>2 DEF GuardInv, RegistrationGuarded, Publishing
  <2>3. CASE /\ seen[w.s] = sess[w.s] /\ sess[w.s].st = "deleting"
             /\ sess' = [sess EXCEPT ![w.s] = Gone]
             /\ excused' = [excused EXCEPT ![w.s] = @ \union (Gateways \ {w.ns})]
    <3>1. /\ sess'[w.s] = Gone /\ excused'[w.s] = excused[w.s] \union (Gateways \ {w.ns})
          /\ \A s \in Sessions \ {w.s} : sess'[s] = sess[s] /\ excused'[s] = excused[s]
      BY <1>a, <2>3
    <3>2. \A g \in Gateways : reg'[w.s][g] # NoReg => g \in excused'[w.s]
      BY <2>1, <3>1, ConstantsAssumption DEF GuardInv
    <3>3. RegistrationGuarded'
      BY <2>1, <3>1, <3>2 DEF RegistrationGuarded
    <3>4. GuardInv'
      BY <1>a, <2>1, <2>3, <3>1, GrantTypes DEF GuardInv, Publishing
    <3> QED
      BY <3>3, <3>4
  <2> QED
    BY <1>8, <2>2, <2>3 DEF releaseSessionFinalizer
<1> QED
  BY <1>1, <1>2, <1>3, <1>4, <1>5, <1>6, <1>7, <1>8 DEF WorkerStep

\* Neither does an informer, the sweep, a restart or an edit from outside.
LEMMA GuardOthers ==
    ASSUME TypeOK, GuardInv, RegistrationGuarded,
           (\E s \in Sessions : Deliver(s)) \/ Environment \/ Tick \/ SweepStep
    PROVE  GuardInv' /\ RegistrationGuarded'
<1> DEFINE Keeps == GuardInv' /\ RegistrationGuarded'
<1>a. /\ sess \in [Sessions -> Grant] /\ seen \in [Sessions -> Grant]
      /\ excused \in [Sessions -> SUBSET Gateways]
      /\ reg \in [Sessions -> [Gateways -> Registration \union {NoReg}]]
      /\ w.s \in Sessions
  BY DEF TypeOK, Worker
<1>1. CASE UNCHANGED <<sess, seen, reg, excused, w>>
  BY <1>1 DEF GuardInv, RegistrationGuarded
<1>2. ASSUME NEW s \in Sessions, DeliverSession(s) PROVE Keeps
  BY <1>2, <1>a DEF DeliverSession, GuardInv, RegistrationGuarded, apiVars
<1>3. ASSUME NEW s \in Sessions, NEW ttl \in TTLs, CreateSession(s, ttl) PROVE Keeps
  <2>1. /\ sess'[s].st = "live" /\ ~sess[s].fin
        /\ \A x \in Sessions \ {s} : sess'[x] = sess[x]
    BY <1>3, <1>a, GrantTypes DEF CreateSession, GuardInv, Grant
  <2>2. UNCHANGED <<seen, reg, excused, w>>
    BY <1>3 DEF CreateSession, OperatorIdle, caches
  <2> QED
    BY <1>a, <2>1, <2>2 DEF GuardInv, RegistrationGuarded
<1>4. ASSUME NEW s \in Sessions,
             DeleteSession(s) \/ \E ttl \in TTLs : EditTTL(s, ttl)
      PROVE  Keeps
  <2>1. /\ sess'[s].fin = sess[s].fin
        /\ sess'[s].st = "gone" => ~sess'[s].fin
        /\ sess'[s].st # "none"
        /\ \A x \in Sessions \ {s} : sess'[x] = sess[x]
    <3>1. CASE DeleteSession(s)
      BY <3>1, <1>a, GrantTypes DEF DeleteSession, Grant
    <3>2. CASE \E ttl \in TTLs : EditTTL(s, ttl)
      BY <3>2, <1>a DEF EditTTL, Grant
    <3> QED
      BY <1>4, <3>1, <3>2
  <2>2. UNCHANGED <<seen, reg, excused, w>>
    BY <1>4 DEF DeleteSession, EditTTL, OperatorIdle, caches
  <2> QED
    BY <1>a, <2>1, <2>2 DEF GuardInv, RegistrationGuarded
<1>5. ASSUME NEW s \in Sessions, ForceDelete(s) PROVE Keeps
  <2>1. /\ sess'[s] = Gone /\ excused'[s] = Gateways
        /\ \A x \in Sessions \ {s} : sess'[x] = sess[x] /\ excused'[x] = excused[x]
    BY <1>5, <1>a DEF ForceDelete
  <2>2. UNCHANGED <<seen, reg, w>>
    BY <1>5 DEF ForceDelete, OperatorIdle, caches
  <2>3. RegistrationGuarded'
    BY <2>1, <2>2 DEF RegistrationGuarded
  <2>4. GuardInv'
    <3>1. \A x \in Sessions : sess'[x].st \in {"none", "gone"} => ~sess'[x].fin
      BY <2>1, GrantTypes DEF GuardInv
    <3>2. \A x \in Sessions :
             sess[x].fin \/ excused[x] = Gateways => sess'[x].fin \/ excused'[x] = Gateways
      BY <2>1
    <3> QED
      BY <1>a, <2>2, <3>1, <3>2 DEF GuardInv
  <2> QED
    BY <2>3, <2>4
<1>6. ASSUME \/ \E g \in Gateways : GatewayNamespaceGone(g)
             \/ \E s \in Sessions, g \in Gateways : SweepDelete(s, g)
      PROVE  Keeps
  <2>1. UNCHANGED <<sess, seen, excused, w>>
    BY <1>6 DEF GatewayNamespaceGone, SweepDelete, OperatorIdle, caches
  <2>2. \A s \in Sessions, g \in Gateways : reg'[s][g] \in {reg[s][g], NoReg}
    <3>1. CASE \E h \in Gateways : GatewayNamespaceGone(h)
      BY <3>1, <1>a DEF GatewayNamespaceGone
    <3>2. ASSUME NEW x \in Sessions, NEW h \in Gateways, SweepDelete(x, h)
          PROVE  \A s \in Sessions, g \in Gateways : reg'[s][g] \in {reg[s][g], NoReg}
      <4>1. UNCHANGED reg \/ reg' = [reg EXCEPT ![x] = [reg[x] EXCEPT ![h] = NoReg]]
        BY <3>2 DEF SweepDelete
      <4> QED
        BY <4>1, <1>a
    <3> QED
      BY <1>6, <3>1, <3>2
  <2>3. w.s \in Sessions /\ (w.ns = NoGateway \/ w.ns \in Gateways)
    BY DEF TypeOK, Worker
  <2> QED
    BY <2>1, <2>2, <2>3 DEF GuardInv, RegistrationGuarded
<1>7. ASSUME Restart PROVE Keeps
  BY <1>7, IdleWorkerType DEF Restart, GuardInv, RegistrationGuarded, Publishing
<1>8. ASSUME NEW s \in Sessions,
             DeliverNamespace(s) \/ DeliverSecret(s) \/ DeliverRegistration(s)
      PROVE  UNCHANGED <<sess, seen, reg, excused, w>>
  BY <1>8 DEF DeliverNamespace, DeliverSecret, DeliverRegistration, apiVars
<1>9. ASSUME \/ \E s \in Sessions : EndSessionNamespace(s) \/ CollectSecret(s) \/ TamperSecret(s)
             \/ CatalogChange \/ PlatformDelete \/ Tick \/ SweepList
             \/ \E g \in Gateways : PlatformMove(g)
      PROVE  UNCHANGED <<sess, seen, reg, excused, w>>
  BY <1>9 DEF EndSessionNamespace, CollectSecret, TamperSecret, CatalogChange, PlatformDelete,
              Tick, SweepList, PlatformMove, OperatorIdle, apiVars, caches
<1> QED
  BY <1>1, <1>2, <1>3, <1>4, <1>5, <1>6, <1>7, <1>8, <1>9 DEF Deliver, Environment, SweepStep

\* Every registration in every gateway namespace belongs to a grant that still
\* carries the finalizer, or to one that was let go on purpose: force-deleted,
\* given up after the bounded window, or released with another namespace looked
\* up. RegistrationGuarded is not inductive by itself: ensureRegistration runs
\* long after the finalizer was seen, so GuardInv carries that fact through the
\* cache and the pass, and carries the removal through to the release.
THEOREM RegistrationsGuarded == Spec => [](RegistrationGuarded /\ GuardInv)
<1>1. Init => RegistrationGuarded /\ GuardInv
  BY IdleWorkerType, GrantTypes DEF Init, RegistrationGuarded, GuardInv, Publishing
<1>2. /\ TypeOK /\ PassInv /\ RegistrationGuarded /\ GuardInv /\ [Next]_vars
      => RegistrationGuarded' /\ GuardInv'
  <2> SUFFICES ASSUME TypeOK, PassInv, RegistrationGuarded, GuardInv, [Next]_vars
               PROVE  RegistrationGuarded' /\ GuardInv'
    OBVIOUS
  <2>1. CASE WorkerStep
    BY <2>1, GuardWorker
  <2>2. CASE (\E s \in Sessions : Deliver(s)) \/ Environment \/ Tick \/ SweepStep
    BY <2>2, GuardOthers
  <2>3. CASE UNCHANGED vars
    BY <2>3 DEF vars, RegistrationGuarded, GuardInv
  <2> QED
    BY <2>1, <2>2, <2>3 DEF Next
<1> QED
  BY <1>1, <1>2, TypeCorrect, PTL DEF Spec

\* What makes it hold: the finalizer a cache shows on a live grant is there, every
\* pass on its way to publishing started from such a grant (Reconcile), and one
\* about to release has removed the registration it looked up (reconcileDelete).
THEOREM FinalizersStand == Spec => []GuardInv
  BY RegistrationsGuarded, PTL

================================================================================
