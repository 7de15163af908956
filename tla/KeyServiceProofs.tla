---------------------------- MODULE KeyServiceProofs ----------------------------
(***************************************************************************)
(* SessionKeys implements KeyService: whatever the pass, the teardown, the  *)
(* sweep, the informers and everybody else do to the keys is one thing the  *)
(* contract allows, or nothing it speaks of. And what the contract comes to *)
(* is proved from the contract alone, so it holds of SessionKeys.           *)
(***************************************************************************)
EXTENDS SessionSettledProofs

\* The pass has the key in hand, as the one to register or in a Secret it read.
Holds(k) == w.key = k \/ (w.live # NoSecret /\ w.live.key = k)

\* It has one to register only when it is about to write or register it.
EmptyHanded == w.pc \notin {"write", "register"} => w.key = NoKey

--------------------------------------------------------------------------------
(***************************************************************************)
(* What a pass has in hand.                                                 *)
(***************************************************************************)

\* Between passes the worker has nothing in hand, and a pass that ends or reports
\* puts everything down.
LEMMA HandsEmpty ==
    ASSUME TypeOK,
           \/ w' = IdleWorker
           \/ \E requeue \in BOOLEAN : Finish(requeue)
           \/ \E status : \E requeue \in BOOLEAN : Report(status, requeue)
           \/ Failed
    PROVE  w'.key = NoKey /\ w'.live = NoSecret
<1>1. IdleWorker \in Worker /\ IdleWorker.key = NoKey /\ IdleWorker.live = NoSecret
  BY IdleWorkerType DEF IdleWorker
<1>2. ASSUME NEW status, NEW requeue \in BOOLEAN, Report(status, requeue)
      PROVE  w'.key = NoKey /\ w'.live = NoSecret
  BY <1>1, <1>2 DEF Report, Worker
<1> QED
  BY <1>1, <1>2 DEF Finish, Failed

\* A step of the pass has in hand what it had before, a key the cache of its Secret
\* showed, or a key just made.
Hands(k) ==
    /\ Holds(k)' => /\ w'.s = w.s
                    /\ \/ Holds(k) \/ mintKey(k)
                       \/ secretSeen[w.s] # NoSecret /\ secretSeen[w.s].key = k
    /\ EmptyHanded'

\* Where a pass gets the keys it has in hand.
LEMMA HandSteps ==
    ASSUME TypeOK, PassInv, EmptyHanded, [Next]_vars, NEW k \in Keys
    PROVE  Hands(k)
<1>a. /\ w \in Worker /\ w.s \in Sessions /\ k # NoKey
      /\ secretSeen[w.s] \in Secret \union {NoSecret}
  BY ConstantsAssumption DEF TypeOK, Worker
<1>b. ASSUME w'.key = NoKey /\ w'.live = NoSecret PROVE Hands(k)
  BY <1>a, <1>b DEF Hands, Holds, EmptyHanded
<1>c. \/ (\E requeue \in BOOLEAN : Finish(requeue))
      \/ (\E status : \E requeue \in BOOLEAN : Report(status, requeue))
      \/ Failed
      => Hands(k)
  BY <1>b, HandsEmpty
<1>d. CASE w' = w
  BY <1>d DEF Hands, Holds, EmptyHanded
<1>1. ASSUME NEW x \in Sessions, NEW readable \in BOOLEAN, Reconcile(x, readable)
      PROVE  Hands(k)
  <2>1. w' = w \/ (w'.key = IdleWorker.key /\ w'.live = IdleWorker.live)
    BY <1>1, IdleWorkerType DEF Reconcile, placementValid, reject, Worker
  <2>2. IdleWorker.key = NoKey /\ IdleWorker.live = NoSecret
    BY DEF IdleWorker
  <2> QED
    BY <1>b, <1>d, <2>1, <2>2
<1>2. ASSUME AddFinalizer PROVE Hands(k)
  <2>1. CASE w' = [w EXCEPT !.pc = "catalog", !.snap.fin = TRUE]
    <3>1. w.pc = "finalizer" /\ w'.key = w.key /\ w'.live = w.live /\ w'.s = w.s
      BY <1>2, <1>a, <2>1 DEF AddFinalizer, Worker
    <3> QED
      BY <3>1 DEF Hands, Holds, EmptyHanded
  <2> QED
    BY <1>2, <1>c, <2>1 DEF AddFinalizer
<1>3. ASSUME resolveCatalog PROVE Hands(k)
  <2>1. CASE w' = [w EXCEPT !.pc = "secret", !.url = catalog, !.ns = platform]
    <3>1. w.pc = "catalog" /\ w'.key = w.key /\ w'.live = w.live /\ w'.s = w.s
      BY <1>3, <1>a, <2>1 DEF resolveCatalog, Worker
    <3> QED
      BY <3>1 DEF Hands, Holds, EmptyHanded
  <2> QED
    BY <1>3, <1>c, <2>1 DEF resolveCatalog
<1>4. ASSUME readSecret PROVE Hands(k)
  <2> DEFINE live == secretSeen[w.s]
  <2>1. CASE w' = [w EXCEPT !.pc = "register", !.key = live.key] /\ live # NoSecret
    <3>1. w'.pc = "register" /\ w'.key = live.key /\ w'.live = w.live /\ w'.s = w.s
      BY <1>a, <2>1 DEF Worker
    <3> QED
      BY <2>1, <3>1 DEF Hands, Holds, EmptyHanded
  <2>2. CASE \E pc \in {"url", "ending"} : w' = [w EXCEPT !.pc = pc, !.live = live]
    <3>1. w.pc = "secret" /\ w'.key = w.key /\ w'.live = live /\ w'.s = w.s
      BY <1>4, <1>a, <2>2 DEF readSecret, Worker
    <3> QED
      BY <3>1 DEF Hands, Holds, EmptyHanded
  <2> QED
    BY <1>4, <1>c, <2>1, <2>2 DEF readSecret
<1>5. ASSUME updateSecretURL PROVE Hands(k)
  <2>1. CASE w' = [w EXCEPT !.pc = "register", !.key = w.live.key, !.live = NoSecret]
    <3>1. /\ w.live # NoSecret
          /\ w'.pc = "register" /\ w'.key = w.live.key /\ w'.live = NoSecret /\ w'.s = w.s
      BY <1>5, <1>a, <2>1 DEF updateSecretURL, PassInv, Worker
    <3> QED
      BY <3>1 DEF Hands, Holds, EmptyHanded
  <2> QED
    BY <1>5, <1>c, <2>1 DEF updateSecretURL
<1>6. ASSUME checkEnding PROVE Hands(k)
  <2>1. CASE w' = [w EXCEPT !.pc = "owner"]
    <3>1. w.pc = "ending" /\ w'.key = w.key /\ w'.live = w.live /\ w'.s = w.s
      BY <1>6, <1>a, <2>1 DEF checkEnding, Worker
    <3> QED
      BY <3>1 DEF Hands, Holds, EmptyHanded
  <2> QED
    BY <1>6, <1>c, <2>1 DEF checkEnding
<1>7. ASSUME NEW j \in Keys, mintKey(j) PROVE Hands(k)
  <2>1. CASE w' = [w EXCEPT !.pc = "write", !.key = j,
                            !.owned = setSessionNamespaceOwner(w.s)]
    <3>1. w'.pc = "write" /\ w'.key = j /\ w'.live = w.live /\ w'.s = w.s
      BY <1>a, <2>1 DEF Worker
    <3> QED
      BY <1>7, <3>1 DEF Hands, Holds, EmptyHanded
  <2> QED
    BY <1>7, <1>c, <2>1 DEF mintKey
<1>8. ASSUME writeSecret PROVE Hands(k)
  <2> DEFINE reread == secretSeen[w.s]
             Registers(j) == w' = [w EXCEPT !.pc = "register", !.key = j,
                                            !.live = NoSecret, !.owned = FALSE]
  <2>1. Failed \/ Registers(w.key) \/ (Registers(reread.key) /\ reread # NoSecret)
    BY <1>8 DEF writeSecret
  <2>2. ASSUME NEW j, Registers(j)
        PROVE  w'.pc = "register" /\ w'.key = j /\ w'.live = NoSecret /\ w'.s = w.s
    BY <1>a, <2>2 DEF Worker
  <2> HIDE DEF Registers
  <2> QED
    BY <1>c, <2>1, <2>2 DEF Hands, Holds, EmptyHanded
<1>9. ASSUME ensureRegistration PROVE Hands(k)
  <2>1. CASE w' = [w EXCEPT !.pc = "record", !.key = NoKey, !.ns = NoGateway, !.url = NoGateway]
    <3>1. w'.key = NoKey /\ w'.live = w.live /\ w'.s = w.s
      BY <1>a, <2>1 DEF Worker
    <3> QED
      BY <1>a, <3>1 DEF Hands, Holds, EmptyHanded
  <2> QED
    BY <1>9, <1>c, <2>1 DEF ensureRegistration
<1>10. ASSUME recordOwner \/ updateSessionStatus \/ releaseSessionFinalizer PROVE Hands(k)
  <2>1. w.requeue \in BOOLEAN
    BY <1>a DEF Worker
  <2> QED
    BY <1>10, <1>c, <2>1 DEF recordOwner, updateSessionStatus, releaseSessionFinalizer
<1>11. ASSUME gatewayNamespaceForTeardown \/ removeRegistration PROVE Hands(k)
  <2>1. \/ Finish(TRUE)
        \/ /\ w.pc \in {"lookup", "remove"} /\ w'.pc \in {"remove", "release"}
           /\ w'.key = w.key /\ w'.live = w.live /\ w'.s = w.s
    <3>1. CASE gatewayNamespaceForTeardown
      BY <1>a, <3>1 DEF gatewayNamespaceForTeardown, Worker
    <3>2. CASE removeRegistration
      BY <1>a, <3>2 DEF removeRegistration, Worker
    <3> QED
      BY <1>11, <3>1, <3>2
  <2> QED
    BY <1>c, <2>1 DEF Hands, Holds, EmptyHanded
<1>12. CASE Restart
  BY <1>12, <1>b, HandsEmpty DEF Restart
<1>13. ASSUME NEW x \in Sessions, Deliver(x) PROVE w' = w
  BY <1>13 DEF Deliver, DeliverSession, DeliverNamespace, DeliverSecret, DeliverRegistration
<1>14. ASSUME \/ \E x \in Sessions :
                 \/ \E ttl \in TTLs : CreateSession(x, ttl) \/ EditTTL(x, ttl)
                 \/ DeleteSession(x) \/ ForceDelete(x) \/ EndSessionNamespace(x)
                 \/ CollectSecret(x) \/ TamperSecret(x)
              \/ CatalogChange \/ PlatformDelete \/ Tick \/ SweepStep \/ UNCHANGED vars
              \/ \E g \in Gateways : PlatformMove(g) \/ GatewayNamespaceGone(g)
       PROVE  w' = w
  BY <1>14, <1>a, OthersQueue
<1> QED
  <2>1. CASE WorkerStep
    BY <2>1, <1>1, <1>2, <1>3, <1>4, <1>5, <1>6, <1>7, <1>8, <1>9, <1>10, <1>11, Zenon
       DEF WorkerStep
  <2>2. CASE \E x \in Sessions : Deliver(x)
    BY <2>2, <1>d, <1>13, Zenon
  <2>3. CASE Environment \/ Tick \/ SweepStep \/ UNCHANGED vars
    BY <2>3, <1>d, <1>12, <1>14, Zenon DEF Environment
  <2> QED
    BY <2>1, <2>2, <2>3 DEF Next

--------------------------------------------------------------------------------
(***************************************************************************)
(* No key comes from nowhere.                                               *)
(***************************************************************************)

\* Writing a Secret changes the key of that grant only.
LEMMA SecretKeySet ==
    ASSUME TypeOK, NEW STATE s, s \in Sessions, NEW STATE obj, obj \in Secret \union {NoSecret},
           SetSecret(s, obj)
    PROVE  SecretKey' = [SecretKey EXCEPT ![s] = IF obj = NoSecret THEN NoKey ELSE obj.key]
<1>1. /\ secret' \in [Sessions -> Secret \union {NoSecret}]
      /\ secret'[s] = obj /\ \A t \in Sessions \ {s} : secret'[t] = secret[t]
  BY DEF TypeOK, SetSecret
<1> QED
  BY <1>1 DEF SecretKey

\* A new address leaves the key as it is.
LEMMA URLKeepsKey ==
    ASSUME TypeOK, PassInv, updateSecretURL
    PROVE  SecretKey' = SecretKey
<1>a. /\ w.s \in Sessions /\ w.url \in Gateways \union {NoGateway}
      /\ secret \in [Sessions -> Secret \union {NoSecret}]
      /\ w.live # NoSecret
  BY DEF TypeOK, Worker, PassInv, updateSecretURL
<1>1. CASE UNCHANGED secretVars
  BY <1>1 DEF secretVars, SecretKey
<1>2. CASE secret[w.s] = w.live /\ SetSecret(w.s, [secret[w.s] EXCEPT !.url = w.url])
  <2> DEFINE obj == [secret[w.s] EXCEPT !.url = w.url]
  <2>1. secret[w.s] \in Secret /\ secret[w.s] # NoSecret
    BY <1>a, <1>2
  <2>2. obj \in Secret /\ obj.key = secret[w.s].key
    BY <1>a, <2>1 DEF Secret
  <2>3. obj # NoSecret
    BY <2>2, ConstantsAssumption DEF Secret
  <2> HIDE DEF obj
  <2>4. SecretKey' = [SecretKey EXCEPT ![w.s] = obj.key]
    BY <1>a, <1>2, <2>2, <2>3, SecretKeySet DEF obj
  <2> QED
    BY <1>a, <2>1, <2>2, <2>4 DEF SecretKey
<1> QED
  BY <1>1, <1>2, Zenon DEF updateSecretURL

\* ensureSecret puts the key in hand into a Secret that has none.
LEMMA WriteGivesKey ==
    ASSUME TypeOK, PassInv, writeSecret
    PROVE  \/ SecretKey' = SecretKey
           \/ /\ SecretKey[w.s] = NoKey /\ w.key \in Keys
              /\ SecretKey' = [SecretKey EXCEPT ![w.s] = w.key]
<1>a. /\ w \in Worker /\ w.s \in Sessions /\ w.key \in Keys
      /\ w.live # NoSecret => w.live \in Secret /\ w.live.key = NoKey
  BY DEF TypeOK, Worker, PassInv, writeSecret
<1>1. CASE UNCHANGED secretVars
  BY <1>1 DEF secretVars, SecretKey
<1>2. ASSUME NEW STATE owner, owner \in BOOLEAN,
             secret[w.s] = NoSecret \/ secret[w.s].key = NoKey,
             SetSecret(w.s, [key |-> w.key, url |-> w.url, owned |-> owner, labelled |-> TRUE])
      PROVE  /\ SecretKey[w.s] = NoKey
             /\ SecretKey' = [SecretKey EXCEPT ![w.s] = w.key]
  <2> DEFINE obj == [key |-> w.key, url |-> w.url, owned |-> owner, labelled |-> TRUE]
  <2>1. obj \in Secret /\ obj.key = w.key
    BY <1>a, <1>2 DEF Secret, Worker
  <2>2. obj # NoSecret
    BY <2>1, ConstantsAssumption DEF Secret
  <2> HIDE DEF obj
  <2>3. SecretKey' = [SecretKey EXCEPT ![w.s] = w.key]
    BY <1>a, <1>2, <2>1, <2>2, SecretKeySet DEF obj
  <2> QED
    BY <1>a, <1>2, <2>3 DEF SecretKey
<1>3. \/ UNCHANGED secretVars
      \/ /\ secret[w.s] = NoSecret
         /\ SetSecret(w.s, [key |-> w.key, url |-> w.url, owned |-> w.owned, labelled |-> TRUE])
      \/ /\ w.live # NoSecret /\ secret[w.s] = w.live
         /\ SetSecret(w.s, [key |-> w.key, url |-> w.url, owned |-> w.live.owned,
                            labelled |-> TRUE])
  BY Zenon DEF writeSecret
<1>4. w.owned \in BOOLEAN /\ (w.live # NoSecret => w.live.owned \in BOOLEAN)
  BY <1>a DEF Worker, Secret
<1>5. CASE /\ secret[w.s] = NoSecret
           /\ SetSecret(w.s, [key |-> w.key, url |-> w.url, owned |-> w.owned,
                              labelled |-> TRUE])
  BY <1>a, <1>2, <1>4, <1>5
<1>6. CASE /\ w.live # NoSecret /\ secret[w.s] = w.live
           /\ SetSecret(w.s, [key |-> w.key, url |-> w.url, owned |-> w.live.owned,
                              labelled |-> TRUE])
  BY <1>a, <1>2, <1>4, <1>6
<1> QED
  BY <1>1, <1>3, <1>5, <1>6

\* Outsiders only take a key away.
LEMMA OutsidersLoseKeys ==
    ASSUME TypeOK, NEW s \in Sessions, CollectSecret(s) \/ TamperSecret(s)
    PROVE  SecretKey' = [SecretKey EXCEPT ![s] = NoKey]
<1> DEFINE Empties(obj) == obj \in Secret \union {NoSecret} /\ (obj # NoSecret => obj.key = NoKey)
<1>a. secret[s] \in Secret \union {NoSecret}
  BY DEF TypeOK
<1>1. PICK obj : SetSecret(s, obj) /\ Empties(obj)
  <2>1. Empties(NoSecret)
    OBVIOUS
  <2>2. secret[s] # NoSecret => Empties([secret[s] EXCEPT !.key = NoKey])
    BY <1>a DEF Secret
  <2>3. Empties([key |-> NoKey, url |-> NoGateway, owned |-> FALSE, labelled |-> FALSE])
    BY DEF Secret
  <2> HIDE DEF Empties
  <2> QED
    BY <2>1, <2>2, <2>3, Zenon DEF CollectSecret, TamperSecret
<1>2. obj \in Secret \union {NoSecret} /\ (obj # NoSecret => obj.key = NoKey)
  BY <1>1
<1>3. SecretKey' = [SecretKey EXCEPT ![s] = IF obj = NoSecret THEN NoKey ELSE obj.key]
  BY <1>1, <1>2, SecretKeySet
<1> QED
  BY <1>2, <1>3

\* Every other step leaves the Secrets alone.
LEMMA SecretsStay ==
    ASSUME [Next]_vars, ~updateSecretURL, ~writeSecret,
           \A s \in Sessions : ~CollectSecret(s) /\ ~TamperSecret(s)
    PROVE  SecretKey' = SecretKey
<1>1. CASE WorkerStep
  <2>1. ASSUME \/ AddFinalizer \/ resolveCatalog \/ readSecret \/ checkEnding
               \/ (\E k \in Keys : mintKey(k)) \/ ensureRegistration \/ recordOwner
               \/ updateSessionStatus \/ gatewayNamespaceForTeardown \/ removeRegistration
               \/ releaseSessionFinalizer
               \/ \E x \in Sessions, readable \in BOOLEAN : Reconcile(x, readable)
        PROVE  secret' = secret
    BY <2>1 DEF AddFinalizer, resolveCatalog, readSecret, checkEnding, mintKey,
       ensureRegistration, recordOwner, updateSessionStatus, gatewayNamespaceForTeardown,
       removeRegistration, releaseSessionFinalizer, Reconcile, apiVars, secretVars
  <2> QED
    BY <1>1, <2>1 DEF WorkerStep, SecretKey
<1>2. ASSUME NEW x \in Sessions, Deliver(x) PROVE SecretKey' = SecretKey
  BY <1>2 DEF Deliver, DeliverSession, DeliverNamespace, DeliverSecret, DeliverRegistration,
     apiVars, SecretKey
<1>3. ASSUME \/ \E x \in Sessions :
                 \/ \E ttl \in TTLs : CreateSession(x, ttl) \/ EditTTL(x, ttl)
                 \/ DeleteSession(x) \/ ForceDelete(x) \/ EndSessionNamespace(x)
             \/ CatalogChange \/ PlatformDelete \/ Tick \/ SweepStep \/ Restart
             \/ UNCHANGED vars
             \/ \E g \in Gateways : PlatformMove(g) \/ GatewayNamespaceGone(g)
      PROVE  SecretKey' = SecretKey
  <2>1. secret' = secret
    BY <1>3 DEF CreateSession, EditTTL, DeleteSession, ForceDelete, EndSessionNamespace,
       CatalogChange, PlatformDelete, Tick, SweepStep, SweepList, SweepDelete, PlatformMove,
       GatewayNamespaceGone, Restart, vars, secretVars, apiVars
  <2> QED
    BY <2>1 DEF SecretKey
<1>4. CASE Environment
  BY <1>3, <1>4, Zenon DEF Environment
<1>5. CASE Tick \/ SweepStep \/ UNCHANGED vars
  BY <1>3, <1>5, Zenon
<1> QED
  BY <1>1, <1>2, <1>4, <1>5 DEF Next

\* A key among those of a grant was there before the step, or the step made it:
\* every copy of a Secret or of a registration is one of a grant's own, and a pass
\* works for one grant.
LEMMA KeysKept ==
    ASSUME TypeOK, PassInv, EmptyHanded, [Next]_vars, NEW s \in Sessions,
           NEW k \in Keys, k \in KeysOf(s)'
    PROVE  k \in KeysOf(s) \/ (mintKey(k) /\ w.s = s)
<1>a. /\ k # NoKey /\ w.s \in Sessions
      /\ secret' \in [Sessions -> Secret \union {NoSecret}]
  BY TypesKept, ConstantsAssumption DEF TypeOK, Worker
<1>1. CASE secret'[s] # NoSecret /\ secret'[s].key = k
  <2>1. SecretKey'[s] = k
    BY <1>1 DEF SecretKey
  <2>2. SecretKey[s] = k \/ (w.s = s /\ w.key = k)
    <3>1. DOMAIN SecretKey = Sessions /\ SecretKey = [t \in Sessions |-> SecretKey[t]]
      BY DEF SecretKey
    <3>2. CASE updateSecretURL
      BY <2>1, <3>2, URLKeepsKey
    <3>3. CASE writeSecret
      BY <1>a, <2>1, <3>1, <3>3, WriteGivesKey
    <3>4. ASSUME NEW x \in Sessions, CollectSecret(x) \/ TamperSecret(x)
          PROVE  SecretKey[s] = k
      BY <1>a, <2>1, <3>1, <3>4, OutsidersLoseKeys
    <3> QED
      BY <2>1, <3>2, <3>3, <3>4, SecretsStay
  <2> QED
    BY <1>a, <2>2 DEF SecretKey, KeysOf
<1>2. CASE secretSeen'[s] # NoSecret /\ secretSeen'[s].key = k
  <2>1. secretSeen'[s] \in {secretSeen[s], secret[s]}
    BY SecretSteps
  <2> QED
    BY <1>2, <2>1 DEF KeysOf
<1>3. ASSUME NEW g \in Gateways, reg'[s][g] # NoReg, reg'[s][g].hash = Hash(k)
      PROVE  k \in KeysOf(s)
  <2>1. CASE reg'[s][g] = reg[s][g]
    BY <1>3, <2>1 DEF KeysOf
  <2>2. CASE Published(s, g)
    <3>1. Hash(w.key) = Hash(k) /\ w.s = s
      BY <1>3, <2>2 DEF Published
    <3> QED
      BY <3>1 DEF Hash, KeysOf
  <2> QED
    BY <1>3, <2>1, <2>2, RegistrationSteps DEF Revoked
<1>4. ASSUME NEW g \in Gateways, regSeen'[s][g] # NoReg, regSeen'[s][g].hash = Hash(k)
      PROVE  k \in KeysOf(s)
  <2>1. regSeen'[s] \in {regSeen[s], reg[s]}
    BY RegistrationCacheSteps
  <2> QED
    BY <1>4, <2>1 DEF KeysOf
<1>5. CASE w'.s = s /\ Holds(k)'
  <2>1. w.s = s /\ (Holds(k) \/ mintKey(k)
                    \/ (secretSeen[s] # NoSecret /\ secretSeen[s].key = k))
    BY <1>5, HandSteps DEF Hands
  <2> QED
    BY <2>1 DEF KeysOf, Holds
<1> QED
  BY <1>1, <1>2, <1>3, <1>4, <1>5 DEF KeysOf, Holds

--------------------------------------------------------------------------------
(***************************************************************************)
(* Every step is one the contract allows.                                   *)
(***************************************************************************)

\* What a step leaves in use is among the keys it leaves the grant.
LEMMA InUseHeld ==
    ASSUME TypeOK', NEW s \in Sessions
    PROVE  (Service!InUse(s))' \subseteq KeyRing'[s]
<1>1. ASSUME NEW k \in Keys, k = SecretKey'[s] PROVE k \in KeysOf(s)'
  BY <1>1, ConstantsAssumption DEF SecretKey, KeysOf
<1>2. ASSUME NEW k \in Keys, NEW g \in Gateways, reg'[s][g] # NoReg,
             reg'[s][g].hash.sha256 = k
      PROVE  k \in KeysOf(s)'
  <2>1. reg'[s][g] \in Registration
    BY <1>2 DEF TypeOK
  <2>2. reg'[s][g].hash = Hash(k)
    BY <1>2, <2>1 DEF Registration, Hash
  <2> QED
    BY <1>2, <2>2 DEF KeysOf
<1> QED
  BY <1>1, <1>2 DEF Service!InUse, Service!Shows, KeyRing

\* But for making a key, no step adds to the keys of a grant.
LEMMA RingStep ==
    ASSUME TypeOK, PassInv, EmptyHanded, [Next]_vars, \A k \in Keys : ~mintKey(k)
    PROVE  Service!RingShrinks
<1>a. KeyRing' \in [Sessions -> SUBSET Keys]
  BY DEF KeyRing, KeysOf
<1> SUFFICES ASSUME NEW s \in Sessions
             PROVE  Service!InUse(s)' \subseteq KeyRing'[s] /\ KeyRing'[s] \subseteq KeyRing[s]
  BY <1>a DEF Service!RingShrinks
<1>1. TypeOK'
  BY TypesKept
<1>2. (Service!InUse(s))' \subseteq KeyRing'[s]
  BY <1>1, InUseHeld
<1>3. KeysOf(s)' \subseteq KeysOf(s)
  BY KeysKept DEF KeysOf
<1> QED
  BY <1>2, <1>3 DEF KeyRing

\* What the contract sees of the variables a step leaves alone.
LEMMA SameView ==
    /\ UNCHANGED sess => UNCHANGED <<KeyLife, KeyTerm>>
    /\ UNCHANGED secret => UNCHANGED SecretKey
    /\ UNCHANGED gwNs => UNCHANGED ActiveGateways
BY DEF KeyLife, KeyTerm, SecretKey, ActiveGateways

\* And of one grant that is replaced.
LEMMA GrantView ==
    ASSUME TypeOK, NEW STATE s, s \in Sessions, NEW STATE grant,
           sess' = [sess EXCEPT ![s] = grant]
    PROVE  /\ KeyLife' = [KeyLife EXCEPT ![s] = LifeOf(grant)]
           /\ KeyTerm' = [KeyTerm EXCEPT ![s] = TermOf(grant)]
<1>1. \A t \in Sessions : sess'[t] = IF t = s THEN grant ELSE sess[t]
  BY DEF TypeOK
<1>2. KeyLife' = [t \in Sessions |-> LifeOf(sess'[t])]
  BY DEF KeyLife, LifeOf
<1>3. KeyTerm' = [t \in Sessions |-> TermOf(sess'[t])]
  BY DEF KeyTerm, TermOf, expiryFor
<1>4. \A t \in Sessions : /\ LifeOf(sess'[t]) = IF t = s THEN LifeOf(grant) ELSE LifeOf(sess[t])
                         /\ TermOf(sess'[t]) = IF t = s THEN TermOf(grant) ELSE TermOf(sess[t])
  BY <1>1
<1>5. KeyLife' = [t \in Sessions |-> IF t = s THEN LifeOf(grant) ELSE LifeOf(sess[t])]
  BY <1>2, <1>4
<1>6. KeyTerm' = [t \in Sessions |-> IF t = s THEN TermOf(grant) ELSE TermOf(sess[t])]
  BY <1>3, <1>4
<1> QED
  BY <1>5, <1>6 DEF KeyLife, KeyTerm

\* A pass on its way to publishing works for a grant that is bound to be cleaned
\* up after.
LEMMA PassBound ==
    ASSUME TypeOK, GuardInv, w.pc \in Publishing
    PROVE  Service!Bound(w.s)
<1>a. w.s \in Sessions /\ sess[w.s] \in Grant
  BY DEF TypeOK, Worker
<1>1. CASE sess[w.s].fin
  <2>1. sess[w.s].st \in {"live", "deleting"}
    BY <1>a, <1>1 DEF GuardInv, Grant
  <2> QED
    BY <1>a, <1>1, <2>1 DEF Service!Bound, KeyLife, LifeOf
<1>2. CASE excused[w.s] = Gateways
  BY <1>2 DEF Service!Bound
<1> QED
  BY <1>1, <1>2 DEF GuardInv

\* The steps the contract does not speak of: reading, queueing, delivering,
\* reporting, restarting, listing what to sweep, and moving the gateway.
LEMMA UnseenSteps ==
    ASSUME \/ \E x \in Sessions, readable \in BOOLEAN : Reconcile(x, readable)
           \/ resolveCatalog \/ readSecret \/ checkEnding \/ recordOwner
           \/ gatewayNamespaceForTeardown
           \/ \E x \in Sessions : Deliver(x) \/ EndSessionNamespace(x)
           \/ CatalogChange \/ SweepList \/ Restart \/ UNCHANGED vars
           \/ \E g \in Gateways : PlatformMove(g)
    PROVE  Service!Forget
<1>1. ASSUME \/ \E x \in Sessions, readable \in BOOLEAN : Reconcile(x, readable)
             \/ resolveCatalog \/ readSecret \/ checkEnding \/ recordOwner
             \/ gatewayNamespaceForTeardown
      PROVE  UNCHANGED <<sess, secret, reg, excused, gwNs, now>>
  BY <1>1 DEF Reconcile, resolveCatalog, readSecret, checkEnding, recordOwner,
     gatewayNamespaceForTeardown, apiVars
<1>2. ASSUME NEW x \in Sessions, Deliver(x) \/ EndSessionNamespace(x)
      PROVE  UNCHANGED <<sess, secret, reg, excused, gwNs, now>>
  BY <1>2 DEF Deliver, DeliverSession, DeliverNamespace, DeliverSecret, DeliverRegistration,
     EndSessionNamespace, apiVars, secretVars
<1>3. ASSUME \/ CatalogChange \/ SweepList \/ Restart \/ UNCHANGED vars
             \/ \E g \in Gateways : PlatformMove(g)
      PROVE  UNCHANGED <<sess, secret, reg, excused, gwNs, now>>
  BY <1>3 DEF CatalogChange, SweepList, Restart, vars, PlatformMove, apiVars, secretVars
<1>4. UNCHANGED <<sess, secret, reg, excused, gwNs, now>>
  BY <1>1, <1>2, <1>3, Zenon
<1> QED
  BY <1>4, SameView DEF Service!Forget

\* A new grant asks for an expiry of its own.
LEMMA GrantsCreated ==
    ASSUME TypeOK, NEW s \in Sessions, NEW ttl \in TTLs, CreateSession(s, ttl)
    PROVE  Service!Create(s)
<1> DEFINE grant == [Absent EXCEPT !.st = "live", !.ttl = ttl, !.created = now]
<1>1. /\ sess[s].st = "none" /\ sess' = [sess EXCEPT ![s] = grant]
      /\ UNCHANGED <<secret, reg, gwNs, now, excused>>
  BY DEF CreateSession, secretVars
<1>2. /\ grant.st = "live" /\ ~grant.fin /\ grant.created = now /\ grant.ttl = ttl
  BY GrantTypes DEF Grant
<1>3. LifeOf(grant) = "new" /\ TermOf(grant) = now + ttl
  BY <1>2 DEF LifeOf, TermOf, expiryFor
<1>4. now + ttl \in Nat
  BY ConstantsAssumption DEF TypeOK
<1> HIDE DEF grant
<1>5. /\ KeyLife' = [KeyLife EXCEPT ![s] = LifeOf(grant)]
      /\ KeyTerm' = [KeyTerm EXCEPT ![s] = TermOf(grant)]
  BY <1>1, GrantView, Zenon
<1>6. /\ KeyLife' = [KeyLife EXCEPT ![s] = "new"]
      /\ KeyTerm' = [KeyTerm EXCEPT ![s] = now + ttl]
  BY <1>3, <1>5
<1>7. KeyLife[s] = "none"
  BY <1>1 DEF KeyLife, LifeOf
<1>8. KeyTerm'[s] = now + ttl
  BY <1>6 DEF KeyTerm
<1> QED
  BY <1>1, <1>4, <1>6, <1>7, <1>8, SameView DEF Service!Create, Service!Becomes

\* AddFinalizer binds the operator to a grant not bound to before, or repeats itself.
LEMMA GrantsClaimed ==
    ASSUME TypeOK, GuardInv, AddFinalizer
    PROVE  Service!Claim(w.s) \/ Service!Forget
<1>a. w.s \in Sessions /\ sess[w.s] \in Grant
  BY DEF TypeOK, Worker
<1>1. UNCHANGED <<secret, reg, gwNs, now, excused>>
  BY DEF AddFinalizer, secretVars
<1>2. CASE UNCHANGED sess
  BY <1>1, <1>2, SameView DEF Service!Forget
<1>3. CASE sess[w.s] = w.snap /\ sess' = [sess EXCEPT ![w.s].fin = TRUE]
  <2> DEFINE grant == [sess[w.s] EXCEPT !.fin = TRUE]
  <2>1. sess[w.s].st = "live"
    BY <1>3 DEF AddFinalizer, GuardInv
  <2>2. grant.st = "live" /\ grant.fin /\ expiryFor(grant) = expiryFor(sess[w.s])
    BY <1>a, <2>1 DEF Grant, expiryFor
  <2>3. sess' = [sess EXCEPT ![w.s] = grant]
    BY <1>3
  <2>4. LifeOf(grant) = "claimed" /\ TermOf(grant) = TermOf(sess[w.s])
    BY <2>1, <2>2 DEF LifeOf, TermOf
  <2> HIDE DEF grant
  <2>5. /\ KeyLife' = [KeyLife EXCEPT ![w.s] = LifeOf(grant)]
        /\ KeyTerm' = [KeyTerm EXCEPT ![w.s] = TermOf(grant)]
    BY <1>a, <2>3, GrantView, Zenon
  <2>6. KeyLife' = [KeyLife EXCEPT ![w.s] = "claimed"]
    BY <2>4, <2>5
  <2>7. KeyTerm' = KeyTerm
    BY <2>4, <2>5 DEF KeyTerm
  <2>8. KeyLife[w.s] \in {"new", "claimed"}
    BY <1>a, <2>1 DEF KeyLife, LifeOf
  <2>9. KeyLife[w.s] = "claimed" => KeyLife' = KeyLife
    BY <2>6 DEF KeyLife
  <2> QED
    BY <1>1, <2>6, <2>7, <2>8, <2>9, SameView
       DEF Service!Claim, Service!Becomes, Service!Forget
<1> QED
  BY <1>2, <1>3 DEF AddFinalizer

\* A grant that goes asks for no expiry any more.
LEMMA GoneView ==
    ASSUME TypeOK, NEW STATE s, s \in Sessions, sess' = [sess EXCEPT ![s] = Gone]
    PROVE  KeyLife' = [KeyLife EXCEPT ![s] = "gone"] /\ KeyTerm' = [KeyTerm EXCEPT ![s] = 0]
<1>1. LifeOf(Gone) = "gone" /\ TermOf(Gone) = 0
  BY GrantTypes DEF LifeOf, TermOf
<1>2. /\ KeyLife' = [KeyLife EXCEPT ![s] = LifeOf(Gone)]
      /\ KeyTerm' = [KeyTerm EXCEPT ![s] = TermOf(Gone)]
  BY GrantView, Zenon
<1> QED
  BY <1>1, <1>2

\* A grant without the finalizer is gone at once, one with it waits for reconcileDelete.
LEMMA GrantsDeleted ==
    ASSUME TypeOK, NEW s \in Sessions, DeleteSession(s)
    PROVE  Service!Delete(s)
<1>a. sess[s] \in Grant
  BY DEF TypeOK
<1>1. sess[s].st = "live" /\ UNCHANGED <<secret, reg, gwNs, now, excused>>
  BY DEF DeleteSession, secretVars
<1>2. CASE ~sess[s].fin
  <2>1. sess' = [sess EXCEPT ![s] = Gone]
    BY <1>2 DEF DeleteSession
  <2>2. KeyLife' = [KeyLife EXCEPT ![s] = "gone"] /\ KeyTerm' = [KeyTerm EXCEPT ![s] = 0]
    BY <2>1, GoneView, Zenon
  <2>3. KeyLife[s] = "new"
    BY <1>1, <1>2 DEF KeyLife, LifeOf
  <2> QED
    BY <1>1, <2>2, <2>3, SameView DEF Service!Delete, Service!Ends, Service!Becomes
<1>3. CASE sess[s].fin
  <2> DEFINE grant == [sess[s] EXCEPT !.st = "deleting", !.delAt = now]
  <2>1. sess' = [sess EXCEPT ![s] = grant]
    BY <1>3 DEF DeleteSession
  <2>2. /\ grant.st = "deleting" /\ expiryFor(grant) = expiryFor(sess[s])
    BY <1>a DEF Grant, expiryFor
  <2>3. LifeOf(grant) = "leaving" /\ TermOf(grant) = TermOf(sess[s])
    BY <1>1, <2>2 DEF LifeOf, TermOf
  <2> HIDE DEF grant
  <2>4. /\ KeyLife' = [KeyLife EXCEPT ![s] = LifeOf(grant)]
        /\ KeyTerm' = [KeyTerm EXCEPT ![s] = TermOf(grant)]
    BY <2>1, GrantView, Zenon
  <2>5. KeyLife' = [KeyLife EXCEPT ![s] = "leaving"]
    BY <2>3, <2>4
  <2>6. KeyTerm' = KeyTerm
    BY <2>3, <2>4 DEF KeyTerm
  <2>7. KeyLife[s] = "claimed"
    BY <1>1, <1>3 DEF KeyLife, LifeOf
  <2> QED
    BY <1>1, <2>5, <2>6, <2>7, SameView DEF Service!Delete, Service!Ends, Service!Becomes
<1> QED
  BY <1>2, <1>3

\* Stripping the finalizer waives every gateway.
LEMMA GrantsForced ==
    ASSUME TypeOK, NEW s \in Sessions, ForceDelete(s)
    PROVE  Service!ForceDelete(s)
<1>1. /\ sess[s].st \in {"live", "deleting"} /\ sess' = [sess EXCEPT ![s] = Gone]
      /\ excused' = [excused EXCEPT ![s] = Gateways]
      /\ UNCHANGED <<secret, reg, gwNs, now>>
  BY DEF ForceDelete, secretVars
<1>2. KeyLife' = [KeyLife EXCEPT ![s] = "gone"] /\ KeyTerm' = [KeyTerm EXCEPT ![s] = 0]
  BY <1>1, GoneView, Zenon
<1>3. KeyLife[s] \in {"new", "claimed", "leaving"}
  BY <1>1 DEF KeyLife, LifeOf
<1> QED
  BY <1>1, <1>2, <1>3, SameView DEF Service!ForceDelete, Service!Ends, Service!Becomes

\* releaseSessionFinalizer vouches for the one namespace it emptied, or for none.
LEMMA GrantsReleased ==
    ASSUME TypeOK, GuardInv, releaseSessionFinalizer
    PROVE  Service!Depart(w.s) \/ Service!Forget
<1>a. /\ w.s \in Sessions /\ w.ns \in Gateways \union {NoGateway}
      /\ excused \in [Sessions -> SUBSET Gateways]
  BY DEF TypeOK, Worker
<1>1. w.pc = "release" /\ UNCHANGED <<secret, reg, gwNs, now>>
  BY DEF releaseSessionFinalizer, secretVars
<1>2. CASE UNCHANGED <<sess, excused>>
  BY <1>1, <1>2, SameView DEF Service!Forget
<1>3. CASE /\ sess[w.s].st = "deleting" /\ sess' = [sess EXCEPT ![w.s] = Gone]
           /\ excused' = [excused EXCEPT ![w.s] = @ \union (Gateways \ {w.ns})]
  <2>1. KeyLife' = [KeyLife EXCEPT ![w.s] = "gone"] /\ KeyTerm' = [KeyTerm EXCEPT ![w.s] = 0]
    BY <1>a, <1>3, GoneView, Zenon
  <2>2. KeyLife[w.s] = "leaving"
    BY <1>a, <1>3 DEF KeyLife, LifeOf
  <2>3. CASE w.ns = NoGateway
    <3>1. excused[w.s] \union (Gateways \ {w.ns}) = Gateways
      BY <1>a, <2>3, ConstantsAssumption
    <3> QED
      BY <1>1, <1>3, <2>1, <2>2, <3>1, SameView
         DEF Service!Depart, Service!Ends, Service!Becomes
  <2>4. CASE w.ns \in Gateways
    <3>1. reg[w.s][w.ns] = NoReg
      BY <1>1, <2>4, ConstantsAssumption DEF GuardInv
    <3> QED
      BY <1>1, <1>3, <2>1, <2>2, <2>4, <3>1, SameView
         DEF Service!Depart, Service!Ends, Service!Becomes
  <2> QED
    BY <1>a, <2>3, <2>4
<1> QED
  BY <1>2, <1>3 DEF releaseSessionFinalizer

\* updateSessionStatus changes nothing the contract speaks of.
LEMMA StatusReported ==
    ASSUME TypeOK, updateSessionStatus
    PROVE  Service!Forget
<1>a. w.s \in Sessions /\ sess[w.s] \in Grant
  BY DEF TypeOK, Worker
<1>1. UNCHANGED <<secret, reg, gwNs, now, excused>>
  BY DEF updateSessionStatus, secretVars
<1>2. CASE UNCHANGED sess
  BY <1>1, <1>2, SameView DEF Service!Forget
<1>3. CASE sess' = [sess EXCEPT ![w.s].status = w.snap.status]
  <2> DEFINE grant == [sess[w.s] EXCEPT !.status = w.snap.status]
  <2>1. sess' = [sess EXCEPT ![w.s] = grant]
    BY <1>3
  <2>2. /\ grant.st = sess[w.s].st /\ grant.fin = sess[w.s].fin
        /\ expiryFor(grant) = expiryFor(sess[w.s])
    BY <1>a DEF Grant, expiryFor
  <2>3. LifeOf(grant) = LifeOf(sess[w.s]) /\ TermOf(grant) = TermOf(sess[w.s])
    BY <2>2 DEF LifeOf, TermOf
  <2> HIDE DEF grant
  <2>4. /\ KeyLife' = [KeyLife EXCEPT ![w.s] = LifeOf(grant)]
        /\ KeyTerm' = [KeyTerm EXCEPT ![w.s] = TermOf(grant)]
    BY <1>a, <2>1, GrantView, Zenon
  <2>5. KeyLife' = KeyLife /\ KeyTerm' = KeyTerm
    BY <2>3, <2>4 DEF KeyLife, KeyTerm
  <2> QED
    BY <1>1, <2>5, SameView DEF Service!Forget
<1> QED
  BY <1>2, <1>3 DEF updateSessionStatus

\* A registration is written or deleted alone.
LEMMA EntrySet ==
    ASSUME TypeOK, NEW STATE s, s \in Sessions, NEW STATE g, g \in Gateways, NEW STATE obj,
           reg' = [reg EXCEPT ![s][g] = obj]
    PROVE  Service!SetEntry(s, g) /\ reg'[s][g] = obj
<1>1. reg'[s][g] = obj
  BY DEF TypeOK
<1>2. reg' = [reg EXCEPT ![s][g] = reg'[s][g]]
  BY <1>1, Zenon
<1> QED
  BY <1>1, <1>2 DEF Service!SetEntry

\* ensureRegistration tells the gateway the term of the grant, under a claim.
LEMMA EntriesPublished ==
    ASSUME TypeOK, PassInv, GuardInv, PassBehind, Terms, ensureRegistration
    PROVE  Service!Publish(w.s, w.ns) \/ Service!Forget
<1> DEFINE obj == [hash |-> Hash(w.key), exp |-> expiryFor(w.snap)]
<1>a. /\ w.s \in Sessions /\ w.ns \in Gateways /\ w.pc = "register"
      /\ w.key \in Keys /\ expiryFor(w.snap) \in Nat
  <2>1. w.s \in Sessions /\ w.snap \in Grant /\ w.key \in Keys \union {NoKey}
    BY DEF TypeOK, Worker
  <2>2. w.ns \in Gateways /\ w.key # NoKey /\ w.pc = "register"
    BY DEF PassInv, ensureRegistration, Publishing
  <2>3. expiryFor(w.snap) \in Nat
    <3>1. w.snap.created \in Nat /\ w.snap.ttl \in Nat
      BY <2>1, ConstantsAssumption DEF Grant
    <3> QED
      BY <3>1 DEF expiryFor
  <2> QED
    BY <2>1, <2>2, <2>3
<1>1. UNCHANGED <<sess, secret, excused, gwNs, now>>
  BY DEF ensureRegistration, secretVars
<1>2. CASE UNCHANGED reg
  BY <1>1, <1>2, SameView DEF Service!Forget
<1>3. CASE reg' = [reg EXCEPT ![w.s][w.ns] = obj] /\ (reg[w.s][w.ns] = NoReg => gwNs[w.ns] = "active")
  <2>1. obj \in Registration /\ obj.exp = expiryFor(w.snap)
    BY <1>a DEF Registration, Hash
  <2>2. Registration = Service!Entry
    BY DEF Registration, Service!Entry
  <2>3. KeyLife[w.s] # "gone" => expiryFor(w.snap) = KeyTerm[w.s]
    <3>1. PICK e \in Nat : OneExpiry(w.s, e)
      BY <1>a DEF Terms
    <3>2. expiryFor(w.snap) = e
      BY <1>a, <3>1 DEF OneExpiry, Publishing
    <3>3. KeyLife[w.s] # "gone" => sess[w.s].st \in {"live", "deleting"}
      BY <1>a DEF KeyLife, LifeOf, PassBehind, TypeOK, Grant
    <3>4. sess[w.s].st \in {"live", "deleting"} => KeyTerm[w.s] = e
      BY <1>a, <3>1 DEF OneExpiry, Present, KeyTerm, TermOf
    <3> QED
      BY <3>2, <3>3, <3>4
  <2>4. Service!Bound(w.s)
    BY <1>a, PassBound DEF Publishing
  <2> HIDE DEF obj
  <2>5. Service!SetEntry(w.s, w.ns) /\ reg'[w.s][w.ns] = obj
    BY <1>a, <1>3, EntrySet, Zenon
  <2>6. reg[w.s][w.ns] = NoReg => w.ns \in ActiveGateways
    BY <1>a, <1>3 DEF ActiveGateways
  <2> QED
    BY <1>1, <2>1, <2>2, <2>3, <2>4, <2>5, <2>6, SameView DEF Service!Publish
<1>4. \/ UNCHANGED reg
      \/ /\ reg' = [reg EXCEPT ![w.s][w.ns] = obj]
         /\ reg[w.s][w.ns] = NoReg => gwNs[w.ns] = "active"
  BY DEF ensureRegistration
<1> QED
  BY <1>2, <1>3, <1>4

\* reconcileDelete takes back what a deleted grant published.
LEMMA EntriesRemoved ==
    ASSUME TypeOK, PassInv, PassBehind, removeRegistration
    PROVE  Service!Revoke(w.s, w.ns) \/ Service!Forget
<1>a. w.s \in Sessions /\ w.ns \in Gateways /\ w.pc = "remove"
  BY DEF TypeOK, Worker, PassInv, removeRegistration
<1>1. UNCHANGED <<sess, secret, excused, gwNs, now>>
  BY DEF removeRegistration, secretVars
<1>2. CASE UNCHANGED reg
  BY <1>1, <1>2, SameView DEF Service!Forget
<1>3. CASE reg' = [reg EXCEPT ![w.s][w.ns] = NoReg]
  <2>1. Service!SetEntry(w.s, w.ns) /\ reg'[w.s][w.ns] = NoReg
    <3>1. reg'[w.s][w.ns] = NoReg
      BY <1>a, <1>3 DEF TypeOK
    <3> QED
      BY <1>3, <3>1 DEF Service!SetEntry
  <2>2. KeyLife[w.s] \in {"leaving", "gone"}
    BY <1>a DEF PassBehind, Removing, KeyLife, LifeOf
  <2> QED
    BY <1>1, <2>1, <2>2, SameView DEF Service!Revoke
<1> QED
  BY <1>2, <1>3 DEF removeRegistration

\* The sweep takes back only what has expired.
LEMMA EntriesSwept ==
    ASSUME TypeOK, Terms, NEW s \in Sessions, NEW g \in Gateways, SweepDelete(s, g)
    PROVE  Service!Revoke(s, g) \/ Service!Forget
<1>1. <<s, g>> \in sweep /\ UNCHANGED <<sess, secret, excused, gwNs, now>>
  BY DEF SweepDelete, secretVars
<1>2. CASE UNCHANGED reg
  BY <1>1, <1>2, SameView DEF Service!Forget
<1>3. CASE reg' = [reg EXCEPT ![s][g] = NoReg]
  <2>1. Service!SetEntry(s, g) /\ reg'[s][g] = NoReg
    BY <1>3, EntrySet
  <2>2. reg[s][g] # NoReg => reg[s][g].exp <= now
    BY <1>1 DEF Terms, OneExpiry
  <2> QED
    BY <1>1, <2>1, <2>2, SameView DEF Service!Revoke
<1> QED
  BY <1>2, <1>3 DEF SweepDelete

\* A deleted bundled platform takes its namespace, and what is in it, with it.
LEMMA GatewaysFall ==
    ASSUME TypeOK, PlatformDelete \/ \E g \in Gateways : GatewayNamespaceGone(g)
    PROVE  (\E g \in Gateways : Service!Fall(g) \/ Service!Vanish(g)) \/ Service!Forget
<1>a. gwNs \in [Gateways -> {"active", "terminating", "gone"}]
  BY DEF TypeOK
<1>1. CASE PlatformDelete
  <2>1. /\ UNCHANGED <<sess, secret, reg, excused, now>> /\ platform \in Gateways
        /\ gwNs' = [gwNs EXCEPT ![platform] = IF platform \in External THEN @
                                               ELSE "terminating"]
    BY <1>1 DEF PlatformDelete, secretVars, TypeOK
  <2>2. CASE platform \in External
    <3>1. gwNs' = gwNs
      BY <1>a, <2>1, <2>2
    <3> QED
      BY <2>1, <3>1, SameView DEF Service!Forget
  <2>3. CASE platform \notin External
    <3>1. ActiveGateways' = ActiveGateways \ {platform}
      BY <1>a, <2>1, <2>3 DEF ActiveGateways
    <3> QED
      BY <2>1, <3>1, SameView DEF Service!Fall
  <2> QED
    BY <2>2, <2>3
<1>2. ASSUME NEW g \in Gateways, GatewayNamespaceGone(g) PROVE Service!Vanish(g)
  <2>1. /\ gwNs[g] = "terminating" /\ gwNs' = [gwNs EXCEPT ![g] = "gone"]
        /\ reg' = [s \in Sessions |-> [reg[s] EXCEPT ![g] = NoReg]]
        /\ UNCHANGED <<sess, secret, excused, now>>
    BY <1>2 DEF GatewayNamespaceGone, secretVars
  <2>2. g \notin ActiveGateways /\ ActiveGateways' = ActiveGateways
    BY <1>a, <2>1 DEF ActiveGateways
  <2> QED
    BY <2>1, <2>2, SameView DEF Service!Vanish
<1> QED
  BY <1>1, <1>2

\* A Secret is given a key under a claim, and loses it to outsiders only.
LEMMA KeysMove ==
    ASSUME TypeOK, PassInv, GuardInv,
           \/ updateSecretURL \/ writeSecret
           \/ \E s \in Sessions : CollectSecret(s) \/ TamperSecret(s)
    PROVE  (\E s \in Sessions : Service!Give(s) \/ Service!Lose(s)) \/ Service!Forget
<1>a. w.s \in Sessions
  BY DEF TypeOK, Worker
<1>1. UNCHANGED <<sess, reg, excused, gwNs, now>>
  BY DEF updateSecretURL, writeSecret, CollectSecret, TamperSecret
<1>2. CASE SecretKey' = SecretKey
  BY <1>1, <1>2, SameView DEF Service!Forget
<1>3. CASE writeSecret
  <2>1. CASE /\ SecretKey[w.s] = NoKey /\ w.key \in Keys
             /\ SecretKey' = [SecretKey EXCEPT ![w.s] = w.key]
    <3>1. Service!Bound(w.s)
      BY <1>3, PassBound DEF writeSecret, Publishing
    <3>2. SecretKey'[w.s] = w.key
      BY <1>a, <2>1 DEF SecretKey
    <3> QED
      BY <1>1, <1>a, <2>1, <3>1, <3>2, SameView DEF Service!Give
  <2> QED
    BY <1>2, <1>3, <2>1, WriteGivesKey
<1>4. ASSUME NEW s \in Sessions, CollectSecret(s) \/ TamperSecret(s) PROVE Service!Lose(s)
  BY <1>1, <1>4, OutsidersLoseKeys, SameView DEF Service!Lose
<1> QED
  BY <1>2, <1>3, <1>4, URLKeepsKey

\* A new key is nobody's.
LEMMA KeysIssued ==
    ASSUME TypeOK, PassInv, GuardInv, EmptyHanded, [Next]_vars, NEW k \in Keys, mintKey(k)
    PROVE  Service!Issue(w.s, k) \/ (Service!Forget /\ Service!RingShrinks)
<1>a. w \in Worker /\ w.s \in Sessions /\ k # NoKey
  BY ConstantsAssumption DEF TypeOK, Worker
<1>b. /\ w.pc = "owner" /\ w.key = NoKey /\ (w.live = NoSecret \/ w.live.key = NoKey)
      /\ k \notin HeldKeys
  BY DEF mintKey, EmptyHanded, PassInv
<1>1. UNCHANGED <<sess, secret, reg, excused, gwNs, now, secretSeen, regSeen>>
  BY DEF mintKey, apiVars, caches
<1>2. \A t \in Sessions : k \notin KeyRing[t]
  <2> SUFFICES ASSUME NEW t \in Sessions PROVE k \notin KeysOf(t)
    BY DEF KeyRing
  <2>1. \A o \in {secret[t], secretSeen[t]} : o # NoSecret => o.key # k
    BY <1>b DEF HeldKeys
  <2>2. \A g \in Gateways, r \in {reg[t], regSeen[t]} : r[g] # NoReg => r[g].hash # Hash(k)
    <3> SUFFICES ASSUME NEW g \in Gateways, NEW r \in {reg[t], regSeen[t]},
                        r[g] # NoReg, r[g].hash = Hash(k)
                 PROVE  FALSE
      OBVIOUS
    <3> DEFINE Copies == {{reg[x][h], regSeen[x][h]} : x \in Sessions, h \in Gateways}
               Shown == (UNION Copies) \ {NoReg}
    <3>1. {reg[t][g], regSeen[t][g]} \in Copies
      OBVIOUS
    <3>2. r[g] \in {reg[t][g], regSeen[t][g]} \ {NoReg}
      OBVIOUS
    <3>3. r[g].hash.sha256 = k
      BY DEF Hash
    <3>4. k \notin {o.hash.sha256 : o \in Shown}
      BY <1>b DEF HeldKeys
    <3> HIDE DEF Copies
    <3>5. r[g] \in Shown
      BY <3>1, <3>2
    <3> HIDE DEF Shown
    <3> QED
      BY <3>3, <3>4, <3>5
  <2>3. ~(w.key = k \/ (w.live # NoSecret /\ w.live.key = k))
    BY <1>a, <1>b
  <2> QED
    BY <2>1, <2>2, <2>3 DEF KeysOf
<1>3. CASE Failed
  <2>1. w'.key = NoKey /\ w'.live = NoSecret
    BY <1>3, HandsEmpty
  <2>2. \A s \in Sessions : KeysOf(s)' \subseteq KeysOf(s)
    BY <1>1, <2>1, ConstantsAssumption DEF KeysOf
  <2>3. \A s \in Sessions : (Service!InUse(s))' \subseteq KeyRing'[s]
    BY InUseHeld, TypesKept
  <2>4. Service!RingShrinks
    <3>1. KeyRing' \in [Sessions -> SUBSET Keys]
      BY DEF KeyRing, KeysOf
    <3> QED
      BY <2>2, <2>3, <3>1 DEF Service!RingShrinks, KeyRing
  <2> QED
    BY <1>1, <2>4, SameView DEF Service!Forget
<1>4. CASE w' = [w EXCEPT !.pc = "write", !.key = k, !.owned = setSessionNamespaceOwner(w.s)]
  <2>1. w'.key = k /\ w'.live = w.live /\ w'.s = w.s
    BY <1>a, <1>4 DEF Worker
  <2>2. \A t \in Sessions : KeysOf(t)' = IF t = w.s THEN KeysOf(t) \union {k} ELSE KeysOf(t)
    BY <1>a, <1>b, <1>1, <2>1, ConstantsAssumption DEF KeysOf
  <2>3. KeyRing' = [KeyRing EXCEPT ![w.s] = @ \union {k}]
    BY <1>a, <2>2 DEF KeyRing
  <2>4. Service!Bound(w.s)
    BY <1>b, PassBound DEF Publishing
  <2> QED
    BY <1>1, <1>2, <2>3, <2>4, SameView DEF Service!Issue
<1> QED
  BY <1>3, <1>4 DEF mintKey

--------------------------------------------------------------------------------
(***************************************************************************)
(* SessionKeys implements KeyService.                                       *)
(***************************************************************************)

\* What the refinement goes by: the types, what a pass hands on, the finalizer it
\* started from, what it has in hand, the grant behind it, and one expiry per grant.
Ready == /\ TypeOK /\ PassInv /\ GuardInv /\ PassBehind /\ Terms
         /\ EmptyHanded

\* It begins as the contract does, with no grant, no key and every gateway standing.
LEMMA ContractBegins ==
    Init => Service!Init /\ EmptyHanded
<1> SUFFICES ASSUME Init PROVE Service!Init /\ EmptyHanded
  OBVIOUS
<1>1. w.key = NoKey /\ w.live = NoSecret
  BY DEF Init, IdleWorker
<1>2. KeyLife = [s \in Sessions |-> "none"] /\ KeyTerm = [s \in Sessions |-> 0]
  <2>1. LifeOf(Absent) = "none" /\ TermOf(Absent) = 0
    BY GrantTypes DEF LifeOf, TermOf
  <2>2. \A s \in Sessions : sess[s] = Absent
    BY DEF Init
  <2> QED
    BY <2>1, <2>2 DEF KeyLife, KeyTerm
<1>3. SecretKey = [s \in Sessions |-> NoKey]
  BY DEF Init, SecretKey
<1>4. KeyRing = [s \in Sessions |-> {}]
  <2>1. ASSUME NEW s \in Sessions PROVE KeysOf(s) = {}
    <3>1. secret[s] = NoSecret /\ secretSeen[s] = NoSecret
      BY DEF Init
    <3>2. \A g \in Gateways : reg[s][g] = NoReg /\ regSeen[s][g] = NoReg
      BY DEF Init
    <3> QED
      BY <1>1, <3>1, <3>2, ConstantsAssumption DEF KeysOf
  <2> QED
    BY <2>1 DEF KeyRing
<1>5. ActiveGateways = Gateways
  BY DEF Init, ActiveGateways
<1>6. reg = [s \in Sessions |-> [g \in Gateways |-> NoReg]] /\ now = 0
      /\ excused = [s \in Sessions |-> {}]
  BY DEF Init
<1> QED
  BY <1>1, <1>2, <1>3, <1>4, <1>5, <1>6 DEF Service!Init, EmptyHanded

\* A pass never has a key in hand but when it is about to write or register it.
LEMMA EmptyHandedKept ==
    ASSUME TypeOK, PassInv, EmptyHanded, [Next]_vars
    PROVE  EmptyHanded'
<1>1. CASE Keys = {}
  <2>1. TypeOK'
    BY TypesKept
  <2> QED
    BY <1>1, <2>1 DEF TypeOK, Worker, EmptyHanded
<1>2. CASE Keys # {}
  BY <1>2, HandSteps DEF Hands
<1> QED
  BY <1>1, <1>2

\* Every step is one the contract allows, while nobody edits a TTL.
LEMMA ContractSteps ==
    ASSUME Ready, [Next]_vars, "editTTL" \notin Faults
    PROVE  Service!Next
<1> USE DEF Ready
<1> DEFINE Allowed ==
        \/ \E s \in Sessions :
              \/ Service!Create(s) \/ Service!Claim(s) \/ Service!Delete(s)
              \/ Service!ForceDelete(s) \/ Service!Depart(s)
              \/ Service!Give(s) \/ Service!Lose(s)
              \/ \E g \in Gateways : Service!Publish(s, g) \/ Service!Revoke(s, g)
        \/ \E g \in Gateways : Service!Fall(g) \/ Service!Vanish(g)
        \/ Service!Tick \/ Service!Forget
<1>a. w.s \in Sessions
  BY DEF TypeOK, Worker
<1>1. ASSUME \/ \E x \in Sessions, readable \in BOOLEAN : Reconcile(x, readable)
             \/ resolveCatalog \/ readSecret \/ checkEnding \/ recordOwner
             \/ gatewayNamespaceForTeardown
             \/ \E x \in Sessions : Deliver(x) \/ EndSessionNamespace(x)
             \/ CatalogChange \/ SweepList \/ Restart \/ UNCHANGED vars
             \/ \E g \in Gateways : PlatformMove(g)
      PROVE  Allowed
  BY <1>1, UnseenSteps
<1>2. ASSUME NEW s \in Sessions,
             \/ \E ttl \in TTLs : CreateSession(s, ttl)
             \/ DeleteSession(s) \/ ForceDelete(s)
      PROVE  Allowed
  BY <1>2, GrantsCreated, GrantsDeleted, GrantsForced
<1>3. ASSUME AddFinalizer \/ releaseSessionFinalizer \/ updateSessionStatus PROVE Allowed
  BY <1>3, <1>a, GrantsClaimed, GrantsReleased, StatusReported
<1>4. ASSUME \/ updateSecretURL \/ writeSecret
             \/ \E s \in Sessions : CollectSecret(s) \/ TamperSecret(s)
      PROVE  Allowed
  BY <1>4, KeysMove
<1>5. ASSUME ensureRegistration \/ removeRegistration PROVE Allowed
  <2>1. w.ns \in Gateways
    BY <1>5 DEF PassInv, ensureRegistration, removeRegistration, Publishing
  <2> QED
    BY <1>5, <1>a, <2>1, EntriesPublished, EntriesRemoved
<1>6. ASSUME NEW s \in Sessions, NEW g \in Gateways, SweepDelete(s, g) PROVE Allowed
  BY <1>6, EntriesSwept
<1>7. ASSUME PlatformDelete \/ \E g \in Gateways : GatewayNamespaceGone(g) PROVE Allowed
  BY <1>7, GatewaysFall
<1>8. ASSUME Tick PROVE Allowed
  <2>1. now' = now + 1 /\ UNCHANGED <<sess, secret, reg, excused, gwNs>>
    BY <1>8 DEF Tick, secretVars
  <2> QED
    BY <2>1, SameView DEF Service!Tick
<1>9. CASE \A k \in Keys : ~mintKey(k)
  <2>1. Service!RingShrinks
    BY <1>9, RingStep
  <2> HIDE DEF Allowed
  <2>2. Allowed
    <3>1. CASE WorkerStep
      BY <3>1, <1>1, <1>3, <1>4, <1>5, <1>9, Zenon DEF WorkerStep
    <3>2. CASE \E s \in Sessions : Deliver(s)
      BY <3>2, <1>1, Zenon
    <3>3. CASE SweepStep \/ Tick \/ UNCHANGED vars
      BY <3>3, <1>1, <1>6, <1>8, Zenon DEF SweepStep
    <3>4. CASE Environment
      <4>1. \A s \in Sessions, ttl \in TTLs : ~EditTTL(s, ttl)
        BY DEF EditTTL
      <4> QED
        BY <3>4, <4>1, <1>1, <1>2, <1>4, <1>7, Zenon DEF Environment
    <3> QED
      BY <3>1, <3>2, <3>3, <3>4 DEF Next
  <2> QED
    BY <2>1, <2>2 DEF Allowed, Service!Next
<1>10. ASSUME NEW k \in Keys, mintKey(k) PROVE Service!Next
  BY <1>10, <1>a, KeysIssued DEF Service!Next
<1> QED
  BY <1>9, <1>10

\* SessionKeys implements KeyService: its initial states map to initial ones, and
\* every step of the pass, the teardown, the sweep, an informer, a new process or
\* anybody else to a step of the contract, most of them to none. The hypothesis is
\* needed: ensureRegistration writes the expiry of the TTL its pass has read.
THEOREM KeyContractKept ==
    ASSUME "editTTL" \notin Faults
    PROVE  Spec => KeepsKeyContract
<1>1. Init => Service!Init /\ EmptyHanded
  BY ContractBegins
<1>2. TypeOK /\ PassInv /\ EmptyHanded /\ [Next]_vars => EmptyHanded'
  BY EmptyHandedKept
<1>3. /\ TypeOK /\ PassInv /\ GuardInv /\ PassBehind /\ Terms /\ EmptyHanded /\ [Next]_vars
      => [Service!Next]_(Service!serviceVars)
  BY ContractSteps DEF Ready
<1> QED
  BY <1>1, <1>2, <1>3, TypeCorrect, RegistrationsGuarded, TermsStand, PTL
     DEF Spec, KeepsKeyContract, Service!Spec

--------------------------------------------------------------------------------
(***************************************************************************)
(* What the contract comes to, from the contract alone: nothing below looks *)
(* at how SessionKeys keeps it.                                             *)
(***************************************************************************)

\* What is said of life, term, entries and waivers, and the types that takes.
Told == /\ KeyLife \in [Sessions -> Service!Life]
        /\ KeyTerm \in [Sessions -> Nat]
        /\ reg \in [Sessions -> [Gateways -> Service!Entry \union {NoReg}]]
        /\ excused \in [Sessions -> SUBSET Gateways]
        /\ Service!Unclaimed /\ Service!CleanedUpAfter /\ Service!TermsTold

Kept == Service!TypeOK /\ Service!OneOwner /\ Told

\* No grant is known, no key is in use and every ring is empty at the start.
LEMMA KeptAtFirst == Service!Init => Kept
<1> SUFFICES ASSUME Service!Init PROVE Kept
  OBVIOUS
<1>1. \A s \in Sessions : Service!InUse(s) = {}
  BY ConstantsAssumption DEF Service!Init, Service!InUse, Service!Shows
<1> QED
  BY <1>1 DEF Kept, Told, Service!Init, Service!TypeOK, Service!Life, Service!Unclaimed,
     Service!CleanedUpAfter, Service!OneOwner, Service!TermsTold

\* A step that leaves the keys and the registrations alone leaves in use what was.
LEMMA SameInUse ==
    ASSUME UNCHANGED <<SecretKey, reg>>, NEW s \in Sessions
    PROVE  (Service!InUse(s))' = Service!InUse(s)
BY DEF Service!InUse, Service!Shows

\* Rings that shrink around what is in use stay apart, and so does a ring with a key
\* nobody has.
LEMMA RingsApart ==
    ASSUME Service!TypeOK, Service!OneOwner,
           \/ Service!RingShrinks
           \/ \E s \in Sessions, k \in Keys : Service!Issue(s, k)
    PROVE  Service!OneOwner' /\ KeyRing' \in [Sessions -> SUBSET Keys]
<1>a. KeyRing \in [Sessions -> SUBSET Keys]
  BY DEF Service!TypeOK
<1>1. CASE Service!RingShrinks
  <2>1. \A s \in Sessions : (Service!InUse(s))' \subseteq KeyRing'[s]
                            /\ KeyRing'[s] \subseteq KeyRing[s]
    BY <1>1 DEF Service!RingShrinks
  <2>2. \A s \in Sessions : \A t \in Sessions \ {s} : KeyRing[s] \intersect KeyRing[t] = {}
    BY DEF Service!OneOwner
  <2>3. \A s \in Sessions : \A t \in Sessions \ {s} : KeyRing'[s] \intersect KeyRing'[t] = {}
    BY <2>1, <2>2
  <2> QED
    BY <1>1, <2>1, <2>3 DEF Service!OneOwner, Service!RingShrinks
<1>2. ASSUME NEW s \in Sessions, NEW k \in Keys, Service!Issue(s, k)
      PROVE  Service!OneOwner' /\ KeyRing' \in [Sessions -> SUBSET Keys]
  <2>1. /\ KeyRing' = [KeyRing EXCEPT ![s] = @ \union {k}]
        /\ \A t \in Sessions : k \notin KeyRing[t]
        /\ UNCHANGED <<SecretKey, reg>>
    BY <1>2 DEF Service!Issue
  <2>2. \A t \in Sessions : KeyRing'[t] = IF t = s THEN KeyRing[t] \union {k} ELSE KeyRing[t]
    BY <1>a, <2>1
  <2>3. \A t \in Sessions : /\ Service!InUse(t) \subseteq KeyRing[t]
                            /\ \A u \in Sessions \ {t} : KeyRing[t] \intersect KeyRing[u] = {}
    BY DEF Service!OneOwner
  <2>4. ASSUME NEW t \in Sessions PROVE (Service!InUse(t))' \subseteq KeyRing'[t]
    <3>1. Service!InUse(t) \subseteq KeyRing[t] /\ KeyRing[t] \subseteq KeyRing'[t]
      <4>1. KeyRing'[t] = KeyRing[t] \union {k} \/ KeyRing'[t] = KeyRing[t]
        BY <2>2, Zenon
      <4>2. Service!InUse(t) \subseteq KeyRing[t]
        BY <2>3, Zenon
      <4> QED
        BY <4>1, <4>2
    <3>2. (Service!InUse(t))' = Service!InUse(t)
      BY <2>1, SameInUse
    <3> QED
      BY <3>1, <3>2
  <2>5. \A t \in Sessions : \A u \in Sessions \ {t} : KeyRing'[t] \intersect KeyRing'[u] = {}
    BY <2>1, <2>2, <2>3
  <2> QED
    BY <1>a, <2>1, <2>4, <2>5 DEF Service!OneOwner
<1> QED
  BY <1>1, <1>2

\* The steps of a life: nothing is known of a grant before it is claimed, its term
\* stands while it is there, and it goes with what knows it waived.
LEMMA LivesTold ==
    ASSUME Told, NEW s \in Sessions,
           \/ Service!Create(s) \/ Service!Claim(s) \/ Service!Delete(s)
           \/ Service!ForceDelete(s) \/ Service!Depart(s)
    PROVE  Told'
<1> USE DEF Service!Becomes, Service!Life
<1>1. ASSUME Service!Create(s) PROVE Told'
  BY <1>1 DEF Told, Service!Create, Service!Unclaimed, Service!CleanedUpAfter,
     Service!TermsTold
<1>2. ASSUME Service!Claim(s) PROVE Told'
  BY <1>2 DEF Told, Service!Claim, Service!Unclaimed, Service!CleanedUpAfter,
     Service!TermsTold
<1>3. ASSUME Service!Delete(s) PROVE Told'
  <2>1. CASE KeyLife[s] = "new" /\ Service!Ends(s, "gone") /\ UNCHANGED excused
    BY <2>1 DEF Told, Service!Ends, Service!Unclaimed, Service!CleanedUpAfter,
       Service!TermsTold
  <2>2. CASE KeyLife[s] = "claimed" /\ Service!Ends(s, "leaving") /\ UNCHANGED excused
    BY <2>2 DEF Told, Service!Ends, Service!Unclaimed, Service!CleanedUpAfter,
       Service!TermsTold
  <2> QED
    BY <1>3, <2>1, <2>2 DEF Service!Delete
<1>4. ASSUME Service!ForceDelete(s) PROVE Told'
  BY <1>4 DEF Told, Service!ForceDelete, Service!Ends, Service!Unclaimed,
     Service!CleanedUpAfter, Service!TermsTold
<1>5. ASSUME Service!Depart(s) PROVE Told'
  BY <1>5 DEF Told, Service!Depart, Service!Ends, Service!Unclaimed,
     Service!CleanedUpAfter, Service!TermsTold
<1> QED
  BY <1>1, <1>2, <1>3, <1>4, <1>5

\* Setting an entry leaves every other one alone.
LEMMA OneEntry ==
    ASSUME reg \in [Sessions -> [Gateways -> Service!Entry \union {NoReg}]],
           NEW s \in Sessions, NEW g \in Gateways, Service!SetEntry(s, g),
           reg'[s][g] \in Service!Entry \union {NoReg}
    PROVE  /\ reg' \in [Sessions -> [Gateways -> Service!Entry \union {NoReg}]]
           /\ \A t \in Sessions, h \in Gateways :
                 reg'[t][h] = reg[t][h] \/ (t = s /\ h = g)
<1> DEFINE obj == reg'[s][g]
<1>1. reg' = [reg EXCEPT ![s][g] = obj]
  BY DEF Service!SetEntry
<1> HIDE DEF obj
<1>2. obj \in Service!Entry \union {NoReg}
  BY DEF obj
<1> QED
  BY <1>1, <1>2

\* The steps of an entry: one appears only under a claim, with the term asked for.
LEMMA EntriesTold ==
    ASSUME Told, NEW g \in Gateways,
           \/ \E s \in Sessions : Service!Publish(s, g) \/ Service!Revoke(s, g)
           \/ Service!Vanish(g)
    PROVE  Told'
<1> USE DEF Told
<1>1. ASSUME NEW s \in Sessions, Service!Publish(s, g) PROVE Told'
  <2>1. /\ UNCHANGED <<KeyLife, KeyTerm, excused>> /\ Service!SetEntry(s, g)
        /\ reg'[s][g] \in Service!Entry
        /\ KeyLife[s] # "gone" => reg'[s][g].exp = KeyTerm[s]
        /\ KeyLife[s] \in {"claimed", "leaving"} \/ excused[s] = Gateways
    BY <1>1 DEF Service!Publish, Service!Bound
  <2>2. KeyLife[s] \notin {"none", "new"}
    BY <2>1 DEF Service!Unclaimed
  <2>3. /\ reg' \in [Sessions -> [Gateways -> Service!Entry \union {NoReg}]]
        /\ \A t \in Sessions, h \in Gateways : reg'[t][h] = reg[t][h] \/ (t = s /\ h = g)
    BY <2>1, OneEntry
  <2>4. Service!Unclaimed'
    BY <2>1, <2>2, <2>3 DEF Service!Unclaimed
  <2>5. Service!CleanedUpAfter'
    BY <2>1, <2>3 DEF Service!CleanedUpAfter
  <2>6. Service!TermsTold'
    BY <2>1, <2>3 DEF Service!TermsTold
  <2> QED
    BY <2>1, <2>3, <2>4, <2>5, <2>6
<1>2. ASSUME NEW s \in Sessions, Service!Revoke(s, g) PROVE Told'
  <2>1. /\ UNCHANGED <<KeyLife, KeyTerm, excused>> /\ Service!SetEntry(s, g)
        /\ reg'[s][g] = NoReg
    BY <1>2 DEF Service!Revoke
  <2>2. /\ reg' \in [Sessions -> [Gateways -> Service!Entry \union {NoReg}]]
        /\ \A t \in Sessions, h \in Gateways : reg'[t][h] = reg[t][h] \/ (t = s /\ h = g)
    BY <2>1, OneEntry
  <2>3. Service!Unclaimed'
    BY <2>1, <2>2 DEF Service!Unclaimed
  <2>4. Service!CleanedUpAfter'
    BY <2>1, <2>2 DEF Service!CleanedUpAfter
  <2>5. Service!TermsTold'
    BY <2>1, <2>2 DEF Service!TermsTold
  <2> QED
    BY <2>1, <2>2, <2>3, <2>4, <2>5
<1>3. ASSUME Service!Vanish(g) PROVE Told'
  BY <1>3 DEF Told, Service!Vanish, Service!Unclaimed, Service!CleanedUpAfter,
     Service!TermsTold
<1> QED
  BY <1>1, <1>2, <1>3

\* What the contract promises is inductive under it.
LEMMA StepKept ==
    ASSUME Kept, Service!Next
    PROVE  Kept'
<1> USE DEF Kept
<1> DEFINE Types == /\ SecretKey' \in [Sessions -> Keys \union {NoKey}]
                    /\ ActiveGateways' \subseteq Gateways /\ now' \in Nat
<1>1. Service!OneOwner' /\ KeyRing' \in [Sessions -> SUBSET Keys]
  BY RingsApart DEF Service!Next
<1>2. ASSUME NEW s \in Sessions,
             \/ Service!Create(s) \/ Service!Claim(s) \/ Service!Delete(s)
             \/ Service!ForceDelete(s) \/ Service!Depart(s)
      PROVE  Types /\ Told'
  <2>1. UNCHANGED <<SecretKey, ActiveGateways, now>>
    BY <1>2 DEF Service!Create, Service!Claim, Service!Delete, Service!ForceDelete,
       Service!Depart, Service!Ends
  <2> QED
    BY <1>2, <2>1, LivesTold DEF Service!TypeOK
<1>3. ASSUME NEW g \in Gateways,
             \/ \E s \in Sessions : Service!Publish(s, g) \/ Service!Revoke(s, g)
             \/ Service!Vanish(g)
      PROVE  Types /\ Told'
  <2>1. UNCHANGED <<SecretKey, ActiveGateways, now>>
    BY <1>3 DEF Service!Publish, Service!Revoke, Service!Vanish
  <2> QED
    BY <1>3, <2>1, EntriesTold DEF Service!TypeOK
<1>4. ASSUME UNCHANGED <<KeyLife, KeyTerm, reg, excused>> PROVE Told'
  BY <1>4 DEF Told, Service!Unclaimed, Service!CleanedUpAfter, Service!TermsTold
<1>5. ASSUME \/ \E s \in Sessions : Service!Give(s) \/ Service!Lose(s)
             \/ \E s \in Sessions, k \in Keys : Service!Issue(s, k)
             \/ \E g \in Gateways : Service!Fall(g)
             \/ Service!Tick \/ Service!Forget
      PROVE  Types /\ Told'
  <2>1. ASSUME NEW s \in Sessions, Service!Give(s) \/ Service!Lose(s)
        PROVE  Types /\ UNCHANGED <<KeyLife, KeyTerm, reg, excused>>
    BY <2>1 DEF Service!Give, Service!Lose, Service!TypeOK
  <2>2. ASSUME \/ \E s \in Sessions, k \in Keys : Service!Issue(s, k)
               \/ \E g \in Gateways : Service!Fall(g)
               \/ Service!Tick \/ Service!Forget
        PROVE  Types /\ UNCHANGED <<KeyLife, KeyTerm, reg, excused>>
    BY <2>2 DEF Service!Issue, Service!Fall, Service!Tick, Service!Forget, Service!TypeOK
  <2> HIDE DEF Types
  <2> QED
    BY <1>4, <1>5, <2>1, <2>2
<1> HIDE DEF Types
<1>6. Types /\ Told'
  BY <1>2, <1>3, <1>5, Zenon DEF Service!Next
<1> QED
  BY <1>1, <1>6 DEF Types, Told, Service!TypeOK

\* What KeyService promises, from KeyService alone: a gateway that knows a grant will
\* be cleaned of it or was waived, no key is in use for two grants, and a gateway that
\* knows a present grant knows the expiry it asks for.
THEOREM ContractPromises ==
    Service!Spec => [](Service!CleanedUpAfter /\ Service!OneOwner /\ Service!TermsTold)
<1>1. Service!Init => Kept
  BY KeptAtFirst
<1>2. Kept /\ [Service!Next]_(Service!serviceVars) => Kept'
  <2> SUFFICES ASSUME Kept, [Service!Next]_(Service!serviceVars) PROVE Kept'
    OBVIOUS
  <2>1. CASE Service!Next
    BY <2>1, StepKept
  <2>2. CASE UNCHANGED Service!serviceVars
    BY <2>2 DEF Kept, Told, Service!serviceVars, Service!TypeOK, Service!OneOwner,
       Service!InUse, Service!Shows, Service!Unclaimed, Service!CleanedUpAfter,
       Service!TermsTold
  <2> QED
    BY <2>1, <2>2
<1>3. Kept => Service!CleanedUpAfter /\ Service!OneOwner /\ Service!TermsTold
  BY DEF Kept, Told
<1> QED
  BY <1>1, <1>2, <1>3, PTL DEF Service!Spec

\* So the session code keeps those promises, whatever it reads stale, loses, repeats or
\* crashes in, while no TTL is edited: the finalizer of reconcileDelete stands behind
\* every registration, no attendee's key admits another, and no gateway is told an
\* expiry its grant does not ask for.
THEOREM PromisesKept ==
    ASSUME "editTTL" \notin Faults
    PROVE  Spec => [](Service!CleanedUpAfter /\ Service!OneOwner /\ Service!TermsTold)
<1>1. Spec => Service!Spec
  BY KeyContractKept DEF KeepsKeyContract
<1> QED
  BY <1>1, ContractPromises, PTL

================================================================================
