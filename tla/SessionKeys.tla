------------------------------ MODULE SessionKeys ------------------------------
(***************************************************************************)
(* The life of a participant key: the AgentGatewaySession reconciler, its   *)
(* bounded teardown, the expiry sweeper, and the objects they share through *)
(* the API server.                                                          *)
(*                                                                          *)
(* Every call to the API server is one step of the single reconcile worker  *)
(* (MaxConcurrentReconciles is left at 1). Reads go to informer caches,     *)
(* which are variables of their own and follow the API server by Deliver    *)
(* actions; an Update carries the resourceVersion of the cached copy, so it *)
(* succeeds only if that copy is still what the API server holds.           *)
(***************************************************************************)
EXTENDS Naturals, FiniteSets

CONSTANTS
    Sessions,          \* AgentGatewaySession grants
    Keys,              \* plaintext participant keys
    Gateways,          \* namespaces a platform may name as its gateway's
    External,          \* those of an ExternalAgentgateway platform
    Pinned,            \* grants for which NeedsReconcileOnCatalogChange holds
    Misplaced,         \* grants created in a session namespace
    TTLs,              \* spec.ttl, in clock units
    FinalizerTimeout,  \* the bounded retry window, in clock units
    MaxTime,           \* bound of the model on the clock
    RestartsUntil,     \* bound of the model: the operator restarts no later than this
    Lag,               \* kinds of object whose cache may be stale
    Faults,            \* failures and outside edits that may happen
    NoKey, NoSecret, NoReg, NoGateway

Kinds == {"session", "namespace", "secret", "registration"}

ASSUME ConstantsAssumption ==
    /\ External \subseteq Gateways
    /\ TTLs \subseteq Nat /\ TTLs # {}
    /\ Sessions # {}
    /\ FinalizerTimeout \in Nat /\ MaxTime \in Nat /\ RestartsUntil \in Nat
    /\ Lag \subseteq Kinds
    /\ NoKey \notin Keys
    /\ NoGateway \notin Gateways
    /\ NoSecret \notin [key : Keys \union {NoKey}, url : Gateways \union {NoGateway},
                        owned : BOOLEAN, labelled : BOOLEAN]
    /\ NoReg \notin [hash : [sha256 : Keys], exp : Nat]

VARIABLES
    \* Objects as the API server holds them.
    sess,        \* the grants
    sessNs,      \* each grant's session namespace
    secret,      \* each grant's participant key Secret
    reg,         \* each grant's registration ConfigMap, per gateway namespace
    gwNs,        \* the gateway namespaces
    platform,    \* status.gatewayNamespace of the platform singleton
    catalog,     \* the gateway whose URL a Ready catalog publishes
    now,         \* the clock
    \* What the operator's informers have delivered of them.
    seen, nsSeen, secretSeen, regSeen,
    secretEvent, \* grants an undelivered Secret event will wake
    \* The operator process.
    queued,      \* grants in the workqueue
    w,           \* the reconcile worker
    sweep,       \* registrations the sweep under way has still to delete
    \* History.
    excused      \* gateways a grant was let go without its registration removed from

apiVars == <<sess, sessNs, secret, secretEvent, reg, gwNs, platform, catalog, now>>
caches == <<seen, nsSeen, secretSeen, regSeen>>
secretVars == <<secret, secretEvent>>
vars == <<sess, sessNs, secret, reg, gwNs, platform, catalog, now,
          seen, nsSeen, secretSeen, regSeen, secretEvent, queued, w, sweep, excused>>

--------------------------------------------------------------------------------
(***************************************************************************)
(* Objects.                                                                 *)
(***************************************************************************)

\* What later passes and readers of AgentGatewaySessionStatus depend on: the
\* phase, the Ready condition, and whether SessionNamespace has been recorded.
Status == [phase : {"none", "Pending", "Ready", "Terminating", "Rejected", "Failed"},
           ready : BOOLEAN, recorded : BOOLEAN]

NewStatus == [phase |-> "none", ready |-> FALSE, recorded |-> FALSE]

Grant == [st : {"none", "live", "deleting", "gone"}, fin : BOOLEAN,
          ttl : TTLs, created : Nat, delAt : Nat, status : Status]

Absent == [st |-> "none", fin |-> FALSE, ttl |-> CHOOSE t \in TTLs : TRUE,
           created |-> 0, delAt |-> 0, status |-> NewStatus]

Gone == [Absent EXCEPT !.st = "gone"]

Secret == [key : Keys \union {NoKey}, url : Gateways \union {NoGateway},
           owned : BOOLEAN, labelled : BOOLEAN]

Registration == [hash : [sha256 : Keys], exp : Nat]

\* Mutated form: the registration is given the key itself.
HashIsThePlaintext(k) == k

\* The SHA-256 digest the gateway stores: one per key, and not the key.
Hash(k) == [sha256 |-> k]

NsState == {"none", "active", "terminating", "gone"}

IdleWorker == [pc |-> "idle", s |-> CHOOSE s \in Sessions : TRUE, snap |-> Absent,
               key |-> NoKey, live |-> NoSecret, url |-> NoGateway, ns |-> NoGateway,
               owned |-> FALSE, requeue |-> FALSE]

Worker == [pc : {"idle", "finalizer", "catalog", "secret", "url", "ending", "owner",
                 "write", "register", "record", "status", "lookup", "remove", "release"},
           s : Sessions, snap : Grant, key : Keys \union {NoKey},
           live : Secret \union {NoSecret}, url : Gateways \union {NoGateway},
           ns : Gateways \union {NoGateway}, owned : BOOLEAN, requeue : BOOLEAN]

\* Every value a variable may take: among others a registration holds the hash of
\* a key, and never the key.
TypeOK ==
    /\ sess \in [Sessions -> Grant]
    /\ sessNs \in [Sessions -> NsState]
    /\ secret \in [Sessions -> Secret \union {NoSecret}]
    /\ reg \in [Sessions -> [Gateways -> Registration \union {NoReg}]]
    /\ gwNs \in [Gateways -> {"active", "terminating", "gone"}]
    /\ platform \in Gateways \union {NoGateway}
    /\ catalog \in Gateways \union {NoGateway}
    /\ now \in Nat
    /\ seen \in [Sessions -> Grant]
    /\ nsSeen \in [Sessions -> NsState]
    /\ secretSeen \in [Sessions -> Secret \union {NoSecret}]
    /\ regSeen \in [Sessions -> [Gateways -> Registration \union {NoReg}]]
    /\ secretEvent \in [Sessions -> BOOLEAN]
    /\ queued \in [Sessions -> BOOLEAN]
    /\ w \in Worker
    /\ sweep \subseteq Sessions \X Gateways
    /\ excused \in [Sessions -> SUBSET Gateways]

\* An installed platform and a Ready catalog; a grant's session namespace
\* exists already when Educates creates the grant, or never does (a grant made
\* by hand).
Init ==
    /\ sess = [s \in Sessions |-> Absent]
    /\ sessNs \in [Sessions -> {"none", "active"}]
    /\ secret = [s \in Sessions |-> NoSecret]
    /\ reg = [s \in Sessions |-> [g \in Gateways |-> NoReg]]
    /\ gwNs = [g \in Gateways |-> "active"]
    /\ platform \in Gateways
    /\ catalog = platform
    /\ now = 0
    /\ seen = sess /\ nsSeen = sessNs /\ secretSeen = secret /\ regSeen = reg
    /\ secretEvent = [s \in Sessions |-> FALSE]
    /\ queued = [s \in Sessions |-> FALSE]
    /\ w = IdleWorker
    /\ sweep = {}
    /\ excused = [s \in Sessions |-> {}]

--------------------------------------------------------------------------------
(***************************************************************************)
(* Informers. Deliver brings a cache up to date and runs the watch's event  *)
(* handler. A kind outside Lag is delivered before anything else happens.   *)
(***************************************************************************)

Current ==
    /\ "session" \in Lag \/ seen = sess
    /\ "namespace" \in Lag \/ nsSeen = sessNs
    /\ "secret" \in Lag \/ (secretSeen = secret /\ \A s \in Sessions : ~secretEvent[s])
    /\ "registration" \in Lag \/ regSeen = reg

\* GenerationChangedPredicate: creation, deletion and spec edits pass it;
\* a status write or a finalizer does not.
GenerationChanged(old, new) == old.st # new.st \/ old.ttl # new.ttl

\* Mutated form: the Secret watch as Owns() would have it, which matches no
\* Secret because none is owned by a grant.
OwnsSecret(s, obj) == FALSE

\* Routes a labelled Secret to its grant.
mapSecretToSession(s, obj) == obj # NoSecret /\ obj.labelled

\* Every write of a Secret is an event, mapped for the old and the new object.
\* The cache may skip versions; the wake-up of a version it skips is not lost.
SetSecret(s, new) ==
    /\ secret' = [secret EXCEPT ![s] = new]
    /\ secretEvent' = [secretEvent EXCEPT ![s] = \/ @
                                                 \/ mapSecretToSession(s, secret[s])
                                                 \/ mapSecretToSession(s, new)]

DeliverSession(s) ==
    /\ seen[s] # sess[s]
    /\ seen' = [seen EXCEPT ![s] = sess[s]]
    /\ queued' = [queued EXCEPT ![s] = @ \/ GenerationChanged(seen[s], sess[s])]
    /\ UNCHANGED <<apiVars, nsSeen, secretSeen, regSeen, w, sweep, excused>>

\* Namespaces and registrations are read through caches but not watched.
DeliverNamespace(s) ==
    /\ nsSeen[s] # sessNs[s]
    /\ nsSeen' = [nsSeen EXCEPT ![s] = sessNs[s]]
    /\ UNCHANGED <<apiVars, seen, secretSeen, regSeen, queued, w, sweep, excused>>

DeliverSecret(s) ==
    /\ secretSeen[s] # secret[s] \/ secretEvent[s]
    /\ secretSeen' = [secretSeen EXCEPT ![s] = secret[s]]
    /\ queued' = [queued EXCEPT ![s] = @ \/ secretEvent[s]]
    /\ secretEvent' = [secretEvent EXCEPT ![s] = FALSE]
    /\ UNCHANGED <<sess, sessNs, secret, reg, gwNs, platform, catalog, now,
                   seen, nsSeen, regSeen, w, sweep, excused>>

DeliverRegistration(s) ==
    /\ regSeen[s] # reg[s]
    /\ regSeen' = [regSeen EXCEPT ![s] = reg[s]]
    /\ UNCHANGED <<apiVars, seen, nsSeen, secretSeen, queued, w, sweep, excused>>

Deliver(s) == DeliverSession(s) \/ DeliverNamespace(s) \/ DeliverSecret(s)
              \/ DeliverRegistration(s)

--------------------------------------------------------------------------------
(***************************************************************************)
(* The reconcile worker: the pass that keeps a key live.                    *)
(***************************************************************************)

\* The pass is over; an error or a RequeueAfter puts the grant back.
Finish(requeue) ==
    /\ w' = IdleWorker
    /\ queued' = [queued EXCEPT ![w.s] = @ \/ requeue]

\* The pass ends by writing the whole status it has built.
Report(status, requeue) ==
    /\ w' = [IdleWorker EXCEPT !.pc = "status", !.s = w.s,
                               !.snap.status = status, !.requeue = requeue]
    /\ UNCHANGED queued

\* Mutated form: a failure is recorded and the error swallowed.
FailedAndForgotten == Report([w.snap.status EXCEPT !.phase = "Failed"], FALSE)

\* A failed step of the pass is recorded and the error returned.
Failed == Report([w.snap.status EXCEPT !.phase = "Failed"], TRUE)

\* Measured from creation, so a later pass does not push the expiry out.
expiryFor(grant) == grant.created + grant.ttl

\* Mutated form: the finalizer is left for a later pass.
ReconcileWithoutFinalizer(s, readable) ==
    /\ w.pc = "idle" /\ queued[s]
    /\ LET grant == seen[s]
           start(pc) == w' = [IdleWorker EXCEPT !.pc = pc, !.s = s, !.snap = grant]
       IN  \/ grant.st = "live" /\ start("catalog")
           \/ grant.st = "deleting" /\ grant.fin /\ start("lookup")
           \/ grant.st \in {"none", "gone"} /\ UNCHANGED w
    /\ queued' = [queued EXCEPT ![s] = FALSE]
    /\ UNCHANGED <<apiVars, caches, sweep, excused>>

\* A grant whose namespace a WorkshopSession owns is misplaced; a namespace that
\* cannot be read is given the benefit of the doubt.
placementValid(s, readable) == s \notin Misplaced \/ ~readable

\* A misplaced grant is refused: a status to write, no error and no retry.
reject(s, grant) ==
    w' = [IdleWorker EXCEPT !.pc = "status", !.s = s,
                            !.snap.status = [grant.status EXCEPT !.ready = FALSE,
                                                                 !.phase = "Rejected"]]

\* The worker takes a grant off the queue and reads it. A grant that is absent,
\* or deleted and already released, needs nothing.
Reconcile(s, readable) ==
    /\ w.pc = "idle" /\ queued[s]
    /\ readable \/ "nsRead" \in Faults
    /\ LET grant == seen[s]
           start(pc) == w' = [IdleWorker EXCEPT !.pc = pc, !.s = s, !.snap = grant]
       IN  \/ /\ grant.st = "live" /\ placementValid(s, readable)
              /\ start(IF grant.fin THEN "catalog" ELSE "finalizer")
           \/ /\ grant.st = "live" /\ ~placementValid(s, readable)
              /\ reject(s, grant)
           \/ grant.st = "deleting" /\ grant.fin /\ start("lookup")
           \/ /\ grant.st \in {"none", "gone"} \/ (grant.st = "deleting" /\ ~grant.fin)
              /\ UNCHANGED w
    /\ queued' = [queued EXCEPT ![s] = FALSE]
    /\ UNCHANGED <<apiVars, caches, sweep, excused>>

\* The Update that adds the finalizer conflicts when the cached grant is stale;
\* when it succeeds the pass carries on with the server's copy.
AddFinalizer ==
    /\ w.pc = "finalizer"
    /\ \/ /\ sess[w.s] = w.snap
          /\ sess' = [sess EXCEPT ![w.s].fin = TRUE]
          /\ w' = [w EXCEPT !.pc = "catalog", !.snap.fin = TRUE]
          /\ UNCHANGED queued
       \/ /\ sess[w.s] # w.snap \/ "sessionWrite" \in Faults
          /\ Finish(TRUE)
          /\ UNCHANGED sess
    /\ UNCHANGED <<sessNs, secretVars, reg, gwNs, platform, catalog, now, caches, sweep, excused>>

\* Without a Ready catalog and a platform that names its namespace the grant
\* waits, and is tried again after requeueShort.
resolveCatalog ==
    /\ w.pc = "catalog"
    /\ \/ /\ catalog # NoGateway /\ platform # NoGateway
          /\ w' = [w EXCEPT !.pc = "secret", !.url = catalog, !.ns = platform]
          /\ UNCHANGED queued
       \/ /\ catalog = NoGateway \/ platform = NoGateway
          /\ Report([w.snap.status EXCEPT !.ready = FALSE, !.phase = "Pending"], TRUE)
       \/ "lookup" \in Faults /\ Finish(TRUE)
    /\ UNCHANGED <<apiVars, caches, sweep, excused>>

\* Mutated form: a key is minted on every pass.
MintOnEveryPass ==
    /\ w.pc = "secret"
    /\ w' = [w EXCEPT !.pc = "ending", !.live = secretSeen[w.s]]
    /\ UNCHANGED <<apiVars, caches, queued, sweep, excused>>

\* Mutated form: a Secret with a key is returned as it is.
ReuseWholeSecret ==
    /\ w.pc = "secret"
    /\ LET live == secretSeen[w.s]
           hasKey == live # NoSecret /\ live.key # NoKey
       IN  w' = IF hasKey THEN [w EXCEPT !.pc = "register", !.key = live.key]
                          ELSE [w EXCEPT !.pc = "ending", !.live = live]
    /\ UNCHANGED <<apiVars, caches, queued, sweep, excused>>

\* ensureSecret reads the Secret: a key that exists is reused, an absent or
\* empty Secret is to be (re)minted.
readSecret ==
    /\ w.pc = "secret"
    /\ LET live == secretSeen[w.s]
           hasKey == live # NoSecret /\ live.key # NoKey
       IN  \/ /\ hasKey /\ live.url = w.url
              /\ w' = [w EXCEPT !.pc = "register", !.key = live.key]
           \/ /\ hasKey /\ live.url # w.url
              /\ w' = [w EXCEPT !.pc = "url", !.live = live]
           \/ /\ ~hasKey
              /\ w' = [w EXCEPT !.pc = "ending", !.live = live]
           \/ "secretRead" \in Faults /\ Failed
    /\ UNCHANGED <<apiVars, caches, queued, sweep, excused>>

\* The gateway's address changed under an existing key.
updateSecretURL ==
    /\ w.pc = "url"
    /\ \/ /\ secret[w.s] = w.live
          /\ SetSecret(w.s, [secret[w.s] EXCEPT !.url = w.url])
          /\ w' = [w EXCEPT !.pc = "register", !.key = w.live.key, !.live = NoSecret]
          /\ UNCHANGED queued
       \/ /\ secret[w.s] # w.live \/ "secretWrite" \in Faults
          /\ Failed
          /\ UNCHANGED secretVars
    /\ UNCHANGED <<sess, sessNs, reg, gwNs, platform, catalog, now, caches, sweep, excused>>

\* Teardown: the session namespace is terminating, or has vanished after it was
\* recorded as the Secret's owner.
SessionNamespaceEnding(s, status) ==
    \/ nsSeen[s] = "terminating"
    \/ nsSeen[s] \in {"none", "gone"} /\ status.recorded

\* Nothing is minted for a session that is ending; the pass then ends without a
\* retry, and without touching the Ready condition.
checkEnding ==
    /\ w.pc = "ending"
    /\ \/ /\ SessionNamespaceEnding(w.s, w.snap.status)
          /\ Report([w.snap.status EXCEPT !.phase = "Terminating"], FALSE)
       \/ /\ ~SessionNamespaceEnding(w.s, w.snap.status)
          /\ w' = [w EXCEPT !.pc = "owner"]
          /\ UNCHANGED queued
       \/ "nsRead" \in Faults /\ Failed
    /\ UNCHANGED <<apiVars, caches, sweep, excused>>

HeldKeys ==
    {o.key : o \in (UNION {{secret[s], secretSeen[s]} : s \in Sessions}) \ {NoSecret}}
    \union {o.hash.sha256 : o \in (UNION {{reg[s][g], regSeen[s][g]} :
                                         s \in Sessions, g \in Gateways}) \ {NoReg}}

\* Read a second time, an absent namespace means an unowned Secret.
setSessionNamespaceOwner(s) == nsSeen[s] \in {"active", "terminating"}

\* A fresh key is generated, for a Secret that the session namespace is to own.
mintKey(k) ==
    /\ w.pc = "owner"
    /\ k \notin HeldKeys
    /\ \/ /\ w' = [w EXCEPT !.pc = "write", !.key = k,
                            !.owned = setSessionNamespaceOwner(w.s)]
          /\ UNCHANGED queued
       \/ "nsRead" \in Faults /\ Failed
    /\ UNCHANGED <<apiVars, caches, sweep, excused>>

\* Create, or Update of the empty Secret that was read. The repair copies data
\* and labels onto the live object and leaves its owner references alone. A
\* Create that finds a Secret reads it again rather than overwrite it.
writeSecret ==
    /\ w.pc = "write"
    /\ LET s == w.s
           registerWith(k) == /\ w' = [w EXCEPT !.pc = "register", !.key = k,
                                                !.live = NoSecret, !.owned = FALSE]
                              /\ UNCHANGED queued
           reread == secretSeen[s]
           reusable == reread # NoSecret /\ reread.key # NoKey
       IN  \/ /\ w.live = NoSecret /\ secret[s] = NoSecret
              /\ SetSecret(s, [key |-> w.key, url |-> w.url, owned |-> w.owned,
                               labelled |-> TRUE])
              /\ registerWith(w.key)
           \/ /\ w.live = NoSecret /\ secret[s] # NoSecret
              /\ IF reusable THEN registerWith(reread.key) ELSE Failed
              /\ UNCHANGED secretVars
           \/ /\ w.live # NoSecret /\ secret[s] = w.live
              /\ SetSecret(s, [key |-> w.key, url |-> w.url, owned |-> w.live.owned,
                               labelled |-> TRUE])
              /\ registerWith(w.key)
           \/ /\ w.live # NoSecret /\ secret[s] # w.live
              /\ Failed /\ UNCHANGED secretVars
           \/ /\ "secretWrite" \in Faults
              /\ Failed /\ UNCHANGED secretVars
    /\ UNCHANGED <<sess, sessNs, reg, gwNs, platform, catalog, now, caches, sweep, excused>>

\* Mutated form: an entry with the right expiry counts as already published.
SameExpiry(live, desired) == live.exp = desired.exp

\* The published entry is compared whole: hash and metadata.
entryEquals(live, desired) == live = desired

\* Writes the hash-only registration where the cached read says it is needed. A
\* Create that finds a registration is taken for success; a Create in a
\* namespace that is going away, or an Update of a stale copy, is an error.
ensureRegistration ==
    /\ w.pc = "register"
    /\ LET s == w.s
           g == w.ns
           live == regSeen[s][g]
           desired == [hash |-> Hash(w.key), exp |-> expiryFor(w.snap)]
           publish == reg' = [reg EXCEPT ![s][g] = desired]
           done == /\ w' = [w EXCEPT !.pc = "record", !.key = NoKey, !.ns = NoGateway,
                                     !.url = NoGateway]
                   /\ UNCHANGED queued
           failed == Failed /\ UNCHANGED reg
       IN  \/ /\ live = NoReg /\ reg[s][g] = NoReg /\ gwNs[g] = "active"
              /\ publish /\ done
           \/ /\ live = NoReg /\ reg[s][g] # NoReg
              /\ done /\ UNCHANGED reg
           \/ /\ live = NoReg /\ reg[s][g] = NoReg /\ gwNs[g] # "active"
              /\ failed
           \/ /\ live # NoReg /\ entryEquals(live, desired)
              /\ done /\ UNCHANGED reg
           \/ /\ live # NoReg /\ ~entryEquals(live, desired) /\ reg[s][g] = live
              /\ publish /\ done
           \/ /\ live # NoReg /\ ~entryEquals(live, desired) /\ reg[s][g] # live
              /\ failed
           \/ "regWrite" \in Faults /\ failed
    /\ UNCHANGED <<sess, sessNs, secretVars, gwNs, platform, catalog, now, caches, sweep, excused>>

\* Whether the Secret, as the cache shows it, names an owner to record.
secretOwnerNamespace(s) == secretSeen[s] # NoSecret /\ secretSeen[s].owned

\* The owner of the Secret is recorded, and the grant is Ready. A failed read
\* ends the pass with no status written.
recordOwner ==
    /\ w.pc = "record"
    /\ \/ Report([phase |-> "Ready", ready |-> TRUE,
                  recorded |-> w.snap.status.recorded \/ secretOwnerNamespace(w.s)], FALSE)
       \/ "secretRead" \in Faults /\ Finish(TRUE)
    /\ UNCHANGED <<apiVars, caches, sweep, excused>>

\* Status is written wholesale over the cached grant. A stale cache conflicts:
\* the write is retried until the cache catches up, or the error ends the pass.
updateSessionStatus ==
    /\ w.pc = "status"
    /\ \/ /\ seen[w.s] = sess[w.s] /\ sess[w.s].st \in {"live", "deleting"}
          /\ sess' = [sess EXCEPT ![w.s].status = w.snap.status]
          /\ Finish(w.requeue)
       \/ /\ \/ seen[w.s] # sess[w.s]
             \/ sess[w.s].st \in {"none", "gone"}
             \/ "sessionWrite" \in Faults
          /\ Finish(TRUE)
          /\ UNCHANGED sess
    /\ UNCHANGED <<sessNs, secretVars, reg, gwNs, platform, catalog, now, caches, sweep, excused>>

--------------------------------------------------------------------------------
(***************************************************************************)
(* The reconcile worker: the pass that removes a key.                       *)
(***************************************************************************)

\* Mutated form: the finalizer is released before the registration is removed.
ReleaseBeforeRemoval ==
    /\ w.pc = "lookup"
    /\ w' = [w EXCEPT !.pc = "release", !.ns = platform]
    /\ UNCHANGED <<apiVars, caches, queued, sweep, excused>>

\* Where the registration is looked for: nowhere once the platform is gone, or
\* its namespace is gone or terminating. A failed lookup is retried without a
\* bound.
gatewayNamespaceForTeardown ==
    /\ w.pc = "lookup"
    /\ \/ /\ platform # NoGateway /\ gwNs[platform] = "active"
          /\ w' = [w EXCEPT !.pc = "remove", !.ns = platform]
          /\ UNCHANGED queued
       \/ /\ platform # NoGateway => gwNs[platform] # "active"
          /\ w' = [w EXCEPT !.pc = "release", !.ns = NoGateway]
          /\ UNCHANGED queued
       \/ "lookup" \in Faults /\ Finish(TRUE)
    /\ UNCHANGED <<apiVars, caches, sweep, excused>>

\* Mutated form: a removal that keeps failing is retried for ever.
RetryForever ==
    /\ w.pc = "remove"
    /\ \/ /\ reg' = [reg EXCEPT ![w.s][w.ns] = NoReg]
          /\ w' = [w EXCEPT !.pc = "release"]
          /\ UNCHANGED queued
       \/ "regDelete" \in Faults /\ Finish(TRUE) /\ UNCHANGED reg
    /\ UNCHANGED <<sess, sessNs, secretVars, gwNs, platform, catalog, now, caches, sweep, excused>>

\* Mutated form: one removal that fails ends the teardown.
GiveUpAtOnce ==
    /\ w.pc = "remove"
    /\ \/ /\ reg' = [reg EXCEPT ![w.s][w.ns] = NoReg]
          /\ w' = [w EXCEPT !.pc = "release"]
          /\ UNCHANGED queued
       \/ /\ "regDelete" \in Faults
          /\ w' = [w EXCEPT !.pc = "release", !.ns = NoGateway] /\ UNCHANGED <<queued, reg>>
    /\ UNCHANGED <<sess, sessNs, secretVars, gwNs, platform, catalog, now, caches, sweep, excused>>

\* Deletes the registration; a failure is retried until the window measured from
\* the deletion timestamp is over, and then given up (w.ns no longer names a
\* namespace that was cleaned).
removeRegistration ==
    /\ w.pc = "remove"
    /\ \/ /\ reg' = [reg EXCEPT ![w.s][w.ns] = NoReg]
          /\ w' = [w EXCEPT !.pc = "release"]
          /\ UNCHANGED queued
       \/ /\ "regDelete" \in Faults
          /\ IF now - w.snap.delAt < FinalizerTimeout
             THEN Finish(TRUE)
             ELSE w' = [w EXCEPT !.pc = "release", !.ns = NoGateway] /\ UNCHANGED queued
          /\ UNCHANGED reg
    /\ UNCHANGED <<sess, sessNs, secretVars, gwNs, platform, catalog, now, caches, sweep, excused>>

\* The last finalizer goes and the grant with it. A conflict is retried.
releaseSessionFinalizer ==
    /\ w.pc = "release"
    /\ \/ /\ seen[w.s] = sess[w.s] /\ sess[w.s].st = "deleting"
          /\ sess' = [sess EXCEPT ![w.s] = Gone]
          /\ excused' = [excused EXCEPT ![w.s] = @ \union (Gateways \ {w.ns})]
          /\ Finish(FALSE)
       \/ /\ seen[w.s].st = "gone"
          /\ Finish(FALSE) /\ UNCHANGED <<sess, excused>>
       \/ /\ seen[w.s].st # "gone"
          /\ seen[w.s] # sess[w.s] \/ "sessionWrite" \in Faults
          /\ Finish(TRUE) /\ UNCHANGED <<sess, excused>>
    /\ UNCHANGED <<sessNs, secretVars, reg, gwNs, platform, catalog, now, caches, sweep>>

WorkerStep ==
    \/ \E s \in Sessions, readable \in BOOLEAN : Reconcile(s, readable)
    \/ AddFinalizer \/ resolveCatalog \/ readSecret \/ updateSecretURL \/ checkEnding
    \/ \E k \in Keys : mintKey(k)
    \/ writeSecret \/ ensureRegistration \/ recordOwner \/ updateSessionStatus
    \/ gatewayNamespaceForTeardown \/ removeRegistration \/ releaseSessionFinalizer

--------------------------------------------------------------------------------
(***************************************************************************)
(* The expiry sweeper: every minute, on the leader, it lists the            *)
(* registrations of the platform's gateway namespace from the cache and     *)
(* deletes the expired ones by name, one call each.                         *)
(***************************************************************************)

\* Mutated form: only a registration whose grant still exists is swept.
ExpiredWithGrant(s, entry) ==
    entry # NoReg /\ entry.exp <= now /\ seen[s].st \in {"live", "deleting"}

\* Mutated form: an entry is expired in the last moment of its life already.
ExpiredTooEarly(s, entry) == entry # NoReg /\ entry.exp <= now + 1

expired(s, entry) == entry # NoReg /\ entry.exp <= now

SweepList ==
    /\ sweep = {}
    /\ platform # NoGateway
    /\ sweep' = {p \in Sessions \X {platform} : expired(p[1], regSeen[p[1]][p[2]])}
    /\ UNCHANGED <<apiVars, caches, queued, w, excused>>

\* A Delete that fails is logged; the next sweep lists the registration again.
SweepDelete(s, g) ==
    /\ <<s, g>> \in sweep
    /\ sweep' = sweep \ {<<s, g>>}
    /\ \/ reg' = [reg EXCEPT ![s][g] = NoReg]
       \/ "sweepDelete" \in Faults /\ UNCHANGED reg
    /\ UNCHANGED <<sess, sessNs, secretVars, gwNs, platform, catalog, now, caches, queued, w,
                   excused>>

SweepStep == SweepList \/ \E s \in Sessions, g \in Gateways : SweepDelete(s, g)

--------------------------------------------------------------------------------
(***************************************************************************)
(* Everyone else: Educates, the garbage collector, cluster operators, the   *)
(* platform and catalog controllers, the clock and the operator's process.  *)
(***************************************************************************)

OperatorIdle == UNCHANGED <<caches, queued, w, sweep>>

CreateSession(s, ttl) ==
    /\ sess[s].st = "none"
    /\ sess' = [sess EXCEPT ![s] = [Absent EXCEPT !.st = "live", !.ttl = ttl, !.created = now]]
    /\ OperatorIdle /\ UNCHANGED <<sessNs, secretVars, reg, gwNs, platform, catalog, now, excused>>

\* The bound on the clock leaves room for the finalizer's window.
DeleteSession(s) ==
    /\ sess[s].st = "live"
    /\ now + FinalizerTimeout <= MaxTime
    /\ sess' = [sess EXCEPT ![s] = IF @.fin THEN [@ EXCEPT !.st = "deleting", !.delAt = now]
                                           ELSE Gone]
    /\ OperatorIdle /\ UNCHANGED <<sessNs, secretVars, reg, gwNs, platform, catalog, now, excused>>

\* Force-deleting the workshop namespace strips the finalizer.
ForceDelete(s) ==
    /\ "force" \in Faults
    /\ sess[s].st \in {"live", "deleting"}
    /\ sess' = [sess EXCEPT ![s] = Gone]
    /\ excused' = [excused EXCEPT ![s] = Gateways]
    /\ OperatorIdle /\ UNCHANGED <<sessNs, secretVars, reg, gwNs, platform, catalog, now>>

EditTTL(s, ttl) ==
    /\ "editTTL" \in Faults
    /\ sess[s].st = "live" /\ sess[s].ttl # ttl
    /\ sess' = [sess EXCEPT ![s].ttl = ttl]
    /\ OperatorIdle /\ UNCHANGED <<sessNs, secretVars, reg, gwNs, platform, catalog, now, excused>>

\* The session ends: its namespace terminates, goes, and takes what it owns.
EndSessionNamespace(s) ==
    /\ "sessionEnds" \in Faults
    /\ \/ sessNs[s] = "active" /\ sessNs' = [sessNs EXCEPT ![s] = "terminating"]
       \/ sessNs[s] = "terminating" /\ sessNs' = [sessNs EXCEPT ![s] = "gone"]
    /\ OperatorIdle /\ UNCHANGED <<sess, secretVars, reg, gwNs, platform, catalog, now, excused>>

CollectSecret(s) ==
    /\ sessNs[s] = "gone"
    /\ secret[s] # NoSecret /\ secret[s].owned
    /\ SetSecret(s, NoSecret)
    /\ OperatorIdle /\ UNCHANGED <<sess, sessNs, reg, gwNs, platform, catalog, now, excused>>

\* Someone deletes the Secret, empties it, or makes an empty one beforehand.
TamperSecret(s) ==
    /\ \/ /\ "loseSecret" \in Faults /\ secret[s] # NoSecret
          /\ SetSecret(s, NoSecret)
       \/ /\ "emptySecret" \in Faults /\ secret[s] # NoSecret /\ secret[s].key # NoKey
          /\ SetSecret(s, [secret[s] EXCEPT !.key = NoKey])
       \/ /\ "preSecret" \in Faults /\ secret[s] = NoSecret /\ sess[s].st = "none"
          /\ SetSecret(s, [key |-> NoKey, url |-> NoGateway, owned |-> FALSE,
                           labelled |-> FALSE])
    /\ OperatorIdle /\ UNCHANGED <<sess, sessNs, reg, gwNs, platform, catalog, now, excused>>

\* The catalog becomes Ready with the platform's address, or stops being Ready.
\* Either way its event wakes the grants that need a reconcile to notice.
CatalogChange ==
    /\ "catalog" \in Faults
    /\ catalog' \in {platform, NoGateway} \ {catalog}
    /\ queued' = [s \in Sessions |->
                    queued[s] \/ (s \in Pinned /\ seen[s].st \in {"live", "deleting"})]
    /\ UNCHANGED <<sess, sessNs, secretVars, reg, gwNs, platform, now, caches, w, sweep, excused>>

\* A provider switch or an edited external namespace moves the gateway. The
\* namespace left behind stays. (Bound of the model: the gateway does not move
\* again before the catalog has followed, or while the catalog is not Ready.)
PlatformMove(g) ==
    /\ "move" \in Faults
    /\ platform # NoGateway /\ g # platform /\ gwNs[g] = "active"
    /\ catalog \in {platform, NoGateway}
    /\ platform' = g
    /\ OperatorIdle /\ UNCHANGED <<sess, sessNs, secretVars, reg, gwNs, catalog, now, excused>>

\* Deleting the platform deletes a bundled gateway's namespace, never an
\* external one's.
PlatformDelete ==
    /\ "platformDelete" \in Faults
    /\ platform # NoGateway
    /\ gwNs' = [gwNs EXCEPT ![platform] = IF platform \in External THEN @ ELSE "terminating"]
    /\ platform' = NoGateway
    /\ OperatorIdle /\ UNCHANGED <<sess, sessNs, secretVars, reg, catalog, now, excused>>

\* A terminating namespace goes, and everything in it.
GatewayNamespaceGone(g) ==
    /\ gwNs[g] = "terminating"
    /\ gwNs' = [gwNs EXCEPT ![g] = "gone"]
    /\ reg' = [s \in Sessions |-> [reg[s] EXCEPT ![g] = NoReg]]
    /\ OperatorIdle /\ UNCHANGED <<sess, sessNs, secretVars, platform, catalog, now, excused>>

Tick ==
    /\ now < MaxTime
    /\ now' = now + 1
    /\ OperatorIdle /\ UNCHANGED <<sess, sessNs, secretVars, reg, gwNs, platform, catalog, excused>>

\* The process dies between two API calls, and a new leader lists every object
\* and enqueues every grant.
Restart ==
    /\ "crash" \in Faults /\ now <= RestartsUntil
    /\ w' = IdleWorker /\ sweep' = {}
    /\ seen' = sess /\ nsSeen' = sessNs /\ secretSeen' = secret /\ regSeen' = reg
    /\ secretEvent' = [s \in Sessions |-> FALSE]
    /\ queued' = [s \in Sessions |-> sess[s].st \in {"live", "deleting"}]
    /\ UNCHANGED <<sess, sessNs, secret, reg, gwNs, platform, catalog, now, excused>>

Environment ==
    \/ \E s \in Sessions :
          \/ \E ttl \in TTLs : CreateSession(s, ttl) \/ EditTTL(s, ttl)
          \/ DeleteSession(s) \/ ForceDelete(s) \/ EndSessionNamespace(s)
          \/ CollectSecret(s) \/ TamperSecret(s)
    \/ CatalogChange \/ PlatformDelete
    \/ \E g \in Gateways : PlatformMove(g) \/ GatewayNamespaceGone(g)
    \/ Restart

Next ==
    \/ \E s \in Sessions : Deliver(s)
    \/ Current /\ (WorkerStep \/ SweepStep \/ Environment \/ Tick)

Spec == Init /\ [][Next]_vars

\* The operator process runs, informers deliver, the sweep's ticker fires and
\* time passes. Nobody else has to do anything. Fairness is strong because an
\* undelivered event of a kind outside Lag holds the other steps back for a
\* moment, and anyone may cause such an event again and again.
Fairness ==
    /\ \A s \in Sessions : WF_vars(Deliver(s))
    /\ SF_vars(Current /\ WorkerStep)
    /\ SF_vars(Current /\ SweepStep)
    /\ SF_vars(Current /\ Tick)

FairSpec == Spec /\ Fairness

--------------------------------------------------------------------------------
(***************************************************************************)
(* Safety.                                                                  *)
(***************************************************************************)

\* The steps of a pass from which a registration may still be written.
Publishing == {"catalog", "secret", "url", "ending", "owner", "write", "register"}

\* A registration is never without someone bound to remove it: while it exists
\* its grant carries the finalizer, unless the grant was force-deleted, was let
\* go after the bounded window, or was let go with another namespace (or none)
\* looked up. This is the order Reconcile keeps, finalizer before registration,
\* and reconcileDelete keeps, registration before finalizer, under every
\* interleaving of stale reads, conflicts, restarts and sweeps.
RegistrationGuarded ==
    \A s \in Sessions, g \in Gateways :
        reg[s][g] # NoReg => sess[s].fin \/ g \in excused[s]

\* Why it holds, the inductive argument of the proofs: what the caches show of a
\* live grant's finalizer is still true, or the grant was force-deleted; and a
\* pass that may yet publish started from such a grant, while one about to let a
\* grant go has emptied the namespace it looked up.
GuardInv ==
    LET guarded(s) == sess[s].fin \/ excused[s] = Gateways
    IN  /\ \A s \in Sessions : sess[s].st \in {"none", "gone"} => ~sess[s].fin
        /\ \A s \in Sessions : seen[s].st = "live" /\ seen[s].fin => guarded(s)
        /\ w.pc = "finalizer" => w.snap.st = "live"
        /\ w.pc \in Publishing => guarded(w.s)
        /\ w.pc = "release" => w.ns = NoGateway \/ reg[w.s][w.ns] = NoReg

\* The pass lets a deleted grant go while its registration is where the platform's
\* gateway is only when the whole window since its deletion is over. The window
\* "survives operator restarts", conflicts on the finalizer, and passes over stale
\* copies of the grant or of the deletion.
WindowKept ==
    [][\A s \in Sessions :
          /\ sess[s].st = "deleting" /\ sess'[s].st = "gone" /\ w' # w
          /\ platform # NoGateway /\ reg[s][platform] # NoReg
          => now - sess[s].delAt >= FinalizerTimeout]_vars

\* No step replaces one key by another in a Secret that exists: ensureSecret
\* reuses a key verbatim, and a lost race (AlreadyExists, conflict) re-reads
\* instead of overwriting. Only deleting or emptying the Secret rotates a key.
NoSilentRotation ==
    [][\A s \in Sessions :
          secret[s] # NoSecret /\ secret'[s] # NoSecret /\ secret[s].key # NoKey
              => secret'[s].key \in {secret[s].key, NoKey}]_vars

\* Nothing is left to do: no event undelivered, nothing queued, no pass or sweep
\* under way.
Quiet ==
    /\ seen = sess /\ nsSeen = sessNs /\ secretSeen = secret /\ regSeen = reg
    /\ w.pc = "idle" /\ sweep = {}
    /\ \A s \in Sessions : ~queued[s] /\ ~secretEvent[s]

\* When everything has settled, a grant reported Ready ("the attendee's key is
\* live") whose key has not expired is really served: the Secret holds a key and
\* the registration the gateway reads holds the hash of that key and the expiry
\* the grant asks for, whatever was lost, rewritten or retried on the way.
ReadyMeansServed ==
    Quiet =>
        \A s \in Sessions :
            sess[s].st = "live" /\ sess[s].status.phase = "Ready" /\ expiryFor(sess[s]) > now
                => /\ secret[s] # NoSecret /\ secret[s].key # NoKey
                   /\ \E g \in Gateways :
                         reg[s][g] = [hash |-> Hash(secret[s].key), exp |-> expiryFor(sess[s])]

\* A settled grant is never left half done: it is Ready, refused, or its session
\* is ending. Pending and Failed grants always have a retry ahead of them.
NoGrantStranded ==
    Quiet =>
        \A s \in Sessions :
            sess[s].st = "live" => sess[s].status.phase \in {"Ready", "Rejected", "Terminating"}

\* When everything has settled and the catalog publishes the platform's address,
\* a Ready grant has followed the gateway: its Secret names that address and its
\* key is registered there. Grants are woken for this by the catalog's event
\* only if they need a reconcile on catalog changes.
GrantFollowsGateway ==
    Quiet /\ platform # NoGateway /\ catalog = platform =>
        \A s \in Sessions :
            /\ sess[s].st = "live" /\ sess[s].status.phase = "Ready"
            /\ expiryFor(sess[s]) > now
            => /\ secret[s] # NoSecret /\ secret[s].url = platform
               /\ reg[s][platform] # NoReg

--------------------------------------------------------------------------------
(***************************************************************************)
(* What the operator promises, and what of its state the promise is about.  *)
(***************************************************************************)

LifeOf(grant) ==
    IF grant.st = "live" THEN IF grant.fin THEN "claimed" ELSE "new"
    ELSE IF grant.st = "deleting" THEN "leaving" ELSE grant.st

KeyLife == [s \in Sessions |-> LifeOf(sess[s])]

TermOf(grant) == IF grant.st \in {"live", "deleting"} THEN expiryFor(grant) ELSE 0

KeyTerm == [s \in Sessions |-> TermOf(sess[s])]

SecretKey == [s \in Sessions |-> IF secret[s] = NoSecret THEN NoKey ELSE secret[s].key]

\* The keys a grant's objects hold, the stale copies of them in the caches, and
\* what the pass under way has in hand.
KeysOf(s) ==
    {k \in Keys :
        \/ \E o \in {secret[s], secretSeen[s]} : o # NoSecret /\ o.key = k
        \/ \E g \in Gateways, r \in {reg[s], regSeen[s]} : r[g] # NoReg /\ r[g].hash = Hash(k)
        \/ w.s = s /\ (w.key = k \/ (w.live # NoSecret /\ w.live.key = k))}

KeyRing == [s \in Sessions |-> KeysOf(s)]

ActiveGateways == {g \in Gateways : gwNs[g] = "active"}

Service == INSTANCE KeyService WITH
    NoEntry <- NoReg, life <- KeyLife, term <- KeyTerm, key <- SecretKey, entry <- reg,
    ring <- KeyRing, waived <- excused, standing <- ActiveGateways

\* Passes that read stale caches, lose races, fail half way and die, the teardown,
\* the sweep and everybody's edits but those of a TTL keep the promise: the
\* finalizer comes before the first key and goes after the last registration, a key
\* in a Secret is not replaced, no attendee's key ever serves another's grant, a
\* gateway is told the term of the grant, and is told to forget no valid key.
KeepsKeyContract == Service!Spec

--------------------------------------------------------------------------------
(***************************************************************************)
(* Claims of the comments and types, each with the behaviour it is about.   *)
(* The code does not keep all of them: the README says which instances show *)
(* that.                                                                    *)
(***************************************************************************)

\* "a ConfigMap with any still-valid entry must survive, or a sweep would revoke
\* a live attendee": a sweep deletes only what has expired when it deletes it.
SweepSparesLiveKeys ==
    [][\A s \in Sessions, g \in Gateways :
          sweep' # sweep /\ reg[s][g] # NoReg /\ reg'[s][g] = NoReg
              => reg[s][g].exp <= now]_vars

\* "ExpiresAt is when the participant key stops working regardless of whether any
\* cleanup ran": a key past its expiry is not registered (again).
ExpiredStaysRevoked ==
    [][\A s \in Sessions, g \in Gateways :
          reg[s][g] = NoReg /\ reg'[s][g] # NoReg => reg'[s][g].exp > now]_vars

\* "Nothing is minted once the session namespace is on its way out."
NothingMintedAtEnd ==
    [][\A s \in Sessions :
          /\ secret'[s] # NoSecret /\ secret'[s].key # NoKey
          /\ secret[s] = NoSecret \/ secret[s].key = NoKey
          => sessNs[s] \notin {"terminating", "gone"}]_vars

\* "The Secret is owned by the session namespace, not by this resource. That is
\* what makes it both reachable and collectable."
KeySecretOwned ==
    \A s \in Sessions :
        sessNs[s] = "active" /\ secret[s] # NoSecret /\ secret[s].key # NoKey
            => secret[s].owned

\* Teardown removes the registration in the normal case: with no failed removal
\* and no stripped finalizer, a grant that is gone leaves no registration in a
\* namespace that is not itself going away.
NothingLeftBehind ==
    \A s \in Sessions, g \in Gateways :
        sess[s].st = "gone" /\ gwNs[g] = "active" => reg[s][g] = NoReg

\* "Conditions are authoritative": a settled grant whose Ready condition is True
\* has a Secret with a key.
ReadyConditionHonest ==
    Quiet => \A s \in Sessions :
                sess[s].st = "live" /\ sess[s].status.ready
                    => secret[s] # NoSecret /\ secret[s].key # NoKey

--------------------------------------------------------------------------------
(***************************************************************************)
(* Liveness.                                                                *)
(***************************************************************************)

\* The bounded finalizer: a deleted grant goes away even if removing its
\* registration never succeeds and the operator restarts in between, so that the
\* session namespace is not wedged.
DeletionCompletes ==
    \A s \in Sessions : sess[s].st = "deleting" ~> sess[s].st = "gone"

\* The TTL backstop: a registration past its expiry in the platform's gateway
\* namespace is eventually revoked, with or without a grant left, unless its
\* expiry is extended or the gateway moves.
ExpiredKeyRevoked ==
    \A s \in Sessions, g \in Gateways :
        LET stale == platform = g /\ reg[s][g] # NoReg /\ reg[s][g].exp <= now
        IN  stale ~> ~stale

\* A deleted or emptied Secret of a running session is repaired: the Secret
\* watch wakes the grant, a new key is minted and the grant has a usable Secret
\* again, unless the grant, its session or the catalog goes first.
SecretRepaired ==
    \A s \in Sessions :
        LET lost == /\ sess[s].st = "live" /\ s \notin Misplaced
                    /\ sessNs[s] \in {"none", "active"}
                    /\ catalog # NoGateway /\ platform # NoGateway
                    /\ secret[s] = NoSecret \/ secret[s].key = NoKey
        IN  lost ~> ~lost

================================================================================
