----------------------------- MODULE PlatformProofs ----------------------------
(***************************************************************************)
(* Proofs about the platform reconciler, for any namespaces, any number of  *)
(* platforms declared one after the other, and any sequence of edits and    *)
(* mishaps.                                                                 *)
(***************************************************************************)
EXTENDS Platform, TLAPS

--------------------------------------------------------------------------------
(***************************************************************************)
(* The inductive invariant.                                                 *)
(***************************************************************************)

BundledSteps == {"namespace", "gatewayAPI", "crds", "agentgateway", "parameters", "class",
                 "prune", "gateway", "ratelimit", "policy"}

\* A declared bundled platform names a namespace, and one that is going has a finalizer.
SpecOK ==
    /\ spec.st \in {"live", "deleting"} /\ spec.provider = "bundled" => spec.ns \in Namespaces
    /\ spec.st = "deleting" => spec.fin
    /\ spec.fin => spec.st \in {"live", "deleting"}
    /\ spec.st \in {"live", "deleting"} => spec.uid # 0

\* Where the worker can be with what it read of the platform.
PassOK ==
    /\ w.pc # "idle" =>
          /\ w.snap.st \in {"live", "deleting"} /\ w.snap.uid # 0
          /\ w.snap.provider = "bundled" => w.snap.ns \in Namespaces
          /\ w.status.ns = w.snap.ns
    /\ w.pc \in BundledSteps => w.snap.provider = "bundled" /\ w.snap.st = "live"
    /\ w.pc \in {"programmed", "markReady"} => w.snap.st = "live" /\ w.snap.ns \in Namespaces
    /\ w.pc = "external" => w.snap.provider = "external" /\ w.snap.st = "live"
    /\ w.pc = "finalizer" => w.snap.st = "live"
    /\ w.pc \in {"uninstalling", "release"} => w.snap.st = "deleting"
    /\ w.pc = "drain" =>
          /\ w.on \in Objects => w.snap.st = "deleting"
          /\ w.on \in Releases =>
                /\ w.snap.ns \in Namespaces
                /\ w.snap.st = IF w.snap.provider = "bundled" THEN "deleting" ELSE "live"
          /\ w.on = "namespace" => w.snap.st = "deleting" /\ w.snap.provider = "bundled"
          /\ w.on # "ratelimit"

\* A pass is over a platform with a finalizer, and a drain over the one that is going.
Held ==
    w.pc \notin {"idle", "finalizer"} =>
        /\ spec.fin /\ w.snap.uid = spec.uid
        /\ w.snap.st = "deleting" => w.snap = spec

\* A namespace that does not exist holds nothing, and one that did not exist before has
\* the platform for its owner.
Empty ==
    \A n \in Namespaces :
        nsp[n].st = "none" => /\ \A r \in Releases : rel[n][r] = "none"
                              /\ \A o \in Objects : obj[n][o] = "none"
Owned == \A n \in Namespaces \ Existing : nsp[n].st # "none" => nsp[n].owner # 0

\* What the step before the one that needs it has left, unless the namespace is gone.
Ordered ==
    Ns \in Namespaces /\ nsp[Ns].st # "none" =>
        /\ w.pc = "agentgateway" => rel[Ns]["agentgateway-crds"] # "none"
        /\ w.pc \in {"class", "prune", "gateway"} => obj[Ns]["parameters"] # "none"
        /\ w.pc \in {"ratelimit", "policy"} => obj[Ns]["gateway"] # "none"
        /\ w.pc = "policy" => obj[Ns]["ratelimit"] # "none"

\* What a drain has removed before what it needed.
Unwound ==
    Ns \in Namespaces /\ w.pc = "drain" =>
        /\ w.on \in {"gateway", "legacy", "parameters"} => obj[Ns]["policy"] = "none"
        /\ w.on \in {"legacy", "parameters"} => obj[Ns]["gateway"] = "none"
        /\ w.on = "agentgateway-crds" => rel[Ns]["agentgateway"] = "none"

\* What a bundled platform consists of.
Installed(n) ==
    /\ \A r \in {"agentgateway", "agentgateway-crds"} : rel[n][r] = "ours"
    /\ \A o \in {"parameters", "gateway", "ratelimit", "policy"} : obj[n][o] # "none"

\* What a pass over a bundled platform has ensured by the step it is at.
Built(n) ==
    /\ w.pc \in {"agentgateway", "parameters", "class", "prune", "gateway", "programmed",
                 "ratelimit", "policy", "markReady"} => rel[n]["agentgateway-crds"] = "ours"
    /\ w.pc \in {"parameters", "class", "prune", "gateway", "programmed", "ratelimit",
                 "policy", "markReady"} => rel[n]["agentgateway"] = "ours"
    /\ w.pc \in {"class", "prune", "gateway", "programmed", "ratelimit", "policy",
                 "markReady"} => obj[n]["parameters"] # "none"
    /\ w.pc \in {"programmed", "ratelimit", "policy", "markReady"} => obj[n]["gateway"] # "none"
    /\ w.pc \in {"policy", "markReady"} => obj[n]["ratelimit"] # "none"
    /\ w.pc = "markReady" => obj[n]["policy"] # "none"
    /\ w.pc = "status" /\ w.status.phase = "Ready" => w.status.ready /\ Installed(n)

\* A pass that nothing has queued anew since it read the platform is over the platform
\* as it is, and what it has ensured is there.
Fresh ==
    ~queued /\ w.pc # "idle" =>
        /\ w.snap = spec
        /\ w.snap.st = "live" /\ w.snap.provider = "bundled" /\ Ns \notin Existing => Built(Ns)

\* A platform that rests in phase Ready is installed where it says.
Rested ==
    /\ w.pc = "idle" /\ ~queued /\ spec.st = "live" /\ spec.provider = "bundled"
    /\ status.phase = "Ready" /\ spec.ns \notin Existing
    => status.ready /\ status.ns = spec.ns /\ Installed(spec.ns)

\* What of this operator's is in the namespace is on its way out with it.
CleanOfReleases(n) == \A r \in Releases : rel[n][r] \in Ours => nsp[n].st = "terminating"
CleanOf(n, os) == \A o \in os : obj[n][o] = "ours" => nsp[n].st = "terminating"
Clean(n) == CleanOfReleases(n) /\ CleanOf(n, Objects)

\* A pass is over the provider and the namespace the platform has.
Unmoved ==
    w.pc \notin {"idle", "finalizer"} =>
        w.snap.ns = spec.ns /\ w.snap.provider = spec.provider

\* A Ready condition is of a platform with a finalizer, and of the namespace it names.
Published ==
    spec.st \in {"live", "deleting"} /\ status.ready => spec.fin /\ status.ns = spec.ns

\* What this operator made is where the platform names, and only while it has a finalizer.
CleanOutside == \A n \in Namespaces : ~spec.fin \/ n # spec.ns => Clean(n)

\* An external platform has nothing there but the catalog's models.
CleanExternal ==
    spec.fin /\ spec.ns \in Namespaces /\ spec.provider = "external" =>
        CleanOfReleases(spec.ns) /\ CleanOf(spec.ns, Objects \ {"models"})

\* No model is rendered during the drain of a platform that is going.
Unready == w.pc \in {"drain", "release"} /\ w.snap.st = "deleting" => ~status.ready

\* Once the drain is over, nothing is left.
Emptied ==
    w.pc = "release" /\ spec.ns \in Namespaces =>
        Clean(spec.ns) /\ (spec.provider = "bundled" => nsp[spec.ns].st # "active")

\* What is so as long as the platform has never been edited.
Unedited ==
    used.edits = 0 =>
        Unmoved /\ Published /\ CleanOutside /\ CleanExternal /\ Unready /\ Emptied

--------------------------------------------------------------------------------
(***************************************************************************)
(* Types.                                                                   *)
(***************************************************************************)

Passes == [pc : Steps, on : Drained, snap : Declared, status : Status, requeue : BOOLEAN]

\* However a step ends, the worker is somewhere and holds a status (Go, Error, Report,
\* Drain and the order After of a drain).
LEMMA EndsTyped ==
    ASSUME TypeOK
    PROVE  /\ \A pc \in Steps : Go(pc) => w' \in Passes /\ queued' \in BOOLEAN
           /\ \A what \in Drained : Drain(what) => w' \in Passes /\ queued' \in BOOLEAN
           /\ \A what \in Drained : After(what) => w' \in Passes /\ queued' \in BOOLEAN
           /\ Error => w' \in Passes /\ queued' \in BOOLEAN
           /\ Wait => w' \in Passes /\ queued' \in BOOLEAN
           /\ Stop => w' \in Passes /\ queued' \in BOOLEAN
           /\ \A st \in Status, rq \in BOOLEAN :
                 Report(st, rq) => w' \in Passes /\ queued' \in BOOLEAN
  <1>1. w \in Passes /\ queued \in BOOLEAN
    BY DEF TypeOK, Passes
  <1>2. ASSUME NEW pc \in Steps, Go(pc)
        PROVE  w' \in Passes /\ queued' \in BOOLEAN
    BY <1>1, <1>2 DEF Go, Passes
  <1>3. ASSUME NEW what \in Drained, Drain(what)
        PROVE  w' \in Passes /\ queued' \in BOOLEAN
    BY <1>1, <1>3 DEF Drain, Passes, Steps
  <1>4. ASSUME NEW st \in Status, NEW rq \in BOOLEAN, Report(st, rq)
        PROVE  w' \in Passes /\ queued' \in BOOLEAN
    BY <1>1, <1>4 DEF Report, Passes, Steps
  <1>5. ASSUME Error
        PROVE  w' \in Passes /\ queued' \in BOOLEAN
    BY <1>5 DEF Error, Idle, Passes, Steps, Drained, Objects, Undeclared, NewStatus, Declared, Status
  <1>6. Wait => w' \in Passes /\ queued' \in BOOLEAN
    <2>1. [w.status EXCEPT !.phase = "Installing"] \in Status
      BY <1>1 DEF Passes, Status
    <2> QED
      BY <1>4, <2>1 DEF Wait
  <1>7. Stop => w' \in Passes /\ queued' \in BOOLEAN
    <2>1. [w.status EXCEPT !.phase = "Failed"] \in Status
      BY <1>1 DEF Passes, Status
    <2> QED
      BY <1>4, <2>1 DEF Stop
  <1>8. ASSUME NEW what \in Drained, After(what)
        PROVE  w' \in Passes /\ queued' \in BOOLEAN
    <2>1. \/ \E o \in Drained : Drain(o)
          \/ \E pc \in Steps : Go(pc)
      BY <1>8 DEF After, Drained, Objects, Releases, Steps
    <2> QED
      BY <1>2, <1>3, <2>1
  <1> QED
    BY <1>2, <1>3, <1>4, <1>5, <1>6, <1>7, <1>8

\* A failed call or a deleted namespace is counted among the mishaps.
LEMMA MishapType ==
    ASSUME TypeOK, NEW kind, Mishap(kind)
    PROVE  used' \in [edits : Nat, mishaps : Nat] /\ used'.edits = used.edits
  BY DEF Mishap, TypeOK

\* The cluster's part of the type.
SomeReleases == [Namespaces -> [Releases -> ReleaseState]]
SomeObjects == [Namespaces -> [Objects -> {"none", "ours", "theirs"}]]
SomeNamespaces == [Namespaces -> [st : {"none", "active", "terminating"}, owner : Nat]]

ClusterTyped == nsp \in SomeNamespaces /\ rel \in SomeReleases /\ obj \in SomeObjects

\* Changing the state of one release keeps the cluster's form (converge, uninstallRelease).
LEMMA ReleaseWriteTyped ==
    ASSUME ClusterTyped, NEW r \in Releases, NEW v \in ReleaseState
    PROVE  [rel EXCEPT ![Ns][r] = v] \in SomeReleases
  BY DEF ClusterTyped, SomeReleases

\* Creating or deleting one object keeps the cluster's form (Ensure, deleteIfPresent,
\* pruneLegacyGateway).
LEMMA WritesTyped ==
    ASSUME ClusterTyped
    PROVE  /\ \A o \in Objects, v \in {"none", "ours", "theirs"} :
                 [obj EXCEPT ![Ns][o] = v] \in SomeObjects
           /\ \A o \in Objects : [obj EXCEPT ![Ns][o] = IF @ = "none" THEN "ours" ELSE @] \in SomeObjects
  <1>1. \A o \in Objects, v \in {"none", "ours", "theirs"} :
            [obj EXCEPT ![Ns][o] = v] \in SomeObjects
    BY DEF ClusterTyped, SomeObjects
  <1>2. \A o \in Objects : [obj EXCEPT ![Ns][o] = IF @ = "none" THEN "ours" ELSE @] \in SomeObjects
    BY DEF ClusterTyped, SomeObjects
  <1> QED
    BY <1>1, <1>2

\* Every step of a pass and of a drain keeps the state well typed.
LEMMA WorkerKeepsType ==
    ASSUME TypeOK, Worker
    PROVE  TypeOK'
  <1> DEFINE Typed == /\ spec' \in Declared /\ status' \in Status /\ ClusterTyped'
                      /\ up' \subseteq Gates /\ queued' \in BOOLEAN /\ w' \in Passes
                      /\ used' \in [edits : Nat, mishaps : Nat]
  <1>1. /\ spec \in Declared /\ status \in Status /\ ClusterTyped
        /\ up \subseteq Gates /\ queued \in BOOLEAN /\ w \in Passes
        /\ used \in [edits : Nat, mishaps : Nat]
    BY DEF TypeOK, ClusterTyped, SomeReleases, SomeObjects, SomeNamespaces, Passes
  <1>2. ASSUME UNCHANGED cluster
        PROVE  ClusterTyped'
    BY <1>1, <1>2 DEF ClusterTyped, cluster
  <1>3. ASSUME Typed
        PROVE  TypeOK'
    BY <1>3 DEF TypeOK, ClusterTyped, SomeReleases, SomeObjects, SomeNamespaces, Passes
  <1>4. CASE Reconcile
    <2>1. \A pc \in Steps : [pc |-> pc, on |-> "policy", snap |-> spec, requeue |-> FALSE,
                             status |-> [status EXCEPT !.ns = GatewayNamespace(spec)]] \in Passes
      BY <1>1 DEF Passes, Status, Declared, Drained, Objects, GatewayNamespace
    <2>2. w' \in Passes
      BY <1>1, <1>4, <2>1 DEF Reconcile, Steps
    <2> QED
      BY <1>1, <1>2, <1>3, <1>4, <2>2 DEF Reconcile
  <1>5. CASE AddFinalizer
    <2>1. UNCHANGED <<status, cluster, up>>
      BY <1>5 DEF AddFinalizer
    <2>2. CASE /\ spec = w.snap
               /\ spec' = [spec EXCEPT !.fin = TRUE]
               /\ w' = [w EXCEPT !.snap = spec',
                          !.pc = IF spec.provider = "external" THEN "external" ELSE "namespace"]
               /\ UNCHANGED <<queued, used>>
      <3>1. spec' \in Declared
        BY <1>1, <2>2 DEF Declared
      <3>2. w' \in Passes
        BY <1>1, <2>2, <3>1 DEF Passes, Steps
      <3> QED
        BY <1>1, <1>2, <1>3, <2>1, <2>2, <3>1, <3>2
    <2>3. CASE Error /\ UNCHANGED spec /\ (UNCHANGED used \/ Mishap("write"))
      BY <1>1, <1>2, <1>3, <2>1, <2>3, EndsTyped, MishapType
    <2> QED
      BY <1>5, <2>2, <2>3, Zenon DEF AddFinalizer
  <1>6. CASE ensureNamespace
    <2>1. UNCHANGED <<spec, status, rel, obj, up>>
      BY <1>6 DEF ensureNamespace
    <2>2. nsp' \in SomeNamespaces
      BY <1>1, <1>6 DEF ensureNamespace, ClusterTyped, SomeNamespaces, Passes, Declared
    <2>3. w' \in Passes /\ queued' \in BOOLEAN
      <3>1. Go("gatewayAPI") \/ Error \/ (w' = [w EXCEPT !.pc = "gatewayAPI"] /\ queued' = TRUE)
        BY <1>6, Zenon DEF ensureNamespace
      <3> QED
        BY <1>1, <3>1, EndsTyped DEF Passes, Steps
    <2>4. used' \in [edits : Nat, mishaps : Nat]
      BY <1>1, <1>6, MishapType DEF ensureNamespace
    <2> QED
      BY <1>1, <1>3, <2>1, <2>2, <2>3, <2>4 DEF ClusterTyped
  <1>7. ASSUME UNCHANGED <<spec, status, cluster, up, used>>, w' \in Passes, queued' \in BOOLEAN
        PROVE  TypeOK'
    BY <1>1, <1>2, <1>3, <1>7
  <1>8. CASE reconcileGatewayAPI \/ waitForGatewayClass
    <2>1. UNCHANGED <<spec, status, cluster, up, used>> /\ (Go("crds") \/ Go("prune") \/ Wait)
      BY <1>8 DEF reconcileGatewayAPI, waitForGatewayClass
    <2>2. "crds" \in Steps /\ "prune" \in Steps
      BY DEF Steps
    <2> QED
      BY <1>7, <2>1, <2>2, EndsTyped
  <1>9. CASE reconcileCRDsChart \/ reconcileControlPlane
    <2>1. UNCHANGED <<spec, status, nsp, obj, up>>
      BY <1>9 DEF reconcileCRDsChart, reconcileControlPlane
    <2>2. \/ rel' = rel
          \/ \E r \in Releases, v \in ReleaseState : rel' = [rel EXCEPT ![Ns][r] = v]
      BY <1>9 DEF reconcileCRDsChart, reconcileControlPlane, converge, Releases, ReleaseState
    <2>3. \/ Go("agentgateway") \/ Go("parameters") \/ Wait \/ Stop \/ Error
          \/ Report([w.status EXCEPT !.phase = "Failed", !.ready = FALSE], FALSE)
      BY <1>9, Zenon DEF reconcileCRDsChart, reconcileControlPlane, converge
    <2>4. "agentgateway" \in Steps /\ "parameters" \in Steps
      BY DEF Steps
    <2>5. [w.status EXCEPT !.phase = "Failed", !.ready = FALSE] \in Status
      BY <1>1 DEF Passes, Status
    <2>6. w' \in Passes /\ queued' \in BOOLEAN
      BY <2>3, <2>4, <2>5, EndsTyped
    <2>7. UNCHANGED used \/ Mishap("release")
      BY <1>9, Zenon DEF reconcileCRDsChart, reconcileControlPlane, converge
    <2>8. rel' \in SomeReleases
      <3>1. ASSUME NEW r \in Releases, NEW v \in ReleaseState, rel' = [rel EXCEPT ![Ns][r] = v]
            PROVE  rel' \in SomeReleases
        BY <1>1, <3>1, ReleaseWriteTyped
      <3> QED
        BY <1>1, <2>2, <3>1 DEF ClusterTyped
    <2> QED
      BY <1>1, <1>3, <2>1, <2>6, <2>7, <2>8, MishapType DEF ClusterTyped
  <1>10. CASE ensureParameters \/ ensureGateway \/ ensurePolicy
    <2>1. UNCHANGED <<spec, status, nsp, rel, up>>
      BY <1>10 DEF ensureParameters, ensureGateway, ensurePolicy
    <2>2. \/ obj' = obj
          \/ \E o \in Objects : obj' = [obj EXCEPT ![Ns][o] = "none"]
          \/ \E o \in Objects : obj' = [obj EXCEPT ![Ns][o] = IF @ = "none" THEN "ours" ELSE @]
      BY <1>10 DEF ensureParameters, ensureGateway, ensurePolicy, Ensure, pruneLegacyGateway,
         deleteIfPresent, Objects
    <2>3. \/ Go("class") \/ Go("gateway") \/ Go("programmed") \/ Go("markReady") \/ Error
          \/ Report([w.status EXCEPT !.phase = "Failed"], TRUE)
      BY <1>10, Zenon DEF ensureParameters, ensureGateway, ensurePolicy, Ensure,
         pruneLegacyGateway, deleteIfPresent
    <2>4. {"class", "gateway", "programmed", "markReady"} \subseteq Steps
      BY DEF Steps
    <2>5. [w.status EXCEPT !.phase = "Failed"] \in Status
      BY <1>1 DEF Passes, Status
    <2>6. w' \in Passes /\ queued' \in BOOLEAN
      BY <2>3, <2>4, <2>5, EndsTyped
    <2>7. UNCHANGED used \/ Mishap("write") \/ Mishap("delete")
      BY <1>10, Zenon DEF ensureParameters, ensureGateway, ensurePolicy, Ensure,
         pruneLegacyGateway, deleteIfPresent
    <2>8. obj' \in SomeObjects
      <3>1. "none" \in {"none", "ours", "theirs"}
        OBVIOUS
      <3> QED
        BY <1>1, <2>2, <3>1, WritesTyped, Zenon DEF ClusterTyped
    <2> QED
      BY <1>1, <1>3, <2>1, <2>6, <2>7, <2>8, MishapType DEF ClusterTyped
  <1>11. CASE reconcileGatewayReady
    <2>1. UNCHANGED <<spec, status, cluster, up, used>> /\ (Wait \/ Go("markReady") \/ Go("ratelimit"))
      BY <1>11 DEF reconcileGatewayReady
    <2>2. "markReady" \in Steps /\ "ratelimit" \in Steps
      BY DEF Steps
    <2> QED
      BY <1>7, <2>1, <2>2, EndsTyped
  <1>12. CASE reconcileRateLimit
    <2>1. UNCHANGED <<spec, status, nsp, rel, up>>
      BY <1>12 DEF reconcileRateLimit
    <2>2. obj' = obj \/ obj' = [obj EXCEPT ![Ns]["ratelimit"] = "ours"]
      BY <1>12, Zenon DEF reconcileRateLimit
    <2>3. Go("policy") \/ Wait \/ Stop
      BY <1>12, Zenon DEF reconcileRateLimit
    <2>4. "policy" \in Steps /\ "ratelimit" \in Objects
      BY DEF Steps, Objects
    <2>5. w' \in Passes /\ queued' \in BOOLEAN
      BY <2>3, <2>4, EndsTyped
    <2>6. UNCHANGED used \/ Mishap("ratelimit")
      BY <1>12, Zenon DEF reconcileRateLimit
    <2>7. obj' \in SomeObjects
      <3>1. "ours" \in {"none", "ours", "theirs"}
        OBVIOUS
      <3> QED
        BY <1>1, <2>2, <2>4, <3>1, WritesTyped, Zenon DEF ClusterTyped
    <2> QED
      BY <1>1, <1>3, <2>1, <2>5, <2>6, <2>7, MishapType DEF ClusterTyped
  <1>13. CASE markReady
    <2>1. [ready |-> TRUE, ns |-> Ns, phase |-> "Ready"] \in Status
      BY <1>1 DEF Passes, Status, Declared, Ns, GatewayNamespace
    <2> QED
      BY <1>7, <1>13, <2>1, EndsTyped DEF markReady
  <1>14. CASE updateStatus
    <2>1. UNCHANGED <<spec, cluster, up>>
      BY <1>14 DEF updateStatus
    <2>2. CASE status' = w.status /\ w' = Idle /\ queued' = (queued \/ w.requeue) /\ UNCHANGED used
      <3>1. w' \in Passes /\ (queued \/ w.requeue) \in BOOLEAN
        BY <2>2 DEF Idle, Passes, Steps, Drained, Objects, Undeclared, NewStatus, Declared, Status
      <3>2. w.status \in Status
        BY <1>1 DEF Passes
      <3> QED
        BY <1>1, <1>2, <1>3, <2>1, <2>2, <3>1, <3>2
    <2>3. CASE Mishap("status") /\ Error /\ UNCHANGED status
      BY <1>1, <1>2, <1>3, <2>1, <2>3, EndsTyped, MishapType
    <2> QED
      BY <1>14, <2>2, <2>3, Zenon DEF updateStatus
  <1>15. CASE reconcileExternal
    <2>1. [w.status EXCEPT !.phase = "Failed", !.ready = FALSE] \in Status
      BY <1>1 DEF Passes, Status
    <2>2. "agentgateway-ratelimit" \in Drained
      BY DEF Drained, Releases
    <2>3. w' \in Passes /\ queued' \in BOOLEAN
      BY <1>15, <2>1, <2>2, EndsTyped DEF reconcileExternal
    <2> QED
      BY <1>7, <1>15, <2>3 DEF reconcileExternal
  <1>16. CASE reconcileDelete
    <2>1. UNCHANGED <<spec, cluster, up>> /\ Drain("policy") /\ "policy" \in Drained
      BY <1>16 DEF reconcileDelete, Drained, Objects
    <2>2. [w.status EXCEPT !.ready = FALSE, !.phase = "Uninstalling"] \in Status
      BY <1>1 DEF Passes, Status
    <2>3. status' \in Status /\ (UNCHANGED used \/ Mishap("status"))
      BY <1>1, <1>16, <2>2, Zenon DEF reconcileDelete
    <2> QED
      BY <1>1, <1>2, <1>3, <2>1, <2>3, EndsTyped, MishapType
  <1>17. CASE drainConfiguration
    <2>1. UNCHANGED <<spec, status, nsp, rel, up>> /\ w.on \in Objects /\ w.on \in Drained
      BY <1>17 DEF drainConfiguration, Drained
    <2>2. \/ obj' = obj \/ obj' = [obj EXCEPT ![Ns][w.on] = "none"]
          \/ obj' = [obj EXCEPT ![Ns]["legacy"] = "none"]
          \/ obj' = [n \in Namespaces |-> [obj[n] EXCEPT !["models"] = "none"]]
      BY <1>17, Zenon DEF drainConfiguration, pruneLegacyGateway, deleteIfPresent
    <2>3. "legacy" \in Objects /\ "models" \in Objects /\ "release" \in Steps
      BY DEF Objects, Steps
    <2>4. obj' \in SomeObjects
      <3>1. [n \in Namespaces |-> [obj[n] EXCEPT !["models"] = "none"]] \in SomeObjects
        BY <1>1 DEF ClusterTyped, SomeObjects
      <3>2. "none" \in {"none", "ours", "theirs"}
        OBVIOUS
      <3> QED
        BY <1>1, <2>1, <2>2, <2>3, <3>1, <3>2, WritesTyped, Zenon DEF ClusterTyped
    <2>5. Go("release") \/ After(w.on) \/ Error
      BY <1>17, Zenon DEF drainConfiguration, pruneLegacyGateway, deleteIfPresent
    <2>6. w' \in Passes /\ queued' \in BOOLEAN
      BY <2>1, <2>3, <2>5, EndsTyped
    <2>7. UNCHANGED used \/ Mishap("delete")
      BY <1>17, Zenon DEF drainConfiguration, pruneLegacyGateway, deleteIfPresent
    <2> QED
      BY <1>1, <1>3, <2>1, <2>4, <2>6, <2>7, MishapType DEF ClusterTyped
  <1>18. CASE uninstallRelease
    <2>1. UNCHANGED <<spec, status, nsp, obj, up>> /\ w.on \in Releases /\ w.on \in Drained
      BY <1>18 DEF uninstallRelease, Drained
    <2>2. \E v \in ReleaseState : rel' = [rel EXCEPT ![Ns][w.on] = v]
      <3>1. \/ rel' = [rel EXCEPT ![Ns][w.on] = "none"]
            \/ rel' = [rel EXCEPT ![Ns][w.on] = IF @ = "theirs" THEN @ ELSE "uninstalling"]
        BY <1>18, Zenon DEF uninstallRelease
      <3>2. [rel EXCEPT ![Ns][w.on] = IF @ = "theirs" THEN @ ELSE "uninstalling"] =
              [rel EXCEPT ![Ns][w.on] = IF rel[Ns][w.on] = "theirs" THEN "theirs" ELSE "uninstalling"]
        BY <1>1, <2>1 DEF ClusterTyped, SomeReleases
      <3> QED
        BY <3>1, <3>2 DEF ReleaseState
    <2>3. After(w.on) \/ Error
      BY <1>18, Zenon DEF uninstallRelease
    <2>4. w' \in Passes /\ queued' \in BOOLEAN
      BY <2>1, <2>3, EndsTyped
    <2>5. UNCHANGED used \/ Mishap("delete")
      BY <1>18, Zenon DEF uninstallRelease
    <2>6. rel' \in SomeReleases
      <3>1. PICK v \in ReleaseState : rel' = [rel EXCEPT ![Ns][w.on] = v]
        BY <2>2
      <3> QED
        BY <1>1, <2>1, <3>1, ReleaseWriteTyped
    <2> QED
      BY <1>1, <1>3, <2>1, <2>4, <2>5, <2>6, MishapType DEF ClusterTyped
  <1>19. CASE drainNamespace
    <2>1. UNCHANGED <<spec, status, rel, obj, up>>
      BY <1>19 DEF drainNamespace
    <2>2. nsp' \in SomeNamespaces
      <3>1. [nsp EXCEPT ![Ns].st = IF @ = "active" THEN "terminating" ELSE @] \in SomeNamespaces
        BY <1>1 DEF ClusterTyped, SomeNamespaces
      <3> QED
        BY <1>1, <1>19, <3>1, Zenon DEF drainNamespace, ClusterTyped
    <2>3. w' \in Passes /\ queued' \in BOOLEAN /\ (UNCHANGED used \/ Mishap("delete"))
      <3>1. CASE Error /\ Mishap("delete")
        BY <3>1, EndsTyped
      <3>2. CASE /\ w' = [w EXCEPT !.pc = "release"]
                 /\ queued' = (queued \/ nsp[Ns].owner # 0) /\ UNCHANGED used
        <4>1. (queued \/ nsp[Ns].owner # 0) \in BOOLEAN
          BY Zenon
        <4>2. w' \in Passes
          BY <1>1, <3>2 DEF Passes, Steps
        <4> QED
          BY <3>2, <4>1, <4>2
      <3> QED
        BY <1>19, <3>1, <3>2, Zenon DEF drainNamespace
    <2> QED
      BY <1>1, <1>3, <2>1, <2>2, <2>3, MishapType DEF ClusterTyped
  <1>20. CASE releaseFinalizer
    <2>1. UNCHANGED <<status, cluster, up>>
      BY <1>20 DEF releaseFinalizer
    <2>2. CASE spec' = [spec EXCEPT !.st = "gone", !.fin = FALSE] /\ w' = Idle /\ UNCHANGED <<queued, used>>
      <3>1. spec' \in Declared
        BY <1>1, <2>2 DEF Declared
      <3>2. w' \in Passes
        BY <2>2 DEF Idle, Passes, Steps, Drained, Objects, Undeclared, NewStatus, Declared, Status
      <3> QED
        BY <1>1, <1>2, <1>3, <2>1, <2>2, <3>1, <3>2
    <2>3. CASE Mishap("write") /\ Error /\ UNCHANGED spec
      BY <1>1, <1>2, <1>3, <2>1, <2>3, EndsTyped, MishapType
    <2>4. CASE Mishap("read") /\ w' = Idle /\ UNCHANGED <<queued, spec>>
      <3>1. w' \in Passes
        BY <2>4 DEF Idle, Passes, Steps, Drained, Objects, Undeclared, NewStatus, Declared, Status
      <3> QED
        BY <1>1, <1>2, <1>3, <2>1, <2>4, <3>1, MishapType
    <2> QED
      BY <1>20, <2>2, <2>3, <2>4, Zenon DEF releaseFinalizer
  <1> QED
    BY <1>4, <1>5, <1>6, <1>8, <1>9, <1>10, <1>11, <1>12, <1>13, <1>14, <1>15, <1>16, <1>17,
       <1>18, <1>19, <1>20 DEF Worker, Install, Teardown

\* The cluster and the people around the worker keep the form of everything.
LEMMA EnvironmentKeepsType ==
    ASSUME TypeOK, Environment
    PROVE  TypeOK'
  <1> DEFINE Typed == /\ spec' \in Declared /\ status' \in Status /\ ClusterTyped'
                      /\ up' \subseteq Gates /\ queued' \in BOOLEAN /\ w' \in Passes
                      /\ used' \in [edits : Nat, mishaps : Nat]
  <1>1. /\ spec \in Declared /\ status \in Status /\ ClusterTyped
        /\ up \subseteq Gates /\ queued \in BOOLEAN /\ w \in Passes
        /\ used \in [edits : Nat, mishaps : Nat]
    BY DEF TypeOK, ClusterTyped, SomeReleases, SomeObjects, SomeNamespaces, Passes
  <1>2. ASSUME UNCHANGED cluster
        PROVE  ClusterTyped'
    BY <1>1, <1>2 DEF ClusterTyped, cluster
  <1>3. ASSUME Typed
        PROVE  TypeOK'
    BY <1>3 DEF TypeOK, ClusterTyped, SomeReleases, SomeObjects, SomeNamespaces, Passes
  <1>4. CASE Declare
    <2>1. PICK q \in Providers, n \in Namespaces \union {NoNs} :
            spec' = [st |-> "live", uid |-> spec.uid + 1, fin |-> FALSE, provider |-> q, ns |-> n]
      BY <1>4 DEF Declare
    <2>2. spec' \in Declared
      BY <1>1, <2>1, PlatformConstants DEF Declared
    <2>3. status' \in Status
      BY <1>4 DEF Declare, NewStatus, Status
    <2> QED
      BY <1>1, <1>2, <1>3, <1>4, <2>2, <2>3 DEF Declare
  <1>5. CASE EditPlatform
    <2>1. PICK q \in Providers, n \in Namespaces \union {NoNs} :
            spec' = [spec EXCEPT !.provider = q, !.ns = n]
      BY <1>5 DEF EditPlatform
    <2>2. spec' \in Declared
      BY <1>1, <2>1, PlatformConstants DEF Declared
    <2> QED
      BY <1>1, <1>2, <1>3, <1>5, <2>2 DEF EditPlatform
  <1>6. CASE DeletePlatform
    <2>1. spec' \in Declared
      BY <1>1, <1>6 DEF DeletePlatform, Declared
    <2> QED
      BY <1>1, <1>2, <1>3, <1>6, <2>1 DEF DeletePlatform
  <1>7. CASE Crash
    <2>1. w' \in Passes
      BY <1>7 DEF Crash, Idle, Passes, Steps, Drained, Objects, Undeclared, NewStatus, Declared, Status
    <2> QED
      BY <1>1, <1>2, <1>3, <1>7, <2>1, MishapType DEF Crash
  <1>8. CASE RenderModels
    <2>1. obj' \in SomeObjects
      BY <1>1, <1>8 DEF RenderModels, ClusterTyped, SomeObjects
    <2> QED
      BY <1>1, <1>3, <1>8, <2>1 DEF RenderModels, ClusterTyped
  <1>9. ASSUME NEW g \in Gates, ComeUp(g) \/ GoDown(g)
        PROVE  TypeOK'
    <2>1. up' \subseteq Gates /\ UNCHANGED <<spec, status, cluster, queued, w>>
      BY <1>1, <1>9 DEF ComeUp, GoDown
    <2>2. used' \in [edits : Nat, mishaps : Nat]
      BY <1>1, <1>9, MishapType DEF ComeUp, GoDown
    <2> QED
      BY <1>1, <1>2, <1>3, <2>1, <2>2
  <1>10. ASSUME NEW n \in Namespaces, NamespaceRemoved(n)
         PROVE  TypeOK'
    <2>1. nsp' \in SomeNamespaces
      BY <1>1, <1>10 DEF NamespaceRemoved, ClusterTyped, SomeNamespaces
    <2>2. rel' \in SomeReleases
      BY <1>1, <1>10 DEF NamespaceRemoved, ClusterTyped, SomeReleases, ReleaseState
    <2>3. obj' \in SomeObjects
      BY <1>1, <1>10 DEF NamespaceRemoved, ClusterTyped, SomeObjects
    <2>4. queued' \in BOOLEAN
      BY <1>10, Zenon DEF NamespaceRemoved
    <2> QED
      BY <1>1, <1>3, <1>10, <2>1, <2>2, <2>3, <2>4 DEF NamespaceRemoved, ClusterTyped
  <1>11. ASSUME NEW n \in Namespaces, CollectNamespace(n)
         PROVE  TypeOK'
    <2>1. nsp' \in SomeNamespaces
      BY <1>1, <1>11 DEF CollectNamespace, ClusterTyped, SomeNamespaces
    <2>2. queued' \in BOOLEAN
      BY <1>11, Zenon DEF CollectNamespace
    <2> QED
      BY <1>1, <1>3, <1>11, <2>1, <2>2 DEF CollectNamespace, ClusterTyped
  <1>12. ASSUME NEW n \in Namespaces, LegacyBuild(n)
         PROVE  TypeOK'
    <2>1. obj' \in SomeObjects
      BY <1>1, <1>12 DEF LegacyBuild, ClusterTyped, SomeObjects
    <2> QED
      BY <1>1, <1>3, <1>12, <2>1 DEF LegacyBuild, ClusterTyped
  <1> QED
    BY <1>4, <1>5, <1>6, <1>7, <1>8, <1>9, <1>10, <1>11, <1>12 DEF Environment

\* So it is from the start.
LEMMA InitialType == Init => TypeOK
  <1> SUFFICES ASSUME Init
               PROVE  TypeOK
    OBVIOUS
  <1>1. spec \in Declared /\ status \in Status
    BY DEF Init, Undeclared, NewStatus, Declared, Status
  <1>2. w \in [pc : Steps, on : Drained, snap : Declared, status : Status, requeue : BOOLEAN]
    BY DEF Init, Idle, Steps, Drained, Objects, Undeclared, NewStatus, Declared, Status
  <1>3. nsp \in [Namespaces -> [st : {"none", "active", "terminating"}, owner : Nat]]
    BY DEF Init
  <1>4. rel \in [Namespaces -> [Releases -> ReleaseState]]
    BY DEF Init, ReleaseState
  <1>5. obj \in [Namespaces -> [Objects -> {"none", "ours", "theirs"}]]
    BY DEF Init
  <1> QED
    BY <1>1, <1>2, <1>3, <1>4, <1>5 DEF Init, TypeOK

\* Every step, the worker's or the environment's, keeps the state well typed.
LEMMA StepKeepsType ==
    ASSUME TypeOK, [Next]_vars
    PROVE  TypeOK'
  <1>1. CASE UNCHANGED vars
    BY <1>1 DEF vars, cluster, TypeOK
  <1> QED
    BY <1>1, WorkerKeepsType, EnvironmentKeepsType DEF Next

\* Every variable keeps to its type: among others the phases the platform's schema
\* allows, and the steps of install and drain that code reaches.
THEOREM PlatformTypes == Spec => []TypeOK
  BY InitialType, StepKeepsType, PTL DEF Spec

--------------------------------------------------------------------------------
(***************************************************************************)
(* The contract of a Helm release.                                          *)
(***************************************************************************)

\* What a step may make of a release.
ReleaseStep(n, r) ==
    \/ rel'[n][r] = rel[n][r]
    \/ rel[n][r] \in {"none", "ours", "failed"} /\ rel'[n][r] \in {"ours", "failed"}
    \/ rel'[n][r] = "none"
    \/ rel[n][r] \in Ours /\ rel'[n][r] = "uninstalling"

\* Only a pass over a release and the removal of its namespace touch it (converge,
\* uninstallRelease).
LEMMA ReleaseSteps ==
    ASSUME TypeOK, [Next]_vars
    PROVE  \A n \in Namespaces, r \in Releases : ReleaseStep(n, r)
  <1>1. rel \in SomeReleases
    BY DEF TypeOK, SomeReleases
  <1>2. CASE UNCHANGED rel
    BY <1>2 DEF ReleaseStep
  <1>3. CASE reconcileCRDsChart \/ reconcileControlPlane
    <2>1. PICK q \in Releases :
            \/ UNCHANGED rel
            \/ rel[Ns][q] \in {"none", "failed"} /\ rel' = [rel EXCEPT ![Ns][q] = "ours"]
            \/ /\ rel[Ns][q] \in {"none", "ours", "failed"}
               /\ rel' = [rel EXCEPT ![Ns][q] = "failed"]
      BY <1>3 DEF reconcileCRDsChart, reconcileControlPlane, converge, Releases
    <2> QED
      BY <1>1, <2>1 DEF ReleaseStep, SomeReleases
  <1>4. CASE uninstallRelease
    <2>1. \/ rel' = [rel EXCEPT ![Ns][w.on] = "none"]
          \/ /\ rel[Ns][w.on] # "none"
             /\ rel' = [rel EXCEPT ![Ns][w.on] = IF @ = "theirs" THEN @ ELSE "uninstalling"]
      BY <1>4, Zenon DEF uninstallRelease
    <2> QED
      BY <1>1, <2>1 DEF ReleaseStep, SomeReleases, ReleaseState, Ours
  <1>5. ASSUME NEW m \in Namespaces, NamespaceRemoved(m)
        PROVE  \A n \in Namespaces, r \in Releases : ReleaseStep(n, r)
    BY <1>1, <1>5 DEF NamespaceRemoved, ReleaseStep, SomeReleases
  <1>6. CASE Environment
    <2>1. UNCHANGED rel \/ \E m \in Namespaces : NamespaceRemoved(m)
      BY <1>6 DEF Environment, Declare, EditPlatform, DeletePlatform, Crash, RenderModels, ComeUp,
         GoDown, CollectNamespace, LegacyBuild, cluster
    <2> QED
      BY <1>2, <1>5, <2>1
  <1>7. CASE Install
    <2>1. UNCHANGED rel \/ reconcileCRDsChart \/ reconcileControlPlane
      BY <1>7, Zenon DEF Install, Reconcile, AddFinalizer, ensureNamespace, reconcileGatewayAPI,
         ensureParameters, waitForGatewayClass, ensureGateway, reconcileGatewayReady,
         reconcileRateLimit, ensurePolicy, markReady, updateStatus, reconcileExternal, cluster
    <2> QED
      BY <1>2, <1>3, <2>1
  <1>8. CASE Teardown
    <2>1. UNCHANGED rel \/ uninstallRelease
      BY <1>8 DEF Teardown, reconcileDelete, drainConfiguration, drainNamespace,
         releaseFinalizer, cluster
    <2> QED
      BY <1>2, <1>4, <2>1
  <1> QED
    BY <1>2, <1>6, <1>7, <1>8 DEF Next, Worker, vars, cluster

\* Install and drain keep the contract of every release, step by step: a release is
\* converged only from nothing or from one of this operator's, one left half removed is
\* removed before anything else becomes of it, and somebody else's is never taken over
\* (converge, uninstallRelease).
THEOREM ContractKept == Spec => ReleasesKeepContract
  <1>1. Init => \A n \in Namespaces, r \in Releases : Contract(n, r)!Init
    BY DEF Init, Contract!Init
  <1>2. TypeOK /\ [Next]_vars =>
          [\A n \in Namespaces, r \in Releases : [Contract(n, r)!Next]_(rel[n][r])]_rel
    <2> SUFFICES ASSUME TypeOK, [Next]_vars, NEW n \in Namespaces, NEW r \in Releases
                 PROVE  Contract(n, r)!Next \/ UNCHANGED rel[n][r]
      OBVIOUS
    <2>1. rel[n][r] \in ReleaseState
      BY DEF TypeOK
    <2> QED
      BY <2>1, ReleaseSteps DEF ReleaseStep, ReleaseState, Ours, Contract!Next, Contract!Converge,
         Contract!Remove, Contract!Appear
  <1> QED
    BY <1>1, <1>2, PlatformTypes, PTL DEF Spec, ReleasesKeepContract

--------------------------------------------------------------------------------
(***************************************************************************)
(* Where the worker is.                                                     *)
(***************************************************************************)

\* What a step's end says of the worker, field by field.
LEMMA Ends ==
    ASSUME TypeOK
    PROVE  /\ \A pc \in Steps : Go(pc) =>
                 /\ w'.pc = pc /\ w'.on = w.on /\ w'.snap = w.snap /\ w'.status = w.status
                 /\ queued' = queued
           /\ \A what \in Drained : Drain(what) =>
                 /\ w'.pc = "drain" /\ w'.on = what /\ w'.snap = w.snap /\ w'.status = w.status
                 /\ queued' = queued
           /\ \A st, rq : Report(st, rq) =>
                 /\ w'.pc = "status" /\ w'.snap = w.snap /\ w'.status = st /\ w'.requeue = rq
                 /\ queued' = queued
           /\ Wait => /\ w'.pc = "status" /\ w'.snap = w.snap
                      /\ w'.status.ns = w.status.ns /\ w'.status.phase = "Installing"
                      /\ w'.status.ready = w.status.ready
                      /\ queued' = queued
           /\ Stop => /\ w'.pc = "status" /\ w'.snap = w.snap
                      /\ w'.status.ns = w.status.ns /\ w'.status.phase = "Failed"
                      /\ w'.status.ready = w.status.ready
                      /\ queued' = queued
           /\ Error => w'.pc = "idle" /\ w' = Idle /\ queued' = TRUE
  <1>1. w \in Passes
    BY DEF TypeOK, Passes
  <1>2. ASSUME NEW pc \in Steps, Go(pc)
        PROVE  /\ w'.pc = pc /\ w'.on = w.on /\ w'.snap = w.snap /\ w'.status = w.status
               /\ queued' = queued
    BY <1>1, <1>2 DEF Go, Passes
  <1>3. ASSUME NEW what \in Drained, Drain(what)
        PROVE  /\ w'.pc = "drain" /\ w'.on = what /\ w'.snap = w.snap /\ w'.status = w.status
               /\ queued' = queued
    BY <1>1, <1>3 DEF Drain, Passes
  <1>4. ASSUME NEW st, NEW rq, Report(st, rq)
        PROVE  /\ w'.pc = "status" /\ w'.snap = w.snap /\ w'.status = st /\ w'.requeue = rq
               /\ queued' = queued
    BY <1>1, <1>4 DEF Report, Passes
  <1>5. ASSUME Wait
        PROVE  /\ w'.pc = "status" /\ w'.snap = w.snap
               /\ w'.status.ns = w.status.ns /\ w'.status.phase = "Installing"
               /\ w'.status.ready = w.status.ready
               /\ queued' = queued
    BY <1>1, <1>5 DEF Wait, Report, Passes, Status
  <1>6. ASSUME Stop
        PROVE  /\ w'.pc = "status" /\ w'.snap = w.snap
               /\ w'.status.ns = w.status.ns /\ w'.status.phase = "Failed"
               /\ w'.status.ready = w.status.ready
               /\ queued' = queued
    BY <1>1, <1>6 DEF Stop, Report, Passes, Status
  <1>7. Error => w'.pc = "idle" /\ w' = Idle /\ queued' = TRUE
    BY DEF Error, Idle
  <1> QED
    BY <1>2, <1>3, <1>4, <1>5, <1>6, <1>7

\* The specification of the platform stays sound.
LEMMA StepKeepsSpec ==
    ASSUME TypeOK, SpecOK, PassOK, Held, [Next]_vars
    PROVE  SpecOK'
  <1>1. spec \in Declared /\ w \in Passes
    BY DEF TypeOK, Passes
  <1>2. CASE UNCHANGED spec
    BY <1>2 DEF SpecOK
  <1>3. CASE AddFinalizer
    BY <1>1, <1>2, <1>3 DEF AddFinalizer, SpecOK, PassOK, Declared
  <1>4. CASE releaseFinalizer
    BY <1>1, <1>2, <1>4 DEF releaseFinalizer, SpecOK, Declared
  <1>5. CASE Declare
    <2>1. PICK q \in Providers, n \in Namespaces \union {NoNs} :
            /\ q = "bundled" => n # NoNs
            /\ spec' = [st |-> "live", uid |-> spec.uid + 1, fin |-> FALSE, provider |-> q, ns |-> n]
      BY <1>5 DEF Declare
    <2> QED
      BY <1>1, <2>1 DEF SpecOK, Declared
  <1>6. CASE EditPlatform
    <2>1. PICK q \in Providers, n \in Namespaces \union {NoNs} :
            (q = "bundled" => n # NoNs) /\ spec' = [spec EXCEPT !.provider = q, !.ns = n]
      BY <1>6 DEF EditPlatform
    <2> QED
      BY <1>1, <1>6, <2>1 DEF EditPlatform, SpecOK, Declared
  <1>7. CASE DeletePlatform
    BY <1>1, <1>7 DEF DeletePlatform, SpecOK, Declared
  <1>8. CASE Environment
    <2>1. UNCHANGED spec \/ Declare \/ EditPlatform \/ DeletePlatform
      BY <1>8, Zenon DEF Environment, Crash, RenderModels, ComeUp, GoDown, NamespaceRemoved,
         CollectNamespace, LegacyBuild, cluster
    <2> QED
      BY <1>2, <1>5, <1>6, <1>7, <2>1
  <1>9. CASE Worker
    <2>1. UNCHANGED spec \/ AddFinalizer \/ releaseFinalizer
      BY <1>9, Zenon DEF Worker, Install, Teardown, Reconcile, ensureNamespace,
         reconcileGatewayAPI, reconcileCRDsChart, reconcileControlPlane, ensureParameters,
         waitForGatewayClass, ensureGateway, reconcileGatewayReady, reconcileRateLimit,
         ensurePolicy, markReady, updateStatus, reconcileExternal, reconcileDelete,
         drainConfiguration, uninstallRelease, drainNamespace
    <2> QED
      BY <1>2, <1>3, <1>4, <2>1
  <1> QED
    BY <1>2, <1>8, <1>9 DEF Next, vars

\* The order of a drain.
LEMMA AfterEnds ==
    ASSUME TypeOK, w.on \in Drained, After(w.on)
    PROVE  /\ w'.snap = w.snap /\ w'.status = w.status /\ queued' = queued
           /\ \/ w.on = "policy" /\ w'.pc = "drain" /\ w'.on = "gateway"
              \/ w.on = "gateway" /\ w'.pc = "drain" /\ w'.on = "legacy"
              \/ w.on = "legacy" /\ w'.pc = "drain" /\ w'.on = "parameters"
              \/ w.on = "parameters" /\ w'.pc = "drain" /\ w'.on = "models"
              \/ /\ w.on = "models" /\ w.snap.provider = "bundled"
                 /\ w'.pc = "drain" /\ w'.on = "agentgateway-ratelimit"
              \/ w.on = "agentgateway-ratelimit" /\ w'.pc = "drain" /\ w'.on = "agentgateway"
              \/ w.on = "agentgateway" /\ w'.pc = "drain" /\ w'.on = "agentgateway-crds"
              \/ /\ w.on = "agentgateway-crds" /\ w.snap.provider = "bundled"
                 /\ w'.pc = "drain" /\ w'.on = "namespace"
              \/ w.on = "agentgateway-crds" /\ w.snap.provider = "external" /\ w'.pc = "programmed"
              \/ /\ (w.on = "models" /\ w.snap.provider # "bundled") \/ w.on \in {"ratelimit", "namespace"}
                 /\ w'.pc = "release"
  <1>1. w \in Passes /\ w.snap.provider \in {"bundled", "external"}
    BY DEF TypeOK, Passes, Declared
  <1>2. \/ w.on = "policy" /\ Drain("gateway")
        \/ w.on = "gateway" /\ Drain("legacy")
        \/ w.on = "legacy" /\ Drain("parameters")
        \/ w.on = "parameters" /\ Drain("models")
        \/ w.on = "models" /\ w.snap.provider = "bundled" /\ Drain("agentgateway-ratelimit")
        \/ w.on = "agentgateway-ratelimit" /\ Drain("agentgateway")
        \/ w.on = "agentgateway" /\ Drain("agentgateway-crds")
        \/ w.on = "agentgateway-crds" /\ w.snap.provider = "bundled" /\ Drain("namespace")
        \/ w.on = "agentgateway-crds" /\ w.snap.provider = "external" /\ Go("programmed")
        \/ /\ (w.on = "models" /\ w.snap.provider # "bundled") \/ w.on \in {"ratelimit", "namespace"}
           /\ Go("release")
    BY <1>1 DEF After, Drained, Objects, Releases
  <1>3. {"gateway", "legacy", "parameters", "models", "namespace"} \union Releases \subseteq Drained
        /\ "programmed" \in Steps /\ "release" \in Steps
    BY DEF Drained, Objects, Steps
  <1> QED
    BY <1>2, <1>3, Ends DEF Releases

\* The worker is only where what it read of the platform takes it, a pass is over a
\* platform with a finalizer, and a drain over the one that is going.
LEMMA StepKeepsPass ==
    ASSUME TypeOK, SpecOK, PassOK, Held, [Next]_vars
    PROVE  PassOK' /\ Held'
  <1>1. spec \in Declared /\ w \in Passes /\ w.snap \in Declared /\ w.status \in Status
        /\ status \in Status
    BY DEF TypeOK, Passes
  <1>2. CASE UNCHANGED <<spec, w>>
    BY <1>2 DEF PassOK, Held
  <1>3. CASE w'.pc = "idle"
    BY <1>3 DEF PassOK, Held, BundledSteps
  <1>4. ASSUME UNCHANGED spec, w'.snap = w.snap, w'.status.ns = w.status.ns, w'.pc = "status",
               w.pc \notin {"idle", "finalizer"}
        PROVE  PassOK' /\ Held'
    BY <1>4 DEF PassOK, Held, BundledSteps
  <1>5. ASSUME UNCHANGED spec, w.pc \in BundledSteps, w'.snap = w.snap, w'.status = w.status,
               w'.pc \in BundledSteps \union {"programmed", "markReady"}
        PROVE  PassOK' /\ Held'
    BY <1>1, <1>5 DEF PassOK, Held, BundledSteps
  <1>6. CASE Reconcile
    <2>1. CASE UNCHANGED w
      BY <1>2, <1>6, <2>1 DEF Reconcile
    <2>2. CASE ~UNCHANGED w
      <3>1. /\ UNCHANGED spec /\ spec.st \in {"live", "deleting"} /\ w'.snap = spec
            /\ w'.on = "policy" /\ w'.status = [status EXCEPT !.ns = GatewayNamespace(spec)]
            /\ \/ spec.st = "live" /\ ~spec.fin /\ w'.pc = "finalizer"
               \/ spec.st = "live" /\ spec.fin /\ spec.provider = "external" /\ w'.pc = "external"
               \/ spec.st = "live" /\ spec.fin /\ spec.provider # "external" /\ w'.pc = "namespace"
               \/ spec.st = "deleting" /\ w'.pc = "uninstalling"
        BY <1>6, <2>2 DEF Reconcile
      <3>2. w'.status.ns = w'.snap.ns
        BY <1>1, <3>1 DEF Status, GatewayNamespace
      <3> QED
        BY <1>1, <3>1, <3>2 DEF PassOK, Held, SpecOK, BundledSteps, Declared
    <2> QED
      BY <2>1, <2>2
  <1>7. CASE AddFinalizer
    <2>1. CASE /\ spec = w.snap
               /\ spec' = [spec EXCEPT !.fin = TRUE]
               /\ w' = [w EXCEPT !.snap = spec',
                          !.pc = IF spec.provider = "external" THEN "external" ELSE "namespace"]
      BY <1>1, <1>7, <2>1 DEF AddFinalizer, PassOK, Held, BundledSteps, Declared, Passes
    <2>2. CASE Error
      BY <1>3, <2>2, Ends
    <2> QED
      BY <1>7, <2>1, <2>2, Zenon DEF AddFinalizer
  <1>8. CASE ensureNamespace \/ reconcileGatewayAPI \/ reconcileCRDsChart \/ reconcileControlPlane
             \/ ensureParameters \/ waitForGatewayClass \/ ensureGateway \/ reconcileRateLimit
             \/ ensurePolicy
    <2>1. w.pc \in BundledSteps /\ UNCHANGED spec
      BY <1>8 DEF ensureNamespace, reconcileGatewayAPI, reconcileCRDsChart, reconcileControlPlane,
         ensureParameters, waitForGatewayClass, ensureGateway, reconcileRateLimit, ensurePolicy,
         BundledSteps
    <2>2. \/ \E pc \in BundledSteps \union {"programmed", "markReady"} : Go(pc)
          \/ Wait \/ Stop \/ Error
          \/ w' = [w EXCEPT !.pc = "gatewayAPI"]
          \/ Report([w.status EXCEPT !.phase = "Failed", !.ready = FALSE], FALSE)
          \/ Report([w.status EXCEPT !.phase = "Failed"], TRUE)
      BY <1>8 DEF ensureNamespace, reconcileGatewayAPI, reconcileCRDsChart, reconcileControlPlane,
         ensureParameters, waitForGatewayClass, ensureGateway, reconcileRateLimit, ensurePolicy,
         BundledSteps, converge, Ensure, pruneLegacyGateway, deleteIfPresent
    <2>3. BundledSteps \union {"programmed", "markReady"} \subseteq Steps
      BY DEF BundledSteps, Steps
    <2>4. CASE \E pc \in BundledSteps \union {"programmed", "markReady"} : Go(pc)
      BY <1>5, <2>1, <2>3, <2>4, Ends
    <2>5. CASE Error
      BY <1>3, <2>5, Ends
    <2>6. CASE w' = [w EXCEPT !.pc = "gatewayAPI"]
      BY <1>1, <1>5, <2>1, <2>6 DEF BundledSteps, Passes
    <2>7. CASE Wait \/ Stop
      BY <1>4, <2>1, <2>7, Ends DEF BundledSteps
    <2>8. ASSUME NEW st \in Status, NEW rq, Report(st, rq), st.ns = w.status.ns
          PROVE  PassOK' /\ Held'
      BY <1>4, <2>1, <2>8, Ends DEF BundledSteps
    <2>9. /\ [w.status EXCEPT !.phase = "Failed", !.ready = FALSE] \in Status
          /\ [w.status EXCEPT !.phase = "Failed", !.ready = FALSE].ns = w.status.ns
          /\ [w.status EXCEPT !.phase = "Failed"] \in Status
          /\ [w.status EXCEPT !.phase = "Failed"].ns = w.status.ns
      BY <1>1 DEF Status
    <2> QED
      BY <2>2, <2>4, <2>5, <2>6, <2>7, <2>8, <2>9
  <1>9. CASE reconcileGatewayReady
    <2>1. /\ w.pc = "programmed" /\ UNCHANGED spec
          /\ \/ w.snap.provider = "external" /\ Go("markReady")
             \/ w.snap.provider # "external" /\ Go("ratelimit")
             \/ Wait
      BY <1>9 DEF reconcileGatewayReady
    <2>2. "markReady" \in Steps /\ "ratelimit" \in Steps
      BY DEF Steps
    <2>3. CASE Wait
      BY <1>4, <2>1, <2>3, Ends
    <2>4. CASE w.snap.provider = "external" /\ Go("markReady")
      BY <1>1, <2>1, <2>2, <2>4, Ends DEF PassOK, Held, BundledSteps
    <2>5. CASE w.snap.provider # "external" /\ Go("ratelimit")
      BY <1>1, <2>1, <2>2, <2>5, Ends DEF PassOK, Held, BundledSteps, Declared
    <2> QED
      BY <2>1, <2>3, <2>4, <2>5
  <1>10. CASE markReady
    <2>1. w.pc = "markReady" /\ UNCHANGED spec /\ w'.pc = "status" /\ w'.snap = w.snap
          /\ w'.status = [ready |-> TRUE, ns |-> Ns, phase |-> "Ready"]
      BY <1>10, Ends DEF markReady
    <2>2. w'.status.ns = w.status.ns
      BY <2>1 DEF PassOK, Ns, GatewayNamespace
    <2> QED
      BY <1>4, <2>1, <2>2
  <1>11. CASE updateStatus \/ releaseFinalizer
    <2>1. w' = Idle \/ Error
      BY <1>11, Zenon DEF updateStatus, releaseFinalizer
    <2>2. w'.pc = "idle"
      <3>1. Idle.pc = "idle"
        BY DEF Idle
      <3> QED
        BY <2>1, <3>1, Ends
    <2> QED
      BY <1>3, <2>2
  <1>12. CASE reconcileExternal
    <2>1. w.pc = "external" /\ UNCHANGED spec
      BY <1>12 DEF reconcileExternal
    <2>2. CASE Report([w.status EXCEPT !.phase = "Failed", !.ready = FALSE], FALSE)
      <3>1. [w.status EXCEPT !.phase = "Failed", !.ready = FALSE].ns = w.status.ns
        BY <1>1 DEF Status
      <3> QED
        BY <1>4, <2>1, <2>2, <3>1, Ends
    <2>3. CASE Ns # NoNs /\ Drain("agentgateway-ratelimit")
      <3>1. "agentgateway-ratelimit" \in Drained
        BY DEF Drained, Releases
      <3>2. w'.pc = "drain" /\ w'.on = "agentgateway-ratelimit" /\ w'.snap = w.snap
            /\ w'.status = w.status
        BY <2>3, <3>1, Ends
      <3>3. w.snap.ns \in Namespaces
        BY <1>1, <2>3 DEF Ns, GatewayNamespace, Declared
      <3> QED
        BY <2>1, <3>2, <3>3 DEF PassOK, Held, BundledSteps, Objects, Releases
    <2> QED
      BY <1>12, <2>2, <2>3 DEF reconcileExternal
  <1>13. CASE reconcileDelete
    <2>1. w.pc = "uninstalling" /\ UNCHANGED spec
      BY <1>13 DEF reconcileDelete
    <2>2. w'.pc = "drain" /\ w'.on = "policy" /\ w'.snap = w.snap /\ w'.status = w.status
      <3>1. Drain("policy") /\ "policy" \in Drained
        BY <1>13 DEF reconcileDelete, Drained, Objects
      <3> QED
        BY <3>1, Ends
    <2> QED
      BY <2>1, <2>2 DEF PassOK, Held, BundledSteps, Objects, Releases
  <1>14. ASSUME UNCHANGED spec, w.pc = "drain", w.on \in Drained, After(w.on), Ns \in Namespaces
         PROVE  PassOK' /\ Held'
    <2>1. /\ w'.snap = w.snap /\ w'.status = w.status
          /\ \/ /\ w.on \in Objects /\ w'.pc = "drain" /\ w'.on \in Objects
             \/ /\ w.on = "models" /\ w.snap.provider = "bundled"
                /\ w'.pc = "drain" /\ w'.on \in Releases
             \/ w.on = "models" /\ w.snap.provider # "bundled" /\ w'.pc = "release"
             \/ w.on \in Releases /\ w'.pc = "drain" /\ w'.on \in Releases
             \/ /\ w.on \in Releases /\ w.snap.provider = "bundled"
                /\ w'.pc = "drain" /\ w'.on = "namespace"
             \/ w.on \in Releases /\ w.snap.provider = "external" /\ w'.pc = "programmed"
             \/ w.on \notin Releases /\ w'.pc = "release"
      BY <1>14, AfterEnds DEF Objects, Releases
    <2>2. /\ spec.fin /\ w.snap.uid = spec.uid /\ (w.snap.st = "deleting" => w.snap = spec)
          /\ w.snap.st \in {"live", "deleting"} /\ w.snap.uid # 0 /\ w.status.ns = w.snap.ns
          /\ w.snap.ns \in Namespaces
      BY <1>14 DEF PassOK, Held, Ns, GatewayNamespace
    <2>3. Held'
      BY <1>14, <2>1, <2>2 DEF Held
    <2>4. w.on \in Objects => w.snap.st = "deleting"
      BY <1>14 DEF PassOK
    <2>5. w.on \in Releases =>
            w.snap.st = IF w.snap.provider = "bundled" THEN "deleting" ELSE "live"
      BY <1>14 DEF PassOK
    <2>6. w.on \notin Releases => w.snap.st = "deleting"
      BY <1>14 DEF PassOK, Drained
    <2>7. w'.pc \in {"drain", "release", "programmed"}
      BY <2>1
    <2>8. w'.pc = "programmed" => w'.snap.st = "live"
      BY <2>1, <2>5
    <2>9. w'.pc = "release" => w'.snap.st = "deleting"
      BY <2>1, <2>4, <2>6 DEF Objects
    <2>10. w'.pc = "drain" /\ w'.on \in Objects => w'.snap.st = "deleting"
      BY <2>1, <2>4 DEF Objects, Releases
    <2>11. w'.pc = "drain" /\ w'.on \in Releases =>
             w'.snap.st = IF w'.snap.provider = "bundled" THEN "deleting" ELSE "live"
      BY <2>1, <2>4, <2>5 DEF Objects, Releases
    <2>12. w'.pc = "drain" /\ w'.on = "namespace" =>
             w'.snap.st = "deleting" /\ w'.snap.provider = "bundled"
      BY <2>1, <2>5 DEF Objects, Releases
    <2>13. w'.pc = "drain" => w'.on # "ratelimit"
      BY <1>14, AfterEnds
    <2>14. PassOK'
      BY <2>1, <2>2, <2>7, <2>8, <2>9, <2>10, <2>11, <2>12, <2>13 DEF PassOK, BundledSteps
    <2> QED
      BY <2>3, <2>14
  <1>15. CASE drainConfiguration \/ uninstallRelease
    <2>1. UNCHANGED spec /\ w.pc = "drain" /\ w.on \in Drained
          /\ (w.on \in Releases \/ w.on \in Objects)
      BY <1>15 DEF drainConfiguration, uninstallRelease, Drained
    <2>2. \/ Error
          \/ w.on \in Objects /\ Go("release")
          \/ w.on \in Objects /\ Ns # NoNs /\ After(w.on)
          \/ w.on \in Releases /\ After(w.on)
      BY <1>15, Zenon DEF drainConfiguration, uninstallRelease, pruneLegacyGateway, deleteIfPresent
    <2>3. CASE Error
      BY <1>3, <2>3, Ends
    <2>4. CASE w.on \in Objects /\ Go("release")
      <3>1. "release" \in Steps
        BY DEF Steps
      <3> QED
        BY <2>1, <2>4, <3>1, Ends DEF PassOK, Held, BundledSteps, Objects
    <2>5. CASE (w.on \in Releases \/ Ns # NoNs) /\ After(w.on)
      <3>1. Ns \in Namespaces
        BY <1>1, <2>1, <2>5 DEF PassOK, Ns, GatewayNamespace, Declared
      <3> QED
        BY <1>14, <2>1, <2>5, <3>1
    <2> QED
      BY <2>2, <2>3, <2>4, <2>5
  <1>16. CASE drainNamespace
    <2>1. w'.pc = "idle" \/ w' = [w EXCEPT !.pc = "release"]
      BY <1>16, Ends DEF drainNamespace
    <2>2. w.pc = "drain" /\ w.on = "namespace" /\ UNCHANGED spec
      BY <1>16 DEF drainNamespace
    <2> QED
      BY <1>1, <1>3, <2>1, <2>2 DEF PassOK, Held, BundledSteps, Passes
  <1>17. CASE Declare \/ EditPlatform \/ DeletePlatform
    <2>1. UNCHANGED w
      BY <1>17 DEF Declare, EditPlatform, DeletePlatform
    <2>2. CASE w.pc \in {"idle", "finalizer"}
      BY <2>1, <2>2 DEF PassOK, Held, BundledSteps
    <2>3. CASE w.pc \notin {"idle", "finalizer"}
      <3>1. spec.fin /\ w.snap.uid = spec.uid /\ (w.snap.st = "deleting" => w.snap = spec)
            /\ spec.st \in {"live", "deleting"}
        BY <2>3 DEF Held, SpecOK
      <3>2. ~Declare /\ spec.st = "live"
        BY <1>17, <3>1 DEF Declare, EditPlatform, DeletePlatform
      <3>3. spec'.fin /\ spec'.uid = spec.uid /\ w.snap.st # "deleting"
        <4>1. CASE EditPlatform
          BY <1>1, <3>1, <3>2, <4>1 DEF EditPlatform, Declared
        <4>2. CASE DeletePlatform
          BY <1>1, <3>1, <3>2, <4>2 DEF DeletePlatform, Declared
        <4> QED
          BY <1>17, <3>2, <4>1, <4>2
      <3> QED
        BY <2>1, <3>1, <3>3 DEF PassOK, Held
    <2> QED
      BY <2>2, <2>3
  <1>18. CASE Crash
    BY <1>3, <1>18 DEF Crash, Idle
  <1>19. CASE Environment
    <2>1. UNCHANGED <<spec, w>> \/ Declare \/ EditPlatform \/ DeletePlatform \/ Crash
      BY <1>19, Zenon DEF Environment, RenderModels, ComeUp, GoDown, NamespaceRemoved,
         CollectNamespace, LegacyBuild, cluster
    <2> QED
      BY <1>2, <1>17, <1>18, <2>1
  <1>20. CASE Worker
    BY <1>6, <1>7, <1>8, <1>9, <1>10, <1>11, <1>12, <1>13, <1>15, <1>16, <1>20
       DEF Worker, Install, Teardown
  <1> QED
    BY <1>2, <1>19, <1>20 DEF Next, vars

--------------------------------------------------------------------------------
(***************************************************************************)
(* What is in the cluster.                                                  *)
(***************************************************************************)

\* What each step of the worker that writes does to the objects of its namespace
\* (Ensure, deleteIfPresent, pruneLegacyGateway, drainConfiguration).
ObjectStep ==
    \/ UNCHANGED obj
    \/ \E o \in Objects :
          /\ obj[Ns][o] # "none" \/ Active
          /\ obj' = [obj EXCEPT ![Ns][o] = IF @ = "none" THEN "ours" ELSE @]
    \/ w.pc = "ratelimit" /\ (obj[Ns]["ratelimit"] # "none" \/ Active)
       /\ obj' = [obj EXCEPT ![Ns]["ratelimit"] = "ours"]
    \/ \E o \in Objects : obj' = [obj EXCEPT ![Ns][o] = "none"]
    \/ Ns = NoNs /\ obj' = [n \in Namespaces |-> [obj[n] EXCEPT !["models"] = "none"]]

\* The releases and the namespaces.
ReleaseWrite ==
    \/ UNCHANGED rel
    \/ \E r \in Releases, v \in {"ours", "failed"} : Active /\ rel' = [rel EXCEPT ![Ns][r] = v]
    \/ \E r \in Releases : rel' = [rel EXCEPT ![Ns][r] = "none"]
    \/ \E r \in Releases : /\ rel[Ns][r] # "none"
                           /\ rel' = [rel EXCEPT ![Ns][r] = IF @ = "theirs" THEN @ ELSE "uninstalling"]

NamespaceWrite ==
    \/ UNCHANGED nsp
    \/ nsp[Ns].st = "none" /\ w.pc = "namespace"
       /\ nsp' = [nsp EXCEPT ![Ns] = [st |-> "active", owner |-> w.snap.uid]]
    \/ nsp' = [nsp EXCEPT ![Ns].st = IF @ = "active" THEN "terminating" ELSE @]

\* A step of the worker writes at most one object, one release and one namespace, and
\* creates only where the namespace is active.
LEMMA WorkerWrites ==
    ASSUME TypeOK, Worker
    PROVE  ObjectStep /\ ReleaseWrite /\ NamespaceWrite
  <1>1. CASE UNCHANGED cluster
    BY <1>1 DEF cluster, ObjectStep, ReleaseWrite, NamespaceWrite
  <1>2. CASE Reconcile \/ AddFinalizer \/ reconcileGatewayAPI \/ waitForGatewayClass
             \/ reconcileGatewayReady \/ markReady \/ updateStatus \/ reconcileExternal
             \/ reconcileDelete \/ releaseFinalizer
    BY <1>1, <1>2 DEF Reconcile, AddFinalizer, reconcileGatewayAPI, waitForGatewayClass,
       reconcileGatewayReady, markReady, updateStatus, reconcileExternal, reconcileDelete,
       releaseFinalizer
  <1>3. CASE ensureNamespace \/ drainNamespace
    BY <1>3 DEF ensureNamespace, drainNamespace, ObjectStep, ReleaseWrite, NamespaceWrite
  <1>4. CASE reconcileCRDsChart \/ reconcileControlPlane
    BY <1>4 DEF reconcileCRDsChart, reconcileControlPlane, converge, Releases, ObjectStep,
       ReleaseWrite, NamespaceWrite
  <1>5. CASE uninstallRelease
    BY <1>5 DEF uninstallRelease, ObjectStep, ReleaseWrite, NamespaceWrite
  <1>6. CASE ensureParameters \/ ensureGateway \/ ensurePolicy
    <2>1. "parameters" \in Objects /\ "gateway" \in Objects /\ "policy" \in Objects
          /\ "legacy" \in Objects
      BY DEF Objects
    <2>2. UNCHANGED <<nsp, rel>>
      BY <1>6 DEF ensureParameters, ensureGateway, ensurePolicy
    <2>3. ObjectStep
      BY <1>6, <2>1, Zenon DEF ensureParameters, ensureGateway, ensurePolicy, Ensure,
         pruneLegacyGateway, deleteIfPresent, ObjectStep
    <2> QED
      BY <2>2, <2>3 DEF ReleaseWrite, NamespaceWrite
  <1>7. CASE reconcileRateLimit
    BY <1>7, Zenon DEF reconcileRateLimit, ObjectStep, ReleaseWrite, NamespaceWrite
  <1>8. CASE drainConfiguration
    <2>1. w.on \in Objects /\ "legacy" \in Objects /\ UNCHANGED <<nsp, rel>>
      BY <1>8 DEF drainConfiguration, Objects
    <2>2. ObjectStep
      BY <1>8, <2>1, Zenon DEF drainConfiguration, pruneLegacyGateway, deleteIfPresent, ObjectStep
    <2> QED
      BY <2>1, <2>2 DEF ReleaseWrite, NamespaceWrite
  <1> QED
    BY <1>2, <1>3, <1>4, <1>5, <1>6, <1>7, <1>8 DEF Worker, Install, Teardown

\* A namespace that does not exist holds nothing, and one that did not exist before
\* belongs to the platform that made it.
LEMMA StepKeepsNamespaces ==
    ASSUME TypeOK, PassOK, Empty, Owned, [Next]_vars
    PROVE  Empty' /\ Owned'
  <1>1. /\ nsp \in SomeNamespaces /\ rel \in SomeReleases /\ obj \in SomeObjects
        /\ w.snap.uid \in Nat
    BY DEF TypeOK, SomeReleases, SomeObjects, SomeNamespaces, Declared
  <1>2. CASE UNCHANGED cluster
    BY <1>2 DEF cluster, Empty, Owned
  <1>3. CASE Worker
    <2>1. ObjectStep /\ ReleaseWrite /\ NamespaceWrite
      BY <1>3, WorkerWrites
    <2>2. ASSUME NEW n \in Namespaces, nsp'[n].st = "none"
          PROVE  nsp[n].st = "none" /\ (n = Ns => ~Active /\ obj[Ns] = obj[n])
      <3>1. nsp[n].st = "none"
        BY <1>1, <2>1, <2>2 DEF NamespaceWrite, SomeNamespaces
      <3> QED
        BY <3>1 DEF Active
    <2>3. ASSUME NEW n \in Namespaces, nsp'[n].st = "none", NEW o \in Objects
          PROVE  obj'[n][o] = "none"
      <3>1. obj[n][o] = "none" /\ (n = Ns => ~Active)
        BY <2>2, <2>3 DEF Empty
      <3>2. \A x \in Objects : n = Ns => obj[Ns][x] = "none"
        BY <2>2, <2>3 DEF Empty
      <3>3. "ratelimit" \in Objects
        BY DEF Objects
      <3> QED
        BY <1>1, <2>1, <2>3, <3>1, <3>2, <3>3 DEF ObjectStep, SomeObjects
    <2>4. ASSUME NEW n \in Namespaces, nsp'[n].st = "none", NEW r \in Releases
          PROVE  rel'[n][r] = "none"
      <3>1. rel[n][r] = "none" /\ (n = Ns => ~Active)
        BY <2>2, <2>4 DEF Empty
      <3> QED
        BY <1>1, <2>1, <2>4, <3>1 DEF ReleaseWrite, SomeReleases
    <2>5. ASSUME NEW n \in Namespaces \ Existing, nsp'[n].st # "none"
          PROVE  nsp'[n].owner # 0
      <3>1. w.pc = "namespace" => w.snap.uid # 0
        BY DEF PassOK
      <3> QED
        BY <1>1, <2>1, <2>5, <3>1 DEF NamespaceWrite, SomeNamespaces, Owned
    <2> QED
      BY <2>3, <2>4, <2>5 DEF Empty, Owned
  <1>4. ASSUME NEW m \in Namespaces, NamespaceRemoved(m)
        PROVE  Empty' /\ Owned'
    BY <1>1, <1>4 DEF NamespaceRemoved, Empty, Owned, SomeNamespaces, SomeObjects, SomeReleases
  <1>5. ASSUME NEW m \in Namespaces, CollectNamespace(m)
        PROVE  Empty' /\ Owned'
    BY <1>1, <1>5 DEF CollectNamespace, Empty, Owned, SomeNamespaces
  <1>6. ASSUME NEW m \in Namespaces, LegacyBuild(m)
        PROVE  Empty' /\ Owned'
    BY <1>1, <1>6 DEF LegacyBuild, Empty, Owned, SomeObjects
  <1>7. CASE RenderModels
    <2>1. status.ns \in Namespaces
      BY <1>7 DEF RenderModels, TypeOK, Status
    <2> QED
      BY <1>1, <1>7, <2>1 DEF RenderModels, Empty, Owned, SomeObjects
  <1>8. CASE Environment
    <2>1. \/ UNCHANGED cluster \/ RenderModels
          \/ \E m \in Namespaces : NamespaceRemoved(m) \/ CollectNamespace(m) \/ LegacyBuild(m)
      BY <1>8, Zenon DEF Environment, Declare, EditPlatform, DeletePlatform, Crash, ComeUp, GoDown
    <2> QED
      BY <1>2, <1>4, <1>5, <1>6, <1>7, <2>1
  <1> QED
    BY <1>2, <1>3, <1>8 DEF Next, vars, cluster

--------------------------------------------------------------------------------
(***************************************************************************)
(* Dependencies.                                                            *)
(***************************************************************************)

\* The dependencies of one namespace.
Supported(n) ==
    /\ rel[n]["agentgateway"] \in Ours => rel[n]["agentgateway-crds"] # "none"
    /\ obj[n]["gateway"] = "ours" => obj[n]["parameters"] # "none"
    /\ obj[n]["policy"] = "ours" =>
          obj[n]["gateway"] # "none" /\ obj[n]["ratelimit"] # "none"

\* The worker writes in its own namespace only, the models of a platform without one
\* apart, so that what others need stays (ensureNamespace to drainNamespace).
LEMMA ElsewhereSupported ==
    ASSUME TypeOK, DependenciesPresent, Worker
    PROVE  \A n \in Namespaces : n # Ns => Supported(n)'
  <1>1. rel \in SomeReleases /\ obj \in SomeObjects
    BY DEF TypeOK, SomeReleases, SomeObjects
  <1>2. ObjectStep /\ ReleaseWrite
    BY WorkerWrites
  <1> SUFFICES ASSUME NEW n \in Namespaces, n # Ns
               PROVE  Supported(n)'
    OBVIOUS
  <1>3. rel'[n] = rel[n]
    BY <1>1, <1>2 DEF ReleaseWrite, SomeReleases
  <1>4. \A o \in Objects \ {"models"} : obj'[n][o] = obj[n][o]
    BY <1>1, <1>2 DEF ObjectStep, SomeObjects
  <1> QED
    BY <1>3, <1>4 DEF Supported, DependenciesPresent, Objects

\* The same for what the cluster does.
LEMMA EnvironmentKeepsOrder ==
    ASSUME TypeOK, Ordered, Unwound, DependenciesPresent, Environment
    PROVE  Ordered' /\ Unwound' /\ DependenciesPresent'
  <1>1. nsp \in SomeNamespaces /\ rel \in SomeReleases /\ obj \in SomeObjects
    BY DEF TypeOK, SomeReleases, SomeObjects, SomeNamespaces
  <1>2. CASE UNCHANGED cluster /\ (UNCHANGED w \/ w' = Idle)
    BY <1>2 DEF cluster, Ordered, Unwound, DependenciesPresent, Idle, Ns, GatewayNamespace
  <1>3. ASSUME NEW m \in Namespaces, NamespaceRemoved(m)
        PROVE  Ordered' /\ Unwound' /\ DependenciesPresent'
    <2>1. /\ nsp' = [nsp EXCEPT ![m] = [st |-> "none", owner |-> 0]]
          /\ rel' = [rel EXCEPT ![m] = [r \in Releases |-> "none"]]
          /\ obj' = [obj EXCEPT ![m] = [o \in Objects |-> "none"]] /\ w' = w
      BY <1>3 DEF NamespaceRemoved
    <2>2. Ordered'
      BY <1>1, <2>1 DEF Ordered, SomeNamespaces, SomeObjects, SomeReleases, Ns, GatewayNamespace
    <2>3. Unwound'
      BY <1>1, <2>1 DEF Unwound, SomeNamespaces, SomeObjects, SomeReleases, Ns, GatewayNamespace,
         Releases, Objects
    <2>4. DependenciesPresent'
      BY <1>1, <2>1 DEF DependenciesPresent, SomeObjects, SomeReleases, Releases, Objects, Ours
    <2> QED
      BY <2>2, <2>3, <2>4
  <1>4. ASSUME NEW m \in Namespaces, CollectNamespace(m)
        PROVE  Ordered' /\ Unwound' /\ DependenciesPresent'
    <2>1. nsp' = [nsp EXCEPT ![m].st = "terminating"] /\ UNCHANGED <<rel, obj, w>>
          /\ nsp[m].st = "active"
      BY <1>4 DEF CollectNamespace
    <2> QED
      BY <1>1, <2>1 DEF Ordered, Unwound, DependenciesPresent, SomeNamespaces, Ns, GatewayNamespace
  <1>5. ASSUME NEW m \in Namespaces, NEW o \in {"legacy", "models"},
               obj' = [obj EXCEPT ![m][o] = "ours"], UNCHANGED <<nsp, rel, w>>
        PROVE  Ordered' /\ Unwound' /\ DependenciesPresent'
    <2>1. \A n \in Namespaces, x \in Objects \ {"legacy", "models"} : obj'[n][x] = obj[n][x]
      BY <1>1, <1>5 DEF SomeObjects
    <2>2. {"parameters", "gateway", "ratelimit", "policy"} \subseteq Objects \ {"legacy", "models"}
      BY DEF Objects
    <2> QED
      BY <1>5, <2>1, <2>2 DEF Ordered, Unwound, DependenciesPresent, Ns, GatewayNamespace
  <1>6. CASE RenderModels
    <2>1. status.ns \in Namespaces
      BY <1>6 DEF RenderModels, TypeOK, Status
    <2> QED
      BY <1>5, <1>6, <2>1 DEF RenderModels
  <1>7. ASSUME NEW m \in Namespaces, LegacyBuild(m)
        PROVE  Ordered' /\ Unwound' /\ DependenciesPresent'
    BY <1>5, <1>7 DEF LegacyBuild
  <1>8. \/ UNCHANGED cluster /\ (UNCHANGED w \/ w' = Idle)
        \/ RenderModels
        \/ \E m \in Namespaces : NamespaceRemoved(m) \/ CollectNamespace(m) \/ LegacyBuild(m)
    BY Zenon DEF Environment, Declare, EditPlatform, DeletePlatform, Crash, ComeUp, GoDown
  <1> QED
    BY <1>2, <1>3, <1>4, <1>6, <1>7, <1>8

\* Each step of an install finds what the step before it has left, and each step of a
\* drain that what needed it is gone, through every failure and retry between them.
LEMMA WorkerKeepsOrder ==
    ASSUME TypeOK, PassOK, Empty, Ordered, Unwound, DependenciesPresent, Worker
    PROVE  Ordered' /\ Unwound' /\ DependenciesPresent'
  <1>1. /\ rel \in SomeReleases /\ obj \in SomeObjects /\ w \in Passes
        /\ nsp \in SomeNamespaces /\ w.on \in Drained
    BY DEF TypeOK, SomeReleases, SomeObjects, SomeNamespaces, Passes
  <1>2. \A n \in Namespaces : n # Ns => Supported(n)'
    BY ElsewhereSupported
  <1>3. DependenciesPresent' <=> \A n \in Namespaces : Supported(n)'
    BY DEF DependenciesPresent, Supported
  <1>4. DependenciesPresent => \A n \in Namespaces : Supported(n)
    BY DEF DependenciesPresent, Supported
  <1>5. Active => nsp[Ns].st # "none"
    BY DEF Active
  <1> DEFINE Quiet == {"idle", "finalizer", "namespace", "gatewayAPI", "crds", "parameters",
                       "programmed", "markReady", "external", "status", "uninstalling", "release"}
  <1>6. w'.pc \in Quiet => Ordered' /\ Unwound'
    BY DEF Ordered, Unwound
  <1>7. CASE UNCHANGED cluster /\ w'.pc \in Quiet
    <2>1. DependenciesPresent'
      BY <1>7 DEF cluster, DependenciesPresent
    <2> QED
      BY <1>6, <1>7, <2>1
  <1>8. CASE Reconcile
    <2>1. UNCHANGED cluster /\ (UNCHANGED w \/ w'.pc \in Quiet)
      BY <1>8 DEF Reconcile
    <2>2. CASE UNCHANGED w
      BY <2>1, <2>2 DEF cluster, DependenciesPresent, Ordered, Unwound, Ns, GatewayNamespace
    <2> QED
      BY <1>7, <2>1, <2>2
  <1>9. CASE AddFinalizer \/ reconcileGatewayAPI \/ markReady \/ updateStatus \/ releaseFinalizer
    <2>1. UNCHANGED cluster
      BY <1>9 DEF AddFinalizer, reconcileGatewayAPI, markReady, updateStatus, releaseFinalizer
    <2>2. "crds" \in Steps /\ Idle.pc = "idle"
      BY DEF Steps, Idle
    <2>3. w'.pc \in Quiet
      <3>1. CASE AddFinalizer
        <4>1. \/ Error
              \/ w' = [w EXCEPT !.snap = spec',
                         !.pc = IF spec.provider = "external" THEN "external" ELSE "namespace"]
          BY <3>1, Zenon DEF AddFinalizer
        <4> QED
          BY <1>1, <4>1, Ends DEF Passes
      <3>2. CASE reconcileGatewayAPI
        BY <2>2, <3>2, Ends DEF reconcileGatewayAPI
      <3>3. CASE markReady
        BY <3>3, Ends DEF markReady
      <3>4. CASE updateStatus \/ releaseFinalizer
        <4>1. w' = Idle \/ Error
          BY <3>4, Zenon DEF updateStatus, releaseFinalizer
        <4> QED
          BY <2>2, <4>1, Ends
      <3> QED
        BY <1>9, <3>1, <3>2, <3>3, <3>4
    <2> QED
      BY <1>7, <2>1, <2>3
  <1>10. CASE ensureNamespace \/ drainNamespace
    <2>1. UNCHANGED <<rel, obj>>
      BY <1>10 DEF ensureNamespace, drainNamespace
    <2>2. DependenciesPresent'
      BY <2>1 DEF DependenciesPresent
    <2>3. \/ Error \/ Go("gatewayAPI")
          \/ w' = [w EXCEPT !.pc = "gatewayAPI"] \/ w' = [w EXCEPT !.pc = "release"]
      BY <1>10, Zenon DEF ensureNamespace, drainNamespace
    <2>4. "gatewayAPI" \in Steps
      BY DEF Steps
    <2>5. w'.pc \in Quiet
      BY <1>1, <2>3, <2>4, Ends DEF Passes
    <2> QED
      BY <1>6, <2>2, <2>5
  <1>11. CASE reconcileCRDsChart
    <2>1. "agentgateway-crds" \in Releases /\ "agentgateway" \in Releases /\ "agentgateway" \in Steps
      BY DEF Releases, Steps
    <2>2. UNCHANGED <<nsp, obj>> /\ rel'[Ns]["agentgateway"] = rel[Ns]["agentgateway"]
      BY <1>1, <1>11, <2>1 DEF reconcileCRDsChart, converge, SomeReleases
    <2>3. /\ Ns \in Namespaces /\ rel[Ns]["agentgateway-crds"] # "none" =>
               rel'[Ns]["agentgateway-crds"] # "none"
          /\ Go("agentgateway") /\ Ns \in Namespaces => rel'[Ns]["agentgateway-crds"] # "none"
                 \/ Error \/ Wait \/ Stop
                 \/ Report([w.status EXCEPT !.phase = "Failed", !.ready = FALSE], FALSE)
      BY <1>1, <1>11, <2>1 DEF reconcileCRDsChart, converge, SomeReleases
    <2>4. \A n \in Namespaces : n = Ns => Supported(n)'
      BY <1>4, <2>1, <2>2, <2>3 DEF Supported
    <2>5. \/ Go("agentgateway") \/ Error \/ Wait \/ Stop
          \/ Report([w.status EXCEPT !.phase = "Failed", !.ready = FALSE], FALSE)
      BY <1>11, Zenon DEF reconcileCRDsChart, converge
    <2>6. w'.pc \in Quiet \/ (w'.pc = "agentgateway" /\ w'.snap = w.snap /\ Go("agentgateway"))
      BY <2>1, <2>5, Ends
    <2>7. Ordered' /\ Unwound'
      <3>1. CASE w'.pc = "agentgateway" /\ w'.snap = w.snap /\ Go("agentgateway")
        <4>1. ~Error /\ ~Wait /\ ~Stop
              /\ ~Report([w.status EXCEPT !.phase = "Failed", !.ready = FALSE], FALSE)
          BY <3>1, Ends
        <4> QED
          BY <2>3, <3>1, <4>1 DEF Ordered, Unwound, Ns, GatewayNamespace
      <3> QED
        BY <1>6, <2>6, <3>1
    <2> QED
      BY <1>2, <1>3, <2>4, <2>7
  <1>12. CASE reconcileControlPlane
    <2>1. "agentgateway-crds" \in Releases /\ "agentgateway" \in Releases /\ "parameters" \in Steps
      BY DEF Releases, Steps
    <2>2. w.pc = "agentgateway" /\ UNCHANGED <<nsp, obj>>
          /\ rel'[Ns]["agentgateway-crds"] = rel[Ns]["agentgateway-crds"]
      BY <1>1, <1>12, <2>1 DEF reconcileControlPlane, converge, SomeReleases
    <2>3. rel' = rel \/ nsp[Ns].st # "none"
      BY <1>5, <1>12 DEF reconcileControlPlane, converge
    <2>4. \A n \in Namespaces : n = Ns => Supported(n)'
      BY <1>4, <2>1, <2>2, <2>3 DEF Supported, Ordered
    <2>5. \/ Go("parameters") \/ Error \/ Wait \/ Stop
          \/ Report([w.status EXCEPT !.phase = "Failed", !.ready = FALSE], FALSE)
      BY <1>12, Zenon DEF reconcileControlPlane, converge
    <2>6. w'.pc \in Quiet
      BY <2>1, <2>5, Ends
    <2> QED
      BY <1>2, <1>3, <1>6, <2>4, <2>6
  <1>13. {"parameters", "gateway", "ratelimit", "policy", "legacy"} \subseteq Objects
    BY DEF Objects
  <1>14. CASE ensureParameters
    <2>1. w.pc = "parameters" /\ UNCHANGED <<nsp, rel>>
          /\ \A o \in Objects \ {"parameters"} : obj'[Ns][o] = obj[Ns][o]
      BY <1>1, <1>14 DEF ensureParameters, Ensure, SomeObjects
    <2>2. \/ Error
          \/ Go("class") /\ obj' = [obj EXCEPT ![Ns]["parameters"] = IF @ = "none" THEN "ours" ELSE @]
      BY <1>14, Zenon DEF ensureParameters, Ensure
    <2>3. \A n \in Namespaces :
             n = Ns /\ obj[n]["parameters"] # "none" => obj'[n]["parameters"] # "none"
      BY <1>1, <1>13, <1>14 DEF ensureParameters, Ensure, SomeObjects
    <2>4. \A n \in Namespaces : n = Ns => Supported(n)'
      BY <1>4, <1>13, <2>1, <2>3 DEF Supported
    <2>5. Ordered' /\ Unwound'
      <3>1. CASE Error
        BY <1>6, <3>1, Ends
      <3>2. CASE Go("class") /\ obj' = [obj EXCEPT ![Ns]["parameters"] = IF @ = "none" THEN "ours" ELSE @]
        <4>1. w'.pc = "class" /\ w'.snap = w.snap
          <5>1. "class" \in Steps
            BY DEF Steps
          <5> QED
            BY <3>2, <5>1, Ends
        <4>2. Ns \in Namespaces => obj'[Ns]["parameters"] # "none"
          BY <1>1, <1>13, <3>2 DEF SomeObjects
        <4> QED
          BY <4>1, <4>2 DEF Ordered, Unwound, Ns, GatewayNamespace
      <3> QED
        BY <2>2, <3>1, <3>2
    <2> QED
      BY <1>2, <1>3, <2>4, <2>5
  <1>15. CASE waitForGatewayClass
    <2>1. w.pc = "class" /\ UNCHANGED cluster /\ (Go("prune") \/ Wait) /\ "prune" \in Steps
      BY <1>15 DEF waitForGatewayClass, Steps
    <2>2. w'.pc \in Quiet \/ (w'.pc = "prune" /\ w'.snap = w.snap)
      BY <2>1, Ends
    <2>3. Ordered' /\ Unwound'
      <3>1. CASE w'.pc = "prune" /\ w'.snap = w.snap
        BY <2>1, <3>1 DEF Ordered, Unwound, Ns, GatewayNamespace, cluster
      <3> QED
        BY <1>6, <2>2, <3>1
    <2>4. DependenciesPresent'
      BY <2>1 DEF DependenciesPresent, cluster
    <2> QED
      BY <2>3, <2>4
  <1>16. CASE ensureGateway /\ w.pc = "prune"
    <2>1. UNCHANGED <<nsp, rel>> /\ (UNCHANGED obj \/ obj' = [obj EXCEPT ![Ns]["legacy"] = "none"])
      BY <1>16, Zenon DEF ensureGateway, pruneLegacyGateway, deleteIfPresent
    <2>2. \A o \in Objects \ {"legacy"} : obj'[Ns][o] = obj[Ns][o]
      BY <1>1, <2>1 DEF SomeObjects
    <2>3. \A n \in Namespaces : n = Ns => Supported(n)'
      BY <1>4, <1>13, <2>1, <2>2 DEF Supported
    <2>4. Go("gateway") \/ Error
      BY <1>16, Zenon DEF ensureGateway, pruneLegacyGateway, deleteIfPresent
    <2>5. w'.pc \in Quiet \/ (w'.pc = "gateway" /\ w'.snap = w.snap)
      <3>1. "gateway" \in Steps
        BY DEF Steps
      <3> QED
        BY <2>4, <3>1, Ends
    <2>6. Ordered' /\ Unwound'
      <3>1. CASE w'.pc = "gateway" /\ w'.snap = w.snap
        BY <1>13, <1>16, <2>1, <2>2, <3>1 DEF Ordered, Unwound, Ns, GatewayNamespace
      <3> QED
        BY <1>6, <2>5, <3>1
    <2> QED
      BY <1>2, <1>3, <2>3, <2>6
  <1>17. CASE ensureGateway /\ w.pc = "gateway"
    <2>1. UNCHANGED <<nsp, rel>> /\ \A o \in Objects \ {"gateway"} : obj'[Ns][o] = obj[Ns][o]
      BY <1>1, <1>17 DEF ensureGateway, Ensure, SomeObjects
    <2>2. \A n \in Namespaces : n = Ns =>
             /\ obj[n]["gateway"] # "none" => obj'[n]["gateway"] = obj[n]["gateway"]
             /\ obj'[n]["gateway"] # obj[n]["gateway"] => nsp[n].st # "none"
      BY <1>1, <1>5, <1>13, <1>17 DEF ensureGateway, Ensure, SomeObjects
    <2>3. \A n \in Namespaces : n = Ns => Supported(n)'
      <3>1. \A n \in Namespaces : n = Ns /\ nsp[n].st # "none" => obj[n]["parameters"] # "none"
        BY <1>17 DEF Ordered
      <3> QED
        BY <1>4, <1>13, <2>1, <2>2, <3>1 DEF Supported
    <2>4. Go("programmed") \/ Error
      BY <1>17, Zenon DEF ensureGateway, Ensure
    <2>5. w'.pc \in Quiet
      <3>1. "programmed" \in Steps
        BY DEF Steps
      <3> QED
        BY <2>4, <3>1, Ends
    <2> QED
      BY <1>2, <1>3, <1>6, <2>3, <2>5
  <1>18. CASE reconcileGatewayReady
    <2>1. UNCHANGED cluster /\ "markReady" \in Steps /\ "ratelimit" \in Steps
          /\ ((obj[Ns]["gateway"] # "none" /\ Go("ratelimit")) \/ Go("markReady") \/ Wait)
      BY <1>18 DEF reconcileGatewayReady, Steps
    <2>2. \/ w'.pc \in Quiet
          \/ w'.pc = "ratelimit" /\ w'.snap = w.snap /\ obj[Ns]["gateway"] # "none"
      BY <2>1, Ends
    <2>3. Ordered' /\ Unwound'
      <3>1. CASE w'.pc = "ratelimit" /\ w'.snap = w.snap /\ obj[Ns]["gateway"] # "none"
        BY <2>1, <3>1 DEF Ordered, Unwound, Ns, GatewayNamespace, cluster
      <3> QED
        BY <1>6, <2>2, <3>1
    <2>4. DependenciesPresent'
      BY <2>1 DEF DependenciesPresent, cluster
    <2> QED
      BY <2>3, <2>4
  <1>19. CASE reconcileRateLimit
    <2>1. w.pc = "ratelimit" /\ UNCHANGED <<nsp, rel>>
          /\ \A o \in Objects \ {"ratelimit"} : obj'[Ns][o] = obj[Ns][o]
      BY <1>1, <1>19 DEF reconcileRateLimit, SomeObjects
    <2>2. \A n \in Namespaces : n = Ns => obj'[n]["ratelimit"] \in {"ours", obj[n]["ratelimit"]}
      BY <1>1, <1>13, <1>19 DEF reconcileRateLimit, SomeObjects
    <2>3. \A n \in Namespaces : n = Ns => Supported(n)'
      BY <1>4, <1>13, <2>1, <2>2 DEF Supported
    <2>4. \/ Go("policy") /\ obj' = [obj EXCEPT ![Ns]["ratelimit"] = "ours"]
          \/ Wait \/ Stop
      BY <1>19, Zenon DEF reconcileRateLimit
    <2>5. Ordered' /\ Unwound'
      <3>1. CASE Wait \/ Stop
        BY <1>6, <3>1, Ends
      <3>2. CASE Go("policy") /\ obj' = [obj EXCEPT ![Ns]["ratelimit"] = "ours"]
        <4>1. w'.pc = "policy" /\ w'.snap = w.snap
          <5>1. "policy" \in Steps
            BY DEF Steps
          <5> QED
            BY <3>2, <5>1, Ends
        <4>2. Ns \in Namespaces => obj'[Ns]["ratelimit"] = "ours"
          BY <1>1, <1>13, <3>2 DEF SomeObjects
        <4> QED
          BY <1>13, <2>1, <4>1, <4>2 DEF Ordered, Unwound, Ns, GatewayNamespace
      <3> QED
        BY <2>4, <3>1, <3>2
    <2> QED
      BY <1>2, <1>3, <2>3, <2>5
  <1>20. CASE ensurePolicy
    <2>1. w.pc = "policy" /\ UNCHANGED <<nsp, rel>>
          /\ \A o \in Objects \ {"policy"} : obj'[Ns][o] = obj[Ns][o]
      <3>1. /\ w.pc = "policy" /\ UNCHANGED <<nsp, rel>>
            /\ \/ UNCHANGED obj
               \/ obj' = [obj EXCEPT ![Ns]["policy"] = IF @ = "none" THEN "ours" ELSE @]
        BY <1>20, Zenon DEF ensurePolicy, Ensure
      <3> QED
        BY <1>1, <3>1 DEF SomeObjects
    <2>2. \A n \in Namespaces : n = Ns /\ obj'[n]["policy"] # obj[n]["policy"] => nsp[n].st # "none"
      BY <1>1, <1>5, <1>13, <1>20 DEF ensurePolicy, Ensure, SomeObjects
    <2>3. \A n \in Namespaces : n = Ns => Supported(n)'
      <3>1. \A n \in Namespaces : n = Ns /\ nsp[n].st # "none" =>
               obj[n]["gateway"] # "none" /\ obj[n]["ratelimit"] # "none"
        BY <2>1 DEF Ordered
      <3> QED
        BY <1>4, <1>13, <2>1, <2>2, <3>1 DEF Supported
    <2>4. Go("markReady") \/ Report([w.status EXCEPT !.phase = "Failed"], TRUE)
      BY <1>20, Zenon DEF ensurePolicy, Ensure
    <2>5. w'.pc \in Quiet
      <3>1. "markReady" \in Steps
        BY DEF Steps
      <3> QED
        BY <2>4, <3>1, Ends
    <2> QED
      BY <1>2, <1>3, <1>6, <2>3, <2>5
  <1>21. CASE reconcileExternal \/ reconcileDelete
    <2>1. UNCHANGED cluster
      BY <1>21 DEF reconcileExternal, reconcileDelete
    <2>2. \/ Drain("agentgateway-ratelimit") \/ Drain("policy")
          \/ Report([w.status EXCEPT !.phase = "Failed", !.ready = FALSE], FALSE)
      BY <1>21, Zenon DEF reconcileExternal, reconcileDelete
    <2>3. w'.pc = "status" \/ (w'.pc = "drain" /\ w'.on \in {"agentgateway-ratelimit", "policy"})
      <3>1. "agentgateway-ratelimit" \in Drained /\ "policy" \in Drained
        BY DEF Drained, Releases, Objects
      <3> QED
        BY <2>2, <3>1, Ends
    <2>4. Ordered' /\ Unwound'
      BY <2>3 DEF Ordered, Unwound
    <2>5. DependenciesPresent'
      BY <2>1 DEF DependenciesPresent, cluster
    <2> QED
      BY <2>4, <2>5
  <1>22. CASE drainConfiguration
    <2>1. w.pc = "drain" /\ w.on \in Objects /\ UNCHANGED <<nsp, rel>>
      BY <1>22 DEF drainConfiguration
    <2>2. CASE Ns = NoNs
      <3>1. Ns \notin Namespaces
        BY <2>2, PlatformConstants
      <3>2. \A n \in Namespaces : n = Ns => Supported(n)'
        BY <3>1
      <3>3. w'.snap.ns \notin Namespaces
        <4>1. Go("release") \/ Error
          BY <1>22, <2>2, Zenon DEF drainConfiguration
        <4>2. "release" \in Steps /\ Idle.snap.ns = NoNs
          BY DEF Steps, Idle, Undeclared
        <4> QED
          BY <3>1, <4>1, <4>2, Ends, PlatformConstants DEF Ns, GatewayNamespace
      <3>4. Ordered' /\ Unwound'
        BY <3>3 DEF Ordered, Unwound, Ns, GatewayNamespace
      <3> QED
        BY <1>2, <1>3, <3>2, <3>4
    <2>3. CASE Ns # NoNs
      <3>1. \/ After(w.on) /\ (w.on = "legacy" \/ obj' = [obj EXCEPT ![Ns][w.on] = "none"])
            \/ Error /\ UNCHANGED obj
        BY <1>22, <2>3, Zenon DEF drainConfiguration, pruneLegacyGateway, deleteIfPresent
      <3>2. UNCHANGED obj \/ obj' = [obj EXCEPT ![Ns][w.on] = "none"]
        BY <1>22, <2>3, Zenon DEF drainConfiguration, pruneLegacyGateway, deleteIfPresent
      <3>3. \A n \in Namespaces : n = Ns =>
               /\ \A o \in Objects \ {w.on} : obj'[n][o] = obj[n][o]
               /\ obj'[n][w.on] \in {"none", obj[n][w.on]}
        BY <1>1, <2>1, <3>2 DEF SomeObjects
      <3>4. \A n \in Namespaces : n = Ns /\ w.on # "ratelimit" => Supported(n)'
        <4> SUFFICES ASSUME NEW n \in Namespaces, n = Ns, w.on # "ratelimit"
                     PROVE  Supported(n)'
          OBVIOUS
        <4>1. Supported(n) /\ (w.on \in {"gateway", "legacy", "parameters"} => obj[n]["policy"] = "none")
              /\ (w.on \in {"legacy", "parameters"} => obj[n]["gateway"] = "none")
          BY <1>4, <2>1 DEF Unwound
        <4> QED
          BY <1>1, <1>13, <2>1, <3>3, <4>1 DEF Supported, Objects
      <3>5. Ordered' /\ Unwound'
        <4>1. CASE Error
          BY <1>6, <4>1, Ends
        <4>2. CASE After(w.on) /\ (w.on = "legacy" \/ obj' = [obj EXCEPT ![Ns][w.on] = "none"])
          <5>1. Ordered'
            BY <1>1, <4>2, AfterEnds, <2>1 DEF Ordered, Objects
          <5>2. w'.snap = w.snap
                /\ (w'.pc = "drain" /\ w'.on = "gateway" => w.on = "policy")
                /\ (w'.pc = "drain" /\ w'.on = "legacy" => w.on = "gateway")
                /\ (w'.pc = "drain" /\ w'.on = "parameters" => w.on = "legacy")
                /\ (w'.pc = "drain" => w'.on # "agentgateway-crds")
            BY <1>1, <2>1, <4>2, AfterEnds DEF Objects
          <5>3. \A n \in Namespaces : n = Ns /\ w.on \in {"policy", "gateway"} => obj'[n][w.on] = "none"
            BY <1>1, <1>13, <4>2 DEF SomeObjects
          <5>4. \A n \in Namespaces : n = Ns /\ w.on \in {"gateway", "legacy"} =>
                   obj'[n]["policy"] = "none" /\ (w.on = "legacy" => obj'[n]["gateway"] = "none")
            BY <1>13, <2>1, <3>3 DEF Unwound
          <5> QED
            BY <5>1, <5>2, <5>3, <5>4 DEF Unwound, Ns, GatewayNamespace
        <4> QED
          BY <3>1, <4>1, <4>2
      <3> QED
        BY <1>2, <1>3, <2>1, <3>4, <3>5 DEF PassOK
    <2> QED
      BY <2>2, <2>3
  <1>23. CASE uninstallRelease
    <2>1. /\ w.pc = "drain" /\ w.on \in Releases /\ UNCHANGED <<nsp, obj>>
          /\ w.snap.ns = Ns /\ Ns \in Namespaces
      BY <1>23 DEF uninstallRelease, PassOK, Ns, GatewayNamespace
    <2>2. \/ After(w.on) /\ rel' = [rel EXCEPT ![Ns][w.on] = "none"]
          \/ /\ Error /\ rel[Ns][w.on] # "none"
             /\ rel' = [rel EXCEPT ![Ns][w.on] = IF @ = "theirs" THEN @ ELSE "uninstalling"]
      BY <1>23, Zenon DEF uninstallRelease
    <2>3. \A r \in Releases \ {w.on} : rel'[Ns][r] = rel[Ns][r]
      BY <1>1, <2>1, <2>2 DEF SomeReleases
    <2>4. \/ rel'[Ns][w.on] = "none"
          \/ rel[Ns][w.on] # "none" /\ rel'[Ns][w.on] \in {rel[Ns][w.on], "uninstalling"}
             /\ (rel'[Ns][w.on] \in Ours => rel[Ns][w.on] \in Ours)
      BY <1>1, <2>1, <2>2 DEF SomeReleases, ReleaseState, Ours
    <2>5. \A n \in Namespaces : n = Ns => Supported(n)'
      <3>1. w.on = "agentgateway-crds" => rel[Ns]["agentgateway"] = "none"
        BY <2>1 DEF Unwound
      <3> QED
        BY <1>4, <2>1, <2>3, <2>4, <3>1 DEF Supported, Releases, Ours
    <2>6. Ordered' /\ Unwound'
      <3>1. CASE Error
        BY <1>6, <3>1, Ends
      <3>2. CASE After(w.on) /\ rel' = [rel EXCEPT ![Ns][w.on] = "none"]
        <4>1. /\ w'.snap = w.snap /\ w'.pc \in {"drain", "programmed"}
              /\ w'.on = "agentgateway-crds" /\ w'.pc = "drain" => w.on = "agentgateway"
              /\ w'.pc = "drain" => w'.on \notin {"gateway", "legacy", "parameters"}
          BY <1>1, <2>1, <3>2, AfterEnds DEF Releases
        <4>2. w.on = "agentgateway" => rel'[Ns]["agentgateway"] = "none"
          BY <1>1, <2>1, <3>2 DEF SomeReleases
        <4> QED
          BY <4>1, <4>2 DEF Ordered, Unwound, Ns, GatewayNamespace
      <3> QED
        BY <2>2, <3>1, <3>2
    <2> QED
      BY <1>2, <1>3, <2>5, <2>6
  <1>24. ensureGateway => w.pc = "prune" \/ w.pc = "gateway"
    BY DEF ensureGateway
  <1> QED
    BY <1>8, <1>9, <1>10, <1>11, <1>12, <1>14, <1>15, <1>16, <1>17, <1>18, <1>19, <1>20, <1>21,
       <1>22, <1>23, <1>24 DEF Worker, Install, Teardown

\* What the proof carries from step to step: where the worker can be, what it may count
\* on of the step before, and that what needs something does not outlive it.
OrderInv ==
    /\ TypeOK /\ SpecOK /\ PassOK /\ Held /\ Empty /\ Owned
    /\ Ordered /\ Unwound /\ DependenciesPresent

\* Where nothing is declared, an agentgateway somebody else installed is in a namespace
\* that exists (Init).
LEMMA InitialOrder == Init => OrderInv
  <1> SUFFICES ASSUME Init
               PROVE  OrderInv
    OBVIOUS
  <1>1. TypeOK
    BY InitialType
  <1>2. spec = Undeclared /\ w = Idle
    BY DEF Init
  <1>3. SpecOK
    BY <1>2 DEF SpecOK, Undeclared
  <1>4. PassOK /\ Held /\ Ordered /\ Unwound
    BY <1>2 DEF PassOK, Held, Ordered, Unwound, BundledSteps, Idle
  <1>5. Empty
    BY PlatformConstants DEF Init, Empty
  <1>6. Owned
    BY DEF Init, Owned
  <1>7. \A n \in Namespaces : rel[n]["agentgateway"] \notin Ours
    BY DEF Init, Releases, Ours
  <1>8. \A n \in Namespaces : obj[n]["gateway"] # "ours" /\ obj[n]["policy"] # "ours"
    BY DEF Init, Objects
  <1> QED
    BY <1>1, <1>3, <1>4, <1>5, <1>6, <1>7, <1>8 DEF OrderInv, DependenciesPresent

\* Every step of the worker and of the cluster keeps it (Next).
LEMMA StepKeepsOrder == OrderInv /\ [Next]_vars => OrderInv'
  <1> SUFFICES ASSUME OrderInv, [Next]_vars
               PROVE  OrderInv'
    OBVIOUS
  <1> USE DEF OrderInv
  <1>1. TypeOK'
    BY StepKeepsType
  <1>2. SpecOK'
    BY StepKeepsSpec
  <1>3. PassOK' /\ Held'
    BY StepKeepsPass
  <1>4. Empty' /\ Owned'
    BY StepKeepsNamespaces
  <1>5. Ordered' /\ Unwound' /\ DependenciesPresent'
    <2>1. CASE Worker
      BY <2>1, WorkerKeepsOrder
    <2>2. CASE Environment
      BY <2>2, EnvironmentKeepsOrder
    <2>3. CASE UNCHANGED vars
      BY <2>3 DEF vars, Ordered, Unwound, DependenciesPresent, Ns, GatewayNamespace
    <2> QED
      BY <2>1, <2>2, <2>3 DEF Next
  <1> QED
    BY <1>1, <1>2, <1>3, <1>4, <1>5

\* Through every install, failure, crash, edit, retry and drain, the control plane does not
\* outlive its CRDs, the Gateway its overlay, or the policy the Gateway and the rate-limit
\* service it names: the order of the install and of the drain (reconcileBundled,
\* drainConfiguration, drainBundled) is enough for it.
THEOREM DependenciesKept == Spec => []DependenciesPresent
  <1>1. OrderInv => DependenciesPresent
    BY DEF OrderInv
  <1> QED
    BY <1>1, InitialOrder, StepKeepsOrder, PTL DEF Spec

--------------------------------------------------------------------------------
(***************************************************************************)
(* Ready.                                                                   *)
(***************************************************************************)

\* No step of an install takes away what a step before it has ensured: a release that is
\* deployed is left deployed, unless its upgrade fails, with which the pass ends; an
\* object that is there is kept, and the Gateway of an earlier build alone is removed
\* (converge, Ensure, pruneLegacyGateway).
LEMMA InstallKeepsBuilt ==
    ASSUME TypeOK, Install
    PROVE  /\ Error \/ \A n \in Namespaces, r \in Releases :
                          rel[n][r] = "ours" => rel'[n][r] = "ours"
           /\ \A n \in Namespaces, o \in Objects \ {"legacy"} :
                 obj[n][o] # "none" => obj'[n][o] # "none"
  <1>1. rel \in SomeReleases /\ obj \in SomeObjects
    BY DEF TypeOK, SomeReleases, SomeObjects
  <1>2. \/ UNCHANGED rel
        \/ \E r \in Releases, v \in ReleaseState :
              rel[Ns][r] \in {"none", "failed"} /\ rel' = [rel EXCEPT ![Ns][r] = v]
        \/ Error
    BY DEF Install, Reconcile, AddFinalizer, ensureNamespace, reconcileGatewayAPI,
       reconcileCRDsChart, reconcileControlPlane, ensureParameters, waitForGatewayClass,
       ensureGateway, reconcileGatewayReady, reconcileRateLimit, ensurePolicy, markReady,
       updateStatus, reconcileExternal, cluster, converge, Releases, ReleaseState
  <1>3. \/ UNCHANGED obj
        \/ \E o \in Objects : obj' = [obj EXCEPT ![Ns][o] = IF @ = "none" THEN "ours" ELSE @]
        \/ obj' = [obj EXCEPT ![Ns]["ratelimit"] = "ours"]
        \/ obj' = [obj EXCEPT ![Ns]["legacy"] = "none"]
    <2>1. "parameters" \in Objects /\ "gateway" \in Objects /\ "policy" \in Objects
      BY DEF Objects
    <2>2. UNCHANGED cluster => UNCHANGED obj
      BY DEF cluster
    <2> QED
      BY <2>1, <2>2, Zenon DEF Install, Reconcile, AddFinalizer, ensureNamespace,
         reconcileGatewayAPI, reconcileCRDsChart, reconcileControlPlane, ensureParameters,
         waitForGatewayClass, ensureGateway, reconcileGatewayReady, reconcileRateLimit,
         ensurePolicy, markReady, updateStatus, reconcileExternal, Ensure, pruneLegacyGateway,
         deleteIfPresent
  <1>4. Error \/ \A n \in Namespaces, r \in Releases : rel[n][r] = "ours" => rel'[n][r] = "ours"
    BY <1>1, <1>2 DEF SomeReleases
  <1>5. \A n \in Namespaces, o \in Objects \ {"legacy"} :
           obj[n][o] # "none" => obj'[n][o] # "none"
    BY <1>1, <1>3 DEF SomeObjects
  <1> QED
    BY <1>4, <1>5

\* What the cluster takes from a platform's namespace, and every edit, wakes it
\* (CollectNamespace and NamespaceRemoved where the platform is the owner, Declare,
\* EditPlatform, DeletePlatform, RenderModels).
LEMMA EnvironmentKeepsReady ==
    ASSUME TypeOK, SpecOK, PassOK, Owned, Fresh, Rested, Environment
    PROVE  Fresh' /\ Rested'
  <1>1. /\ nsp \in SomeNamespaces /\ rel \in SomeReleases /\ obj \in SomeObjects
        /\ queued \in BOOLEAN
    BY DEF TypeOK, SomeReleases, SomeObjects, SomeNamespaces
  <1>2. ASSUME queued' = TRUE
        PROVE  Fresh' /\ Rested'
    BY <1>2 DEF Fresh, Rested
  <1>3. ASSUME UNCHANGED <<spec, status, queued, w, rel, obj>>
        PROVE  Fresh' /\ Rested'
    BY <1>3 DEF Fresh, Rested, Built, Installed, Ns, GatewayNamespace
  <1>4. ASSUME NEW m \in Namespaces, NamespaceRemoved(m)
        PROVE  Fresh' /\ Rested'
    <2>1. CASE m \notin Existing
      <3>1. nsp[m].owner # 0
        BY <1>4, <2>1 DEF Owned, NamespaceRemoved
      <3> QED
        BY <1>1, <1>2, <1>4, <3>1, Zenon DEF NamespaceRemoved
    <2>2. CASE m \in Existing
      <3>1. UNCHANGED <<spec, status, w>> /\ (queued' = TRUE \/ queued' = queued)
        BY <1>1, <1>4 DEF NamespaceRemoved
      <3>2. \A n \in Namespaces \ Existing : rel'[n] = rel[n] /\ obj'[n] = obj[n]
        BY <1>1, <1>4, <2>2 DEF NamespaceRemoved, SomeReleases, SomeObjects
      <3>3. Ns' = Ns
        BY <3>1 DEF Ns, GatewayNamespace
      <3>4. ASSUME queued' = queued, NEW n \in Namespaces \ Existing
            PROVE  (Built(n) => Built(n)') /\ (Installed(n) => Installed(n)')
        BY <3>1, <3>2 DEF Built, Installed
      <3>5. /\ w.pc # "idle" /\ w.snap.provider = "bundled" => w.snap.ns \in Namespaces
            /\ spec.st = "live" /\ spec.provider = "bundled" => spec.ns \in Namespaces
        BY DEF PassOK, SpecOK
      <3>6. CASE queued' = queued
        <4>1. ASSUME ~queued, w.pc # "idle", w.snap.st = "live", w.snap.provider = "bundled",
                     Ns \notin Existing
              PROVE  \A n \in Namespaces : n = Ns => Built(n)'
          <5>1. Built(Ns) /\ Ns \in Namespaces
            BY <3>5, <4>1 DEF Fresh, Ns, GatewayNamespace
          <5> QED
            BY <3>4, <3>6, <4>1, <5>1
        <4>2. Fresh'
          BY <3>1, <3>3, <3>5, <3>6, <4>1 DEF Fresh, Ns, GatewayNamespace
        <4>3. Rested'
          BY <3>1, <3>4, <3>5, <3>6 DEF Rested
        <4> QED
          BY <4>2, <4>3
      <3> QED
        BY <1>2, <3>1, <3>6
    <2> QED
      BY <2>1, <2>2
  <1>5. ASSUME NEW m \in Namespaces, CollectNamespace(m)
        PROVE  Fresh' /\ Rested'
    <2>1. UNCHANGED <<spec, status, w, rel, obj>> /\ (queued' = TRUE \/ queued' = queued)
      BY <1>1, <1>5 DEF CollectNamespace
    <2> QED
      BY <1>2, <1>3, <2>1
  <1>6. ASSUME NEW m \in Namespaces, LegacyBuild(m)
        PROVE  Fresh' /\ Rested'
    <2>1. w.pc = "idle" /\ UNCHANGED <<spec, status, queued, w, rel>>
          /\ obj' = [obj EXCEPT ![m]["legacy"] = "ours"]
      BY <1>6 DEF LegacyBuild
    <2>2. \A n \in Namespaces, o \in Objects \ {"legacy"} : obj'[n][o] = obj[n][o]
      BY <1>1, <2>1 DEF SomeObjects
    <2>3. \A n \in Namespaces : Installed(n) => Installed(n)'
      BY <2>1, <2>2 DEF Installed, Objects
    <2> QED
      BY <2>1, <2>3 DEF Fresh, Rested, SpecOK
  <1>7. CASE Declare \/ EditPlatform \/ DeletePlatform \/ Crash \/ RenderModels
    BY <1>2, <1>7 DEF Declare, EditPlatform, DeletePlatform, Crash, RenderModels
  <1>8. ASSUME NEW g, ComeUp(g) \/ GoDown(g)
        PROVE  Fresh' /\ Rested'
    BY <1>3, <1>8 DEF ComeUp, GoDown, cluster
  <1> QED
    BY <1>4, <1>5, <1>6, <1>7, <1>8 DEF Environment

\* A pass reports Ready only after every step of the install, and what those steps have
\* ensured is there when the status is written, or the platform is queued again
\* (reconcileBundled, markReady, updateStatus).
LEMMA WorkerKeepsReady ==
    ASSUME TypeOK, SpecOK, PassOK, Held, Fresh, Rested, Worker
    PROVE  Fresh' /\ Rested'
  <1>1. /\ rel \in SomeReleases /\ obj \in SomeObjects /\ w \in Passes /\ queued \in BOOLEAN
        /\ spec \in Declared /\ w.snap \in Declared /\ w.status \in Status /\ status \in Status
    BY DEF TypeOK, SomeReleases, SomeObjects, Passes
  <1> DEFINE Bundled == w.snap.st = "live" /\ w.snap.provider = "bundled" /\ Ns \notin Existing
  <1>2. ASSUME queued' = TRUE
        PROVE  Fresh' /\ Rested'
    BY <1>2 DEF Fresh, Rested
  <1>3. CASE Error
    BY <1>2, <1>3, Ends
  <1> SUFFICES ASSUME ~Error
               PROVE  Fresh' /\ Rested'
    BY <1>3
  \* A pass that goes on.
  <1>4. ASSUME UNCHANGED <<spec, queued>>, w.pc # "idle", w'.pc # "idle", w'.snap = w.snap,
               Bundled => \A n \in Namespaces : n = Ns => Built(n)'
        PROVE  Fresh' /\ Rested'
    <2>1. Ns' = Ns
      BY <1>4 DEF Ns, GatewayNamespace
    <2>2. Bundled => Ns \in Namespaces
      BY <1>4 DEF PassOK, Ns, GatewayNamespace
    <2>3. Fresh'
      BY <1>4, <2>1, <2>2 DEF Fresh
    <2> QED
      BY <1>4, <2>3 DEF Rested
  <1>5. ASSUME UNCHANGED <<spec, queued>>, w.pc # "idle", w'.snap = w.snap, w'.pc = "status",
               w'.status.phase # "Ready"
        PROVE  Fresh' /\ Rested'
    <2>1. \A n \in Namespaces : Built(n)'
      BY <1>5 DEF Built
    <2> QED
      BY <1>4, <1>5, <2>1
  <1>6. [w.status EXCEPT !.phase = "Failed", !.ready = FALSE].phase = "Failed"
        /\ [w.status EXCEPT !.phase = "Failed"].phase = "Failed"
    BY <1>1 DEF Status
  <1>7. ASSUME UNCHANGED spec, w.pc # "idle",
               \/ Wait \/ Stop
               \/ Report([w.status EXCEPT !.phase = "Failed"], TRUE)
               \/ Report([w.status EXCEPT !.phase = "Failed", !.ready = FALSE], FALSE)
        PROVE  Fresh' /\ Rested'
    <2>1. /\ queued' = queued /\ w'.pc = "status" /\ w'.snap = w.snap /\ w'.status.phase # "Ready"
      BY <1>6, <1>7, Ends
    <2> QED
      BY <1>5, <1>7, <2>1
  <1>8. ASSUME UNCHANGED <<spec, queued>>, w.pc # "idle", w'.snap = w.snap,
               w'.pc \in {"namespace", "gatewayAPI", "crds", "external"}
        PROVE  Fresh' /\ Rested'
    <2>1. \A n \in Namespaces : Built(n)'
      BY <1>8 DEF Built
    <2> QED
      BY <1>4, <1>8, <2>1
  <1>9. CASE Reconcile
    <2>1. CASE UNCHANGED w
      <3>1. w.pc = "idle" /\ UNCHANGED spec /\ spec.st \in {"none", "gone"}
        BY <1>9, <2>1 DEF Reconcile
      <3> QED
        BY <2>1, <3>1 DEF Fresh, Rested
    <2>2. CASE ~UNCHANGED w
      <3>1. UNCHANGED spec /\ w'.snap = spec
            /\ w'.pc \in {"finalizer", "namespace", "external", "uninstalling"}
        BY <1>9, <2>2 DEF Reconcile
      <3>2. \A n : Built(n)'
        BY <3>1 DEF Built
      <3> QED
        BY <3>1, <3>2 DEF Fresh, Rested
    <2> QED
      BY <2>1, <2>2
  <1>10. CASE AddFinalizer
    <2>1. CASE /\ spec = w.snap
               /\ spec' = [spec EXCEPT !.fin = TRUE]
               /\ w' = [w EXCEPT !.snap = spec',
                          !.pc = IF spec.provider = "external" THEN "external" ELSE "namespace"]
      <3>1. w'.snap = spec' /\ w'.pc \in {"namespace", "external"}
        BY <1>1, <2>1 DEF Passes
      <3>2. \A n : Built(n)'
        BY <3>1 DEF Built
      <3> QED
        BY <3>1, <3>2 DEF Fresh, Rested
    <2> QED
      BY <1>3, <1>10, <2>1, Zenon DEF AddFinalizer
  <1>11. CASE ensureNamespace
    <2>1. w.pc = "namespace" /\ UNCHANGED spec /\ "gatewayAPI" \in Steps
          /\ (Go("gatewayAPI") \/ queued' = TRUE \/ Error)
      BY <1>11 DEF ensureNamespace, Steps
    <2>2. CASE Go("gatewayAPI")
      BY <1>8, <2>1, <2>2, Ends
    <2> QED
      BY <1>2, <1>3, <2>1, <2>2
  <1>12. CASE reconcileGatewayAPI
    <2>1. w.pc = "gatewayAPI" /\ UNCHANGED spec /\ "crds" \in Steps /\ (Go("crds") \/ Wait)
      BY <1>12 DEF reconcileGatewayAPI, Steps
    <2>2. CASE Go("crds")
      BY <1>8, <2>1, <2>2, Ends
    <2> QED
      BY <1>7, <2>1, <2>2
  <1>13. Install => /\ \A n \in Namespaces, r \in Releases : rel[n][r] = "ours" => rel'[n][r] = "ours"
                    /\ \A n \in Namespaces, o \in Objects \ {"legacy"} :
                          obj[n][o] # "none" => obj'[n][o] # "none"
    BY InstallKeepsBuilt
  <1>14. {"agentgateway-crds", "agentgateway"} \subseteq Releases
         /\ {"parameters", "gateway", "ratelimit", "policy"} \subseteq Objects \ {"legacy"}
         /\ {"agentgateway", "parameters", "class", "prune", "gateway", "programmed",
             "ratelimit", "policy", "markReady"} \subseteq Steps
    BY DEF Releases, Objects, Steps
  \* One that goes on to the next step of the install.
  <1>15. ASSUME UNCHANGED spec, w.pc # "idle", NEW pc \in Steps \ {"idle", "status"}, Go(pc),
                ~queued /\ Bundled => \A n \in Namespaces : n = Ns => Built(n)'
         PROVE  Fresh' /\ Rested'
    <2>1. queued' = queued /\ w'.pc = pc /\ w'.snap = w.snap
      BY <1>15, Ends
    <2>2. CASE queued
      BY <1>2, <2>1, <2>2
    <2>3. CASE ~queued
      BY <1>4, <1>15, <2>1, <2>3
    <2> QED
      BY <2>2, <2>3
  <1>16. ~queued /\ Bundled /\ w.pc # "idle" => Built(Ns) /\ Ns \in Namespaces
    BY DEF Fresh, PassOK, Ns, GatewayNamespace
  <1>17. CASE reconcileCRDsChart
    <2>1. w.pc = "crds" /\ UNCHANGED spec
      BY <1>17 DEF reconcileCRDsChart
    <2>2. \/ Error \/ Wait \/ Stop
          \/ Report([w.status EXCEPT !.phase = "Failed", !.ready = FALSE], FALSE)
          \/ /\ Go("agentgateway")
             /\ \/ rel' = [rel EXCEPT ![Ns]["agentgateway-crds"] = "ours"]
                \/ rel[Ns]["agentgateway-crds"] = "ours" /\ rel' = rel
      BY <1>17, Zenon DEF reconcileCRDsChart, converge
    <2>3. CASE /\ Go("agentgateway")
               /\ \/ rel' = [rel EXCEPT ![Ns]["agentgateway-crds"] = "ours"]
                  \/ rel[Ns]["agentgateway-crds"] = "ours" /\ rel' = rel
      <3>1. \A n \in Namespaces : n = Ns => rel'[n]["agentgateway-crds"] = "ours"
        BY <1>1, <1>14, <2>3 DEF SomeReleases
      <3>2. w'.pc = "agentgateway"
        BY <1>14, <2>3, Ends
      <3>3. \A n \in Namespaces : n = Ns => Built(n)'
        BY <3>1, <3>2 DEF Built
      <3> QED
        BY <1>14, <1>15, <2>1, <2>3, <3>3
    <2> QED
      BY <1>3, <1>7, <2>1, <2>2, <2>3
  <1>18. CASE reconcileControlPlane
    <2>1. w.pc = "agentgateway" /\ UNCHANGED spec
      BY <1>18 DEF reconcileControlPlane
    <2>2. \/ Error \/ Wait \/ Stop
          \/ Report([w.status EXCEPT !.phase = "Failed", !.ready = FALSE], FALSE)
          \/ /\ Go("parameters")
             /\ \/ rel' = [rel EXCEPT ![Ns]["agentgateway"] = "ours"]
                \/ rel[Ns]["agentgateway"] = "ours" /\ rel' = rel
      BY <1>18, Zenon DEF reconcileControlPlane, converge
    <2>3. CASE /\ Go("parameters")
               /\ \/ rel' = [rel EXCEPT ![Ns]["agentgateway"] = "ours"]
                  \/ rel[Ns]["agentgateway"] = "ours" /\ rel' = rel
      <3>1. \A n \in Namespaces : n = Ns => rel'[n]["agentgateway"] = "ours"
        BY <1>1, <1>14, <2>3 DEF SomeReleases
      <3>2. w'.pc = "parameters"
        BY <1>14, <2>3, Ends
      <3>3. ~queued /\ Bundled => \A n \in Namespaces : n = Ns => Built(n)'
        BY <1>13, <1>14, <1>16, <1>18, <2>1, <3>1, <3>2 DEF Built, Install
      <3> QED
        BY <1>14, <1>15, <2>1, <2>3, <3>3
    <2> QED
      BY <1>3, <1>7, <2>1, <2>2, <2>3
  <1>19. CASE ensureParameters \/ (ensureGateway /\ w.pc = "gateway") \/ ensurePolicy
    <2>1. /\ Install /\ UNCHANGED spec
          /\ \/ w.pc = "parameters" /\ Ensure("parameters", Go("class"), Error)
             \/ w.pc = "gateway" /\ Ensure("gateway", Go("programmed"), Error)
             \/ w.pc = "policy" /\ Ensure("policy", Go("markReady"),
                                          Report([w.status EXCEPT !.phase = "Failed"], TRUE))
      BY <1>19 DEF ensureParameters, ensureGateway, ensurePolicy, Install
    <2>2. \/ Error \/ Report([w.status EXCEPT !.phase = "Failed"], TRUE)
          \/ \E o \in {"parameters", "gateway", "policy"}, pc \in {"class", "programmed", "markReady"} :
                /\ <<w.pc, o, pc>> \in {<<"parameters", "parameters", "class">>,
                                        <<"gateway", "gateway", "programmed">>,
                                        <<"policy", "policy", "markReady">>}
                /\ Go(pc) /\ obj' = [obj EXCEPT ![Ns][o] = IF @ = "none" THEN "ours" ELSE @]
      BY <2>1 DEF Ensure
    <2>3. ASSUME NEW o \in {"parameters", "gateway", "policy"},
                 NEW pc \in {"class", "programmed", "markReady"},
                 <<w.pc, o, pc>> \in {<<"parameters", "parameters", "class">>,
                                      <<"gateway", "gateway", "programmed">>,
                                      <<"policy", "policy", "markReady">>},
                 Go(pc), obj' = [obj EXCEPT ![Ns][o] = IF @ = "none" THEN "ours" ELSE @]
          PROVE  Fresh' /\ Rested'
      <3>1. \A n \in Namespaces : n = Ns => obj'[n][o] # "none"
        BY <1>1, <1>14, <2>3 DEF SomeObjects, Objects
      <3>2. pc \in Steps \ {"idle", "status"} /\ w'.pc = pc
        BY <1>14, <2>3, Ends
      <3>3. ~queued /\ Bundled => \A n \in Namespaces : n = Ns => Built(n)'
        BY <1>13, <1>14, <1>16, <2>1, <2>3, <3>1, <3>2 DEF Built
      <3>4. w.pc # "idle"
        BY <2>1
      <3> QED
        BY <1>15, <2>1, <2>3, <3>2, <3>3, <3>4
    <2>4. w.pc # "idle"
      BY <2>1
    <2> QED
      BY <1>3, <1>7, <2>1, <2>2, <2>3, <2>4
  <1>20. CASE waitForGatewayClass \/ (ensureGateway /\ w.pc = "prune")
    <2>1. Install /\ UNCHANGED spec
          /\ \/ w.pc = "class" /\ (Go("prune") \/ Wait)
             \/ w.pc = "prune" /\ (Go("gateway") \/ Error)
      BY <1>20, Zenon DEF waitForGatewayClass, ensureGateway, pruneLegacyGateway, deleteIfPresent,
         Install
    <2>2. ASSUME NEW pc \in {"prune", "gateway"}, Go(pc), w.pc \in {"class", "prune"}
          PROVE  Fresh' /\ Rested'
      <3>1. pc \in Steps \ {"idle", "status"} /\ w'.pc = pc
        BY <1>14, <2>2, Ends
      <3>2. ~queued /\ Bundled => \A n \in Namespaces : n = Ns => Built(n)'
        BY <1>13, <1>14, <1>16, <2>1, <2>2, <3>1 DEF Built
      <3> QED
        BY <1>15, <2>1, <2>2, <3>1, <3>2
    <2> QED
      BY <1>3, <1>7, <2>1, <2>2
  <1>21. CASE reconcileGatewayReady
    <2>1. /\ Install /\ UNCHANGED spec /\ w.pc = "programmed"
          /\ \/ w.snap.provider = "external" /\ Go("markReady")
             \/ Go("ratelimit")
             \/ Wait
      BY <1>21 DEF reconcileGatewayReady, Install
    <2>2. CASE w.snap.provider = "external" /\ Go("markReady")
      BY <1>14, <1>15, <2>1, <2>2
    <2>3. CASE Go("ratelimit")
      <3>1. w'.pc = "ratelimit"
        BY <1>14, <2>3, Ends
      <3>2. ~queued /\ Bundled => \A n \in Namespaces : n = Ns => Built(n)'
        BY <1>13, <1>14, <1>16, <2>1, <3>1 DEF Built
      <3> QED
        BY <1>14, <1>15, <2>1, <2>3, <3>2
    <2> QED
      BY <1>7, <2>1, <2>2, <2>3
  <1>22. CASE reconcileRateLimit
    <2>1. /\ Install /\ UNCHANGED spec /\ w.pc = "ratelimit"
          /\ \/ Go("policy") /\ obj' = [obj EXCEPT ![Ns]["ratelimit"] = "ours"]
             \/ Wait \/ Stop
      BY <1>22, Zenon DEF reconcileRateLimit, Install
    <2>2. CASE Go("policy") /\ obj' = [obj EXCEPT ![Ns]["ratelimit"] = "ours"]
      <3>1. \A n \in Namespaces : n = Ns => obj'[n]["ratelimit"] # "none"
        BY <1>1, <1>14, <2>2 DEF SomeObjects
      <3>2. w'.pc = "policy"
        BY <1>14, <2>2, Ends
      <3>3. ~queued /\ Bundled => \A n \in Namespaces : n = Ns => Built(n)'
        BY <1>13, <1>14, <1>16, <2>1, <3>1, <3>2 DEF Built
      <3> QED
        BY <1>14, <1>15, <2>1, <2>2, <3>3
    <2> QED
      BY <1>7, <2>1, <2>2
  <1>23. CASE markReady
    <2>1. /\ Install /\ UNCHANGED spec /\ w.pc = "markReady" /\ queued' = queued
          /\ w'.pc = "status" /\ w'.snap = w.snap
          /\ w'.status = [ready |-> TRUE, ns |-> Ns, phase |-> "Ready"]
      BY <1>23, Ends DEF markReady, Install
    <2>2. CASE queued
      BY <1>2, <2>1, <2>2
    <2>3. CASE ~queued
      <3>1. Bundled => \A n \in Namespaces : n = Ns => Installed(n)'
        BY <1>13, <1>14, <1>16, <2>1, <2>3 DEF Built, Installed
      <3>2. \A n : Installed(n)' => Built(n)'
        <4>1. w'.status.ready = TRUE
          BY <2>1
        <4> QED
          BY <2>1, <4>1 DEF Built
      <3> QED
        BY <1>4, <2>1, <2>3, <3>1, <3>2
    <2> QED
      BY <2>2, <2>3
  <1>24. CASE updateStatus
    <2>1. CASE status' = w.status /\ w' = Idle /\ queued' = (queued \/ w.requeue)
      <3>1. w.pc = "status" /\ UNCHANGED <<spec, rel, obj>> /\ w'.pc = "idle"
        BY <1>24, <2>1 DEF updateStatus, cluster, Idle
      <3>2. Fresh'
        BY <3>1 DEF Fresh
      <3>3. ASSUME ~queued', spec.st = "live", spec.provider = "bundled",
                   w.status.phase = "Ready", spec.ns \notin Existing
            PROVE  w.status.ready /\ w.status.ns = spec.ns /\ Installed(spec.ns)
        <4>1. ~queued
          BY <2>1, <3>3
        <4>2. w.snap = spec /\ w.status.ns = w.snap.ns /\ Built(Ns)
          BY <3>1, <3>3, <4>1 DEF Fresh, PassOK, Ns, GatewayNamespace
        <4> QED
          BY <3>1, <3>3, <4>2 DEF Built, Ns, GatewayNamespace
      <3>4. \A n : Installed(n) => Installed(n)'
        BY <3>1 DEF Installed
      <3> QED
        BY <2>1, <3>1, <3>2, <3>3, <3>4 DEF Rested
    <2> QED
      BY <1>3, <1>24, <2>1, Zenon DEF updateStatus
  \* A step of a drain, of a platform that is going or is external.
  <1>25. ASSUME UNCHANGED spec, w.pc # "idle", w.snap.st = "deleting" \/ w.snap.provider = "external",
                UNCHANGED queued, w'.snap = w.snap, w'.pc # "idle"
         PROVE  Fresh' /\ Rested'
    BY <1>4, <1>25
  <1>26. CASE reconcileExternal \/ reconcileDelete
    <2>1. /\ UNCHANGED spec /\ w.pc \in {"external", "uninstalling"}
          /\ \/ Drain("agentgateway-ratelimit") \/ Drain("policy")
             \/ Report([w.status EXCEPT !.phase = "Failed", !.ready = FALSE], FALSE)
      BY <1>26 DEF reconcileExternal, reconcileDelete
    <2>2. w.snap.st = "deleting" \/ w.snap.provider = "external"
      BY <2>1 DEF PassOK
    <2>3. {"agentgateway-ratelimit", "policy"} \subseteq Drained
      BY DEF Drained, Releases, Objects
    <2>4. w'.pc \in {"drain", "status"} /\ w'.snap = w.snap /\ queued' = queued
      BY <2>1, <2>3, Ends
    <2> QED
      BY <1>25, <2>1, <2>2, <2>4
  <1>27. CASE drainConfiguration \/ uninstallRelease \/ drainNamespace
    <2>1. UNCHANGED spec /\ w.pc = "drain"
      BY <1>27 DEF drainConfiguration, uninstallRelease, drainNamespace
    <2>2. w.snap.st = "deleting" \/ w.snap.provider = "external"
      BY <1>1, <2>1 DEF PassOK, Passes, Drained, Declared
    <2>3. w.on \in Drained /\ "release" \in Steps
      BY <1>1 DEF Passes, Steps
    <2>4. \/ Error \/ After(w.on) \/ Go("release")
          \/ w' = [w EXCEPT !.pc = "release"] /\ queued' \in {TRUE, queued}
      <3>1. CASE drainNamespace
        <4>1. \/ Error
              \/ w' = [w EXCEPT !.pc = "release"] /\ queued' = (queued \/ nsp[Ns].owner # 0)
          BY <3>1, Zenon DEF drainNamespace
        <4> QED
          BY <1>1, <4>1
      <3>2. CASE drainConfiguration \/ uninstallRelease
        BY <3>2, Zenon DEF drainConfiguration, uninstallRelease, pruneLegacyGateway, deleteIfPresent
      <3> QED
        BY <1>27, <3>1, <3>2
    <2>5. CASE After(w.on) \/ Go("release")
      <3>1. w'.pc # "idle" /\ w'.snap = w.snap /\ queued' = queued
        BY <2>3, <2>5, AfterEnds, Ends
      <3> QED
        BY <1>25, <2>1, <2>2, <3>1
    <2>6. CASE w' = [w EXCEPT !.pc = "release"] /\ queued' \in {TRUE, queued}
      <3>1. w'.pc # "idle" /\ w'.snap = w.snap
        BY <1>1, <2>6 DEF Passes
      <3> QED
        BY <1>2, <1>25, <2>1, <2>2, <2>6, <3>1
    <2> QED
      BY <1>3, <2>4, <2>5, <2>6
  <1>28. CASE releaseFinalizer
    <2>1. CASE spec' = [spec EXCEPT !.st = "gone", !.fin = FALSE] /\ w' = Idle
      <3>1. spec'.st = "gone" /\ w'.pc = "idle"
        BY <1>1, <2>1 DEF Declared, Idle
      <3> QED
        BY <3>1 DEF Fresh, Rested
    <2>2. CASE w' = Idle /\ UNCHANGED spec
      <3>1. spec'.st = "deleting" /\ w'.pc = "idle"
        BY <1>28, <2>2 DEF releaseFinalizer, PassOK, Held, Idle
      <3> QED
        BY <3>1 DEF Fresh, Rested
    <2> QED
      BY <1>3, <1>28, <2>1, <2>2, Zenon DEF releaseFinalizer
  <1>29. ensureGateway => w.pc = "prune" \/ w.pc = "gateway"
    BY DEF ensureGateway
  <1> QED
    BY <1>9, <1>10, <1>11, <1>12, <1>17, <1>18, <1>19, <1>20, <1>21, <1>22, <1>23, <1>24, <1>26,
       <1>27, <1>28, <1>29 DEF Worker, Install, Teardown

\* What the proof carries: a pass nothing has queued anew is over the platform as it is
\* and finds what it has ensured, and so does a platform that rests.
ReadyInv ==
    /\ TypeOK /\ SpecOK /\ PassOK /\ Held /\ Empty /\ Owned
    /\ Fresh /\ Rested

\* A platform in phase Ready that nothing is left to be done about has everything it
\* installs in the namespace it publishes, through every edit, outage, crash, deletion and
\* stale pass: whatever takes a part of it away also queues it, and the status of a pass is
\* Ready only if every step before was (reconcileBundled, markReady, updateStatus).
THEOREM ReadyInstalled == Spec => []ReadyIsInstalled
  <1>1. Init => ReadyInv
    <2>1. Init => OrderInv
      BY InitialOrder
    <2>2. Init => Fresh /\ Rested
      BY DEF Init, Fresh, Rested, Idle, Undeclared
    <2> QED
      BY <2>1, <2>2 DEF OrderInv, ReadyInv
  <1>2. ReadyInv /\ [Next]_vars => ReadyInv'
    <2> SUFFICES ASSUME ReadyInv, [Next]_vars
                 PROVE  ReadyInv'
      OBVIOUS
    <2> USE DEF ReadyInv
    <2>1. TypeOK' /\ SpecOK'
      BY StepKeepsType, StepKeepsSpec
    <2>2. PassOK' /\ Held' /\ Empty' /\ Owned'
      BY StepKeepsPass, StepKeepsNamespaces
    <2>3. Fresh' /\ Rested'
      <3>1. CASE Worker
        BY <3>1, WorkerKeepsReady
      <3>2. CASE Environment
        BY <3>2, EnvironmentKeepsReady
      <3>3. CASE UNCHANGED vars
        <4>1. UNCHANGED <<spec, status, rel, obj, queued, w>>
          BY <3>3 DEF vars
        <4> QED
          BY <4>1 DEF Fresh, Rested, Built, Installed, Ns, GatewayNamespace
      <3> QED
        BY <3>1, <3>2, <3>3 DEF Next
    <2> QED
      BY <2>1, <2>2, <2>3
  <1>3. ReadyInv => ReadyIsInstalled
    BY DEF ReadyInv, Rested, Installed, ReadyIsInstalled, GatewayNamespace
  <1> QED
    BY <1>1, <1>2, <1>3, PTL DEF Spec

--------------------------------------------------------------------------------
(***************************************************************************)
(* Gone.                                                                    *)
(***************************************************************************)

\* A step that brings nothing of this operator's into a namespace, nor takes away that the
\* namespace is on its way out while something is in it.
NothingMade(n) ==
    /\ \A r \in Releases : rel'[n][r] \in Ours => rel[n][r] \in Ours
    /\ \A o \in Objects : obj'[n][o] = "ours" => obj[n][o] = "ours"
    /\ nsp[n].st = "terminating" => nsp'[n].st = "terminating"

\* Such a step leaves clean what was.
LEMMA CleanStays ==
    ASSUME NEW n \in Namespaces, NothingMade(n)
    PROVE  /\ Clean(n) => Clean(n)'
           /\ CleanOfReleases(n) => CleanOfReleases(n)'
           /\ \A os \in SUBSET Objects : CleanOf(n, os) => CleanOf(n, os)'
  BY DEF NothingMade, Clean, CleanOfReleases, CleanOf

\* The worker makes something only in its own namespace, and there only in a step of a
\* bundled install (ensureNamespace to ensurePolicy); a removal that fails makes no release
\* of somebody else's this operator's (uninstallRelease).
LEMMA MadeByInstall ==
    ASSUME TypeOK, PassOK, Worker, NEW n \in Namespaces, n # Ns \/ w.pc \notin BundledSteps
    PROVE  NothingMade(n)
  <1>1. nsp \in SomeNamespaces /\ rel \in SomeReleases /\ obj \in SomeObjects /\ w.on \in Drained
    BY DEF TypeOK, SomeReleases, SomeObjects, SomeNamespaces
  <1>2. CASE n # Ns
    <2>1. ObjectStep /\ ReleaseWrite /\ NamespaceWrite
      BY WorkerWrites
    <2>2. rel'[n] = rel[n]
      BY <1>1, <1>2, <2>1 DEF ReleaseWrite, SomeReleases
    <2>3. nsp'[n] = nsp[n]
      BY <1>1, <1>2, <2>1 DEF NamespaceWrite, SomeNamespaces
    <2>4. \A o \in Objects : obj'[n][o] \in {"none", obj[n][o]}
      BY <1>1, <1>2, <2>1 DEF ObjectStep, SomeObjects
    <2> QED
      BY <2>2, <2>3, <2>4 DEF NothingMade
  <1>3. CASE w.pc \notin BundledSteps
    <2>1. \/ UNCHANGED cluster
          \/ drainConfiguration \/ uninstallRelease \/ drainNamespace
      BY <1>3 DEF Worker, Install, Teardown, Reconcile, AddFinalizer, ensureNamespace,
         reconcileGatewayAPI, reconcileCRDsChart, reconcileControlPlane, ensureParameters,
         waitForGatewayClass, ensureGateway, reconcileGatewayReady, reconcileRateLimit,
         ensurePolicy, markReady, updateStatus, reconcileExternal, reconcileDelete,
         releaseFinalizer, BundledSteps
    <2>2. CASE UNCHANGED cluster
      BY <2>2 DEF cluster, NothingMade
    <2>3. CASE drainConfiguration
      <3>1. \/ UNCHANGED obj
            \/ \E o \in Objects : obj' = [obj EXCEPT ![Ns][o] = "none"]
            \/ obj' = [m \in Namespaces |-> [obj[m] EXCEPT !["models"] = "none"]]
        <4>1. w.on \in Objects /\ "legacy" \in Objects
          BY <2>3 DEF drainConfiguration, Objects
        <4> QED
          BY <2>3, <4>1, Zenon DEF drainConfiguration, pruneLegacyGateway, deleteIfPresent
      <3>2. \A o \in Objects : obj'[n][o] \in {"none", obj[n][o]}
        BY <1>1, <3>1 DEF SomeObjects
      <3>3. UNCHANGED <<nsp, rel>>
        BY <2>3 DEF drainConfiguration
      <3> QED
        BY <3>2, <3>3 DEF NothingMade
    <2>4. CASE uninstallRelease
      <3>1. /\ w.on \in Releases /\ UNCHANGED <<nsp, obj>>
            /\ \/ rel' = [rel EXCEPT ![Ns][w.on] = "none"]
               \/ /\ rel[Ns][w.on] # "none"
                  /\ rel' = [rel EXCEPT ![Ns][w.on] = IF @ = "theirs" THEN @ ELSE "uninstalling"]
        BY <2>4 DEF uninstallRelease
      <3>2. \A r \in Releases : rel'[n][r] \in Ours => rel[n][r] \in Ours
        BY <1>1, <3>1 DEF SomeReleases, ReleaseState, Ours
      <3> QED
        BY <3>1, <3>2 DEF NothingMade
    <2>5. CASE drainNamespace
      <3>1. UNCHANGED <<rel, obj>>
            /\ \/ nsp' = [nsp EXCEPT ![Ns].st = IF @ = "active" THEN "terminating" ELSE @]
               \/ UNCHANGED nsp
        BY <2>5 DEF drainNamespace
      <3>2. nsp[n].st = "terminating" => nsp'[n].st = "terminating"
        BY <1>1, <3>1 DEF SomeNamespaces
      <3> QED
        BY <3>1, <3>2 DEF NothingMade
    <2> QED
      BY <2>1, <2>2, <2>3, <2>4, <2>5
  <1> QED
    BY <1>2, <1>3

\* A pass is over what it read to its end: it reads the platform once (Reconcile), and
\* again after its own Update (AddFinalizer); a drain is entered from its two beginnings
\* alone, and the finalizer is removed only after one.
LEMMA PassStays ==
    ASSUME TypeOK, PassOK, Worker, ~Reconcile, ~AddFinalizer, ~updateStatus, ~releaseFinalizer
    PROVE  /\ UNCHANGED spec /\ w.pc \notin {"idle", "finalizer", "status", "release"}
           /\ reconcileDelete \/ (UNCHANGED status /\ w.pc # "uninstalling")
           /\ \/ w'.pc = "idle"
              \/ /\ w'.snap = w.snap
                 /\ w'.pc = "drain" => w.pc \in {"drain", "uninstalling", "external"}
                 /\ w'.pc = "release" => w.pc = "drain"
  <1>1. w \in Passes /\ w.on \in Drained
    BY DEF TypeOK, Passes
  <1>2. UNCHANGED spec /\ w.pc \notin {"idle", "finalizer", "status", "release"}
        /\ (reconcileDelete \/ (UNCHANGED status /\ w.pc # "uninstalling"))
    BY DEF Worker, Install, Teardown, ensureNamespace, reconcileGatewayAPI, reconcileCRDsChart,
       reconcileControlPlane, ensureParameters, waitForGatewayClass, ensureGateway,
       reconcileGatewayReady, reconcileRateLimit, ensurePolicy, markReady, reconcileExternal,
       reconcileDelete, drainConfiguration, uninstallRelease, drainNamespace
  <1>3. CASE ensureNamespace \/ reconcileGatewayAPI \/ reconcileCRDsChart \/ reconcileControlPlane
             \/ ensureParameters \/ waitForGatewayClass \/ ensureGateway \/ reconcileGatewayReady
             \/ reconcileRateLimit \/ ensurePolicy \/ markReady
    <2>1. \/ Go("gatewayAPI") \/ Go("crds") \/ Go("agentgateway") \/ Go("parameters")
          \/ Go("class") \/ Go("prune") \/ Go("gateway") \/ Go("programmed") \/ Go("ratelimit")
          \/ Go("policy") \/ Go("markReady")
          \/ Wait \/ Stop \/ Error
          \/ w' = [w EXCEPT !.pc = "gatewayAPI"]
          \/ \E st, rq : Report(st, rq)
      BY <1>3, Zenon DEF ensureNamespace, reconcileGatewayAPI, reconcileCRDsChart,
         reconcileControlPlane, ensureParameters, waitForGatewayClass, ensureGateway,
         reconcileGatewayReady, reconcileRateLimit, ensurePolicy, markReady, converge, Ensure,
         pruneLegacyGateway, deleteIfPresent
    <2>2. {"gatewayAPI", "crds", "agentgateway", "parameters", "class", "prune", "gateway",
           "programmed", "ratelimit", "policy", "markReady"} \subseteq Steps \ {"drain", "release"}
      BY DEF Steps
    <2>3. CASE \E pc \in Steps \ {"drain", "release"} : Go(pc)
      BY <1>2, <2>3, Ends
    <2>4. CASE Wait \/ Stop \/ Error \/ \E st, rq : Report(st, rq)
      <3>1. w'.pc = "idle" \/ (w'.snap = w.snap /\ w'.pc = "status")
        BY <2>4, Ends
      <3> QED
        BY <1>2, <3>1
    <2>5. CASE w' = [w EXCEPT !.pc = "gatewayAPI"]
      BY <1>1, <1>2, <2>5 DEF Passes
    <2> QED
      BY <2>1, <2>2, <2>3, <2>4, <2>5
  <1>4. CASE reconcileExternal \/ reconcileDelete
    <2>1. w.pc \in {"external", "uninstalling"}
          /\ (Drain("agentgateway-ratelimit") \/ Drain("policy") \/ \E st, rq : Report(st, rq))
      BY <1>4 DEF reconcileExternal, reconcileDelete
    <2>2. "agentgateway-ratelimit" \in Drained /\ "policy" \in Drained
      BY DEF Drained, Releases, Objects
    <2>3. w'.snap = w.snap /\ w'.pc \in {"drain", "status"}
      BY <2>1, <2>2, Ends
    <2> QED
      BY <1>2, <2>1, <2>3
  <1>5. CASE drainConfiguration \/ uninstallRelease \/ drainNamespace
    <2>1. w.pc = "drain" /\ "release" \in Steps
      BY <1>5 DEF drainConfiguration, uninstallRelease, drainNamespace, Steps
    <2>2. Error \/ After(w.on) \/ Go("release") \/ w' = [w EXCEPT !.pc = "release"]
      BY <1>5, Zenon DEF drainConfiguration, uninstallRelease, drainNamespace, pruneLegacyGateway,
         deleteIfPresent
    <2>3. w'.pc = "idle" \/ w'.snap = w.snap
      <3>1. w' = [w EXCEPT !.pc = "release"] => w'.snap = w.snap
        BY <1>1 DEF Passes
      <3> QED
        BY <1>1, <2>1, <2>2, <3>1, AfterEnds, Ends
    <2> QED
      BY <1>2, <2>1, <2>3
  <1> QED
    BY <1>3, <1>4, <1>5 DEF Worker, Install, Teardown

\* Clean is said of what is there, and of a namespace that is not nothing can be.
LEMMA GoneIsClean ==
    ASSUME Empty, NEW n \in Namespaces, nsp[n].st \in {"none", "terminating"}
    PROVE  Clean(n)
  <1>1. CASE nsp[n].st = "terminating"
    BY <1>1 DEF Clean, CleanOfReleases, CleanOf
  <1>2. CASE nsp[n].st = "none"
    BY <1>2 DEF Empty, Clean, CleanOfReleases, CleanOf, Ours
  <1> QED
    BY <1>1, <1>2

\* The last step of a drain leaves nothing: the namespace goes with what is in it
\* (drainNamespace), or the models of an external platform were all there was
\* (drainConfiguration).
LEMMA DrainEmpties ==
    ASSUME TypeOK, PassOK, Held, Empty, Unmoved, CleanExternal, Worker,
           w.pc = "drain", w'.pc = "release"
    PROVE  Emptied'
  <1>1. /\ nsp \in SomeNamespaces /\ rel \in SomeReleases /\ obj \in SomeObjects
        /\ w \in Passes /\ w.on \in Drained /\ spec.fin
        /\ spec.ns = Ns /\ spec.provider = w.snap.provider /\ w.snap.provider \in {"bundled", "external"}
    BY DEF TypeOK, SomeReleases, SomeObjects, SomeNamespaces, Passes, Declared, Held, Unmoved, Ns,
       GatewayNamespace
  <1>2. drainConfiguration \/ uninstallRelease \/ drainNamespace
    BY DEF Worker, Install, Teardown, Reconcile, AddFinalizer, ensureNamespace,
       reconcileGatewayAPI, reconcileCRDsChart, reconcileControlPlane, ensureParameters,
       waitForGatewayClass, ensureGateway, reconcileGatewayReady, reconcileRateLimit,
       ensurePolicy, markReady, updateStatus, reconcileExternal, reconcileDelete,
       releaseFinalizer
  <1>3. UNCHANGED spec
    BY <1>2 DEF drainConfiguration, uninstallRelease, drainNamespace
  <1>4. ~Error
    BY Ends
  <1>5. CASE drainNamespace
    <2>1. /\ w.on = "namespace" /\ UNCHANGED <<rel, obj>>
          /\ nsp' = [nsp EXCEPT ![Ns].st = IF @ = "active" THEN "terminating" ELSE @]
      BY <1>4, <1>5 DEF drainNamespace
    <2>2. ASSUME NEW n \in Namespaces, n = Ns
          PROVE  Clean(n)' /\ nsp'[n].st # "active"
      <3>1. nsp'[n].st \in {"none", "terminating"} /\ (nsp'[n].st = "none" => nsp[n].st = "none")
        BY <1>1, <2>1, <2>2 DEF SomeNamespaces
      <3>2. nsp[n].st = "none" => Clean(n)'
        BY <2>1 DEF Empty, Clean, CleanOfReleases, CleanOf, Ours
      <3>3. nsp'[n].st = "terminating" => Clean(n)'
        BY DEF Clean, CleanOfReleases, CleanOf
      <3> QED
        BY <3>1, <3>2, <3>3
    <2>3. \A n \in Namespaces : n = Ns => Clean(n)' /\ nsp'[n].st # "active"
      BY <2>2
    <2> QED
      BY <1>1, <1>3, <2>3 DEF Emptied
  <1>6. CASE drainConfiguration
    <2>1. CASE Ns = NoNs
      BY <1>1, <1>3, <2>1, PlatformConstants DEF Emptied
    <2>2. CASE Ns # NoNs
      <3>1. After(w.on) /\ w.on \in Objects /\ UNCHANGED <<nsp, rel>>
            /\ (w.on = "legacy" \/ obj' = [obj EXCEPT ![Ns][w.on] = "none"])
        BY <1>4, <1>6, <2>2, Zenon DEF drainConfiguration, pruneLegacyGateway, deleteIfPresent
      <3>2. w.on # "ratelimit"
        BY DEF PassOK
      <3>3. w.on = "models" /\ spec.provider = "external"
            /\ obj' = [obj EXCEPT ![Ns]["models"] = "none"]
        BY <1>1, <3>1, <3>2, AfterEnds DEF Objects
      <3>4. ASSUME NEW n \in Namespaces, n = Ns
            PROVE  Clean(n)'
        <4>1. CleanOfReleases(n) /\ CleanOf(n, Objects \ {"models"})
          BY <1>1, <3>3, <3>4 DEF CleanExternal
        <4>2. \A o \in Objects : obj'[n][o] = IF o = "models" THEN "none" ELSE obj[n][o]
          BY <1>1, <3>3, <3>4 DEF SomeObjects
        <4> QED
          BY <3>1, <4>1, <4>2 DEF Clean, CleanOfReleases, CleanOf
      <3>5. \A n \in Namespaces : n = Ns => Clean(n)'
        BY <3>4
      <3> QED
        BY <1>1, <1>3, <3>3, <3>5 DEF Emptied
    <2> QED
      BY <2>1, <2>2
  <1>7. CASE uninstallRelease
    <2>1. w.on \in Releases /\ After(w.on)
      BY <1>4, <1>7, Zenon DEF uninstallRelease
    <2> QED
      BY <1>1, <2>1, AfterEnds DEF Releases
  <1> QED
    BY <1>2, <1>5, <1>6, <1>7

\* A platform nobody edits is drained where it was installed, by a drain during which no
\* model is rendered: Uninstalling has been recorded by then (reconcileDelete).
LEMMA WorkerKeepsUnedited ==
    ASSUME "status" \notin Faults, TypeOK, SpecOK, PassOK, Held, Empty, Unedited, Worker
    PROVE  Unedited'
  <1>1. spec \in Declared /\ status \in Status /\ w \in Passes /\ w.snap \in Declared
        /\ w.status \in Status
    BY DEF TypeOK, Passes
  <1>2. used'.edits = used.edits
    <2>1. UNCHANGED used \/ \E kind : Mishap(kind)
      BY Zenon DEF Worker, Install, Teardown, Reconcile, AddFinalizer, ensureNamespace,
         reconcileGatewayAPI, reconcileCRDsChart, reconcileControlPlane, ensureParameters,
         waitForGatewayClass, ensureGateway, reconcileGatewayReady, reconcileRateLimit,
         ensurePolicy, markReady, updateStatus, reconcileExternal, reconcileDelete,
         drainConfiguration, uninstallRelease, drainNamespace, releaseFinalizer, converge, Ensure,
         pruneLegacyGateway, deleteIfPresent
    <2> QED
      BY <2>1, MishapType
  <1> SUFFICES ASSUME used'.edits = 0
               PROVE  (Unmoved /\ Published /\ CleanOutside /\ CleanExternal /\ Unready /\ Emptied)'
    BY DEF Unedited
  <1>3. Unmoved /\ Published /\ CleanOutside /\ CleanExternal /\ Unready /\ Emptied
    BY <1>2 DEF Unedited
  <1>4. ASSUME UNCHANGED cluster
        PROVE  \A n \in Namespaces : /\ Clean(n) => Clean(n)'
                                     /\ CleanOfReleases(n) => CleanOfReleases(n)'
                                     /\ \A os \in SUBSET Objects : CleanOf(n, os) => CleanOf(n, os)'
    BY <1>4 DEF cluster, Clean, CleanOfReleases, CleanOf
  <1>5. \A n \in Namespaces : Clean(n) =>
           CleanOfReleases(n) /\ CleanOf(n, Objects \ {"models"})
    BY DEF Clean, CleanOf
  <1>6. CASE Reconcile
    <2>1. UNCHANGED cluster /\ UNCHANGED <<spec, status>>
          /\ (w' = w \/ (w'.snap = spec /\ w'.pc \notin {"drain", "release"}))
      BY <1>6 DEF Reconcile
    <2>2. Unmoved' /\ Published' /\ Unready'
      BY <1>3, <2>1 DEF Unmoved, Published, Unready
    <2>3. CleanOutside' /\ CleanExternal'
      BY <1>3, <1>4, <2>1 DEF CleanOutside, CleanExternal
    <2>4. Emptied'
      BY <1>3, <1>4, <2>1 DEF Emptied, cluster
    <2> QED
      BY <2>2, <2>3, <2>4
  <1>7. CASE AddFinalizer
    <2>1. UNCHANGED cluster /\ UNCHANGED status /\ w.pc = "finalizer"
      BY <1>7 DEF AddFinalizer
    <2>2. CASE Error /\ UNCHANGED spec
      <3>1. w'.pc = "idle"
        BY <2>2, Ends
      <3> QED
        BY <1>3, <1>4, <2>1, <2>2, <3>1
           DEF Unmoved, Published, CleanOutside, CleanExternal, Unready, Emptied
    <2>3. CASE /\ spec = w.snap
               /\ spec' = [spec EXCEPT !.fin = TRUE]
               /\ w' = [w EXCEPT !.snap = spec',
                          !.pc = IF spec.provider = "external" THEN "external" ELSE "namespace"]
      <3>1. /\ w'.snap = spec' /\ w'.pc \in {"external", "namespace"}
            /\ spec'.fin = TRUE /\ spec'.ns = spec.ns /\ spec'.provider = spec.provider
            /\ spec'.st = spec.st
        BY <1>1, <2>3 DEF Passes, Declared
      <3>2. Unmoved' /\ Published' /\ Unready' /\ Emptied'
        BY <1>3, <2>1, <3>1 DEF Unmoved, Published, Unready, Emptied
      <3>3. CleanOutside'
        BY <1>3, <1>4, <2>1, <3>1 DEF CleanOutside
      <3>4. spec.ns \in Namespaces /\ spec.provider = "external" =>
               CleanOfReleases(spec.ns) /\ CleanOf(spec.ns, Objects \ {"models"})
        BY <1>3, <1>5 DEF CleanOutside, CleanExternal
      <3>5. CleanExternal'
        BY <1>4, <2>1, <3>1, <3>4 DEF CleanExternal
      <3> QED
        BY <3>2, <3>3, <3>5
    <2> QED
      BY <1>7, <2>2, <2>3, Zenon DEF AddFinalizer
  <1>8. CASE updateStatus
    <2>1. /\ w.pc = "status" /\ UNCHANGED cluster /\ UNCHANGED spec /\ w'.pc = "idle"
          /\ status' = w.status
      BY <1>8 DEF updateStatus, Mishap, Idle
    <2>2. spec.fin /\ w.status.ns = spec.ns
      BY <1>3, <2>1 DEF Held, PassOK, Unmoved
    <2>3. Unmoved' /\ Published' /\ Unready' /\ Emptied'
      BY <2>1, <2>2 DEF Unmoved, Published, Unready, Emptied
    <2>4. CleanOutside' /\ CleanExternal'
      BY <1>3, <1>4, <2>1 DEF CleanOutside, CleanExternal
    <2> QED
      BY <2>3, <2>4
  <1>9. CASE releaseFinalizer
    <2>1. UNCHANGED cluster /\ UNCHANGED status /\ w.pc = "release" /\ w'.pc = "idle"
      <3>1. UNCHANGED cluster /\ UNCHANGED status /\ w.pc = "release"
        BY <1>9 DEF releaseFinalizer
      <3>2. w' = Idle
        BY <1>9, Zenon DEF releaseFinalizer, Error
      <3> QED
        BY <3>1, <3>2 DEF Idle
    <2>2. CASE UNCHANGED spec
      BY <1>3, <1>4, <2>1, <2>2
         DEF Unmoved, Published, CleanOutside, CleanExternal, Unready, Emptied
    <2>3. CASE spec' = [spec EXCEPT !.st = "gone", !.fin = FALSE]
      <3>1. spec'.st = "gone" /\ spec'.fin = FALSE /\ spec'.ns = spec.ns
        BY <1>1, <2>3 DEF Declared
      <3>2. \A n \in Namespaces : Clean(n)
        BY <1>3, <2>1 DEF CleanOutside, Emptied
      <3> QED
        BY <1>4, <2>1, <3>1, <3>2
           DEF Unmoved, Published, CleanOutside, CleanExternal, Unready, Emptied
    <2> QED
      BY <1>9, <2>2, <2>3 DEF releaseFinalizer
  <1>10. CASE ~Reconcile /\ ~AddFinalizer /\ ~updateStatus /\ ~releaseFinalizer
    <2>1. /\ UNCHANGED spec /\ w.pc \notin {"idle", "finalizer", "status", "release"}
          /\ reconcileDelete \/ (UNCHANGED status /\ w.pc # "uninstalling")
          /\ \/ w'.pc = "idle"
             \/ /\ w'.snap = w.snap
                /\ w'.pc = "drain" => w.pc \in {"drain", "uninstalling", "external"}
                /\ w'.pc = "release" => w.pc = "drain"
      BY <1>10, PassStays
    <2>2. spec.fin /\ spec.ns = Ns /\ spec.provider = w.snap.provider
      BY <1>3, <2>1 DEF Held, Unmoved, Ns, GatewayNamespace
    <2>3. UNCHANGED status \/ (status'.ready = FALSE /\ status'.ns = w.status.ns)
      BY <1>1, <2>1 DEF reconcileDelete, Status
    <2>4. reconcileDelete => status'.ready = FALSE
      BY <1>1 DEF reconcileDelete, Mishap, Status
    <2>5. Unmoved'
      BY <2>1, <2>2 DEF Unmoved, Ns, GatewayNamespace
    <2>6. Published'
      BY <1>3, <2>1, <2>3 DEF Published
    <2>7. Unready'
      <3>1. w.pc = "uninstalling" => status'.ready = FALSE
        BY <2>1, <2>4
      <3>2. w.pc = "external" => w.snap.st # "deleting"
        BY DEF PassOK
      <3>3. w.pc = "drain" /\ w.snap.st = "deleting" => ~status'.ready
        BY <1>3, <2>3 DEF Unready
      <3> QED
        BY <2>1, <3>1, <3>2, <3>3 DEF Unready
    <2>8. CleanOutside'
      <3>1. ASSUME NEW n \in Namespaces, n # spec.ns
            PROVE  Clean(n)'
        <4>1. NothingMade(n)
          BY <2>2, <3>1, MadeByInstall
        <4>2. Clean(n)
          BY <1>3, <3>1 DEF CleanOutside
        <4> QED
          BY <4>1, <4>2, CleanStays
      <3> QED
        BY <2>1, <2>2, <3>1 DEF CleanOutside
    <2>9. CleanExternal'
      <3>1. ASSUME spec.ns \in Namespaces, spec.provider = "external"
            PROVE  \A n \in Namespaces : n = spec.ns =>
                      CleanOfReleases(n)' /\ CleanOf(n, Objects \ {"models"})'
        <4>1. w.pc \notin BundledSteps
          BY <2>2, <3>1 DEF PassOK
        <4>2. \A n \in Namespaces : NothingMade(n)
          BY <4>1, MadeByInstall
        <4>3. CleanOfReleases(spec.ns) /\ CleanOf(spec.ns, Objects \ {"models"})
          BY <1>3, <2>2, <3>1 DEF CleanExternal
        <4> QED
          BY <4>2, <4>3, CleanStays
      <3> QED
        BY <2>1, <3>1 DEF CleanExternal
    <2>10. Emptied'
      <3>1. CASE w'.pc = "release"
        BY <1>3, <2>1, <3>1, DrainEmpties
      <3>2. CASE w'.pc # "release"
        BY <3>2 DEF Emptied
      <3> QED
        BY <3>1, <3>2
    <2> QED
      BY <2>5, <2>6, <2>7, <2>8, <2>9, <2>10
  <1> QED
    BY <1>6, <1>7, <1>8, <1>9, <1>10

\* What the cluster and the user do to a platform nobody edits: models are rendered where
\* it says it is Ready alone, and an earlier build's Gateway only beside a release.
LEMMA EnvironmentKeepsUnedited ==
    ASSUME TypeOK, SpecOK, PassOK, Held, Empty, Unedited, Environment
    PROVE  Unedited'
  <1>1. /\ nsp \in SomeNamespaces /\ rel \in SomeReleases /\ obj \in SomeObjects
        /\ spec \in Declared /\ used \in [edits : Nat, mishaps : Nat]
    BY DEF TypeOK, SomeReleases, SomeObjects, SomeNamespaces
  <1> SUFFICES ASSUME used'.edits = 0
               PROVE  (Unmoved /\ Published /\ CleanOutside /\ CleanExternal /\ Unready /\ Emptied)'
    BY DEF Unedited
  <1>2. CASE EditPlatform
    <2>1. used'.edits # 0
      BY <1>1, <1>2 DEF EditPlatform
    <2> QED
      BY <2>1
  <1>3. CASE ~EditPlatform
    <2>1. used'.edits = used.edits
      <3>1. UNCHANGED used \/ \E kind : Mishap(kind)
        BY <1>3, Zenon DEF Environment, Declare, DeletePlatform, Crash, RenderModels, ComeUp,
           GoDown, NamespaceRemoved, CollectNamespace, LegacyBuild
      <3> QED
        BY <3>1, MishapType
    <2>2. Unmoved /\ Published /\ CleanOutside /\ CleanExternal /\ Unready /\ Emptied
      BY <2>1 DEF Unedited
    <2>3. ASSUME UNCHANGED cluster
          PROVE  \A n \in Namespaces : NothingMade(n)
      BY <2>3 DEF cluster, NothingMade
    \* Nothing but the cluster or the worker's place changes.
    <2>4. ASSUME UNCHANGED <<spec, status>>, UNCHANGED w \/ w'.pc = "idle",
                 \A n \in Namespaces : NothingMade(n),
                 \A n \in Namespaces : nsp'[n].st = "active" => nsp[n].st = "active"
          PROVE  (Unmoved /\ Published /\ CleanOutside /\ CleanExternal /\ Unready /\ Emptied)'
      <3>1. \A n \in Namespaces : /\ Clean(n) => Clean(n)'
                                  /\ CleanOfReleases(n) => CleanOfReleases(n)'
                                  /\ CleanOf(n, Objects \ {"models"}) => CleanOf(n, Objects \ {"models"})'
        BY <2>4, CleanStays
      <3>2. Unmoved' /\ Published' /\ Unready'
        BY <2>2, <2>4 DEF Unmoved, Published, Unready
      <3>3. CleanOutside' /\ CleanExternal'
        BY <2>2, <2>4, <3>1 DEF CleanOutside, CleanExternal
      <3>4. Emptied'
        BY <2>2, <2>4, <3>1 DEF Emptied
      <3> QED
        BY <3>2, <3>3, <3>4
    <2>5. CASE Declare
      <3>1. /\ UNCHANGED cluster /\ UNCHANGED w /\ status' = NewStatus /\ spec.st \in {"none", "gone"}
            /\ spec'.fin = FALSE
        BY <2>5 DEF Declare
      <3>2. ~spec.fin /\ w.pc \in {"idle", "finalizer"}
        BY <3>1 DEF SpecOK, Held
      <3>3. Unmoved' /\ Published' /\ Unready' /\ Emptied' /\ CleanExternal'
        BY <3>1, <3>2 DEF Unmoved, Published, Unready, Emptied, CleanExternal, NewStatus
      <3>4. CleanOutside'
        BY <2>2, <2>3, <3>1, <3>2, CleanStays DEF CleanOutside
      <3> QED
        BY <3>3, <3>4
    <2>6. CASE DeletePlatform
      <3>1. /\ UNCHANGED cluster /\ UNCHANGED <<w, status>> /\ spec.st = "live"
            /\ spec' = [spec EXCEPT !.st = IF spec.fin THEN "deleting" ELSE "gone"]
        BY <2>6 DEF DeletePlatform
      <3>2. spec'.ns = spec.ns /\ spec'.provider = spec.provider /\ spec'.fin = spec.fin
        BY <1>1, <3>1 DEF Declared
      <3>3. \A n \in Namespaces : /\ Clean(n) => Clean(n)'
                                  /\ CleanOfReleases(n) => CleanOfReleases(n)'
                                  /\ CleanOf(n, Objects \ {"models"}) => CleanOf(n, Objects \ {"models"})'
        BY <2>3, <3>1, CleanStays
      <3>4. Unmoved' /\ Unready'
        BY <2>2, <3>1, <3>2 DEF Unmoved, Unready
      <3>5. Published'
        BY <2>2, <3>1, <3>2 DEF Published
      <3>6. CleanOutside' /\ CleanExternal'
        BY <2>2, <3>2, <3>3 DEF CleanOutside, CleanExternal
      <3>7. Emptied'
        BY <2>2, <3>1, <3>2, <3>3 DEF Emptied, cluster
      <3> QED
        BY <3>4, <3>5, <3>6, <3>7
    <2>7. CASE Crash
      <3>1. UNCHANGED <<spec, status>> /\ w'.pc = "idle" /\ UNCHANGED cluster
        BY <2>7 DEF Crash, Idle
      <3> QED
        BY <2>3, <2>4, <3>1 DEF cluster
    <2>8. ASSUME NEW g, ComeUp(g) \/ GoDown(g)
          PROVE  (Unmoved /\ Published /\ CleanOutside /\ CleanExternal /\ Unready /\ Emptied)'
      <3>1. UNCHANGED <<spec, status>> /\ UNCHANGED w /\ UNCHANGED cluster
        BY <2>8 DEF ComeUp, GoDown
      <3> QED
        BY <2>3, <2>4, <3>1 DEF cluster
    <2>9. ASSUME NEW m \in Namespaces, CollectNamespace(m)
          PROVE  (Unmoved /\ Published /\ CleanOutside /\ CleanExternal /\ Unready /\ Emptied)'
      <3>1. UNCHANGED <<spec, status, w, rel, obj>> /\ nsp' = [nsp EXCEPT ![m].st = "terminating"]
        BY <2>9 DEF CollectNamespace
      <3>2. \A n \in Namespaces : NothingMade(n) /\ (nsp'[n].st = "active" => nsp[n].st = "active")
        BY <1>1, <3>1 DEF NothingMade, SomeNamespaces
      <3> QED
        BY <2>4, <3>1, <3>2
    <2>10. ASSUME NEW m \in Namespaces, NamespaceRemoved(m)
           PROVE  (Unmoved /\ Published /\ CleanOutside /\ CleanExternal /\ Unready /\ Emptied)'
      <3>1. /\ UNCHANGED <<spec, status, w>>
            /\ nsp' = [nsp EXCEPT ![m] = [st |-> "none", owner |-> 0]]
            /\ rel' = [rel EXCEPT ![m] = [r \in Releases |-> "none"]]
            /\ obj' = [obj EXCEPT ![m] = [o \in Objects |-> "none"]]
        BY <2>10 DEF NamespaceRemoved
      <3>2. \A n \in Namespaces : n # m =>
               nsp'[n] = nsp[n] /\ rel'[n] = rel[n] /\ obj'[n] = obj[n]
        BY <1>1, <3>1 DEF SomeNamespaces, SomeReleases, SomeObjects
      <3>3. /\ nsp'[m].st = "none" /\ \A r \in Releases : rel'[m][r] = "none"
            /\ \A o \in Objects : obj'[m][o] = "none"
        BY <1>1, <3>1 DEF SomeNamespaces, SomeReleases, SomeObjects
      <3>4. Clean(m)'
        BY <3>3 DEF Clean, CleanOfReleases, CleanOf, Ours
      <3>5. CleanOfReleases(m)' /\ CleanOf(m, Objects \ {"models"})'
        BY <3>4 DEF Clean, CleanOf
      <3>6. \A n \in Namespaces : /\ Clean(n) => Clean(n)'
                                  /\ CleanOfReleases(n) => CleanOfReleases(n)'
                                  /\ CleanOf(n, Objects \ {"models"}) => CleanOf(n, Objects \ {"models"})'
        BY <3>2, <3>4, <3>5 DEF Clean, CleanOfReleases, CleanOf
      <3>7. Unmoved' /\ Published' /\ Unready'
        BY <2>2, <3>1 DEF Unmoved, Published, Unready
      <3>8. CleanOutside' /\ CleanExternal'
        BY <2>2, <3>1, <3>6 DEF CleanOutside, CleanExternal
      <3>9. Emptied'
        BY <2>2, <3>1, <3>2, <3>3, <3>6 DEF Emptied
      <3> QED
        BY <3>7, <3>8, <3>9
    <2>11. CASE RenderModels
      <3>1. /\ UNCHANGED <<spec, status, w, nsp, rel>> /\ status.ready /\ status.ns \in Namespaces
            /\ spec.st \in {"live", "deleting"}
            /\ obj' = [obj EXCEPT ![status.ns]["models"] = "ours"]
        BY <2>11 DEF RenderModels, TypeOK, Status
      <3>2. spec.fin /\ status.ns = spec.ns
        BY <2>2, <3>1 DEF Published
      <3>3. w.pc # "release"
        BY <2>2, <3>1 DEF Unready, PassOK
      <3>4. \A n \in Namespaces, o \in Objects :
               n # spec.ns \/ o # "models" => obj'[n][o] = obj[n][o]
        BY <1>1, <3>1, <3>2 DEF SomeObjects
      <3>5. Unmoved' /\ Published' /\ Unready' /\ Emptied'
        BY <2>2, <3>1, <3>3 DEF Unmoved, Published, Unready, Emptied
      <3>6. CleanOutside'
        BY <2>2, <3>1, <3>2, <3>4 DEF CleanOutside, Clean, CleanOfReleases, CleanOf
      <3>7. CleanExternal'
        BY <2>2, <3>1, <3>2, <3>4 DEF CleanExternal, CleanOfReleases, CleanOf
      <3> QED
        BY <3>5, <3>6, <3>7
    <2>12. ASSUME NEW m \in Namespaces, LegacyBuild(m)
           PROVE  (Unmoved /\ Published /\ CleanOutside /\ CleanExternal /\ Unready /\ Emptied)'
      <3>1. /\ UNCHANGED <<spec, status, w, nsp, rel>> /\ w.pc = "idle"
            /\ nsp[m].st = "active" /\ rel[m]["agentgateway"] = "ours"
            /\ obj' = [obj EXCEPT ![m]["legacy"] = "ours"]
        BY <2>12 DEF LegacyBuild
      <3>2. ~CleanOfReleases(m)
        BY <3>1 DEF CleanOfReleases, Ours, Releases
      <3>3. spec.fin /\ m = spec.ns /\ spec.provider # "external"
        BY <2>2, <3>2 DEF CleanOutside, CleanExternal, Clean
      <3>4. \A n \in Namespaces : n # m => obj'[n] = obj[n]
        BY <1>1, <3>1 DEF SomeObjects
      <3>5. Unmoved' /\ Published' /\ Unready' /\ Emptied'
        BY <2>2, <3>1 DEF Unmoved, Published, Unready, Emptied
      <3>6. CleanOutside'
        BY <2>2, <3>1, <3>3, <3>4 DEF CleanOutside, Clean, CleanOfReleases, CleanOf
      <3>7. CleanExternal'
        BY <3>1, <3>3 DEF CleanExternal
      <3> QED
        BY <3>5, <3>6, <3>7
    <2> QED
      BY <1>3, <2>5, <2>6, <2>7, <2>8, <2>9, <2>10, <2>11, <2>12 DEF Environment
  <1> QED
    BY <1>2, <1>3

\* When a platform that was never edited is gone, no release or object of this operator's
\* is left but in a namespace on its way out, whatever failed, was interrupted or was
\* retried during its installs and its drain, and however often it was declared anew
\* (reconcileDelete, drainConfiguration, drainAll, releaseFinalizer). It is so as long as
\* the phase Uninstalling could be written: where that write is lost, the drain goes ahead
\* under a status that still says Ready, and the catalog may render its models again
\* behind it. After an edit, what the namespace named before holds is out of the drain's
\* sight.
THEOREM DrainedIfUnedited ==
    ASSUME "status" \notin Faults
    PROVE  Spec => [](used.edits = 0 => DrainedWhenGone)
  <1> DEFINE Inv == TypeOK /\ SpecOK /\ PassOK /\ Held /\ Empty /\ Owned /\ Unedited
  <1>1. Init => Inv
    <2>1. Init => OrderInv
      BY InitialOrder
    <2>2. Init => Unedited
      <3> SUFFICES ASSUME Init
                   PROVE  Unedited
        OBVIOUS
      <3>1. /\ w.pc = "idle" /\ spec.st = "none" /\ spec.fin = FALSE
            /\ \A n \in Namespaces, r \in Releases : rel[n][r] \notin Ours
            /\ \A n \in Namespaces, o \in Objects : obj[n][o] # "ours"
        BY DEF Init, Idle, Undeclared, Ours
      <3>2. \A n \in Namespaces : Clean(n)
        BY <3>1 DEF Clean, CleanOfReleases, CleanOf
      <3> QED
        BY <3>1, <3>2
           DEF Unedited, Unmoved, Published, CleanOutside, CleanExternal, Unready, Emptied
    <2> QED
      BY <2>1, <2>2 DEF OrderInv
  <1>2. Inv /\ [Next]_vars => Inv'
    <2> SUFFICES ASSUME Inv, [Next]_vars
                 PROVE  Inv'
      OBVIOUS
    <2>1. TypeOK' /\ SpecOK'
      BY StepKeepsType, StepKeepsSpec
    <2>2. PassOK' /\ Held' /\ Empty' /\ Owned'
      BY StepKeepsPass, StepKeepsNamespaces
    <2>3. Unedited'
      <3>1. CASE Worker
        BY <3>1, WorkerKeepsUnedited
      <3>2. CASE Environment
        BY <3>2, EnvironmentKeepsUnedited
      <3>3. CASE UNCHANGED vars
        <4>1. UNCHANGED <<spec, status, nsp, rel, obj, w, used>>
          BY <3>3 DEF vars
        <4> QED
          BY <4>1 DEF Unedited, Unmoved, Published, CleanOutside, CleanExternal, Unready, Emptied,
             Clean, CleanOfReleases, CleanOf
      <3> QED
        BY <3>1, <3>2, <3>3 DEF Next
    <2> QED
      BY <2>1, <2>2, <2>3
  <1>3. Inv => (used.edits = 0 => DrainedWhenGone)
    BY DEF Unedited, CleanOutside, Clean, CleanOfReleases, CleanOf, SpecOK, DrainedWhenGone
  <1> HIDE DEF Inv
  <1> QED
    BY <1>1, <1>2, <1>3, PTL DEF Spec
================================================================================
