-------------------------------- MODULE Platform -------------------------------
(***************************************************************************)
(* The AgentGatewayPlatform reconciler: the ordered install of a bundled    *)
(* gateway, the adoption of an external one, and the drain on deletion.     *)
(*                                                                          *)
(* A pass of the single worker is a sequence of steps, one per object or    *)
(* release it ensures, checks or removes; the platform may be edited,       *)
(* deleted or declared anew, and the operator may die, between any two. A   *)
(* Helm release is reduced to what the pass over it depends on; HelmRelease *)
(* models how it comes to be in those states.                               *)
(***************************************************************************)
EXTENDS Naturals

CONSTANTS
    Namespaces,    \* namespaces a gateway may be installed in
    Providers,     \* the providers the platform may be declared with
    Existing,      \* namespaces that exist before the platform is declared
    Theirs,        \* those with an agentgateway somebody else installed
    MaxPlatforms,  \* bound of the model: times the platform is declared
    MaxEdits,      \* bound of the model: edits of spec.provider and the namespace
    MaxMishaps,    \* bound of the model: failed calls, crashes and outages
    Faults,        \* the mishaps that may happen
    NoNs           \* no namespace: spec.externalAgentgateway is not set

ASSUME PlatformConstants ==
    /\ Providers \subseteq {"bundled", "external"} /\ Providers # {}
    /\ Theirs \subseteq Existing /\ Existing \subseteq Namespaces
    /\ MaxPlatforms \in Nat /\ MaxEdits \in Nat /\ MaxMishaps \in Nat
    /\ NoNs \notin Namespaces

VARIABLES
    spec,    \* the platform singleton
    status,  \* its status
    nsp,     \* namespaces
    rel,     \* Helm releases, per namespace
    obj,     \* objects the operator creates itself, per namespace
    up,      \* parts of the cluster that report ready
    queued,  \* whether the platform is in the workqueue
    w,       \* the reconcile worker
    used     \* edits and mishaps so far

vars == <<spec, status, nsp, rel, obj, up, queued, w, used>>
cluster == <<nsp, rel, obj>>

--------------------------------------------------------------------------------
Releases == {"agentgateway-ratelimit", "agentgateway", "agentgateway-crds"}

\* What a pass tells apart: absent, deployed by this operator, failed with the
\* inputs it has, left half removed, somebody else's.
ReleaseState == {"none", "ours", "failed", "uninstalling", "theirs"}

Objects == {"parameters", "gateway", "legacy", "ratelimit", "policy", "models"}

Gates == {"gatewayAPI", "agentgateway", "class", "gateway", "ratelimit"}

Declared == [st : {"none", "live", "deleting", "gone"}, uid : Nat, fin : BOOLEAN,
             provider : {"bundled", "external"}, ns : Namespaces \union {NoNs}]

\* The Ready condition, the phase, and the gateway namespace sessions read.
Status == [ready : BOOLEAN, ns : Namespaces \union {NoNs},
           phase : {"none", "Installing", "Ready", "Failed", "Uninstalling"}]

NewStatus == [ready |-> FALSE, ns |-> NoNs, phase |-> "none"]

Steps == {"idle", "finalizer", "namespace", "gatewayAPI", "crds", "agentgateway",
          "parameters", "class", "prune", "gateway", "programmed", "ratelimit", "policy",
          "external", "markReady", "status", "uninstalling", "drain", "release"}

\* What a drain removes, in order; drainBundled removes the releases alone.
Drained == Objects \union Releases \union {"namespace"}

\* Every value a variable may take: among others the phases the platform's schema
\* allows and the steps of install and drain that code reaches.
TypeOK ==
    /\ spec \in Declared
    /\ status \in Status
    /\ nsp \in [Namespaces -> [st : {"none", "active", "terminating"}, owner : Nat]]
    /\ rel \in [Namespaces -> [Releases -> ReleaseState]]
    /\ obj \in [Namespaces -> [Objects -> {"none", "ours", "theirs"}]]
    /\ up \subseteq Gates
    /\ queued \in BOOLEAN
    /\ w \in [pc : Steps, on : Drained, snap : Declared, status : Status, requeue : BOOLEAN]
    /\ used \in [edits : Nat, mishaps : Nat]

Undeclared == [st |-> "none", uid |-> 0, fin |-> FALSE, provider |-> "bundled", ns |-> NoNs]

Idle == [pc |-> "idle", on |-> "policy", snap |-> Undeclared, status |-> NewStatus,
         requeue |-> FALSE]

\* Nothing is declared. Where somebody else installed agentgateway with Helm,
\* its namespace, releases and Gateways exist. Their Gateways have the names this
\* operator gives its own, now and before the rename: one with another name is
\* never looked at except for readiness.
Init ==
    /\ spec = Undeclared
    /\ status = NewStatus
    /\ nsp = [n \in Namespaces |->
                [st |-> IF n \in Existing THEN "active" ELSE "none", owner |-> 0]]
    /\ rel = [n \in Namespaces |-> [r \in Releases |->
                IF n \in Theirs /\ r # "agentgateway-ratelimit" THEN "theirs" ELSE "none"]]
    /\ obj = [n \in Namespaces |-> [o \in Objects |->
                IF n \in Theirs /\ o \in {"gateway", "legacy"} THEN "theirs" ELSE "none"]]
    /\ up = {}
    /\ queued = FALSE
    /\ w = Idle
    /\ used = [edits |-> 0, mishaps |-> 0]

--------------------------------------------------------------------------------
(***************************************************************************)
(* How a step ends.                                                         *)
(***************************************************************************)

GatewayNamespace(platform) == platform.ns

Go(pc) == w' = [w EXCEPT !.pc = pc] /\ UNCHANGED queued

\* Mutated form: the error is logged.
ErrorLogged == w' = Idle /\ UNCHANGED queued

\* The error is returned: nothing is written, the pass is run again.
Error == w' = Idle /\ queued' = TRUE

\* A status is built and written, and the pass ends.
Report(st, requeue) ==
    /\ w' = [w EXCEPT !.pc = "status", !.status = st, !.requeue = requeue]
    /\ UNCHANGED queued

Drain(what) == w' = [w EXCEPT !.pc = "drain", !.on = what] /\ UNCHANGED queued

\* A gate that is not open yet: come back after requeueShort.
Wait == Report([w.status EXCEPT !.phase = "Installing"], TRUE)

\* A failure that no retry is asked for.
Stop == Report([w.status EXCEPT !.phase = "Failed"], FALSE)

Mishap(kind) ==
    /\ kind \in Faults /\ used.mishaps < MaxMishaps
    /\ used' = [used EXCEPT !.mishaps = @ + 1]

Ns == GatewayNamespace(w.snap)

Active == nsp[Ns].st = "active"

--------------------------------------------------------------------------------
(***************************************************************************)
(* The install.                                                             *)
(***************************************************************************)

\* The worker reads the platform.
Reconcile ==
    /\ w.pc = "idle" /\ queued
    /\ queued' = FALSE
    /\ LET start(pc) ==
             w' = [pc |-> pc, on |-> "policy", snap |-> spec, requeue |-> FALSE,
                   status |-> [status EXCEPT !.ns = GatewayNamespace(spec)]]
       IN  \/ /\ spec.st = "live" /\ ~spec.fin
              /\ start("finalizer")
           \/ /\ spec.st = "live" /\ spec.fin
              /\ start(IF spec.provider = "external" THEN "external" ELSE "namespace")
           \/ /\ spec.st = "deleting"
              /\ start("uninstalling")
           \/ /\ spec.st \in {"none", "gone"}
              /\ UNCHANGED w
    /\ UNCHANGED <<spec, status, cluster, up, used>>

\* The Update conflicts if the platform was edited or deleted meanwhile.
AddFinalizer ==
    /\ w.pc = "finalizer"
    /\ \/ /\ spec = w.snap
          /\ spec' = [spec EXCEPT !.fin = TRUE]
          /\ w' = [w EXCEPT !.snap = spec',
                            !.pc = IF spec.provider = "external" THEN "external" ELSE "namespace"]
          /\ UNCHANGED <<queued, used>>
       \/ /\ spec # w.snap
          /\ Error
          /\ UNCHANGED <<spec, used>>
       \/ /\ Mishap("write") /\ Error
          /\ UNCHANGED spec
    /\ UNCHANGED <<status, cluster, up>>

\* Mutated form: the namespace is created without a controller reference.
EnsureUnownedNamespace ==
    /\ w.pc = "namespace"
    /\ nsp' = [nsp EXCEPT ![Ns].st = IF @ = "none" THEN "active" ELSE @]
    /\ Go("gatewayAPI")
    /\ UNCHANGED <<spec, status, rel, obj, up, used>>

\* A namespace that exists is taken as it is, whoever made it and even if it
\* is terminating.
ensureNamespace ==
    /\ w.pc = "namespace"
    /\ \/ /\ nsp[Ns].st # "none"
          /\ Go("gatewayAPI")
          /\ UNCHANGED <<nsp, used>>
       \/ /\ nsp[Ns].st = "none"
          /\ nsp' = [nsp EXCEPT ![Ns] = [st |-> "active", owner |-> w.snap.uid]]
          /\ w' = [w EXCEPT !.pc = "gatewayAPI"]
          /\ queued' = TRUE
          /\ UNCHANGED used
       \/ /\ Mishap("write") /\ Error
          /\ UNCHANGED nsp
    /\ UNCHANGED <<spec, status, rel, obj, up>>

reconcileGatewayAPI ==
    /\ w.pc = "gatewayAPI"
    /\ IF "gatewayAPI" \in up THEN Go("crds") ELSE Wait
    /\ UNCHANGED <<spec, status, cluster, up, used>>

\* Mutated form: whatever release has the name is converged.
ConvergeAny(r, proceed) ==
    /\ rel' = [rel EXCEPT ![Ns][r] = IF Active THEN "ours" ELSE @]
    /\ proceed
    /\ UNCHANGED used

\* What a pass over a release comes to (EnsureRelease and handleReleaseResult).
\* An operation that fails or is cut short leaves the release failed, or, where
\* the namespace is not active, as it was. Whether a failed release is held,
\* rolled back or mended depends on its history and on whether the operator
\* build has changed, which HelmRelease models; here each may happen.
converge(r, proceed) ==
    LET state == rel[Ns][r]
        set(new) == rel' = [rel EXCEPT ![Ns][r] = new]
    IN  \/ /\ state \in {"none", "failed"} /\ Active
           /\ set("ours") /\ proceed /\ UNCHANGED used
        \/ /\ state \in {"none", "failed", "ours"}
           /\ Mishap("release") /\ Error
           /\ IF Active THEN set("failed") ELSE UNCHANGED rel
        \/ /\ state = "none" /\ ~Active
           /\ Error /\ UNCHANGED <<rel, used>>
        \/ /\ state = "ours"
           /\ proceed /\ UNCHANGED <<rel, used>>
        \/ /\ state = "failed" /\ Active
           /\ set("ours") /\ Wait /\ UNCHANGED used
        \/ /\ state = "failed"
           /\ Stop /\ UNCHANGED <<rel, used>>
        \/ /\ state = "uninstalling"
           /\ Wait /\ UNCHANGED <<rel, used>>
        \/ /\ state = "theirs"
           /\ Report([w.status EXCEPT !.phase = "Failed", !.ready = FALSE], FALSE)
           /\ UNCHANGED <<rel, used>>

reconcileCRDsChart ==
    /\ w.pc = "crds"
    /\ converge("agentgateway-crds", Go("agentgateway"))
    /\ UNCHANGED <<spec, status, nsp, obj, up>>

reconcileControlPlane ==
    /\ w.pc = "agentgateway"
    /\ converge("agentgateway", IF "agentgateway" \in up THEN Go("parameters") ELSE Wait)
    /\ UNCHANGED <<spec, status, nsp, obj, up>>

\* An object is created if it is not there; one that is there is kept, with the
\* fields this operator owns brought up to date.
Ensure(o, next, fail) ==
    \/ /\ obj[Ns][o] # "none" \/ Active
       /\ obj' = [obj EXCEPT ![Ns][o] = IF @ = "none" THEN "ours" ELSE @]
       /\ next
       /\ UNCHANGED used
    \/ /\ obj[Ns][o] = "none" /\ ~Active
       /\ fail
       /\ UNCHANGED <<obj, used>>
    \/ /\ Mishap("write")
       /\ fail
       /\ UNCHANGED obj

ensureParameters ==
    /\ w.pc = "parameters"
    /\ Ensure("parameters", Go("class"), Error)
    /\ UNCHANGED <<spec, status, nsp, rel, up>>

waitForGatewayClass ==
    /\ w.pc = "class"
    /\ IF "class" \in up THEN Go("prune") ELSE Wait
    /\ UNCHANGED <<spec, status, cluster, up, used>>

\* Remove one object, or the pass fails; one that is gone is no error.
deleteIfPresent(o, next) ==
    \/ /\ obj' = [obj EXCEPT ![Ns][o] = "none"]
       /\ next
       /\ UNCHANGED used
    \/ /\ obj[Ns][o] # "none"
       /\ Mishap("delete") /\ Error
       /\ UNCHANGED obj

\* The Gateway of an earlier build, if it carries this operator's label.
pruneLegacyGateway(next) ==
    IF obj[Ns]["legacy"] = "ours"
    THEN deleteIfPresent("legacy", next)
    ELSE next /\ UNCHANGED <<obj, used>>

ensureGateway ==
    /\ \/ w.pc = "prune" /\ pruneLegacyGateway(Go("gateway"))
       \/ w.pc = "gateway" /\ Ensure("gateway", Go("programmed"), Error)
    /\ UNCHANGED <<spec, status, nsp, rel, up>>

\* Both providers gate on their Gateway being Programmed and its Deployment
\* available.
reconcileGatewayReady ==
    /\ w.pc = "programmed"
    /\ IF obj[Ns]["gateway"] # "none" /\ "gateway" \in up
       THEN Go(IF w.snap.provider = "external" THEN "markReady" ELSE "ratelimit")
       ELSE Wait
    /\ UNCHANGED <<spec, status, cluster, up, used>>

\* A failed write is reported, and its error is not returned.
reconcileRateLimit ==
    /\ w.pc = "ratelimit"
    /\ \/ /\ obj[Ns]["ratelimit"] # "none" \/ Active
          /\ obj' = [obj EXCEPT ![Ns]["ratelimit"] = "ours"]
          /\ IF "ratelimit" \in up THEN Go("policy") ELSE Wait
          /\ UNCHANGED used
       \/ /\ obj[Ns]["ratelimit"] = "none" /\ ~Active
          /\ Stop
          /\ UNCHANGED <<obj, used>>
       \/ /\ Mishap("ratelimit")
          /\ Stop
          /\ UNCHANGED obj
    /\ UNCHANGED <<spec, status, nsp, rel, up>>

\* Mutated form: a failed policy is reported, and its error is not returned.
PolicyFailureKept ==
    /\ w.pc = "policy"
    /\ Ensure("policy", Go("markReady"), Stop)
    /\ UNCHANGED <<spec, status, nsp, rel, up>>

\* A failed policy is reported and its error returned.
ensurePolicy ==
    /\ w.pc = "policy"
    /\ Ensure("policy", Go("markReady"),
              Report([w.status EXCEPT !.phase = "Failed"], TRUE))
    /\ UNCHANGED <<spec, status, nsp, rel, up>>

markReady ==
    /\ w.pc = "markReady"
    /\ Report([ready |-> TRUE, ns |-> Ns, phase |-> "Ready"], FALSE)
    /\ UNCHANGED <<spec, status, cluster, up, used>>

\* The status built by the pass replaces the live one, whatever has become of
\* the spec meanwhile.
updateStatus ==
    /\ w.pc = "status"
    /\ \/ /\ status' = w.status
          /\ w' = Idle
          /\ queued' = (queued \/ w.requeue)
          /\ UNCHANGED used
       \/ /\ Mishap("status") /\ Error
          /\ UNCHANGED status
    /\ UNCHANGED <<spec, cluster, up>>

\* An external gateway: what this operator may have installed is uninstalled,
\* in the namespace the platform now names.
reconcileExternal ==
    /\ w.pc = "external"
    /\ IF Ns = NoNs
       THEN Report([w.status EXCEPT !.phase = "Failed", !.ready = FALSE], FALSE)
       ELSE Drain("agentgateway-ratelimit")
    /\ UNCHANGED <<spec, status, cluster, up, used>>

--------------------------------------------------------------------------------
(***************************************************************************)
(* The drain.                                                               *)
(***************************************************************************)

\* Mutated form: a phase the resource's schema does not have.
ReportDeleting ==
    /\ w.pc = "uninstalling"
    /\ status' = [w.status EXCEPT !.ready = FALSE, !.phase = "Deleting"]
    /\ Drain("policy")
    /\ UNCHANGED <<spec, cluster, up, used>>

\* Uninstalling is recorded if it can be, and the drain goes ahead anyway.
reconcileDelete ==
    /\ w.pc = "uninstalling"
    /\ \/ /\ status' = [w.status EXCEPT !.ready = FALSE, !.phase = "Uninstalling"]
          /\ UNCHANGED used
       \/ /\ Mishap("status")
          /\ UNCHANGED status
    /\ Drain("policy")
    /\ UNCHANGED <<spec, cluster, up>>

\* Mutated form: the CRDs are removed before the control plane.
CRDsFirst(what) ==
    CASE what = "policy" -> Drain("gateway")
      [] what = "gateway" -> Drain("legacy")
      [] what = "legacy" -> Drain("parameters")
      [] what = "parameters" -> Drain("models")
      [] what = "models" -> Drain("agentgateway-crds")
      [] what = "agentgateway-crds" -> Drain("agentgateway")
      [] what = "agentgateway" -> Drain("namespace")
      [] OTHER -> Go("release")

\* The order of drainConfiguration and drainAll, and of drainBundled for a
\* live platform with an external provider.
After(what) ==
    CASE what = "policy" -> Drain("gateway")
      [] what = "gateway" -> Drain("legacy")
      [] what = "legacy" -> Drain("parameters")
      [] what = "parameters" -> Drain("models")
      [] what = "models" /\ w.snap.provider = "bundled" -> Drain("agentgateway-ratelimit")
      [] what = "agentgateway-ratelimit" -> Drain("agentgateway")
      [] what = "agentgateway" -> Drain("agentgateway-crds")
      [] what = "agentgateway-crds" /\ w.snap.provider = "bundled" -> Drain("namespace")
      [] what = "agentgateway-crds" /\ w.snap.provider = "external" -> Go("programmed")
      [] OTHER -> Go("release")

\* The policy, the Gateway and the overlay are found by name; the legacy
\* Gateway and the models by this operator's label. With no namespace the
\* names match nothing, and the models are listed in every namespace.
drainConfiguration ==
    /\ w.pc = "drain" /\ w.on \in Objects
    /\ \/ /\ Ns = NoNs
          /\ obj' = [n \in Namespaces |-> [obj[n] EXCEPT !["models"] = "none"]]
          /\ Go("release")
          /\ UNCHANGED used
       \/ /\ Ns # NoNs /\ w.on = "legacy"
          /\ pruneLegacyGateway(After(w.on))
       \/ /\ Ns # NoNs /\ w.on # "legacy"
          /\ deleteIfPresent(w.on, After(w.on))
    /\ UNCHANGED <<spec, status, nsp, rel, up>>

\* Whatever release has the name is uninstalled; a failure leaves it half removed.
uninstallRelease ==
    /\ w.pc = "drain" /\ w.on \in Releases
    /\ \/ /\ rel' = [rel EXCEPT ![Ns][w.on] = "none"]
          /\ After(w.on)
          /\ UNCHANGED used
       \/ /\ rel[Ns][w.on] # "none"
          /\ Mishap("delete")
          /\ rel' = [rel EXCEPT ![Ns][w.on] = IF @ = "theirs" THEN @ ELSE "uninstalling"]
          /\ Error
    /\ UNCHANGED <<spec, status, nsp, obj, up>>

\* Deleting the namespace the platform controls is an event that wakes it.
drainNamespace ==
    /\ w.pc = "drain" /\ w.on = "namespace"
    /\ \/ /\ nsp' = [nsp EXCEPT ![Ns].st = IF @ = "active" THEN "terminating" ELSE @]
          /\ w' = [w EXCEPT !.pc = "release"]
          /\ queued' = (queued \/ nsp[Ns].owner # 0)
          /\ UNCHANGED used
       \/ /\ nsp[Ns].st # "none"
          /\ Mishap("delete") /\ Error
          /\ UNCHANGED nsp
    /\ UNCHANGED <<spec, status, rel, obj, up>>

\* Mutated form: a drain that fails is let go.
ReleaseOnError ==
    /\ w.pc \in {"drain", "release"} /\ w.snap.st = "deleting"
    /\ spec' = [spec EXCEPT !.st = "gone", !.fin = FALSE]
    /\ w' = Idle
    /\ UNCHANGED <<status, cluster, up, queued, used>>

\* A platform that cannot be read again ends the pass without an error.
releaseFinalizer ==
    /\ w.pc = "release"
    /\ \/ /\ spec' = [spec EXCEPT !.st = "gone", !.fin = FALSE]
          /\ w' = Idle
          /\ UNCHANGED <<queued, used>>
       \/ /\ \/ Mishap("write") /\ Error
             \/ Mishap("read") /\ w' = Idle /\ UNCHANGED queued
          /\ UNCHANGED spec
    /\ UNCHANGED <<status, cluster, up>>

Install == \/ Reconcile \/ AddFinalizer \/ ensureNamespace \/ reconcileGatewayAPI
           \/ reconcileCRDsChart \/ reconcileControlPlane \/ ensureParameters
           \/ waitForGatewayClass \/ ensureGateway \/ reconcileGatewayReady
           \/ reconcileRateLimit \/ ensurePolicy \/ markReady \/ updateStatus
           \/ reconcileExternal

Teardown == \/ reconcileDelete \/ drainConfiguration \/ uninstallRelease
            \/ drainNamespace \/ releaseFinalizer

Worker == Install \/ Teardown

--------------------------------------------------------------------------------
(***************************************************************************)
(* The cluster around the worker.                                           *)
(***************************************************************************)

\* The singleton is declared, or declared anew once it is gone.
Declare ==
    /\ spec.st \in {"none", "gone"} /\ spec.uid < MaxPlatforms
    /\ \E p \in Providers, n \in Namespaces \union {NoNs} :
          /\ p = "bundled" => n # NoNs
          /\ spec' = [st |-> "live", uid |-> spec.uid + 1, fin |-> FALSE,
                      provider |-> p, ns |-> n]
    /\ status' = NewStatus
    /\ queued' = TRUE
    /\ UNCHANGED <<cluster, up, w, used>>

\* spec.provider or the namespace is edited.
EditPlatform ==
    /\ spec.st = "live" /\ used.edits < MaxEdits
    /\ \E p \in Providers, n \in Namespaces \union {NoNs} :
          /\ p = "bundled" => n # NoNs
          /\ <<p, n>> # <<spec.provider, spec.ns>>
          /\ spec' = [spec EXCEPT !.provider = p, !.ns = n]
    /\ used' = [used EXCEPT !.edits = @ + 1]
    /\ queued' = TRUE
    /\ UNCHANGED <<status, cluster, up, w>>

\* Without a finalizer there is nothing to wait for.
DeletePlatform ==
    /\ spec.st = "live"
    /\ spec' = [spec EXCEPT !.st = IF spec.fin THEN "deleting" ELSE "gone"]
    /\ queued' = TRUE
    /\ UNCHANGED <<status, cluster, up, w, used>>

\* Deployments, the GatewayClass and the Gateway come up in their own time.
ComeUp(g) ==
    /\ g \notin up
    /\ up' = up \union {g}
    /\ UNCHANGED <<spec, status, cluster, queued, w, used>>

GoDown(g) ==
    /\ g \in up /\ Mishap("outage")
    /\ up' = up \ {g}
    /\ UNCHANGED <<spec, status, cluster, queued, w>>

\* The namespace controller empties a terminating namespace and removes it.
NamespaceRemoved(n) ==
    /\ nsp[n].st = "terminating"
    /\ nsp' = [nsp EXCEPT ![n] = [st |-> "none", owner |-> 0]]
    /\ rel' = [rel EXCEPT ![n] = [r \in Releases |-> "none"]]
    /\ obj' = [obj EXCEPT ![n] = [o \in Objects |-> "none"]]
    /\ queued' = (queued \/ nsp[n].owner # 0)
    /\ UNCHANGED <<spec, status, up, w, used>>

\* A namespace whose owner is gone is garbage-collected; any may be deleted by
\* hand. Only one the platform controls wakes it.
CollectNamespace(n) ==
    /\ nsp[n].st = "active"
    /\ \/ nsp[n].owner # 0 /\ (spec.st = "gone" \/ nsp[n].owner # spec.uid)
       \/ "namespace" \in Faults
    /\ nsp' = [nsp EXCEPT ![n].st = "terminating"]
    /\ queued' = (queued \/ nsp[n].owner # 0)
    /\ UNCHANGED <<spec, status, rel, obj, up, w, used>>

\* The catalog reconciler renders its models where a Ready platform says the
\* gateway is; its own status write wakes the platform.
RenderModels ==
    /\ spec.st \in {"live", "deleting"} /\ status.ready /\ status.ns # NoNs
    /\ nsp[status.ns].st = "active" /\ obj[status.ns]["models"] = "none"
    /\ obj' = [obj EXCEPT ![status.ns]["models"] = "ours"]
    /\ queued' = TRUE
    /\ UNCHANGED <<spec, status, nsp, rel, up, w, used>>

\* An operator from before the rename left its Gateway.
LegacyBuild(n) ==
    /\ "legacy" \in Faults /\ w.pc = "idle" /\ nsp[n].st = "active"
    /\ obj[n]["legacy"] = "none" /\ obj[n]["gateway"] = "none" /\ rel[n]["agentgateway"] = "ours"
    /\ obj' = [obj EXCEPT ![n]["legacy"] = "ours"]
    /\ UNCHANGED <<spec, status, nsp, rel, up, queued, w, used>>

\* The operator dies; the next process lists the platform and reconciles it.
Crash ==
    /\ w.pc # "idle" /\ Mishap("crash")
    /\ w' = Idle
    /\ queued' = TRUE
    /\ UNCHANGED <<spec, status, cluster, up>>

Environment ==
    \/ Declare \/ EditPlatform \/ DeletePlatform \/ Crash \/ RenderModels
    \/ \E g \in Gates : ComeUp(g) \/ GoDown(g)
    \/ \E n \in Namespaces : NamespaceRemoved(n) \/ CollectNamespace(n) \/ LegacyBuild(n)

Next == Worker \/ Environment

Spec == Init /\ [][Next]_vars

\* The worker runs, what the cluster is asked to start comes up, and a
\* terminating namespace is emptied.
FairSpec ==
    /\ Spec
    /\ WF_vars(Worker)
    /\ \A g \in Gates : WF_vars(ComeUp(g))
    /\ \A n \in Namespaces : WF_vars(NamespaceRemoved(n))

--------------------------------------------------------------------------------
(***************************************************************************)
(* Properties.                                                              *)
(***************************************************************************)

Ours == {"ours", "failed", "uninstalling"}

\* When the platform is gone, no Helm release of this operator's is left and
\* what objects are left are in a namespace on its way out, whatever failed or
\* was interrupted during the drain.
DrainedWhenGone ==
    spec.st = "gone" => \A n \in Namespaces :
        /\ \A r \in Releases : rel[n][r] \in Ours => nsp[n].st = "terminating"
        /\ \A o \in Objects : obj[n][o] = "ours" => nsp[n].st = "terminating"

\* Through every install, failure, retry and drain, nothing outlives what it
\* needs: the control plane its CRDs, the Gateway its overlay, the policy the
\* Gateway it targets and the rate-limit service it names.
DependenciesPresent ==
    \A n \in Namespaces :
        /\ rel[n]["agentgateway"] \in Ours => rel[n]["agentgateway-crds"] # "none"
        /\ obj[n]["gateway"] = "ours" => obj[n]["parameters"] # "none"
        /\ obj[n]["policy"] = "ours" =>
              obj[n]["gateway"] # "none" /\ obj[n]["ratelimit"] # "none"

\* Once nothing is left to do, a bundled platform in phase Ready has everything
\* it installs in the namespace it publishes, unless that namespace is being
\* removed and will wake it. A namespace that existed before is not watched for
\* its removal: what is said is said of namespaces the operator made.
ReadyIsInstalled ==
    /\ w.pc = "idle" /\ ~queued
    /\ spec.st = "live" /\ spec.provider = "bundled" /\ status.phase = "Ready"
    /\ GatewayNamespace(spec) \notin Existing
    => /\ status.ready /\ status.ns = GatewayNamespace(spec)
       /\ \/ nsp[status.ns].st = "terminating"
          \/ /\ \A r \in {"agentgateway", "agentgateway-crds"} : rel[status.ns][r] = "ours"
             /\ \A o \in {"parameters", "gateway", "ratelimit", "policy"} :
                   obj[status.ns][o] # "none"

Contract(n, r) == INSTANCE Release WITH state <- rel[n][r], found <- FALSE

\* The install and the drain use every release as HelmRelease provides it, and
\* keep its contract: none of somebody else's is taken over, and one that a
\* drain left half removed is not converged before its removal is finished.
ReleasesKeepContract ==
    /\ \A n \in Namespaces, r \in Releases : Contract(n, r)!Init
    /\ [][\A n \in Namespaces, r \in Releases : [Contract(n, r)!Next]_(rel[n][r])]_rel

\* "Conditions are authoritative": a platform that settles in phase Failed does
\* not keep the Ready condition of an earlier pass.
FailedIsNotReady ==
    w.pc = "idle" /\ ~queued /\ spec.st = "live" /\ status.phase = "Failed" => ~status.ready

\* A declared bundled platform becomes Ready, or is deleted: no failed call or
\* crash leaves the install waiting for nobody.
InstallCompletes ==
    (spec.st = "live" /\ spec.provider = "bundled")
        ~> (status.ready \/ spec.st # "live" \/ spec.provider # "bundled")

\* A deleted platform is drained and let go.
DeletionCompletes == (spec.st = "deleting") ~> (spec.st = "gone")

\* "switching away from bundled must not orphan the release": once an external
\* platform is Ready, no release of this operator's is left anywhere.
SwitchDrains ==
    (w.pc = "idle" /\ ~queued /\ spec.provider = "external" /\ status.phase = "Ready")
    => \A n \in Namespaces, r \in Releases : rel[n][r] # "ours"

\* "This runs on a provider switch as well as a full teardown": once an external
\* platform is Ready, no rendered model is left where only this operator ever
\* installed a gateway.
SwitchDrainsModels ==
    (w.pc = "idle" /\ ~queued /\ spec.provider = "external" /\ status.phase = "Ready")
    => \A n \in Namespaces \ Existing : obj[n]["models"] # "ours"

\* "An external gateway installs nothing. The operator configures what is
\* already there": the releases of an agentgateway somebody else installed stay.
TheirReleaseKept ==
    [][\A n \in Namespaces, r \in Releases :
          rel[n][r] = "theirs" /\ w' # w => rel'[n][r] = "theirs"]_vars

\* With an external gateway "there is nothing to drain but the operator's own
\* additions": a Gateway somebody else made stays.
TheirGatewayKept ==
    [][\A n \in Namespaces :
          obj[n]["gateway"] = "theirs" /\ w' # w => obj'[n]["gateway"] = "theirs"]_vars

\* The namespace is deleted "only because this operator created it".
TheirNamespaceKept ==
    [][\A n \in Namespaces :
          nsp[n].st = "active" /\ nsp[n].owner = 0 /\ w' # w => nsp'[n].st = "active"]_vars
================================================================================
