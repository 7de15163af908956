------------------------------ MODULE HelmRelease ------------------------------
(***************************************************************************)
(* One Helm release of the platform, as EnsureRelease converges it and      *)
(* uninstallRelease removes it.                                             *)
(*                                                                          *)
(* Helm keeps a history of revisions and marks the one an operation is      *)
(* working on: pending-* before it applies the chart, deployed or failed    *)
(* after, uninstalling before it removes the objects. Each operation is two *)
(* steps here, the record and its completion, because the operator can die  *)
(* between them and the next process finds the mark. Helm itself is not     *)
(* part of the repository; it is modelled by what the code expects of it.   *)
(***************************************************************************)
EXTENDS Naturals, Sequences

CONSTANTS
    Charts,      \* versions of the chart embedded in an operator build
    Settings,    \* chart values an operator build may set
    Deletes,     \* whether the platform may be deleted
    MaxRollouts, \* bound of the model: operator rollouts
    MaxMishaps,  \* bound of the model: crashes, failed removals, foreign installs
                 \* and removals of this operator's release
    Faults,      \* what may go wrong, and what others may do
    NoValues,    \* the nil Config under which Helm stores an empty values map
    None, Mixed  \* objects in the cluster: none, those of an unfinished operation

ASSUME ReleaseConstants ==
    /\ Charts # {}
    /\ Deletes \in BOOLEAN
    /\ MaxRollouts \in Nat /\ MaxMishaps \in Nat
    /\ \A vals \in SUBSET Settings : vals # NoValues
    /\ None # Mixed

VARIABLES
    spec,     \* the platform: live, being deleted, or gone
    build,    \* the chart and the values the running operator renders
    store,    \* Helm's history of the release
    objects,  \* the revision the cluster's objects are those of
    queued,   \* whether the platform is in the workqueue
    w,        \* the reconcile worker
    outcome,  \* how the last pass over this release ended
    used      \* rollouts and mishaps so far

vars == <<spec, build, store, objects, queued, w, outcome, used>>

--------------------------------------------------------------------------------
Values == SUBSET Settings

Pending == {"pending-install", "pending-upgrade", "pending-rollback"}

Usable == {"deployed", "superseded"}

Statuses == Pending \union Usable \union {"failed", "uninstalling", "uninstalled"}

Revision == [status : Statuses, chart : Charts, config : {NoValues} \union (Values \ {{}}),
             owned : BOOLEAN]

\* Mutated form: the empty values map is stored as it is.
StoredAsIs(vals) == vals

\* Helm stores an empty values map as a nil Config.
Stored(vals) == IF vals = {} THEN NoValues ELSE vals

\* Mutated form: the values are compared as they are.
RawFingerprint(version, config) == <<version, config>>

\* A desired or stored state as chart version plus values, nil and empty alike.
fingerprint(version, config) ==
    <<version, IF config = NoValues THEN {} ELSE config>>

liveFingerprint(rel) == fingerprint(rel.chart, rel.config)

Latest == store[Len(store)]

Exists == store # <<>>

\* renderAgentgatewayValues and renderAgentgatewayCRDsValues do not read the
\* platform: chart and values are the operator build's.
Build == [chart : Charts, vals : Values]

\* What a pass carries: the operation it chose and the revision to go back to,
\* the status EnsureRelease read (repairMethod is asked about that one), and,
\* for the properties, whether this operator's release was taken away under it.
Worker == [pc : {"idle", "install", "upgrade", "history", "rollback", "uninstall",
                 "applying", "deleting"},
           op : {"converge", "repair", "reinstall", "drain"}, rev : Nat,
           live : Statuses \union {"none"}, lost : BOOLEAN]

Idle == [pc |-> "idle", op |-> "converge", rev |-> 0, live |-> "none", lost |-> FALSE]

Outcome == [action : {"none", "error", "converged", "rolledback", "held", "waiting",
                      "refused", "drained"}, build : Build]

\* Every value a variable may take: among others no stored revision has an empty
\* values map, which Helm stores as nil.
TypeOK ==
    /\ spec \in {"live", "deleting", "gone"}
    /\ build \in Build
    /\ store \in Seq(Revision)
    /\ objects \in Revision \union {None, Mixed}
    /\ queued \in BOOLEAN
    /\ w \in Worker
    /\ outcome \in Outcome
    /\ used \in [rollouts : Nat, mishaps : Nat]

\* A platform has just been declared; nothing is installed.
Init ==
    /\ spec = "live"
    /\ build \in Build
    /\ store = <<>>
    /\ objects = None
    /\ queued = TRUE
    /\ w = Idle
    /\ outcome = [action |-> "none", build |-> build]
    /\ used = [rollouts |-> 0, mishaps |-> 0]

--------------------------------------------------------------------------------
(***************************************************************************)
(* The decision.                                                            *)
(***************************************************************************)

\* What Client.Status reads of the release.
Status == IF Exists THEN Latest.status ELSE "none"

\* Mutated form: the ownership check is left out.
ClassifyAnyOwner(want) ==
    IF ~Exists THEN "install"
    ELSE IF Latest.status = "deployed"
         THEN IF liveFingerprint(Latest) # want THEN "upgrade" ELSE "unchanged"
    ELSE IF Latest.status \in Pending \union {"failed"}
         THEN IF liveFingerprint(Latest) # want THEN "repair" ELSE "hold"
    ELSE IF Latest.status = "uninstalling" THEN "wait" ELSE "install"

\* Mutated form: a deployed release is taken to be the desired one.
ClassifyByStatus(want) ==
    CASE ~Exists -> "install"
      [] Exists /\ Latest.status = "deployed" -> "unchanged"
      [] OTHER -> "hold"

\* Mutated form: a release half removed is upgraded.
UpgradeUninstalling(want) ==
    IF ~Exists THEN "install"
    ELSE IF ~Latest.owned THEN "refuse"
    ELSE IF Latest.status \in Pending \union {"failed"} THEN "repair"
    ELSE IF Latest.status = "uninstalling" THEN "upgrade"
    ELSE "unchanged"

\* The decision table: what to do about the live release, given the desired
\* fingerprint. A release of somebody else's is refused before anything.
classify(want) ==
    CASE ~Exists -> "install"
      [] Exists /\ ~Latest.owned -> "refuse"
      [] Exists /\ Latest.owned /\ Latest.status = "deployed" ->
           IF liveFingerprint(Latest) # want THEN "upgrade" ELSE "unchanged"
      [] Exists /\ Latest.owned /\ Latest.status \in Pending \union {"failed"} ->
           IF liveFingerprint(Latest) # want THEN "repair" ELSE "hold"
      [] Exists /\ Latest.owned /\ Latest.status = "uninstalling" -> "wait"
      [] OTHER -> "install"

UsableRevisions == {i \in 1..Len(store) : store[i].status \in Usable}

\* Mutated form: a pending release is removed, whatever it holds.
ReinstallPending(status, hasDeployed) ==
    IF hasDeployed /\ status \notin Pending THEN "upgrade" ELSE "uninstall"

\* The least destructive way out of a failed or pending release.
repairMethod(status, hasDeployed) ==
    CASE status \in Pending /\ hasDeployed -> "rollback"
      [] status \notin Pending /\ hasDeployed -> "upgrade"
      [] OTHER -> "uninstall"

\* Mutated form: a rollback is not looked at again.
RollbackIsFinal(action) == action \in {"error", "waiting"}

\* Whether the pass comes back to the release by itself, by an error or
\* RequeueAfter; a held or refused release waits for somebody else.
Requeues(action) == action \in {"error", "rolledback", "waiting"}

\* The pass over this release ends: an error is returned, or handleReleaseResult
\* reports the outcome. The install goes on only if it is "converged".
handleReleaseResult(action) ==
    /\ outcome' = [action |-> action, build |-> build]
    /\ queued' = (queued \/ Requeues(action))
    /\ w' = Idle

--------------------------------------------------------------------------------
(***************************************************************************)
(* The worker.                                                              *)
(***************************************************************************)

\* A pass over the release: EnsureRelease reads its status and decides, or,
\* for a platform being deleted, uninstallRelease goes straight to Uninstall.
EnsureRelease ==
    /\ w.pc = "idle" /\ queued /\ spec = "live"
    /\ LET decision == classify(fingerprint(build.chart, build.vals))
           begin(pc) ==
               /\ w' = [Idle EXCEPT !.pc = pc, !.live = Status]
               /\ queued' = FALSE
               /\ outcome' = [action |-> "none", build |-> build]
           report(action) ==
               /\ outcome' = [action |-> action, build |-> build]
               /\ queued' = Requeues(action)
               /\ UNCHANGED w
       IN  \/ decision = "install" /\ begin("install")
           \/ decision = "upgrade" /\ begin("upgrade")
           \/ decision = "repair" /\ begin("history")
           \/ decision = "hold" /\ report("held")
           \/ decision = "wait" /\ report("waiting")
           \/ decision = "refuse" /\ report("refused")
           \/ decision = "unchanged" /\ report("converged")
           \/ "api" \in Faults /\ report("error")
    /\ UNCHANGED <<spec, build, store, objects, used>>

\* Mutated form: a drain leaves alone a release it did not install or that is
\* already on its way out.
DrainOnlyDeployed ==
    /\ w.pc = "idle" /\ queued /\ spec = "deleting"
    /\ queued' = FALSE
    /\ IF Exists /\ Latest.status \notin Usable
       THEN UNCHANGED w
       ELSE w' = [Idle EXCEPT !.pc = "uninstall", !.op = "drain"]
    /\ UNCHANGED <<spec, build, store, objects, outcome, used>>

uninstallRelease ==
    /\ w.pc = "idle" /\ queued /\ spec = "deleting"
    /\ queued' = FALSE
    /\ w' = [Idle EXCEPT !.pc = "uninstall", !.op = "drain"]
    /\ UNCHANGED <<spec, build, store, objects, outcome, used>>

\* The repair reads the history for a revision to go back to.
LastDeployedRevision ==
    /\ w.pc = "history"
    /\ \/ \E method \in {"rollback", "upgrade", "uninstall"} :
             /\ method = repairMethod(w.live, UsableRevisions # {})
             /\ w' = [w EXCEPT
                        !.pc = method,
                        !.op = IF method = "uninstall" THEN "reinstall" ELSE "repair",
                        !.rev = IF method # "rollback" THEN 0 ELSE
                                CHOOSE i \in UsableRevisions :
                                    \A j \in UsableRevisions : j <= i]
             /\ UNCHANGED <<queued, outcome>>
       \/ "api" \in Faults /\ handleReleaseResult("error")
    /\ UNCHANGED <<spec, build, store, objects, used>>

Record(status, c, config, owned) ==
    store' = Append(store, [status |-> status, chart |-> c, config |-> config,
                            owned |-> owned])

Applying == w' = [w EXCEPT !.pc = "applying"] /\ UNCHANGED <<queued, outcome>>

\* Helm refuses a name that is still in use, whatever the release's status.
Install ==
    /\ w.pc = "install"
    /\ \/ /\ ~Exists
          /\ Record("pending-install", build.chart, Stored(build.vals), TRUE)
          /\ Applying
       \/ /\ Exists \/ "api" \in Faults
          /\ handleReleaseResult("error")
          /\ UNCHANGED store
    /\ UNCHANGED <<spec, build, objects, used>>

\* Helm refuses to upgrade a release that is absent, pending or uninstalled. It
\* does not ask whose release it is.
Upgradable == Exists /\ Latest.status \notin Pending \union {"uninstalled"}

Upgrade ==
    /\ w.pc = "upgrade"
    /\ \/ /\ Upgradable
          /\ Record("pending-upgrade", build.chart, Stored(build.vals), TRUE)
          /\ Applying
       \/ /\ ~Upgradable \/ "api" \in Faults
          /\ handleReleaseResult("error")
          /\ UNCHANGED store
    /\ UNCHANGED <<spec, build, objects, used>>

\* A rollback is a new revision with an earlier one's chart, values and labels.
Rollback ==
    /\ w.pc = "rollback"
    /\ \/ /\ w.rev \in 1..Len(store)
          /\ LET target == store[w.rev]
             IN  Record("pending-rollback", target.chart, target.config, target.owned)
          /\ Applying
       \/ /\ w.rev \notin 1..Len(store) \/ "api" \in Faults
          /\ handleReleaseResult("error")
          /\ UNCHANGED store
    /\ UNCHANGED <<spec, build, objects, used>>

\* The operation completes: the revision becomes deployed and earlier ones
\* superseded, or it is marked failed. A failed rollback also supersedes the
\* revision it started from.
Applied(ok) ==
    /\ w.pc = "applying"
    /\ ok \/ "apply" \in Faults
    /\ LET n == Len(store)
           rolling == Latest.status = "pending-rollback"
       IN  /\ store' = [i \in 1..n |->
                 CASE i = n /\ ok -> [store[i] EXCEPT !.status = "deployed"]
                   [] i = n /\ ~ok -> [store[i] EXCEPT !.status = "failed"]
                   [] i < n /\ ok /\ store[i].status = "deployed" ->
                        [store[i] EXCEPT !.status = "superseded"]
                   [] i = n - 1 /\ ~ok /\ rolling ->
                        [store[i] EXCEPT !.status = "superseded"]
                   [] OTHER -> store[i]]
           /\ objects' = IF ok THEN [Latest EXCEPT !.status = "deployed"] ELSE Mixed
           /\ handleReleaseResult(CASE ~ok -> "error"
                                    [] ok /\ rolling -> "rolledback"
                                    [] OTHER -> "converged")
    /\ UNCHANGED <<spec, build, used>>

\* With the release gone, a repair reinstalls it and a drain lets the platform go.
Removed ==
    \/ /\ w.op = "reinstall"
       /\ w' = [w EXCEPT !.pc = "install"]
       /\ UNCHANGED <<queued, outcome, spec>>
    \/ /\ w.op = "drain"
       /\ spec' = "gone"
       /\ handleReleaseResult("drained")

\* Uninstall of a release that is gone is a success.
Uninstall ==
    /\ w.pc = "uninstall"
    /\ \/ /\ Exists
          /\ store' = [store EXCEPT ![Len(store)].status = "uninstalling"]
          /\ w' = [w EXCEPT !.pc = "deleting"]
          /\ UNCHANGED <<queued, outcome, spec>>
       \/ /\ ~Exists
          /\ Removed
          /\ UNCHANGED store
       \/ /\ "api" \in Faults
          /\ handleReleaseResult("error")
          /\ UNCHANGED <<store, spec>>
    /\ UNCHANGED <<build, objects, used>>

\* The objects are removed and the history purged; an object that could not be
\* removed leaves the release uninstalling.
Uninstalled(ok) ==
    /\ w.pc = "deleting"
    /\ \/ /\ ok
          /\ store' = <<>>
          /\ objects' = None
          /\ UNCHANGED used
          /\ Removed
       \/ /\ ~ok /\ "delete" \in Faults /\ used.mishaps < MaxMishaps
          /\ used' = [used EXCEPT !.mishaps = @ + 1]
          /\ objects' = Mixed
          /\ handleReleaseResult("error")
          /\ UNCHANGED <<store, spec>>
    /\ UNCHANGED build

Converge == EnsureRelease \/ LastDeployedRevision \/ Install \/ Upgrade \/ Rollback
            \/ (\E ok \in BOOLEAN : Applied(ok))

Remove == uninstallRelease \/ Uninstall \/ (\E ok \in BOOLEAN : Uninstalled(ok))

--------------------------------------------------------------------------------
(***************************************************************************)
(* What happens around the worker.                                          *)
(***************************************************************************)

\* An edit of the platform wakes the worker; it changes no input of the chart.
EditPlatform ==
    /\ spec = "live"
    /\ queued' = TRUE
    /\ UNCHANGED <<spec, build, store, objects, w, outcome, used>>

DeletePlatform ==
    /\ Deletes /\ spec = "live"
    /\ spec' = "deleting"
    /\ queued' = TRUE
    /\ UNCHANGED <<build, store, objects, w, outcome, used>>

\* The operator dies; the next process lists the platform and reconciles it.
Crash ==
    /\ "crash" \in Faults /\ used.mishaps < MaxMishaps /\ spec # "gone"
    /\ used' = [used EXCEPT !.mishaps = @ + 1]
    /\ w' = Idle
    /\ queued' = TRUE
    /\ UNCHANGED <<spec, build, store, objects, outcome>>

\* The operator is replaced by a build with another chart or other values.
Rollout ==
    /\ "rollout" \in Faults /\ spec # "gone"
    /\ used.rollouts < MaxRollouts /\ used.mishaps < MaxMishaps
    /\ used' = [rollouts |-> used.rollouts + 1, mishaps |-> used.mishaps + 1]
    /\ build' \in Build \ {build}
    /\ w' = Idle
    /\ queued' = TRUE
    /\ UNCHANGED <<spec, store, objects, outcome>>

\* Somebody else installs a release of this name, and may remove it again. (It
\* counts as a mishap: others do not use the name for ever.)
ForeignInstall ==
    /\ "foreign" \in Faults /\ ~Exists /\ spec # "gone"
    /\ used.mishaps < MaxMishaps
    /\ used' = [used EXCEPT !.mishaps = @ + 1]
    /\ \E c \in Charts, v \in Values :
          /\ Record("deployed", c, Stored(v), FALSE)
          /\ objects' = [status |-> "deployed", chart |-> c, config |-> Stored(v),
                         owned |-> FALSE]
    /\ UNCHANGED <<spec, build, queued, w, outcome>>

\* Somebody purges the release, theirs or this operator's, at any moment but
\* inside one of the operator's own operations on it. (Taking this operator's
\* counts as a mishap.)
ForeignUninstall ==
    /\ "foreign" \in Faults /\ Exists
    /\ w.pc \notin {"applying", "deleting"}
    /\ \/ ~Latest.owned /\ UNCHANGED <<used, w>>
       \/ /\ Latest.owned /\ used.mishaps < MaxMishaps
          /\ used' = [used EXCEPT !.mishaps = @ + 1]
          /\ w' = [w EXCEPT !.lost = (w.pc # "idle")]
    /\ store' = <<>>
    /\ objects' = None
    /\ UNCHANGED <<spec, build, queued, outcome>>

\* A cluster operator uninstalls the release by hand, keeping its history.
UninstallKeepingHistory ==
    /\ "keepHistory" \in Faults /\ Exists /\ Latest.status = "deployed"
    /\ store' = [store EXCEPT ![Len(store)].status = "uninstalled"]
    /\ objects' = None
    /\ UNCHANGED <<spec, build, queued, w, outcome, used>>

Environment == EditPlatform \/ DeletePlatform \/ Crash \/ Rollout
               \/ ForeignInstall \/ ForeignUninstall \/ UninstallKeepingHistory

Next == Converge \/ Remove \/ Environment

Spec == Init /\ [][Next]_vars

\* A call to Helm or the API server that is answered.
Answered(pc) ==
    /\ w.pc = pc
    /\ Converge \/ Remove
    /\ ~(w'.pc = "idle" /\ outcome'.action = "error")

\* The worker runs and Helm's operations end: they are bounded by actionTimeout.
\* A call that is tried again and again is answered at last; what an operation
\* then does to the cluster may fail every time.
FairSpec ==
    /\ Spec
    /\ WF_vars(Converge) /\ WF_vars(Remove)
    /\ \A pc \in {"idle", "history", "install", "upgrade", "rollback", "uninstall"} :
          SF_vars(Answered(pc))

--------------------------------------------------------------------------------
(***************************************************************************)
(* What a pass relies on between its decision and the operation it chose.   *)
(***************************************************************************)

\* A release of somebody else's: no revision of it was made by this operator.
Theirs == Exists /\ \A i \in 1..Len(store) : ~store[i].owned

\* The pass has found the release this operator's and acts on that.
ActsOnOwn ==
    \/ w.pc \in {"history", "upgrade", "rollback"}
    \/ w.pc \in {"uninstall", "deleting"} /\ w.op # "drain"

\* An operation other than Install works on a release of this operator's, unless
\* that release was taken away after EnsureRelease had read its owner.
PassOwns ==
    ~w.lost => /\ ActsOnOwn => Exists /\ Latest.owned
               /\ w.pc = "applying" => Exists /\ ~Theirs

\* What a pass then finds in its place is somebody else's.
LostIsReplaced == w.lost /\ ActsOnOwn /\ Exists => Theirs

\* A release is removed only for a deleted platform, or if nothing in it works.
RemovalJustified ==
    /\ w.op = "drain" => spec # "live"
    /\ w.pc \in {"uninstall", "deleting"} /\ w.op # "drain" /\ ~w.lost =>
           UsableRevisions = {}

\* While Helm is at work the latest revision carries its mark.
OperationMarked ==
    /\ w.pc = "applying" => Exists /\ Latest.status \in Pending
    /\ w.pc = "deleting" => Exists /\ Latest.status = "uninstalling"

\* Inductive: what EnsureRelease's ownership check and LastDeployedRevision's
\* choice of repair established still holds when the operation they led to runs,
\* whatever else happened in between: unless somebody removed this operator's
\* release in the middle of the pass, which no later call of the pass rechecks.
DecisionHolds == PassOwns /\ LostIsReplaced /\ RemovalJustified /\ OperationMarked

--------------------------------------------------------------------------------
(***************************************************************************)
(* Properties.                                                              *)
(***************************************************************************)

\* EnsureRelease does not churn: the history grows by at most one revision for
\* each rollout and one for each time the operator died, however many passes,
\* failures and retries there were.
NoChurn == Len(store) <= 1 + used.rollouts + used.mishaps

\* The last step of a pass.
EndsPass == w'.pc = "idle" /\ (w.pc # "idle" \/ (queued /\ ~queued'))

\* The install steps after a release run only if that release is then deployed,
\* is this operator's, and its objects in the cluster are those of the chart
\* and values the pass set out to converge: handleReleaseResult stops every
\* other outcome of EnsureRelease.
GateOpensOnDesired ==
    [][EndsPass /\ outcome'.action = "converged" /\ spec = "live" =>
          /\ Exists'
          /\ Latest'.status = "deployed" /\ Latest'.owned
          /\ Latest'.chart = build.chart /\ Latest'.config = Stored(build.vals)
          /\ objects' = Latest']_vars

\* A repair keeps what works: while the platform is not being deleted, no step
\* of a pass gives up the last revision of this operator's release that was once
\* deployed; only a release that has none is removed to be reinstalled.
UsableRevisionKept ==
    [][spec = "live" /\ Exists /\ Latest.owned /\ UsableRevisions # {} /\ w'.pc # w.pc
            => UsableRevisions' # {}]_vars

\* Converging never touches a release of somebody else's, even one that appears
\* between EnsureRelease's reading of the status and the operation it chose,
\* unless this operator's release was taken away to make room for it.
ForeignUntouched ==
    [][Theirs /\ w.op # "drain" /\ ~w.lost /\ w'.pc # w.pc => store' = store]_vars

\* What the rest of the operator needs to know of the history.
ReleaseState ==
    CASE ~Exists -> "none"
      [] Theirs -> "theirs"
      [] Exists /\ ~Theirs /\ Latest.owned /\ Latest.status = "deployed" -> "ours"
      [] Exists /\ ~Theirs /\ Latest.owned /\ Latest.status = "uninstalling" -> "uninstalling"
      [] OTHER -> "failed"

\* A pass has found the release this operator's and has not called Helm yet.
Found == w.pc \in {"history", "upgrade", "rollback"}

Contract == INSTANCE Release WITH state <- ReleaseState, found <- Found

\* EnsureRelease and uninstallRelease, with crashes inside Helm's operations and
\* others using the name, implement the contract of a release: a release of
\* somebody else's becomes this operator's only in a pass that found its own
\* release in that place, and one half removed comes back only after its removal
\* is finished.
KeepsContract == Contract!Spec

\* reconcileDelete is said to drain "everything this operator installed": its
\* Uninstall never removes a release of somebody else's.
DrainSparesForeign ==
    [][Theirs /\ ~w.lost /\ w'.pc # w.pc => store' = store]_vars

\* Whatever the release was left in by a crash, a failure or a rollout, it
\* comes to carry the desired chart and values (deployed, or failed and held),
\* unless the platform is deleted or found somebody else's release. The
\* exceptions are a release somebody took away after the pass that settled it
\* (nothing watches Helm's history), one whose removal was cut short (see
\* WaitHeals) and one that somebody uninstalled with its history kept, whose name
\* Helm refuses to install again.
DesiredReached ==
    <>[](\/ spec # "live" \/ outcome.action = "refused"
         \/ ~Exists /\ outcome.action \in {"converged", "held"}
         \/ /\ Exists
            /\ \/ liveFingerprint(Latest) = fingerprint(build.chart, build.vals)
               \/ ~Latest.owned \/ Latest.status \in {"uninstalling", "uninstalled"})

\* A drain ends with the release gone, from whatever state, because failed and
\* interrupted removals are tried again.
DrainCompletes == (spec = "deleting") ~> (spec = "gone" /\ ~Exists)

\* A release somebody else owns "must not be upgraded, repaired, or reinstalled",
\* also when it has taken the place of this operator's in the middle of a pass.
TheirsLeftAlone ==
    [][Theirs /\ w.op # "drain" /\ w'.pc # w.pc => store' = store]_vars

\* classify holds a release whose inputs have not changed because they "would
\* just fail the same way": what is held was seen to fail.
HeldHasFailed ==
    outcome.action = "held" /\ Exists => Latest.status = "failed"

\* A pass that finds an uninstall in flight waits it out and lets "the race
\* self-heal".
WaitHeals == (outcome.action = "waiting") ~> (outcome.action # "waiting")

\* A release left with no usable record is installed fresh.
InstalledFresh ==
    (Exists /\ Latest.status = "uninstalled" /\ queued)
        ~> (Exists /\ Latest.status # "uninstalled")
================================================================================
