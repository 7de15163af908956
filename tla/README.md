# agentgateway-educates-operator: TLA+ models and proofs

The operator gives every attendee of an Educates workshop a key for an LLM
gateway, and installs and removes that gateway. It is three Kubernetes
controllers and a timer in one process, which talk to each other only through
objects in the API server. This directory holds TLA+ models of the parts where
order, failure and concurrency matter, TLC runs that check them on small
instances, and TLAPS proofs of their safety properties for instances of any size.

## 1. The system

| Component | State | Operations | Talks to |
|---|---|---|---|
| Session reconciler (`agentgatewaysession_controller.go`, `registration.go`) | grant (spec, finalizer, status), key Secret in the workshop namespace, hash-only registration ConfigMap in the gateway namespace | reject a misplaced grant, add the finalizer, resolve the catalog, reuse or mint a key, publish its hash, record the Secret's owner, report | catalog and platform status (address, namespace); woken by grants, Secrets and catalogs |
| Session teardown (`agentgatewaysession_teardown.go`) | deletion timestamp, finalizer | find the gateway namespace, remove the registration within a bounded window, release the finalizer | platform status, registrations |
| Expiry sweeper (`agentgatewaysession_expiry.go`) | none | every minute list the registrations, delete the expired ones | registrations, beside the reconciler |
| Helm convergence (`internal/helm`) | Helm's history of a release | decide, install, upgrade, roll back, reinstall, uninstall | Helm |
| Platform reconciler (`agentgatewayplatform_controller.go`, `gateway_objects.go`, `ratelimit.go`, `policy.go`) | platform (spec, finalizer, status), gateway namespace, releases, Gateway, overlay, rate-limit service, policy | a gated sequence of install steps, or adoption of an external gateway | Helm convergence; woken by the platform, namespaces it controls and the catalog |
| Platform teardown (`agentgatewayplatform_teardown.go`) | the same | drain in reverse order, release the finalizer | Helm |
| Catalog reconciler (`agentgatewaycatalog_controller.go`) | catalog status, a public alias and an internal model per entry in the gateway namespace | gate on the platform and on agentgateway's CRDs, render each pair, prune what is no longer listed, publish names and address | platform status; wakes sessions and the platform |
| Budgets (`budget.go`, `cost.go`, with `registration.go`, `policy.go`, `ratelimit.go`) | none of their own: the grant's and the catalog's budget fields, the key registration, the rate-limit row, the policy, the reported numbers | parse, resolve and format token and cost budgets; publish them by two routes | session reconciler (registration), platform reconciler (row and policy) |

What is hard here:

- caches lag the API server, so a pass decides on old state and finds out, or
  not, when it writes;
- the sweeper and the reconciler write the same registrations;
- the operator can die between any two calls, and inside a Helm operation;
- a pass stops at the first failure, and the next one has to carry on from
  there: everything depends on the object being woken or requeued again;
- several decisions read one object and act on another later (the namespace a
  registration was written to, the owner of a release, a namespace that starts
  terminating);
- finalizers must neither be released too early nor held for ever;
- a budget reaches the gateway by two routes, through two reconcilers, and an edit
  of the catalog has to arrive by the right one.

`PROJECT.json` lists these as hazards, each at its line, with the properties that
would catch it. What makes each component correct: a key is live exactly while
its grant says so, and a registration never lacks someone bound to remove it
(sessions); an expired registration goes, a valid one stays (sweeper); the
release reaches the desired state without churn and without touching other
people's (Helm); nothing outlives what it depends on, a deleted platform leaves
nothing, a Ready one is installed (platform); the gateway offers exactly what the
catalog lists, and never a name with nothing behind it (catalog); every key is
limited by what its grant and the catalog come to, and a maximum binds (budgets).

## 2. Modules

| Module | Models |
|---|---|
| `SessionKeys` | session reconciler, teardown, sweeper and the objects they share |
| `HelmRelease` | one Helm release under `EnsureRelease` and `uninstallRelease` |
| `KeyService` | abstract: what may happen to grants, keys and registrations, whatever runs them |
| `Release` | abstract: what may happen to one release, whatever runs it |
| `Platform` | platform reconciler and teardown |
| `Catalog` | catalog reconciler and the models it renders |
| `Budgets` | budget arithmetic and resolution, and how a budget reaches the gateway |
| `MCSessionKeys`, `MCHelmRelease`, `MCPlatform`, `MCCatalog`, `MCBudgets` | instances for TLC (symmetry sets, names, amounts) |
| `SessionKeysProofs`, `SessionSettledProofs`, `KeyServiceProofs`, `HelmReleaseProofs`, `PlatformProofs`, `CatalogProofs`, `BudgetsProofs` | theorems and proofs |
| `Recursion` | lemmas: induction and recursive functions over numbers |

Definitions keep the names of the Go functions they stand for; `PROJECT.json`
maps each to its lines. Definitions marked "Mutated form" are deliberately wrong
variants used to confirm that each property can fail.

### SessionKeys

`sess`, `sessNs`, `secret`, `reg`, `gwNs`, `platform`, `catalog` and `now` are the
API server and the clock. `seen`, `nsSeen`, `secretSeen` and `regSeen` are what the
informers have delivered; the `Deliver*` actions bring them up to date and put a
grant in the workqueue as its watches would. `w` is the single reconcile worker:
one action per API call, from `Reconcile` to `updateSessionStatus`, and from
`gatewayNamespaceForTeardown` to `releaseSessionFinalizer`. `SweepList` and
`SweepDelete` are the sweeper, interleaved with the worker. An Update carries the
resourceVersion of the cached copy, so it succeeds only if that copy equals what
the API server holds. `excused` is history: the namespaces a grant was let go
without its registration having been removed from.

Abstractions. A cache may skip versions, but the wake-ups of the versions it
skips are kept. Two versions with the same content are not told apart by a
conflict. The platform, the catalog and the gateway namespace are read without
lag. A timed requeue is available at once. A grant is created once. Budgets are
left out of the registration: they are written by the same calls and compared
with the same equality as the expiry, which stands for all metadata. A platform
that has not yet published its namespace is the same as none: the teardown's
fallback to the spec then finds a namespace nothing was written to.

### KeyService

The contract between the operator and those who rely on it: the attendees, the
gateways and whoever deletes a grant. It knows no pass, cache, queue or retry. A
grant is new, claimed (it has the finalizer), leaving or gone (`life`), asks for an
expiry (`term`), has a key in its Secret or none (`key`), and is known to gateways or
not (`entry`). Keys are issued and published for a grant that will be cleaned up
after, or that was waived for every gateway; a key in a Secret is not replaced; a
gateway is told the term of the grant and nothing else; what it was told is taken
back once it has expired or the grant is deleted, never before; a deleted grant
departs with one gateway cleaned, or with none vouched for (`waived`). `ring` holds the
keys that may still come into use for a grant. It only shrinks, but for a key that
no grant has: that is where a stale copy of one grant's key reaching another would
show.

`SessionKeys` implements it (`KeepsKeyContract`). `KeyLife`, `KeyTerm` and `SecretKey`
read the grants and the Secrets, `entry` is `reg`, `waived` is `excused`, and `KeyRing`
is every key the grant's objects hold, the caches show of them, or the pass over it
has in hand. Most steps of `SessionKeys` are none of the contract's.

### HelmRelease

`store` is Helm's history, oldest first; `build` is the chart and the values of
the running operator build (the values renderers do not read the platform, so
only a rollout changes them); `objects` says which revision the cluster's objects
belong to. Every Helm operation is two steps, the record (`pending-*`,
`uninstalling`) and its completion, because the operator can die between them.
`outcome` is how the last pass ended. Helm is external and modelled from the use
the code makes of it: it refuses an install under a name with any history, an
upgrade of a pending release, stores an empty values map as nil, and marks
revisions as above. Chart and values are members of small sets.

Others may install a release of the same name, purge either's release, or uninstall
one and keep its history, between any two calls of a pass. `EnsureRelease` reads the
owner once (`converge.go:58`) and acts at `:70`, `:80`, `:85` or `:88` without asking
again; `w.live` is the status it read, which `repairMethod` is asked about even if
the release has changed since. So there is a window: this operator's release is
removed and somebody else's installed in its place before the chosen operation runs,
which then upgrades, rolls back or removes the foreign release. `w.lost` records, for
the properties, that this operator's release was removed in the middle of the pass.
`DecisionHolds` and `ForeignUntouched` except that pass and nothing else;
`TheirsLeftAlone` does not except it and is refuted (section 3).

Abstractions. Somebody else's Helm process does not work inside an operation of this
operator's on the same release (Helm's own mark of the operation is what guards
that); it comes before or after.

### Release

The contract between the release code and the platform reconciler: a release is
absent, this operator's, unusable, half removed or somebody else's; converging
makes or mends its own, waits for one half removed and refuses somebody else's; a
removal asks nothing. `found` says that a pass has read the release as its own and
may still act on that (`Find`, `Leave`): only then may converging take somebody
else's release for its own. `HelmRelease` implements it (`KeepsContract`): its history of
records is mapped to the state of the latest one (`ReleaseState`). `Platform`, which
keeps only that state of each of its releases, keeps the contract for every one of
them in every namespace (`ReleasesKeepContract`); converging is one step of it, so that
`found` is false throughout. So what `Platform` assumes of a
release is what `HelmRelease` shows.

### Platform

One action per object or release a pass ensures, checks or removes, for the
bundled and the external provider, and for the drain. `rel` gives a release one of
five states, which is what a pass depends on. Converging it fails or is cut short,
mends a failed one and goes on, rolls it back and comes back, holds it, or waits; which
of these, and the steps inside a repair, are `HelmRelease`'s concern. `up` is what has to become ready in
the cluster. `snap` and `status` in `w` are the copies a pass works on while the
platform may be edited, deleted or declared anew.

Abstractions. Reads are of the current state, and fail like writes where that makes a
difference: `releaseFinalizer` takes a platform it cannot read for one that is gone and
ends the pass without an error. A crash inside a Helm operation leaves the release
failed, as a failed operation does. The five rate-limit objects are one,
and their collection with the platform is part of that of their namespace. The
cluster-config condition gates nothing and is left out. The catalog reconciler is
`RenderModels`, a whole pass of it. Where somebody else installed a gateway (`Theirs`), their releases
and Gateways have the names this operator uses: those with other names are out of
its reach.

### Catalog

`catalog`, `status`, `platform`, `kinds` and `models` are the API server: the entries
as a function from names to contents, the catalog's status, the platform's
published status, whether agentgateway's CRDs are established, and the models of
each namespace. `w` is the worker: the copy of the catalog the pass read, the status
it will write, and the entries or the listed models it has still to deal with. One
action per call: both gates, each internal model, each alias, the list, each Delete,
the status. The catalog may be edited, deleted and created anew, the platform may
become ready, move and go, and the operator may die between any two of them.

Abstractions. A name is a stem and the number of "-upstream" after it, which is all
that decides whether two names collide. Provider, upstream model, credential and
base URL are one content. The catalog and the platform are read from caches, so an
edit in the model is the cache learning of it. Models are neither watched nor cached
(unstructured objects are read from the API server). Lists come in the API
server's order, by name. `pruneModels` takes a list that fails for want of the kind for
an empty one; a kind that is established stays, so that this does not happen after the
gate. Deletions of models by the platform's teardown are in
`Platform`.

### Budgets

`grant` and `catalog` hold the budget fields; `reg` the key registrations by name,
`row` and `policy` what the platform reconciler renders, `report` what the grants'
statuses say. `s` and `p` are the workers of the session and the platform
reconciler, with `queue` and `queued` their workqueues. A pass over a grant reads
the grant, reads the catalog and resolves, registers, reports; a pass over the
platform writes the row, waits for the service, reads the catalog again and writes
the policy. `mapCatalogToSessions` is applied to the object before and after an
update, as controller-runtime does.

The ConfigMaps the operator writes are read from a cache that may be behind its own
writes (`regSeen`, `rowSeen`; `Lag` says which). A pass that finds none creates it and
takes AlreadyExists for success; an Update over what the cache is behind on is a
conflict. ConfigMaps are not watched, so that a delivery wakes nobody. `misread` and
`rowMisread` record, for the properties, that a pass left a registration, or the row,
at something else than it resolved because of this. The properties except those
objects and nothing else; the instances of section 3 that do not except them fail.

The arithmetic is the code's: `parseDigits` with its check before the
multiplication on integers up to `MaxInt`, truncation and padding in
`ParseDollarsToMicroDollars`, trimming in `formatMicroDollars`. `ExactCeiling` and
`ReportHonest` compare it with a reference on rationals (`Micros`); powers of ten
are a recursive function (`Tens`). In the instances
`MaxInt` is 255 and two decimals are kept, so that every boundary is within reach.

Abstractions. A token budget of 0 is nil (the schema's minimum is 1); a cost of 0 is
no cost ceiling, or an amount that could not be read. Amounts are digits, which is
what the schema's pattern admits. The key, its Secret and its expiry are in
`SessionKeys`; a failed write of the Secret is the same retry as one of the
registration. Two versions with the same content are not told apart by a conflict. The
policy is unstructured and read from the API server. Grants and the catalog are read
from one cache, so that an edit is the cache learning of it, and the List in
`mapCatalogToSessions` reads that cache after it has synced: its error branch is not
taken. The rate limiter's own counting, and the CEL that prices a request,
belong to the gateway.

## 3. Runs

All runs say `CHECK_DEADLOCK FALSE`: the system rests when nobody asks anything of
it, and the bounds on time, mishaps and edits end every behaviour.

### Runs that pass

| Run | Shows | Bounds |
|---|---|---|
| `session_safety` | `RegistrationGuarded` and its inductive form `GuardInv`; `WindowKept`: a deleted grant whose registration is still there is not let go before the finalizer's window is over; with stale session and namespace caches, restarts, force deletes, lost Secrets, edited TTLs, failed writes, removals and sweeps, an ending session | 1 grant, 3 keys, clock 0..1 |
| `session_settled` | `NoSilentRotation`; `ReadyMeansServed` and `NoGrantStranded`: once nothing is left to do, Ready is true and nobody is left Pending or Failed, though every call may fail and the Secret and namespace caches lag | 1 grant, 4 keys |
| `session_move` | `GrantFollowsGateway` for a grant woken by catalog events, between a bundled and an external namespace; a second, misplaced grant shares the worker and the sweeper; `SweepSparesLiveKeys` | 2 grants, 2 keys, 2 namespaces |
| `session_liveness` | `DeletionCompletes`, `ExpiredKeyRevoked`, `SecretRepaired`; `KeepsKeyContract`: with restarts, force deletes, lost Secrets, failed removals and an ending session, `SessionKeys` implements `KeyService` | 1 grant, 3 keys, clock 0..2 |
| `helm` | `NoChurn`, `GateOpensOnDesired`, `UsableRevisionKept`, `DecisionHolds` and `ForeignUntouched` with foreign releases appearing, and either's release removed, between any two calls of a pass; `KeepsContract`; `DesiredReached`, `DrainCompletes` | 2 rollouts, 3 mishaps, 2 charts |
| `platform_install` | `DrainedWhenGone`, `ReleasesKeepContract` through install, drain and a second install, bundled and external, with failing reads, writes, deletes and releases | 2 declarations, 2 mishaps |
| `platform_switch` | `DependenciesPresent`, `ReadyIsInstalled` through install, drain and an edit of provider or namespace | 1 edit, 2 mishaps |
| `platform_liveness` | `InstallCompletes`, `DeletionCompletes` | 2 declarations, 3 mishaps |
| `catalog` | `RenderedExactly`: what is settled is exactly the catalog, at the gateway that serves; `AliasServed` at every step of rendering and pruning; `HandWrittenKept`; `EntryTakesEffect` | 2 names, 2 contents, 2 namespaces, 2 edits, 2 platform changes, 1 mishap |
| `budgets` | `EnforcedAsDeclared`, `SharedCeilingCurrent`, `ExactCeiling`, `ReportHonest`: when both reconcilers are done the gateway enforces, on every object, what grant and catalog come to, and the status says it; `LoweredMaximumBinds`; with lagging caches of the registrations and the row | 1 grant, 3 grant and 3 catalog specs, 1 edit, 1 mishap |

Why the bounds are enough. A grant meets another only in the workqueue and in the
order of the sweep, so two suffice for those, and one for the rest. Keys: one in
each place a key can be held at once in that instance (Secret, cache, registration,
worker), so that a fresh one always exists. Clock: one unit is enough to pass a TTL
and the finalizer's window, two to have something happen after. Rollouts and
mishaps: a crash, a failed repair and a second crash reach every combination of
marks in the history. Keys are symmetric (safety runs only). Catalog: two edits drop
an entry and list it again, or rename one, while two platform changes move the
gateway. Budgets: the specs cover inheriting, pinning, an amount with a digit too
many, one out of range, a default, a maximum below both and one that cannot be
read, and one edit leads from each to each; grants do not meet unless they share a
name. Wider safety instances pass too, outside the regular runs: `Budgets` with two
grants, two edits and no lag (10.9 million states), or one grant, two edits and both
caches lagging (5.2 million), `HelmRelease` with five mishaps (0.2 million), `Catalog` with three edits (1.6
million), `KeepsKeyContract` beside a moving and a deleted platform, a failing sweep
and a lagging registration cache (0.7 million) or lagging session and namespace
caches (0.5 million), `DependenciesPresent` and `ReadyIsInstalled` over two
declarations (3.7 million).

Fairness. The worker, the informers, the sweeper's ticker and the clock run:
controller-runtime runs a worker for a non-empty queue, requeues errors, and its
informers deliver; the sweeper is a `Runnable` of the leader. In `SessionKeys` it is
strong fairness for the worker, the sweeper and the clock, because an undelivered
event of a kind whose cache does not lag disables them for a moment. Helm
operations end, being bounded by `actionTimeout`; in `HelmRelease` it is strong
fairness that a pass which keeps being started is at last answered rather than
failed (failures are bounded). In `Platform` what the cluster was
asked to start comes up and a terminating namespace is emptied. Crashes, failed
calls and edits are never required, and are bounded in `HelmRelease` and
`Platform`: liveness holds once they stop. A failing removal in `SessionKeys` is
not bounded: `DeletionCompletes` holds even if it fails for ever. In `Budgets` both
workers run and a queued grant gets its turn (strong fairness per grant: the
workqueue is first in, first out, and one grant waiting for the catalog may take the
worker again and again), and the caches catch up; the catalog reconciler reports a catalog Ready, which
`Catalog` shows for a gateway that serves. In `Catalog` the worker runs and the CRDs
are established at some time.

What the passing runs leave out, because the property is then false (next
subsection): a lagging registration cache in `session_settled`, a grant that
inherits its budget and an edited TTL in `session_move`, a moving gateway in
`session_safety` (`WindowKept`), an edited TTL in `session_liveness`
(`KeepsKeyContract`), a lost Uninstalling status in `platform_install`, colliding names in `catalog`, grants of one name and amounts
below a micro-dollar in `budgets`, failed releases, failed rate-limit writes and a
failed read of the platform at its end in `platform_liveness`. The last also leaves out
deleted namespaces, which may be deleted again and again. In `helm` and `budgets` the
faults are there and the properties name the exception: a pass in whose middle this
operator's release was removed (`w.lost`), a registration or row that a pass misread.

### Runs that find a disagreement

Each states what a comment of the source says and finds a behaviour of the code
that contradicts it. `PROJECT.json` quotes the line and explains the trace.

| Run | Property | What happens |
|---|---|---|
| `platform_external_uninstalled` | `TheirReleaseKept` | declaring an external gateway uninstalls the releases somebody else installed it with |
| `budgets_reported` | `ReportedIsEnforced` | a catalog edit reaches an inheriting grant through the shared policy; the number in its status stays behind |

### Other disagreements met while modelling

The same modules show these with the constants given (changes to the named `.cfg`,
checking only the named property). They are kept out of the regular runs.

| Property | Instance | What happens, and what the source says |
|---|---|---|
| `ReadyMeansServed` | `SessionSettled`, `Lag = {"registration"}`, `Faults = {"loseSecret"}`, `TTLs = {2}`, `MaxTime = 2` | a Secret is lost while the registration's cache is behind; `ensureRegistration` takes AlreadyExists for success and Ready is reported with the hash of the lost key (`agentgatewaysession_controller.go:672`; "the attendee's key is live") |
| `SweepSparesLiveKeys` | `SessionSafety`, `Lag = {}`, `Faults = {"editTTL"}`, `MaxTime = 2` | a registration renewed between the sweep's list and its Delete is revoked (`agentgatewaysession_expiry.go:126`; "a ConfigMap with any still-valid entry must survive") |
| `ExpiredStaysRevoked` | `SessionSafety`, `Lag = {}`, `TTLs = {1}`, `Faults = {"crash"}`, `MaxTime = 2`, `RestartsUntil = 2` | any pass after the sweep registers the expired key again (`agentgatewaysession_controller.go:671`; "ExpiresAt is when the participant key stops working") |
| `NothingMintedAtEnd` | `SessionSafety`, `Lag = {}`, `TTLs = {2}`, `Faults = {"sessionEnds"}` | the namespace starts terminating between the check and the write (`agentgatewaysession_controller.go:501`; "Nothing is minted once the session namespace is on its way out") |
| `KeySecretOwned` | `SessionSafety`, `Lag = {}`, `TTLs = {2}`, `Faults = {"preSecret"}` | an empty Secret made beforehand is given a key and no owner (`agentgatewaysession_controller.go:540`; "The Secret is owned by the session *namespace*") |
| `NothingLeftBehind` | `SessionMove`, `Sessions = {s1}`, `Misplaced = {}`, `External = {}`, `TTLs = {2}`, `Faults = {"move", "catalog"}` | teardown looks in the namespace the platform names now, and leaves the registration it wrote before the gateway moved (`agentgatewaysession_teardown.go:110`; "finds where the registration lives") |
| `NothingLeftBehind` | `SessionMove`, `Sessions = {s1}`, `Misplaced = {}`, `Gateways = {g1}`, `External = {g1}`, `TTLs = {2}`, `Faults = {"platformDelete"}` | the platform of an external gateway is deleted, its namespace is not, and a grant deleted later leaves its registration there (`agentgatewaysession_teardown.go:52`; "the gateway namespace is gone with it") |
| `ReadyConditionHonest` | `SessionSafety`, `Lag = {}`, `TTLs = {2}`, `Faults = {"sessionEnds"}`, `MaxTime = 2` | an ended session keeps Ready=True with its Secret gone (`agentgatewaysession_controller.go:137`; "Conditions are authoritative") |
| `GrantFollowsGateway` | `SessionMove`, `Sessions = {s1}`, `Misplaced = {}`, `Pinned = {}`, `TTLs = {2}` | a grant that inherits its budget is not woken and does not follow the gateway (`agentgatewaysession_controller.go:807`; waking it is called "harmless in effect, since their resolved budget is unchanged") |
| `DrainSparesForeign` | `Helm`, `Faults = {"foreign"}`, `MaxRollouts = 1`, `MaxMishaps = 1` | the drain removes a release of the same name somebody else installed (`client.go:145`; "drains everything this operator installed") |
| `TheirsLeftAlone` | `Helm` | this operator's release is removed and somebody else's installed between the reading of the status and the operation chosen, which then runs on the foreign release (`converge.go:58`, and `:70`, `:80`, `:85`, `:88`; `:126` "A release somebody else owns must not be upgraded, repaired, or reinstalled") |
| `HeldHasFailed` | `Helm`, `Deletes = FALSE`, `Faults = {"crash"}`, `MaxRollouts = 1`, `MaxMishaps = 1` | a release interrupted by a crash is held as failed (`converge.go:146`; "Retrying the same inputs would just fail the same way") |
| `WaitHeals` | `Helm`, `Deletes = FALSE`, `Faults = {"crash", "delete", "apply", "rollout"}`, `MaxRollouts = 1` | a repair's uninstall is cut short, and every later pass waits for an uninstall nobody runs (`converge.go:148`; "so wait it out and let the race self-heal") |
| `InstalledFresh` | `Helm`, `Deletes = FALSE`, `Faults = {"keepHistory"}`, `MaxRollouts = 1`, `MaxMishaps = 0` | a release uninstalled with its history kept can never be installed again (`converge.go:151`; "no usable release record, so install fresh") |
| `SwitchDrains`, `SwitchDrainsModels` | `PlatformSwitch`, `Faults = {}` | a switch to an external gateway leaves the bundled releases, and the models, in the old namespace (`agentgatewayplatform_controller.go:224`; "must not orphan the release", "This runs on a provider switch as well as a full teardown") |
| `TheirGatewayKept` | `VExternalUninstalled` | deleting an external platform deletes the external Gateway if it has this operator's name for it (`agentgatewayplatform_teardown.go:101`; "nothing to drain but the operator's own additions") |
| `TheirNamespaceKept` | `VExternalUninstalled`, `Namespaces = {n1}`, `Existing = {n1}`, `Theirs = {}`, `Providers = {"bundled"}` | an adopted namespace is deleted with the platform (`agentgatewayplatform_teardown.go:86`; "only because this operator created it") |
| `DrainedWhenGone` | `VExternalUninstalled`, `Namespaces = {n1, n2}`, `MaxMishaps = 1`, `Faults = {"status"}` | the Uninstalling status is lost and the catalog renders its models again after the drain (`agentgatewayplatform_teardown.go:39`) |
| `InstallCompletes` | `PlatformLiveness`, `MaxPlatforms = 1`, `MaxMishaps = 1`, `Faults = {"ratelimit"}` | one failed write of a rate-limit object ends the install with no retry (`ratelimit.go:63`; "reconcileRateLimit converges the rate-limit service") |
| `DeletionCompletes` | `PlatformLiveness`, `Existing = {n1}`, `MaxPlatforms = 1`, `MaxMishaps = 1`, `Faults = {"read"}` | the platform cannot be read to release its finalizer; the pass ends without an error and nothing brings it back (`agentgatewayplatform_teardown.go:199`; "releaseFinalizer removes the finalizer so deletion can proceed"). The read is of a cache and seldom fails with anything but NotFound; a namespace the operator made would bring the pass back when it goes, an adopted one does not |
| `FailedIsNotReady` | `PlatformInstall`, `Namespaces = {n1}`, `Existing = {}`, `Theirs = {}`, `Providers = {"bundled"}`, `MaxPlatforms = 1`, `MaxMishaps = 1`, `Faults = {"release"}` | a release that fails after Ready leaves phase Failed with Ready=True (`agentgatewayplatform_controller.go:522`; "Conditions are authoritative") |
| `RenderedExactly`, `AliasServed` | `Catalog`, `CatalogNames <- Colliding`, `MaxMishaps = 0` | a catalog that lists a name and that name with "-upstream" writes one object twice, and an alias points at an alias (`agentgatewaycatalog_controller.go:206`; "Suffixed so it cannot collide with the alias") |
| `AllHandWrittenKept` | `Catalog`, `HandNames <- Taken`, `MaxMishaps = 0` | a model written by hand under a name the catalog lists is overwritten and labelled, and pruned later (`agentgatewaycatalog_controller.go:316`; "a model a cluster operator wrote by hand in the gateway namespace is left alone") |
| `NeverAboveAsked` | `Budgets`, `GrantSpecs <- TinyGrant`, `MaxMishaps = 0` | a budget below one micro-dollar is taken for none, and no ceiling or the default applies (`cost.go:74`; "truncating never enforces a budget larger than the author asked for") |
| `NoKeyAboveMaximum` | `Budgets`, `SPECIFICATION Spec`, `Lag = {"registration"}`, `MaxMishaps = 0` | a maximum is lowered while the cache does not show yet the registration a grant has just got; the pass it wakes takes AlreadyExists for success, and the key stays above the maximum (`agentgatewaysession_controller.go:672`; "or a ceiling would bind only the grants created after it was set, which is not a ceiling") |
| `RegisteredIsReported` | the same | the status shows the dollars resolved anew, the registration keeps the old ones (`agentgatewaysession_controller.go:672`; "EffectiveCostBudget is the spend ceiling actually enforced") |
| `RowFollowsCatalog` | `Budgets`, `SPECIFICATION Spec`, `Lag = {"row"}`, `MaxMishaps = 0` | the same of the rate-limit row, if its cache is behind over a whole pass (`ratelimit.go:374`; "one ConfigMap is rewritten and every inheriting grant follows") |
| `EnforcedAsDeclared` | `Budgets`, `Grants <- SameName`, `MaxEdits = 0`, `MaxMishaps = 0` | two grants of one name in two workshop namespaces share a registration, and one of the keys is not registered (`agentgatewaysession_types.go:297`; "One ConfigMap per session rather than one shared map", `agentgatewaysession_controller.go:606`) |

## 4. Proofs

Seven modules hold the theorems, `Recursion` lemmas they cite; `tlapm` checks all
eight to the last leaf. Every safety property that a passing run checks is stated by
a theorem, for any value of the constants: any number of grants, keys, namespaces,
releases and entries, any bounds on edits, rollouts and mishaps, amounts of any
number of digits. Nothing is assumed but the named assumptions on the constants
(`ConstantsAssumption`, `ReleaseConstants`, `PlatformConstants`, `CatalogConstants`,
`NilConstants`, `BudgetConstants`, `NilEntry`), which say that a nil is not a value
and a bound is a number, and which TLC evaluates in the runs, and the hypotheses a
theorem states (below). A theorem without one holds for every set of faults and of
lagging caches. Two properties' exceptions, `w.lost` and `misread`, are part of what
the theorems say; they are explained in section 2.

Every inductive invariant was checked by TLC before it was proved, on instances of
the sizes of section 3: `SessionSettledProofs` on 0.9, 2.9 and 11.7 million states, the refinement of
`KeyServiceProofs` on 0.7 million,
`PlatformProofs` on 3.7 and 8.5 million, `CatalogProofs` on 0.4 million, `BudgetsProofs`
on 0.5 and 5.2 million, `HelmReleaseProofs` on 61 thousand.

### SessionKeysProofs

- `TypeCorrect`: `TypeOK /\ PassInv`. `PassInv` says what the worker's registers hold
  at each step: the key to publish is a key, the namespace is one, the copy of an
  empty Secret is one without a key. Without it neither the type of a published
  registration nor the next theorem is inductive.
- `KeysAreNotRotated`: `NoSilentRotation`. Only `updateSecretURL`, `writeSecret` and
  the environment write a Secret; the first keeps the key, the second creates where
  there was none or, by `PassInv`, updates one that had none.
- `RegistrationsGuarded`, `FinalizersStand`: `RegistrationGuarded` and `GuardInv`.
  `RegistrationGuarded` alone is not inductive: a pass may publish long after it saw
  the finalizer. `GuardInv` adds that what a cache shows of a live grant's finalizer
  is still true (nothing but deletion, which the cache would show as such, or force
  removes it), that a publishing pass started from such a grant, and that a pass
  about to release has emptied the namespace it looked up.

### SessionSettledProofs

One idea carries this module: whatever a grant still needs is ahead of it. It is
queued, an event of it or of its Secret is undelivered (`Woken`), or a pass is over
it (`Attending`). Each claim about a settled grant is the claim *or* one of these, and
the proofs show that no step loses them all at once.

- `NoneStranded`: `NoGrantStranded`, without hypotheses. `Behind`: what the grant cache
  shows of a grant's life has happened. `Attended`: a status that asks for more work
  comes with a retry, and a live grant whose phase asks for more is woken or attended.
- `SweepHarmless`: `SweepSparesLiveKeys`, if no TTL is edited. `Terms`: all copies of a
  grant, in the API server, the cache and the pass, and all its registrations carry
  one expiry, counted from its creation (`OneExpiry`). So what had expired when the
  sweep listed it has expired when the sweep deletes it, whatever was written in
  between. `PassBehind` and `Unborn` say that no pass and no registration comes before
  its grant.
- `ReadyServed`: `ReadyMeansServed`. `Labelled` and `Noticed`: a Secret cache that shows
  another key or address than the Secret has the event of that ahead of it. `PassKey`:
  the pass registers the key the Secret holds, or the grant is woken. `PassServed`
  carries this to the report, `AllServed` from there to rest. `Standing`: gateway
  namespaces stay.
- `GatewayFollowed`: `GrantFollowsGateway`. `PlatformActive`, `StillThere`: what a pass
  reads as registered is registered. `PassAligned`, `PassReread`, `PassAddressed`,
  `PassFollowed`, `AllFollow`: from the look-up of the gateway to the report, the pass
  works for the gateway of now, or the move that overtook it wakes the grant.
  `Refused`: a misplaced grant is never reported Ready.
- `WindowStands`: `WindowKept`, if the gateway does not move. `PassWindow` follows a
  teardown from the look-up of the gateway to the release of the finalizer: the
  namespace it looked up is the platform's, and either the registration there has
  gone and, the grant being deleted, nothing writes it again, or the window had passed
  when it gave up. The clock only goes forward, so it has passed still when a
  conflict or a restart has delayed the release.

### KeyServiceProofs

- `KeyContractKept`: `KeepsKeyContract`, if no TTL is edited. Of the invariants above it
  takes `GuardInv` (a pass on its way to publishing works for a grant the operator is
  bound to) and `Terms` (the expiry it publishes is the grant's). Its own part is the
  keys: `HandSteps` says where a pass gets what it has in hand, `KeysKept` that a step
  which makes no key leaves every grant with keys it had, wherever they were held. Then
  one lemma per action, from `GrantsCreated` to `KeysIssued`, names the step of the
  contract it takes, and `UnseenSteps` those the contract does not speak of.
- `ContractPromises`: what the contract comes to, from the contract alone
  (`CleanedUpAfter`: a gateway that knows a grant will be cleaned of it, or was waived
  when the grant went; `OneOwner`: no key is in use for two grants; `TermsTold`: a
  gateway that knows a present grant knows its expiry). The invariant `Kept` adds that
  an unclaimed grant is known nowhere. The proof looks at no step of `SessionKeys`.
- `PromisesKept`: the same of `SessionKeys`, by the two before.

### HelmReleaseProofs

- `HelmTypes`, `DecisionsHold`: `TypeOK` and `DecisionHolds`, together inductive (`Inv`).
  A pass beyond its decision works on a release of this operator's, unless it was
  removed under the pass (`PassOwns`), and then on nothing or on somebody else's
  (`LostIsReplaced`); a removal has a deleted platform or the absence of a usable revision
  behind it; a running operation is marked.
- `ForeignReleasesUntouched`, `RepairsKeepWhatWorks`: the action properties
  `ForeignUntouched`, with the same exception, and `UsableRevisionKept`, from `Inv`.
- `GateOpens`: `GateOpensOnDesired`. `Aims` follows a pass from its decision to its
  result: why it is repairing or upgrading (`PassHasCause`), which revision Helm is at
  work on (`PassHasMark`), that it has no result yet (`PassIsOpen`), and that a deployed
  revision's objects are in the cluster (`ObjectsOfLatest`).
- `HistoryBounded`: `NoChurn`. No bound on the length of the history is inductive; the
  length plus the revisions still to come is (`ToCome`: one for an upgrade, two for a
  release first rolled back, none for one that is as wanted, held or waited for). It
  grows with a rollout or a mishap only.
- `ContractImplemented`: `HelmRelease` implements `Release` under `ReleaseState`. The
  initial states map to initial ones, and each step of the operator, of Helm and of
  others to a step of `Release` or to a stutter; a pass that acts on a foreign release
  in place of the one it found takes the `Converge` or `Remove` that `found` allows.

### PlatformProofs

- `PlatformTypes`, `ContractKept`: `TypeOK` and `ReleasesKeepContract`, the latter step
  by step for every release of every namespace.
- `DependenciesKept`: `DependenciesPresent`, from `OrderInv`. `SpecOK`, `PassOK`: what a
  pass can be at with what it read. `Held`: the platform has the finalizer during a
  pass. `Empty`, `Owned`: a namespace that is gone holds nothing, one that was made has
  an owner. `Ordered`: what the previous install step left is there. `Unwound`: a drain
  has removed first what needed the rest.
- `ReadyInstalled`: `ReadyIsInstalled`. `Fresh`: a pass that nothing has overtaken is
  over the platform as it is, and what it has ensured so far is there (`Built`);
  `Rested` carries this past the report.
- `DrainedIfUnedited`: `DrainedWhenGone` for a platform never edited. `Unedited`: a pass
  is over the namespace the platform has (`Unmoved`); what this operator made is there
  (`CleanOutside`), an external platform has only the models (`CleanExternal`); a Ready
  status names that namespace (`Published`), is taken back before the drain (`Unready`,
  so that no model is rendered behind it), and nothing is left when the finalizer goes
  (`Emptied`).

### CatalogProofs

- `CatalogTypes`: `TypeOK`. `HandWrittenUntouched`: `HandWrittenKept`; what a pass is
  about to delete was listed as this operator's (`PrunesOwn`).
- `AliasesServed`: `AliasServed`, if names do not collide. `Rendering` says which pairs a
  pass has written, `Pruning` which models beside them are left, `Reporting` that the
  last pass wrote them all, `Aliases` that no step takes a model from under its alias.
- `CatalogRendered`: `RenderedExactly`, under the same hypothesis. `Current`: a pass that
  nothing has queued anew works from the catalog and the gateway of now.

### BudgetsProofs

- `BudgetTypes`: `TypeOK`. The lemmas behind it show that parsing, resolution and
  formatting stay within an int64.
- `DigitsReadExactly`: `parseDigits` returns the number its digits spell, or fails
  exactly if `MaxInt` is below it: the check before the multiplication is neither late
  nor early.
- `MisreadOnlyByLag`: without a lagging cache of the registrations no grant is ever in
  `misread`, and without one of the row `rowMisread` is false. So the exception in the
  theorems below is empty where the caches are current.
- `SharedCeilingFollows`: `SharedCeilingCurrent`, without hypotheses, from
  `PlatformFollows`: what the pass over the platform has rendered and will render is
  what the catalog comes to, unless it is queued.
- `BudgetsEnforced`: `EnforcedAsDeclared`, from `SessionsFollow` as well: a grant that is
  not queued is registered as declared, or what its pass read is still in force, or its
  last pass misread its registration. It
  rests on `UnwokenIsUnlimited`: a grant that a catalog edit does not wake has the same
  entry under every catalog.
- `CeilingExact`: `ExactCeiling`. Cutting and padding to the decimals and reading the
  digits gives the rational amount (`CutScales`, `TensLaw`, `ExactDollars`).
- `ReportIsHonest`: `ReportHonest`. `ReportsFollow` is `SessionsFollow` for the status;
  `FormatExact` shows that the digits of `formatMicroDollars`, trimmed, spell the
  micro-dollars they are of.

### Recursion

The library states induction of a predicate `P(_)`, which no installed prover can
instantiate. `SetInduction` states it of a set, which can be: a set that holds 0 and
with each number the next holds every number. `RecursiveFunction` and
`BoundedRecursion` give the functions `f[n \in Nat] == ...` their defining equations
the same way. So what `Number`, `Tens` and `parseDigits` compute is proved for strings
of any length; these are recursive functions, and no module here declares a
`RECURSIVE` operator.

### Hypotheses

Some properties do not hold for every value of the constants, because the code does
not make them so. The theorem then says under what condition they do; TLC finds a
counterexample where the condition is dropped, so each is needed.

| Theorem | Hypothesis | Why the code does not guarantee it; where it fails |
|---|---|---|
| `SweepHarmless` | `"editTTL" \notin Faults` | the sweep's Delete has no precondition; section 3, `SweepSparesLiveKeys` |
| `ReadyServed` | `"registration" \notin Lag` | AlreadyExists is taken for success; section 3, `ReadyMeansServed` |
| `ReadyServed` | `"editTTL" \notin Faults` | a sweep deletes the registration that a pass has just renewed and reported; `SessionSettled`, `Faults = {"editTTL"}`, `TTLs = {1, 2}`, `MaxTime = 2` |
| `ReadyServed` | `GatewaysStay` | nothing wakes a grant whose gateway namespace went with the platform; `SessionSettled`, `Lag = {}`, `Faults = {"platformDelete"}`, `TTLs = {2}`, `MaxTime = 2` |
| `GatewayFollowed` | `"editTTL" \notin Faults` | as for `ReadyServed`; `SessionMove`, `Sessions = {s1}`, `Misplaced = {}`, `Faults = {"editTTL"}`, `TTLs = {1, 2}`, `MaxTime = 2` |
| `GatewayFollowed` | `PinnedOrRefused` | a grant that inherits its budget is not woken (section 3), nor is one that was taken for well placed when its namespace could not be read: `SessionMove`, `Sessions = {s2}`, `Pinned = {}`, `Faults = {"nsRead", "move", "catalog"}`, `TTLs = {2}` |
| `DrainedIfUnedited` | `"status" \notin Faults`, `used.edits = 0` | a lost Uninstalling status lets the catalog render behind the drain; an edit leaves the old namespace's releases out of the drain's sight; section 3, `DrainedWhenGone`, and `DrainedWhenGone` on `PlatformSwitch`, `Faults = {}` |
| `KeyContractKept`, `PromisesKept` | `"editTTL" \notin Faults` | a pass publishes the expiry of the TTL it read, which may be edited meanwhile, and a sweep revokes what was renewed after its list; `SessionSafety`, `Lag = {}`, `Faults = {"editTTL"}` |
| `WindowStands` | `"move" \notin Faults` | a gateway that moves and moves back: the pass cleans the namespace it looked up, and lets the grant go after the platform has returned to the one an earlier pass registered the key in; `SessionMove`, `Sessions = {s1}`, `Misplaced = {}`, `Faults = {"move", "catalog"}`, `TTLs = {2}` |
| `AliasesServed`, `CatalogRendered` | `NoCollision` | the schema admits a name and that name with "-upstream"; section 3, `RenderedExactly` |
| `BudgetsEnforced`, `CeilingExact`, `ReportIsHonest` | `DistinctNames` | a registration is named after the grant alone; section 3, `EnforcedAsDeclared` |

### Model-checked only

Liveness, which is out of the prover's reach: `DeletionCompletes`,
`ExpiredKeyRevoked`, `SecretRepaired`, `DesiredReached`, `DrainCompletes`,
`InstallCompletes`, the platform's `DeletionCompletes`, `EntryTakesEffect` and
`LoweredMaximumBinds`. `Release` and `KeyService` state no fairness, so all three
refinements are proved as a whole. What the disagreements of section 3 show are counterexamples, with
nothing to prove.

## 5. Not modelled

- What a request is charged (`costExpression`, `costBudgetOverride`): CEL text that
  the gateway evaluates, on prices this operator does not know. The schema's
  patterns are taken as given.
- The cluster-config condition, which gates nothing.
- Teardown of two grants of one name (their registration is in `Budgets`, the end of
  a grant in `SessionKeys`).
- The gateway itself, Educates, Helm's rendering and hooks, and the Gateway API
  installation.
- Process setup, leader election beyond one active process, RBAC, charts, samples
  and generated code.

## 6. Plan

1. Done: `SessionKeys`, `HelmRelease`, `Platform`, with `Release` as the contract
   between the last two; `Catalog`; `Budgets`; `KeyService` as the contract of
   `SessionKeys`.
2. Done: a theorem for every safety property of the passing runs, and for the
   refinements of `Release` and of `KeyService`.
3. Left: what remains of an edited platform after its drain, as a statement of
   `DrainedWhenGone` that names the namespaces left behind.
4. Left: the contract with edited TTLs, which needs a statement of which terms a
   gateway may still be told of.
5. Liveness stays with TLC.
