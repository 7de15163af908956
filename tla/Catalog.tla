-------------------------------- MODULE Catalog --------------------------------
(***************************************************************************)
(* The AgentGatewayCatalog reconciler: one pair of models at the gateway    *)
(* per catalog entry, a public alias that an attendee addresses and the     *)
(* internal model it selects, and nothing else of the operator's.           *)
(*                                                                          *)
(* A pass renders the pairs one object at a time and then prunes what the   *)
(* catalog no longer lists. The catalog and the platform may change, and    *)
(* the operator may die, between any two steps. Both are read from caches,  *)
(* so a change here is the cache learning of it; models are not watched and *)
(* are read from the API server.                                            *)
(***************************************************************************)
EXTENDS Naturals

CONSTANTS
    Namespaces,    \* namespaces a gateway may be in
    CatalogNames,  \* names a catalog may list
    HandNames,     \* names of models somebody wrote by hand
    Contents,      \* what stands behind a name: provider, model, credential, URL
    MaxEdits,      \* bound of the model: edits of the catalog
    MaxMoves,      \* bound of the model: changes of the platform's status
    MaxMishaps,    \* bound of the model: failed calls and crashes
    Faults,        \* the mishaps that may happen
    NoCatalog, NoPlatform, NoModel

\* A name is a stem and the number of times "-upstream" follows it.
Name == [stem : STRING, upstream : Nat]

\* The concrete model's name.
internalModelName(n) == [n EXCEPT !.upstream = @ + 1]

Rendered == CatalogNames \union {internalModelName(n) : n \in CatalogNames}

Names == Rendered \union HandNames

ASSUME CatalogConstants ==
    /\ CatalogNames \subseteq Name /\ HandNames \subseteq Name
    /\ MaxEdits \in Nat /\ MaxMoves \in Nat /\ MaxMishaps \in Nat

VARIABLES
    catalog,   \* the catalog's entries
    status,    \* its status
    platform,  \* the platform's published status
    kinds,     \* whether agentgateway's CRDs are established
    models,    \* AgentgatewayModels, per namespace
    queued,    \* whether the catalog is in the workqueue or waiting for it
    w,         \* the reconcile worker
    used       \* edits, moves and mishaps so far

vars == <<catalog, status, platform, kinds, models, queued, w, used>>

--------------------------------------------------------------------------------
\* At least one entry; the list is keyed by name.
Entries == UNION {[S -> Contents] : S \in (SUBSET CatalogNames) \ {{}}}

\* What is rendered for an entry, and what somebody may have written by hand. A
\* virtual model must be Public.
Internal == [managed : {TRUE}, visibility : {"Internal"}, match : Contents]
Alias == [managed : {TRUE}, visibility : {"Public"}, match : CatalogNames, target : Names]
ByHand == [managed |-> FALSE, visibility |-> "Public"]

Models == Internal \union Alias \union {ByHand, NoModel}

\* nil is no object.
ASSUME NilConstants ==
    /\ NoCatalog \notin Entries
    /\ NoPlatform \notin [ready : BOOLEAN, ns : Namespaces] \union Namespaces
    /\ NoModel \notin Internal \union Alias \union {ByHand}

Status == [phase : {"none", "Pending", "Ready", "Failed"}, ready : BOOLEAN,
           available : SUBSET CatalogNames, url : Namespaces \union {NoPlatform}]

\* Every value a variable may take; among others, agentgateway admits the models.
TypeOK ==
    /\ catalog \in Entries \union {NoCatalog}
    /\ status \in Status
    /\ platform \in [ready : BOOLEAN, ns : Namespaces] \union {NoPlatform}
    /\ kinds \in BOOLEAN
    /\ models \in [Namespaces -> [Names -> Models]]
    /\ queued \in BOOLEAN
    /\ \/ w.pc = "idle"
       \/ /\ w.pc \in {"platform", "kinds", "internal", "alias", "list", "prune", "status"}
          /\ w.spec \in Entries /\ w.status \in Status
          /\ w.todo \subseteq Names
    /\ used \in [edits : Nat, moves : Nat, mishaps : Nat]

Idle == [pc |-> "idle"]

NewStatus == [phase |-> "none", ready |-> FALSE, available |-> {}, url |-> NoPlatform]

Init ==
    /\ catalog = NoCatalog
    /\ status = NewStatus
    /\ platform = NoPlatform
    /\ kinds = FALSE
    /\ models = [ns \in Namespaces |-> [n \in Names |->
                    IF n \in HandNames THEN ByHand ELSE NoModel]]
    /\ queued = FALSE
    /\ w = Idle
    /\ used = [edits |-> 0, moves |-> 0, mishaps |-> 0]

Mishap(kind) ==
    /\ kind \in Faults /\ used.mishaps < MaxMishaps
    /\ used' = [used EXCEPT !.mishaps = @ + 1]

--------------------------------------------------------------------------------
(***************************************************************************)
(* A pass.                                                                  *)
(***************************************************************************)

\* The worker reads the catalog; there is nothing to do for one that is gone.
Reconcile ==
    /\ w.pc = "idle" /\ queued
    /\ queued' = FALSE
    /\ \/ /\ catalog = NoCatalog
          /\ UNCHANGED w
       \/ /\ catalog # NoCatalog
          /\ w' = [pc |-> "platform", spec |-> catalog, status |-> status, todo |-> {},
                   ns |-> NoPlatform, on |-> NoModel, requeue |-> FALSE]
    /\ UNCHANGED <<catalog, status, platform, kinds, models, used>>

\* A gate is shut: report Pending and come back after requeueShort.
notReady ==
    w' = [w EXCEPT !.pc = "status", !.requeue = TRUE,
                   !.status.phase = "Pending", !.status.ready = FALSE]

\* The error is returned and nothing is reported.
Error == w' = Idle /\ queued' = TRUE

GatewayReady == platform # NoPlatform /\ platform.ready

\* The gateway must be ready and its address published. (Namespace and URL are
\* published together.)
gateOnPlatform ==
    /\ w.pc = "platform"
    /\ \/ /\ GatewayReady
          /\ w' = [w EXCEPT !.pc = "kinds", !.ns = platform.ns]
       \/ /\ ~GatewayReady
          /\ notReady
    /\ UNCHANGED <<catalog, status, platform, kinds, models, queued, used>>

\* A fresh discovery probe.
customResourceKindsPresent ==
    /\ w.pc = "kinds"
    /\ \/ /\ kinds
          /\ w' = [w EXCEPT !.pc = "internal", !.todo = DOMAIN w.spec]
          /\ UNCHANGED <<queued, used>>
       \/ /\ ~kinds /\ notReady
          /\ UNCHANGED <<queued, used>>
       \/ /\ Mishap("read") /\ Error
    /\ UNCHANGED <<catalog, status, platform, kinds, models>>

\* Mutated form: the failure is reported and the pass does not come back.
FailedForGood ==
    w' = [w EXCEPT !.pc = "status", !.status.phase = "Failed"]

\* Rendering failed: reported as best it can, and retried. The Ready condition is
\* left as it was.
renderFailed ==
    w' = [w EXCEPT !.pc = "status", !.status.phase = "Failed", !.requeue = TRUE]

\* Mutated form: a model that exists is left as it is.
CreateOnly(n, spec, next) ==
    \/ /\ models' = [models EXCEPT ![w.ns][n] = IF @ = NoModel THEN spec ELSE @]
       /\ next /\ UNCHANGED used
    \/ /\ Mishap("write") /\ renderFailed
       /\ UNCHANGED models

\* Create the model, or bring the one that is there up to date and label it.
applyModel(n, spec, next) ==
    \/ /\ models' = [models EXCEPT ![w.ns][n] = spec]
       /\ next /\ UNCHANGED used
    \/ /\ Mishap("write") /\ renderFailed
       /\ UNCHANGED models

internalModel(content) == [managed |-> TRUE, visibility |-> "Internal", match |-> content]

\* Mutated form: the alias is as hidden as the model behind it.
HiddenAlias(n) ==
    [managed |-> TRUE, visibility |-> "Internal", match |-> n, target |-> internalModelName(n)]

aliasModel(n) ==
    [managed |-> TRUE, visibility |-> "Public", match |-> n, target |-> internalModelName(n)]

\* Each entry in turn, in the order of the list, which may be any: its internal
\* model first,
ensureInternalModel(n) ==
    /\ w.pc = "internal" /\ n \in w.todo
    /\ applyModel(internalModelName(n), internalModel(w.spec[n]),
                  w' = [w EXCEPT !.pc = "alias", !.on = n])
    /\ UNCHANGED <<catalog, status, platform, kinds, queued>>

\* then its alias.
ensureAliasModel ==
    /\ w.pc = "alias"
    /\ applyModel(w.on, aliasModel(w.on),
                  w' = [w EXCEPT !.todo = @ \ {w.on}, !.on = NoModel,
                                 !.pc = IF w.todo = {w.on} THEN "list" ELSE "internal"])
    /\ UNCHANGED <<catalog, status, platform, kinds, queued>>

Expected(spec) == DOMAIN spec \union {internalModelName(n) : n \in DOMAIN spec}

\* Mutated form: every model of the namespace is listed.
ListAll ==
    /\ w.pc = "list"
    /\ w' = [w EXCEPT !.pc = "prune",
                !.todo = {n \in Names : models[w.ns][n] # NoModel} \ Expected(w.spec)]
    /\ UNCHANGED <<catalog, status, platform, kinds, models, queued, used>>

\* pruneModels lists the models with this operator's label,
listModels ==
    /\ w.pc = "list"
    /\ \/ /\ w' = [w EXCEPT !.pc = "prune", !.todo =
                     {n \in Names : /\ models[w.ns][n] # NoModel
                                    /\ models[w.ns][n].managed} \ Expected(w.spec)]
          /\ UNCHANGED used
       \/ Mishap("read") /\ renderFailed
    /\ UNCHANGED <<catalog, status, platform, kinds, models, queued>>

Delete(n) ==
    \/ /\ models' = [models EXCEPT ![w.ns][n] = NoModel]
       /\ w' = [w EXCEPT !.todo = @ \ {n}]
       /\ UNCHANGED used
    \/ /\ Mishap("write") /\ renderFailed
       /\ UNCHANGED models

\* Mutated form: the longest names first.
PruneBackwards(n) ==
    /\ w.pc = "prune" /\ n \in w.todo
    /\ \A m \in w.todo : m.stem = n.stem => m.upstream <= n.upstream
    /\ Delete(n)
    /\ UNCHANGED <<catalog, status, platform, kinds, queued>>

\* and deletes those the catalog does not list, in the order of their names, in
\* which the API server lists them: of one stem the shortest first.
pruneModels(n) ==
    /\ w.pc = "prune" /\ n \in w.todo
    /\ \A m \in w.todo : m.stem = n.stem => m.upstream >= n.upstream
    /\ Delete(n)
    /\ UNCHANGED <<catalog, status, platform, kinds, queued>>

\* The catalog is rendered and serving.
markReady ==
    /\ w.pc = "prune" /\ w.todo = {}
    /\ w' = [w EXCEPT !.pc = "status", !.status =
                [phase |-> "Ready", ready |-> TRUE, available |-> DOMAIN w.spec, url |-> w.ns]]
    /\ UNCHANGED <<catalog, status, platform, kinds, models, queued, used>>

\* The status is written over whatever is there, and the pass ends. A status that
\* cannot be written, of a deleted catalog for one, is an error.
updateCatalogStatus ==
    /\ w.pc = "status"
    /\ w' = Idle
    /\ \/ /\ catalog # NoCatalog
          /\ status' = w.status
          /\ queued' = (queued \/ w.requeue)
          /\ UNCHANGED used
       \/ /\ catalog = NoCatalog
          /\ queued' = TRUE
          /\ UNCHANGED <<status, used>>
       \/ /\ Mishap("write")
          /\ queued' = TRUE
          /\ UNCHANGED status
    /\ UNCHANGED <<catalog, platform, kinds, models>>

--------------------------------------------------------------------------------
(***************************************************************************)
(* The catalog's author, the platform and the operator's process.           *)
(***************************************************************************)

\* The catalog is created, edited or deleted. Its status goes with it, and its
\* models do not: it has no finalizer.
EditCatalog(c) ==
    /\ c # catalog
    /\ used.edits < MaxEdits
    /\ used' = [used EXCEPT !.edits = @ + 1]
    /\ catalog' = c
    /\ status' = IF c = NoCatalog THEN NewStatus ELSE status
    /\ queued' = TRUE
    /\ UNCHANGED <<platform, kinds, models, w>>

\* Any event of the platform wakes the catalog.
mapPlatformToCatalog == queued' = TRUE

PlatformChanges(p) ==
    /\ p # platform
    /\ used.moves < MaxMoves
    /\ used' = [used EXCEPT !.moves = @ + 1]
    /\ platform' = p
    /\ mapPlatformToCatalog
    /\ UNCHANGED <<catalog, status, kinds, models, w>>

\* The control plane's chart brings the CRDs.
KindsEstablished ==
    /\ ~kinds
    /\ kinds' = TRUE
    /\ UNCHANGED <<catalog, status, platform, models, queued, w, used>>

Restart ==
    /\ Mishap("crash")
    /\ w' = Idle /\ queued' = TRUE
    /\ UNCHANGED <<catalog, status, platform, kinds, models>>

Step ==
    \/ Reconcile
    \/ gateOnPlatform
    \/ customResourceKindsPresent
    \/ \E n \in CatalogNames : ensureInternalModel(n)
    \/ ensureAliasModel
    \/ listModels
    \/ \E n \in Names : pruneModels(n)
    \/ markReady
    \/ updateCatalogStatus

Environment ==
    \/ \E c \in Entries \union {NoCatalog} : EditCatalog(c)
    \/ \E p \in [ready : BOOLEAN, ns : Namespaces] \union {NoPlatform} : PlatformChanges(p)
    \/ KindsEstablished
    \/ Restart

Next == Step \/ Environment

Spec == Init /\ [][Next]_vars

\* The worker runs, and the CRDs are established at some time.
FairSpec == Spec /\ WF_vars(Step) /\ WF_vars(KindsEstablished)

--------------------------------------------------------------------------------
Serving(ns) == GatewayReady /\ platform.ns = ns

\* The pair of n in ns is what the catalog says, or gone if it does not list n.
InStep(n, ns) ==
    LET pair == <<models[ns][n], models[ns][internalModelName(n)]>>
    IN  IF n \in DOMAIN catalog
        THEN pair = <<aliasModel(n), internalModel(catalog[n])>>
        ELSE \A m \in {n, internalModelName(n)} :
                 m \in Expected(catalog) \/ models[ns][m] \in {ByHand, NoModel}

\* Once nothing is left to do, a catalog is Ready and publishes its names and the
\* gateway it serves from, and the operator's models there are exactly its pairs,
\* whatever failed, moved or was edited on the way (renderModels, pruneModels).
RenderedExactly ==
    ~queued /\ w.pc = "idle" /\ catalog # NoCatalog =>
        /\ status.ready /\ status.phase = "Ready" /\ status.available = DOMAIN catalog
        /\ Serving(status.url)
        /\ \A n \in CatalogNames : InStep(n, status.url)

\* At every moment, also in the middle of a pass that renders, prunes or dies there,
\* an alias an attendee can address has the model behind it (the order of
\* renderModels, and of pruneModels over what the API server lists).
AliasServed ==
    \A ns \in Namespaces, n \in Names :
        LET m == models[ns][n]
        IN  m \in Alias => models[ns][m.target] \in Internal

\* A model written by hand under a name the catalog has nothing to do with is left
\* alone (pruneModels: "Scoped by this operator's managed-by label").
HandWrittenKept ==
    \A ns \in Namespaces, n \in HandNames \ Rendered : models[ns][n] = ByHand

\* Every model written by hand is left alone, as the comment of pruneModels has it.
AllHandWrittenKept == \A ns \in Namespaces, n \in HandNames : models[ns][n] = ByHand

\* An entry that is added, changed or withdrawn takes effect at the gateway: it does
\* not stay out of step while the gateway serves and the catalog is there.
EntryTakesEffect ==
    \A n \in CatalogNames, ns \in Namespaces :
        (Serving(ns) /\ catalog # NoCatalog /\ ~InStep(n, ns))
            ~> (~Serving(ns) \/ catalog = NoCatalog \/ InStep(n, ns))
================================================================================
