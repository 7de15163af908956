----------------------------- MODULE CatalogProofs -----------------------------
(***************************************************************************)
(* Proofs about the catalog reconciler, for any set of names, contents and  *)
(* namespaces, any number of edits, moves and mishaps, and any faults.      *)
(***************************************************************************)
EXTENDS Catalog, TLAPS

--------------------------------------------------------------------------------
(***************************************************************************)
(* The inductive invariant.                                                 *)
(***************************************************************************)

\* The steps of a pass at which it knows the gateway's namespace.
Placed == {"kinds", "internal", "alias", "list", "prune"}

Worker ==
    [pc : Placed \union {"platform", "status"}, spec : Entries, status : Status,
     todo : SUBSET Names, ns : Namespaces \union {NoPlatform},
     on : CatalogNames \union {NoModel}, requeue : BOOLEAN]

WorkerOK ==
    \/ w = Idle
    \/ /\ w \in Worker
       /\ w.pc \in Placed => w.ns \in Namespaces
       /\ w.pc \in {"internal", "alias"} => w.todo \subseteq DOMAIN w.spec
       /\ w.pc = "alias" => w.on \in w.todo

TypeInv ==
    /\ catalog \in Entries \union {NoCatalog}
    /\ status \in Status
    /\ platform \in [ready : BOOLEAN, ns : Namespaces] \union {NoPlatform}
    /\ kinds \in BOOLEAN
    /\ models \in [Namespaces -> [Names -> Models]]
    /\ queued \in BOOLEAN
    /\ WorkerOK
    /\ used \in [edits : Nat, moves : Nat, mishaps : Nat]

\* What a pass is about to delete is the operator's.
PrunesOwn == w.pc = "prune" => w.todo \intersect (HandNames \ Rendered) = {}

\* No name of a catalog is the internal name of another. The code does not see to
\* it; where it fails, one entry's alias and another's internal model are one object.
NoCollision == \A m, n \in CatalogNames : internalModelName(m) # n

\* An alias stands under a name of a catalog and selects that name's model.
Aliases ==
    \A ns \in Namespaces, n \in Names :
        models[ns][n] \in Alias =>
            /\ n \in CatalogNames
            /\ models[ns][n].target = internalModelName(n)
            /\ models[ns][internalModelName(n)] \in Internal

\* Of the models ms, the pair of n in ns is what spec says.
Pair(ms, n, ns, spec) ==
    /\ ms[ns][n] = aliasModel(n)
    /\ ms[ns][internalModelName(n)] = internalModel(spec[n])

\* What the pass has achieved so far, whatever happens to the catalog meanwhile.
Rendering ==
    /\ w.pc \in {"internal", "alias"} =>
         \A n \in (DOMAIN w.spec) \ w.todo : Pair(models, n, w.ns, w.spec)
    /\ w.pc = "alias" =>
         models[w.ns][internalModelName(w.on)] = internalModel(w.spec[w.on])

\* The entries are rendered, and of other models only those in S are the operator's.
RenderedBut(S) ==
    /\ \A n \in DOMAIN w.spec : Pair(models, n, w.ns, w.spec)
    /\ \A n \in Names \ Expected(w.spec) : n \in S \/ models[w.ns][n] \in {ByHand, NoModel}

Pruning ==
    /\ w.pc = "list" => \A n \in DOMAIN w.spec : Pair(models, n, w.ns, w.spec)
    /\ w.pc = "prune" => w.todo \intersect Expected(w.spec) = {} /\ RenderedBut(w.todo)

\* The pass that reports without coming back has rendered everything.
Reporting ==
    w.pc = "status" /\ ~w.requeue =>
        /\ w.ns \in Namespaces
        /\ RenderedBut({})
        /\ w.status = [phase |-> "Ready", ready |-> TRUE,
                       available |-> DOMAIN w.spec, url |-> w.ns]

\* A pass that nothing has overtaken works from the catalog and the platform as
\* they are.
Current ==
    ~queued =>
        /\ w.pc # "idle" => catalog = w.spec
        /\ w.pc \in Placed \/ (w.pc = "status" /\ ~w.requeue) => Serving(w.ns)

\* The part of the invariant about the models and the pass.
ModelInv == Aliases /\ Rendering /\ Pruning /\ Reporting

--------------------------------------------------------------------------------
(***************************************************************************)
(* Lemmas about names, entries and writes.                                  *)
(***************************************************************************)

\* An internal name has one "-upstream" more than the name it belongs to, and
\* belongs to no other (internalModelName).
LEMMA InternalNames ==
    ASSUME NEW n \in CatalogNames
    PROVE  /\ n \in Names /\ internalModelName(n) \in Names
           /\ n \in Name /\ internalModelName(n) \in Name
           /\ internalModelName(n).stem = n.stem
           /\ internalModelName(n).upstream = n.upstream + 1
           /\ \A m \in CatalogNames : internalModelName(m) = internalModelName(n) => m = n
  <1>1. n \in Name /\ CatalogNames \subseteq Name
    BY CatalogConstants
  <1>2. ASSUME NEW m \in Name
        PROVE  internalModelName(m) = [stem |-> m.stem, upstream |-> m.upstream + 1]
    BY DEF internalModelName, Name
  <1>3. ASSUME NEW m \in CatalogNames, internalModelName(m) = internalModelName(n)
        PROVE  m = n
    BY <1>1, <1>2, <1>3 DEF Name
  <1>4. internalModelName(n) \in Names /\ n \in Names
    BY DEF Names, Rendered
  <1> QED
    BY <1>1, <1>2, <1>3, <1>4 DEF Name

\* A catalog lists some names, all of them catalog names, and has a content for each.
LEMMA EntryFacts ==
    ASSUME NEW e \in Entries
    PROVE  /\ DOMAIN e \subseteq CatalogNames
           /\ \A n \in DOMAIN e : e[n] \in Contents
           /\ e # NoCatalog
  BY NilConstants DEF Entries

\* What is rendered is admitted, and is neither nil nor a model written by hand
\* (ensureInternalModel, ensureAliasModel).
LEMMA RenderedModels ==
    /\ \A c \in Contents : internalModel(c) \in Internal
    /\ \A n \in CatalogNames : aliasModel(n) \in Alias
    /\ \A m \in Internal : m \notin Alias
    /\ \A m \in Internal \union Alias : m \notin {ByHand, NoModel} /\ m.managed
    /\ ByHand # NoModel /\ ~ByHand.managed
  <1>1. \A c \in Contents : internalModel(c) \in Internal
    BY DEF internalModel, Internal
  <1>2. \A n \in CatalogNames : aliasModel(n) \in Alias
    BY InternalNames DEF aliasModel, Alias
  <1>3. \A m \in Internal : m \notin Alias
    BY DEF Internal, Alias
  <1>4. \A m \in Internal \union Alias : m.managed = TRUE
    BY DEF Internal, Alias
  <1>5. ByHand.managed = FALSE
    BY DEF ByHand
  <1>6. \A m \in Internal \union Alias : m # ByHand /\ m # NoModel /\ m.managed
    <2> TAKE m \in Internal \union Alias
    <2>1. m.managed
      BY <1>4, Zenon
    <2>2. m # ByHand
      BY <1>4, <1>5, Zenon
    <2>3. m # NoModel
      BY NilConstants, Zenon
    <2> QED
      BY <2>1, <2>2, <2>3
  <1>7. ByHand # NoModel
    BY NilConstants, Zenon
  <1> QED
    BY <1>1, <1>2, <1>3, <1>5, <1>6, <1>7, Zenon

\* A write changes one model of one namespace (applyModel, Delete).
LEMMA OneWritten ==
    ASSUME NEW ms \in [Namespaces -> [Names -> Models]],
           NEW ns \in Namespaces, NEW n \in Names, NEW v \in Models,
           NEW new, new = [ms EXCEPT ![ns][n] = v]
    PROVE  /\ new \in [Namespaces -> [Names -> Models]]
           /\ \A a \in Namespaces, b \in Names :
                new[a][b] = IF a = ns /\ b = n THEN v ELSE ms[a][b]
  OBVIOUS

--------------------------------------------------------------------------------
(***************************************************************************)
(* Types.                                                                   *)
(***************************************************************************)

\* A model that is written or deleted keeps the store well-typed; a failure leaves
\* it alone (applyModel, Delete).
LEMMA MishapType ==
    ASSUME TypeInv, NEW kind, Mishap(kind)
    PROVE  used' \in [edits : Nat, moves : Nat, mishaps : Nat]
  BY DEF TypeInv, Mishap

\* A pass that ends early still has a status to write (notReady, renderFailed).
LEMMA EndingType ==
    ASSUME w \in Worker, notReady \/ renderFailed
    PROVE  w' \in Worker /\ w'.pc = "status" /\ w'.requeue = TRUE /\ w'.spec = w.spec
  <1>1. CASE renderFailed
    <2>1. w'.status \in Status
      BY <1>1 DEF Worker, Status, renderFailed
    <2> QED
      BY <1>1, <2>1 DEF Worker, renderFailed
  <1>2. CASE notReady
    <2>1. w'.status = [[w.status EXCEPT !.phase = "Pending"] EXCEPT !.ready = FALSE]
      BY <1>2 DEF Worker, notReady
    <2>2. w'.status \in Status
      BY <2>1 DEF Worker, Status
    <2> QED
      BY <1>2, <2>2 DEF Worker, notReady
  <1> QED
    BY <1>1, <1>2

\* Every step keeps every variable, and the worker's registers, in their types.
LEMMA StepKeepsType == TypeInv /\ [Next]_vars => TypeInv'
  <1> SUFFICES ASSUME TypeInv, [Next]_vars
               PROVE  TypeInv'
    OBVIOUS
  <1> USE DEF TypeInv
  <1>0. CASE UNCHANGED vars
    BY <1>0 DEF vars, WorkerOK, Worker, Idle
  <1>1. CASE Reconcile
    <2>1. CASE catalog = NoCatalog /\ UNCHANGED w
      BY <1>1, <2>1 DEF Reconcile, WorkerOK, Worker
    <2>2. CASE /\ catalog # NoCatalog
               /\ w' = [pc |-> "platform", spec |-> catalog, status |-> status, todo |-> {},
                        ns |-> NoPlatform, on |-> NoModel, requeue |-> FALSE]
      <3>1. w' \in Worker /\ w'.pc = "platform"
        BY <2>2 DEF Worker, Placed
      <3> QED
        BY <1>1, <3>1 DEF Reconcile, WorkerOK, Placed
    <2> QED
      BY <1>1, <2>1, <2>2 DEF Reconcile
  <1>2. CASE gateOnPlatform
    <2>1. w \in Worker
      BY <1>2 DEF gateOnPlatform, WorkerOK, Idle
    <2>2. CASE notReady
      BY <1>2, <2>1, <2>2, EndingType DEF gateOnPlatform, WorkerOK, Placed
    <2>3. CASE GatewayReady /\ w' = [w EXCEPT !.pc = "kinds", !.ns = platform.ns]
      BY <1>2, <2>1, <2>3 DEF gateOnPlatform, WorkerOK, Worker, Placed, GatewayReady
    <2> QED
      BY <1>2, <2>2, <2>3 DEF gateOnPlatform
  <1>3. CASE customResourceKindsPresent
    <2>1. w \in Worker /\ w.ns \in Namespaces
      BY <1>3 DEF customResourceKindsPresent, WorkerOK, Idle, Placed
    <2>2. CASE notReady /\ UNCHANGED <<queued, used>>
      BY <1>3, <2>1, <2>2, EndingType DEF customResourceKindsPresent, WorkerOK, Placed
    <2>3. CASE w' = [w EXCEPT !.pc = "internal", !.todo = DOMAIN w.spec] /\ UNCHANGED <<queued, used>>
      <3>1. DOMAIN w.spec \subseteq Names
        BY <2>1, EntryFacts, InternalNames DEF Worker
      <3> QED
        BY <1>3, <2>1, <2>3, <3>1 DEF customResourceKindsPresent, WorkerOK, Worker, Placed
    <2>4. CASE Mishap("read") /\ Error
      BY <1>3, <2>4, MishapType DEF customResourceKindsPresent, Error, WorkerOK
    <2> QED
      BY <1>3, <2>2, <2>3, <2>4 DEF customResourceKindsPresent
  <1>4. ASSUME NEW n \in CatalogNames, ensureInternalModel(n)
        PROVE  TypeInv'
    <2>1. w \in Worker /\ w.ns \in Namespaces /\ n \in w.todo /\ w.todo \subseteq DOMAIN w.spec
      BY <1>4 DEF ensureInternalModel, WorkerOK, Idle, Placed
    <2>2. CASE Mishap("write") /\ renderFailed /\ UNCHANGED models
      BY <1>4, <2>1, <2>2, EndingType, MishapType DEF ensureInternalModel, WorkerOK, Placed
    <2>3. CASE /\ models' = [models EXCEPT ![w.ns][internalModelName(n)] = internalModel(w.spec[n])]
               /\ w' = [w EXCEPT !.pc = "alias", !.on = n]
               /\ UNCHANGED used
      <3>1. internalModel(w.spec[n]) \in Models
        BY <2>1, EntryFacts, RenderedModels DEF Models, Worker
      <3>2. models' \in [Namespaces -> [Names -> Models]]
        BY <2>1, <2>3, <3>1, InternalNames, OneWritten
      <3>3. WorkerOK'
        BY <2>1, <2>3 DEF WorkerOK, Worker, Placed
      <3> QED
        BY <1>4, <2>3, <3>2, <3>3 DEF ensureInternalModel
    <2> QED
      BY <1>4, <2>2, <2>3 DEF ensureInternalModel, applyModel
  <1>5. CASE ensureAliasModel
    <2>1. w \in Worker /\ w.ns \in Namespaces /\ w.on \in w.todo /\ w.todo \subseteq DOMAIN w.spec
      BY <1>5 DEF ensureAliasModel, WorkerOK, Idle, Placed
    <2>2. CASE Mishap("write") /\ renderFailed /\ UNCHANGED models
      BY <1>5, <2>1, <2>2, EndingType, MishapType DEF ensureAliasModel, WorkerOK, Placed
    <2>3. CASE /\ models' = [models EXCEPT ![w.ns][w.on] = aliasModel(w.on)]
               /\ w' = [w EXCEPT !.todo = @ \ {w.on}, !.on = NoModel,
                                 !.pc = IF w.todo = {w.on} THEN "list" ELSE "internal"]
               /\ UNCHANGED used
      <3>1. w.on \in CatalogNames
        BY <2>1, EntryFacts DEF Worker
      <3>2. models' \in [Namespaces -> [Names -> Models]]
        BY <2>1, <2>3, <3>1, RenderedModels, InternalNames, OneWritten DEF Models
      <3>3. WorkerOK'
        BY <2>1, <2>3 DEF WorkerOK, Worker, Placed
      <3> QED
        BY <1>5, <2>3, <3>2, <3>3 DEF ensureAliasModel
    <2> QED
      BY <1>5, <2>2, <2>3 DEF ensureAliasModel, applyModel
  <1>6. CASE listModels
    <2>1. w \in Worker /\ w.ns \in Namespaces
      BY <1>6 DEF listModels, WorkerOK, Idle, Placed
    <2>2. CASE Mishap("read") /\ renderFailed
      BY <1>6, <2>1, <2>2, EndingType, MishapType DEF listModels, WorkerOK, Placed
    <2>3. ASSUME NEW S \in SUBSET Names,
                 w' = [w EXCEPT !.pc = "prune", !.todo = S], UNCHANGED used
          PROVE  TypeInv'
      BY <1>6, <2>1, <2>3 DEF listModels, WorkerOK, Worker, Placed
    <2> DEFINE S == {n \in Names : /\ models[w.ns][n] # NoModel
                                   /\ models[w.ns][n].managed} \ Expected(w.spec)
    <2>4. S \in SUBSET Names
      OBVIOUS
    <2>5. (w' = [w EXCEPT !.pc = "prune", !.todo = S] /\ UNCHANGED used)
             \/ (Mishap("read") /\ renderFailed)
      BY <1>6, Zenon DEF listModels
    <2> QED
      BY <2>2, <2>3, <2>4, <2>5
  <1>7. ASSUME NEW n \in Names, pruneModels(n)
        PROVE  TypeInv'
    <2>1. w \in Worker /\ w.ns \in Namespaces
      BY <1>7 DEF pruneModels, WorkerOK, Idle, Placed
    <2>2. CASE Mishap("write") /\ renderFailed /\ UNCHANGED models
      BY <1>7, <2>1, <2>2, EndingType, MishapType DEF pruneModels, WorkerOK, Placed
    <2>3. CASE /\ models' = [models EXCEPT ![w.ns][n] = NoModel]
               /\ w' = [w EXCEPT !.todo = @ \ {n}]
               /\ UNCHANGED used
      <3>1. models' \in [Namespaces -> [Names -> Models]]
        BY <2>1, <2>3, OneWritten DEF Models
      <3>2. WorkerOK'
        BY <1>7, <2>1, <2>3 DEF WorkerOK, Worker, Placed, pruneModels
      <3> QED
        BY <1>7, <2>3, <3>1, <3>2 DEF pruneModels
    <2> QED
      BY <1>7, <2>2, <2>3 DEF pruneModels, Delete
  <1>8. CASE markReady
    <2>1. w \in Worker /\ w.ns \in Namespaces
      BY <1>8 DEF markReady, WorkerOK, Idle, Placed
    <2>2. [phase |-> "Ready", ready |-> TRUE, available |-> DOMAIN w.spec, url |-> w.ns] \in Status
      BY <2>1, EntryFacts DEF Worker, Status
    <2> QED
      BY <1>8, <2>1, <2>2 DEF markReady, WorkerOK, Worker, Placed
  <1>9. CASE updateCatalogStatus
    <2>1. w \in Worker
      BY <1>9 DEF updateCatalogStatus, WorkerOK, Idle
    <2>2. status' \in Status /\ queued' \in BOOLEAN
      BY <1>9, <2>1 DEF updateCatalogStatus, Worker
    <2>3. used' \in [edits : Nat, moves : Nat, mishaps : Nat]
      BY <1>9, MishapType DEF updateCatalogStatus
    <2> QED
      BY <1>9, <2>2, <2>3 DEF updateCatalogStatus, WorkerOK
  <1>10. ASSUME NEW c \in Entries \union {NoCatalog}, EditCatalog(c)
         PROVE  TypeInv'
    BY <1>10 DEF EditCatalog, NewStatus, Status, WorkerOK, Worker, Idle
  <1>11. ASSUME NEW p \in [ready : BOOLEAN, ns : Namespaces] \union {NoPlatform},
                PlatformChanges(p)
         PROVE  TypeInv'
    BY <1>11 DEF PlatformChanges, mapPlatformToCatalog, WorkerOK, Worker, Idle
  <1>12. CASE KindsEstablished
    BY <1>12 DEF KindsEstablished, WorkerOK, Worker, Idle
  <1>13. CASE Restart
    BY <1>13, MishapType DEF Restart, WorkerOK
  <1> QED
    BY <1>0, <1>1, <1>2, <1>3, <1>4, <1>5, <1>6, <1>7, <1>8, <1>9, <1>10, <1>11, <1>12,
       <1>13 DEF Next, Step, Environment

\* The operator starts in the invariant.
LEMMA InitialType == Init => TypeInv
  <1>1. \A n \in Names : (IF n \in HandNames THEN ByHand ELSE NoModel) \in Models
    BY DEF Models
  <1>2. Init => models \in [Namespaces -> [Names -> Models]]
    BY <1>1 DEF Init
  <1>3. NewStatus \in Status
    BY DEF NewStatus, Status
  <1>4. Init => used \in [edits : Nat, moves : Nat, mishaps : Nat]
    BY DEF Init
  <1> QED
    BY <1>2, <1>3, <1>4, Zenon DEF Init, TypeInv, WorkerOK

\* Every variable keeps to its type, and the gateway is never given a model it would
\* not admit, whatever is edited, moved or fails (Reconcile and the watches behind it).
THEOREM CatalogTypes == Spec => []TypeOK
  <1>1. TypeInv => TypeOK
    BY DEF TypeInv, TypeOK, WorkerOK, Worker, Idle, Placed
  <1> QED
    BY <1>1, InitialType, StepKeepsType, PTL DEF Spec

--------------------------------------------------------------------------------
(***************************************************************************)
(* Models written by hand.                                                  *)
(***************************************************************************)

\* A pass that has nothing to show yet, or nothing any more.
Fresh ==
    \/ w.pc \in {"idle", "platform", "kinds"}
    \/ w.pc = "internal" /\ w.todo = DOMAIN w.spec
    \/ w.pc = "status" /\ w.requeue = TRUE

\* What a step does to the models and to the pass: it leaves both alone, or leaves the
\* models alone and takes the pass to a place from which nothing follows about them,
\* or it is one of the five that render, list, delete and conclude.
LEMMA ModelWrites ==
    ASSUME TypeInv, [Next]_vars
    PROVE  \/ UNCHANGED <<models, w>>
           \/ UNCHANGED models /\ Fresh'
           \/ UNCHANGED models /\ markReady
           \/ \E n \in CatalogNames :
                /\ ensureInternalModel(n)
                /\ models' = [models EXCEPT ![w.ns][internalModelName(n)] = internalModel(w.spec[n])]
                /\ w' = [w EXCEPT !.pc = "alias", !.on = n]
           \/ /\ ensureAliasModel
              /\ models' = [models EXCEPT ![w.ns][w.on] = aliasModel(w.on)]
              /\ w' = [w EXCEPT !.todo = @ \ {w.on}, !.on = NoModel,
                                !.pc = IF w.todo = {w.on} THEN "list" ELSE "internal"]
           \/ /\ listModels
              /\ UNCHANGED models
              /\ w' = [w EXCEPT !.pc = "prune", !.todo =
                     {n \in Names : /\ models[w.ns][n] # NoModel
                                    /\ models[w.ns][n].managed} \ Expected(w.spec)]
           \/ \E n \in Names :
                /\ pruneModels(n)
                /\ models' = [models EXCEPT ![w.ns][n] = NoModel]
                /\ w' = [w EXCEPT !.todo = @ \ {n}]
  <1>0. ASSUME notReady \/ renderFailed, w.pc # "idle"
        PROVE  Fresh'
    <2>1. w \in Worker
      BY <1>0 DEF TypeInv, WorkerOK, Idle
    <2> QED
      BY <1>0, <2>1, EndingType, Zenon DEF Fresh
  <1>1. CASE Reconcile
    <2>1. UNCHANGED models
      BY <1>1 DEF Reconcile
    <2>2. \/ UNCHANGED w
          \/ w' = [pc |-> "platform", spec |-> catalog, status |-> status, todo |-> {},
                   ns |-> NoPlatform, on |-> NoModel, requeue |-> FALSE]
      BY <1>1, Zenon DEF Reconcile
    <2>3. UNCHANGED w \/ w'.pc = "platform"
      BY <2>2
    <2> QED
      BY <2>1, <2>3 DEF Fresh
  <1>2. CASE gateOnPlatform
    <2>1. w \in Worker
      BY <1>2 DEF gateOnPlatform, TypeInv, WorkerOK, Idle
    <2>2. w' = [w EXCEPT !.pc = "kinds", !.ns = platform.ns] => Fresh'
      BY <2>1 DEF Worker, Fresh
    <2> QED
      BY <1>0, <1>2, <2>2, Zenon DEF gateOnPlatform
  <1>3. CASE customResourceKindsPresent
    <2>1. w \in Worker
      BY <1>3 DEF customResourceKindsPresent, TypeInv, WorkerOK, Idle
    <2>2. CASE notReady
      BY <1>0, <1>3, <2>2 DEF customResourceKindsPresent
    <2>3. CASE w' = [w EXCEPT !.pc = "internal", !.todo = DOMAIN w.spec]
      BY <1>3, <2>1, <2>3 DEF customResourceKindsPresent, Worker, Fresh
    <2>4. CASE Error
      BY <1>3, <2>4 DEF customResourceKindsPresent, Error, Idle, Fresh
    <2> QED
      BY <1>3, <2>2, <2>3, <2>4 DEF customResourceKindsPresent
  <1>4. ASSUME NEW n \in CatalogNames, ensureInternalModel(n)
        PROVE  \/ UNCHANGED models /\ Fresh'
               \/ /\ models' = [models EXCEPT ![w.ns][internalModelName(n)] = internalModel(w.spec[n])]
                  /\ w' = [w EXCEPT !.pc = "alias", !.on = n]
    BY <1>0, <1>4, Zenon DEF ensureInternalModel, applyModel
  <1>5. CASE ensureAliasModel
    <2>1. \/ UNCHANGED models /\ Fresh'
          \/ /\ models' = [models EXCEPT ![w.ns][w.on] = aliasModel(w.on)]
             /\ w' = [w EXCEPT !.todo = @ \ {w.on}, !.on = NoModel,
                               !.pc = IF w.todo = {w.on} THEN "list" ELSE "internal"]
      BY <1>0, <1>5, Zenon DEF ensureAliasModel, applyModel
    <2> QED
      BY <1>5, <2>1
  <1>6. CASE listModels
    <2>1. UNCHANGED models
      BY <1>6 DEF listModels
    <2>2. \/ Fresh'
          \/ w' = [w EXCEPT !.pc = "prune", !.todo =
                     {n \in Names : /\ models[w.ns][n] # NoModel
                                    /\ models[w.ns][n].managed} \ Expected(w.spec)]
      BY <1>0, <1>6, Zenon DEF listModels
    <2> QED
      BY <1>6, <2>1, <2>2
  <1>7. ASSUME NEW n \in Names, pruneModels(n)
        PROVE  \/ UNCHANGED models /\ Fresh'
               \/ /\ models' = [models EXCEPT ![w.ns][n] = NoModel]
                  /\ w' = [w EXCEPT !.todo = @ \ {n}]
    BY <1>0, <1>7, Zenon DEF pruneModels, Delete
  <1>8. CASE markReady
    BY <1>8 DEF markReady
  <1>9. CASE updateCatalogStatus \/ Restart
    <2>1. UNCHANGED models /\ w' = Idle
      BY <1>9 DEF updateCatalogStatus, Restart
    <2> QED
      BY <2>1 DEF Idle, Fresh
  <1>10. CASE (Environment /\ ~Restart) \/ UNCHANGED vars
    BY <1>10 DEF Environment, EditCatalog, PlatformChanges, KindsEstablished, vars
  <1> QED
    BY <1>1, <1>2, <1>3, <1>4, <1>5, <1>6, <1>7, <1>8, <1>9, <1>10 DEF Next, Step, Environment

\* A model written by hand under a name no catalog has anything to do with is left
\* alone for good, whatever a pass writes or prunes and wherever it dies: what is
\* pruned carries the operator's label, and what is written stands under a rendered
\* name (pruneModels, applyModel). No assumption on the names is needed.
THEOREM HandWrittenUntouched == Spec => []HandWrittenKept
  <1> DEFINE I == TypeInv /\ HandWrittenKept /\ PrunesOwn
  <1>1. Init => I
    <2>1. Init => HandWrittenKept
      BY DEF Init, HandWrittenKept, Names
    <2> QED
      BY <2>1, InitialType DEF Init, PrunesOwn, Idle
  <1>2. I /\ [Next]_vars => I'
    <2> SUFFICES ASSUME I, [Next]_vars
                 PROVE  HandWrittenKept' /\ PrunesOwn'
      BY StepKeepsType
    <2>1. CASE UNCHANGED <<models, w>>
      BY <2>1 DEF HandWrittenKept, PrunesOwn
    <2>6. CASE UNCHANGED models /\ Fresh'
      BY <2>6 DEF HandWrittenKept, PrunesOwn, Fresh
    <2>7. CASE UNCHANGED models /\ markReady
      <3>1. w'.pc = "status"
        BY <2>7 DEF markReady, TypeInv, WorkerOK, Worker, Idle
      <3> QED
        BY <2>7, <3>1 DEF HandWrittenKept, PrunesOwn
    <2>2. ASSUME NEW n \in CatalogNames, ensureInternalModel(n),
                 models' = [models EXCEPT ![w.ns][internalModelName(n)] = internalModel(w.spec[n])],
                 w' = [w EXCEPT !.pc = "alias", !.on = n]
          PROVE  HandWrittenKept' /\ PrunesOwn'
      <3>1. w'.pc = "alias"
        BY <2>2 DEF ensureInternalModel, TypeInv, WorkerOK, Worker, Idle
      <3>2. internalModelName(n) \notin HandNames \ Rendered
        BY DEF Rendered
      <3> QED
        BY <2>2, <3>1, <3>2 DEF HandWrittenKept, PrunesOwn, TypeInv, Names
    <2>3. ASSUME ensureAliasModel,
                 models' = [models EXCEPT ![w.ns][w.on] = aliasModel(w.on)],
                 w' = [w EXCEPT !.todo = @ \ {w.on}, !.on = NoModel,
                                !.pc = IF w.todo = {w.on} THEN "list" ELSE "internal"]
          PROVE  HandWrittenKept' /\ PrunesOwn'
      <3>1. w \in Worker /\ w.on \in DOMAIN w.spec
        BY <2>3 DEF ensureAliasModel, TypeInv, WorkerOK, Idle
      <3>2. w.on \notin HandNames \ Rendered
        BY <3>1, EntryFacts DEF Worker, Rendered
      <3>3. w'.pc # "prune"
        BY <2>3, <3>1 DEF Worker
      <3> QED
        BY <2>3, <3>2, <3>3 DEF HandWrittenKept, PrunesOwn, TypeInv, Names
    <2>4. ASSUME listModels, UNCHANGED models,
                 w' = [w EXCEPT !.pc = "prune", !.todo =
                     {n \in Names : /\ models[w.ns][n] # NoModel
                                    /\ models[w.ns][n].managed} \ Expected(w.spec)]
          PROVE  HandWrittenKept' /\ PrunesOwn'
      <3>1. w \in Worker /\ w.ns \in Namespaces
        BY <2>4 DEF listModels, TypeInv, WorkerOK, Placed, Idle
      <3>2. \A n \in w'.todo : models[w.ns][n].managed
        <4>1. w'.todo = {n \in Names : /\ models[w.ns][n] # NoModel
                                       /\ models[w.ns][n].managed} \ Expected(w.spec)
          BY <2>4, <3>1 DEF Worker
        <4> QED
          BY <4>1, Zenon
      <3>3. \A n \in HandNames \ Rendered : ~models[w.ns][n].managed
        BY <3>1, RenderedModels, Zenon DEF HandWrittenKept
      <3>4. w'.todo \intersect (HandNames \ Rendered) = {}
        BY <3>2, <3>3, Zenon
      <3> QED
        BY <2>4, <3>4 DEF HandWrittenKept, PrunesOwn
    <2>5. ASSUME NEW n \in Names, pruneModels(n),
                 models' = [models EXCEPT ![w.ns][n] = NoModel],
                 w' = [w EXCEPT !.todo = @ \ {n}]
          PROVE  HandWrittenKept' /\ PrunesOwn'
      <3>1. w \in Worker /\ n \in w.todo /\ w.pc = "prune"
        BY <2>5 DEF pruneModels, TypeInv, WorkerOK, Idle
      <3>2. n \notin HandNames \ Rendered
        BY <3>1 DEF PrunesOwn
      <3> QED
        BY <2>5, <3>1, <3>2 DEF HandWrittenKept, PrunesOwn, TypeInv, Names, Worker
    <2> QED
      BY <2>1, <2>2, <2>3, <2>4, <2>5, <2>6, <2>7, ModelWrites
  <1> QED
    BY <1>1, <1>2, PTL DEF Spec

--------------------------------------------------------------------------------
(***************************************************************************)
(* What is rendered.                                                        *)
(***************************************************************************)

\* An internal model is written before its alias and over no other entry's models
\* (ensureInternalModel).
LEMMA InternalKeeps ==
    ASSUME TypeInv, ModelInv, NoCollision, NEW n \in CatalogNames, ensureInternalModel(n),
           models' = [models EXCEPT ![w.ns][internalModelName(n)] = internalModel(w.spec[n])],
           w' = [w EXCEPT !.pc = "alias", !.on = n]
    PROVE  ModelInv'
  <1> DEFINE x == internalModelName(n)
             v == internalModel(w.spec[n])
  <1>1. /\ w \in Worker /\ w.ns \in Namespaces /\ w.pc = "internal"
        /\ n \in w.todo /\ w.todo \subseteq DOMAIN w.spec
    BY DEF ensureInternalModel, TypeInv, WorkerOK, Idle, Placed
  <1>2. w'.pc = "alias" /\ w'.on = n /\ w'.spec = w.spec /\ w'.ns = w.ns /\ w'.todo = w.todo
    BY <1>1 DEF Worker
  <1>3. v \in Internal /\ v \in Models /\ v \notin Alias /\ DOMAIN w.spec \subseteq CatalogNames
    BY <1>1, EntryFacts, RenderedModels DEF Models, Worker
  <1>4. x \in Names /\ x \notin CatalogNames
    BY InternalNames DEF NoCollision
  <1>5. \A a \in Namespaces, b \in Names :
           models'[a][b] = IF a = w.ns /\ b = x THEN v ELSE models[a][b]
    BY <1>1, <1>3, <1>4, OneWritten DEF TypeInv
  <1>6. Aliases'
    <2> SUFFICES ASSUME NEW a \in Namespaces, NEW b \in Names, models'[a][b] \in Alias
                 PROVE  /\ b \in CatalogNames
                        /\ models'[a][b].target = internalModelName(b)
                        /\ models'[a][internalModelName(b)] \in Internal
      BY DEF Aliases
    <2>1. models'[a][b] = models[a][b]
      BY <1>3, <1>5
    <2>2. /\ b \in CatalogNames
          /\ models[a][b].target = internalModelName(b)
          /\ models[a][internalModelName(b)] \in Internal
      BY <2>1 DEF ModelInv, Aliases
    <2>3. models'[a][internalModelName(b)] \in Internal
      BY <1>3, <1>5, <2>2, InternalNames
    <2> QED
      BY <2>1, <2>2, <2>3
  <1>7. Rendering'
    <2>1. ASSUME NEW k \in (DOMAIN w.spec) \ w.todo
          PROVE  Pair(models', k, w.ns, w.spec)
      <3>1. k \in CatalogNames /\ k # n /\ Pair(models, k, w.ns, w.spec)
        BY <1>1, <1>3 DEF ModelInv, Rendering
      <3>2. x # k /\ x # internalModelName(k)
        BY <3>1, <1>4, InternalNames
      <3>3. /\ models'[w.ns][k] = models[w.ns][k]
            /\ models'[w.ns][internalModelName(k)] = models[w.ns][internalModelName(k)]
        BY <1>1, <1>5, <3>1, <3>2, InternalNames
      <3> QED
        BY <3>1, <3>3 DEF Pair
    <2>2. models'[w.ns][x] = v
      BY <1>1, <1>4, <1>5
    <2> QED
      BY <1>2, <2>1, <2>2 DEF Rendering, Pair
  <1> QED
    BY <1>2, <1>6, <1>7 DEF ModelInv, Pruning, Reporting

\* An alias is written when the model behind it is there, and over no internal model
\* (ensureAliasModel).
LEMMA AliasKeeps ==
    ASSUME TypeInv, ModelInv, NoCollision, ensureAliasModel,
           models' = [models EXCEPT ![w.ns][w.on] = aliasModel(w.on)],
           w' = [w EXCEPT !.todo = @ \ {w.on}, !.on = NoModel,
                          !.pc = IF w.todo = {w.on} THEN "list" ELSE "internal"]
    PROVE  ModelInv'
  <1> DEFINE v == aliasModel(w.on)
  <1>1. /\ w \in Worker /\ w.ns \in Namespaces /\ w.pc = "alias"
        /\ w.on \in w.todo /\ w.todo \subseteq DOMAIN w.spec
    BY DEF ensureAliasModel, TypeInv, WorkerOK, Idle, Placed
  <1>2. /\ w'.pc = IF w.todo = {w.on} THEN "list" ELSE "internal"
        /\ w'.spec = w.spec /\ w'.ns = w.ns /\ w'.todo = w.todo \ {w.on}
    BY <1>1 DEF Worker
  <1>3. w.on \in CatalogNames /\ w.on \in Names /\ DOMAIN w.spec \subseteq CatalogNames
    BY <1>1, EntryFacts, InternalNames DEF Worker
  <1>4. v \in Alias /\ v \in Models /\ v.target = internalModelName(w.on)
    BY <1>3, RenderedModels DEF Models, aliasModel
  <1>5. \A a \in Namespaces, b \in Names :
           models'[a][b] = IF a = w.ns /\ b = w.on THEN v ELSE models[a][b]
    BY <1>1, <1>3, <1>4, OneWritten DEF TypeInv
  <1>6. models[w.ns][internalModelName(w.on)] = internalModel(w.spec[w.on])
    BY <1>1 DEF ModelInv, Rendering
  <1>7. internalModel(w.spec[w.on]) \in Internal
    BY <1>1, EntryFacts, RenderedModels DEF Worker
  <1>8. \A b \in CatalogNames : internalModelName(b) # w.on
    BY <1>3 DEF NoCollision
  <1>9. Aliases'
    <2> SUFFICES ASSUME NEW a \in Namespaces, NEW b \in Names, models'[a][b] \in Alias
                 PROVE  /\ b \in CatalogNames
                        /\ models'[a][b].target = internalModelName(b)
                        /\ models'[a][internalModelName(b)] \in Internal
      BY DEF Aliases
    <2>1. CASE a = w.ns /\ b = w.on
      <3>1. models'[a][internalModelName(b)] = models[a][internalModelName(b)]
        BY <1>3, <1>5, <1>8, <2>1, InternalNames
      <3> QED
        BY <1>3, <1>4, <1>5, <1>6, <1>7, <2>1, <3>1
    <2>2. CASE ~(a = w.ns /\ b = w.on)
      <3>1. models'[a][b] = models[a][b]
        BY <1>5, <2>2
      <3>2. /\ b \in CatalogNames
            /\ models[a][b].target = internalModelName(b)
            /\ models[a][internalModelName(b)] \in Internal
        BY <3>1 DEF ModelInv, Aliases
      <3>3. models'[a][internalModelName(b)] = models[a][internalModelName(b)]
        BY <1>5, <1>8, <3>2, InternalNames
      <3> QED
        BY <3>1, <3>2, <3>3
    <2> QED
      BY <2>1, <2>2
  <1>10. ASSUME NEW k \in (DOMAIN w.spec) \ (w.todo \ {w.on})
         PROVE  Pair(models', k, w.ns, w.spec)
    <2>1. CASE k = w.on
      <3>1. models'[w.ns][k] = v
        BY <1>1, <1>3, <1>5, <2>1
      <3>2. models'[w.ns][internalModelName(k)] = internalModel(w.spec[k])
        BY <1>1, <1>3, <1>5, <1>6, <1>8, <2>1, InternalNames
      <3> QED
        BY <1>2, <2>1, <3>1, <3>2 DEF Pair
    <2>2. CASE k # w.on
      <3>1. k \in CatalogNames /\ Pair(models, k, w.ns, w.spec)
        BY <1>1, <1>3, <2>2 DEF ModelInv, Rendering
      <3>2. /\ models'[w.ns][k] = models[w.ns][k]
            /\ models'[w.ns][internalModelName(k)] = models[w.ns][internalModelName(k)]
        BY <1>1, <1>5, <1>8, <2>2, <3>1, InternalNames
      <3> QED
        BY <3>1, <3>2 DEF Pair
    <2> QED
      BY <2>1, <2>2
  <1>11. Rendering' /\ Pruning'
    BY <1>2, <1>10 DEF Rendering, Pruning, Pair
  <1> QED
    BY <1>2, <1>9, <1>11 DEF ModelInv, Reporting

\* What is listed for pruning is every model of the operator's that the catalog does
\* not list (listModels).
LEMMA ListKeeps ==
    ASSUME TypeInv, ModelInv, listModels, UNCHANGED models,
           w' = [w EXCEPT !.pc = "prune", !.todo =
                     {n \in Names : /\ models[w.ns][n] # NoModel
                                    /\ models[w.ns][n].managed} \ Expected(w.spec)]
    PROVE  ModelInv'
  <1> DEFINE S == {n \in Names : /\ models[w.ns][n] # NoModel
                                 /\ models[w.ns][n].managed} \ Expected(w.spec)
  <1>1. w \in Worker /\ w.ns \in Namespaces /\ w.pc = "list"
    BY DEF listModels, TypeInv, WorkerOK, Idle, Placed
  <1>2. w'.pc = "prune" /\ w'.spec = w.spec /\ w'.ns = w.ns /\ w'.todo = S
    BY <1>1 DEF Worker
  <1>3. ASSUME NEW n \in Names \ Expected(w.spec), n \notin S
        PROVE  models[w.ns][n] \in {ByHand, NoModel}
    <2>1. models[w.ns][n] \in Models
      BY <1>1 DEF TypeInv
    <2>2. models[w.ns][n] = NoModel \/ ~models[w.ns][n].managed
      BY <1>3, Zenon
    <2>3. models[w.ns][n] \in Internal \union Alias \union {ByHand, NoModel}
      BY <2>1, Zenon DEF Models
    <2>4. models[w.ns][n] \in Internal \union Alias =>
             models[w.ns][n].managed /\ models[w.ns][n] # NoModel
      BY RenderedModels, Zenon
    <2> QED
      BY <2>2, <2>3, <2>4, Zenon
  <1>4. S \intersect Expected(w.spec) = {}
    OBVIOUS
  <1>5. \A n \in DOMAIN w.spec : Pair(models, n, w.ns, w.spec)
    BY <1>1 DEF ModelInv, Pruning
  <1>6. Pruning'
    BY <1>2, <1>3, <1>4, <1>5 DEF Pruning, RenderedBut, Pair
  <1> QED
    BY <1>2, <1>6 DEF ModelInv, Aliases, Rendering, Reporting

\* A model is deleted after the alias that selects it, in the order of the list
\* (pruneModels).
LEMMA PruneKeeps ==
    ASSUME TypeInv, ModelInv, NoCollision, NEW n \in Names, pruneModels(n),
           models' = [models EXCEPT ![w.ns][n] = NoModel],
           w' = [w EXCEPT !.todo = @ \ {n}]
    PROVE  ModelInv'
  <1>1. w \in Worker /\ w.ns \in Namespaces /\ w.pc = "prune" /\ n \in w.todo
    BY DEF pruneModels, TypeInv, WorkerOK, Idle, Placed
  <1>2. w'.pc = "prune" /\ w'.spec = w.spec /\ w'.ns = w.ns /\ w'.todo = w.todo \ {n}
    BY <1>1 DEF Worker
  <1>3. NoModel \in Models /\ NoModel \notin Alias /\ DOMAIN w.spec \subseteq CatalogNames
    BY <1>1, NilConstants, EntryFacts DEF Models, Worker
  <1>4. \A a \in Namespaces, b \in Names :
           models'[a][b] = IF a = w.ns /\ b = n THEN NoModel ELSE models[a][b]
    BY <1>1, <1>3, OneWritten DEF TypeInv
  <1>5. w.todo \intersect Expected(w.spec) = {} /\ RenderedBut(w.todo)
    BY <1>1 DEF ModelInv, Pruning
  <1>6. Aliases'
    <2> SUFFICES ASSUME NEW a \in Namespaces, NEW b \in Names, models'[a][b] \in Alias
                 PROVE  /\ b \in CatalogNames
                        /\ models'[a][b].target = internalModelName(b)
                        /\ models'[a][internalModelName(b)] \in Internal
      BY DEF Aliases
    <2>1. models'[a][b] = models[a][b]
      BY <1>3, <1>4
    <2>2. /\ b \in CatalogNames
          /\ models[a][b].target = internalModelName(b)
          /\ models[a][internalModelName(b)] \in Internal
      BY <2>1 DEF ModelInv, Aliases
    <2>3. ~(a = w.ns /\ internalModelName(b) = n)
      <3> SUFFICES ASSUME a = w.ns, internalModelName(b) = n
                   PROVE  FALSE
        OBVIOUS
      <3>1. b \notin Expected(w.spec)
        <4>1. b \notin DOMAIN w.spec
          BY <1>1, <1>5 DEF Expected
        <4>2. \A k \in DOMAIN w.spec : internalModelName(k) # b
          BY <1>3, <2>2 DEF NoCollision
        <4> QED
          BY <4>1, <4>2 DEF Expected
      <3>2. models[a][b] \notin {ByHand, NoModel}
        BY <2>1, RenderedModels
      <3>3. b \in w.todo
        BY <1>5, <3>1, <3>2 DEF RenderedBut
      <3>4. b.stem = n.stem => b.upstream >= n.upstream
        BY <3>3 DEF pruneModels
      <3>5. b.stem = n.stem /\ n.upstream = b.upstream + 1 /\ b.upstream \in Nat
        BY <2>2, InternalNames DEF Name
      <3> QED
        BY <3>4, <3>5
    <2>4. models'[a][internalModelName(b)] = models[a][internalModelName(b)]
      BY <1>4, <2>2, <2>3, InternalNames
    <2> QED
      BY <2>1, <2>2, <2>4
  <1>7. ASSUME NEW k \in DOMAIN w.spec
        PROVE  Pair(models', k, w.ns, w.spec)
    <2>1. k \in CatalogNames /\ Pair(models, k, w.ns, w.spec)
      BY <1>3, <1>5 DEF RenderedBut
    <2>2. n # k /\ n # internalModelName(k)
      BY <1>1, <1>5 DEF Expected
    <2>3. /\ models'[w.ns][k] = models[w.ns][k]
          /\ models'[w.ns][internalModelName(k)] = models[w.ns][internalModelName(k)]
      BY <1>1, <1>4, <2>1, <2>2, InternalNames
    <2> QED
      BY <2>1, <2>3 DEF Pair
  <1>8. ASSUME NEW k \in Names \ Expected(w.spec)
        PROVE  k \in w.todo \ {n} \/ models'[w.ns][k] \in {ByHand, NoModel}
    BY <1>1, <1>4, <1>5 DEF RenderedBut
  <1>9. Pruning'
    BY <1>2, <1>5, <1>7, <1>8 DEF Pruning, RenderedBut, Pair
  <1> QED
    BY <1>2, <1>6, <1>9 DEF ModelInv, Rendering, Reporting

\* No step leaves an alias without its model, or loses what the pass has rendered.
LEMMA StepKeepsModelInv ==
    ASSUME TypeInv, ModelInv, NoCollision, [Next]_vars
    PROVE  ModelInv'
  <1>1. CASE UNCHANGED <<models, w>>
    BY <1>1 DEF ModelInv, Aliases, Rendering, Pruning, Reporting, RenderedBut, Pair
  <1>2. CASE UNCHANGED models /\ Fresh'
    <2>1. Aliases'
      BY <1>2 DEF ModelInv, Aliases
    <2>2. Rendering' /\ Pruning'
      BY <1>2 DEF Fresh, Rendering, Pruning
    <2>3. Reporting'
      BY <1>2, Zenon DEF Fresh, Reporting
    <2> QED
      BY <2>1, <2>2, <2>3 DEF ModelInv
  <1>3. CASE UNCHANGED models /\ markReady
    <2>1. w \in Worker /\ w.ns \in Namespaces
      BY <1>3 DEF markReady, TypeInv, WorkerOK, Idle, Placed
    <2>2. /\ w'.pc = "status" /\ w'.spec = w.spec /\ w'.ns = w.ns
          /\ w'.status = [phase |-> "Ready", ready |-> TRUE, available |-> DOMAIN w.spec,
                          url |-> w.ns]
      BY <1>3, <2>1 DEF markReady, Worker
    <2>3. RenderedBut({})
      BY <1>3 DEF markReady, ModelInv, Pruning
    <2>4. Reporting'
      BY <1>3, <2>1, <2>2, <2>3 DEF Reporting, RenderedBut, Pair
    <2> QED
      BY <1>3, <2>2, <2>4 DEF ModelInv, Aliases, Rendering, Pruning
  <1> QED
    BY <1>1, <1>2, <1>3, ModelWrites, InternalKeeps, AliasKeeps, ListKeeps, PruneKeeps

\* No alias is there when the operator starts, and no pass is under way.
LEMMA InitialModels == Init => ModelInv
  <1>1. ByHand \notin Alias /\ NoModel \notin Alias
    BY RenderedModels
  <1>2. Init => Aliases
    BY <1>1 DEF Init, Aliases
  <1> QED
    BY <1>2 DEF Init, ModelInv, Rendering, Pruning, Reporting, Idle

\* At every moment, in the middle of a pass that renders, prunes or dies there, an
\* alias an attendee can address has the model behind it, in every namespace, if no
\* catalog name is another's internal name (the order of renderModels and of
\* pruneModels).
THEOREM AliasesServed ==
    ASSUME NoCollision
    PROVE  Spec => []AliasServed
  <1>1. TypeInv /\ ModelInv => AliasServed
    BY DEF ModelInv, Aliases, AliasServed
  <1>2. TypeInv /\ ModelInv /\ [Next]_vars => ModelInv'
    BY NoCollision, StepKeepsModelInv
  <1> QED
    BY <1>1, <1>2, InitialType, InitialModels, StepKeepsType, PTL DEF Spec

\* A step within a pass: what it read of the catalog and the platform stays in force,
\* and it is further along.
Onward ==
    /\ UNCHANGED <<catalog, platform, queued>>
    /\ w.pc # "idle" /\ w'.pc # "idle"
    /\ w'.spec = w.spec /\ w'.ns = w.ns
    /\ w'.pc \in Placed \/ (w'.pc = "status" /\ ~w'.requeue) => w.pc \in Placed

\* The gates, the rendering and the pruning are steps within a pass, also where they fail.
LEMMA PassGoesOn ==
    ASSUME TypeInv,
           \/ customResourceKindsPresent /\ ~Error
           \/ \E n \in CatalogNames : ensureInternalModel(n)
           \/ ensureAliasModel
           \/ listModels
           \/ \E n \in Names : pruneModels(n)
           \/ markReady
    PROVE  Onward
  <1>1. UNCHANGED <<catalog, platform, queued>>
    BY DEF customResourceKindsPresent, ensureInternalModel, ensureAliasModel, listModels,
           pruneModels, markReady
  <1>2. w \in Worker /\ w.pc \in Placed
    <2>1. w.pc \in Placed
      BY DEF customResourceKindsPresent, ensureInternalModel, ensureAliasModel, listModels,
             pruneModels, markReady, Placed
    <2> QED
      BY <2>1 DEF TypeInv, WorkerOK, Idle, Placed
  <1>3. w'.pc # "idle" /\ w'.spec = w.spec /\ w'.ns = w.ns
    <2>1. CASE notReady \/ renderFailed
      BY <1>2, <2>1 DEF notReady, renderFailed, Worker
    <2>2. CASE customResourceKindsPresent /\ ~Error
      <3>1. CASE w' = [w EXCEPT !.pc = "internal", !.todo = DOMAIN w.spec]
        BY <1>2, <3>1 DEF Worker
      <3> QED
        BY <2>1, <2>2, <3>1, Zenon DEF customResourceKindsPresent
    <2>3. ASSUME NEW n \in CatalogNames, ensureInternalModel(n)
          PROVE  w'.pc # "idle" /\ w'.spec = w.spec /\ w'.ns = w.ns
      <3>1. CASE w' = [w EXCEPT !.pc = "alias", !.on = n]
        BY <1>2, <3>1 DEF Worker
      <3> QED
        BY <2>1, <2>3, <3>1, Zenon DEF ensureInternalModel, applyModel
    <2>4. CASE ensureAliasModel
      <3>1. CASE w' = [w EXCEPT !.todo = @ \ {w.on}, !.on = NoModel,
                               !.pc = IF w.todo = {w.on} THEN "list" ELSE "internal"]
        BY <1>2, <3>1 DEF Worker
      <3> QED
        BY <2>1, <2>4, <3>1, Zenon DEF ensureAliasModel, applyModel
    <2>5. CASE listModels
      <3>1. ASSUME NEW S, w' = [w EXCEPT !.pc = "prune", !.todo = S]
            PROVE  w'.pc # "idle" /\ w'.spec = w.spec /\ w'.ns = w.ns
        BY <1>2, <3>1 DEF Worker
      <3>2. renderFailed \/ \E S : w' = [w EXCEPT !.pc = "prune", !.todo = S]
        BY <2>5, Zenon DEF listModels
      <3> QED
        BY <2>1, <3>1, <3>2
    <2>6. ASSUME NEW n \in Names, pruneModels(n)
          PROVE  w'.pc # "idle" /\ w'.spec = w.spec /\ w'.ns = w.ns
      <3>1. CASE w' = [w EXCEPT !.todo = @ \ {n}]
        BY <1>2, <3>1 DEF Worker, Placed
      <3> QED
        BY <2>1, <2>6, <3>1, Zenon DEF pruneModels, Delete
    <2>7. CASE markReady
      BY <1>2, <2>7 DEF markReady, Worker
    <2> QED
      BY <2>2, <2>3, <2>4, <2>5, <2>6, <2>7
  <1> QED
    BY <1>1, <1>2, <1>3 DEF Onward, Placed

\* What a pass that reports Ready and was not overtaken leaves behind is what the
\* catalog says (updateCatalogStatus).
LEMMA ReportIsTrue ==
    ASSUME TypeInv, ModelInv, Current, w.pc = "status", ~w.requeue, ~queued
    PROVE  /\ catalog = w.spec
           /\ w.status = [phase |-> "Ready", ready |-> TRUE,
                          available |-> DOMAIN catalog, url |-> w.ns]
           /\ Serving(w.ns)
           /\ \A n \in CatalogNames : InStep(n, w.ns)
  <1>1. catalog = w.spec /\ Serving(w.ns)
    BY DEF Current
  <1>2. /\ w.ns \in Namespaces
        /\ RenderedBut({})
        /\ w.status = [phase |-> "Ready", ready |-> TRUE, available |-> DOMAIN w.spec,
                       url |-> w.ns]
    BY DEF ModelInv, Reporting
  <1>3. ASSUME NEW n \in CatalogNames
        PROVE  InStep(n, w.ns)
    <2>1. CASE n \in DOMAIN catalog
      BY <1>1, <1>2, <2>1 DEF InStep, RenderedBut, Pair
    <2>2. CASE n \notin DOMAIN catalog
      <3>1. \A m \in {n, internalModelName(n)} :
               m \in Expected(catalog) \/ models[w.ns][m] \in {ByHand, NoModel}
        BY <1>1, <1>2, InternalNames DEF RenderedBut
      <3> QED
        BY <2>2, <3>1 DEF InStep
    <2> QED
      BY <2>1, <2>2
  <1> QED
    BY <1>1, <1>2, <1>3

\* A change of the catalog or of the platform is seen by a later pass: every event
\* queues one, and only a pass that no event has overtaken ends with nothing queued.
LEMMA StepKeepsCurrent ==
    ASSUME TypeInv, ModelInv, Current, RenderedExactly, [Next]_vars
    PROVE  Current' /\ RenderedExactly'
  <1>0. ASSUME queued' = TRUE
        PROVE  Current' /\ RenderedExactly'
    BY <1>0, Zenon DEF Current, RenderedExactly
  <1>1. CASE Reconcile
    <2>1. CASE catalog = NoCatalog /\ UNCHANGED w
      BY <1>1, <2>1 DEF Reconcile, Current, RenderedExactly, Placed
    <2>2. CASE /\ catalog # NoCatalog
               /\ w' = [pc |-> "platform", spec |-> catalog, status |-> status, todo |-> {},
                        ns |-> NoPlatform, on |-> NoModel, requeue |-> FALSE]
      <3>1. w'.pc = "platform" /\ w'.spec = catalog /\ catalog' = catalog
        BY <1>1, <2>2 DEF Reconcile
      <3> QED
        BY <3>1 DEF Current, RenderedExactly, Placed
    <2> QED
      BY <1>1, <2>1, <2>2, Zenon DEF Reconcile
  <1>2. CASE gateOnPlatform
    <2>1. w \in Worker /\ UNCHANGED <<catalog, platform, queued>>
      BY <1>2 DEF gateOnPlatform, TypeInv, WorkerOK, Idle
    <2>2. w.pc = "platform"
      BY <1>2 DEF gateOnPlatform
    <2>3. CASE notReady
      <3>1. w'.pc = "status" /\ w'.requeue = TRUE /\ w'.spec = w.spec
        BY <2>1, <2>3, EndingType, Zenon
      <3>2. Current'
        BY <2>1, <2>2, <3>1, Zenon DEF Current, Placed
      <3> QED
        BY <3>1, <3>2 DEF RenderedExactly
    <2>4. CASE GatewayReady /\ w' = [w EXCEPT !.pc = "kinds", !.ns = platform.ns]
      <3>1. w'.pc = "kinds" /\ w'.spec = w.spec /\ w'.ns = platform.ns
        BY <2>1, <2>4 DEF Worker
      <3> QED
        BY <2>1, <2>2, <2>4, <3>1 DEF Current, RenderedExactly, Serving, GatewayReady
    <2> QED
      BY <1>2, <2>3, <2>4, Zenon DEF gateOnPlatform
  <1>3. CASE Onward
    <2>1. Current'
      <3> SUFFICES ASSUME ~queued'
                   PROVE  /\ w'.pc # "idle" => catalog' = w'.spec
                          /\ w'.pc \in Placed \/ (w'.pc = "status" /\ ~w'.requeue) => Serving(w.ns)'
        BY <1>3, Zenon DEF Current, Onward
      <3>1. ~queued /\ catalog' = catalog /\ platform' = platform /\ w'.ns = w.ns
        BY <1>3 DEF Onward
      <3>2. catalog' = w'.spec
        BY <1>3, <3>1 DEF Onward, Current
      <3>3. w.pc \in Placed => Serving(w.ns)'
        BY <3>1 DEF Current, Serving, GatewayReady
      <3>4. w'.pc \in Placed \/ (w'.pc = "status" /\ ~w'.requeue) => w.pc \in Placed
        BY <1>3, Zenon DEF Onward
      <3> QED
        BY <3>2, <3>3, <3>4, Zenon
    <2> QED
      BY <1>3, <2>1 DEF Onward, RenderedExactly
  <1>4. CASE customResourceKindsPresent /\ Error
    BY <1>0, <1>4 DEF Error
  <1>5. CASE updateCatalogStatus
    <2>1. CASE queued' = TRUE
      BY <1>0, <2>1
    <2>2. CASE catalog # NoCatalog /\ status' = w.status /\ queued' = (queued \/ w.requeue)
      <3> SUFFICES ASSUME ~queued, ~w.requeue
                   PROVE  Current' /\ RenderedExactly'
        BY <1>0, <2>2, Zenon DEF TypeInv
      <3>1. w' = Idle /\ UNCHANGED <<catalog, platform, models>> /\ w.pc = "status"
        BY <1>5 DEF updateCatalogStatus
      <3>2. /\ w.status = [phase |-> "Ready", ready |-> TRUE,
                           available |-> DOMAIN catalog, url |-> w.ns]
            /\ Serving(w.ns)
            /\ \A n \in CatalogNames : InStep(n, w.ns)
        BY <3>1, ReportIsTrue
      <3>3. /\ status'.ready = TRUE /\ status'.phase = "Ready"
            /\ status'.available = DOMAIN catalog /\ status'.url = w.ns
        BY <2>2, <3>2
      <3>4. Serving(status.url)'
        BY <3>1, <3>2, <3>3 DEF Serving, GatewayReady
      <3>5. \A n \in CatalogNames : InStep(n, status.url)'
        BY <3>1, <3>2, <3>3 DEF InStep
      <3>6. status'.ready
        BY <3>3, Zenon
      <3>7. RenderedExactly'
        BY <3>1, <3>3, <3>4, <3>5, <3>6 DEF RenderedExactly
      <3> QED
        BY <3>1, <3>7 DEF Current, Idle, Placed
    <2> QED
      BY <1>5, <2>1, <2>2, Zenon DEF updateCatalogStatus
  <1>6. CASE (\E c \in Entries \union {NoCatalog} : EditCatalog(c)) \/ Restart
             \/ \E p \in [ready : BOOLEAN, ns : Namespaces] \union {NoPlatform} : PlatformChanges(p)
    BY <1>0, <1>6 DEF EditCatalog, Restart, PlatformChanges, mapPlatformToCatalog
  <1>7. CASE UNCHANGED <<catalog, status, platform, models, queued, w>>
    BY <1>7 DEF Current, RenderedExactly, Serving, GatewayReady, InStep
  <1> QED
    BY <1>1, <1>2, <1>3, <1>4, <1>5, <1>6, <1>7, PassGoesOn
       DEF Next, Step, Environment, KindsEstablished, vars

\* Once nothing is left to do, the catalog is Ready, publishes its names and the
\* gateway it serves from, and the operator's models there are exactly its pairs, for
\* every interleaving of edits, moves of the platform, failures and restarts, if no
\* catalog name is another's internal name (Reconcile, renderModels, pruneModels).
THEOREM CatalogRendered ==
    ASSUME NoCollision
    PROVE  Spec => []RenderedExactly
  <1> DEFINE I == TypeInv /\ ModelInv /\ Current /\ RenderedExactly
  <1>1. Init => I
    <2>1. Init => Current /\ RenderedExactly
      BY DEF Init, Current, RenderedExactly, Idle, Placed
    <2> QED
      BY <2>1, InitialType, InitialModels
  <1>2. I /\ [Next]_vars => I'
    BY NoCollision, StepKeepsType, StepKeepsModelInv, StepKeepsCurrent
  <1> QED
    BY <1>1, <1>2, PTL DEF Spec
================================================================================
