--------------------------- MODULE HelmReleaseProofs ---------------------------
(***************************************************************************)
(* Proofs about HelmRelease, for every set of charts and settings, every    *)
(* history, and any number of edits and mishaps: a pass works only on a     *)
(* release of this operator's, a repair keeps what works, the install goes  *)
(* on only with the desired release in the cluster, the history does not    *)
(* churn, and the whole implements the contract of a release.               *)
(***************************************************************************)
EXTENDS HelmRelease, SequenceTheorems, WellFoundedInduction, TLAPS

--------------------------------------------------------------------------------
(***************************************************************************)
(* The history as a sequence.                                               *)
(***************************************************************************)

\* A history has a length, its revisions are revisions, and one that is not
\* empty has a latest.
LEMMA History ==
    ASSUME TypeOK
    PROVE  /\ Len(store) \in Nat
           /\ Exists <=> Len(store) > 0
           /\ \A i \in 1..Len(store) : store[i] \in Revision
           /\ Exists => Len(store) \in 1..Len(store) /\ Latest \in Revision
<1>1. store \in Seq(Revision)
  BY DEF TypeOK
<1>2. Len(store) \in Nat /\ \A i \in 1..Len(store) : store[i] \in Revision
  BY <1>1, LenProperties, ElementOfSeq
<1>3. Exists <=> Len(store) > 0
  BY <1>1, <1>2, EmptySeq DEF Exists
<1>4. Exists => Len(store) \in 1..Len(store)
  BY <1>2, <1>3
<1> QED
  BY <1>2, <1>3, <1>4 DEF Latest

\* A set of positions of the history that is not empty has a last one.
LEMMA LastPosition ==
    ASSUME NEW n \in Nat, NEW U \in SUBSET (1..n), U # {}
    PROVE  \E i \in U : \A j \in U : j <= i
<1> DEFINE T == {n - i : i \in U}
<1>1. T \subseteq Nat
  OBVIOUS
<1>2. PICK u \in U : TRUE
  OBVIOUS
<1>3. n - u \in T
  OBVIOUS
<1>4. PICK x \in T : \A y \in T : ~(<<y, x>> \in OpToRel(<, Nat))
  <2> HIDE DEF T
  <2> QED
    BY <1>1, <1>3, NatLessThanWellFounded, WFMin
<1>5. ASSUME NEW y \in T PROVE x <= y
  <2> HIDE DEF T
  <2>1. x \in Nat /\ y \in Nat
    BY <1>1
  <2>2. ~(<<y, x>> \in {ss \in Nat \X Nat : ss[1] < ss[2]})
    BY <1>4 DEF OpToRel
  <2> QED
    BY <2>1, <2>2
<1>6. PICK i \in U : x = n - i
  OBVIOUS
<1>7. ASSUME NEW j \in U PROVE j <= i
  <2>1. n - j \in T
    OBVIOUS
  <2>2. x <= n - j
    BY <2>1, <1>5
  <2> QED
    BY <2>2, <1>6
<1> QED
  BY <1>7

\* Recording an operation adds one revision and leaves the others as they are.
LEMMA Recorded ==
    ASSUME TypeOK, NEW STATE rev, rev \in Revision, store' = Append(store, rev)
    PROVE  /\ store' \in Seq(Revision)
           /\ Len(store') = Len(store) + 1
           /\ \A i \in 1..Len(store) : store'[i] = store[i]
           /\ Exists' /\ Latest' = rev
           /\ Theirs' <=> ~rev.owned /\ (Exists => Theirs)
<1>1. store \in Seq(Revision) /\ Len(store) \in Nat /\ (Exists <=> Len(store) > 0)
  BY History DEF TypeOK
<1>2. /\ store' \in Seq(Revision)
      /\ Len(store') = Len(store) + 1
      /\ \A i \in 1..Len(store) : store'[i] = store[i]
      /\ store'[Len(store) + 1] = rev
  BY <1>1
<1>3. Exists'
  BY <1>1, <1>2, EmptySeq DEF Exists
<1>4. \A i \in 1..Len(store') : i \in 1..Len(store) \/ i = Len(store) + 1
  BY <1>1, <1>2
<1>5. 1..Len(store) \subseteq 1..Len(store') /\ Len(store) + 1 \in 1..Len(store')
  BY <1>1, <1>2
<1>6. ~Exists => \A i \in 1..Len(store) : FALSE
  BY <1>1
<1>7. Theirs' <=> ~rev.owned /\ (Exists => Theirs)
  BY <1>2, <1>3, <1>4, <1>5, <1>6 DEF Theirs
<1> QED
  BY <1>2, <1>3, <1>7 DEF Latest

\* Marking the latest revision changes its status alone.
LEMMA Marked ==
    ASSUME TypeOK, Exists, NEW status, status \in Statuses,
           store' = [store EXCEPT ![Len(store)].status = status]
    PROVE  /\ store' \in Seq(Revision)
           /\ Len(store') = Len(store)
           /\ \A i \in 1..Len(store) : store'[i].owned = store[i].owned
           /\ \A i \in 1..Len(store) : i # Len(store) => store'[i] = store[i]
           /\ Exists' /\ Latest' = [Latest EXCEPT !.status = status]
           /\ Theirs' <=> Theirs
<1> DEFINE e == [Latest EXCEPT !.status = status]
<1>1. Latest \in Revision /\ Len(store) \in 1..Len(store) /\ Len(store) \in Nat
  BY History
<1>2. e \in Revision /\ e.owned = Latest.owned
  BY <1>1 DEF Revision, Statuses
<1>3. store' = [store EXCEPT ![Len(store)] = e]
  BY DEF Latest
<1>4. store \in Seq(Revision)
  BY DEF TypeOK
<1> HIDE DEF e
<1>5. /\ store' \in Seq(Revision)
      /\ Len(store') = Len(store)
      /\ \A j \in 1..Len(store) : store'[j] = IF j = Len(store) THEN e ELSE store[j]
  BY <1>1, <1>2, <1>3, <1>4, ExceptSeq
<1>6. Exists'
  BY <1>1, <1>5, EmptySeq DEF Exists
<1>7. \A i \in 1..Len(store) : store'[i].owned = store[i].owned
  BY <1>2, <1>5 DEF Latest
<1>8. Theirs' <=> Theirs
  BY <1>5, <1>6, <1>7 DEF Theirs
<1> QED
  BY <1>1, <1>2, <1>5, <1>6, <1>7, <1>8 DEF Latest, e

\* Completing an operation rewrites statuses alone, and an earlier revision
\* that was once deployed stays usable.
LEMMA Completed ==
    ASSUME TypeOK, Exists, NEW ok \in BOOLEAN, Applied(ok)
    PROVE  /\ store' \in Seq(Revision)
           /\ Len(store') = Len(store)
           /\ \A i \in 1..Len(store) : store'[i].owned = store[i].owned
           /\ \A i \in 1..Len(store) :
                 i # Len(store) /\ store[i].status \in Usable => store'[i].status \in Usable
           /\ Exists' /\ Latest' = [Latest EXCEPT !.status = IF ok THEN "deployed" ELSE "failed"]
           /\ Theirs' <=> Theirs
<1> DEFINE n == Len(store)
           rolling == Latest.status = "pending-rollback"
           new(i) == CASE i = n /\ ok -> [store[i] EXCEPT !.status = "deployed"]
                       [] i = n /\ ~ok -> [store[i] EXCEPT !.status = "failed"]
                       [] i < n /\ ok /\ store[i].status = "deployed" ->
                            [store[i] EXCEPT !.status = "superseded"]
                       [] i = n - 1 /\ ~ok /\ rolling ->
                            [store[i] EXCEPT !.status = "superseded"]
                       [] OTHER -> store[i]
<1>1. n \in Nat /\ n \in 1..n /\ \A i \in 1..n : store[i] \in Revision
  BY History
<1>2. store' = [i \in 1..n |-> new(i)]
  BY DEF Applied
<1>3. ASSUME NEW i \in 1..n
      PROVE  /\ new(i) \in Revision
             /\ new(i).owned = store[i].owned
             /\ i # n /\ store[i].status \in Usable => new(i).status \in Usable
             /\ i = n => new(i) = [store[i] EXCEPT !.status = IF ok THEN "deployed" ELSE "failed"]
  <2>1. /\ store[i] \in Revision
        /\ [store[i] EXCEPT !.status = "deployed"] \in Revision
        /\ [store[i] EXCEPT !.status = "failed"] \in Revision
        /\ [store[i] EXCEPT !.status = "superseded"] \in Revision
    BY <1>1 DEF Revision, Statuses, Usable
  <2>2. CASE i = n
    BY <2>1, <2>2 DEF Revision
  <2>3. CASE i # n
    <3>1. i < n
      BY <1>1, <2>3
    <3>2. CASE ok /\ store[i].status = "deployed"
      <4>1. new(i) = [store[i] EXCEPT !.status = "superseded"]
        BY <3>1, <3>2
      <4> QED
        BY <2>1, <2>3, <4>1 DEF Revision, Usable
    <3>3. CASE i = n - 1 /\ ~ok /\ rolling
      <4>1. new(i) = [store[i] EXCEPT !.status = "superseded"]
        BY <3>1, <3>3
      <4> QED
        BY <2>1, <2>3, <4>1 DEF Revision, Usable
    <3>4. CASE ~(ok /\ store[i].status = "deployed") /\ ~(i = n - 1 /\ ~ok /\ rolling)
      <4>1. new(i) = store[i]
        BY <3>1, <3>4
      <4> QED
        BY <2>1, <2>3, <4>1
    <3> QED
      BY <3>2, <3>3, <3>4
  <2> QED
    BY <2>2, <2>3
<1> HIDE DEF new, n
<1>4. store' \in [1..n -> Revision]
  BY <1>2, <1>3
<1>5. store' \in Seq(Revision) /\ Len(store') = n
  BY <1>1, <1>4
<1>6. \A i \in 1..n : store'[i] = new(i)
  BY <1>2
<1>7. Exists'
  BY <1>1, <1>5, EmptySeq DEF Exists
<1>8. Theirs' <=> Theirs
  BY <1>3, <1>5, <1>6, <1>7 DEF Theirs, n
<1> QED
  BY <1>1, <1>3, <1>5, <1>6, <1>7, <1>8 DEF Latest, n

--------------------------------------------------------------------------------
(***************************************************************************)
(* The worker's records.                                                    *)
(***************************************************************************)

\* The values a pass stores are values a revision may hold.
LEMMA StoredType ==
    ASSUME NEW vals \in Values
    PROVE  Stored(vals) \in {NoValues} \union (Values \ {{}})
BY DEF Stored

\* A pass that ends leaves an idle worker and a well-typed outcome.
LEMMA ReturnType ==
    ASSUME TypeOK, NEW STATE action, handleReleaseResult(action),
           action \in {"error", "converged", "rolledback", "drained"}
    PROVE  w' = Idle /\ outcome' \in Outcome /\ queued' \in BOOLEAN
BY DEF TypeOK, handleReleaseResult, Outcome, Requeues

\* The idle worker is well typed and is not draining.
LEMMA IdleType ==
    Idle \in Worker /\ Idle.pc = "idle" /\ Idle.op = "converge" /\ Idle.lost = FALSE
BY DEF Idle, Worker

--------------------------------------------------------------------------------
(***************************************************************************)
(* The inductive invariant.                                                 *)
(***************************************************************************)

Inv == TypeOK /\ DecisionHolds

\* What Status reads is a status.
LEMMA StatusType ==
    ASSUME TypeOK
    PROVE  Status \in Statuses \union {"none"}
BY History DEF Status, Revision

\* A pass that sets out carries what it read.
LEMMA Launched ==
    ASSUME TypeOK, NEW pc \in {"install", "upgrade", "history"},
           w' = [Idle EXCEPT !.pc = pc, !.live = Status]
    PROVE  /\ w' \in Worker /\ w'.pc = pc /\ w'.op = "converge"
           /\ w'.live = Status /\ w'.lost = FALSE
<1>1. w' = [pc |-> pc, op |-> "converge", rev |-> 0, live |-> Status, lost |-> FALSE]
  BY DEF Idle
<1>2. Status \in Statuses \union {"none"}
  BY StatusType
<1>3. \A status \in Statuses \union {"none"} :
         [pc |-> pc, op |-> "converge", rev |-> 0, live |-> status, lost |-> FALSE] \in Worker
  BY DEF Worker
<1>4. w' \in Worker
  BY <1>1, <1>2, <1>3, Zenon
<1>5. w'.pc = pc /\ w'.op = "converge" /\ w'.live = Status /\ w'.lost = FALSE
  <2>1. \A r, p, s : r = [pc |-> p, op |-> "converge", rev |-> 0, live |-> s, lost |-> FALSE]
                       => r.pc = p /\ r.op = "converge" /\ r.live = s /\ r.lost = FALSE
    BY SMT
  <2> DEFINE status == Status
             next == w'
  <2>2. next = [pc |-> pc, op |-> "converge", rev |-> 0, live |-> status, lost |-> FALSE]
    BY <1>1
  <2> HIDE DEF status, next
  <2>3. next.pc = pc /\ next.op = "converge" /\ next.live = status /\ next.lost = FALSE
    BY <2>1, <2>2, SMT
  <2> QED
    BY <2>3 DEF status, next
<1> QED
  BY <1>4, <1>5, Zenon

\* A release whose latest revision is this operator's is not somebody else's.
LEMMA OwnIsNotTheirs ==
    ASSUME TypeOK, Exists, Latest.owned
    PROVE  ~Theirs
BY History DEF Theirs, Latest

\* With no pass under way nothing was decided.
LEMMA NothingUnderWay ==
    ASSUME w' = Idle
    PROVE  DecisionHolds'
BY IdleType DEF DecisionHolds, PassOwns, ActsOnOwn, LostIsReplaced, RemovalJustified,
                OperationMarked

\* classify asks for a change only to a release of this operator's.
LEMMA ChangeIsOwned ==
    ASSUME NEW want
    PROVE  classify(want) \in {"upgrade", "repair"} => Exists /\ Latest.owned
BY DEF classify

\* The status is read and the operation chosen: what classify and repairMethod
\* saw is what the invariant says of the operation.
LEMMA ChoosingKeepsInv ==
    ASSUME Inv, EnsureRelease \/ uninstallRelease \/ LastDeployedRevision
    PROVE  Inv'
<1> USE DEF Inv
<1>1. store' = store /\ spec' = spec /\ build' = build /\ objects' = objects /\ used' = used
  BY DEF EnsureRelease, uninstallRelease, LastDeployedRevision
<1>2. (Exists' <=> Exists) /\ Latest' = Latest /\ (Theirs' <=> Theirs)
      /\ UsableRevisions' = UsableRevisions
  BY <1>1 DEF Exists, Latest, Theirs, UsableRevisions
<1>3. build \in Build
  BY DEF TypeOK
<1>4. CASE EnsureRelease
  <2> DEFINE launch(pc) == w' = [Idle EXCEPT !.pc = pc, !.live = Status]
  <2>1. /\ outcome' \in Outcome
        /\ queued' \in BOOLEAN
        /\ \/ w' = w \/ launch("install")
           \/ (launch("upgrade") \/ launch("history")) /\ Exists /\ Latest.owned
    <3> DEFINE decision == classify(fingerprint(build.chart, build.vals))
               result(action) == [action |-> action, build |-> build]
    <3>1. decision \in {"upgrade", "repair"} => Exists /\ Latest.owned
      BY ChangeIsOwned
    <3>2. queued' \in BOOLEAN
      <4>1. \/ queued' = FALSE \/ queued' = Requeues("held") \/ queued' = Requeues("waiting")
            \/ queued' = Requeues("refused") \/ queued' = Requeues("converged")
            \/ queued' = Requeues("error")
        BY <1>4, Zenon DEF EnsureRelease
      <4>2. \A action : Requeues(action) \in BOOLEAN
        BY SMT DEF Requeues
      <4> QED
        BY <4>1, <4>2
    <3>3. \/ outcome' = result("none") \/ outcome' = result("held")
          \/ outcome' = result("waiting") \/ outcome' = result("refused")
          \/ outcome' = result("converged") \/ outcome' = result("error")
      BY <1>4, Zenon DEF EnsureRelease
    <3>4. outcome' \in Outcome
      BY <1>3, <3>3 DEF Outcome
    <3>5. \/ w' = w \/ launch("install")
          \/ decision = "upgrade" /\ launch("upgrade")
          \/ decision = "repair" /\ launch("history")
      BY <1>4, Zenon DEF EnsureRelease
    <3> QED
      BY <3>1, <3>2, <3>4, <3>5
  <2>2. CASE w' = w
    <3>1. TypeOK'
      BY <1>1, <2>1, <2>2 DEF TypeOK
    <3> QED
      BY <1>1, <1>2, <2>2, <3>1 DEF DecisionHolds, PassOwns, ActsOnOwn, LostIsReplaced,
                                    RemovalJustified, OperationMarked
  <2>3. ASSUME NEW pc \in {"install", "upgrade", "history"}, launch(pc),
               pc # "install" => Exists /\ Latest.owned
        PROVE  Inv'
    <3>1. w' \in Worker /\ w'.pc = pc /\ w'.op = "converge" /\ w'.lost = FALSE
      BY <2>3, Launched
    <3>2. TypeOK'
      BY <1>1, <2>1, <3>1 DEF TypeOK
    <3> QED
      BY <1>2, <2>3, <3>1, <3>2 DEF DecisionHolds, PassOwns, ActsOnOwn, LostIsReplaced,
                                    RemovalJustified, OperationMarked
  <2> HIDE DEF launch
  <2> QED
    BY <2>1, <2>2, <2>3
<1>5. CASE uninstallRelease
  <2>1. w' = [pc |-> "uninstall", op |-> "drain", rev |-> 0, live |-> "none", lost |-> FALSE]
        /\ queued' = FALSE /\ outcome' = outcome /\ spec = "deleting"
    BY <1>5 DEF uninstallRelease, Idle
  <2>2. w' \in Worker
    BY <2>1 DEF Worker
  <2>3. TypeOK'
    BY <1>1, <2>1, <2>2 DEF TypeOK
  <2> QED
    BY <1>1, <2>1, <2>3 DEF DecisionHolds, PassOwns, ActsOnOwn, LostIsReplaced, RemovalJustified,
                            OperationMarked
<1>6. CASE LastDeployedRevision
  <2>1. /\ w.pc = "history" /\ w.lost \in BOOLEAN
        /\ ~w.lost => Exists /\ Latest.owned
        /\ w.lost /\ Exists => Theirs
    BY <1>6 DEF TypeOK, Worker, LastDeployedRevision, DecisionHolds, PassOwns, ActsOnOwn, LostIsReplaced
  <2>2. CASE handleReleaseResult("error")
    <3>1. w' = Idle /\ outcome' \in Outcome /\ queued' \in BOOLEAN
      BY <2>2, ReturnType
    <3> QED
      BY <1>1, <3>1, IdleType, NothingUnderWay DEF TypeOK
  <2>3. CASE ~handleReleaseResult("error")
    <3> DEFINE last == CHOOSE i \in UsableRevisions : \A j \in UsableRevisions : j <= i
    <3>1. PICK method \in {"rollback", "upgrade", "uninstall"} :
             /\ method = repairMethod(w.live, UsableRevisions # {})
             /\ w' = [w EXCEPT !.pc = method,
                               !.op = IF method = "uninstall" THEN "reinstall" ELSE "repair",
                               !.rev = IF method # "rollback" THEN 0 ELSE last]
             /\ UNCHANGED <<queued, outcome>>
      BY <1>6, <2>3 DEF LastDeployedRevision
    <3>2. (method = "rollback" => UsableRevisions # {})
          /\ (method = "uninstall" => UsableRevisions = {})
      BY <3>1 DEF repairMethod
    <3>3. method = "rollback" => last \in Nat
      <4>1. Len(store) \in Nat /\ UsableRevisions \in SUBSET (1..Len(store))
        BY History DEF UsableRevisions
      <4>2. UsableRevisions # {} =>
              \E i \in UsableRevisions : \A j \in UsableRevisions : j <= i
        BY <4>1, LastPosition
      <4>3. method = "rollback" => last \in UsableRevisions
        BY <3>2, <4>2
      <4> HIDE DEF last
      <4> QED
        <5>1. method = "rollback" => last \in 1..Len(store)
          BY <4>1, <4>3, Zenon
        <5> QED
          BY <4>1, <5>1
    <3> HIDE DEF last
    <3>4. w' \in Worker /\ w'.pc = method /\ w'.lost = w.lost
          /\ w'.op = IF method = "uninstall" THEN "reinstall" ELSE "repair"
      BY <3>1, <3>3 DEF TypeOK, Worker
    <3>5. TypeOK'
      BY <1>1, <3>1, <3>4 DEF TypeOK
    <3>6. DecisionHolds'
      BY <1>1, <1>2, <2>1, <3>2, <3>4 DEF DecisionHolds, PassOwns, ActsOnOwn, LostIsReplaced,
                                          RemovalJustified, OperationMarked
    <3> QED
      BY <3>5, <3>6
  <2> QED
    BY <2>2, <2>3
<1> QED
  BY <1>4, <1>5, <1>6

\* Starting an operation: it works on what the pass found, except that Install
\* may find the name taken, which Helm refuses.
LEMMA StartingKeepsInv ==
    ASSUME Inv, Install \/ Upgrade \/ Rollback
    PROVE  Inv'
<1> USE DEF Inv
<1>1. spec' = spec /\ build' = build /\ objects' = objects /\ used' = used
  BY DEF Install, Upgrade, Rollback
<1>2. w.pc \in {"install", "upgrade", "rollback"} /\ w \in Worker
  BY DEF Install, Upgrade, Rollback, TypeOK
<1>3. w.op = "drain" => spec # "live"
  BY DEF DecisionHolds, RemovalJustified
<1>4. CASE handleReleaseResult("error") /\ store' = store
  <2>1. w' = Idle /\ outcome' \in Outcome /\ queued' \in BOOLEAN
    BY <1>4, ReturnType
  <2> QED
    BY <1>1, <1>4, <2>1, IdleType, NothingUnderWay DEF TypeOK
<1>5. ASSUME NEW STATE rev, rev \in Revision, store' = Append(store, rev),
             rev.status \in Pending, Applying,
             rev.owned \/ w.lost \/ (Exists /\ ~Theirs)
      PROVE  Inv'
  <2>1. /\ store' \in Seq(Revision)
        /\ Exists' /\ Latest' = rev
        /\ Theirs' <=> ~rev.owned /\ (Exists => Theirs)
    BY <1>5, Recorded
  <2>2. w' = [w EXCEPT !.pc = "applying"] /\ queued' = queued /\ outcome' = outcome
    BY <1>5 DEF Applying
  <2>3. w' \in Worker /\ w'.pc = "applying" /\ w'.op = w.op /\ w'.lost = w.lost
    BY <1>2, <2>2 DEF Worker
  <2>4. TypeOK'
    BY <1>1, <2>1, <2>2, <2>3 DEF TypeOK
  <2>5. DecisionHolds'
    BY <1>1, <1>3, <1>5, <2>1, <2>3 DEF DecisionHolds, PassOwns, ActsOnOwn, LostIsReplaced,
                                        RemovalJustified, OperationMarked
  <2> QED
    BY <2>4, <2>5
<1>6. CASE Install
  <2> DEFINE rev == [status |-> "pending-install", chart |-> build.chart,
                     config |-> Stored(build.vals), owned |-> TRUE]
  <2>1. rev \in Revision
    BY StoredType DEF Revision, Statuses, Pending, Build, TypeOK
  <2>2. \/ handleReleaseResult("error") /\ store' = store
        \/ store' = Append(store, rev) /\ Applying
    BY <1>6 DEF Install, Record
  <2> QED
    BY <1>4, <1>5, <2>1, <2>2 DEF Pending
<1>7. CASE Upgrade
  <2> DEFINE rev == [status |-> "pending-upgrade", chart |-> build.chart,
                     config |-> Stored(build.vals), owned |-> TRUE]
  <2>1. rev \in Revision
    BY StoredType DEF Revision, Statuses, Pending, Build, TypeOK
  <2>2. \/ handleReleaseResult("error") /\ store' = store
        \/ store' = Append(store, rev) /\ Applying
    BY <1>7 DEF Upgrade, Record
  <2> QED
    BY <1>4, <1>5, <2>1, <2>2 DEF Pending
<1>8. CASE Rollback
  <2>1. CASE handleReleaseResult("error") /\ store' = store
    BY <1>4, <2>1
  <2>2. CASE ~(handleReleaseResult("error") /\ store' = store)
    <3> DEFINE target == store[w.rev]
               rev == [status |-> "pending-rollback", chart |-> target.chart,
                       config |-> target.config, owned |-> target.owned]
    <3>1. w.rev \in 1..Len(store) /\ store' = Append(store, rev) /\ Applying
      BY <1>8, <2>2 DEF Rollback, Record
    <3>2. target \in Revision
      BY <3>1, History
    <3>3. rev \in Revision /\ rev.status \in Pending
      BY <3>2 DEF Revision, Statuses, Pending
    <3>4. w.lost \/ (Exists /\ Latest.owned)
      BY <1>8 DEF Rollback, DecisionHolds, PassOwns, ActsOnOwn
    <3>5. w.lost \/ (Exists /\ ~Theirs)
      BY <3>4, OwnIsNotTheirs
    <3> QED
      BY <1>5, <3>1, <3>3, <3>5
  <2> QED
    BY <2>1, <2>2
<1> QED
  BY <1>6, <1>7, <1>8

\* Completing an operation, whether it succeeded or failed.
LEMMA CompletingKeepsInv ==
    ASSUME Inv, NEW ok \in BOOLEAN, Applied(ok)
    PROVE  Inv'
<1> USE DEF Inv
<1>1. Exists /\ w.pc = "applying"
  BY DEF Applied, DecisionHolds, OperationMarked
<1>2. store' \in Seq(Revision)
  BY <1>1, Completed
<1>3. spec' = spec /\ build' = build /\ used' = used
  BY DEF Applied
<1>4. \/ handleReleaseResult("error")
      \/ handleReleaseResult("rolledback")
      \/ handleReleaseResult("converged")
  BY Zenon DEF Applied
<1>5. w' = Idle /\ outcome' \in Outcome /\ queued' \in BOOLEAN
  BY <1>4, ReturnType
<1>6. objects' \in Revision \union {None, Mixed}
  <2>1. Latest \in Revision
    BY <1>1, History
  <2>2. [Latest EXCEPT !.status = "deployed"] \in Revision
    BY <2>1 DEF Revision, Statuses, Usable
  <2> QED
    BY <2>2 DEF Applied
<1> QED
  BY <1>2, <1>3, <1>5, <1>6, IdleType, NothingUnderWay DEF TypeOK

\* Once the release is removed, a repair goes on to install and a drain ends.
LEMMA RemovedKeepsInv ==
    ASSUME Inv, Removed, store' = <<>>, build' = build, used' = used,
           objects' \in Revision \union {None, Mixed}
    PROVE  Inv'
<1> USE DEF Inv
<1>1. w \in Worker /\ spec \in {"live", "deleting", "gone"}
  BY DEF TypeOK
<1>2. store' \in Seq(Revision) /\ Len(store') = 0
  BY EmptySeq
<1>3. CASE w.op = "reinstall"
  <2>1. w' = [w EXCEPT !.pc = "install"] /\ queued' = queued /\ outcome' = outcome /\ spec' = spec
    BY <1>3 DEF Removed
  <2>2. w' \in Worker /\ w'.pc = "install" /\ w'.op = "reinstall"
    BY <1>1, <1>3, <2>1 DEF Worker
  <2>3. TypeOK'
    BY <1>2, <2>1, <2>2 DEF TypeOK
  <2> QED
    BY <2>2, <2>3 DEF DecisionHolds, PassOwns, ActsOnOwn, LostIsReplaced, RemovalJustified,
                      OperationMarked
<1>4. CASE w.op # "reinstall"
  <2>1. spec' = "gone" /\ handleReleaseResult("drained")
    BY <1>4 DEF Removed
  <2>2. w' = Idle /\ outcome' \in Outcome /\ queued' \in BOOLEAN
    BY <2>1, ReturnType
  <2> QED
    BY <1>2, <2>1, <2>2, IdleType, NothingUnderWay DEF TypeOK
<1> QED
  BY <1>3, <1>4

\* Removing a release: only what works for nobody, or for a drain.
LEMMA RemovingKeepsInv ==
    ASSUME Inv, Uninstall \/ \E ok \in BOOLEAN : Uninstalled(ok)
    PROVE  Inv'
<1> USE DEF Inv
<1>1. w \in Worker /\ build' = build
  BY DEF TypeOK, Uninstall, Uninstalled
<1>2. ASSUME handleReleaseResult("error"), store' = store, spec' = spec,
             used' \in [rollouts : Nat, mishaps : Nat],
             objects' \in Revision \union {None, Mixed}
      PROVE  Inv'
  <2>1. w' = Idle /\ outcome' \in Outcome /\ queued' \in BOOLEAN
    BY <1>2, ReturnType
  <2> QED
    BY <1>1, <1>2, <2>1, IdleType, NothingUnderWay DEF TypeOK
<1>3. CASE Uninstall
  <2>1. w.pc = "uninstall" /\ objects' = objects /\ used' = used
    BY <1>3 DEF Uninstall
  <2>2. CASE ~Exists /\ Removed /\ store' = store
    <3>1. store' = <<>>
      BY <2>2 DEF Exists
    <3> QED
      BY <1>1, <2>1, <2>2, <3>1, RemovedKeepsInv DEF TypeOK
  <2>3. CASE handleReleaseResult("error") /\ store' = store /\ spec' = spec
    BY <1>2, <2>1, <2>3 DEF TypeOK
  <2>4. CASE /\ Exists
             /\ store' = [store EXCEPT ![Len(store)].status = "uninstalling"]
             /\ w' = [w EXCEPT !.pc = "deleting"]
             /\ UNCHANGED <<queued, outcome, spec>>
    <3>1. /\ store' \in Seq(Revision)
          /\ Len(store') = Len(store)
          /\ \A i \in 1..Len(store) : i # Len(store) => store'[i] = store[i]
          /\ Exists' /\ Latest' = [Latest EXCEPT !.status = "uninstalling"]
          /\ Theirs' <=> Theirs
      BY <2>4, Marked DEF Statuses
    <3>2. Latest \in Revision /\ Len(store) \in Nat
      BY <2>4, History
    <3>3. w' \in Worker /\ w'.pc = "deleting" /\ w'.op = w.op /\ w'.lost = w.lost
      BY <1>1, <2>4 DEF Worker
    <3>4. TypeOK'
      BY <1>1, <2>1, <2>4, <3>1, <3>3 DEF TypeOK
    <3>5. Latest'.owned = Latest.owned /\ Latest'.status = "uninstalling"
      BY <3>1, <3>2 DEF Revision
    <3>6. PassOwns' /\ LostIsReplaced' /\ OperationMarked'
      BY <2>1, <2>4, <3>1, <3>3, <3>5
         DEF DecisionHolds, PassOwns, ActsOnOwn, LostIsReplaced, OperationMarked
    <3>7. UsableRevisions = {} => UsableRevisions' = {}
      <4>1. ASSUME NEW i \in 1..Len(store), store'[i].status \in Usable
            PROVE  store[i].status \in Usable
        BY <3>1, <3>5, <4>1 DEF Latest, Usable
      <4> QED
        BY <3>1, <4>1 DEF UsableRevisions
    <3>8. RemovalJustified'
      BY <2>1, <2>4, <3>3, <3>7 DEF DecisionHolds, RemovalJustified
    <3> QED
      BY <3>4, <3>6, <3>8 DEF DecisionHolds
  <2> QED
    BY <1>3, <2>2, <2>3, <2>4 DEF Uninstall
<1>4. ASSUME NEW ok \in BOOLEAN, Uninstalled(ok) PROVE Inv'
  <2>1. CASE store' = <<>> /\ objects' = None /\ used' = used /\ Removed
    BY <1>1, <2>1, RemovedKeepsInv
  <2>2. CASE /\ used' = [used EXCEPT !.mishaps = @ + 1]
             /\ objects' = Mixed /\ handleReleaseResult("error") /\ UNCHANGED <<store, spec>>
    <3>1. used' \in [rollouts : Nat, mishaps : Nat]
      BY <2>2 DEF TypeOK
    <3> QED
      BY <1>2, <2>2, <3>1
  <2> QED
    BY <1>4, <2>1, <2>2 DEF Uninstalled
<1> QED
  BY <1>3, <1>4

\* Edits, deletion, crashes, rollouts and other people's releases.
LEMMA EnvironmentKeepsInv ==
    ASSUME Inv, Environment
    PROVE  Inv'
<1> USE DEF Inv
<1>1. /\ w \in Worker /\ spec \in {"live", "deleting", "gone"}
      /\ used \in [rollouts : Nat, mishaps : Nat]
  BY DEF TypeOK
<1>2. CASE EditPlatform \/ DeletePlatform
  <2>1. /\ store' = store /\ w' = w /\ outcome' = outcome /\ build' = build
        /\ objects' = objects /\ queued' = TRUE
    BY <1>2 DEF EditPlatform, DeletePlatform
  <2>2. /\ spec' \in {"live", "deleting", "gone"}
        /\ spec = "live"
        /\ used' \in [rollouts : Nat, mishaps : Nat]
    BY <1>1, <1>2 DEF EditPlatform, DeletePlatform
  <2>3. TypeOK'
    BY <2>1, <2>2 DEF TypeOK
  <2>4. w.op # "drain"
    BY <2>2 DEF DecisionHolds, RemovalJustified
  <2>5. DecisionHolds'
    BY <2>1, <2>4 DEF DecisionHolds, PassOwns, ActsOnOwn, LostIsReplaced, RemovalJustified,
                      OperationMarked, Exists, Latest, Theirs, UsableRevisions
  <2> QED
    BY <2>3, <2>5
<1>3. CASE Crash \/ Rollout
  <2>1. /\ store' = store /\ w' = Idle /\ outcome' = outcome /\ spec' = spec
        /\ objects' = objects /\ queued' = TRUE /\ build' \in Build
        /\ used' \in [rollouts : Nat, mishaps : Nat]
    BY <1>1, <1>3 DEF Crash, Rollout, TypeOK
  <2> QED
    BY <2>1, IdleType, NothingUnderWay DEF TypeOK
<1>4. CASE ForeignInstall
  <2>1. PICK c \in Charts, v \in Values :
           /\ Record("deployed", c, Stored(v), FALSE)
           /\ objects' = [status |-> "deployed", chart |-> c, config |-> Stored(v), owned |-> FALSE]
    BY <1>4 DEF ForeignInstall
  <2> DEFINE rev == [status |-> "deployed", chart |-> c, config |-> Stored(v), owned |-> FALSE]
  <2>2. rev \in Revision
    BY StoredType DEF Revision, Statuses, Usable
  <2>3. store' = Append(store, rev)
    BY <2>1 DEF Record
  <2>4. ~Exists /\ w' = w /\ spec' = spec /\ build' = build /\ queued' = queued
        /\ outcome' = outcome /\ used' \in [rollouts : Nat, mishaps : Nat]
    BY <1>1, <1>4 DEF ForeignInstall
  <2>5. store' \in Seq(Revision) /\ Exists' /\ Theirs'
    BY <2>2, <2>3, <2>4, Recorded
  <2>6. TypeOK'
    BY <2>1, <2>2, <2>4, <2>5 DEF TypeOK
  <2>7. /\ w.pc \notin {"applying", "deleting"}
        /\ ActsOnOwn => w.lost
    BY <2>4 DEF DecisionHolds, PassOwns, OperationMarked
  <2>8. DecisionHolds'
    BY <2>4, <2>5, <2>7 DEF DecisionHolds, PassOwns, ActsOnOwn, LostIsReplaced, RemovalJustified,
                            OperationMarked
  <2> QED
    BY <2>6, <2>8
<1>5. CASE ForeignUninstall
  <2>1. /\ Exists /\ w.pc \notin {"applying", "deleting"} /\ store' = <<>> /\ objects' = None
        /\ spec' = spec /\ build' = build /\ queued' = queued /\ outcome' = outcome
    BY <1>5 DEF ForeignUninstall
  <2>2. \/ ~Latest.owned /\ used' = used /\ w' = w
        \/ used' = [used EXCEPT !.mishaps = @ + 1] /\ w' = [w EXCEPT !.lost = (w.pc # "idle")]
    BY <1>5 DEF ForeignUninstall
  <2>3. store' \in Seq(Revision) /\ ~Exists'
    BY <2>1, EmptySeq DEF Exists
  <2>4. /\ w' \in Worker /\ w'.pc = w.pc /\ w'.op = w.op
        /\ w'.lost \/ w.pc = "idle" \/ (~w.lost /\ ~Latest.owned)
    BY <1>1, <2>2 DEF Worker
  <2>5. used' \in [rollouts : Nat, mishaps : Nat]
    BY <1>1, <2>2
  <2>6. TypeOK'
    BY <2>1, <2>3, <2>4, <2>5 DEF TypeOK
  <2>7. w'.lost \/ ~ActsOnOwn
    BY <2>1, <2>4 DEF DecisionHolds, PassOwns, ActsOnOwn
  <2>8. (ActsOnOwn)' <=> ActsOnOwn
    BY <2>4 DEF ActsOnOwn
  <2>9. UsableRevisions' = {}
    <3>1. Len(store') = 0
      BY <2>1, EmptySeq
    <3> QED
      BY <3>1 DEF UsableRevisions
  <2>10. DecisionHolds'
    BY <2>1, <2>3, <2>4, <2>7, <2>8, <2>9
       DEF DecisionHolds, PassOwns, LostIsReplaced, RemovalJustified, OperationMarked
  <2> QED
    BY <2>6, <2>10
<1>6. CASE UninstallKeepingHistory
  <2>1. /\ Exists /\ Latest.status = "deployed" /\ objects' = None
        /\ store' = [store EXCEPT ![Len(store)].status = "uninstalled"]
        /\ w' = w /\ spec' = spec /\ build' = build /\ queued' = queued
        /\ outcome' = outcome /\ used' = used
    BY <1>6 DEF UninstallKeepingHistory
  <2>2. /\ store' \in Seq(Revision) /\ Len(store') = Len(store)
        /\ \A i \in 1..Len(store) : i # Len(store) => store'[i] = store[i]
        /\ Exists' /\ Latest' = [Latest EXCEPT !.status = "uninstalled"]
        /\ Theirs' <=> Theirs
    BY <2>1, Marked DEF Statuses
  <2>3. TypeOK'
    BY <2>1, <2>2 DEF TypeOK
  <2>4. Latest'.owned = Latest.owned /\ Latest'.status = "uninstalled" /\ Len(store) \in Nat
    BY <2>1, <2>2, History DEF Revision
  <2>5. w.pc \notin {"applying", "deleting"}
    BY <2>1 DEF DecisionHolds, OperationMarked, Pending
  <2>6. UsableRevisions = {} => UsableRevisions' = {}
    <3>1. ASSUME NEW i \in 1..Len(store), store'[i].status \in Usable
          PROVE  store[i].status \in Usable
      BY <2>2, <2>4, <3>1 DEF Latest, Usable
    <3> QED
      BY <2>2, <3>1 DEF UsableRevisions
  <2>7. DecisionHolds'
    BY <2>1, <2>2, <2>4, <2>5, <2>6 DEF DecisionHolds, PassOwns, ActsOnOwn, LostIsReplaced,
                                        RemovalJustified, OperationMarked
  <2> QED
    BY <2>3, <2>7
<1> QED
  BY <1>2, <1>3, <1>4, <1>5, <1>6 DEF Environment

\* Every step keeps the invariant.
LEMMA StepKeepsInv ==
    ASSUME Inv, [Next]_vars
    PROVE  Inv'
<1>1. CASE Converge \/ Remove
  BY <1>1, ChoosingKeepsInv, StartingKeepsInv, CompletingKeepsInv, RemovingKeepsInv
     DEF Converge, Remove
<1>2. CASE UNCHANGED vars
  BY <1>2 DEF vars, Inv, TypeOK, DecisionHolds, PassOwns, ActsOnOwn, LostIsReplaced,
              RemovalJustified, OperationMarked, Exists, Latest, Theirs, UsableRevisions
<1> QED
  BY <1>1, <1>2, EnvironmentKeepsInv DEF Next

\* What a pass decided when it read the release still holds when the operation it
\* chose runs, whatever crashed, was edited, installed or uninstalled in between,
\* with one exception: if somebody removes this operator's release after Status
\* read its owner (w.lost), no call of the pass asks again, and it acts on nothing
\* or on what somebody else has put in that place. Without that, EnsureRelease
\* works on a release of this operator's only, and removes only one with nothing
\* deployed in it.
THEOREM DecisionsHold == Spec => [](TypeOK /\ DecisionHolds)
<1>1. Init => Inv
  <2> SUFFICES ASSUME Init PROVE Inv
    OBVIOUS
  <2>1. store \in Seq(Revision) /\ Len(store) = 0
    BY EmptySeq DEF Init
  <2>2. TypeOK
    <3>1. spec \in {"live", "deleting", "gone"}
      BY DEF Init
    <3>2. outcome \in Outcome /\ build \in Build
      BY DEF Init, Outcome
    <3> QED
      BY <2>1, <3>1, <3>2, IdleType DEF Init, TypeOK
  <2>3. DecisionHolds
    BY IdleType DEF Init, DecisionHolds, PassOwns, ActsOnOwn, LostIsReplaced, RemovalJustified,
                    OperationMarked
  <2> QED
    BY <2>2, <2>3 DEF Inv
<1>2. Inv /\ [Next]_vars => Inv'
  BY StepKeepsInv
<1>3. Inv => TypeOK /\ DecisionHolds
  BY DEF Inv
<1> QED
  BY <1>1, <1>2, <1>3, PTL DEF Spec

--------------------------------------------------------------------------------
(***************************************************************************)
(* What a step of a pass may never do.                                      *)
(***************************************************************************)

\* Of what happens around the worker only the operator's death moves a pass, and
\* it leaves the history as it is.
LEMMA StepsOfOthers ==
    ASSUME TypeOK, Environment, w'.pc # w.pc
    PROVE  store' = store
<1>1. w \in Worker
  BY DEF TypeOK
<1>2. CASE ForeignUninstall
  <2>1. w' = w \/ w' = [w EXCEPT !.lost = (w.pc # "idle")]
    BY <1>2 DEF ForeignUninstall
  <2>2. w'.pc = w.pc
    BY <1>1, <2>1 DEF Worker
  <2> QED
    BY <2>2
<1>3. CASE ~ForeignUninstall
  BY <1>3 DEF Environment, EditPlatform, DeletePlatform, Crash, Rollout, ForeignInstall,
              UninstallKeepingHistory
<1> QED
  BY <1>2, <1>3

\* Converging leaves a release of somebody else's alone. Between the ownership
\* check of classify and the operation it chose a foreign release can appear where
\* the name was free, and Helm then refuses to install over it; it can also take
\* the place of this operator's own release if somebody removes that (w.lost), and
\* only in what is left of that pass nothing is promised.
THEOREM ForeignReleasesUntouched == Spec => ForeignUntouched
<1> DEFINE Foreign == Theirs /\ w.op # "drain" /\ ~w.lost /\ w'.pc # w.pc => store' = store
<1>1. Inv /\ [Next]_vars => Foreign
  <2> SUFFICES ASSUME Inv, [Next]_vars, Theirs, w.op # "drain", ~w.lost, w'.pc # w.pc
               PROVE  store' = store
    OBVIOUS
  <2>1. TypeOK /\ DecisionHolds /\ Exists
    BY DEF Inv, Theirs
  <2>2. ~Latest.owned
    BY <2>1, OwnIsNotTheirs
  <2>3. w.pc \notin {"history", "upgrade", "rollback", "applying", "uninstall", "deleting"}
    BY <2>1, <2>2 DEF DecisionHolds, PassOwns, ActsOnOwn
  <2>4. CASE Converge
    BY <2>1, <2>3, <2>4 DEF Converge, EnsureRelease, LastDeployedRevision, Install, Upgrade,
                            Rollback, Applied
  <2>5. CASE Remove
    BY <2>3, <2>5 DEF Remove, uninstallRelease, Uninstall, Uninstalled
  <2>6. CASE Environment
    BY <2>1, <2>6, StepsOfOthers
  <2> QED
    BY <2>4, <2>5, <2>6 DEF Next, vars
<1>2. Spec => []Inv
  BY DecisionsHold DEF Inv
<1>3. Inv /\ [Next]_vars => [Foreign]_vars
  BY <1>1
<1> QED
  BY <1>2, <1>3, PTL DEF Spec, ForeignUntouched

\* A repair keeps what works: no step of a pass over a live platform's release,
\* while that release is this operator's, gives up the last revision that was once deployed. A rollback or an upgrade
\* adds a revision, a failed one is marked beside the others, and uninstall and
\* reinstall is chosen only where there is nothing to lose.
THEOREM RepairsKeepWhatWorks == Spec => UsableRevisionKept
<1> DEFINE Kept == spec = "live" /\ Exists /\ Latest.owned /\ UsableRevisions # {}
                     /\ w'.pc # w.pc => UsableRevisions' # {}
<1>1. Inv /\ [Next]_vars => Kept
  <2> SUFFICES ASSUME Inv, [Next]_vars, spec = "live", Exists, Latest.owned,
                      UsableRevisions # {}, w'.pc # w.pc
               PROVE  UsableRevisions' # {}
    OBVIOUS
  <2>1. TypeOK /\ DecisionHolds
    BY DEF Inv
  <2>2. PICK u \in 1..Len(store) : store[u].status \in Usable
    BY DEF UsableRevisions
  <2>3. Len(store) \in Nat /\ Exists /\ \A i \in 1..Len(store) : store[i] \in Revision
    BY <2>1, <2>2, History
  <2>4. w.op # "drain" /\ ~(w.pc \in {"uninstall", "deleting"})
    BY <2>1, OwnIsNotTheirs DEF DecisionHolds, RemovalJustified, LostIsReplaced, ActsOnOwn
  <2>5. ASSUME store' = store PROVE UsableRevisions' # {}
    BY <2>5 DEF UsableRevisions
  <2>6. ASSUME Len(store') = Len(store) + 1,
               \A i \in 1..Len(store) : store'[i] = store[i]
        PROVE  UsableRevisions' # {}
    <3>1. u \in 1..Len(store') /\ store'[u].status \in Usable
      BY <2>2, <2>3, <2>6
    <3> QED
      BY <3>1 DEF UsableRevisions
  <2>7. CASE Install \/ Upgrade
    <3> DEFINE rev(status) == [status |-> status, chart |-> build.chart,
                               config |-> Stored(build.vals), owned |-> TRUE]
    <3>1. rev("pending-install") \in Revision /\ rev("pending-upgrade") \in Revision
      BY <2>1, StoredType DEF TypeOK, Build, Revision, Statuses, Pending
    <3>2. \/ store' = store
          \/ store' = Append(store, rev("pending-install"))
          \/ store' = Append(store, rev("pending-upgrade"))
      BY <2>7 DEF Install, Upgrade, Record
    <3> QED
      BY <2>1, <2>5, <2>6, <3>1, <3>2, Recorded
  <2>8. CASE Rollback
    <3> DEFINE target == store[w.rev]
               rev == [status |-> "pending-rollback", chart |-> target.chart,
                       config |-> target.config, owned |-> target.owned]
    <3>1. \/ store' = store
          \/ w.rev \in 1..Len(store) /\ store' = Append(store, rev)
      BY <2>8 DEF Rollback, Record
    <3>2. w.rev \in 1..Len(store) => rev \in Revision
      BY <2>3 DEF Revision, Statuses, Pending
    <3> QED
      BY <2>1, <2>5, <2>6, <3>1, <3>2, Recorded
  <2>9. ASSUME NEW ok \in BOOLEAN, Applied(ok) PROVE UsableRevisions' # {}
    <3>1. u # Len(store)
      <4>1. Latest.status \in Pending
        BY <2>1, <2>9 DEF Applied, DecisionHolds, OperationMarked
      <4> QED
        BY <2>2, <4>1 DEF Latest, Pending, Usable
    <3>2. u \in 1..Len(store') /\ store'[u].status \in Usable
      BY <2>1, <2>2, <2>3, <2>9, <3>1, Completed
    <3> QED
      BY <3>2 DEF UsableRevisions
  <2>10. CASE EnsureRelease \/ LastDeployedRevision
    BY <2>5, <2>10 DEF EnsureRelease, LastDeployedRevision
  <2>11. CASE Remove
    BY <2>4, <2>11 DEF Remove, uninstallRelease, Uninstall, Uninstalled
  <2>12. CASE Environment
    BY <2>1, <2>5, <2>12, StepsOfOthers
  <2> QED
    BY <2>7, <2>8, <2>9, <2>10, <2>11, <2>12 DEF Next, Converge, vars
<1>2. Spec => []Inv
  BY DecisionsHold DEF Inv
<1>3. Inv /\ [Next]_vars => [Kept]_vars
  BY <1>1
<1> QED
  BY <1>2, <1>3, PTL DEF Spec, UsableRevisionKept

--------------------------------------------------------------------------------
(***************************************************************************)
(* What a pass does to the history.                                         *)
(***************************************************************************)

Want == fingerprint(build.chart, build.vals)

Different == Exists /\ Latest.owned /\ liveFingerprint(Latest) # Want

Convergeable == Pending \union {"deployed", "failed"}

\* What brought a pass to a repair or an upgrade: a release that differs from
\* what is wanted. (Before an upgrade somebody may have uninstalled it.)
PassHasCause ==
    ~w.lost =>
        /\ w.pc \in {"history", "upgrade", "rollback"} =>
              /\ liveFingerprint(Latest) # Want
              /\ Latest.status \in Convergeable \union {"uninstalled"}
        /\ w.pc = "history" => Latest.status = w.live /\ w.live \in Pending \union {"failed"}
        /\ w.pc = "rollback" => Latest.status \in Pending

\* What Helm is working on: the wanted release, or a rollback.
PassHasMark ==
    w.pc = "applying" =>
        \/ Latest.status = "pending-rollback"
        \/ Latest.owned /\ Latest.chart = build.chart /\ Latest.config = Stored(build.vals)

\* A pass that has not ended has no result yet, and one that drains removes.
PassIsOpen ==
    /\ w.op = "drain" => w.pc \in {"uninstall", "deleting"}
    /\ w.pc # "idle" /\ w.op # "drain" => outcome.action = "none"

\* The objects of a deployed release are in the cluster.
ObjectsOfLatest == Exists /\ Latest.status = "deployed" => objects = Latest

Aims == PassHasCause /\ PassHasMark /\ PassIsOpen /\ ObjectsOfLatest

AimedInv == Inv /\ Aims

\* The pass over the release ends without touching it.
Abandons ==
    /\ store' = store /\ objects' = objects /\ build' = build /\ used' = used /\ spec' = spec
    /\ w' = Idle /\ outcome'.action = "error"

\* What an operation finds: the release the pass read, which differs from what is
\* wanted, or, if that was taken away, somebody else's in its place.
Finds ==
    Exists => \/ ~w.lost /\ Different /\ Latest.status \in Convergeable
              \/ w.lost /\ Theirs /\ w.pc \in {"upgrade", "rollback"}

\* An operation is recorded: of the wanted state, or as a rollback, of one of this
\* operator's that is pending or of one of somebody else's.
Records ==
    /\ Len(store') = Len(store) + 1 /\ Exists' /\ Latest' \in Revision
    /\ Latest'.status \in Pending
    /\ Theirs' <=> ~Latest'.owned /\ (Exists => Theirs)
    /\ Finds
    /\ \/ Latest'.owned = TRUE /\ Latest'.chart = build.chart /\ Latest'.config = Stored(build.vals)
       \/ /\ Latest'.status = "pending-rollback" /\ Exists
          /\ IF w.lost THEN ~Latest'.owned ELSE Latest.status \in Pending
    /\ objects' = objects /\ build' = build /\ used' = used /\ outcome' = outcome /\ spec' = spec
    /\ w.pc \in {"install", "upgrade", "rollback"} /\ w'.pc = "applying" /\ w'.op = w.op

\* An operation ends: the latest revision's status alone changes.
Completes(ok) ==
    /\ Len(store') = Len(store) /\ Exists /\ Exists' /\ Latest \in Revision
    /\ Latest.status \in Pending /\ (Theirs' <=> Theirs)
    /\ Latest' = [Latest EXCEPT !.status = IF ok THEN "deployed" ELSE "failed"]
    /\ build' = build /\ used' = used /\ spec' = spec
    /\ objects' = IF ok THEN Latest' ELSE Mixed
    /\ w.pc = "applying" /\ w' = Idle
    /\ outcome'.action = "converged" => ok /\ Latest.status # "pending-rollback"

\* Stored(vals) is read back as vals: nil and empty values are alike.
LEMMA StoredReadsBack ==
    ASSUME NEW c, NEW vals \in Values
    PROVE  fingerprint(c, Stored(vals)) = fingerprint(c, vals)
BY ReleaseConstants DEF Stored, Values, fingerprint

\* Two states with one fingerprint are one chart with one stored configuration.
LEMMA SameFingerprint ==
    ASSUME NEW rel \in Revision, NEW c, NEW vals \in Values,
           liveFingerprint(rel) = fingerprint(c, vals)
    PROVE  rel.chart = c /\ rel.config = Stored(vals)
<1>1. rel.config = NoValues \/ rel.config \in Values \ {{}}
  BY DEF Revision
<1>2. vals # NoValues
  BY ReleaseConstants DEF Values
<1> QED
  BY <1>1, <1>2 DEF liveFingerprint, fingerprint, Stored

\* Install, Upgrade and Rollback record an operation or leave the release alone.
LEMMA OperationRecords ==
    ASSUME AimedInv, Install \/ Upgrade \/ Rollback
    PROVE  Abandons \/ Records
<1>1. TypeOK /\ PassOwns /\ LostIsReplaced /\ PassHasCause
  BY DEF AimedInv, Inv, DecisionHolds, Aims
<1>2. spec' = spec /\ build' = build /\ objects' = objects /\ used' = used
      /\ w.pc \in {"install", "upgrade", "rollback"} /\ w \in Worker
  BY <1>1 DEF Install, Upgrade, Rollback, TypeOK
<1>3. CASE handleReleaseResult("error") /\ store' = store
  BY <1>2, <1>3 DEF handleReleaseResult, Abandons
<1>4. ASSUME NEW STATE rev, rev \in Revision, store' = Append(store, rev), Applying,
             rev.status \in Pending, Finds,
             \/ rev.owned = TRUE /\ rev.chart = build.chart /\ rev.config = Stored(build.vals)
             \/ /\ rev.status = "pending-rollback" /\ Exists
                /\ IF w.lost THEN ~rev.owned ELSE Latest.status \in Pending
      PROVE  Records
  <2>1. /\ Len(store') = Len(store) + 1 /\ Exists' /\ Latest' = rev
        /\ Theirs' <=> ~rev.owned /\ (Exists => Theirs)
    BY <1>1, <1>4, Recorded
  <2>2. outcome' = outcome /\ w'.pc = "applying" /\ w'.op = w.op
    BY <1>2, <1>4 DEF Applying, Worker
  <2> QED
    BY <1>2, <1>4, <2>1, <2>2 DEF Records
<1>5. CASE Install
  <2> DEFINE rev == [status |-> "pending-install", chart |-> build.chart,
                     config |-> Stored(build.vals), owned |-> TRUE]
  <2>1. rev \in Revision
    BY <1>1, StoredType DEF Revision, Statuses, Pending, Build, TypeOK
  <2>2. \/ handleReleaseResult("error") /\ store' = store
        \/ store' = Append(store, rev) /\ ~Exists /\ Applying
    BY <1>5 DEF Install, Record
  <2> QED
    BY <1>3, <1>4, <2>1, <2>2 DEF Pending, Finds
<1>6. CASE Upgrade
  <2> DEFINE rev == [status |-> "pending-upgrade", chart |-> build.chart,
                     config |-> Stored(build.vals), owned |-> TRUE]
  <2>1. rev \in Revision
    BY <1>1, StoredType DEF Revision, Statuses, Pending, Build, TypeOK
  <2>2. \/ handleReleaseResult("error") /\ store' = store
        \/ store' = Append(store, rev) /\ Applying /\ Upgradable
    BY <1>6 DEF Upgrade, Record
  <2>3. Upgradable => Finds
    BY <1>1, <1>6 DEF Upgrade, Upgradable, PassOwns, ActsOnOwn, LostIsReplaced, PassHasCause,
                      Different, Finds
  <2> QED
    BY <1>3, <1>4, <2>1, <2>2, <2>3 DEF Pending
<1>7. CASE Rollback
  <2>1. w.pc = "rollback"
    BY <1>7 DEF Rollback
  <2>2. CASE ~(handleReleaseResult("error") /\ store' = store)
    <3> DEFINE target == store[w.rev]
               rev == [status |-> "pending-rollback", chart |-> target.chart,
                       config |-> target.config, owned |-> target.owned]
    <3>1. w.rev \in 1..Len(store) /\ store' = Append(store, rev) /\ Applying
      BY <1>7, <2>2 DEF Rollback, Record
    <3>2. target \in Revision /\ Exists
      BY <1>1, <3>1, History
    <3>3. rev \in Revision /\ rev.owned = target.owned /\ rev.status = "pending-rollback"
      BY <3>2 DEF Revision, Statuses, Pending
    <3>4. CASE ~w.lost
      <4>1. Latest.status \in Pending /\ Finds
        BY <1>1, <2>1, <3>4 DEF PassOwns, ActsOnOwn, PassHasCause, Different, Finds, Convergeable
      <4> QED
        BY <1>4, <3>1, <3>2, <3>3, <3>4, <4>1 DEF Pending
    <3>5. CASE w.lost
      <4>1. Theirs
        BY <1>1, <2>1, <3>2, <3>5 DEF LostIsReplaced, ActsOnOwn
      <4>2. ~target.owned /\ Finds
        BY <2>1, <3>1, <3>5, <4>1 DEF Theirs, Finds
      <4> QED
        BY <1>4, <3>1, <3>2, <3>3, <3>5, <4>2 DEF Pending
    <3> QED
      BY <3>4, <3>5
  <2> QED
    BY <1>3, <2>2
<1> QED
  BY <1>5, <1>6, <1>7

\* Applied completes the operation Helm was working on.
LEMMA OperationCompletes ==
    ASSUME AimedInv, NEW ok \in BOOLEAN, Applied(ok)
    PROVE  Completes(ok)
<1>1. TypeOK /\ OperationMarked /\ w.pc = "applying"
  BY DEF AimedInv, Inv, DecisionHolds, Applied
<1>2. Exists /\ Latest.status \in Pending /\ Latest \in Revision
  BY <1>1, History DEF OperationMarked
<1>3. /\ Len(store') = Len(store) /\ Exists' /\ (Theirs' <=> Theirs)
      /\ Latest' = [Latest EXCEPT !.status = IF ok THEN "deployed" ELSE "failed"]
  BY <1>1, <1>2, Completed
<1>4. objects' = IF ok THEN Latest' ELSE Mixed
  BY <1>3 DEF Applied
<1>5. build' = build /\ used' = used /\ spec' = spec
  BY DEF Applied
<1>6. handleReleaseResult(CASE ~ok -> "error"
                            [] ok /\ Latest.status = "pending-rollback" -> "rolledback"
                            [] OTHER -> "converged")
  BY DEF Applied
<1>7. w' = Idle /\ (outcome'.action = "converged" => ok /\ Latest.status # "pending-rollback")
  BY <1>6 DEF handleReleaseResult
<1> QED
  BY <1>1, <1>2, <1>3, <1>4, <1>5, <1>7 DEF Completes

\* EnsureRelease goes to an operation for the reason classify gives, and says
\* "converged" only of a deployed release with the wanted fingerprint.
LEMMA DecisionHasCause ==
    ASSUME Inv, EnsureRelease
    PROVE  /\ store' = store /\ objects' = objects /\ build' = build /\ used' = used /\ spec' = spec
           /\ w.pc = "idle"
           /\ \/ w' = w
              \/ /\ w'.pc \in {"install", "upgrade", "history"} /\ w'.op = "converge"
                 /\ w'.live = Status /\ w'.lost = FALSE
                 /\ outcome'.action = "none"
                 /\ w'.pc # "install" => Different /\ Latest.status \in Convergeable
                 /\ w'.pc = "history" => Latest.status \in Pending \union {"failed"}
           /\ outcome'.action = "converged" =>
                 /\ Exists /\ Latest.owned /\ Latest.status = "deployed"
                 /\ liveFingerprint(Latest) = Want
<1> DEFINE decision == classify(fingerprint(build.chart, build.vals))
           result(action) == [action |-> action, build |-> build]
           begins(pc) == w' = [Idle EXCEPT !.pc = pc, !.live = Status] /\ outcome' = result("none")
<1>1. /\ store' = store /\ objects' = objects /\ build' = build /\ used' = used /\ spec' = spec
      /\ w.pc = "idle"
  BY DEF EnsureRelease
<1>2. \/ decision = "install" /\ begins("install")
      \/ decision = "upgrade" /\ begins("upgrade")
      \/ decision = "repair" /\ begins("history")
      \/ w' = w /\ outcome' \in {result("held"), result("waiting"), result("refused"),
                                 result("error")}
      \/ w' = w /\ decision = "unchanged" /\ outcome' = result("converged")
  BY Zenon DEF EnsureRelease
<1>3. /\ decision \in {"upgrade", "repair"} => Different /\ Latest.status \in Convergeable
      /\ decision = "repair" => Latest.status \in Pending \union {"failed"}
  BY DEF classify, Different, Want, Convergeable, Pending
<1>4. decision = "unchanged" => /\ Exists /\ Latest.owned /\ Latest.status = "deployed"
                                /\ liveFingerprint(Latest) = Want
  BY DEF classify, Want
<1> HIDE DEF decision
<1> QED
  <2>1. CASE w' = w
    BY <1>1, <1>2, <1>4, <2>1
  <2>2. ASSUME NEW pc \in {"install", "upgrade", "history"}, begins(pc),
               pc # "install" => Different /\ Latest.status \in Convergeable,
               pc = "history" => Latest.status \in Pending \union {"failed"}
        PROVE  /\ w'.pc = pc /\ w'.op = "converge" /\ w'.live = Status /\ w'.lost = FALSE
               /\ outcome'.action = "none"
    BY <2>2, Launched DEF Inv
  <2> HIDE DEF begins
  <2> QED
    BY <1>1, <1>2, <1>3, <2>1, <2>2

\* LastDeployedRevision rolls back only what is pending.
LEMMA RepairHasCause ==
    ASSUME AimedInv, LastDeployedRevision
    PROVE  /\ store' = store /\ objects' = objects /\ build' = build /\ used' = used /\ spec' = spec
           /\ w.pc = "history" /\ (~w.lost => Different /\ Latest.status \in Convergeable)
           /\ \/ Abandons
              \/ /\ w'.pc \in {"rollback", "upgrade", "uninstall"} /\ outcome' = outcome
                 /\ w'.pc = "rollback" /\ ~w.lost => Latest.status \in Pending
                 /\ w'.op \in {"repair", "reinstall"} /\ w'.lost = w.lost
<1>1. /\ store' = store /\ objects' = objects /\ build' = build /\ used' = used /\ spec' = spec
      /\ w.pc = "history" /\ w \in Worker
  BY DEF LastDeployedRevision, AimedInv, Inv, TypeOK
<1>2. ~w.lost => Different /\ Latest.status \in Convergeable /\ Latest.status = w.live
  BY <1>1 DEF AimedInv, Inv, Aims, DecisionHolds, PassOwns, ActsOnOwn, PassHasCause, Different,
              Convergeable
<1>3. CASE handleReleaseResult("error")
  BY <1>1, <1>2, <1>3 DEF handleReleaseResult, Abandons
<1>4. CASE ~handleReleaseResult("error")
  <2> DEFINE last == CHOOSE i \in UsableRevisions : \A j \in UsableRevisions : j <= i
  <2>1. PICK method \in {"rollback", "upgrade", "uninstall"} :
           /\ method = repairMethod(w.live, UsableRevisions # {})
           /\ w' = [w EXCEPT !.pc = method,
                             !.op = IF method = "uninstall" THEN "reinstall" ELSE "repair",
                             !.rev = IF method # "rollback" THEN 0 ELSE last]
           /\ UNCHANGED <<queued, outcome>>
    BY <1>4 DEF LastDeployedRevision
  <2> HIDE DEF last
  <2>2. method = "rollback" /\ ~w.lost => Latest.status \in Pending
    BY <1>2, <2>1 DEF repairMethod
  <2>3. w'.pc = method /\ w'.op \in {"repair", "reinstall"} /\ w'.lost = w.lost
    BY <1>1, <2>1 DEF Worker
  <2> QED
    BY <1>1, <1>2, <2>1, <2>2, <2>3
<1> QED
  BY <1>3, <1>4

\* The release is purged and its objects removed, or it was already gone: a
\* repair goes on to install and a drain ends the pass.
Purges ==
    /\ \/ store' = <<>> /\ objects' = None
       \/ ~Exists /\ store' = store /\ objects' = objects
    /\ build' = build /\ used' = used
    /\ w.pc \in {"uninstall", "deleting"} /\ w.op \in {"reinstall", "drain"}
    /\ \/ w.op = "reinstall" /\ w'.pc = "install" /\ w'.op = w.op /\ outcome' = outcome
       \/ w.op = "drain" /\ w' = Idle /\ outcome'.action = "drained"

\* Helm marks the release it is about to remove.
Marks ==
    /\ Len(store') = Len(store) /\ Exists /\ Exists' /\ Latest \in Revision
    /\ Latest' = [Latest EXCEPT !.status = "uninstalling"] /\ (Theirs' <=> Theirs)
    /\ objects' = objects /\ build' = build /\ used' = used /\ outcome' = outcome
    /\ w.pc = "uninstall" /\ w'.pc = "deleting" /\ w'.op = w.op

\* A removal that fails leaves the release marked, its objects in part there.
Jams ==
    /\ store' = store /\ objects' = Mixed /\ build' = build
    /\ used' = [used EXCEPT !.mishaps = @ + 1]
    /\ w.pc = "deleting" /\ w' = Idle /\ outcome'.action = "error"

\* Uninstall and its completion do one of these.
LEMMA RemovalSteps ==
    ASSUME Inv, Uninstall \/ \E ok \in BOOLEAN : Uninstalled(ok)
    PROVE  Abandons \/ Purges \/ Marks \/ Jams
<1>1. TypeOK /\ w \in Worker /\ build' = build
  BY DEF Inv, TypeOK, Uninstall, Uninstalled
<1>2. ASSUME Removed
      PROVE  /\ w.op \in {"reinstall", "drain"}
             /\ \/ w.op = "reinstall" /\ w'.pc = "install" /\ w'.op = w.op /\ outcome' = outcome
                \/ w.op = "drain" /\ w' = Idle /\ outcome'.action = "drained"
  <2>1. CASE w.op = "reinstall" /\ w' = [w EXCEPT !.pc = "install"] /\ outcome' = outcome
    BY <1>1, <2>1 DEF Worker
  <2>2. CASE w.op = "drain" /\ handleReleaseResult("drained")
    BY <2>2 DEF handleReleaseResult
  <2> QED
    BY <1>2, <2>1, <2>2 DEF Removed
<1>3. CASE Uninstall
  <2>1. w.pc = "uninstall" /\ objects' = objects /\ used' = used
    BY <1>3 DEF Uninstall
  <2>2. CASE ~Exists /\ Removed /\ store' = store
    BY <1>1, <1>2, <2>1, <2>2 DEF Purges
  <2>3. CASE handleReleaseResult("error") /\ store' = store /\ spec' = spec
    BY <1>1, <2>1, <2>3 DEF Abandons, handleReleaseResult
  <2>4. CASE /\ Exists
             /\ store' = [store EXCEPT ![Len(store)].status = "uninstalling"]
             /\ w' = [w EXCEPT !.pc = "deleting"]
             /\ UNCHANGED <<queued, outcome, spec>>
    <3>1. /\ Len(store') = Len(store) /\ Exists'
          /\ Latest' = [Latest EXCEPT !.status = "uninstalling"] /\ (Theirs' <=> Theirs)
      BY <1>1, <2>4, Marked DEF Statuses
    <3>2. Latest \in Revision
      BY <1>1, <2>4, History
    <3>3. w'.pc = "deleting" /\ w'.op = w.op
      BY <1>1, <2>4 DEF Worker
    <3> QED
      BY <1>1, <2>1, <2>4, <3>1, <3>2, <3>3 DEF Marks
  <2> QED
    BY <1>3, <2>2, <2>3, <2>4 DEF Uninstall
<1>4. ASSUME NEW ok \in BOOLEAN, Uninstalled(ok) PROVE Purges \/ Jams
  <2>1. w.pc = "deleting"
    BY <1>4 DEF Uninstalled
  <2>2. CASE store' = <<>> /\ objects' = None /\ used' = used /\ Removed
    BY <1>1, <1>2, <2>1, <2>2 DEF Purges
  <2>3. CASE /\ used' = [used EXCEPT !.mishaps = @ + 1]
             /\ objects' = Mixed /\ handleReleaseResult("error") /\ UNCHANGED <<store, spec>>
    BY <1>1, <2>1, <2>3 DEF Jams, handleReleaseResult
  <2> QED
    BY <1>4, <2>2, <2>3 DEF Uninstalled
<1> QED
  BY <1>3, <1>4

\* The platform is edited or deleted; the release is not touched.
Stands ==
    /\ store' = store /\ objects' = objects /\ build' = build /\ used' = used
    /\ w' = w /\ outcome' = outcome

\* The operator dies, and a rollout may put another build in its place.
Restarts ==
    /\ store' = store /\ objects' = objects /\ w' = Idle /\ outcome' = outcome
    /\ used'.mishaps = used.mishaps + 1
    /\ \/ build' = build /\ used'.rollouts = used.rollouts
       \/ build' \in Build /\ used'.rollouts = used.rollouts + 1

\* Somebody else takes the free name.
Appears ==
    /\ ~Exists /\ Exists' /\ Theirs' /\ Len(store') = 1
    /\ Latest'.owned = FALSE /\ Latest'.status = "deployed" /\ objects' = Latest'
    /\ build' = build /\ w' = w /\ outcome' = outcome
    /\ used'.mishaps = used.mishaps + 1 /\ used'.rollouts = used.rollouts

\* Somebody removes the release; a pass that is after this operator's has lost it.
Vanishes ==
    /\ Exists /\ ~Exists' /\ store' = <<>> /\ objects' = None
    /\ build' = build /\ outcome' = outcome
    /\ w'.pc = w.pc /\ w'.op = w.op
    /\ w.pc \notin {"applying", "deleting"}
    /\ w'.lost \/ w.pc = "idle" \/ (~w.lost /\ ~Latest.owned)
    /\ used'.mishaps \in {used.mishaps, used.mishaps + 1} /\ used'.rollouts = used.rollouts

\* A deployed release is uninstalled by hand and its history kept.
IsUninstalled ==
    /\ Len(store') = Len(store) /\ Exists /\ Exists' /\ Latest \in Revision
    /\ Latest.status = "deployed" /\ Latest' = [Latest EXCEPT !.status = "uninstalled"]
    /\ Theirs' <=> Theirs
    /\ build' = build /\ w' = w /\ outcome' = outcome /\ used' = used

\* Whatever happens around the worker does one of these to the release.
LEMMA EnvironmentSteps ==
    ASSUME Inv, Environment
    PROVE  Stands \/ Restarts \/ Appears \/ Vanishes \/ IsUninstalled
<1>1. TypeOK /\ used \in [rollouts : Nat, mishaps : Nat]
  BY DEF Inv, TypeOK
<1>2. CASE EditPlatform \/ DeletePlatform
  BY <1>2 DEF EditPlatform, DeletePlatform, Stands
<1>3. CASE Crash
  BY <1>1, <1>3 DEF Crash, Restarts
<1>4. CASE Rollout
  BY <1>1, <1>4 DEF Rollout, Restarts
<1>5. CASE ForeignInstall
  <2>1. PICK c \in Charts, v \in Values :
           /\ Record("deployed", c, Stored(v), FALSE)
           /\ objects' = [status |-> "deployed", chart |-> c, config |-> Stored(v), owned |-> FALSE]
    BY <1>5 DEF ForeignInstall
  <2> DEFINE rev == [status |-> "deployed", chart |-> c, config |-> Stored(v), owned |-> FALSE]
  <2>2. rev \in Revision
    BY StoredType DEF Revision, Statuses, Usable
  <2>3. store' = Append(store, rev)
    BY <2>1 DEF Record
  <2>4. /\ Len(store') = Len(store) + 1 /\ Exists' /\ Latest' = rev
        /\ Theirs' <=> ~rev.owned /\ (Exists => Theirs)
    BY <1>1, <2>2, <2>3, Recorded
  <2>5. ~Exists /\ w' = w /\ build' = build /\ outcome' = outcome
        /\ used'.mishaps = used.mishaps + 1 /\ used'.rollouts = used.rollouts
    BY <1>1, <1>5 DEF ForeignInstall
  <2>6. Len(store') = 1
    BY <1>1, <2>4, <2>5, History
  <2> QED
    BY <2>1, <2>4, <2>5, <2>6 DEF Appears
<1>6. CASE ForeignUninstall
  <2>1. \/ ~Latest.owned /\ used' = used /\ w' = w
        \/ used' = [used EXCEPT !.mishaps = @ + 1] /\ w' = [w EXCEPT !.lost = (w.pc # "idle")]
    BY <1>6 DEF ForeignUninstall
  <2>2. /\ Exists /\ w.pc \notin {"applying", "deleting"} /\ store' = <<>> /\ objects' = None
        /\ build' = build /\ outcome' = outcome
    BY <1>6 DEF ForeignUninstall
  <2>3. /\ w'.pc = w.pc /\ w'.op = w.op
        /\ w'.lost \/ w.pc = "idle" \/ (~w.lost /\ ~Latest.owned)
    BY <1>1, <2>1, <2>2 DEF TypeOK, Worker
  <2>4. used'.mishaps \in {used.mishaps, used.mishaps + 1} /\ used'.rollouts = used.rollouts
    BY <1>1, <2>1
  <2> QED
    BY <2>2, <2>3, <2>4 DEF Vanishes, Exists
<1>7. CASE UninstallKeepingHistory
  <2>1. Exists /\ Latest \in Revision /\ store' = [store EXCEPT ![Len(store)].status = "uninstalled"]
    BY <1>1, <1>7, History DEF UninstallKeepingHistory
  <2>2. /\ Len(store') = Len(store) /\ Exists'
        /\ Latest' = [Latest EXCEPT !.status = "uninstalled"] /\ (Theirs' <=> Theirs)
    BY <1>1, <2>1, Marked DEF Statuses
  <2> QED
    BY <1>7, <2>1, <2>2 DEF UninstallKeepingHistory, IsUninstalled
<1> QED
  BY <1>2, <1>3, <1>4, <1>5, <1>6, <1>7 DEF Environment

\* While the history stands, so do its latest revision and what is wanted.
LEMMA SameStore ==
    ASSUME store' = store
    PROVE  /\ Exists' <=> Exists
           /\ Latest' = Latest
           /\ liveFingerprint(Latest)' = liveFingerprint(Latest)
           /\ build' = build => Want' = Want /\ (Different' <=> Different)
BY DEF Exists, Latest, liveFingerprint, fingerprint, Want, Different

\* With no pass under way, only the objects of a deployed release matter.
LEMMA IdleAims ==
    ASSUME w'.pc = "idle", w'.op # "drain", ObjectsOfLatest'
    PROVE  Aims'
BY DEF Aims, PassHasCause, PassHasMark, PassIsOpen

\* The worker's steps keep what a pass was after.
LEMMA WorkerKeepsAims ==
    ASSUME AimedInv, Converge \/ Remove
    PROVE  Aims'
<1>1. Inv /\ Aims /\ TypeOK /\ w \in Worker
  BY DEF AimedInv, Inv, TypeOK
<1>2. ASSUME store' = store, objects' = objects PROVE ObjectsOfLatest'
  BY <1>1, <1>2, SameStore DEF Aims, ObjectsOfLatest
<1>3. CASE Abandons
  BY <1>2, <1>3, IdleAims, IdleType DEF Abandons
<1>4. CASE EnsureRelease
  <2>1. ObjectsOfLatest' /\ Want' = Want /\ Latest' = Latest
        /\ liveFingerprint(Latest)' = liveFingerprint(Latest)
    BY <1>1, <1>2, <1>4, DecisionHasCause, SameStore
  <2>2. CASE w' = w
    <3>1. w.pc = "idle" /\ w.op # "drain"
      BY <1>1, <1>4, DecisionHasCause DEF Aims, PassIsOpen
    <3> QED
      BY <2>1, <2>2, <3>1, IdleAims
  <2>3. CASE w' # w
    <3>1. /\ w'.pc \in {"install", "upgrade", "history"} /\ w'.op = "converge"
          /\ w'.live = Status /\ outcome'.action = "none"
          /\ w'.pc # "install" => Different /\ Latest.status \in Convergeable
          /\ w'.pc = "history" => Latest.status \in Pending \union {"failed"}
      BY <1>1, <1>4, <2>3, DecisionHasCause
    <3>2. w'.pc # "install" => w'.live = Latest.status
      BY <3>1 DEF Status, Different
    <3> QED
      BY <2>1, <3>1, <3>2 DEF Aims, PassHasCause, PassHasMark, PassIsOpen, Different
  <2> QED
    BY <2>2, <2>3
<1>5. CASE LastDeployedRevision /\ ~Abandons
  <2>1. /\ store' = store /\ objects' = objects /\ build' = build /\ outcome' = outcome
        /\ w.pc = "history" /\ (~w.lost => Different /\ Latest.status \in Convergeable)
        /\ w'.pc \in {"rollback", "upgrade", "uninstall"} /\ w'.lost = w.lost
        /\ w'.pc = "rollback" /\ ~w.lost => Latest.status \in Pending
        /\ w'.op # "drain"
    BY <1>5, RepairHasCause
  <2>2. ObjectsOfLatest' /\ Want' = Want /\ Latest' = Latest
        /\ liveFingerprint(Latest)' = liveFingerprint(Latest)
    BY <1>2, <2>1, SameStore
  <2>3. w.op # "drain"
    BY <1>1, <2>1 DEF Aims, PassIsOpen
  <2> QED
    BY <1>1, <2>1, <2>2, <2>3 DEF Aims, PassHasCause, PassHasMark, PassIsOpen, Different
<1>6. CASE Records
  <2>1. ObjectsOfLatest'
    BY <1>6 DEF Records, ObjectsOfLatest, Pending
  <2>2. PassHasCause' /\ PassHasMark'
    BY <1>6 DEF Records, PassHasCause, PassHasMark
  <2>3. PassIsOpen'
    BY <1>1, <1>6 DEF Records, Aims, PassIsOpen
  <2> QED
    BY <2>1, <2>2, <2>3 DEF Aims
<1>7. ASSUME NEW ok \in BOOLEAN, Completes(ok) PROVE Aims'
  <2>1. ObjectsOfLatest'
    BY <1>7 DEF Completes, ObjectsOfLatest, Revision
  <2> QED
    BY <1>7, <2>1, IdleAims, IdleType DEF Completes
<1>8. CASE uninstallRelease
  <2>1. store' = store /\ objects' = objects /\ w'.pc = "uninstall" /\ w'.op = "drain"
    BY <1>8 DEF uninstallRelease, Idle
  <2> QED
    BY <1>2, <2>1 DEF Aims, PassHasCause, PassHasMark, PassIsOpen
<1>9. CASE Purges
  <2>1. ObjectsOfLatest'
    BY <1>1, <1>2, <1>9 DEF Purges, ObjectsOfLatest, Exists
  <2>2. CASE w.op = "reinstall" /\ w'.pc = "install" /\ w'.op = w.op /\ outcome' = outcome
    BY <1>1, <1>9, <2>1, <2>2 DEF Purges, Aims, PassHasCause, PassHasMark, PassIsOpen
  <2>3. CASE w' = Idle
    BY <2>1, <2>3, IdleAims, IdleType
  <2> QED
    BY <1>9, <2>2, <2>3 DEF Purges
<1>10. CASE Marks
  BY <1>1, <1>10 DEF Marks, Aims, ObjectsOfLatest, PassHasCause, PassHasMark, PassIsOpen, Revision
<1>11. CASE Jams
  <2>1. Latest' = Latest /\ Latest.status = "uninstalling"
    BY <1>1, <1>11, SameStore DEF Jams, Inv, DecisionHolds, OperationMarked
  <2>2. ObjectsOfLatest'
    BY <2>1 DEF ObjectsOfLatest
  <2> QED
    BY <1>11, <2>2, IdleAims, IdleType DEF Jams
<1>12. CASE LastDeployedRevision
  BY <1>3, <1>5, <1>12
<1>13. CASE Install \/ Upgrade \/ Rollback
  BY <1>3, <1>6, <1>13, OperationRecords
<1>14. CASE \E ok \in BOOLEAN : Applied(ok)
  BY <1>7, <1>14, OperationCompletes
<1>15. CASE Uninstall \/ \E ok \in BOOLEAN : Uninstalled(ok)
  BY <1>1, <1>3, <1>9, <1>10, <1>11, <1>15, RemovalSteps
<1> QED
  BY <1>4, <1>8, <1>12, <1>13, <1>14, <1>15 DEF Converge, Remove

\* What happens around the worker keeps what a pass was after: it changes a release
\* a pass is converging only by taking it away.
LEMMA EnvironmentKeepsAims ==
    ASSUME AimedInv, Environment
    PROVE  Aims'
<1>1. Inv /\ Aims /\ PassOwns /\ OperationMarked /\ RemovalJustified
  BY DEF AimedInv, Inv, DecisionHolds
<1>2. CASE Stands
  <2>1. Latest' = Latest /\ Want' = Want /\ (Exists' <=> Exists)
        /\ liveFingerprint(Latest)' = liveFingerprint(Latest)
    BY <1>2, SameStore DEF Stands
  <2> QED
    BY <1>1, <1>2, <2>1 DEF Stands, Aims, PassHasCause, PassHasMark, PassIsOpen, ObjectsOfLatest
<1>3. CASE Restarts
  <2>1. ObjectsOfLatest'
    BY <1>1, <1>3, SameStore DEF Restarts, Aims, ObjectsOfLatest
  <2> QED
    BY <1>3, <2>1, IdleAims, IdleType DEF Restarts
<1>4. CASE Appears
  <2>1. w.pc \notin {"applying", "deleting"} /\ (ActsOnOwn => w.lost)
    BY <1>1, <1>4 DEF Appears, PassOwns, OperationMarked
  <2> QED
    BY <1>1, <1>4, <2>1
       DEF Appears, Aims, ActsOnOwn, PassHasCause, PassHasMark, PassIsOpen, ObjectsOfLatest
<1>5. CASE Vanishes
  <2>1. w'.lost \/ ~ActsOnOwn
    BY <1>1, <1>5 DEF Vanishes, PassOwns, ActsOnOwn
  <2> QED
    BY <1>1, <1>5, <2>1
       DEF Vanishes, Aims, ActsOnOwn, PassHasCause, PassHasMark, PassIsOpen, ObjectsOfLatest
<1>6. CASE IsUninstalled
  <2>1. /\ Latest'.status = "uninstalled" /\ Want' = Want
        /\ liveFingerprint(Latest)' = liveFingerprint(Latest)
    BY <1>6 DEF IsUninstalled, Revision, Want, liveFingerprint, fingerprint
  <2>2. w.pc # "applying" /\ (~w.lost => w.pc \notin {"history", "rollback"})
    BY <1>1, <1>6 DEF IsUninstalled, OperationMarked, Aims, PassHasCause, Pending
  <2> QED
    BY <1>1, <1>6, <2>1, <2>2
       DEF IsUninstalled, Aims, PassHasCause, PassHasMark, PassIsOpen, ObjectsOfLatest
<1> QED
  BY <1>1, <1>2, <1>3, <1>4, <1>5, <1>6, EnvironmentSteps

\* From the decision to its last step, a pass knows what it is about: Helm works
\* on what is wanted, on a rollback or on a removal, and the objects of a
\* deployed release are in the cluster.
LEMMA AimsHold == Spec => []AimedInv
<1>1. Init => Aims
  BY IdleType DEF Init, Aims, PassHasCause, PassHasMark, PassIsOpen, ObjectsOfLatest, Exists
<1>2. AimedInv /\ [Next]_vars => Aims'
  <2> SUFFICES ASSUME AimedInv, [Next]_vars PROVE Aims'
    OBVIOUS
  <2>1. CASE UNCHANGED vars
    BY <2>1 DEF vars, AimedInv, Aims, PassHasCause, PassHasMark, PassIsOpen, ObjectsOfLatest,
                Exists, Latest, liveFingerprint, Want, fingerprint
  <2> QED
    BY <2>1, WorkerKeepsAims, EnvironmentKeepsAims DEF Next
<1>3. Spec => []Inv
  BY DecisionsHold DEF Inv
<1> QED
  BY <1>1, <1>2, <1>3, PTL DEF Spec, AimedInv

--------------------------------------------------------------------------------
(***************************************************************************)
(* The gate, the length of the history, and the contract.                   *)
(***************************************************************************)

\* Every variable keeps to its values; among others Helm's history never holds
\* an empty values map, which it stores as nil.
THEOREM HelmTypes == Spec => []TypeOK
  BY DecisionsHold, PTL

\* handleReleaseResult lets the install go on only when the release EnsureRelease
\* was asked for is deployed under this operator's label and its objects are in
\* the cluster, whoever used the name and whatever failed meanwhile.
THEOREM GateOpens == Spec => GateOpensOnDesired
<1> DEFINE Delivered ==
             /\ Exists'
             /\ Latest'.status = "deployed" /\ Latest'.owned
             /\ Latest'.chart = build.chart /\ Latest'.config = Stored(build.vals)
             /\ objects' = Latest'
           Gate == EndsPass /\ outcome'.action = "converged" /\ spec = "live" => Delivered
<1>1. AimedInv /\ [Next]_vars => [Gate]_vars
  <2> SUFFICES ASSUME AimedInv, Next, EndsPass, outcome'.action = "converged", spec = "live"
               PROVE  Delivered
    OBVIOUS
  <2>1. /\ Inv /\ TypeOK /\ PassHasMark /\ PassIsOpen /\ ObjectsOfLatest
        /\ w.op # "drain" /\ build.vals \in Values
    BY DEF AimedInv, Inv, Aims, DecisionHolds, RemovalJustified, TypeOK, Build
  <2>2. w.pc # "idle" => outcome.action # "converged"
    BY <2>1 DEF PassIsOpen
  <2>3. CASE EnsureRelease
    <3>1. /\ store' = store /\ objects' = objects
          /\ Exists /\ Latest.owned /\ Latest.status = "deployed" /\ liveFingerprint(Latest) = Want
      BY <2>1, <2>3, DecisionHasCause
    <3>2. Latest \in Revision
      BY <2>1, <3>1, History
    <3>3. Latest.chart = build.chart /\ Latest.config = Stored(build.vals)
      BY <2>1, <3>1, <3>2, SameFingerprint DEF Want
    <3> QED
      BY <2>1, <3>1, <3>3, SameStore DEF ObjectsOfLatest
  <2>4. ASSUME NEW ok \in BOOLEAN, Applied(ok) PROVE Delivered
    <3>1. Completes(ok)
      BY <2>4, OperationCompletes
    <3> QED
      BY <2>1, <3>1 DEF Completes, PassHasMark, Revision
  <2>5. CASE LastDeployedRevision
    BY <2>1, <2>2, <2>5, RepairHasCause DEF Abandons, EndsPass
  <2>6. CASE Install \/ Upgrade \/ Rollback
    BY <2>2, <2>6, OperationRecords DEF Abandons, Records, EndsPass
  <2>7. CASE Remove
    <3>1. CASE uninstallRelease
      BY <2>1, <3>1 DEF uninstallRelease
    <3>2. CASE Uninstall \/ \E ok \in BOOLEAN : Uninstalled(ok)
      BY <2>1, <2>2, <3>2, RemovalSteps DEF Abandons, Purges, Marks, Jams, EndsPass
    <3> QED
      BY <2>7, <3>1, <3>2 DEF Remove
  <2>8. CASE Environment
    <3>1. outcome' = outcome
      BY <2>8 DEF Environment, EditPlatform, DeletePlatform, Crash, Rollout, ForeignInstall,
                  ForeignUninstall, UninstallKeepingHistory
    <3>2. queued' = TRUE \/ queued' = queued
      BY <2>8, Zenon DEF Environment, EditPlatform, DeletePlatform, Crash, Rollout, ForeignInstall,
                  ForeignUninstall, UninstallKeepingHistory
    <3>3. w.pc = "idle"
      BY <2>2, <3>1
    <3>4. queued /\ ~queued'
      BY <3>3, Zenon DEF EndsPass
    <3> QED
      BY <3>2, <3>4, Zenon
  <2> QED
    BY <2>3, <2>4, <2>5, <2>6, <2>7, <2>8 DEF Next, Converge
<1> QED
  BY <1>1, AimsHold, PTL DEF Spec, GateOpensOnDesired

\* The pass works on a release in whose place somebody else's may have come.
Misled == w.lost /\ w.pc \in {"history", "upgrade", "rollback"}

\* The revisions still to be recorded before the release is as wanted: one for an
\* install or an upgrade, two for one left pending by a dead operator, which is
\* first rolled back; none for one that is as wanted, held or waited for, or is
\* somebody else's, unless a pass that was misled adds one to it.
ToCome ==
    IF ~Exists \/ Misled THEN 1
    ELSE IF Different /\ Latest.status \in Pending /\ w.pc # "applying" THEN 2
    ELSE IF Different /\ Latest.status \in Convergeable THEN 1 ELSE 0

\* The history and what is still to come of it.
Bounded == Len(store) + ToCome <= 1 + used.rollouts + used.mishaps

\* Nothing is to come of a release somebody else put in the place of ours.
LEMMA MisledByTheirs ==
    ASSUME Inv, Exists, Misled
    PROVE  ~Different
<1>1. TypeOK /\ Theirs
  BY DEF Inv, DecisionHolds, LostIsReplaced, ActsOnOwn, Misled
<1> QED
  BY <1>1, OwnIsNotTheirs DEF Different

\* An operation that is recorded is one fewer to come.
LEMMA RecordingKeepsBound ==
    ASSUME AimedInv, Bounded, Records
    PROVE  Bounded'
<1>1. TypeOK /\ PassHasCause /\ build.vals \in Values /\ Len(store) \in Nat
  BY History DEF AimedInv, Inv, Aims, TypeOK, Build
<1>2. used' = used /\ used.rollouts \in Nat /\ used.mishaps \in Nat
  BY <1>1 DEF Records, TypeOK
<1>3. Want' = Want
  BY DEF Records, Want, fingerprint
<1>4. CASE Latest'.owned = TRUE /\ Latest'.chart = build.chart /\ Latest'.config = Stored(build.vals)
  <2>1. liveFingerprint(Latest)' = fingerprint(build.chart, Stored(build.vals))
    BY <1>4 DEF liveFingerprint, fingerprint
  <2>2. ~Different'
    BY <1>1, <1>3, <2>1, StoredReadsBack DEF Different, Want
  <2>3. ToCome' = 0
    BY <2>2 DEF ToCome, Records, Misled
  <2>4. ToCome >= 1
    BY DEF ToCome, Records, Finds, Misled, Pending, Convergeable
  <2>5. ToCome \in Nat
    BY DEF ToCome
  <2> QED
    BY <1>1, <1>2, <2>3, <2>4, <2>5 DEF Bounded, Records
<1>5. CASE /\ ~w.lost /\ Latest'.status = "pending-rollback" /\ Exists
           /\ Latest.status \in Pending
  <2>1. ToCome = 2
    BY <1>5 DEF ToCome, Records, Finds, Misled
  <2>2. ToCome' \in {0, 1}
    BY <1>5 DEF ToCome, Records, Misled
  <2> QED
    BY <1>1, <1>2, <2>1, <2>2 DEF Bounded, Records
<1>6. CASE w.lost /\ Exists /\ ~Latest'.owned
  <2>1. ToCome = 1
    BY <1>6 DEF ToCome, Records, Finds, Misled
  <2>2. ToCome' = 0
    BY <1>6 DEF ToCome, Records, Misled, Different
  <2> QED
    BY <1>1, <1>2, <2>1, <2>2 DEF Bounded, Records
<1> QED
  BY <1>4, <1>5, <1>6 DEF Records

\* A step of the worker adds to the history only what was to come.
LEMMA WorkerKeepsBound ==
    ASSUME AimedInv, Bounded, Converge \/ Remove
    PROVE  Bounded'
<1>1. /\ Inv /\ TypeOK /\ Len(store) \in Nat /\ (Exists <=> Len(store) > 0)
      /\ used \in [rollouts : Nat, mishaps : Nat]
      /\ used.rollouts \in Nat /\ used.mishaps \in Nat
  BY History DEF AimedInv, Inv, TypeOK
<1>2. ASSUME store' = store, build' = build, w.pc # "applying", w'.pc # "applying",
             Misled' => Misled
      PROVE  ToCome' \in 0..ToCome /\ ToCome \in Nat
  BY <1>1, <1>2, SameStore, MisledByTheirs DEF ToCome
<1>3. ASSUME store' = store, build' = build, used' = used, w.pc # "applying", w'.pc # "applying",
             Misled' => Misled
      PROVE  Bounded'
  BY <1>1, <1>2, <1>3 DEF Bounded
<1>4. CASE EnsureRelease
  BY <1>1, <1>3, <1>4, DecisionHasCause DEF Misled
<1>5. CASE LastDeployedRevision
  BY <1>3, <1>5, RepairHasCause, IdleType DEF Abandons, Misled
<1>6. CASE Install \/ Upgrade \/ Rollback
  <2>1. w.pc # "applying"
    BY <1>6 DEF Install, Upgrade, Rollback
  <2>2. CASE Abandons
    BY <1>3, <2>1, <2>2, IdleType DEF Abandons, Misled
  <2> QED
    BY <1>6, <2>2, OperationRecords, RecordingKeepsBound
<1>7. ASSUME NEW ok \in BOOLEAN, Applied(ok) PROVE Bounded'
  <2>1. Completes(ok)
    BY <1>7, OperationCompletes
  <2>2. Latest'.chart = Latest.chart /\ Latest'.config = Latest.config
        /\ Latest'.owned = Latest.owned /\ Latest'.status \in {"deployed", "failed"}
    BY <2>1 DEF Completes, Revision
  <2>3. Want' = Want /\ liveFingerprint(Latest)' = liveFingerprint(Latest)
    BY <2>1, <2>2 DEF Completes, Want, liveFingerprint, fingerprint
  <2>4. Different' <=> Different
    BY <2>1, <2>2, <2>3 DEF Completes, Different
  <2>5. ToCome' = ToCome
    BY <2>1, <2>2, <2>4, IdleType DEF Completes, ToCome, Convergeable, Pending, Misled
  <2> QED
    BY <2>1, <2>5 DEF Completes, Bounded
<1>8. CASE uninstallRelease
  BY <1>3, <1>8 DEF uninstallRelease, Idle, Misled
<1>9. CASE Abandons /\ w.pc # "applying"
  BY <1>3, <1>9, IdleType DEF Abandons, Misled
<1>10. CASE Purges
  <2>1. w.pc # "applying" /\ w'.pc # "applying"
    BY <1>10, IdleType DEF Purges
  <2>2. CASE store' = <<>>
    <3>1. Len(store') = 0 /\ ~Exists'
      BY <2>2, EmptySeq DEF Exists
    <3> QED
      BY <1>1, <1>10, <3>1 DEF Purges, Bounded, ToCome
  <2> QED
    BY <1>3, <1>10, <2>1, <2>2, IdleType DEF Purges, Misled
<1>11. CASE Marks
  <2>1. ToCome' = 0
    BY <1>11 DEF Marks, ToCome, Revision, Convergeable, Pending, Misled
  <2> QED
    BY <1>1, <1>11, <2>1 DEF Marks, Bounded, ToCome
<1>12. CASE Jams
  <2>1. ToCome' \in 0..ToCome /\ ToCome \in Nat
    BY <1>2, <1>12, IdleType DEF Jams, Misled
  <2>2. used'.rollouts = used.rollouts /\ used'.mishaps = used.mishaps + 1
    BY <1>1, <1>12 DEF Jams
  <2> QED
    BY <1>1, <1>12, <2>1, <2>2 DEF Jams, Bounded
<1>13. CASE Uninstall \/ \E ok \in BOOLEAN : Uninstalled(ok)
  <2>1. w.pc # "applying"
    BY <1>13 DEF Uninstall, Uninstalled
  <2> QED
    BY <1>1, <1>9, <1>10, <1>11, <1>12, <1>13, <2>1, RemovalSteps
<1> QED
  BY <1>4, <1>5, <1>6, <1>7, <1>8, <1>13 DEF Converge, Remove

\* A crash adds one revision to come and a rollout two, and each is counted.
LEMMA EnvironmentKeepsBound ==
    ASSUME AimedInv, Bounded, Environment
    PROVE  Bounded'
<1>1. /\ Inv /\ TypeOK /\ Len(store) \in Nat /\ (Exists <=> Len(store) > 0)
      /\ used.rollouts \in Nat /\ used.mishaps \in Nat
  BY History DEF AimedInv, Inv, TypeOK
<1>2. CASE Stands
  <2>1. ToCome' = ToCome
    BY <1>2, SameStore DEF Stands, ToCome, Misled
  <2> QED
    BY <1>2, <2>1 DEF Stands, Bounded
<1>3. CASE Restarts
  <2>1. (Exists' <=> Exists) /\ Latest' = Latest
    BY <1>3, SameStore DEF Restarts
  <2>2. ToCome \in 0..2 /\ ToCome' \in 0..2 /\ ~Misled'
    BY <1>3, IdleType DEF ToCome, Restarts, Misled
  <2>3. CASE build' = build /\ used'.rollouts = used.rollouts
    <3>1. Different' <=> Different
      BY <1>3, <2>3, SameStore DEF Restarts
    <3>2. ToCome' <= ToCome + 1
      BY <1>1, <2>1, <2>2, <3>1, MisledByTheirs DEF ToCome, Convergeable
    <3> QED
      BY <1>1, <1>3, <2>2, <2>3, <3>2 DEF Restarts, Bounded
  <2>4. CASE used'.rollouts = used.rollouts + 1
    <3>1. Len(store') = Len(store) /\ used'.mishaps = used.mishaps + 1
      BY <1>3 DEF Restarts
    <3> QED
      <4>1. ToCome' <= ToCome + 2
        BY <2>2
      <4> QED
        BY <1>1, <2>2, <2>4, <3>1, <4>1 DEF Bounded
  <2> QED
    BY <1>3, <2>3, <2>4 DEF Restarts
<1>4. CASE Appears
  <2>1. ToCome' \in 0..1
    BY <1>4 DEF Appears, ToCome, Different
  <2> QED
    BY <1>1, <1>4, <2>1 DEF Appears, Bounded, ToCome
<1>5. CASE Vanishes
  <2>1. Len(store') = 0 /\ ~Exists'
    BY <1>5, EmptySeq DEF Vanishes, Exists
  <2> QED
    BY <1>1, <1>5, <2>1 DEF Vanishes, Bounded, ToCome
<1>6. CASE IsUninstalled
  <2>1. ToCome' = IF Misled THEN 1 ELSE 0
    BY <1>6 DEF IsUninstalled, ToCome, Revision, Convergeable, Pending, Misled
  <2> QED
    BY <1>1, <1>6, <2>1 DEF IsUninstalled, Bounded, ToCome
<1> QED
  BY <1>1, <1>2, <1>3, <1>4, <1>5, <1>6, EnvironmentSteps

\* EnsureRelease does not churn: however many passes, failures and retries there
\* are, a release whose inputs failed is held, and the history grows only by what
\* a rollout or the operator's death made necessary.
THEOREM HistoryBounded == Spec => []NoChurn
<1>1. Init => Bounded
  <2> SUFFICES ASSUME Init PROVE Bounded
    OBVIOUS
  <2>1. Len(store) = 0 /\ ~Exists
    BY EmptySeq DEF Init, Exists
  <2> QED
    BY <2>1 DEF Init, Bounded, ToCome
<1>2. AimedInv /\ Bounded /\ [Next]_vars => Bounded'
  <2> SUFFICES ASSUME AimedInv, Bounded, [Next]_vars PROVE Bounded'
    OBVIOUS
  <2>1. CASE UNCHANGED vars
    <3>1. ToCome' = ToCome
      BY <2>1, SameStore DEF vars, ToCome, Misled
    <3> QED
      BY <2>1, <3>1 DEF vars, Bounded
  <2> QED
    BY <2>1, WorkerKeepsBound, EnvironmentKeepsBound DEF Next
<1>3. AimedInv /\ Bounded => NoChurn
  <2> SUFFICES ASSUME AimedInv, Bounded PROVE NoChurn
    OBVIOUS
  <2>1. Len(store) \in Nat /\ used.rollouts \in Nat /\ used.mishaps \in Nat
    BY History DEF AimedInv, Inv, TypeOK
  <2>2. ToCome \in Nat
    BY DEF ToCome
  <2> QED
    BY <2>1, <2>2 DEF Bounded, NoChurn
<1> QED
  BY <1>1, <1>2, <1>3, AimsHold, PTL DEF Spec

\* EnsureRelease and uninstallRelease, with every crash, failure and foreign
\* install between their steps, implement the contract of a release, which
\* Platform relies on for each of its releases.
THEOREM ContractImplemented == Spec => KeepsContract
<1>1. Init => Contract!Init
  BY IdleType DEF Init, Contract!Init, ReleaseState, Exists, Found
<1>2. AimedInv /\ [Next]_vars => [Contract!Next]_<<ReleaseState, Found>>
  <2> SUFFICES ASSUME AimedInv, [Next]_vars
               PROVE  Contract!Next \/ UNCHANGED <<ReleaseState, Found>>
    OBVIOUS
  <2> USE DEF Contract!Next, Contract!Find, Contract!Leave, Contract!Converge, Contract!Remove,
              Contract!Appear
  <2>1. Inv /\ TypeOK /\ (Exists => Latest \in Revision) /\ Found \in BOOLEAN
    BY History DEF AimedInv, Inv, Found
  <2>2. ASSUME store' = store, Found' => Found
        PROVE  Contract!Next \/ UNCHANGED <<ReleaseState, Found>>
    <3>1. ReleaseState' = ReleaseState
      BY <2>2 DEF ReleaseState, Exists, Latest, Theirs
    <3> QED
      BY <2>1, <2>2, <3>1
  <2>3. CASE Records
    <3>1. ~Found' /\ (Exists => w.pc # "install" \/ ~w.lost)
      BY <2>3 DEF Records, Found, Finds
    <3>2. ReleaseState' = IF Theirs' THEN "theirs" ELSE "failed"
      BY <2>3 DEF Records, ReleaseState, Pending
    <3>3. ReleaseState \in {"none", "ours", "failed"} \/ (Found /\ ReleaseState = "theirs")
      <4>1. CASE ~Exists
        BY <4>1 DEF ReleaseState, Theirs
      <4>2. CASE Different /\ Latest.status \in Convergeable
        BY <2>1, <4>2, OwnIsNotTheirs DEF ReleaseState, Different, Convergeable, Pending
      <4>3. CASE Exists /\ Theirs /\ w.pc \in {"upgrade", "rollback"}
        BY <4>3 DEF ReleaseState, Found
      <4> QED
        BY <2>3, <4>1, <4>2, <4>3 DEF Records, Finds
    <3>4. Theirs' => ReleaseState = "theirs"
      BY <2>3 DEF Records, ReleaseState
    <3> QED
      BY <3>1, <3>2, <3>3, <3>4
  <2>4. ASSUME NEW ok \in BOOLEAN, Completes(ok)
        PROVE  Contract!Next \/ UNCHANGED <<ReleaseState, Found>>
    <3>1. Latest'.status \in {"deployed", "failed"} /\ ~Found' /\ ~Found
      BY <2>4, IdleType DEF Completes, Revision, Found
    <3>2. ReleaseState' \in IF Theirs THEN {"theirs"} ELSE {"ours", "failed"}
      BY <2>4, <3>1 DEF Completes, ReleaseState
    <3>3. ReleaseState = IF Theirs THEN "theirs" ELSE "failed"
      BY <2>4 DEF Completes, ReleaseState, Pending
    <3> QED
      BY <3>1, <3>2, <3>3 DEF Found
  <2>5. CASE Purges
    <3>1. ~Found' /\ ~Found
      BY <2>5, IdleType DEF Purges, Found
    <3>2. CASE store' = <<>>
      <4>1. ~Exists'
        BY <3>2 DEF Exists
      <4>2. ReleaseState' = "none"
        BY <4>1 DEF ReleaseState, Theirs
      <4> QED
        BY <3>1, <4>2 DEF Found
    <3> QED
      BY <2>2, <2>5, <3>1, <3>2 DEF Purges
  <2>6. CASE Marks
    <3>1. /\ Latest'.owned = Latest.owned /\ Latest'.status = "uninstalling"
          /\ ~Found' /\ ~Found
      BY <2>6 DEF Marks, Revision, Found
    <3>2. Latest.owned => ~Theirs
      BY <2>1, <2>6, OwnIsNotTheirs DEF Marks
    <3>3. ReleaseState' = IF Theirs THEN "theirs"
                          ELSE IF Latest.owned THEN "uninstalling" ELSE "failed"
      BY <2>6, <3>1, <3>2 DEF Marks, ReleaseState
    <3>4. ReleaseState \in IF Theirs THEN {"theirs"}
                           ELSE IF Latest.owned THEN {"ours", "uninstalling", "failed"} ELSE {"failed"}
      BY <2>6, <3>2 DEF Marks, ReleaseState
    <3> QED
      BY <3>1, <3>3, <3>4 DEF Found
  <2>7. CASE Appears
    <3>1. ReleaseState' = "theirs" /\ ReleaseState = "none" /\ Found' = Found
      BY <2>7 DEF Appears, ReleaseState, Found, Theirs
    <3> QED
      BY <3>1
  <2>8. CASE Vanishes
    <3>1. ReleaseState' = "none" /\ ReleaseState # "none" /\ Found' = Found
      BY <2>8 DEF Vanishes, ReleaseState, Exists, Theirs, Found
    <3> QED
      BY <3>1
  <2>9. CASE IsUninstalled
    <3>1. Latest'.owned = Latest.owned /\ Latest'.status = "uninstalled" /\ Found' = Found
      BY <2>9 DEF IsUninstalled, Revision, Found
    <3>2. Latest.owned => ~Theirs
      BY <2>1, <2>9, OwnIsNotTheirs DEF IsUninstalled
    <3>3. ReleaseState' = IF Theirs THEN "theirs" ELSE "failed"
      BY <2>9, <3>1 DEF IsUninstalled, ReleaseState
    <3>4. ReleaseState = IF Theirs THEN "theirs" ELSE IF Latest.owned THEN "ours" ELSE "failed"
      BY <2>9, <3>2 DEF IsUninstalled, ReleaseState
    <3> QED
      BY <3>1, <3>3, <3>4
  <2>10. CASE EnsureRelease
    <3>1. store' = store /\ w.pc = "idle"
      BY <2>1, <2>10, DecisionHasCause
    <3>2. CASE ~Found'
      BY <2>2, <3>1, <3>2
    <3>3. CASE Found'
      <4>1. Different /\ Latest.status \in Convergeable
        BY <2>1, <2>10, <3>1, <3>3, DecisionHasCause DEF Found
      <4>2. ReleaseState \in {"ours", "failed"}
        BY <2>1, <4>1, OwnIsNotTheirs DEF ReleaseState, Different, Convergeable, Pending
      <4>3. ReleaseState' = ReleaseState
        BY <3>1 DEF ReleaseState, Exists, Latest, Theirs
      <4> QED
        BY <3>3, <4>2, <4>3
    <3> QED
      BY <3>2, <3>3
  <2>11. CASE LastDeployedRevision
    BY <2>2, <2>11, RepairHasCause DEF Found
  <2>12. CASE uninstallRelease
    BY <2>2, <2>12 DEF uninstallRelease, Found, Idle
  <2>13. CASE Abandons
    BY <2>2, <2>13, IdleType DEF Abandons, Found
  <2>14. CASE Jams
    BY <2>2, <2>14, IdleType DEF Jams, Found
  <2>15. CASE Install \/ Upgrade \/ Rollback
    BY <2>3, <2>13, <2>15, OperationRecords
  <2>16. CASE \E ok \in BOOLEAN : Applied(ok)
    BY <2>4, <2>16, OperationCompletes
  <2>17. CASE Uninstall \/ \E ok \in BOOLEAN : Uninstalled(ok)
    BY <2>1, <2>5, <2>6, <2>13, <2>14, <2>17, RemovalSteps
  <2>18. CASE Environment
    <3>1. CASE Stands \/ Restarts
      BY <2>2, <3>1, IdleType DEF Stands, Restarts, Found
    <3> QED
      BY <2>1, <2>7, <2>8, <2>9, <2>18, <3>1, EnvironmentSteps
  <2>19. CASE UNCHANGED vars
    BY <2>2, <2>19 DEF vars, Found
  <2> QED
    BY <2>10, <2>11, <2>12, <2>15, <2>16, <2>17, <2>18, <2>19 DEF Next, Converge, Remove
<1> QED
  BY <1>1, <1>2, AimsHold, PTL DEF Spec, KeepsContract, Contract!Spec

================================================================================
