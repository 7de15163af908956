-------------------------------- MODULE Release --------------------------------
(***************************************************************************)
(* What the operator promises about one Helm release, whatever process runs *)
(* it: the contract between EnsureRelease/uninstallRelease and the platform *)
(* reconciler that orders releases. HelmRelease implements it with Helm's   *)
(* history of revisions; Platform relies on it, and keeps it, for each of   *)
(* its releases.                                                            *)
(***************************************************************************)

VARIABLES
    state,  \* the release
    found   \* a pass has found it this operator's, and may still act on that

\* Absent; deployed by this operator; not usable, through a failure or an
\* operation under way or cut short; half removed; somebody else's.
State == {"none", "ours", "failed", "uninstalling", "theirs"}

Init == state \in {"none", "theirs"} /\ ~found

\* A pass reads whose the release is. What it found it does not read again: it
\* may take the release as its own until it is done.
Find == state \in {"ours", "failed"} /\ found' /\ UNCHANGED state

Leave == ~found' /\ UNCHANGED state

\* Converging makes or mends a release of this operator's and leaves every
\* other alone: one half removed is waited for, somebody else's is refused,
\* unless it has taken the place of the one the pass found.
Converge ==
    /\ state \in {"none", "ours", "failed"} \/ (found /\ state = "theirs")
    /\ state' \in {"ours", "failed"}
    /\ found' => found

\* A removal goes through, or leaves the release half removed. It does not ask
\* whose release it is.
Remove ==
    /\ \/ state # "none" /\ state' = "none"
       \/ state \in {"ours", "failed"} /\ state' = "uninstalling"
    /\ found' => found

\* Somebody else may use the name while it is free.
Appear == state = "none" /\ state' = "theirs" /\ UNCHANGED found

Next == Find \/ Leave \/ Converge \/ Remove \/ Appear

Spec == Init /\ [][Next]_<<state, found>>
================================================================================
