------------------------------- MODULE MCCatalog -------------------------------
(***************************************************************************)
(* Small instances of Catalog for TLC.                                      *)
(***************************************************************************)
EXTENDS Catalog

Plain(stem) == [stem |-> stem, upstream |-> 0]

TwoModels == {Plain("fast"), Plain("smart")}

\* A second name that is the first one's internal name.
Colliding == {Plain("fast"), internalModelName(Plain("fast"))}

Unrelated == {Plain("own")}

\* Written by hand under a name the catalog lists later.
Taken == {Plain("fast")}
================================================================================
