------------------------------ MODULE KeyService ------------------------------
(***************************************************************************)
(* What the operator promises about participant keys, to the attendees, to  *)
(* the gateways and to whoever deletes a grant: the contract SessionKeys    *)
(* implements. No pass, cache, queue or retry is seen here; whatever the    *)
(* operator does, at most one of these things happens at a time.            *)
(***************************************************************************)
EXTENDS Naturals

CONSTANTS Sessions, Keys, Gateways, NoKey, NoEntry

VARIABLES
    life,      \* each grant's life
    term,      \* the expiry a present grant asks for
    key,       \* the key in each grant's Secret
    entry,     \* what each gateway is told of each grant: a key's hash and its expiry
    ring,      \* keys the operator may still bring into use for each grant
    waived,    \* gateways a grant was let go without cleaning
    standing,  \* gateways whose namespace takes new registrations
    now

serviceVars == <<life, term, key, entry, ring, waived, standing, now>>

Life == {"none", "new", "claimed", "leaving", "gone"}

\* A gateway knows a key by its SHA-256 digest, and never the key.
Entry == [hash : [sha256 : Keys], exp : Nat]

\* Every value a variable may take.
TypeOK ==
    /\ life \in [Sessions -> Life]
    /\ term \in [Sessions -> Nat]
    /\ key \in [Sessions -> Keys \union {NoKey}]
    /\ entry \in [Sessions -> [Gateways -> Entry \union {NoEntry}]]
    /\ ring \in [Sessions -> SUBSET Keys]
    /\ waived \in [Sessions -> SUBSET Gateways]
    /\ standing \subseteq Gateways
    /\ now \in Nat

Init ==
    /\ life = [s \in Sessions |-> "none"]
    /\ term = [s \in Sessions |-> 0]
    /\ key = [s \in Sessions |-> NoKey]
    /\ entry = [s \in Sessions |-> [g \in Gateways |-> NoEntry]]
    /\ ring = [s \in Sessions |-> {}]
    /\ waived = [s \in Sessions |-> {}]
    /\ standing = Gateways
    /\ now = 0

\* Keys are made and handed out for a grant that will be cleaned up after, or
\* that nobody will be asked about any more.
Bound(s) == life[s] \in {"claimed", "leaving"} \/ waived[s] = Gateways

Shows(e, k) == e # NoEntry /\ e.hash.sha256 = k

InUse(s) == {k \in Keys : key[s] = k \/ \E g \in Gateways : Shows(entry[s][g], k)}

\* Keys may be forgotten at any time, except those in use; none comes from nowhere.
RingShrinks ==
    /\ ring' \in [Sessions -> SUBSET Keys]
    /\ \A s \in Sessions : InUse(s)' \subseteq ring'[s] /\ ring'[s] \subseteq ring[s]

--------------------------------------------------------------------------------
(***************************************************************************)
(* A grant's life.                                                          *)
(***************************************************************************)

Becomes(s, stage) == life' = [life EXCEPT ![s] = stage]

Create(s) ==
    /\ life[s] = "none" /\ Becomes(s, "new")
    /\ term'[s] \in Nat /\ term' = [term EXCEPT ![s] = term'[s]]
    /\ UNCHANGED <<key, entry, waived, standing, now>>

\* The operator binds itself to clean up.
Claim(s) ==
    /\ life[s] = "new" /\ Becomes(s, "claimed")
    /\ UNCHANGED <<term, key, entry, waived, standing, now>>

Ends(s, stage) ==
    /\ Becomes(s, stage)
    /\ term' = IF stage = "gone" THEN [term EXCEPT ![s] = 0] ELSE term
    /\ UNCHANGED <<key, entry, standing, now>>

Delete(s) ==
    /\ \/ life[s] = "new" /\ Ends(s, "gone")
       \/ life[s] = "claimed" /\ Ends(s, "leaving")
    /\ UNCHANGED waived

ForceDelete(s) ==
    /\ life[s] \in {"new", "claimed", "leaving"} /\ Ends(s, "gone")
    /\ waived' = [waived EXCEPT ![s] = Gateways]

\* A deleted grant is let go: one gateway has been cleaned of it, or none is vouched
\* for, because there is none to clean or the window for cleaning it is over.
Depart(s) ==
    /\ life[s] = "leaving" /\ Ends(s, "gone")
    /\ \/ waived' = [waived EXCEPT ![s] = Gateways]
       \/ \E g \in Gateways :
             /\ entry[s][g] = NoEntry
             /\ waived' = [waived EXCEPT ![s] = @ \union (Gateways \ {g})]

--------------------------------------------------------------------------------
(***************************************************************************)
(* A grant's key.                                                           *)
(***************************************************************************)

\* A key no grant has.
Issue(s, k) ==
    /\ Bound(s)
    /\ \A t \in Sessions : k \notin ring[t]
    /\ ring' = [ring EXCEPT ![s] = @ \union {k}]
    /\ UNCHANGED <<life, term, key, entry, waived, standing, now>>

\* A Secret without a key gets one; a key in a Secret is not replaced.
Give(s) ==
    /\ Bound(s) /\ key[s] = NoKey
    /\ key'[s] \in Keys /\ key' = [key EXCEPT ![s] = key'[s]]
    /\ UNCHANGED <<life, term, entry, waived, standing, now>>

\* The Secret is deleted, collected or emptied.
Lose(s) ==
    /\ key' = [key EXCEPT ![s] = NoKey]
    /\ UNCHANGED <<life, term, entry, waived, standing, now>>

SetEntry(s, g) == entry' = [entry EXCEPT ![s][g] = entry'[s][g]]

\* A gateway is told of the grant, or told better, and only ever of its term.
Publish(s, g) ==
    /\ Bound(s)
    /\ SetEntry(s, g) /\ entry'[s][g] \in Entry
    /\ entry[s][g] = NoEntry => g \in standing
    /\ life[s] # "gone" => entry'[s][g].exp = term[s]
    /\ UNCHANGED <<life, term, key, waived, standing, now>>

\* What a gateway was told is taken back once the key has expired or its grant is
\* being, or has been, deleted; never before.
Revoke(s, g) ==
    /\ entry[s][g] # NoEntry => entry[s][g].exp <= now \/ life[s] \in {"leaving", "gone"}
    /\ SetEntry(s, g) /\ entry'[s][g] = NoEntry
    /\ UNCHANGED <<life, term, key, waived, standing, now>>

--------------------------------------------------------------------------------

Fall(g) ==
    /\ standing' = standing \ {g}
    /\ UNCHANGED <<life, term, key, entry, waived, now>>

Vanish(g) ==
    /\ g \notin standing
    /\ entry' = [s \in Sessions |-> [entry[s] EXCEPT ![g] = NoEntry]]
    /\ UNCHANGED <<life, term, key, waived, standing, now>>

Tick ==
    /\ now' = now + 1
    /\ UNCHANGED <<life, term, key, entry, waived, standing>>

\* The operator forgets a key it has no more use for.
Forget == UNCHANGED <<life, term, key, entry, waived, standing, now>>

Next ==
    \/ \E s \in Sessions, k \in Keys : Issue(s, k)
    \/ /\ RingShrinks
       /\ \/ \E s \in Sessions :
                \/ Create(s) \/ Claim(s) \/ Delete(s) \/ ForceDelete(s) \/ Depart(s)
                \/ Give(s) \/ Lose(s)
                \/ \E g \in Gateways : Publish(s, g) \/ Revoke(s, g)
          \/ \E g \in Gateways : Fall(g) \/ Vanish(g)
          \/ Tick \/ Forget

Spec == Init /\ [][Next]_serviceVars

--------------------------------------------------------------------------------
(***************************************************************************)
(* What the contract comes to.                                              *)
(***************************************************************************)

\* Of a grant the operator has not bound itself to, no gateway knows anything.
Unclaimed ==
    \A s \in Sessions : life[s] \in {"none", "new"} =>
        waived[s] = {} /\ \A g \in Gateways : entry[s][g] = NoEntry

\* A gateway that knows a grant will be cleaned of it: the finalizer of
\* reconcileDelete stands, or that gateway was waived when the grant went.
CleanedUpAfter ==
    \A s \in Sessions, g \in Gateways :
        entry[s][g] # NoEntry => life[s] \in {"claimed", "leaving"} \/ g \in waived[s]

\* One attendee's key never admits another: no key is in use for two grants, as the
\* Secret of one or as what a gateway knows of the other, whatever stale copy of a
\* Secret or of a registration ensureSecret and ensureRegistration went by.
OneOwner ==
    \A s \in Sessions :
        /\ InUse(s) \subseteq ring[s]
        /\ \A t \in Sessions \ {s} : ring[s] \intersect ring[t] = {}

\* A gateway that knows a present grant knows the expiry that grant asks for.
TermsTold ==
    \A s \in Sessions, g \in Gateways :
        entry[s][g] # NoEntry /\ life[s] \in {"new", "claimed", "leaving"}
            => entry[s][g].exp = term[s]

================================================================================
