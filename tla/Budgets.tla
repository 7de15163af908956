-------------------------------- MODULE Budgets --------------------------------
(***************************************************************************)
(* How a budget becomes the ceiling the gateway enforces.                   *)
(*                                                                          *)
(* A grant's own budgets and the catalog's defaults and maximums are        *)
(* resolved by the session reconciler and reach the gateway by two routes:  *)
(* a budget the grant pins, and every cost budget, rides on the grant's key *)
(* registration; an inherited token budget is left out there, so that the   *)
(* gateway falls back to the policy and the rate-limit row that the         *)
(* platform reconciler renders from the catalog. The two reconcilers run    *)
(* beside each other, and neither sees the other's reads.                   *)
(*                                                                          *)
(* A change of a grant or of the catalog is the operator's cache learning   *)
(* of it: everything here reads that one cache. The ConfigMaps the operator *)
(* writes itself are read from a cache that may be behind its own writes;   *)
(* they are not watched, so that a delivery wakes nobody. SessionKeys       *)
(* models the key, the Secret and the end of a grant, Platform the rest of  *)
(* a platform pass.                                                         *)
(***************************************************************************)
EXTENDS Integers, Sequences

CONSTANTS
    Grants,             \* grants, each a record of a namespace and a name
    GrantSpecs,         \* the budget blocks a grant may have
    CatalogSpecs,       \* the budget and rate-limit settings a catalog may have
    DefaultTokenBudget, \* the built-in ceiling
    costDecimalPlaces,  \* decimal places a cost budget is kept to
    MaxInt,             \* the largest int64
    MaxEdits,           \* bound of the model: edits of grants and of the catalog
    MaxMishaps,         \* bound of the model: failed calls, crashes and outages
    Faults,             \* the mishaps that may happen
    Lag,                \* kinds of object whose cache may be stale
    NoCatalog,          \* the catalog does not exist
    NoEntry             \* a registration that does not exist

Windows == {"second", "minute", "hour", "day", "month", "year"}
FailureModes == {"FailOpen", "FailClosed"}

\* An authored dollar amount: the digits before and after the point. The
\* schema admits nothing but digits; <<>> on both sides is the empty string.
Amount == [whole : Seq(0..9), frac : Seq(0..9)]
Blank == [whole |-> <<>>, frac |-> <<>>]

\* A token budget of 0 is nil: the schema's minimum is 1. "" is a field not set.
GrantSpec == [token : Nat, cost : Amount, window : Windows \union {""}]
CatalogSpec == [defaultToken : Nat, maxToken : Nat, defaultCost : Amount, maxCost : Amount,
                failureMode : FailureModes \union {""}]

ASSUME BudgetConstants ==
    /\ Grants \subseteq [ns : STRING, name : STRING]
    /\ GrantSpecs \subseteq GrantSpec /\ CatalogSpecs \subseteq CatalogSpec
    /\ DefaultTokenBudget \in Nat \ {0}
    /\ costDecimalPlaces \in Nat /\ MaxInt \in Nat \ {0}
    /\ MaxEdits \in Nat /\ MaxMishaps \in Nat
    /\ NoCatalog \notin CatalogSpecs
    /\ Lag \subseteq {"registration", "row"}

--------------------------------------------------------------------------------
(***************************************************************************)
(* Cost budgets, in micro-dollars.                                          *)
(***************************************************************************)

\* int64 arithmetic wraps around.
Wrap(n) == LET m == n % (2 * (MaxInt + 1)) IN IF m > MaxInt THEN m - 2 * (MaxInt + 1) ELSE m

\* Mutated form: the overflow check compares the product with the running total.
ParseCheckedAfter(digits) ==
    LET read[i \in 0..Len(digits)] ==
          IF i = 0 THEN 0
          ELSE LET n == read[i - 1]
                   m == Wrap(n * 10 + digits[i])
               IN  IF n = -1 \/ m < n THEN -1 ELSE m
    IN  read[Len(digits)]

\* Mutated form: no overflow check, in arithmetic wide enough not to need one.
ParseUnbounded(digits) ==
    LET read[i \in 0..Len(digits)] == IF i = 0 THEN 0 ELSE read[i - 1] * 10 + digits[i]
    IN  read[Len(digits)]

\* One digit more; -1 is the error, and an error on the way is kept.
addDigit == [n \in Int |-> [d \in 0..9 |->
                IF n = -1 \/ n > (MaxInt - d) \div 10 THEN -1 ELSE n * 10 + d]]

\* An unsigned decimal.
parseDigits(digits) ==
    LET read[i \in 0..Len(digits)] ==
          IF i = 0 THEN 0 ELSE addDigit[read[i - 1]][digits[i]]
    IN  read[Len(digits)]

\* The fraction is cut off, then padded, to costDecimalPlaces digits. 0 is the
\* error: an amount that is blank or has no whole part, is out of range or is
\* worth less than one micro-dollar.
ParseDollarsToMicroDollars(s) ==
    LET frac == [i \in 1..costDecimalPlaces |-> IF i <= Len(s.frac) THEN s.frac[i] ELSE 0]
        micros == parseDigits(s.whole \o frac)
    IN  IF s.whole = <<>> \/ micros = -1 THEN 0 ELSE micros

\* The powers of ten.
Tens[n \in Nat] == IF n = 0 THEN 1 ELSE 10 * Tens[n - 1]

MicroDollarsPerDollar == Tens[costDecimalPlaces]

\* The i-th of costDecimalPlaces digits.
Digit(frac, i) == (frac \div Tens[costDecimalPlaces - i]) % 10

\* Mutated form: the fraction is not padded with leading zeros.
FormatUnpadded(micros) ==
    LET frac == micros % MicroDollarsPerDollar
        first == CHOOSE i \in 1..costDecimalPlaces :
                     (\A j \in 1..(i - 1) : Digit(frac, j) = 0)
                  /\ (Digit(frac, i) # 0 \/ i = costDecimalPlaces)
    IN  [whole |-> <<micros \div MicroDollarsPerDollar>>,
         frac |-> [i \in 1..(costDecimalPlaces - first + 1) |-> Digit(frac, first + i - 1)]]

\* Dollars for a reader: trailing zeros are trimmed, two decimals are kept. (The
\* whole dollars are left as one number.)
formatMicroDollars(micros) ==
    LET frac == micros % MicroDollarsPerDollar
        kept == CHOOSE n \in 0..costDecimalPlaces :
                     (\A i \in (n + 1)..costDecimalPlaces : Digit(frac, i) = 0)
                  /\ (n = 0 \/ Digit(frac, n) # 0)
        n == IF kept < 2 THEN 2 ELSE kept
    IN  [whole |-> <<micros \div MicroDollarsPerDollar>>,
         frac |-> [i \in 1..n |-> IF i <= kept THEN Digit(frac, i) ELSE 0]]

--------------------------------------------------------------------------------
(***************************************************************************)
(* Resolution: the grant, else the catalog, else the built-in value; then   *)
(* the catalog's maximum.                                                   *)
(***************************************************************************)

ResolveTokenBudget(grant, catalogDefault, catalogMax) ==
    LET inherited == grant = 0
        value == IF grant > 0 THEN grant
                 ELSE IF catalogDefault > 0 THEN catalogDefault ELSE DefaultTokenBudget
        over == catalogMax > 0 /\ value > catalogMax
    IN  [value |-> IF over THEN catalogMax ELSE value,
         inherited |-> inherited, clamped |-> over /\ ~inherited]

\* A value of 0 means that no cost ceiling applies. A maximum that is set and
\* cannot be read clamps to the smallest ceiling.
ResolveCostBudget(grant, catalogDefault, catalogMax) ==
    LET own == ParseDollarsToMicroDollars(grant)
        inherited == own = 0
        value == IF inherited THEN ParseDollarsToMicroDollars(catalogDefault) ELSE own
        max == ParseDollarsToMicroDollars(catalogMax)
    IN  IF value = 0 \/ catalogMax = Blank THEN [value |-> value, clamped |-> FALSE]
        ELSE IF max = 0 THEN [value |-> 1, clamped |-> TRUE]
        ELSE IF value > max THEN [value |-> max, clamped |-> ~inherited]
        ELSE [value |-> value, clamped |-> FALSE]

TokenBudget(spec, cat) == ResolveTokenBudget(spec.token, cat.defaultToken, cat.maxToken)
CostBudget(spec, cat) == ResolveCostBudget(spec.cost, cat.defaultCost, cat.maxCost)

\* Mutated form: the maximum does not reach the default.
UnclampedDefault(cat) ==
    IF cat = NoCatalog \/ cat.defaultToken = 0 THEN DefaultTokenBudget ELSE cat.defaultToken

\* The row of the rate-limit service, and what the policy falls back to.
EffectiveDefaultTokenBudget(cat) ==
    IF cat = NoCatalog THEN DefaultTokenBudget
    ELSE ResolveTokenBudget(0, cat.defaultToken, cat.maxToken).value

FailureMode(cat) ==
    IF cat = NoCatalog \/ cat.failureMode = "" THEN "FailClosed" ELSE cat.failureMode

\* Mutated form: the policy falls back to the built-in constant.
FallBackToConstant(cat) == [fallback |-> DefaultTokenBudget, failureMode |-> FailureMode(cat)]

\* The part of the API-key policy that follows the catalog. (So does its request
\* timeout, which is copied along.)
renderPolicySpec(cat) ==
    [fallback |-> EffectiveDefaultTokenBudget(cat), failureMode |-> FailureMode(cat)]

BudgetWindow(spec) == IF spec.window = "" THEN "day" ELSE spec.window

\* A grant's registration is named after the grant alone.
ResourceName(g) == g.name

\* The entry of g's key: no token budget (0) if it is inherited, a cost budget
\* whenever one applies.
buildRegistration(g, spec, cat) ==
    [of |-> g, window |-> BudgetWindow(spec), cost |-> CostBudget(spec, cat).value,
     token |-> LET b == TokenBudget(spec, cat) IN IF b.inherited THEN 0 ELSE b.value]

\* Whether the entry would enforce the same: the whole of it is compared.
entryEquals(entry, desired) == entry = desired

--------------------------------------------------------------------------------
VARIABLES
    grant,    \* the grants' specs
    catalog,  \* the catalog's spec
    ready,    \* the catalog's Ready condition
    reg,      \* key registrations, by name
    report,   \* the budgets in the grants' statuses
    row,      \* the rate-limit row
    policy,   \* the API-key policy
    phase,    \* the platform's phase
    regSeen,  \* what the cache shows of the registrations
    rowSeen,  \* and of the rate-limit row
    misread,  \* for the properties: the grants whose registration a pass left at
              \* something else than it resolved, the cache being stale
    rowMisread, \* and whether the row was left like that
    queue,    \* grants in the session reconciler's workqueue or waiting for it
    queued,   \* whether the platform is in its workqueue
    s,        \* the session reconciler's worker
    p,        \* the platform reconciler's worker
    used      \* edits and mishaps so far

caches == <<regSeen, rowSeen>>
misreadings == <<misread, rowMisread>>
objects == <<reg, report, row, policy, phase, caches, misreadings>>
vars == <<grant, catalog, ready, objects, queue, queued, s, p, used>>

Names == {ResourceName(g) : g \in Grants}

Entry == [of : Grants, window : Windows, cost : 0..MaxInt, token : Nat]

\* nil is no registration.
ASSUME NilEntry == NoEntry \notin Entry

Report == [token : Nat, cost : Amount \union [whole : Seq(Nat), frac : Seq(0..9)],
           clamped : BOOLEAN]

Policy == [fallback : Nat, failureMode : FailureModes]

NoReport == [token |-> 0, cost |-> Blank, clamped |-> FALSE]

SessionIdle == [pc |-> "idle"]
PlatformIdle == [pc |-> "idle"]

\* Every value a variable may take; a published cost fits an int64.
TypeOK ==
    /\ grant \in [Grants -> GrantSpecs]
    /\ catalog \in CatalogSpecs \union {NoCatalog}
    /\ ready \in BOOLEAN
    /\ reg \in [Names -> Entry \union {NoEntry}]
    /\ report \in [Grants -> Report]
    /\ row \in Nat
    /\ regSeen \in [Names -> Entry \union {NoEntry}]
    /\ rowSeen \in Nat
    /\ misread \subseteq Grants
    /\ rowMisread \in BOOLEAN
    /\ policy \in Policy
    /\ phase \in {"Installing", "Ready", "Failed"}
    /\ queue \subseteq Grants
    /\ queued \in BOOLEAN
    /\ \/ s = SessionIdle
       \/ s \in [pc : {"catalog"}, g : Grants, spec : GrantSpecs]
       \/ s \in [pc : {"register", "status"}, g : Grants, entry : Entry, report : Report]
    /\ \/ p = PlatformIdle
       \/ p \in [pc : {"row"}, row : Nat] \union [pc : {"available"}]
       \/ p \in [pc : {"policy"}, policy : Policy]
    /\ used \in [edits : Nat, mishaps : Nat]

\* The operator starts over grants and, perhaps, a catalog that exist already.
Init ==
    /\ grant \in [Grants -> GrantSpecs]
    /\ catalog \in CatalogSpecs \union {NoCatalog}
    /\ ready = FALSE
    /\ reg = [n \in Names |-> NoEntry]
    /\ report = [g \in Grants |-> NoReport]
    /\ row = 0
    /\ policy = [fallback |-> 0, failureMode |-> "FailClosed"]
    /\ phase = "Installing"
    /\ regSeen = reg /\ rowSeen = row
    /\ misread = {} /\ rowMisread = FALSE
    /\ queue = Grants
    /\ queued = TRUE
    /\ s = SessionIdle
    /\ p = PlatformIdle
    /\ used = [edits |-> 0, mishaps |-> 0]

Mishap(kind) ==
    /\ kind \in Faults /\ used.mishaps < MaxMishaps
    /\ used' = [used EXCEPT !.mishaps = @ + 1]

Edit ==
    /\ used.edits < MaxEdits
    /\ used' = [used EXCEPT !.edits = @ + 1]

--------------------------------------------------------------------------------
(***************************************************************************)
(* The session reconciler, over one grant at a time.                        *)
(***************************************************************************)

\* The pass reads the grant.
SessionReconcile(g) ==
    /\ s.pc = "idle" /\ g \in queue
    /\ queue' = queue \ {g}
    /\ s' = [pc |-> "catalog", g |-> g, spec |-> grant[g]]
    /\ UNCHANGED <<grant, catalog, ready, objects, queued, p, used>>

\* A pass that failed or waits comes back.
Retry == s' = SessionIdle /\ queue' = queue \union {s.g}

\* What the status says of the budgets a pass resolved.
budgetReport(spec, cat) ==
    [token |-> TokenBudget(spec, cat).value,
     cost |-> LET c == CostBudget(spec, cat).value
              IN  IF c = 0 THEN Blank ELSE formatMicroDollars(c),
     clamped |-> TokenBudget(spec, cat).clamped \/ CostBudget(spec, cat).clamped]

\* It then reads the catalog and resolves, once, what it will register and
\* report; a catalog that is not there or not ready is waited for. (The
\* platform's namespace, which it also waits for, is in SessionKeys.)
resolveCatalog ==
    /\ s.pc = "catalog"
    /\ \/ /\ catalog # NoCatalog /\ ready
          /\ s' = [pc |-> "register", g |-> s.g,
                    entry |-> buildRegistration(s.g, s.spec, catalog),
                    report |-> budgetReport(s.spec, catalog)]
          /\ UNCHANGED queue
       \/ /\ catalog = NoCatalog \/ ~ready
          /\ Retry
    /\ UNCHANGED <<grant, catalog, ready, objects, queued, p, used>>

\* What a pass makes of a registration: created if the cache shows none, rewritten
\* if what it shows would enforce something else. AlreadyExists is taken for
\* success.
registered(live, seen, desired) ==
    IF seen = NoEntry THEN IF live = NoEntry THEN desired ELSE live
    ELSE IF entryEquals(seen, desired) THEN live ELSE desired

\* An update of a registration the cache is behind on is a conflict.
registrationConflict(live, seen, desired) ==
    seen # live /\ seen # NoEntry /\ ~entryEquals(seen, desired)

\* The cache is behind a write for a while, or, without lag, not at all.
cached(kind, old, new) == IF kind \in Lag THEN old ELSE new

\* The registration is brought to what the pass resolved, as far as the cache
\* tells. A failure, here or with the Secret before, is retried; the report of a
\* failed registration, if it is written, says already whether a budget was clamped.
ensureRegistration ==
    /\ s.pc = "register"
    /\ LET n == ResourceName(s.g)
           conflict == registrationConflict(reg[n], regSeen[n], s.entry)
       IN  \/ /\ ~conflict
              /\ reg' = [reg EXCEPT ![n] = registered(@, regSeen[n], s.entry)]
              /\ regSeen' = cached("registration", regSeen, reg')
              /\ misread' = IF regSeen[n] # reg[n] /\ reg[n] # s.entry
                            THEN misread \union {s.g} ELSE misread \ {s.g}
              /\ s' = [s EXCEPT !.pc = "status"]
              /\ UNCHANGED <<report, queue, used>>
           \/ /\ Retry
              /\ (conflict /\ UNCHANGED used) \/ Mishap("write")
              /\ report' \in {report, [report EXCEPT ![s.g].clamped = s.report.clamped]}
              /\ UNCHANGED <<reg, regSeen, misread>>
    /\ UNCHANGED <<grant, catalog, ready, row, policy, phase, rowSeen, rowMisread, queued, p>>

updateSessionStatus ==
    /\ s.pc = "status"
    /\ \/ /\ report' = [report EXCEPT ![s.g] = s.report]
          /\ s' = SessionIdle
          /\ UNCHANGED <<queue, used>>
       \/ /\ Mishap("write") /\ Retry
          /\ UNCHANGED report
    /\ UNCHANGED <<grant, catalog, ready, reg, row, policy, phase, caches, misreadings,
                   queued, p>>

--------------------------------------------------------------------------------
(***************************************************************************)
(* The platform reconciler's last two steps of a pass over a bundled        *)
(* gateway. Each reads the catalog for itself, and a catalog that does not  *)
(* exist leaves the built-in values.                                        *)
(***************************************************************************)

PlatformReconcile ==
    /\ p.pc = "idle" /\ queued
    /\ queued' = FALSE
    /\ p' = [pc |-> "row", row |-> EffectiveDefaultTokenBudget(catalog)]
    /\ UNCHANGED <<grant, catalog, ready, objects, queue, s, used>>

\* The row is created if the cache shows none (0), else written over; again,
\* AlreadyExists is taken for success. A failed write, or a conflict, is reported
\* as Failed, and nothing is retried.
ensureRateLimitConfig ==
    /\ p.pc = "row"
    /\ LET exists == rowSeen = 0 /\ row # 0
           conflict == rowSeen # 0 /\ rowSeen # row
       IN  \/ /\ ~conflict
              /\ row' = IF exists THEN row ELSE p.row
              /\ rowSeen' = cached("row", rowSeen, row')
              /\ rowMisread' = (exists /\ row # p.row)
              /\ p' = [pc |-> "available"]
              /\ UNCHANGED <<phase, used>>
           \/ /\ (conflict /\ UNCHANGED used) \/ Mishap("ratelimit")
              /\ phase' = "Failed"
              /\ p' = PlatformIdle
              /\ UNCHANGED <<row, rowSeen, rowMisread>>
    /\ UNCHANGED <<grant, catalog, ready, reg, report, policy, regSeen, misread,
                   queue, queued, s>>

\* The pass goes on, and reads the catalog again, once the store and the service
\* are available.
rateLimitAvailable ==
    /\ p.pc = "available"
    /\ \/ /\ p' = [pc |-> "policy", policy |-> renderPolicySpec(catalog)]
          /\ UNCHANGED <<phase, queued, used>>
       \/ /\ Mishap("unavailable")
          /\ phase' = "Installing"
          /\ p' = PlatformIdle /\ queued' = TRUE
    /\ UNCHANGED <<grant, catalog, ready, reg, report, row, policy, caches, misreadings,
                   queue, s>>

\* A failed policy is reported as Failed, and retried. (The policy is read from the
\* API server: unstructured objects are not cached.)
ensurePolicy ==
    /\ p.pc = "policy"
    /\ p' = PlatformIdle
    /\ \/ /\ policy' = p.policy
          /\ phase' = "Ready"
          /\ UNCHANGED <<queued, used>>
       \/ /\ Mishap("write")
          /\ phase' = "Failed"
          /\ queued' = TRUE
          /\ UNCHANGED policy
    /\ UNCHANGED <<grant, catalog, ready, reg, report, row, caches, misreadings, queue, s>>

--------------------------------------------------------------------------------
(***************************************************************************)
(* The people who edit grants and the catalog, and what wakes whom.         *)
(***************************************************************************)

\* Whether a catalog edit reaches the grant only through a pass over it.
NeedsReconcileOnCatalogChange(spec, offersCost) ==
    spec.token > 0 \/ spec.cost # Blank \/ offersCost

OffersCost(cat) == cat # NoCatalog /\ cat.defaultCost # Blank

\* Mutated form: only the catalog as it is now decides who is woken.
MapNewCatalog(old, new) ==
    {g \in Grants : NeedsReconcileOnCatalogChange(grant[g], OffersCost(new))}

\* The grants an event of the catalog wakes: an update is mapped with the object
\* before and the object after it.
mapCatalogToSessions(old, new) ==
    {g \in Grants : \E cat \in {old, new} :
                       NeedsReconcileOnCatalogChange(grant[g], OffersCost(cat))}

\* An event of the catalog always wakes the platform.
CatalogEvent(old, new) ==
    /\ queue' = queue \union mapCatalogToSessions(old, new)
    /\ queued' = TRUE

\* The catalog is created, edited or deleted; a new one is not ready.
EditCatalog(cat) ==
    /\ cat # catalog /\ Edit
    /\ catalog' = cat
    /\ ready' = (ready /\ catalog # NoCatalog /\ cat # NoCatalog)
    /\ CatalogEvent(catalog, cat)
    /\ UNCHANGED <<grant, objects, s, p>>

\* The catalog reconciler reports it ready, or waiting for its platform.
CatalogStatus ==
    /\ catalog # NoCatalog
    /\ \/ ~ready /\ UNCHANGED used
       \/ ready /\ Mishap("unready")
    /\ ready' = ~ready
    /\ CatalogEvent(catalog, catalog)
    /\ UNCHANGED <<grant, catalog, objects, s, p>>

EditGrant(g, spec) ==
    /\ spec # grant[g] /\ Edit
    /\ grant' = [grant EXCEPT ![g] = spec]
    /\ queue' = queue \union {g}
    /\ UNCHANGED <<catalog, ready, objects, queued, s, p>>

\* The operator dies; a new one fills its caches and passes over everything.
Restart ==
    /\ Mishap("crash")
    /\ s' = SessionIdle /\ p' = PlatformIdle
    /\ queue' = Grants /\ queued' = TRUE
    /\ regSeen' = reg /\ rowSeen' = row
    /\ UNCHANGED <<grant, catalog, ready, reg, report, row, policy, phase, misreadings>>

\* The caches of the ConfigMaps catch up. Nothing watches these.
DeliverRegistration(n) ==
    /\ regSeen[n] # reg[n]
    /\ regSeen' = [regSeen EXCEPT ![n] = reg[n]]
    /\ UNCHANGED <<grant, catalog, ready, reg, report, row, policy, phase, rowSeen, misreadings,
                   queue, queued, s, p, used>>

DeliverRow ==
    /\ rowSeen # row
    /\ rowSeen' = row
    /\ UNCHANGED <<grant, catalog, ready, reg, report, row, policy, phase, regSeen, misreadings,
                   queue, queued, s, p, used>>

Deliver == (\E n \in Names : DeliverRegistration(n)) \/ DeliverRow

SessionStep ==
    \/ \E g \in Grants : SessionReconcile(g)
    \/ resolveCatalog
    \/ ensureRegistration
    \/ updateSessionStatus

PlatformStep ==
    \/ PlatformReconcile
    \/ ensureRateLimitConfig
    \/ rateLimitAvailable
    \/ ensurePolicy

Environment ==
    \/ \E cat \in CatalogSpecs \union {NoCatalog} : EditCatalog(cat)
    \/ CatalogStatus
    \/ \E g \in Grants, spec \in GrantSpecs : EditGrant(g, spec)
    \/ Restart
    \/ Deliver

Next == SessionStep \/ PlatformStep \/ Environment

Spec == Init /\ [][Next]_vars

\* The workers run, every queued grant gets its turn, caches catch up, and the
\* catalog reconciler reports a catalog ready.
FairSpec ==
    /\ Spec
    /\ WF_vars(resolveCatalog \/ ensureRegistration \/ updateSessionStatus)
    /\ \A g \in Grants : SF_vars(SessionReconcile(g))
    /\ WF_vars(PlatformStep)
    /\ WF_vars(Deliver)
    /\ WF_vars(~ready /\ CatalogStatus)

--------------------------------------------------------------------------------
(***************************************************************************)
(* What the gateway does with a key, and what it should.                    *)
(***************************************************************************)

\* The policy's override: the entry's own budget, or the policy's fallback.
tokenBudgetOverride(entry) == IF entry.token > 0 THEN entry.token ELSE policy.fallback

Entered(g) == reg[ResourceName(g)]

\* Nothing is left to do. A grant that waits for the catalog stays queued.
Settled == queue = {} /\ ~queued /\ s.pc = "idle" /\ p.pc = "idle"

\* Both routes have arrived: once nothing is left to do every key is limited by
\* what its own grant and the catalog, as they are now, come to, in tokens, in
\* dollars and by window (ensureRegistration, tokenBudgetOverride), unless a stale
\* cache made the last pass leave another registration. A platform that stopped on
\* a failed rate-limit write is not expected to have followed.
EnforcedAsDeclared ==
    Settled /\ catalog # NoCatalog => \A g \in Grants \ misread :
        LET e == Entered(g)
            declared == TokenBudget(grant[g], catalog)
        IN  /\ e # NoEntry /\ e.of = g
            /\ e.window = BudgetWindow(grant[g])
            /\ e.cost = CostBudget(grant[g], catalog).value
            /\ (grant[g].token > 0 \/ phase = "Ready") => tokenBudgetOverride(e) = declared.value

\* The two objects the platform renders from two reads of the catalog agree with
\* each other and with the catalog in the end: a key without a budget meets one
\* number (ensureRateLimitConfig, ensurePolicy), unless a stale cache made the last
\* pass leave another row.
SharedCeilingCurrent ==
    Settled /\ phase # "Failed" =>
        /\ row = policy.fallback \/ rowMisread
        /\ policy = renderPolicySpec(catalog)

\* Reference: the number the digits spell, and the whole micro-dollars in an amount.
Number(digits) ==
    LET sum[i \in 0..Len(digits)] == IF i = 0 THEN 0 ELSE 10 * sum[i - 1] + digits[i]
    IN  sum[Len(digits)]

Micros(amount) ==
    (Number(amount.whole \o amount.frac) * MicroDollarsPerDollar) \div Tens[Len(amount.frac)]

Readable(amount) == amount.whole # <<>> /\ Micros(amount) \in 1..MaxInt

\* The dollars in force are the dollars written, to the micro-dollar: whatever
\* truncation, padding and range checks do to the digits, a grant is held to its
\* own budget or else the catalog's default, whichever can be read, and to the
\* maximum if that is lower (ParseDollarsToMicroDollars, ResolveCostBudget).
ExactCeiling ==
    Settled /\ catalog # NoCatalog => \A g \in Grants \ misread :
        LET asked == IF Readable(grant[g].cost) THEN Micros(grant[g].cost)
                     ELSE IF Readable(catalog.defaultCost) THEN Micros(catalog.defaultCost)
                     ELSE 0
            max == catalog.maxCost
        IN  Entered(g).cost =
              IF asked = 0 \/ max = Blank THEN asked
              ELSE IF ~Readable(max) THEN 1
              ELSE IF Micros(max) < asked THEN Micros(max) ELSE asked

\* What a settled grant reports is what its key is limited by: the dollars it shows
\* are the micro-dollars registered, and it says it was clamped exactly if it asked
\* for more than it got (updateSessionStatus, formatMicroDollars). A registration that
\* a pass misread is left out, and so is an inherited token budget: see
\* RegisteredIsReported and ReportedIsEnforced.
ReportHonest ==
    Settled /\ catalog # NoCatalog => \A g \in Grants \ misread :
        LET e == Entered(g)
            r == report[g]
            own == grant[g]
        IN  /\ Micros(r.cost) = e.cost
            /\ e.token > 0 => r.token = e.token
            /\ r.clamped = \/ own.token > tokenBudgetOverride(e) /\ own.token > 0
                           \/ Readable(own.cost) /\ Micros(own.cost) > e.cost
                           \/ e.cost > 0 /\ catalog.maxCost # Blank /\ ~Readable(catalog.maxCost)

\* The number a grant reports is the number enforced on its key, also when it is
\* inherited (EffectiveTokenBudget in the type's documentation).
ReportedIsEnforced ==
    Settled => \A g \in Grants : report[g].token = tokenBudgetOverride(Entered(g))

\* A cost budget that is written is a ceiling, never above what was written (the
\* comment of ParseDollarsToMicroDollars).
NeverAboveAsked ==
    Settled /\ catalog # NoCatalog => \A g \in Grants :
        grant[g].cost # Blank => Entered(g).cost \in 1..Micros(grant[g].cost)

\* An edited default reaches running sessions because "one ConfigMap is rewritten
\* and every inheriting grant follows" (the comment of the platform's catalog watch):
\* the row is what the catalog comes to.
RowFollowsCatalog ==
    Settled /\ phase # "Failed" => row = EffectiveDefaultTokenBudget(catalog)

\* The dollars a grant reports are those registered for its key: EffectiveCostBudget
\* is documented as "the spend ceiling actually enforced".
RegisteredIsReported ==
    Settled /\ catalog # NoCatalog => \A g \in Grants : Micros(report[g].cost) = Entered(g).cost

\* The key of g may spend more than the catalog's maximum.
OverMax(g) ==
    /\ catalog # NoCatalog /\ Entered(g) # NoEntry
    /\ \/ catalog.maxToken > 0 /\ tokenBudgetOverride(Entered(g)) > catalog.maxToken
       \/ Readable(catalog.maxCost) /\ Entered(g).cost > Micros(catalog.maxCost)

\* A maximum is a trust boundary: a key above it does not stay above it, whether
\* its budget is pinned or inherited, and whichever of the two reconcilers has to
\* bring it down (mapCatalogToSessions, mapCatalogToPlatform); unless a stale cache
\* made a pass leave its registration, or the platform stopped on a failed
\* rate-limit write.
LoweredMaximumBinds ==
    \A g \in Grants :
        OverMax(g) ~> (~OverMax(g) \/ g \in misread \/ (phase = "Failed" /\ ~queued))

\* A lowered maximum reaches also the grants created before it, "or a ceiling would
\* bind only the grants created after it was set, which is not a ceiling" (the
\* comment of mapCatalogToSessions).
NoKeyAboveMaximum ==
    Settled /\ phase # "Failed" => \A g \in Grants : ~OverMax(g)
================================================================================
