----------------------------- MODULE BudgetsProofs -----------------------------
(***************************************************************************)
(* Proofs about budgets, for any grants, any catalogs and any sequence of   *)
(* edits and mishaps.                                                       *)
(***************************************************************************)
EXTENDS Budgets, Recursion

--------------------------------------------------------------------------------
(***************************************************************************)
(* The inductive invariant.                                                 *)
(***************************************************************************)

\* Registrations are named after their grants, and no two grants share a name. The
\* code does not see to it: a registration is named after the grant's name alone.
DistinctNames == \A g, h \in Grants : ResourceName(g) = ResourceName(h) => g = h

\* The entry of a grant that budgets nothing of its own and meets no default.
Unlimited(g, spec) == [of |-> g, window |-> BudgetWindow(spec), cost |-> 0, token |-> 0]

\* e is what a pass over g would register. Without a catalog no pass registers
\* anything, and only a grant that no catalog edit would wake rests.
Right(g, spec, e, cat) ==
    IF cat # NoCatalog
    THEN e = buildRegistration(g, spec, cat)
    ELSE ~NeedsReconcileOnCatalogChange(spec, FALSE) /\ e = Unlimited(g, spec)

\* A grant that is not queued is registered as declared, unless the last pass misread
\* its registration, or is being passed over with what was read of it still in force.
Followed(g) ==
    /\ (s.pc = "idle" \/ s.g # g) /\ g \notin misread =>
          Right(g, grant[g], reg[ResourceName(g)], catalog)
    /\ s.pc = "catalog" /\ s.g = g => s.spec = grant[g]
    /\ s.pc \in {"register", "status"} /\ s.g = g => Right(g, grant[g], s.entry, catalog)
    /\ s.pc = "status" /\ s.g = g /\ g \notin misread => reg[ResourceName(g)] = s.entry

SessionsFollow == \A g \in Grants \ queue : Followed(g)

\* A platform that is not queued has rendered both objects from the catalog as it is,
\* or misread the row, or has stopped on a failure, or is about to.
PlatformFollows ==
    ~queued =>
        /\ p.pc = "idle" /\ phase # "Failed" =>
              /\ row = EffectiveDefaultTokenBudget(catalog) \/ rowMisread
              /\ policy = renderPolicySpec(catalog)
        /\ p.pc = "row" => p.row = EffectiveDefaultTokenBudget(catalog)
        /\ p.pc \in {"available", "policy"} =>
              row = EffectiveDefaultTokenBudget(catalog) \/ rowMisread
        /\ p.pc = "policy" => p.policy = renderPolicySpec(catalog)

--------------------------------------------------------------------------------
(***************************************************************************)
(* Reading digits. parseDigits and Number are recursive functions over the  *)
(* digits; what they compute is shown by looking at the first digit at      *)
(* which it would go wrong.                                                 *)
(***************************************************************************)

\* One digit more: what parseDigits makes of the number so far.
ReadDigit(n, d) == IF n = -1 \/ n > (MaxInt - d) \div 10 THEN -1 ELSE n * 10 + d

\* The range check is exact: a digit is refused if and only if the number with it
\* would exceed the largest int64 (parseDigits).
LEMMA RangeCheckExact ==
    ASSUME NEW n \in Nat, NEW d \in 0..9
    PROVE  ReadDigit(n, d) = IF n * 10 + d > MaxInt THEN -1 ELSE n * 10 + d
  <1>1. MaxInt \in Nat
    BY BudgetConstants
  <1> QED
    BY <1>1 DEF ReadDigit

\* addDigit is that, for any integer so far.
LEMMA DigitAdded ==
    \A n \in Int, d \in 0..9 : addDigit[n][d] = ReadDigit(n, d)
  BY DEF addDigit, ReadDigit

\* An error stays an error, and whatever is read is an integer.
LEMMA ReadDigitType ==
    ASSUME NEW n \in Int, NEW d \in 0..9
    PROVE  ReadDigit(n, d) \in Int /\ (n = -1 => ReadDigit(n, d) = -1)
  <1>1. MaxInt \in Nat
    BY BudgetConstants
  <1> QED
    BY <1>1 DEF ReadDigit

\* Both ways of adding a digit are the same.
LEMMA DigitOnLeft ==
    ASSUME NEW n \in Nat, NEW d \in 0..9
    PROVE  10 * n + d \in Nat /\ 10 * n + d = n * 10 + d
  OBVIOUS

\* A digit more does not make a number smaller.
LEMMA DigitGrows ==
    ASSUME NEW n \in Nat, NEW d \in 0..9, n > MaxInt
    PROVE  10 * n + d > MaxInt
  <1>1. MaxInt \in Nat
    BY BudgetConstants
  <1> QED
    BY <1>1

\* parseDigits reads one digit after the other.
LEMMA ParseReads ==
    ASSUME NEW digits \in Seq(0..9)
    PROVE  \E r : /\ parseDigits(digits) = r[Len(digits)]
                  /\ r[0] = 0
                  /\ \A i \in 1..Len(digits) : r[i] = ReadDigit(r[i - 1], digits[i])
  <1> DEFINE N == Len(digits)
             R(f) == f = [i \in 0..N |-> IF i = 0 THEN 0 ELSE addDigit[f[i - 1]][digits[i]]]
             r == CHOOSE f : R(f)
             step == [i \in Nat |-> [x \in Int |->
                        IF i + 1 \in 1..N THEN ReadDigit(x, digits[i + 1]) ELSE 0]]
  <1>1. N \in Nat /\ \A i \in 1..N : digits[i] \in 0..9
    OBVIOUS
  <1>2. step \in [Nat -> [Int -> Int]]
    <2>1. ASSUME NEW i \in Nat, NEW x \in Int
          PROVE  (IF i + 1 \in 1..N THEN ReadDigit(x, digits[i + 1]) ELSE 0) \in Int
      <3>1. CASE i + 1 \in 1..N
        <4>1. ReadDigit(x, digits[i + 1]) \in Int
          BY <1>1, <3>1, ReadDigitType
        <4> QED
          BY <3>1, <4>1
      <3> QED
        BY <3>1
    <2> QED
      BY <2>1
  <1>3. \A i \in 1..N, x \in Int : step[i - 1][x] = ReadDigit(x, digits[i])
    BY <1>1
  <1>4. PICK f \in [0..N -> Int] : StepsUpTo(f, N, 0, step)
    <2>1. N \in Nat /\ 0 \in Nat /\ 0 \in Int
      BY <1>1
    <2> HIDE DEF step, N
    <2> QED
      BY <1>2, <2>1, BoundedRecursion, Zenon
  <1>5. R(f)
    <2> HIDE DEF step
    <2>1. \A i \in 1..N : f[i - 1] \in Int
      BY <1>1
    <2>2. \A i \in 1..N : f[i] = ReadDigit(f[i - 1], digits[i])
      BY <1>3, <1>4, <2>1 DEF StepsUpTo
    <2>3. \A i \in 1..N : f[i] = addDigit[f[i - 1]][digits[i]]
      BY <1>1, <2>1, <2>2, DigitAdded
    <2> QED
      BY <1>1, <1>4, <2>3 DEF StepsUpTo
  <1>6. R(r)
    BY <1>5, Zenon
  <1>7. parseDigits(digits) = r[N]
    BY Zenon DEF parseDigits
  <1> HIDE DEF r
  <1>8. r[0] = 0 /\ \A i \in 1..N : r[i] = addDigit[r[i - 1]][digits[i]]
    BY <1>1, <1>6
  <1>9. f[0] = 0 /\ \A i \in 1..N : f[i - 1] \in Int /\ f[i] = ReadDigit(f[i - 1], digits[i])
    <2> HIDE DEF step
    <2>1. \A i \in 1..N : i - 1 \in 0..N /\ f[i - 1] \in Int
      BY <1>1
    <2> QED
      BY <1>3, <1>4, <2>1 DEF StepsUpTo
  <1>10. \A i \in 0..N : r[i] = f[i]
    <2>1. \A i \in Nat : i < N /\ r[i] = f[i] => r[i + 1] = f[i + 1]
      <3> SUFFICES ASSUME NEW i \in Nat, i < N, r[i] = f[i]
                   PROVE  r[i + 1] = f[i + 1]
        OBVIOUS
      <3>1. i + 1 \in 1..N /\ (i + 1) - 1 = i
        BY <1>1
      <3>2. /\ r[i + 1] = addDigit[r[i]][digits[i + 1]] /\ digits[i + 1] \in 0..9
            /\ f[i] \in Int /\ f[i + 1] = ReadDigit(f[i], digits[i + 1])
        BY <1>1, <1>8, <1>9, <3>1
      <3> QED
        BY <3>2, DigitAdded, Zenon
    <2>2. N \in Nat /\ r[0] = f[0]
      BY <1>1, <1>8, <1>9
    <2> HIDE DEF N
    <2>3. StepAlike(r, f, N)
      BY <2>1, <2>2, Zenon DEF StepAlike
    <2> QED
      BY <2>2, <2>3, SameUpTo, Zenon
  <1>11. \A i \in 1..N : r[i] = ReadDigit(r[i - 1], digits[i])
    <2>1. \A i \in 1..N : i \in 0..N /\ i - 1 \in 0..N
      BY <1>1
    <2>2. \A i \in 1..N : r[i] = f[i] /\ r[i - 1] = f[i - 1]
      BY <1>10, <2>1
    <2> HIDE DEF N
    <2> QED
      BY <1>9, <2>2
  <1> QED
    BY <1>7, <1>8, <1>11

\* A string of digits is one of numbers. (formatMicroDollars leaves the whole dollars
\* as one number, so that the lemmas on Number are about strings of any numbers.)
LEMMA DigitsAreNumbers ==
    /\ 0..9 \subseteq Nat
    /\ \A ds \in Seq(0..9) : ds \in Seq(Nat)
  OBVIOUS

\* Number adds one digit after the other.
LEMMA NumberAdds ==
    ASSUME NEW digits \in Seq(Nat)
    PROVE  \E t : /\ Number(digits) = t[Len(digits)]
                  /\ t[0] = 0
                  /\ \A i \in 1..Len(digits) :
                        t[i] \in Nat /\ t[i - 1] \in Nat /\ t[i] = 10 * t[i - 1] + digits[i]
  <1> DEFINE N == Len(digits)
             R(f) == f = [i \in 0..N |-> IF i = 0 THEN 0 ELSE 10 * f[i - 1] + digits[i]]
             t == CHOOSE f : R(f)
             step == [i \in Nat |-> [x \in Nat |->
                        IF i + 1 \in 1..N THEN 10 * x + digits[i + 1] ELSE 0]]
  <1>1. N \in Nat /\ \A i \in 1..N : digits[i] \in Nat
    OBVIOUS
  <1>2. step \in [Nat -> [Nat -> Nat]]
    BY <1>1
  <1>3. \A i \in 1..N, x \in Nat : step[i - 1][x] = 10 * x + digits[i]
    BY <1>1
  <1>4. PICK f \in [0..N -> Nat] : StepsUpTo(f, N, 0, step)
    <2>1. N \in Nat /\ 0 \in Nat /\ 0 \in Int
      BY <1>1
    <2> HIDE DEF step, N
    <2> QED
      BY <1>2, <2>1, BoundedRecursion, Zenon
  <1>5. R(f)
    <2> HIDE DEF step
    <2>1. \A i \in 1..N : f[i - 1] \in Nat
      BY <1>1
    <2>2. \A i \in 1..N : f[i] = 10 * f[i - 1] + digits[i]
      BY <1>3, <1>4, <2>1 DEF StepsUpTo
    <2> QED
      BY <1>1, <1>4, <2>2 DEF StepsUpTo
  <1>6. R(t)
    BY <1>5, Zenon
  <1>7. Number(digits) = t[N]
    BY Zenon DEF Number
  <1> HIDE DEF t
  <1>8. t[0] = 0 /\ \A i \in 1..N : t[i] = 10 * t[i - 1] + digits[i]
    BY <1>1, <1>6
  <1>9. \A i \in 0..N : t[i] = f[i]
    <2> HIDE DEF step
    <2>1. \A i \in Nat : i < N /\ t[i] = f[i] => t[i + 1] = f[i + 1]
      <3> SUFFICES ASSUME NEW i \in Nat, i < N, t[i] = f[i]
                   PROVE  t[i + 1] = f[i + 1]
        OBVIOUS
      <3>1. i + 1 \in 1..N /\ (i + 1) - 1 = i /\ f[i] \in Nat
        BY <1>1
      <3>2. f[i + 1] = 10 * f[i] + digits[i + 1]
        BY <1>3, <1>4, <3>1 DEF StepsUpTo
      <3> QED
        BY <1>8, <3>1, <3>2
    <2> QED
      <3>1. N \in Nat /\ t[0] = f[0]
        BY <1>1, <1>4, <1>8 DEF StepsUpTo
      <3> HIDE DEF N
      <3>2. StepAlike(t, f, N)
        BY <2>1, <3>1, Zenon DEF StepAlike
      <3> QED
        BY <3>1, <3>2, SameUpTo, Zenon
  <1>10. \A i \in 1..N : t[i] \in Nat /\ t[i - 1] \in Nat
    <2> HIDE DEF step
    <2>1. \A i \in 0..N : t[i] \in Nat
      BY <1>9
    <2> QED
      BY <1>1, <2>1
  <1> QED
    BY <1>7, <1>8, <1>10

\* parseDigits returns the number its digits spell, or the error exactly when that
\* number does not fit an int64; it never wraps around, however long the string.
THEOREM DigitsReadExactly ==
    ASSUME NEW digits \in Seq(0..9)
    PROVE  /\ Number(digits) \in Nat
           /\ parseDigits(digits) = IF Number(digits) > MaxInt THEN -1 ELSE Number(digits)
  <1> DEFINE N == Len(digits)
  <1>1. N \in Nat /\ (\A i \in 1..N : digits[i] \in 0..9) /\ MaxInt \in Nat
    BY BudgetConstants
  <1>2. PICK r : /\ parseDigits(digits) = r[N] /\ r[0] = 0
                 /\ \A i \in 1..N : r[i] = ReadDigit(r[i - 1], digits[i])
    BY ParseReads
  <1>3. PICK t : /\ Number(digits) = t[N] /\ t[0] = 0
                 /\ \A i \in 1..N :
                       t[i] \in Nat /\ t[i - 1] \in Nat /\ t[i] = 10 * t[i - 1] + digits[i]
    BY NumberAdds, DigitsAreNumbers
  <1> DEFINE Good(i) == t[i] \in Nat /\ r[i] = IF t[i] > MaxInt THEN -1 ELSE t[i]
             T == {i \in Nat : i <= N => Good(i)}
  <1>4. 0 \in T
    BY <1>1, <1>2, <1>3
  <1>5. ASSUME NEW k \in Nat, k \in T
        PROVE  k + 1 \in T
    <2> SUFFICES ASSUME k + 1 <= N
                 PROVE  Good(k + 1)
      OBVIOUS
    <2>1. Good(k) /\ k + 1 \in 1..N /\ (k + 1) - 1 = k
      BY <1>1, <1>5
    <2>2. r[k + 1] = ReadDigit(r[k], digits[k + 1]) /\ t[k + 1] = 10 * t[k] + digits[k + 1]
      BY <1>2, <1>3, <2>1
    <2>3. digits[k + 1] \in 0..9 /\ t[k] \in Nat
      BY <1>1, <2>1
    <2>4. CASE t[k] > MaxInt
      <3>1. r[k] = -1 /\ r[k] \in Int
        BY <2>1, <2>4
      <3>2. r[k + 1] = -1
        BY <2>2, <2>3, <3>1, ReadDigitType, Zenon
      <3>3. t[k + 1] > MaxInt /\ t[k + 1] \in Nat
        BY <2>2, <2>3, <2>4, DigitOnLeft, DigitGrows
      <3> QED
        BY <3>2, <3>3
    <2>5. CASE ~(t[k] > MaxInt)
      <3>1. r[k] = t[k]
        BY <2>1, <2>5
      <3>2. r[k + 1] = IF t[k] * 10 + digits[k + 1] > MaxInt THEN -1 ELSE t[k] * 10 + digits[k + 1]
        BY <2>2, <2>3, <3>1, RangeCheckExact
      <3>3. t[k + 1] = t[k] * 10 + digits[k + 1] /\ t[k + 1] \in Nat
        BY <2>2, <2>3, DigitOnLeft, Zenon
      <3> QED
        BY <3>2, <3>3
    <2> QED
      BY <2>4, <2>5
  <1>6. N \in T
    <2> HIDE DEF T
    <2> QED
      BY <1>1, <1>4, <1>5, SetInduction
  <1> QED
    BY <1>1, <1>2, <1>3, <1>6

\* A digit more makes a number ten times as large, and adds the digit.
LEMMA NumberAppend ==
    ASSUME NEW ds \in Seq(Nat), NEW d \in Nat
    PROVE  Number(Append(ds, d)) = 10 * Number(ds) + d
  <1> DEFINE N == Len(ds)
             es == Append(ds, d)
  <1>1. /\ N \in Nat /\ es \in Seq(Nat) /\ Len(es) = N + 1 /\ es[N + 1] = d
        /\ \A i \in 1..N : es[i] = ds[i]
    OBVIOUS
  <1>2. PICK t : /\ Number(ds) = t[N] /\ t[0] = 0
                 /\ \A i \in 1..N :
                       t[i] \in Nat /\ t[i - 1] \in Nat /\ t[i] = 10 * t[i - 1] + ds[i]
    BY NumberAdds
  <1>3. PICK u : /\ Number(es) = u[N + 1] /\ u[0] = 0
                 /\ \A i \in 1..(N + 1) :
                       u[i] \in Nat /\ u[i - 1] \in Nat /\ u[i] = 10 * u[i - 1] + es[i]
    <2>1. PICK u : /\ Number(es) = u[Len(es)] /\ u[0] = 0
                   /\ \A i \in 1..Len(es) :
                         u[i] \in Nat /\ u[i - 1] \in Nat /\ u[i] = 10 * u[i - 1] + es[i]
      BY <1>1, NumberAdds
    <2> HIDE DEF es
    <2> QED
      BY <1>1, <2>1
  <1> HIDE DEF es
  <1>4. \A i \in Nat : i < N /\ t[i] = u[i] => t[i + 1] = u[i + 1]
    <2> SUFFICES ASSUME NEW i \in Nat, i < N, t[i] = u[i]
                 PROVE  t[i + 1] = u[i + 1]
      OBVIOUS
    <2>1. i + 1 \in 1..N /\ i + 1 \in 1..(N + 1) /\ (i + 1) - 1 = i
      BY <1>1
    <2>2. t[i + 1] = 10 * t[i] + ds[i + 1] /\ u[i + 1] = 10 * u[i] + es[i + 1]
      BY <1>2, <1>3, <2>1
    <2> QED
      BY <1>1, <2>1, <2>2
  <1>5. t[N] = u[N]
    <2>1. N \in Nat /\ t[0] = u[0]
      BY <1>1, <1>2, <1>3
    <2> HIDE DEF N
    <2>2. StepAlike(t, u, N)
      BY <1>4, <2>1, Zenon DEF StepAlike
    <2>3. \A i \in 0..N : t[i] = u[i]
      BY <2>1, <2>2, SameUpTo, Zenon
    <2> QED
      BY <2>1, <2>3
  <1>6. N + 1 \in 1..(N + 1) /\ (N + 1) - 1 = N
    BY <1>1
  <1>7. u[N + 1] = 10 * u[N] + es[N + 1]
    BY <1>3, <1>6
  <1> QED
    BY <1>1, <1>2, <1>3, <1>5, <1>7 DEF es

\* No digits spell zero.
LEMMA NumberEmpty == Number(<<>>) = 0
  <1>1. <<>> \in Seq(Nat) /\ Len(<<>>) = 0
    OBVIOUS
  <1> QED
    BY <1>1, NumberAdds

\* Powers of ten are positive, and ten times the one before.
LEMMA TensLaw ==
    /\ Tens \in [Nat -> Nat \ {0}]
    /\ Tens[0] = 1
    /\ \A n \in Nat : Tens[n + 1] = 10 * Tens[n]
  <1> DEFINE R(f) == f = [n \in Nat |-> IF n = 0 THEN 1 ELSE 10 * f[n - 1]]
             step == [n \in Nat |-> [x \in Nat \ {0} |-> 10 * x]]
  <1>1. PICK f \in [Nat -> Nat \ {0}] : Steps(f, 1, step)
    <2>1. step \in [Nat -> [Nat \ {0} -> Nat \ {0}]] /\ 1 \in Nat \ {0}
      OBVIOUS
    <2> HIDE DEF step
    <2> QED
      BY <2>1, RecursiveFunction, Zenon
  <1>2. f[0] = 1 /\ \A n \in Nat : f[n + 1] = 10 * f[n]
    BY <1>1 DEF Steps
  <1>3. R(f)
    <2>1. ASSUME NEW n \in Nat, n # 0
          PROVE  f[n] = 10 * f[n - 1]
      <3>1. n - 1 \in Nat /\ (n - 1) + 1 = n
        BY <2>1
      <3>2. f[(n - 1) + 1] = 10 * f[n - 1]
        BY <1>2, <3>1
      <3> QED
        BY <3>1, <3>2
    <2> QED
      BY <1>2, <2>1
  <1>4. R(Tens)
    <2>1. Tens = CHOOSE g : R(g)
      BY Zenon DEF Tens
    <2> HIDE DEF R
    <2> QED
      BY <1>3, <2>1, Zenon
  <1>5. Tens[0] = 1 /\ \A n \in Nat : Tens[n + 1] = 10 * Tens[n]
    <2>1. Tens[0] = 1
      BY <1>4
    <2>2. ASSUME NEW n \in Nat
          PROVE  Tens[n + 1] = 10 * Tens[n]
      <3>1. n + 1 \in Nat /\ n + 1 # 0 /\ (n + 1) - 1 = n
        OBVIOUS
      <3> QED
        BY <1>4, <3>1
    <2> QED
      BY <2>1, <2>2
  <1> DEFINE T == {n \in Nat : Tens[n] \in Nat \ {0}}
  <1>6. Nat \subseteq T
    <2>1. 0 \in T
      BY <1>5
    <2>2. ASSUME NEW n \in Nat, n \in T
          PROVE  n + 1 \in T
      BY <1>5, <2>2
    <2> HIDE DEF T
    <2> QED
      BY <2>1, <2>2, SetInduction
  <1>7. Tens = [n \in Nat |-> Tens[n]]
    BY <1>4
  <1> QED
    BY <1>5, <1>6, <1>7

\* Powers of ten multiply.
LEMMA TensAdd ==
    ASSUME NEW m \in Nat
    PROVE  \A n \in Nat : Tens[m + n] = Tens[m] * Tens[n]
  <1> DEFINE T == {n \in Nat : Tens[m + n] = Tens[m] * Tens[n]}
  <1>1. 0 \in T
    BY TensLaw
  <1>2. ASSUME NEW n \in Nat, n \in T
        PROVE  n + 1 \in T
    <2>1. Tens[m + (n + 1)] = 10 * Tens[m + n]
      <3>1. m + n \in Nat /\ m + (n + 1) = (m + n) + 1
        OBVIOUS
      <3> QED
        BY <3>1, TensLaw, Zenon
    <2>2. Tens[n + 1] = 10 * Tens[n]
      BY TensLaw
    <2>3. Tens[m] \in Nat /\ Tens[n] \in Nat /\ Tens[m + n] = Tens[m] * Tens[n]
      BY <1>2, TensLaw
    <2>4. 10 * (Tens[m] * Tens[n]) = Tens[m] * (10 * Tens[n])
      BY <2>3
    <2>5. Tens[m + (n + 1)] = Tens[m] * Tens[n + 1]
      BY <2>1, <2>2, <2>3, <2>4
    <2> QED
      BY <2>5
  <1> HIDE DEF T
  <1>3. Nat \subseteq T
    BY <1>1, <1>2, SetInduction
  <1> QED
    BY <1>3 DEF T

\* A quotient is where its multiples of the divisor lie.
LEMMA Quotient ==
    ASSUME NEW n \in Nat, NEW d \in Nat \ {0}, NEW q \in Nat, q * d <= n, n < (q + 1) * d
    PROVE  n \div d = q
  OBVIOUS

--------------------------------------------------------------------------------
(***************************************************************************)
(* What a pass resolves.                                                    *)
(***************************************************************************)

\* The fraction of an amount as it is read: cut off or padded to k digits.
Cut(frac, k) == [i \in 1..k |-> IF i <= Len(frac) THEN frac[i] ELSE 0]

\* A cut fraction is a string of digits, and so is what is put together with it.
LEMMA CutType ==
    ASSUME NEW whole \in Seq(0..9), NEW frac \in Seq(0..9), NEW k \in Nat
    PROVE  /\ Cut(frac, k) \in Seq(0..9) /\ Len(Cut(frac, k)) = k
           /\ whole \o Cut(frac, k) \in Seq(0..9)
  <1>1. \A i \in 1..k : (IF i <= Len(frac) THEN frac[i] ELSE 0) \in 0..9
    OBVIOUS
  <1>2. Cut(frac, k) \in [1..k -> 0..9]
    BY <1>1 DEF Cut
  <1>3. Cut(frac, k) \in Seq(0..9) /\ Len(Cut(frac, k)) = k
    BY <1>2
  <1> QED
    BY <1>3

\* A digit appended to the second of two strings is appended to both together.
LEMMA AppendLast ==
    ASSUME NEW w \in Seq(Nat), NEW f \in Seq(Nat), NEW d \in Nat
    PROVE  w \o Append(f, d) = Append(w \o f, d)
  <1> DEFINE x == w \o Append(f, d)
             y == Append(w \o f, d)
  <1>1. /\ Len(w) \in Nat /\ Len(f) \in Nat
        /\ x \in Seq(Nat) /\ y \in Seq(Nat)
        /\ Len(x) = Len(w) + Len(f) + 1 /\ Len(y) = Len(w) + Len(f) + 1
    OBVIOUS
  <1>2. ASSUME NEW i \in 1..(Len(w) + Len(f) + 1)
        PROVE  x[i] = y[i]
    <2>1. CASE i <= Len(w)
      BY <1>1, <2>1
    <2>2. CASE i > Len(w) /\ i <= Len(w) + Len(f)
      <3>1. i - Len(w) \in 1..Len(f)
        BY <1>1, <2>2
      <3>2. x[i] = Append(f, d)[i - Len(w)] /\ y[i] = (w \o f)[i] /\ (w \o f)[i] = f[i - Len(w)]
        BY <1>1, <2>2, <3>1
      <3> QED
        BY <3>1, <3>2
    <2>3. CASE i = Len(w) + Len(f) + 1
      <3>1. i - Len(w) = Len(f) + 1
        BY <1>1, <2>3
      <3>2. x[i] = Append(f, d)[Len(f) + 1] /\ y[i] = d
        BY <1>1, <2>3, <3>1
      <3> QED
        BY <3>2
    <2> QED
      BY <1>1, <2>1, <2>2, <2>3
  <1> HIDE DEF x, y
  <1>3. x = y
    BY <1>1, <1>2
  <1> QED
    BY <1>3 DEF x, y

\* The number an amount spells with its fraction read to k places.
CutNumber(a, k) == Number(a.whole \o Cut(a.frac, k))

\* One place more: the next digit of the fraction, or a zero once it has ended.
LEMMA CutNext ==
    ASSUME NEW a \in Amount, NEW k \in Nat
    PROVE  /\ CutNumber(a, k) \in Nat
           /\ k + 1 <= Len(a.frac) =>
                 \E d \in 0..9 : CutNumber(a, k + 1) = 10 * CutNumber(a, k) + d
           /\ k >= Len(a.frac) => CutNumber(a, k + 1) = 10 * CutNumber(a, k)
  <1> DEFINE f == Cut(a.frac, k)
             d == IF k + 1 <= Len(a.frac) THEN a.frac[k + 1] ELSE 0
  <1>1. a.whole \in Seq(0..9) /\ a.frac \in Seq(0..9) /\ Len(a.frac) \in Nat
    BY DEF Amount
  <1>2. f \in Seq(0..9) /\ Len(f) = k /\ a.whole \o f \in Seq(0..9)
    BY <1>1, CutType
  <1>3. d \in 0..9
    BY <1>1
  <1>4. Cut(a.frac, k + 1) = Append(f, d)
    <2>1. Cut(a.frac, k + 1) \in Seq(0..9) /\ Len(Cut(a.frac, k + 1)) = k + 1
      <3>1. k + 1 \in Nat
        OBVIOUS
      <3> QED
        BY <1>1, <3>1, CutType, Zenon
    <2>2. \A i \in 1..(k + 1) : Cut(a.frac, k + 1)[i] = IF i <= Len(a.frac) THEN a.frac[i] ELSE 0
      BY DEF Cut
    <2>3. \A i \in 1..k : f[i] = IF i <= Len(a.frac) THEN a.frac[i] ELSE 0
      BY DEF Cut
    <2>4. Append(f, d) \in Seq(0..9) /\ Len(Append(f, d)) = k + 1
      BY <1>2, <1>3
    <2>5. \A i \in 1..(k + 1) : Append(f, d)[i] = IF i <= Len(a.frac) THEN a.frac[i] ELSE 0
      <3> SUFFICES ASSUME NEW i \in 1..(k + 1)
                   PROVE  Append(f, d)[i] = IF i <= Len(a.frac) THEN a.frac[i] ELSE 0
        OBVIOUS
      <3>1. CASE i \in 1..k
        <4>1. Append(f, d)[i] = f[i]
          BY <1>2, <1>3, <3>1
        <4> QED
          BY <2>3, <3>1, <4>1
      <3>2. CASE i = k + 1
        <4> HIDE DEF f
        <4>1. Append(f, d)[k + 1] = d
          BY <1>2, <1>3
        <4> QED
          BY <3>2, <4>1
      <3>3. i \in 1..k \/ i = k + 1
        OBVIOUS
      <3> QED
        BY <3>1, <3>2, <3>3, Zenon
    <2> HIDE DEF f, d
    <2> QED
      BY <2>1, <2>2, <2>4, <2>5
  <1> HIDE DEF f
  <1>5. a.whole \o Append(f, d) = Append(a.whole \o f, d)
    <2> HIDE DEF d
    <2> QED
      BY <1>1, <1>2, <1>3, AppendLast, DigitsAreNumbers
  <1>6. CutNumber(a, k + 1) = 10 * CutNumber(a, k) + d
    <2> HIDE DEF d
    <2> QED
      BY <1>2, <1>3, <1>4, <1>5, NumberAppend, DigitsAreNumbers DEF CutNumber, f
  <1>7. CutNumber(a, k) \in Nat
    BY <1>2, DigitsReadExactly DEF CutNumber, f
  <1>8. k >= Len(a.frac) => d = 0
    BY <1>1
  <1> HIDE DEF d
  <1>9. k >= Len(a.frac) => CutNumber(a, k + 1) = 10 * CutNumber(a, k)
    BY <1>6, <1>7, <1>8
  <1> QED
    BY <1>3, <1>6, <1>7, <1>9

\* With j places more the number is that many powers of ten as large, and what the
\* places add is less than one of the places before; past the end it is nothing.
LEMMA CutScales ==
    ASSUME NEW a \in Amount, NEW k \in Nat
    PROVE  \A j \in Nat :
              /\ CutNumber(a, k) * Tens[j] <= CutNumber(a, k + j)
              /\ CutNumber(a, k + j) < (CutNumber(a, k) + 1) * Tens[j]
              /\ k >= Len(a.frac) => CutNumber(a, k + j) = CutNumber(a, k) * Tens[j]
  <1> DEFINE u(i) == CutNumber(a, i)
             Good(j) == /\ u(k) * Tens[j] <= u(k + j)
                        /\ u(k + j) < (u(k) + 1) * Tens[j]
                        /\ k >= Len(a.frac) => u(k + j) = u(k) * Tens[j]
             T == {j \in Nat : Good(j)}
  <1>1. Len(a.frac) \in Nat
    BY DEF Amount
  <1>2. \A i \in Nat : /\ u(i) \in Nat
                       /\ i >= Len(a.frac) => u(i + 1) = 10 * u(i)
                       /\ \E d \in 0..9 : u(i + 1) = 10 * u(i) + d
    <2> SUFFICES ASSUME NEW i \in Nat
                 PROVE  /\ u(i) \in Nat
                        /\ i >= Len(a.frac) => u(i + 1) = 10 * u(i)
                        /\ \E d \in 0..9 : u(i + 1) = 10 * u(i) + d
      OBVIOUS
    <2>1. u(i) \in Nat /\ (i >= Len(a.frac) => u(i + 1) = 10 * u(i))
      BY CutNext
    <2>2. CASE i + 1 <= Len(a.frac)
      BY <2>1, <2>2, CutNext
    <2>3. CASE i >= Len(a.frac)
      <3>1. 0 \in 0..9 /\ u(i + 1) = 10 * u(i) + 0
        BY <2>1, <2>3
      <3> QED
        BY <2>1, <3>1
    <2> QED
      BY <1>1, <2>2, <2>3
  <1> HIDE DEF u
  <1>3. 0 \in T
    <2>1. Tens[0] = 1 /\ k + 0 = k
      BY TensLaw
    <2>2. u(k) \in Nat /\ u(k + 0) = u(k)
      BY <1>2, <2>1, Zenon
    <2>3. Good(0)
      BY <2>1, <2>2
    <2> QED
      BY <2>3
  <1>4. ASSUME NEW j \in Nat, j \in T
        PROVE  j + 1 \in T
    <2>1. k + j \in Nat /\ k + (j + 1) = (k + j) + 1
      OBVIOUS
    <2>2. PICK d \in 0..9 : u(k + (j + 1)) = 10 * u(k + j) + d
      BY <1>2, <2>1
    <2>3. Tens[j + 1] = 10 * Tens[j] /\ Tens[j] \in Nat
      BY TensLaw
    <2>4. u(k) \in Nat /\ u(k + j) \in Nat
      BY <1>2, <2>1
    <2>5. PICK x \in Nat : x = u(k) * Tens[j]
      BY <2>3, <2>4
    <2>6. u(k) * Tens[j + 1] = 10 * x /\ (u(k) + 1) * Tens[j + 1] = 10 * (x + Tens[j])
      <3>1. \A m, y \in Nat : m * (10 * y) = 10 * (m * y) /\ (m + 1) * (10 * y) = 10 * (m * y + y)
        OBVIOUS
      <3>2. u(k) * (10 * Tens[j]) = 10 * (u(k) * Tens[j])
        BY <2>3, <2>4, <3>1, Zenon
      <3>3. (u(k) + 1) * (10 * Tens[j]) = 10 * (u(k) * Tens[j] + Tens[j])
        BY <2>3, <2>4, <3>1, Zenon
      <3> QED
        BY <2>3, <2>5, <3>2, <3>3, Zenon
    <2>7. (u(k) + 1) * Tens[j] = x + Tens[j]
      BY <2>3, <2>4, <2>5
    <2>8. x <= u(k + j) /\ u(k + j) < x + Tens[j]
      BY <1>4, <2>5, <2>7
    <2>9. 10 * x <= u(k + (j + 1)) /\ u(k + (j + 1)) < 10 * (x + Tens[j])
      BY <2>2, <2>3, <2>4, <2>8
    <2>10. k >= Len(a.frac) => u(k + (j + 1)) = 10 * x
      <3> SUFFICES ASSUME k >= Len(a.frac)
                   PROVE  u(k + (j + 1)) = 10 * x
        OBVIOUS
      <3>1. u(k + j) = x
        BY <1>4, <2>5
      <3>2. k + j >= Len(a.frac)
        BY <1>1
      <3>3. u((k + j) + 1) = 10 * u(k + j)
        BY <1>2, <2>1, <3>2, Zenon
      <3> QED
        BY <2>1, <3>1, <3>3
    <2>11. Good(j + 1)
      BY <2>6, <2>9, <2>10
    <2> QED
      BY <2>11
  <1> HIDE DEF T
  <1>5. Nat \subseteq T
    BY <1>3, <1>4, SetInduction
  <1> QED
    BY <1>5 DEF T, u

\* An amount is read as an int64 that is not negative; the empty string as none.
LEMMA DollarsType ==
    /\ \A a \in Amount : ParseDollarsToMicroDollars(a) \in 0..MaxInt
    /\ ParseDollarsToMicroDollars(Blank) = 0
  <1>1. ASSUME NEW a \in Amount
        PROVE  ParseDollarsToMicroDollars(a) \in 0..MaxInt
    <2> DEFINE digits == a.whole \o Cut(a.frac, costDecimalPlaces)
    <2>1. digits \in Seq(0..9)
      BY CutType, BudgetConstants DEF Amount
    <2> HIDE DEF digits
    <2>2. parseDigits(digits) \in {-1} \union 0..MaxInt
      BY <2>1, DigitsReadExactly, BudgetConstants
    <2>3. ParseDollarsToMicroDollars(a) =
            IF a.whole = <<>> \/ parseDigits(digits) = -1 THEN 0 ELSE parseDigits(digits)
      BY DEF ParseDollarsToMicroDollars, digits, Cut
    <2> QED
      BY <2>2, <2>3, BudgetConstants
  <1>2. ParseDollarsToMicroDollars(Blank) = 0
    BY DEF ParseDollarsToMicroDollars, Blank
  <1> QED
    BY <1>1, <1>2

\* Cutting the fraction off at costDecimalPlaces digits, or padding it to them, and
\* reading all the digits as one number gives the whole micro-dollars in the amount,
\* or nothing exactly if they are none or do not fit an int64.
LEMMA ExactDollars ==
    ASSUME NEW a \in Amount
    PROVE  /\ Micros(a) \in Nat
           /\ ParseDollarsToMicroDollars(a) = IF Readable(a) THEN Micros(a) ELSE 0
  <1> DEFINE P == costDecimalPlaces
             L == Len(a.frac)
             u(k) == CutNumber(a, k)
             n == u(L) * Tens[P]
  <1>1. /\ P \in Nat /\ L \in Nat /\ MaxInt \in Nat \ {0}
        /\ a.whole \in Seq(0..9) /\ a.frac \in Seq(0..9)
    BY BudgetConstants DEF Amount
  <1>2. u(P) \in Nat /\ u(L) \in Nat
    BY <1>1, CutNext
  <1>3. Tens[P] \in Nat \ {0} /\ Tens[L] \in Nat \ {0}
    BY <1>1, TensLaw
  <1>4. Cut(a.frac, L) = a.frac
    <2>1. Cut(a.frac, L) \in Seq(0..9) /\ Len(Cut(a.frac, L)) = L
      BY <1>1, CutType
    <2>2. \A i \in 1..L : Cut(a.frac, L)[i] = a.frac[i]
      BY <1>1 DEF Cut
    <2> QED
      BY <1>1, <2>1, <2>2
  <1>5. Micros(a) = n \div Tens[L]
    BY <1>4, Zenon DEF Micros, CutNumber, MicroDollarsPerDollar
  <1> HIDE DEF P, L, u
  <1>6. u(P) * Tens[L] <= n /\ n < (u(P) + 1) * Tens[L]
    <2>1. CASE L <= P
      <3> DEFINE j == P - L
      <3>1. j \in Nat /\ L + j = P
        BY <1>1, <2>1
      <3>2. u(P) = u(L) * Tens[j] /\ Tens[P] = Tens[L] * Tens[j] /\ Tens[j] \in Nat
        <4> HIDE DEF j
        <4>1. u(L + j) = u(L) * Tens[j]
          <5>1. L >= L
            BY <1>1
          <5> QED
            BY <1>1, <3>1, <5>1, CutScales DEF u, L
        <4> QED
          BY <1>1, <3>1, <4>1, TensAdd, TensLaw, Zenon
      <3> HIDE DEF j
      <3>3. n = u(P) * Tens[L]
        BY <1>2, <1>3, <3>2
      <3> HIDE DEF n
      <3> QED
        BY <1>2, <1>3, <3>3
    <2>2. CASE P <= L
      <3> DEFINE j == L - P
      <3>1. j \in Nat /\ P + j = L
        BY <1>1, <2>2
      <3> HIDE DEF j
      <3>2. Tens[L] = Tens[P] * Tens[j] /\ Tens[j] \in Nat
        BY <1>1, <3>1, TensAdd, TensLaw, Zenon
      <3>3. u(P) * Tens[j] <= u(L) /\ u(L) < (u(P) + 1) * Tens[j]
        BY <1>1, <3>1, CutScales, Zenon DEF u
      <3>4. u(P) * Tens[L] = (u(P) * Tens[j]) * Tens[P]
        BY <1>2, <1>3, <3>2
      <3>5. (u(P) + 1) * Tens[L] = ((u(P) + 1) * Tens[j]) * Tens[P]
        BY <1>2, <1>3, <3>2
      <3>6. \A x, y, z \in Nat : z > 0 => (x <= y => x * z <= y * z) /\ (x < y => x * z < y * z)
        OBVIOUS
      <3>7. u(P) * Tens[j] \in Nat /\ (u(P) + 1) * Tens[j] \in Nat
        BY <1>2, <3>2
      <3> QED
        BY <1>2, <1>3, <3>3, <3>4, <3>5, <3>6, <3>7
    <2> QED
      BY <1>1, <2>1, <2>2
  <1>7. Micros(a) = u(P)
    <2>1. n \in Nat
      BY <1>2, <1>3
    <2> HIDE DEF n
    <2> QED
      BY <1>2, <1>3, <1>5, <1>6, <2>1, Quotient
  <1>8. CASE a.whole = <<>>
    <2>1. ParseDollarsToMicroDollars(a) = 0
      BY <1>8, Zenon DEF ParseDollarsToMicroDollars
    <2> QED
      BY <1>2, <1>7, <1>8, <2>1 DEF Readable
  <1>9. CASE a.whole # <<>>
    <2>1. ParseDollarsToMicroDollars(a) =
            LET m == parseDigits(a.whole \o Cut(a.frac, P)) IN IF m = -1 THEN 0 ELSE m
      BY <1>9, Zenon DEF ParseDollarsToMicroDollars, Cut, P
    <2>2. parseDigits(a.whole \o Cut(a.frac, P)) = IF u(P) > MaxInt THEN -1 ELSE u(P)
      <3>1. a.whole \o Cut(a.frac, P) \in Seq(0..9)
        BY <1>1, CutType
      <3> QED
        BY <3>1, DigitsReadExactly, Zenon DEF u, CutNumber
    <2>3. ParseDollarsToMicroDollars(a) = IF u(P) > MaxInt THEN 0 ELSE u(P)
      BY <1>1, <1>2, <2>1, <2>2
    <2> QED
      BY <1>1, <1>2, <1>7, <1>9, <2>3 DEF Readable
  <1> QED
    BY <1>2, <1>7, <1>8, <1>9

\* A cost ceiling is an int64 that is not negative.
LEMMA CostBudgetType ==
    ASSUME NEW spec \in GrantSpec, NEW cat \in CatalogSpec
    PROVE  CostBudget(spec, cat).value \in 0..MaxInt /\ CostBudget(spec, cat).clamped \in BOOLEAN
  <1>1. /\ ParseDollarsToMicroDollars(spec.cost) \in 0..MaxInt
        /\ ParseDollarsToMicroDollars(cat.defaultCost) \in 0..MaxInt
        /\ ParseDollarsToMicroDollars(cat.maxCost) \in 0..MaxInt
    BY DollarsType DEF GrantSpec, CatalogSpec
  <1>2. 1 \in 0..MaxInt
    BY BudgetConstants
  <1> QED
    BY <1>1, <1>2 DEF CostBudget, ResolveCostBudget

\* A token ceiling is positive, and at most the catalog's maximum if there is one.
LEMMA TokenBudgetType ==
    ASSUME NEW spec \in GrantSpec, NEW cat \in CatalogSpec
    PROVE  /\ TokenBudget(spec, cat).value \in Nat \ {0}
           /\ TokenBudget(spec, cat).clamped \in BOOLEAN
           /\ TokenBudget(spec, cat).inherited = (spec.token = 0)
           /\ EffectiveDefaultTokenBudget(cat) \in Nat \ {0}
           /\ spec.token = 0 /\ cat # NoCatalog =>
                 TokenBudget(spec, cat).value = EffectiveDefaultTokenBudget(cat)
  <1>1. spec.token \in Nat /\ cat.defaultToken \in Nat /\ cat.maxToken \in Nat
    BY DEF GrantSpec, CatalogSpec
  <1>2. DefaultTokenBudget \in Nat \ {0}
    BY BudgetConstants
  <1> QED
    BY <1>1, <1>2 DEF TokenBudget, ResolveTokenBudget, EffectiveDefaultTokenBudget

\* What a pass registers is an entry agentgateway admits.
LEMMA RegistrationType ==
    ASSUME NEW g \in Grants, NEW spec \in GrantSpec, NEW cat \in CatalogSpec
    PROVE  buildRegistration(g, spec, cat) \in Entry
  <1>1. BudgetWindow(spec) \in Windows
    BY DEF BudgetWindow, GrantSpec, Windows
  <1>2. CostBudget(spec, cat).value \in 0..MaxInt
    BY CostBudgetType
  <1>3. (IF TokenBudget(spec, cat).inherited THEN 0 ELSE TokenBudget(spec, cat).value) \in Nat
    BY TokenBudgetType
  <1> QED
    BY <1>1, <1>2, <1>3 DEF buildRegistration, Entry

\* A digit of a number is one.
LEMMA DigitType ==
    ASSUME NEW n \in Nat, NEW i \in 1..costDecimalPlaces
    PROVE  Digit(n, i) \in 0..9
  <1>1. costDecimalPlaces - i \in Nat
    BY BudgetConstants
  <1>2. Tens[costDecimalPlaces - i] \in Nat \ {0}
    BY <1>1, TensLaw
  <1>3. n \div Tens[costDecimalPlaces - i] \in Nat
    BY <1>2
  <1> HIDE DEF Tens
  <1> QED
    BY <1>3 DEF Digit

\* The last place that is not a zero, which is where the zeros are trimmed.
Kept(frac, n) ==
    /\ n \in 0..costDecimalPlaces
    /\ \A i \in (n + 1)..costDecimalPlaces : Digit(frac, i) = 0
    /\ n = 0 \/ Digit(frac, n) # 0

\* formatMicroDollars' trimming stops: a fraction has a last place that is kept.
LEMMA KeptExists ==
    ASSUME NEW frac \in Nat
    PROVE  \E n : Kept(frac, n)
  <1> DEFINE U == {n \in 0..costDecimalPlaces :
                     \A i \in (n + 1)..costDecimalPlaces : Digit(frac, i) = 0}
  <1>1. costDecimalPlaces \in Nat
    BY BudgetConstants
  <1>2. costDecimalPlaces \in U
    BY <1>1
  <1>3. PICK n \in U : \A m \in U : n <= m
    <2>1. U \in SUBSET Nat
      BY <1>1
    <2> HIDE DEF U
    <2> QED
      BY <1>2, <2>1, LeastNumber
  <1>4. n = 0 \/ Digit(frac, n) # 0
    <2> SUFFICES ASSUME n # 0, Digit(frac, n) = 0
                 PROVE  FALSE
      OBVIOUS
    <2>1. n - 1 \in 0..costDecimalPlaces
      BY <1>1
    <2>2. \A i \in ((n - 1) + 1)..costDecimalPlaces : Digit(frac, i) = 0
      <3> TAKE i \in ((n - 1) + 1)..costDecimalPlaces
      <3>1. i = n \/ i \in (n + 1)..costDecimalPlaces
        BY <1>1
      <3> QED
        BY <3>1
    <2>3. n - 1 \in U
      BY <2>1, <2>2
    <2> QED
      BY <1>1, <1>3, <2>3
  <1> QED
    BY <1>4 DEF Kept

\* Dollars are shown as digits.
LEMMA FormatType ==
    ASSUME NEW micros \in Nat
    PROVE  formatMicroDollars(micros) \in [whole : Seq(Nat), frac : Seq(0..9)]
  <1> DEFINE frac == micros % MicroDollarsPerDollar
             kept == CHOOSE n \in 0..costDecimalPlaces :
                        (\A i \in (n + 1)..costDecimalPlaces : Digit(frac, i) = 0)
                        /\ (n = 0 \/ Digit(frac, n) # 0)
             shown == IF kept < 2 THEN 2 ELSE kept
             ds == [i \in 1..shown |-> IF i <= kept THEN Digit(frac, i) ELSE 0]
  <1>1. MicroDollarsPerDollar \in Nat \ {0}
    BY TensLaw, BudgetConstants DEF MicroDollarsPerDollar
  <1>2. frac \in Nat /\ micros \div MicroDollarsPerDollar \in Nat
    BY <1>1
  <1> HIDE DEF frac
  <1>3. kept \in 0..costDecimalPlaces
    BY <1>2, KeptExists, Zenon DEF Kept
  <1> HIDE DEF kept
  <1>4. shown \in Nat /\ costDecimalPlaces \in Nat
    BY <1>3, BudgetConstants
  <1>5. \A i \in 1..shown : (IF i <= kept THEN Digit(frac, i) ELSE 0) \in 0..9
    <2> SUFFICES ASSUME NEW i \in 1..shown, i <= kept
                 PROVE  Digit(frac, i) \in 0..9
      OBVIOUS
    <2>1. i \in 1..costDecimalPlaces
      BY <1>3, <1>4
    <2> QED
      BY <1>2, <2>1, DigitType
  <1> HIDE DEF shown
  <1>6. ds \in Seq(0..9)
    BY <1>4, <1>5
  <1>7. formatMicroDollars(micros) = [whole |-> <<micros \div MicroDollarsPerDollar>>, frac |-> ds]
    BY Zenon DEF formatMicroDollars, ds, shown, kept, frac
  <1>8. <<micros \div MicroDollarsPerDollar>> \in Seq(Nat)
    BY <1>2
  <1> HIDE DEF ds
  <1> QED
    BY <1>6, <1>7, <1>8

\* What a pass reports can be shown.
LEMMA ReportType ==
    ASSUME NEW spec \in GrantSpec, NEW cat \in CatalogSpec
    PROVE  budgetReport(spec, cat) \in Report
  <1>1. TokenBudget(spec, cat).value \in Nat
    BY TokenBudgetType
  <1>2. TokenBudget(spec, cat).clamped \in BOOLEAN /\ CostBudget(spec, cat).clamped \in BOOLEAN
    BY TokenBudgetType, CostBudgetType
  <1> DEFINE c == CostBudget(spec, cat).value
             shown == IF c = 0 THEN Blank ELSE formatMicroDollars(c)
             cl == TokenBudget(spec, cat).clamped \/ CostBudget(spec, cat).clamped
  <1>3. cl \in BOOLEAN
    BY Zenon
  <1>4. shown \in Amount \union [whole : Seq(Nat), frac : Seq(0..9)]
    <2>1. c \in Nat
      BY CostBudgetType
    <2>2. Blank \in Amount
      BY DEF Blank, Amount
    <2> HIDE DEF c
    <2> QED
      BY <2>1, <2>2, FormatType
  <1>5. budgetReport(spec, cat) =
          [token |-> TokenBudget(spec, cat).value, cost |-> shown, clamped |-> cl]
    BY Zenon DEF budgetReport
  <1> HIDE DEF shown, cl
  <1> QED
    BY <1>1, <1>3, <1>4, <1>5 DEF Report

--------------------------------------------------------------------------------
(***************************************************************************)
(* Types.                                                                   *)
(***************************************************************************)

\* Specs are specs the schema admits.
LEMMA SpecTypes ==
    /\ GrantSpecs \subseteq GrantSpec
    /\ CatalogSpecs \subseteq CatalogSpec
    /\ \A cat \in CatalogSpecs : cat # NoCatalog
  BY BudgetConstants

\* The shared objects are well-typed whether or not there is a catalog.
LEMMA SharedType ==
    ASSUME NEW cat \in CatalogSpecs \union {NoCatalog}
    PROVE  EffectiveDefaultTokenBudget(cat) \in Nat /\ renderPolicySpec(cat) \in Policy
  <1>1. EffectiveDefaultTokenBudget(cat) \in Nat
    <2>1. CASE cat = NoCatalog
      BY <2>1, BudgetConstants DEF EffectiveDefaultTokenBudget
    <2>2. CASE cat \in CatalogSpecs
      <3>1. cat \in CatalogSpec /\ cat # NoCatalog
        BY <2>2, SpecTypes
      <3>2. cat.defaultToken \in Nat /\ cat.maxToken \in Nat /\ DefaultTokenBudget \in Nat
        BY <3>1, BudgetConstants DEF CatalogSpec
      <3> QED
        BY <3>1, <3>2 DEF EffectiveDefaultTokenBudget, ResolveTokenBudget
    <2> QED
      BY <2>1, <2>2
  <1>2. FailureMode(cat) \in FailureModes
    <2>1. cat = NoCatalog \/ cat.failureMode \in FailureModes \union {""}
      BY SpecTypes DEF CatalogSpec
    <2> QED
      BY <2>1 DEF FailureMode, FailureModes
  <1> QED
    BY <1>1, <1>2 DEF renderPolicySpec, Policy

\* A count that goes up stays a count.
LEMMA UsedType ==
    ASSUME TypeOK, NEW kind, Mishap(kind) \/ Edit
    PROVE  used' \in [edits : Nat, mishaps : Nat]
  BY DEF TypeOK, Mishap, Edit

\* A pass leaves its registration as it resolved it, or as it is.
Registers ==
    /\ ~registrationConflict(reg[ResourceName(s.g)], regSeen[ResourceName(s.g)], s.entry)
    /\ reg' = [reg EXCEPT ![ResourceName(s.g)] = registered(@, regSeen[ResourceName(s.g)], s.entry)]
    /\ regSeen' = cached("registration", regSeen, reg')
    /\ misread' = IF /\ regSeen[ResourceName(s.g)] # reg[ResourceName(s.g)]
                     /\ reg[ResourceName(s.g)] # s.entry
                  THEN misread \union {s.g} ELSE misread \ {s.g}
    /\ s' = [s EXCEPT !.pc = "status"] /\ UNCHANGED <<report, queue, used>>

\* Or it fails, is refused for what the cache has not seen, and comes back.
Fails ==
    /\ Retry /\ (UNCHANGED used \/ Mishap("write"))
    /\ report' \in {report, [report EXCEPT ![s.g].clamped = s.report.clamped]}
    /\ UNCHANGED <<reg, regSeen, misread>>

\* These are all the ways ensureRegistration ends.
LEMMA RegistrationSteps ==
    ASSUME TypeOK, ensureRegistration
    PROVE  /\ s \in [pc : {"register", "status"}, g : Grants, entry : Entry, report : Report]
           /\ s.pc = "register" /\ ResourceName(s.g) \in Names
           /\ UNCHANGED <<grant, catalog, ready, row, policy, phase, rowSeen, rowMisread,
                          queued, p>>
           /\ Registers \/ Fails
  <1>1. /\ s \in [pc : {"register", "status"}, g : Grants, entry : Entry, report : Report]
        /\ s.pc = "register"
    BY DEF ensureRegistration, TypeOK, SessionIdle
  <1>2. ResourceName(s.g) \in Names
    BY <1>1 DEF Names
  <1>3. Registers \/ Fails
    BY Zenon DEF ensureRegistration, Registers, Fails
  <1> QED
    BY <1>1, <1>2, <1>3 DEF ensureRegistration

\* A registration that was not misread is the one resolved, and no other grant's has
\* changed.
LEMMA RegisteredUnlessMisread ==
    ASSUME TypeOK, ensureRegistration, Registers
    PROVE  /\ reg' \in [Names -> Entry \union {NoEntry}]
           /\ s.g \notin misread' => reg'[ResourceName(s.g)] = s.entry
           /\ \A n \in Names \ {ResourceName(s.g)} : reg'[n] = reg[n]
           /\ misread' \subseteq Grants
           /\ \A g \in Grants \ {s.g} : g \in misread' <=> g \in misread
  <1> DEFINE n == ResourceName(s.g)
  <1>1. /\ s.entry \in Entry /\ s.g \in Grants /\ n \in Names
        /\ reg \in [Names -> Entry \union {NoEntry}] /\ misread \subseteq Grants
    BY RegistrationSteps DEF TypeOK
  <1>2. s.entry # NoEntry
    BY <1>1, NilEntry
  <1> HIDE DEF n
  <1>3. registered(reg[n], regSeen[n], s.entry) \in {reg[n], s.entry}
    BY DEF registered
  <1>4. reg'[n] = registered(reg[n], regSeen[n], s.entry)
    BY <1>1 DEF Registers, n
  <1>5. regSeen[n] = reg[n] \/ reg[n] = s.entry => reg'[n] = s.entry
    BY <1>2, <1>4 DEF registered, entryEquals
  <1>6. s.g \notin misread' => regSeen[n] = reg[n] \/ reg[n] = s.entry
    BY DEF Registers, n
  <1>7. /\ reg' \in [Names -> Entry \union {NoEntry}]
        /\ \A m \in Names \ {n} : reg'[m] = reg[m]
    BY <1>1, <1>3 DEF Registers, n
  <1>8. misread' \subseteq Grants /\ \A g \in Grants \ {s.g} : g \in misread' <=> g \in misread
    BY <1>1 DEF Registers
  <1> QED
    BY <1>5, <1>6, <1>7, <1>8 DEF n

\* The session reconciler's steps keep every variable in its type.
LEMMA SessionKeepsType ==
    ASSUME TypeOK, SessionStep
    PROVE  TypeOK'
  <1> USE DEF TypeOK
  <1>1. ASSUME NEW g \in Grants, SessionReconcile(g)
        PROVE  TypeOK'
    BY <1>1 DEF SessionReconcile, objects, caches, misreadings
  <1>2. CASE resolveCatalog
    <2>1. s \in [pc : {"catalog"}, g : Grants, spec : GrantSpecs]
      BY <1>2 DEF resolveCatalog, SessionIdle
    <2>2. CASE /\ catalog # NoCatalog
               /\ s' = [pc |-> "register", g |-> s.g,
                        entry |-> buildRegistration(s.g, s.spec, catalog),
                        report |-> budgetReport(s.spec, catalog)]
               /\ UNCHANGED queue
      <3>1. catalog \in CatalogSpec /\ s.spec \in GrantSpec /\ s.g \in Grants
        BY <2>1, <2>2, SpecTypes
      <3>2. /\ buildRegistration(s.g, s.spec, catalog) \in Entry
            /\ budgetReport(s.spec, catalog) \in Report
        BY <3>1, RegistrationType, ReportType
      <3>3. s' \in [pc : {"register", "status"}, g : Grants, entry : Entry, report : Report]
        BY <2>2, <3>1, <3>2
      <3> QED
        BY <1>2, <2>2, <3>3 DEF resolveCatalog, objects, caches, misreadings
    <2>3. CASE Retry
      BY <1>2, <2>1, <2>3 DEF resolveCatalog, Retry, objects, caches, misreadings
    <2> QED
      BY <1>2, <2>2, <2>3, Zenon DEF resolveCatalog
  <1>3. CASE ensureRegistration
    <2>1. /\ s \in [pc : {"register", "status"}, g : Grants, entry : Entry, report : Report]
          /\ UNCHANGED <<grant, catalog, ready, row, policy, phase, rowSeen, rowMisread,
                         queued, p>>
          /\ Registers \/ Fails
      BY <1>3, RegistrationSteps
    <2>2. CASE Registers
      <3>1. reg' \in [Names -> Entry \union {NoEntry}] /\ misread' \subseteq Grants
        BY <1>3, <2>2, RegisteredUnlessMisread
      <3>2. regSeen' \in [Names -> Entry \union {NoEntry}]
        BY <2>2, <3>1 DEF Registers, cached
      <3>3. s' \in [pc : {"register", "status"}, g : Grants, entry : Entry, report : Report]
        BY <2>1, <2>2 DEF Registers
      <3>4. UNCHANGED <<report, queue, used>>
        BY <2>2 DEF Registers
      <3> QED
        BY <2>1, <3>1, <3>2, <3>3, <3>4
    <2>3. CASE Fails
      <3>1. s.report.clamped \in BOOLEAN /\ report[s.g] \in Report
        BY <2>1 DEF Report
      <3>2. [report[s.g] EXCEPT !.clamped = s.report.clamped] \in Report
        BY <3>1 DEF Report
      <3>3. report' \in [Grants -> Report]
        BY <2>1, <2>3, <3>2 DEF Fails
      <3>4. queue' \subseteq Grants /\ s' = SessionIdle
        BY <2>1, <2>3 DEF Fails, Retry
      <3>5. used' \in [edits : Nat, mishaps : Nat]
        BY <2>3, UsedType DEF Fails
      <3> QED
        BY <2>1, <2>3, <3>3, <3>4, <3>5 DEF Fails
    <2> QED
      BY <2>1, <2>2, <2>3
  <1>4. CASE updateSessionStatus
    <2>1. s \in [pc : {"register", "status"}, g : Grants, entry : Entry, report : Report]
      BY <1>4 DEF updateSessionStatus, SessionIdle
    <2>2. CASE report' = [report EXCEPT ![s.g] = s.report] /\ s' = SessionIdle
               /\ UNCHANGED <<queue, used>>
      BY <1>4, <2>1, <2>2 DEF updateSessionStatus, caches, misreadings
    <2>3. CASE Mishap("write") /\ Retry /\ UNCHANGED report
      BY <1>4, <2>1, <2>3, UsedType DEF updateSessionStatus, Retry, caches, misreadings
    <2> QED
      BY <1>4, <2>2, <2>3, Zenon DEF updateSessionStatus
  <1> QED
    BY <1>1, <1>2, <1>3, <1>4 DEF SessionStep

\* A pass over the platform writes the row, or leaves it, or stops.
RowWritten ==
    /\ row' = IF rowSeen = 0 /\ row # 0 THEN row ELSE p.row
    /\ rowSeen' = cached("row", rowSeen, row')
    /\ rowMisread' = (rowSeen = 0 /\ row # 0 /\ row # p.row)
    /\ p' = [pc |-> "available"] /\ UNCHANGED <<phase, used>>

RowFailed ==
    /\ UNCHANGED used \/ Mishap("ratelimit")
    /\ phase' = "Failed" /\ p' = PlatformIdle /\ UNCHANGED <<row, rowSeen, rowMisread>>

LEMMA RowSteps == ensureRateLimitConfig => RowWritten \/ RowFailed
  BY Zenon DEF ensureRateLimitConfig, RowWritten, RowFailed

\* So do the platform reconciler's.
LEMMA PlatformKeepsType ==
    ASSUME TypeOK, PlatformStep
    PROVE  TypeOK'
  <1> USE DEF TypeOK
  <1>1. CASE PlatformReconcile
    BY <1>1, SharedType DEF PlatformReconcile, objects, caches, misreadings
  <1>2. CASE ensureRateLimitConfig
    <2>1. p \in [pc : {"row"}, row : Nat]
      BY <1>2 DEF ensureRateLimitConfig, PlatformIdle
    <2>2. UNCHANGED <<grant, catalog, ready, reg, report, policy, regSeen, misread,
                      queue, queued, s>>
      BY <1>2 DEF ensureRateLimitConfig
    <2>3. CASE RowWritten
      <3>1. row' \in Nat /\ rowSeen' \in Nat
        BY <2>1, <2>3 DEF RowWritten, cached
      <3>2. rowMisread' \in BOOLEAN
        BY <2>3, Zenon DEF RowWritten
      <3>3. p' = [pc |-> "available"] /\ UNCHANGED <<phase, used>>
        BY <2>3 DEF RowWritten
      <3> QED
        BY <2>2, <3>1, <3>2, <3>3
    <2>4. CASE RowFailed
      <3>1. used' \in [edits : Nat, mishaps : Nat]
        BY <2>4, UsedType DEF RowFailed
      <3> QED
        BY <2>2, <2>4, <3>1 DEF RowFailed
    <2> QED
      BY <1>2, <2>3, <2>4, RowSteps
  <1>3. CASE rateLimitAvailable
    <2>1. CASE p' = [pc |-> "policy", policy |-> renderPolicySpec(catalog)]
               /\ UNCHANGED <<phase, queued, used>>
      BY <1>3, <2>1, SharedType DEF rateLimitAvailable, caches, misreadings
    <2>2. CASE Mishap("unavailable") /\ phase' = "Installing" /\ p' = PlatformIdle /\ queued' = TRUE
      BY <1>3, <2>2, UsedType DEF rateLimitAvailable, caches, misreadings
    <2> QED
      BY <1>3, <2>1, <2>2, Zenon DEF rateLimitAvailable, caches, misreadings
  <1>4. CASE ensurePolicy
    <2>1. p \in [pc : {"policy"}, policy : Policy]
      BY <1>4 DEF ensurePolicy, PlatformIdle
    <2>2. CASE policy' = p.policy /\ phase' = "Ready" /\ UNCHANGED <<queued, used>>
      BY <1>4, <2>1, <2>2 DEF ensurePolicy, caches, misreadings
    <2>3. CASE Mishap("write") /\ phase' = "Failed" /\ queued' = TRUE /\ UNCHANGED policy
      BY <1>4, <2>3, UsedType DEF ensurePolicy, caches, misreadings
    <2> QED
      BY <1>4, <2>2, <2>3, Zenon DEF ensurePolicy, caches, misreadings
  <1> QED
    BY <1>1, <1>2, <1>3, <1>4 DEF PlatformStep

\* And so do the people who edit grants and the catalog.
LEMMA EnvironmentKeepsType ==
    ASSUME TypeOK, Environment
    PROVE  TypeOK'
  <1> USE DEF TypeOK
  <1>1. ASSUME NEW cat \in CatalogSpecs \union {NoCatalog}, EditCatalog(cat)
        PROVE  TypeOK'
    <2>1. ready' \in BOOLEAN
      BY <1>1, Zenon DEF EditCatalog
    <2>2. queue' \subseteq Grants /\ queued' = TRUE
      BY <1>1 DEF EditCatalog, CatalogEvent, mapCatalogToSessions
    <2> QED
      BY <1>1, <2>1, <2>2, UsedType DEF EditCatalog, objects, caches, misreadings
  <1>2. CASE CatalogStatus
    <2>1. queue' \subseteq Grants /\ queued' = TRUE
      BY <1>2 DEF CatalogStatus, CatalogEvent, mapCatalogToSessions
    <2>2. ready' \in BOOLEAN
      BY <1>2, Zenon DEF CatalogStatus
    <2>3. used' \in [edits : Nat, mishaps : Nat]
      BY <1>2, UsedType DEF CatalogStatus
    <2> QED
      BY <1>2, <2>1, <2>2, <2>3 DEF CatalogStatus, objects, caches, misreadings
  <1>3. ASSUME NEW g \in Grants, NEW spec \in GrantSpecs, EditGrant(g, spec)
        PROVE  TypeOK'
    BY <1>3, UsedType DEF EditGrant, objects, caches, misreadings
  <1>4. CASE Restart
    BY <1>4, UsedType DEF Restart, misreadings
  <1>5. CASE Deliver
    <2>1. regSeen' \in [Names -> Entry \union {NoEntry}] /\ rowSeen' \in Nat
      BY <1>5 DEF Deliver, DeliverRegistration, DeliverRow
    <2> QED
      BY <1>5, <2>1 DEF Deliver, DeliverRegistration, DeliverRow, misreadings
  <1> QED
    BY <1>1, <1>2, <1>3, <1>4, <1>5 DEF Environment

\* Every step keeps every variable in its type.
LEMMA StepKeepsType == TypeOK /\ [Next]_vars => TypeOK'
  <1>1. TypeOK /\ UNCHANGED vars => TypeOK'
    BY DEF TypeOK, vars, objects, caches, misreadings
  <1> QED
    BY <1>1, SessionKeepsType, PlatformKeepsType, EnvironmentKeepsType DEF Next

\* The operator starts over well-typed objects, caches, misreadings.
LEMMA InitialType == Init => TypeOK
  <1>1. NoReport \in Report
    BY DEF NoReport, Report, Blank, Amount
  <1>2. Init => /\ reg \in [Names -> Entry \union {NoEntry}]
                /\ report \in [Grants -> Report]
                /\ policy \in Policy
                /\ used \in [edits : Nat, mishaps : Nat]
                /\ row \in Nat
    BY <1>1 DEF Init, Policy, FailureModes
  <1> QED
    BY <1>2, Zenon DEF Init, TypeOK

\* Every variable keeps to its type: whatever an author writes, what is registered is
\* an int64 that is not negative and what is reported can be read, through every
\* conversion of the digits and every clamp (ParseDollarsToMicroDollars,
\* formatMicroDollars, buildRegistration).
THEOREM BudgetTypes == Spec => []TypeOK
  BY InitialType, StepKeepsType, PTL DEF Spec

--------------------------------------------------------------------------------
(***************************************************************************)
(* The shared ceiling.                                                      *)
(***************************************************************************)

\* Every change of the catalog queues the platform, and only a pass that read the
\* catalog as it is ends with nothing queued (ensureRateLimitConfig, ensurePolicy).
LEMMA StepKeepsPlatform ==
    ASSUME TypeOK, PlatformFollows, [Next]_vars
    PROVE  PlatformFollows'
  <1>0. ASSUME queued' = TRUE
        PROVE  PlatformFollows'
    BY <1>0, Zenon DEF PlatformFollows
  <1>1. CASE UNCHANGED <<catalog, row, rowMisread, policy, phase, queued, p>>
    BY <1>1 DEF PlatformFollows
  <1>2. CASE SessionStep
    BY <1>1, <1>2 DEF SessionStep, SessionReconcile, resolveCatalog, ensureRegistration,
       updateSessionStatus, objects, misreadings
  <1>3. CASE PlatformReconcile
    BY <1>3 DEF PlatformReconcile, PlatformFollows
  <1>4. CASE ensureRateLimitConfig
    <2>1. p.pc = "row" /\ UNCHANGED <<catalog, queued>>
      BY <1>4 DEF ensureRateLimitConfig
    <2>2. CASE RowWritten
      <3>1. row' = p.row \/ rowMisread'
        BY <2>2 DEF RowWritten
      <3> QED
        BY <2>1, <2>2, <3>1 DEF PlatformFollows, RowWritten
    <2>3. CASE RowFailed
      BY <2>1, <2>3 DEF PlatformFollows, PlatformIdle, RowFailed
    <2> QED
      BY <1>4, <2>2, <2>3, RowSteps
  <1>5. CASE rateLimitAvailable
    <2>1. p.pc = "available" /\ UNCHANGED <<catalog, row, rowMisread>>
      BY <1>5 DEF rateLimitAvailable, misreadings
    <2>2. CASE p' = [pc |-> "policy", policy |-> renderPolicySpec(catalog)] /\ UNCHANGED queued
      BY <2>1, <2>2 DEF PlatformFollows
    <2> QED
      BY <1>0, <1>5, <2>2, Zenon DEF rateLimitAvailable
  <1>6. CASE ensurePolicy
    <2>1. p.pc = "policy" /\ p' = PlatformIdle /\ UNCHANGED <<catalog, row, rowMisread>>
      BY <1>6 DEF ensurePolicy, misreadings
    <2>2. CASE policy' = p.policy /\ UNCHANGED queued
      BY <2>1, <2>2 DEF PlatformFollows, PlatformIdle
    <2> QED
      BY <1>0, <1>6, <2>2, Zenon DEF ensurePolicy
  <1>7. CASE (\E cat \in CatalogSpecs \union {NoCatalog} : EditCatalog(cat))
             \/ CatalogStatus \/ Restart
    BY <1>0, <1>7 DEF EditCatalog, CatalogStatus, Restart, CatalogEvent
  <1>8. CASE \E g \in Grants, spec \in GrantSpecs : EditGrant(g, spec)
    BY <1>1, <1>8 DEF EditGrant, objects, misreadings
  <1>9. CASE UNCHANGED vars
    BY <1>1, <1>9 DEF vars, objects, misreadings
  <1>10. CASE Deliver
    BY <1>1, <1>10 DEF Deliver, DeliverRegistration, DeliverRow, misreadings
  <1> QED
    BY <1>2, <1>3, <1>4, <1>5, <1>6, <1>7, <1>8, <1>9, <1>10 DEF Next, PlatformStep, Environment

\* The two objects the platform renders from two reads of the catalog agree with each
\* other and with the catalog once nothing is left to do, whatever was edited between
\* the reads: a key without a budget of its own meets one number
\* (ensureRateLimitConfig, ensurePolicy).
THEOREM SharedCeilingFollows == Spec => []SharedCeilingCurrent
  <1>1. Init => PlatformFollows
    BY DEF Init, PlatformFollows
  <1>2. PlatformFollows => SharedCeilingCurrent
    BY DEF PlatformFollows, SharedCeilingCurrent, Settled, renderPolicySpec
  <1> QED
    BY <1>1, <1>2, InitialType, StepKeepsType, StepKeepsPlatform, PTL DEF Spec

--------------------------------------------------------------------------------
(***************************************************************************)
(* What is enforced.                                                        *)
(***************************************************************************)

\* A grant the catalog does not wake budgets nothing of its own and meets no default,
\* so that its entry does not depend on the catalog (NeedsReconcileOnCatalogChange).
LEMMA UnwokenIsUnlimited ==
    ASSUME NEW g \in Grants, NEW spec \in GrantSpecs, NEW cat \in CatalogSpecs,
           ~NeedsReconcileOnCatalogChange(spec, OffersCost(cat))
    PROVE  buildRegistration(g, spec, cat) = Unlimited(g, spec)
  <1>1. spec \in GrantSpec /\ cat \in CatalogSpec /\ cat # NoCatalog
    BY SpecTypes
  <1>2. spec.token = 0 /\ spec.cost = Blank /\ cat.defaultCost = Blank
    <2>1. ~(spec.token > 0) /\ spec.cost = Blank /\ ~OffersCost(cat)
      BY Zenon DEF NeedsReconcileOnCatalogChange
    <2>2. spec.token \in Nat
      BY <1>1 DEF GrantSpec
    <2> QED
      BY <1>1, <2>1, <2>2 DEF OffersCost
  <1>3. CostBudget(spec, cat).value = 0
    BY <1>2, DollarsType DEF CostBudget, ResolveCostBudget
  <1>4. TokenBudget(spec, cat).inherited
    BY <1>1, <1>2, TokenBudgetType, Zenon
  <1> QED
    BY <1>3, <1>4 DEF buildRegistration, Unlimited

\* An edit of the catalog leaves a grant it does not wake registered as it should be
\* (mapCatalogToSessions): with the catalog before or after it gone, too.
LEMMA UnwokenStaysRight ==
    ASSUME NEW g \in Grants, NEW spec \in GrantSpecs, NEW e,
           NEW old \in CatalogSpecs \union {NoCatalog},
           NEW new \in CatalogSpecs \union {NoCatalog},
           \A cat \in {old, new} : ~NeedsReconcileOnCatalogChange(spec, OffersCost(cat)),
           Right(g, spec, e, old)
    PROVE  Right(g, spec, e, new)
  <1>1. \A cat \in {old, new} : cat # NoCatalog => buildRegistration(g, spec, cat) = Unlimited(g, spec)
    BY UnwokenIsUnlimited
  <1>2. ~NeedsReconcileOnCatalogChange(spec, FALSE)
    <2>1. ~(spec.token > 0 \/ spec.cost # Blank)
      BY Zenon DEF NeedsReconcileOnCatalogChange
    <2> QED
      BY <2>1, Zenon DEF NeedsReconcileOnCatalogChange
  <1> QED
    BY <1>1, <1>2 DEF Right

\* Every change of a grant, and every change of the catalog that matters to it, queues
\* the grant; one that is not queued is registered as declared or about to be.
LEMMA StepKeepsSessions ==
    ASSUME TypeOK, SessionsFollow, DistinctNames, [Next]_vars
    PROVE  SessionsFollow'
  <1> USE DEF SessionsFollow
  <1>1. CASE UNCHANGED <<grant, catalog, reg, misread, s>> /\ queue \subseteq queue'
    BY <1>1 DEF Followed
  <1>2. ASSUME NEW h \in Grants, SessionReconcile(h)
        PROVE  SessionsFollow'
    BY <1>2 DEF SessionReconcile, Followed, objects, misreadings
  <1>3. CASE resolveCatalog
    <2>1. s \in [pc : {"catalog"}, g : Grants, spec : GrantSpecs]
      BY <1>3 DEF resolveCatalog, TypeOK, SessionIdle
    <2>2. UNCHANGED <<grant, catalog, reg, misread>>
      BY <1>3 DEF resolveCatalog, objects, misreadings
    <2>3. CASE Retry
      BY <2>1, <2>2, <2>3 DEF Retry, Followed, SessionIdle
    <2>4. CASE /\ catalog # NoCatalog
               /\ s' = [pc |-> "register", g |-> s.g,
                        entry |-> buildRegistration(s.g, s.spec, catalog),
                        report |-> budgetReport(s.spec, catalog)]
               /\ UNCHANGED queue
      <3>1. s'.pc = "register" /\ s'.g = s.g /\ s'.entry = buildRegistration(s.g, s.spec, catalog)
        BY <2>4
      <3> QED
        BY <2>1, <2>2, <2>4, <3>1 DEF Followed, Right
    <2> QED
      BY <1>3, <2>3, <2>4, Zenon DEF resolveCatalog
  <1>4. CASE ensureRegistration
    <2>1. /\ s \in [pc : {"register", "status"}, g : Grants, entry : Entry, report : Report]
          /\ s.pc = "register" /\ UNCHANGED <<grant, catalog>>
          /\ Registers \/ Fails
      BY <1>4, RegistrationSteps
    <2>2. CASE Fails
      BY <2>1, <2>2 DEF Fails, Retry, Followed, SessionIdle
    <2>3. CASE Registers
      <3>1. s'.pc = "status" /\ s'.g = s.g /\ s'.entry = s.entry /\ UNCHANGED queue
        BY <2>1, <2>3 DEF Registers
      <3>2. s.g \notin misread' => reg'[ResourceName(s.g)] = s.entry
        BY <1>4, <2>3, RegisteredUnlessMisread
      <3>3. \A g \in Grants : g # s.g => /\ reg'[ResourceName(g)] = reg[ResourceName(g)]
                                         /\ g \in misread' <=> g \in misread
        <4> SUFFICES ASSUME NEW g \in Grants, g # s.g
                     PROVE  /\ reg'[ResourceName(g)] = reg[ResourceName(g)]
                            /\ g \in misread' <=> g \in misread
          OBVIOUS
        <4>1. ResourceName(g) \in Names \ {ResourceName(s.g)}
          BY <2>1 DEF DistinctNames, Names
        <4> QED
          BY <1>4, <2>3, <4>1, RegisteredUnlessMisread
      <3> QED
        BY <2>1, <3>1, <3>2, <3>3 DEF Followed
    <2> QED
      BY <2>1, <2>2, <2>3
  <1>5. CASE updateSessionStatus
    <2>1. /\ s \in [pc : {"register", "status"}, g : Grants, entry : Entry, report : Report]
          /\ s.pc = "status" /\ UNCHANGED <<grant, catalog, reg, misread>>
      BY <1>5 DEF updateSessionStatus, TypeOK, SessionIdle, misreadings
    <2>2. s' = SessionIdle /\ (UNCHANGED queue \/ queue' = queue \union {s.g})
      BY <1>5, Zenon DEF updateSessionStatus, Retry
    <2> QED
      BY <2>1, <2>2 DEF Followed, SessionIdle
  <1>6. CASE PlatformStep
    BY <1>1, <1>6 DEF PlatformStep, PlatformReconcile, ensureRateLimitConfig,
       rateLimitAvailable, ensurePolicy, objects, misreadings
  <1>7. ASSUME NEW cat \in CatalogSpecs \union {NoCatalog}, EditCatalog(cat)
        PROVE  SessionsFollow'
    <2>1. /\ catalog' = cat /\ UNCHANGED <<grant, reg, misread, s>>
          /\ queue' = queue \union mapCatalogToSessions(catalog, cat)
          /\ catalog \in CatalogSpecs \union {NoCatalog}
      BY <1>7 DEF EditCatalog, CatalogEvent, objects, misreadings, TypeOK
    <2>2. ASSUME NEW g \in Grants \ queue'
          PROVE  Followed(g)'
      <3>1. \A c \in {catalog, cat} : ~NeedsReconcileOnCatalogChange(grant[g], OffersCost(c))
        BY <2>1 DEF mapCatalogToSessions
      <3>2. grant[g] \in GrantSpecs /\ Followed(g)
        BY <2>1 DEF TypeOK
      <3>3. ASSUME NEW e, Right(g, grant[g], e, catalog)
            PROVE  Right(g, grant[g], e, cat)
        BY <2>1, <3>1, <3>2, <3>3, UnwokenStaysRight
      <3> QED
        BY <2>1, <3>2, <3>3 DEF Followed
    <2> QED
      BY <2>2
  <1>8. CASE CatalogStatus
    BY <1>1, <1>8 DEF CatalogStatus, CatalogEvent, objects, misreadings
  <1>9. ASSUME NEW h \in Grants, NEW spec \in GrantSpecs, EditGrant(h, spec)
        PROVE  SessionsFollow'
    <2>1. /\ grant' = [grant EXCEPT ![h] = spec] /\ queue' = queue \union {h}
          /\ UNCHANGED <<catalog, reg, misread, s>> /\ grant \in [Grants -> GrantSpecs]
      BY <1>9 DEF EditGrant, objects, misreadings, TypeOK
    <2>2. \A g \in Grants \ queue' : grant'[g] = grant[g]
      BY <2>1
    <2> QED
      BY <2>1, <2>2 DEF Followed
  <1>10. CASE Restart
    BY <1>10 DEF Restart
  <1>11. CASE UNCHANGED vars
    BY <1>1, <1>11 DEF vars, objects, misreadings
  <1>12. CASE Deliver
    BY <1>1, <1>12 DEF Deliver, DeliverRegistration, DeliverRow, misreadings
  <1> QED
    BY <1>2, <1>3, <1>4, <1>5, <1>6, <1>7, <1>8, <1>9, <1>10, <1>11, <1>12
       DEF Next, SessionStep, Environment

\* Both reconcilers follow what grants and the catalog say.
BudgetInv == TypeOK /\ PlatformFollows /\ SessionsFollow

\* The invariant of both reconcilers holds in every behaviour (EditCatalog,
\* mapCatalogToSessions, mapCatalogToPlatform and the passes they wake).
LEMMA BudgetInvariant ==
    ASSUME DistinctNames
    PROVE  Spec => []BudgetInv
  <1>1. Init => BudgetInv
    BY InitialType DEF BudgetInv, Init, PlatformFollows, SessionsFollow
  <1>2. BudgetInv /\ [Next]_vars => BudgetInv'
    BY DistinctNames, StepKeepsType, StepKeepsPlatform, StepKeepsSessions DEF BudgetInv
  <1> QED
    BY <1>1, <1>2, PTL DEF Spec

\* A pass misreads only what a lagging cache shows it: without lag the caches are
\* never behind, and no registration and no row is left at something else than the
\* pass resolved (ensureRegistration, ensureRateLimitConfig).
InStep ==
    /\ "registration" \notin Lag => regSeen = reg /\ misread = {}
    /\ "row" \notin Lag => rowSeen = row /\ ~rowMisread

THEOREM MisreadOnlyByLag == Spec => []InStep
  <1>1. Init => InStep
    BY DEF Init, InStep
  <1>2. TypeOK /\ InStep /\ [Next]_vars => InStep'
    <2> SUFFICES ASSUME TypeOK, InStep, [Next]_vars PROVE InStep'
      OBVIOUS
    <2>1. CASE UNCHANGED <<reg, row, caches, misreadings>>
      BY <2>1 DEF InStep, caches, misreadings
    <2>2. CASE ensureRegistration
      <3>1. /\ UNCHANGED <<row, rowSeen, rowMisread>>
            /\ Registers \/ Fails
        BY <2>2, RegistrationSteps
      <3>2. CASE Registers
        BY <3>1, <3>2 DEF InStep, Registers, cached
      <3>3. CASE Fails
        BY <3>1, <3>3 DEF InStep, Fails
      <3> QED
        BY <3>1, <3>2, <3>3
    <2>3. CASE ensureRateLimitConfig
      <3>1. /\ UNCHANGED <<reg, regSeen, misread>>
            /\ RowWritten \/ RowFailed
        BY <2>3, RowSteps DEF ensureRateLimitConfig
      <3>2. CASE RowWritten
        BY <3>1, <3>2 DEF InStep, RowWritten, cached
      <3>3. CASE RowFailed
        BY <3>1, <3>3 DEF InStep, RowFailed
      <3> QED
        BY <3>1, <3>2, <3>3
    <2>4. CASE Restart \/ Deliver
      BY <2>4 DEF InStep, Restart, Deliver, DeliverRegistration, DeliverRow, misreadings, TypeOK
    <2> QED
      BY <2>1, <2>2, <2>3, <2>4 DEF Next, SessionStep, PlatformStep, Environment, vars, objects,
         SessionReconcile, resolveCatalog, updateSessionStatus, PlatformReconcile,
         rateLimitAvailable, ensurePolicy, EditCatalog, CatalogStatus, EditGrant
  <1> QED
    BY <1>1, <1>2, InitialType, StepKeepsType, PTL DEF Spec

\* Where both follow, what is registered and what falls to the policy come to what is
\* declared.
LEMMA FollowedIsEnforced ==
    ASSUME BudgetInv
    PROVE  EnforcedAsDeclared
  <1> USE DEF BudgetInv
  <1> SUFFICES ASSUME Settled, catalog # NoCatalog, NEW g \in Grants \ misread
               PROVE  /\ Entered(g) # NoEntry /\ Entered(g).of = g
                      /\ Entered(g).window = BudgetWindow(grant[g])
                      /\ Entered(g).cost = CostBudget(grant[g], catalog).value
                      /\ (grant[g].token > 0 \/ phase = "Ready") =>
                           tokenBudgetOverride(Entered(g)) = TokenBudget(grant[g], catalog).value
    BY Zenon DEF EnforcedAsDeclared
  <1> DEFINE b == TokenBudget(grant[g], catalog)
  <1>1. grant[g] \in GrantSpec /\ catalog \in CatalogSpec
    BY SpecTypes DEF TypeOK
  <1>2. Entered(g) = buildRegistration(g, grant[g], catalog)
    BY DEF SessionsFollow, Followed, Right, Settled, Entered
  <1>3. /\ Entered(g).of = g /\ Entered(g).window = BudgetWindow(grant[g])
        /\ Entered(g).cost = CostBudget(grant[g], catalog).value
        /\ Entered(g).token = IF b.inherited THEN 0 ELSE b.value
    BY <1>2 DEF buildRegistration
  <1>4. Entered(g) # NoEntry
    BY <1>1, <1>2, RegistrationType, NilEntry
  <1>5. grant[g].token \in Nat /\ b.value \in Nat \ {0}
    BY <1>1, TokenBudgetType DEF GrantSpec
  <1>6. CASE grant[g].token > 0
    <2>1. grant[g].token # 0
      BY <1>5, <1>6
    <2>2. Entered(g).token = b.value
      BY <1>1, <1>3, <2>1, TokenBudgetType, Zenon
    <2> QED
      BY <1>3, <1>4, <1>5, <2>2 DEF tokenBudgetOverride
  <1>7. CASE grant[g].token = 0
    <2>1. b.inherited = TRUE
      BY <1>1, <1>7, TokenBudgetType
    <2>2. Entered(g).token = 0
      BY <1>3, <2>1
    <2>3. b.value = EffectiveDefaultTokenBudget(catalog)
      BY <1>1, <1>7, TokenBudgetType
    <2>4. phase = "Ready" => policy.fallback = EffectiveDefaultTokenBudget(catalog)
      BY DEF PlatformFollows, Settled, renderPolicySpec
    <2> QED
      BY <1>3, <1>4, <1>7, <2>2, <2>3, <2>4 DEF tokenBudgetOverride
  <1> QED
    BY <1>5, <1>6, <1>7

\* Once nothing is left to do every key is limited by what its own grant and the
\* catalog, as they are now, come to, in tokens, in dollars and by window, whichever
\* of the two routes the limit takes and whatever was edited, failed or restarted on
\* the way, if no two grants share a registration (ensureRegistration,
\* mapCatalogToSessions, tokenBudgetOverride).
THEOREM BudgetsEnforced ==
    ASSUME DistinctNames
    PROVE  Spec => []EnforcedAsDeclared
  BY BudgetInvariant, FollowedIsEnforced, DistinctNames, PTL

\* The dollars in force are the dollars written, to the micro-dollar, for any amounts
\* of any number of digits: a grant is held to its own budget or else the catalog's
\* default, whichever can be read, and to the maximum if that is lower
\* (ParseDollarsToMicroDollars, ResolveCostBudget).
THEOREM CeilingExact ==
    ASSUME DistinctNames
    PROVE  Spec => []ExactCeiling
  <1>1. BudgetInv => ExactCeiling
    <2> SUFFICES ASSUME BudgetInv, Settled, catalog # NoCatalog, NEW g \in Grants \ misread
                 PROVE  LET asked == IF Readable(grant[g].cost) THEN Micros(grant[g].cost)
                                     ELSE IF Readable(catalog.defaultCost)
                                          THEN Micros(catalog.defaultCost) ELSE 0
                            max == catalog.maxCost
                        IN  Entered(g).cost =
                              IF asked = 0 \/ max = Blank THEN asked
                              ELSE IF ~Readable(max) THEN 1
                              ELSE IF Micros(max) < asked THEN Micros(max) ELSE asked
      BY DEF ExactCeiling
    <2>1. Entered(g).cost = CostBudget(grant[g], catalog).value
      BY FollowedIsEnforced DEF EnforcedAsDeclared
    <2>2. /\ grant[g].cost \in Amount
          /\ catalog.defaultCost \in Amount /\ catalog.maxCost \in Amount
      <3>1. grant[g] \in GrantSpec /\ catalog \in CatalogSpec
        BY SpecTypes DEF BudgetInv, TypeOK
      <3> QED
        BY <3>1 DEF GrantSpec, CatalogSpec
    <2>3. \A a \in Amount : /\ Micros(a) \in Nat /\ (Readable(a) => Micros(a) # 0)
                           /\ ParseDollarsToMicroDollars(a) = IF Readable(a) THEN Micros(a) ELSE 0
      BY ExactDollars DEF Readable
    <2> QED
      BY <2>1, <2>2, <2>3 DEF CostBudget, ResolveCostBudget
  <1> QED
    BY <1>1, BudgetInvariant, DistinctNames, PTL

--------------------------------------------------------------------------------
(***************************************************************************)
(* What is reported.                                                        *)
(***************************************************************************)

\* The last digit of a number and the number before it.
LEMMA LastDigit ==
    ASSUME NEW n \in Nat, NEW t \in Nat \ {0}
    PROVE  n \div (10 * t) \in Nat /\ n \div t = 10 * (n \div (10 * t)) + ((n \div t) % 10)
  <1> DEFINE x == n \div t
             y == x \div 10
  <1>1. x \in Nat /\ x * t <= n /\ n < (x + 1) * t
    <2>1. \A d \in Nat \ {0} : /\ n \div d \in Nat /\ n = d * (n \div d) + (n % d)
                               /\ n % d \in Nat /\ n % d < d
      OBVIOUS
    <2>2. x \in Nat /\ n = t * x + (n % t) /\ n % t \in Nat /\ n % t < t
      BY <2>1
    <2> DEFINE r == n % t
    <2> HIDE DEF x, r
    <2>3. x * t = t * x /\ (x + 1) * t = t * x + t
      BY <2>2
    <2>4. t * x \in Nat
      BY <2>2
    <2> QED
      BY <2>2, <2>3, <2>4 DEF r
  <1> HIDE DEF x
  <1>2. y \in Nat /\ 10 * y <= x /\ x + 1 <= 10 * (y + 1) /\ x = 10 * y + (x % 10)
    BY <1>1
  <1> HIDE DEF y
  <1>3. \A a, b, c \in Nat : a <= b => a * c <= b * c
    OBVIOUS
  <1>4. (10 * y) * t <= x * t /\ (x + 1) * t <= (10 * (y + 1)) * t
    <2>1. 10 * y \in Nat /\ x + 1 \in Nat /\ 10 * (y + 1) \in Nat /\ t \in Nat
      BY <1>1, <1>2
    <2> QED
      BY <1>1, <1>2, <1>3, <2>1
  <1>5. (10 * y) * t = y * (10 * t) /\ (10 * (y + 1)) * t = (y + 1) * (10 * t)
    BY <1>2
  <1>6. 10 * t \in Nat \ {0}
    OBVIOUS
  <1>7. y * (10 * t) <= n /\ n < (y + 1) * (10 * t)
    <2>1. /\ x * t \in Nat /\ (x + 1) * t \in Nat
          /\ y * (10 * t) \in Nat /\ (y + 1) * (10 * t) \in Nat
      BY <1>1, <1>2, <1>6
    <2> QED
      BY <1>1, <1>4, <1>5, <2>1
  <1>8. n \div (10 * t) = y
    BY <1>2, <1>6, <1>7, Quotient
  <1> QED
    BY <1>2, <1>8 DEF x

\* The fraction f read to k of its places.
Read(f, k) == f \div Tens[costDecimalPlaces - k]

\* One place more, and its digit.
LEMMA ReadNext ==
    ASSUME NEW f \in Nat, NEW k \in 0..costDecimalPlaces
    PROVE  /\ Read(f, k) \in Nat
           /\ k + 1 <= costDecimalPlaces => Read(f, k + 1) = 10 * Read(f, k) + Digit(f, k + 1)
  <1>1. costDecimalPlaces \in Nat /\ costDecimalPlaces - k \in Nat
    BY BudgetConstants
  <1>2. Tens[costDecimalPlaces - k] \in Nat \ {0}
    BY <1>1, TensLaw
  <1>3. Read(f, k) \in Nat
    BY <1>2 DEF Read
  <1>4. ASSUME k + 1 <= costDecimalPlaces
        PROVE  Read(f, k + 1) = 10 * Read(f, k) + Digit(f, k + 1)
    <2> DEFINE m == costDecimalPlaces - (k + 1)
    <2>1. m \in Nat /\ m + 1 = costDecimalPlaces - k
      BY <1>1, <1>4
    <2> HIDE DEF m
    <2>2. Tens[m] \in Nat \ {0} /\ Tens[costDecimalPlaces - k] = 10 * Tens[m]
      BY <2>1, TensLaw
    <2>3. f \div Tens[m] = 10 * (f \div (10 * Tens[m])) + ((f \div Tens[m]) % 10)
      BY <2>2, LastDigit
    <2> QED
      BY <2>2, <2>3 DEF Read, Digit, m
  <1> QED
    BY <1>3, <1>4

\* The digits shown of a fraction: those kept, and zeros after them.
Shown(f, kept, k) == [i \in 1..k |-> IF i <= kept THEN Digit(f, i) ELSE 0]
ShownNumber(q, f, kept, k) == Number(<<q>> \o Shown(f, kept, k))

\* One place more of what is shown.
LEMMA ShownNext ==
    ASSUME NEW q \in Nat, NEW f \in Nat, NEW kept \in 0..costDecimalPlaces, NEW k \in Nat
    PROVE  ShownNumber(q, f, kept, k + 1) =
             10 * ShownNumber(q, f, kept, k) + IF k + 1 <= kept THEN Digit(f, k + 1) ELSE 0
  <1> DEFINE D(i) == IF i <= kept THEN Digit(f, i) ELSE 0
             F(j) == [i \in 1..j |-> D(i)]
  <1>1. \A i \in 1..(k + 1) : D(i) \in Nat
    <2> SUFFICES ASSUME NEW i \in 1..(k + 1), i <= kept
                 PROVE  Digit(f, i) \in Nat
      OBVIOUS
    <2>1. i \in 1..costDecimalPlaces
      BY BudgetConstants
    <2>2. Digit(f, i) \in 0..9
      BY <2>1, DigitType
    <2> QED
      BY <2>2
  <1> HIDE DEF D
  <1>2. F(k) \in Seq(Nat) /\ Len(F(k)) = k /\ F(k + 1) \in Seq(Nat) /\ D(k + 1) \in Nat
    BY <1>1
  <1>3. F(k + 1) = Append(F(k), D(k + 1))
    BY <1>1
  <1>4. /\ \A j \in Nat : Shown(f, kept, j) = F(j)
    BY DEF Shown, D
  <1> HIDE DEF F
  <1>5. <<q>> \in Seq(Nat) /\ <<q>> \o F(k) \in Seq(Nat)
    BY <1>2
  <1>6. Number(<<q>> \o F(k + 1)) = 10 * Number(<<q>> \o F(k)) + D(k + 1)
    <2>1. <<q>> \o F(k + 1) = Append(<<q>> \o F(k), D(k + 1))
      <3>1. \A w, x \in Seq(Nat), d \in Nat : w \o Append(x, d) = Append(w \o x, d)
        BY AppendLast
      <3>2. <<q>> \o Append(F(k), D(k + 1)) = Append(<<q>> \o F(k), D(k + 1))
        BY <1>2, <1>5, <3>1, Zenon
      <3> QED
        BY <1>3, <3>2, Zenon
    <2> QED
      BY <1>2, <1>5, <2>1, NumberAppend, Zenon
  <1> QED
    BY <1>4, <1>6 DEF ShownNumber, D

\* Up to the place that is kept, what is shown is the whole dollars and the fraction.
LEMMA ShownIsRead ==
    ASSUME NEW q \in Nat, NEW f \in Nat, f < MicroDollarsPerDollar,
           NEW kept \in 0..costDecimalPlaces
    PROVE  ShownNumber(q, f, kept, kept) = q * Tens[kept] + Read(f, kept)
  <1> DEFINE u(k) == ShownNumber(q, f, kept, k)
             T == {k \in Nat : k <= kept => u(k) = q * Tens[k] + Read(f, k)}
  <1>1. costDecimalPlaces \in Nat /\ kept \in Nat
    BY BudgetConstants
  <1>2. 0 \in T
    <2>1. u(0) = q
      <3>1. <<q>> \o Shown(f, kept, 0) = Append(<<>>, q)
        BY DEF Shown
      <3>2. <<>> \in Seq(Nat)
        OBVIOUS
      <3>3. Number(Append(<<>>, q)) = 10 * Number(<<>>) + q
        BY <3>2, NumberAppend, Zenon
      <3>4. u(0) = 10 * Number(<<>>) + q
        BY <3>1, <3>3, Zenon DEF ShownNumber
      <3> HIDE DEF u
      <3> QED
        BY <3>4, NumberEmpty
    <2>2. Read(f, 0) = 0
      <3>1. costDecimalPlaces - 0 = costDecimalPlaces /\ Tens[costDecimalPlaces] \in Nat \ {0}
        BY <1>1, TensLaw
      <3> QED
        BY <3>1 DEF Read, MicroDollarsPerDollar
    <2>3. Tens[0] = 1
      BY TensLaw
    <2> HIDE DEF u
    <2> QED
      BY <2>1, <2>2, <2>3
  <1>3. ASSUME NEW k \in Nat, k \in T
        PROVE  k + 1 \in T
    <2> SUFFICES ASSUME k + 1 <= kept
                 PROVE  u(k + 1) = q * Tens[k + 1] + Read(f, k + 1)
      OBVIOUS
    <2>1. u(k) = q * Tens[k] + Read(f, k)
      BY <1>1, <1>3
    <2>2. u(k + 1) = 10 * u(k) + Digit(f, k + 1)
      BY ShownNext
    <2>3. k \in 0..costDecimalPlaces /\ k + 1 <= costDecimalPlaces
      BY <1>1
    <2>4. Read(f, k) \in Nat /\ Read(f, k + 1) = 10 * Read(f, k) + Digit(f, k + 1)
      BY <2>3, ReadNext
    <2>5. Digit(f, k + 1) \in Nat
      <3>1. k + 1 \in 1..costDecimalPlaces
        BY <2>3
      <3>2. Digit(f, k + 1) \in 0..9
        BY <3>1, DigitType
      <3> QED
        BY <3>2
    <2>6. Tens[k] \in Nat /\ Tens[k + 1] = 10 * Tens[k]
      BY TensLaw
    <2> HIDE DEF u
    <2>7. 10 * (q * Tens[k]) = q * Tens[k + 1]
      BY <2>6
    <2>8. q * Tens[k] \in Nat /\ q * Tens[k + 1] \in Nat
      BY <2>6
    <2> QED
      BY <2>1, <2>2, <2>4, <2>5, <2>7, <2>8
  <1>4. kept \in T
    <2> HIDE DEF T
    <2> QED
      BY <1>1, <1>2, <1>3, SetInduction
  <1> QED
    BY <1>1, <1>4

\* A sequence of numbers that grows tenfold from a place to another.
LEMMA Tenfold ==
    ASSUME NEW u, NEW m \in Nat, NEW n \in Nat, u[m] \in Nat,
           \A k \in Nat : m <= k /\ k < m + n => u[k + 1] = 10 * u[k]
    PROVE  u[m + n] = u[m] * Tens[n]
  <1> DEFINE T == {j \in Nat : j <= n => u[m + j] = u[m] * Tens[j]}
  <1>1. 0 \in T
    BY TensLaw
  <1>2. ASSUME NEW j \in Nat, j \in T
        PROVE  j + 1 \in T
    <2> SUFFICES ASSUME j + 1 <= n
                 PROVE  u[m + (j + 1)] = u[m] * Tens[j + 1]
      OBVIOUS
    <2>1. u[m + j] = u[m] * Tens[j]
      BY <1>2
    <2>2. m + j \in Nat /\ m <= m + j /\ m + j < m + n /\ (m + j) + 1 = m + (j + 1)
      OBVIOUS
    <2>3. u[m + (j + 1)] = 10 * u[m + j]
      BY <2>2
    <2>4. Tens[j] \in Nat /\ Tens[j + 1] = 10 * Tens[j]
      BY TensLaw
    <2> QED
      BY <2>1, <2>3, <2>4
  <1>3. n \in T
    <2> HIDE DEF T
    <2> QED
      BY <1>1, <1>2, SetInduction
  <1> QED
    BY <1>3

\* formatMicroDollars shows the amount it was given, and exactly that: the zeros it
\* trims and the places it keeps do not change what is read.
LEMMA FormatExact ==
    ASSUME NEW micros \in Nat
    PROVE  Micros(formatMicroDollars(micros)) = micros
  <1> DEFINE P == costDecimalPlaces
             q == micros \div MicroDollarsPerDollar
             f == micros % MicroDollarsPerDollar
             kept == CHOOSE n \in 0..P :
                        (\A i \in (n + 1)..P : Digit(f, i) = 0) /\ (n = 0 \/ Digit(f, n) # 0)
             n == IF kept < 2 THEN 2 ELSE kept
  <1>1. P \in Nat /\ MicroDollarsPerDollar = Tens[P] /\ MicroDollarsPerDollar \in Nat \ {0}
    BY TensLaw, BudgetConstants DEF MicroDollarsPerDollar
  <1>2. /\ q \in Nat /\ f \in Nat /\ f < MicroDollarsPerDollar
        /\ micros = q * Tens[P] + f
    <2> DEFINE M == MicroDollarsPerDollar
    <2>1. /\ micros \div M \in Nat /\ micros % M \in Nat /\ micros % M < M
          /\ micros = M * (micros \div M) + (micros % M)
      <3>1. \A d \in Nat \ {0} : /\ micros \div d \in Nat /\ micros % d \in Nat
                                 /\ micros % d < d
                                 /\ micros = d * (micros \div d) + (micros % d)
        OBVIOUS
      <3> QED
        BY <1>1, <3>1, Zenon
    <2> HIDE DEF q, f
    <2>2. q \in Nat /\ f \in Nat /\ f < M /\ micros = M * q + f
      BY <2>1, Zenon DEF q, f
    <2>3. M * q = q * M
      BY <1>1, <2>2
    <2> QED
      BY <1>1, <2>2, <2>3
  <1>3. formatMicroDollars(micros) = [whole |-> <<q>>, frac |-> Shown(f, kept, n)]
    BY Zenon DEF formatMicroDollars, Shown
  <1> HIDE DEF q, f
  <1>4. kept \in 0..P /\ \A i \in (kept + 1)..P : Digit(f, i) = 0
    BY <1>2, KeptExists, Zenon DEF Kept
  <1> HIDE DEF kept
  <1>5. n \in Nat /\ kept \in Nat /\ kept <= n /\ kept <= P
    BY <1>1, <1>4
  <1> HIDE DEF n
  <1> DEFINE a == Tens[kept]
             b == Tens[P - kept]
             c == Tens[n - kept]
             u == q * a + Read(f, kept)
  <1>6. /\ P - kept \in Nat /\ kept + (P - kept) = P
        /\ n - kept \in Nat /\ kept + (n - kept) = n
    BY <1>1, <1>5
  <1>7. a \in Nat /\ b \in Nat /\ c \in Nat /\ Tens[n] \in Nat \ {0}
    BY <1>5, <1>6, TensLaw
  <1>8. Tens[P] = a * b /\ Tens[n] = a * c
    <2>1. Tens[kept + (P - kept)] = a * b /\ Tens[kept + (n - kept)] = a * c
      BY <1>5, <1>6, TensAdd
    <2> QED
      BY <1>6, <2>1
  <1>9. ShownNumber(q, f, kept, kept) = u
    BY <1>2, <1>4, ShownIsRead
  <1>10. Read(f, kept) \in Nat /\ u \in Nat
    <2>1. Read(f, kept) \in Nat
      BY <1>2, <1>4, ReadNext
    <2> QED
      BY <1>2, <1>7, <2>1
  <1>11. f = Read(f, kept) * b
    <2> DEFINE v == [k \in 0..P |-> Read(f, k)]
    <2>1. \A k \in Nat : kept <= k /\ k < kept + (P - kept) => v[k + 1] = 10 * v[k]
      <3> SUFFICES ASSUME NEW k \in Nat, kept <= k, k < P
                   PROVE  v[k + 1] = 10 * v[k]
        BY <1>6
      <3>1. k \in 0..P /\ k + 1 \in 0..P /\ k + 1 <= P /\ k + 1 \in (kept + 1)..P
        BY <1>1, <1>5
      <3>2. Read(f, k) \in Nat /\ Read(f, k + 1) = 10 * Read(f, k) + Digit(f, k + 1)
        BY <1>2, <3>1, ReadNext
      <3>3. Digit(f, k + 1) = 0
        BY <1>4, <3>1
      <3> QED
        BY <3>1, <3>2, <3>3
    <2>2. v[kept] = Read(f, kept) /\ v[P] = Read(f, P)
      BY <1>1, <1>5
    <2> HIDE DEF v
    <2>3. v[kept + (P - kept)] = v[kept] * Tens[P - kept]
      BY <1>5, <1>6, <1>10, <2>1, <2>2, Tenfold
    <2>4. Read(f, P) = f
      <3>1. P - P = 0 /\ Tens[0] = 1
        BY <1>1, TensLaw
      <3> QED
        BY <1>2, <3>1 DEF Read
    <2> QED
      BY <1>6, <2>2, <2>3, <2>4
  <1>12. ShownNumber(q, f, kept, n) = u * c
    <2> DEFINE v == [k \in Nat |-> ShownNumber(q, f, kept, k)]
    <2> HIDE DEF u
    <2>1. v[kept] = u /\ v[n] = ShownNumber(q, f, kept, n)
      BY <1>5, <1>9
    <2>2. ASSUME NEW k \in Nat, kept <= k, k < kept + (n - kept), v[k] \in Nat
          PROVE  v[k + 1] = 10 * v[k]
      <3>1. ~(k + 1 <= kept)
        BY <1>5, <2>2
      <3>2. ShownNumber(q, f, kept, k + 1) = 10 * ShownNumber(q, f, kept, k) + 0
        BY <1>2, <1>4, <3>1, ShownNext
      <3> QED
        BY <2>2, <3>2
    <2>3. \A k \in Nat : kept <= k /\ k < kept + (n - kept) => v[k + 1] = 10 * v[k]
      <3> DEFINE S == {j \in Nat : j <= n - kept => v[kept + j] \in Nat}
      <3>1. 0 \in S
        BY <1>5, <1>10, <2>1
      <3>2. ASSUME NEW j \in Nat, j \in S
            PROVE  j + 1 \in S
        <4> SUFFICES ASSUME j + 1 <= n - kept
                     PROVE  v[kept + (j + 1)] \in Nat
          OBVIOUS
        <4>1. kept + j \in Nat /\ kept <= kept + j /\ kept + j < kept + (n - kept)
              /\ (kept + j) + 1 = kept + (j + 1)
          BY <1>5, <1>6
        <4>2. v[kept + j] \in Nat
          BY <1>6, <3>2
        <4>3. v[(kept + j) + 1] = 10 * v[kept + j]
          BY <2>2, <4>1, <4>2
        <4> QED
          BY <4>1, <4>2, <4>3
      <3>3. Nat \subseteq S
        <4> HIDE DEF S
        <4> QED
          BY <3>1, <3>2, SetInduction
      <3> SUFFICES ASSUME NEW k \in Nat, kept <= k, k < kept + (n - kept)
                   PROVE  v[k] \in Nat
        BY <2>2
      <3>4. k - kept \in Nat /\ kept + (k - kept) = k /\ k - kept <= n - kept
        BY <1>5
      <3> QED
        BY <3>3, <3>4
    <2> HIDE DEF v
    <2>4. v[kept + (n - kept)] = v[kept] * Tens[n - kept]
      BY <1>5, <1>6, <1>10, <2>1, <2>3, Tenfold
    <2> QED
      BY <1>6, <2>1, <2>4
  <1>13. (u * c) * Tens[P] = micros * Tens[n]
    <2> DEFINE r == Read(f, kept)
    <2>1. micros = (q * a + r) * b
      <3> HIDE DEF a, b, r
      <3>1. q * (a * b) + r * b = (q * a + r) * b
        BY <1>2, <1>7, <1>10 DEF r
      <3> QED
        BY <1>2, <1>8, <1>11, <3>1 DEF r
    <2> HIDE DEF a, b, c, u
    <2>2. micros = u * b
      BY <2>1 DEF u
    <2>3. (u * c) * (a * b) = (u * b) * (a * c)
      BY <1>7, <1>10
    <2> QED
      BY <1>8, <2>2, <2>3
  <1>14. Micros(formatMicroDollars(micros)) = ((u * c) * Tens[P]) \div Tens[n]
    <2>1. Len(Shown(f, kept, n)) = n
      BY <1>5 DEF Shown
    <2> DEFINE x == formatMicroDollars(micros)
    <2>2. x.whole = <<q>> /\ x.frac = Shown(f, kept, n)
      BY <1>3
    <2> HIDE DEF x, u
    <2>3. Micros(x) = (Number(<<q>> \o Shown(f, kept, n)) * Tens[P]) \div Tens[n]
      BY <1>1, <2>1, <2>2, Zenon DEF Micros
    <2> QED
      BY <1>12, <2>3, Zenon DEF ShownNumber, x
  <1>15. (micros * Tens[n]) \div Tens[n] = micros
    <2> DEFINE t == Tens[n]
    <2> HIDE DEF t
    <2>1. micros * t \in Nat /\ micros * t <= micros * t /\ micros * t < (micros + 1) * t
      BY <1>7 DEF t
    <2>2. t \in Nat \ {0}
      BY <1>7 DEF t
    <2> QED
      BY <2>1, <2>2, Quotient DEF t
  <1> QED
    BY <1>13, <1>14, <1>15

\* A grant is clamped exactly if it asked for more than it got, or met a maximum
\* that cannot be read (ResolveTokenBudget, ResolveCostBudget).
LEMMA ClampedIfLess ==
    ASSUME NEW spec \in GrantSpec, NEW cat \in CatalogSpec
    PROVE  /\ TokenBudget(spec, cat).clamped =
                 (spec.token > 0 /\ spec.token > TokenBudget(spec, cat).value)
           /\ CostBudget(spec, cat).clamped =
                 \/ Readable(spec.cost) /\ Micros(spec.cost) > CostBudget(spec, cat).value
                 \/ /\ CostBudget(spec, cat).value > 0
                    /\ cat.maxCost # Blank /\ ~Readable(cat.maxCost)
  <1>1. /\ spec.token \in Nat /\ cat.defaultToken \in Nat /\ cat.maxToken \in Nat
        /\ spec.cost \in Amount /\ cat.defaultCost \in Amount /\ cat.maxCost \in Amount
    BY DEF GrantSpec, CatalogSpec
  <1>2. \A a \in Amount : /\ Micros(a) \in Nat /\ (Readable(a) => Micros(a) # 0)
                         /\ ParseDollarsToMicroDollars(a) = IF Readable(a) THEN Micros(a) ELSE 0
    BY ExactDollars DEF Readable
  <1>3. TokenBudget(spec, cat).clamped =
           (spec.token > 0 /\ spec.token > TokenBudget(spec, cat).value)
    BY <1>1, BudgetConstants DEF TokenBudget, ResolveTokenBudget
  <1> DEFINE b == CostBudget(spec, cat)
             own == ParseDollarsToMicroDollars(spec.cost)
             wanted == IF own = 0 THEN ParseDollarsToMicroDollars(cat.defaultCost) ELSE own
             max == ParseDollarsToMicroDollars(cat.maxCost)
             Less == \/ Readable(spec.cost) /\ Micros(spec.cost) > b.value
                     \/ b.value > 0 /\ cat.maxCost # Blank /\ ~Readable(cat.maxCost)
  <1>4. b = IF wanted = 0 \/ cat.maxCost = Blank THEN [value |-> wanted, clamped |-> FALSE]
            ELSE IF max = 0 THEN [value |-> 1, clamped |-> TRUE]
            ELSE IF wanted > max THEN [value |-> max, clamped |-> own # 0]
            ELSE [value |-> wanted, clamped |-> FALSE]
    BY DEF CostBudget, ResolveCostBudget
  <1>5. /\ own \in Nat /\ wanted \in Nat /\ max \in Nat
        /\ Micros(spec.cost) \in Nat
        /\ Readable(spec.cost) <=> own # 0
        /\ Readable(spec.cost) => Micros(spec.cost) = own /\ wanted = own
        /\ Readable(cat.maxCost) <=> max # 0
    BY <1>1, <1>2
  <1> HIDE DEF own, wanted, max, b
  <1> DEFINE blank == cat.maxCost = Blank
  <1>6. Less <=> \/ own # 0 /\ own > b.value
                 \/ b.value > 0 /\ ~blank /\ max = 0
    BY <1>5
  <1>7. own # 0 => wanted = own
    BY <1>5
  <1> HIDE DEF Less, blank
  <1>8. /\ wanted = 0 \/ blank => b = [value |-> wanted, clamped |-> FALSE]
        /\ ~(wanted = 0 \/ blank) /\ max = 0 => b = [value |-> 1, clamped |-> TRUE]
        /\ ~(wanted = 0 \/ blank) /\ max # 0 /\ wanted > max /\ own # 0
              => b = [value |-> max, clamped |-> TRUE]
        /\ ~(wanted = 0 \/ blank) /\ max # 0 /\ wanted > max /\ own = 0
              => b = [value |-> max, clamped |-> FALSE]
        /\ ~(wanted = 0 \/ blank) /\ max # 0 /\ ~(wanted > max)
              => b = [value |-> wanted, clamped |-> FALSE]
    BY <1>4 DEF blank
  <1>9. own \in Nat /\ wanted \in Nat /\ max \in Nat
    BY <1>5
  <1>10. \/ b.clamped = TRUE /\ Less
         \/ b.clamped = FALSE /\ ~Less
    <2>1. CASE wanted = 0 \/ blank
      BY <1>6, <1>7, <1>8, <1>9, <2>1
    <2>2. CASE ~(wanted = 0 \/ blank) /\ max = 0
      BY <1>6, <1>7, <1>8, <1>9, <2>2
    <2>3. CASE ~(wanted = 0 \/ blank) /\ max # 0 /\ wanted > max /\ own # 0
      BY <1>6, <1>7, <1>8, <1>9, <2>3
    <2>4. CASE ~(wanted = 0 \/ blank) /\ max # 0 /\ wanted > max /\ own = 0
      BY <1>6, <1>7, <1>8, <1>9, <2>4
    <2>5. CASE ~(wanted = 0 \/ blank) /\ max # 0 /\ ~(wanted > max)
      BY <1>6, <1>7, <1>8, <1>9, <2>5
    <2> QED
      BY <2>1, <2>2, <2>3, <2>4, <2>5
  <1>11. b.clamped = Less
    <2>1. Less \in BOOLEAN /\ b.clamped \in BOOLEAN
      <3>1. b.clamped \in BOOLEAN
        BY <1>10
      <3> QED
        BY <3>1, Zenon DEF Less
    <2>2. b.clamped <=> Less
      BY <1>10, Zenon
    <2> QED
      BY <2>1, <2>2, Zenon
  <1> QED
    BY <1>3, <1>11, Zenon DEF b, Less

\* r is what a pass over a grant would report; of a token budget only if the grant
\* sets it. Without a catalog only a grant that no catalog edit would wake rests.
Told(spec, r, cat) ==
    IF cat # NoCatalog
    THEN LET full == budgetReport(spec, cat)
         IN  /\ r.cost = full.cost /\ r.clamped = full.clamped
             /\ spec.token > 0 => r.token = full.token
    ELSE ~NeedsReconcileOnCatalogChange(spec, FALSE) /\ r.cost = Blank /\ r.clamped = FALSE

\* A grant that is not queued says what it should, or is being passed over with what
\* was read of it still in force.
Reported(g) ==
    /\ s.pc = "idle" \/ s.g # g => Told(grant[g], report[g], catalog)
    /\ s.pc = "catalog" /\ s.g = g => s.spec = grant[g]
    /\ s.pc \in {"register", "status"} /\ s.g = g => Told(grant[g], s.report, catalog)

ReportsFollow == \A g \in Grants \ queue : Reported(g)

\* A grant the catalog does not wake reports no cost ceiling and no clamping.
LEMMA UnwokenSaysNothing ==
    ASSUME NEW spec \in GrantSpecs, NEW cat \in CatalogSpecs,
           ~NeedsReconcileOnCatalogChange(spec, OffersCost(cat))
    PROVE  /\ spec.token = 0
           /\ budgetReport(spec, cat).cost = Blank /\ budgetReport(spec, cat).clamped = FALSE
  <1>1. spec \in GrantSpec /\ cat \in CatalogSpec /\ cat # NoCatalog
    BY SpecTypes
  <1>2. spec.token = 0 /\ spec.cost = Blank /\ cat.defaultCost = Blank
    <2>1. ~(spec.token > 0) /\ spec.cost = Blank /\ ~OffersCost(cat)
      BY Zenon DEF NeedsReconcileOnCatalogChange
    <2>2. spec.token \in Nat
      BY <1>1 DEF GrantSpec
    <2> QED
      BY <1>1, <2>1, <2>2 DEF OffersCost
  <1>3. CostBudget(spec, cat).value = 0 /\ CostBudget(spec, cat).clamped = FALSE
    BY <1>2, DollarsType DEF CostBudget, ResolveCostBudget
  <1>4. TokenBudget(spec, cat).clamped = FALSE
    BY <1>2 DEF TokenBudget, ResolveTokenBudget
  <1> QED
    BY <1>2, <1>3, <1>4 DEF budgetReport

\* An edit of the catalog leaves what an unwoken grant reports as it should be.
LEMMA UnwokenStaysTold ==
    ASSUME NEW spec \in GrantSpecs, NEW r,
           NEW old \in CatalogSpecs \union {NoCatalog},
           NEW new \in CatalogSpecs \union {NoCatalog},
           \A cat \in {old, new} : ~NeedsReconcileOnCatalogChange(spec, OffersCost(cat)),
           Told(spec, r, old)
    PROVE  Told(spec, r, new)
  <1>1. \A cat \in {old, new} : cat # NoCatalog =>
           /\ budgetReport(spec, cat).cost = Blank /\ budgetReport(spec, cat).clamped = FALSE
    <2> SUFFICES ASSUME NEW cat \in {old, new}, cat # NoCatalog
                 PROVE  /\ budgetReport(spec, cat).cost = Blank
                        /\ budgetReport(spec, cat).clamped = FALSE
      BY Zenon
    <2>1. cat \in CatalogSpecs /\ ~NeedsReconcileOnCatalogChange(spec, OffersCost(cat))
      BY Zenon
    <2> QED
      BY <2>1, UnwokenSaysNothing, Zenon
  <1>2. ~NeedsReconcileOnCatalogChange(spec, FALSE) /\ ~(spec.token > 0)
    <2>1. ~(spec.token > 0 \/ spec.cost # Blank)
      BY Zenon DEF NeedsReconcileOnCatalogChange
    <2> QED
      BY <2>1, Zenon DEF NeedsReconcileOnCatalogChange
  <1>3. r.cost = Blank /\ r.clamped = FALSE
    BY <1>1 DEF Told
  <1> QED
    BY <1>1, <1>2, <1>3 DEF Told

\* Every change of a grant, and every change of the catalog that its report should
\* show, queues the grant; a failed write does, too (updateSessionStatus).
LEMMA StepKeepsReports ==
    ASSUME TypeOK, ReportsFollow, [Next]_vars
    PROVE  ReportsFollow'
  <1> USE DEF ReportsFollow
  <1>1. CASE UNCHANGED <<grant, catalog, report, s>> /\ queue \subseteq queue'
    BY <1>1 DEF Reported
  <1>2. ASSUME NEW h \in Grants, SessionReconcile(h)
        PROVE  ReportsFollow'
    BY <1>2 DEF SessionReconcile, Reported, objects
  <1>3. CASE resolveCatalog
    <2>1. s \in [pc : {"catalog"}, g : Grants, spec : GrantSpecs]
      BY <1>3 DEF resolveCatalog, TypeOK, SessionIdle
    <2>2. UNCHANGED <<grant, catalog, report>>
      BY <1>3 DEF resolveCatalog, objects
    <2>3. CASE Retry
      BY <2>1, <2>2, <2>3 DEF Retry, Reported, SessionIdle
    <2>4. CASE /\ catalog # NoCatalog
               /\ s' = [pc |-> "register", g |-> s.g,
                        entry |-> buildRegistration(s.g, s.spec, catalog),
                        report |-> budgetReport(s.spec, catalog)]
               /\ UNCHANGED queue
      <3>1. s'.pc = "register" /\ s'.g = s.g /\ s'.report = budgetReport(s.spec, catalog)
        BY <2>4
      <3> QED
        BY <2>1, <2>2, <2>4, <3>1 DEF Reported, Told
    <2> QED
      BY <1>3, <2>3, <2>4, Zenon DEF resolveCatalog
  <1>4. CASE ensureRegistration
    <2>1. /\ s \in [pc : {"register", "status"}, g : Grants, entry : Entry, report : Report]
          /\ s.pc = "register" /\ UNCHANGED <<grant, catalog>>
          /\ Registers \/ Fails
      BY <1>4, RegistrationSteps
    <2>2. CASE Fails
      <3>1. s' = SessionIdle /\ queue' = queue \union {s.g}
        BY <2>2 DEF Fails, Retry
      <3>2. \A g \in Grants : g # s.g => report'[g] = report[g]
        BY <2>1, <2>2 DEF Fails, TypeOK
      <3> QED
        BY <2>1, <3>1, <3>2 DEF Reported, SessionIdle
    <2>3. CASE Registers
      <3>1. s'.pc = "status" /\ s'.g = s.g /\ s'.report = s.report /\ UNCHANGED <<report, queue>>
        BY <2>1, <2>3 DEF Registers
      <3> QED
        BY <2>1, <3>1 DEF Reported
    <2> QED
      BY <2>1, <2>2, <2>3
  <1>5. CASE updateSessionStatus
    <2>1. /\ s \in [pc : {"register", "status"}, g : Grants, entry : Entry, report : Report]
          /\ s.pc = "status" /\ UNCHANGED <<grant, catalog>>
      BY <1>5 DEF updateSessionStatus, TypeOK, SessionIdle
    <2>2. CASE report' = [report EXCEPT ![s.g] = s.report] /\ s' = SessionIdle /\ UNCHANGED queue
      <3>1. \A g \in Grants : report'[g] = IF g = s.g THEN s.report ELSE report[g]
        BY <2>1, <2>2 DEF TypeOK
      <3> QED
        BY <2>1, <2>2, <3>1 DEF Reported, SessionIdle
    <2>3. CASE Retry /\ UNCHANGED report
      BY <2>1, <2>3 DEF Retry, Reported, SessionIdle
    <2> QED
      BY <1>5, <2>2, <2>3, Zenon DEF updateSessionStatus
  <1>6. CASE PlatformStep
    BY <1>1, <1>6 DEF PlatformStep, PlatformReconcile, ensureRateLimitConfig,
       rateLimitAvailable, ensurePolicy, objects, misreadings
  <1>7. ASSUME NEW cat \in CatalogSpecs \union {NoCatalog}, EditCatalog(cat)
        PROVE  ReportsFollow'
    <2>1. /\ catalog' = cat /\ UNCHANGED <<grant, report, s>>
          /\ queue' = queue \union mapCatalogToSessions(catalog, cat)
          /\ catalog \in CatalogSpecs \union {NoCatalog}
      BY <1>7 DEF EditCatalog, CatalogEvent, objects, TypeOK
    <2>2. ASSUME NEW g \in Grants \ queue'
          PROVE  Reported(g)'
      <3>1. \A c \in {catalog, cat} : ~NeedsReconcileOnCatalogChange(grant[g], OffersCost(c))
        BY <2>1 DEF mapCatalogToSessions
      <3>2. grant[g] \in GrantSpecs /\ Reported(g)
        BY <2>1 DEF TypeOK
      <3>3. ASSUME NEW r, Told(grant[g], r, catalog)
            PROVE  Told(grant[g], r, cat)
        BY <2>1, <3>1, <3>2, <3>3, UnwokenStaysTold
      <3> QED
        BY <2>1, <3>2, <3>3 DEF Reported
    <2> QED
      BY <2>2
  <1>8. CASE CatalogStatus
    BY <1>1, <1>8 DEF CatalogStatus, CatalogEvent, objects
  <1>9. ASSUME NEW h \in Grants, NEW spec \in GrantSpecs, EditGrant(h, spec)
        PROVE  ReportsFollow'
    <2>1. /\ grant' = [grant EXCEPT ![h] = spec] /\ queue' = queue \union {h}
          /\ UNCHANGED <<catalog, report, s>> /\ grant \in [Grants -> GrantSpecs]
      BY <1>9 DEF EditGrant, objects, TypeOK
    <2>2. \A g \in Grants \ queue' : grant'[g] = grant[g]
      BY <2>1
    <2> QED
      BY <2>1, <2>2 DEF Reported
  <1>10. CASE Restart
    BY <1>10 DEF Restart
  <1>11. CASE UNCHANGED vars
    BY <1>1, <1>11 DEF vars, objects
  <1>12. CASE Deliver
    BY <1>1, <1>12 DEF Deliver, DeliverRegistration, DeliverRow
  <1> QED
    BY <1>2, <1>3, <1>4, <1>5, <1>6, <1>7, <1>8, <1>9, <1>10, <1>11, <1>12
       DEF Next, SessionStep, Environment

\* What a settled grant reports is what its key is limited by: the dollars shown are
\* the micro-dollars registered, for every amount, and it says it was clamped exactly
\* if it asked for more than it got or met a maximum nobody can read
\* (updateSessionStatus, formatMicroDollars), whatever was edited, failed or
\* restarted on the way.
THEOREM ReportIsHonest ==
    ASSUME DistinctNames
    PROVE  Spec => []ReportHonest
  <1>1. Init => ReportsFollow
    BY DEF Init, ReportsFollow
  <1>2. BudgetInv /\ ReportsFollow => ReportHonest
    <2> SUFFICES ASSUME BudgetInv, ReportsFollow, Settled, catalog # NoCatalog,
                        NEW g \in Grants \ misread
                 PROVE  LET e == Entered(g)
                            r == report[g]
                            own == grant[g]
                        IN  /\ Micros(r.cost) = e.cost
                            /\ e.token > 0 => r.token = e.token
                            /\ r.clamped =
                                 \/ own.token > tokenBudgetOverride(e) /\ own.token > 0
                                 \/ Readable(own.cost) /\ Micros(own.cost) > e.cost
                                 \/ /\ e.cost > 0 /\ catalog.maxCost # Blank
                                    /\ ~Readable(catalog.maxCost)
      BY Zenon DEF ReportHonest
    <2> DEFINE e == Entered(g)
               tb == TokenBudget(grant[g], catalog)
               cb == CostBudget(grant[g], catalog)
    <2>1. grant[g] \in GrantSpec /\ catalog \in CatalogSpec
      BY SpecTypes DEF BudgetInv, TypeOK
    <2>2. e = buildRegistration(g, grant[g], catalog) /\ Told(grant[g], report[g], catalog)
      BY DEF BudgetInv, SessionsFollow, Followed, Right, Settled, Entered, ReportsFollow, Reported
    <2>3. e.cost = cb.value /\ e.token = IF tb.inherited THEN 0 ELSE tb.value
      BY <2>2 DEF buildRegistration
    <2>4. /\ report[g].cost = IF cb.value = 0 THEN Blank ELSE formatMicroDollars(cb.value)
          /\ report[g].clamped = (tb.clamped \/ cb.clamped)
          /\ grant[g].token > 0 => report[g].token = tb.value
      BY <2>2 DEF Told, budgetReport
    <2>5. /\ grant[g].token \in Nat /\ tb.value \in Nat \ {0} /\ cb.value \in Nat
          /\ tb.inherited <=> grant[g].token = 0
      <3>1. tb.inherited = (grant[g].token = 0) /\ tb.value \in Nat \ {0}
        BY <2>1, TokenBudgetType, Zenon
      <3>2. grant[g].token \in Nat
        BY <2>1 DEF GrantSpec
      <3>3. cb.value \in 0..MaxInt
        BY <2>1, CostBudgetType, Zenon
      <3> HIDE DEF tb, cb
      <3>4. cb.value \in Nat
        BY <3>3
      <3> QED
        BY <3>1, <3>2, <3>4, Zenon
    <2>6. /\ tb.clamped = (grant[g].token > 0 /\ grant[g].token > tb.value)
          /\ cb.clamped = \/ Readable(grant[g].cost) /\ Micros(grant[g].cost) > cb.value
                          \/ cb.value > 0 /\ catalog.maxCost # Blank /\ ~Readable(catalog.maxCost)
      BY <2>1, ClampedIfLess
    <2>7. Micros(report[g].cost) = e.cost
      <3>1. Micros(Blank) = 0
        <4>1. /\ Blank.whole \o Blank.frac = <<>> /\ Len(Blank.frac) = 0
              /\ Tens[0] = 1 /\ MicroDollarsPerDollar \in Nat
          BY TensLaw, BudgetConstants DEF Blank, MicroDollarsPerDollar
        <4>2. Micros(Blank) = (Number(<<>>) * MicroDollarsPerDollar) \div 1
          BY <4>1, Zenon DEF Micros
        <4> QED
          BY <4>1, <4>2, NumberEmpty
      <3> QED
        BY <2>3, <2>4, <2>5, <3>1, FormatExact
    <2> HIDE DEF e, tb, cb
    <2>8. e.token > 0 => report[g].token = e.token
      BY <2>3, <2>4, <2>5
    <2>9. (grant[g].token > tokenBudgetOverride(e) /\ grant[g].token > 0)
             = (grant[g].token > 0 /\ grant[g].token > tb.value)
      BY <2>3, <2>5 DEF tokenBudgetOverride
    <2>10. report[g].clamped = \/ grant[g].token > tokenBudgetOverride(e) /\ grant[g].token > 0
                               \/ Readable(grant[g].cost) /\ Micros(grant[g].cost) > e.cost
                               \/ e.cost > 0 /\ catalog.maxCost # Blank /\ ~Readable(catalog.maxCost)
      BY <2>3, <2>4, <2>6, <2>9, Zenon
    <2> QED
      BY <2>7, <2>8, <2>10, Zenon DEF e
  <1>3. BudgetInv => TypeOK
    BY DEF BudgetInv
  <1> QED
    BY <1>1, <1>2, <1>3, StepKeepsReports, BudgetInvariant, DistinctNames, PTL DEF Spec
================================================================================
