------------------------- MODULE BundleApplyProofs -------------------------
(***************************************************************************)
(* What a command runs is what the marks, the policy and the lock allow:   *)
(* the properties of BundleApply for any catalogs, policies, bundles,      *)
(* requests and bounds.                                                    *)
(*                                                                         *)
(* The recursive functions of the model, and whatever is found by trying   *)
(* one place of a sequence after the other, are reasoned about by the      *)
(* least number for which a claim fails.                                   *)
(***************************************************************************)
EXTENDS BundleApply, WellFoundedInduction, FiniteSetTheorems, SequenceTheorems, TLAPS

-----------------------------------------------------------------------------
(* Numbers and sequences *)

\* A set of numbers that is not empty has a least one.
LEMMA Least ==
  ASSUME NEW T, T \subseteq Nat, T # {}
  PROVE  \E n \in T : \A m \in T : n <= m
<1> DEFINE R == OpToRel(<, Nat)
<1>1. \E n \in T : \A m \in T : ~(<<m, n>> \in R)
  BY NatLessThanWellFounded, WFMin
<1>2. R = {r \in Nat \X Nat : r[1] < r[2]}
  BY DEF OpToRel
<1> HIDE DEF R
<1>3. \A m, n \in Nat : m < n => <<m, n>> \in R
  BY <1>2
<1>4. PICK n \in T : \A m \in T : ~(<<m, n>> \in R)
  BY <1>1
<1>5. \A m \in T : ~(m < n) /\ m \in Nat /\ n \in Nat
  BY <1>3, <1>4
<1>6. \A m \in T : n <= m
  BY <1>5
<1> QED
  BY <1>6

\* Of the places of a sequence that are not in vain one is the best, where any
\* two can be told apart by a transitive relation.
LEMMA BestExists ==
  ASSUME NEW N \in Nat, NEW E \in SUBSET (1..N), E # {}, NEW G \in SUBSET ((1..N) \X (1..N)),
         \A i, j \in 1..N : i # j => <<i, j>> \in G \/ <<j, i>> \in G,
         \A i, j, k \in 1..N : <<i, j>> \in G /\ <<j, k>> \in G /\ i # k => <<i, k>> \in G
  PROVE  \E i \in E : \A j \in E \ {i} : <<i, j>> \in G
<1> DEFINE Good(T) == \E i \in T : \A j \in T \ {i} : <<i, j>> \in G
           Fine(m) == \A T \in SUBSET (1..m) : T # {} => Good(T)
           Bad == {m \in 0..N : ~Fine(m)}
<1>1. Bad \subseteq Nat /\ \A m \in 0..N : m \notin Bad => Fine(m)
  OBVIOUS
<1>2. \A m \in Bad : m \in 0..N /\ ~Fine(m)
  OBVIOUS
<1>3. Fine(N) => \E i \in E : \A j \in E \ {i} : <<i, j>> \in G
  OBVIOUS
<1> HIDE DEF Bad
<1>4. ASSUME Bad # {} PROVE FALSE
  <2>1. PICK m \in Bad : \A k \in Bad : m <= k
    BY <1>1, <1>4, Least
  <2>2. PICK T \in SUBSET (1..m) : T # {} /\ ~Good(T)
    BY <1>2, <2>1
  <2>3. m # 0
    <3>1. ASSUME m = 0 PROVE 1..m = {}
      BY <3>1
    <3> QED
      BY <2>2, <3>1
  <2>4. m \in 1..N /\ m - 1 \in 0..N /\ m - 1 \notin Bad
    BY <1>1, <1>2, <2>1, <2>3
  <2>5. \A S \in SUBSET (1..(m - 1)) : S # {} => Good(S)
    BY <1>1, <2>4
  <2>6. m \in T
    <3>1. ASSUME m \notin T PROVE T \in SUBSET (1..(m - 1))
      BY <3>1, <2>2, <2>4
    <3> QED
      BY <3>1, <2>2, <2>5
  <2> DEFINE S == T \ {m}
  <2>7. S \in SUBSET (1..(m - 1))
    BY <2>2, <2>4
  <2>8. S # {}
    BY <2>2, <2>6
  <2>9. PICK i \in S : \A j \in S \ {i} : <<i, j>> \in G
    BY <2>5, <2>7, <2>8
  <2>10. i \in 1..N /\ i # m /\ i \in T /\ \A j \in T : j \in 1..N
    BY <2>2, <2>4, <2>9
  <2>11. CASE <<i, m>> \in G
    BY <2>2, <2>9, <2>10, <2>11
  <2>12. CASE <<m, i>> \in G
    <3>1. \A j \in T \ {m} : <<m, j>> \in G
      BY <2>4, <2>9, <2>10, <2>12
    <3> QED
      BY <2>2, <2>6, <3>1
  <2> QED
    BY <2>4, <2>10, <2>11, <2>12
<1>5. N \notin Bad
  BY <1>4
<1> HIDE DEF Fine
<1>6. Fine(N)
  BY <1>1, <1>5
<1> QED
  BY <1>3, <1>6

\* The greatest of some places of a sequence is one of them.
LEMMA MaxIsOne ==
  ASSUME NEW N \in Nat, NEW E \in SUBSET (1..N), E # {}
  PROVE  Max(E) \in E /\ \A j \in E : j <= Max(E)
<1> DEFINE G == {r \in (1..N) \X (1..N) : r[2] <= r[1]}
<1>0. G \in SUBSET ((1..N) \X (1..N))
  OBVIOUS
<1>1. \A i, j \in 1..N : <<i, j>> \in G <=> j <= i
  OBVIOUS
<1> HIDE DEF G
<1>2. \A i, j \in 1..N : i # j => <<i, j>> \in G \/ <<j, i>> \in G
  BY <1>1
<1>3. \A i, j, k \in 1..N : <<i, j>> \in G /\ <<j, k>> \in G /\ i # k => <<i, k>> \in G
  BY <1>1
<1>4. \E i \in E : \A j \in E \ {i} : <<i, j>> \in G
  BY <1>0, <1>2, <1>3, BestExists
<1>5. PICK i \in E : \A j \in E \ {i} : <<i, j>> \in G
  BY <1>4
<1>6. i \in 1..N /\ \A j \in E : j \in 1..N
  OBVIOUS
<1>7. ASSUME NEW j \in E PROVE j <= i
  <2>1. CASE j = i
    BY <1>6, <2>1
  <2>2. CASE j # i
    BY <1>1, <1>5, <1>6, <2>2
  <2> QED
    BY <2>1, <2>2
<1>8. \A j \in E : i >= j
  BY <1>6, <1>7
<1>9. Max(E) \in E /\ \A j \in E : Max(E) >= j
  BY <1>8 DEF Max
<1> QED
  BY <1>6, <1>9

\* So is the least of some numbers.
LEMMA MinIsOne ==
  ASSUME NEW T, T \subseteq Nat, T # {}
  PROVE  Min(T) \in T
BY Least DEF Min

LEMMA PlacesCount ==
  ASSUME NEW X, NEW s \in Seq(X)
  PROVE  Len(s) \in Nat /\ DOMAIN s = 1..Len(s) /\ \A i \in DOMAIN s : i \in Nat /\ i # 0
OBVIOUS

LEMMA RangeOfAppend ==
  ASSUME NEW X, NEW s \in Seq(X), NEW x \in X
  PROVE  Append(s, x) \in Seq(X) /\ Range(Append(s, x)) = Range(s) \union {x}
<1>1. /\ Append(s, x) \in Seq(X) /\ DOMAIN Append(s, x) = 1..(Len(s) + 1) /\ DOMAIN s = 1..Len(s)
      /\ Append(s, x)[Len(s) + 1] = x /\ \A i \in 1..Len(s) : Append(s, x)[i] = s[i]
      /\ Len(s) \in Nat
  OBVIOUS
<1>2. \A i \in 1..(Len(s) + 1) : i \in 1..Len(s) \/ i = Len(s) + 1
  BY <1>1
<1>3. Len(s) + 1 \in 1..(Len(s) + 1) /\ \A i \in 1..Len(s) : i \in 1..(Len(s) + 1)
  BY <1>1
<1> QED
  BY <1>1, <1>2, <1>3 DEF Range

LEMMA RangeOfConcat ==
  ASSUME NEW X, NEW s \in Seq(X), NEW t \in Seq(X)
  PROVE  s \o t \in Seq(X) /\ Range(s \o t) = Range(s) \union Range(t)
<1>1. /\ s \o t \in Seq(X) /\ DOMAIN (s \o t) = 1..(Len(s) + Len(t))
      /\ DOMAIN s = 1..Len(s) /\ DOMAIN t = 1..Len(t) /\ Len(s) \in Nat /\ Len(t) \in Nat
      /\ \A i \in 1..(Len(s) + Len(t)) : (s \o t)[i] = IF i <= Len(s) THEN s[i] ELSE t[i - Len(s)]
  OBVIOUS
<1>2. \A i \in 1..(Len(s) + Len(t)) : i <= Len(s) => i \in 1..Len(s) /\ (s \o t)[i] = s[i]
  BY <1>1
<1>3. \A i \in 1..(Len(s) + Len(t)) : ~(i <= Len(s)) => i - Len(s) \in 1..Len(t) /\ (s \o t)[i] = t[i - Len(s)]
  BY <1>1
<1>4. \A i \in 1..Len(s) : i \in 1..(Len(s) + Len(t)) /\ (s \o t)[i] = s[i]
  BY <1>1
<1>5. \A i \in 1..Len(t) : i + Len(s) \in 1..(Len(s) + Len(t)) /\ (s \o t)[i + Len(s)] = t[i]
  BY <1>1
<1>6. Range(s \o t) \subseteq Range(s) \union Range(t)
  BY <1>1, <1>2, <1>3 DEF Range
<1>7. Range(s) \subseteq Range(s \o t)
  BY <1>1, <1>4 DEF Range
<1>8. Range(t) \subseteq Range(s \o t)
  BY <1>1, <1>5 DEF Range
<1> QED
  BY <1>1, <1>6, <1>7, <1>8

-----------------------------------------------------------------------------
(* The places that are kept *)

KeptAt(s, places, f, n) ==
  IF n = 0 THEN <<>> ELSE IF n \in places THEN Append(f[n - 1], s[n]) ELSE f[n - 1]

\* There is such a function on the numbers up to N.
LEMMA KeptExists ==
  ASSUME NEW s, NEW places, NEW N \in Nat
  PROVE  \E f : f = [n \in 0..N |-> KeptAt(s, places, f, n)]
<1> DEFINE Bad == {m \in Nat : ~ \E f : f = [n \in 0..m |-> KeptAt(s, places, f, n)]}
<1>1. SUFFICES ASSUME Bad # {} PROVE FALSE
  OBVIOUS
<1>2. PICK m \in Bad : \A k \in Bad : m <= k
  BY <1>1, Least
<1>3. m # 0
  <2> DEFINE f == [n \in 0..0 |-> <<>>]
  <2>1. f = [n \in 0..0 |-> KeptAt(s, places, f, n)]
    BY DEF KeptAt
  <2> QED
    BY <1>2, <2>1
<1>4. m - 1 \in Nat /\ m - 1 \notin Bad
  BY <1>2, <1>3
<1>5. PICK g : g = [n \in 0..(m - 1) |-> KeptAt(s, places, g, n)]
  BY <1>4
<1> DEFINE f == [n \in 0..m |-> IF n = m THEN KeptAt(s, places, g, m) ELSE g[n]]
<1>6. f = [n \in 0..m |-> KeptAt(s, places, f, n)]
  <2>1. SUFFICES ASSUME NEW n \in 0..m PROVE f[n] = KeptAt(s, places, f, n)
    OBVIOUS
  <2>2. n # 0 => f[n - 1] = g[n - 1]
    BY <1>4
  <2>3. CASE n = m
    BY <1>3, <1>4, <2>2, <2>3 DEF KeptAt
  <2>4. CASE n # m
    <3>1. n \in 0..(m - 1) /\ f[n] = g[n]
      BY <1>4, <2>4
    <3>2. g[n] = KeptAt(s, places, g, n)
      BY <1>5, <3>1
    <3> QED
      BY <2>2, <3>1, <3>2 DEF KeptAt
  <2> QED
    BY <2>3, <2>4
<1> QED
  BY <1>2, <1>6

\* Kept is its value at the length of the sequence.
LEMMA KeptUnfolds ==
  ASSUME NEW s, NEW places, Len(s) \in Nat
  PROVE  \E f : f = [n \in 0..Len(s) |-> KeptAt(s, places, f, n)] /\ Kept(s, places) = f[Len(s)]
<1> DEFINE f == CHOOSE f : f = [n \in 0..Len(s) |-> IF n = 0 THEN <<>> ELSE IF n \in places
                                                  THEN Append(f[n - 1], s[n]) ELSE f[n - 1]]
<1>1. Kept(s, places) = f[Len(s)]
  BY DEF Kept
<1>2. \E h : h = [n \in 0..Len(s) |-> KeptAt(s, places, h, n)]
  BY KeptExists
<1>3. \E h : h = [n \in 0..Len(s) |-> IF n = 0 THEN <<>> ELSE IF n \in places
                                      THEN Append(h[n - 1], s[n]) ELSE h[n - 1]]
  BY <1>2 DEF KeptAt
<1>4. f = [n \in 0..Len(s) |-> IF n = 0 THEN <<>> ELSE IF n \in places THEN Append(f[n - 1], s[n]) ELSE f[n - 1]]
  BY <1>3
<1> HIDE DEF f
<1> QED
  BY <1>1, <1>4 DEF KeptAt

\* What is kept is what is at the places.
LEMMA KeptIs ==
  ASSUME NEW X, NEW s \in Seq(X), NEW places
  PROVE  Kept(s, places) \in Seq(X) /\ Range(Kept(s, places)) = {s[i] : i \in places \intersect DOMAIN s}
<1>1. Len(s) \in Nat /\ DOMAIN s = 1..Len(s) /\ \A i \in 1..Len(s) : s[i] \in X
  OBVIOUS
<1>2. PICK f : f = [n \in 0..Len(s) |-> KeptAt(s, places, f, n)] /\ Kept(s, places) = f[Len(s)]
  BY <1>1, KeptUnfolds
<1> DEFINE Fine(n) == f[n] \in Seq(X) /\ Range(f[n]) = {s[i] : i \in places \intersect 1..n}
           Bad == {n \in 0..Len(s) : ~Fine(n)}
<1>3. \A n \in 0..Len(s) : f[n] = KeptAt(s, places, f, n)
  BY <1>2
<1>4. Fine(0)
  <2>1. f[0] = <<>>
    BY <1>1, <1>3 DEF KeptAt
  <2>2. places \intersect 1..0 = {}
    OBVIOUS
  <2> QED
    BY <2>1, <2>2 DEF Range
<1>5. ASSUME NEW n \in 1..Len(s), Fine(n - 1) PROVE Fine(n)
  <2>1. f[n] = IF n \in places THEN Append(f[n - 1], s[n]) ELSE f[n - 1]
    BY <1>1, <1>3 DEF KeptAt
  <2>2. 1..n = 1..(n - 1) \union {n}
    BY <1>1
  <2>3. CASE n \in places
    <3>1. f[n] \in Seq(X) /\ Range(f[n]) = Range(f[n - 1]) \union {s[n]}
      BY <1>1, <1>5, <2>1, <2>3, RangeOfAppend
    <3>2. places \intersect 1..n = (places \intersect 1..(n - 1)) \union {n}
      BY <2>2, <2>3
    <3> QED
      BY <1>5, <3>1, <3>2
  <2>4. CASE n \notin places
    <3>1. places \intersect 1..n = places \intersect 1..(n - 1)
      BY <2>2, <2>4
    <3> QED
      BY <1>5, <2>1, <2>4, <3>1
  <2> QED
    BY <2>3, <2>4
<1>6. Bad \subseteq Nat /\ \A n \in 0..Len(s) : n \notin Bad => Fine(n)
  OBVIOUS
<1>7. \A n \in Bad : n \in 0..Len(s) /\ ~Fine(n)
  OBVIOUS
<1> HIDE DEF Fine, Bad
<1>8. ASSUME Bad # {} PROVE FALSE
  <2>1. PICK m \in Bad : \A k \in Bad : m <= k
    BY <1>6, <1>8, Least
  <2>2. m \in 0..Len(s) /\ ~Fine(m) /\ m # 0
    BY <1>4, <1>7, <2>1
  <2>3. m \in 1..Len(s) /\ m - 1 \in 0..Len(s) /\ m - 1 \notin Bad
    BY <1>1, <1>7, <2>1, <2>2
  <2> QED
    BY <1>5, <1>6, <2>2, <2>3
<1>9. Fine(Len(s))
  BY <1>1, <1>6, <1>8
<1> QED
  BY <1>1, <1>2, <1>9 DEF Fine

-----------------------------------------------------------------------------
(* Policy *)

\* The layers are the built-in one and those of the files that are read.
LEMMA LayersAre ==
  ASSUME NEW X, NEW list \in Seq(X)
  PROVE  /\ LayersOf(list) \in Seq(Range(LayersOf(list)))
         /\ Range(LayersOf(list)) = {SecureDefaults} \union
              {list[i].layer : i \in {k \in DOMAIN list : list[k].named \/ list[k].facts.regular}}
<1> DEFINE places == {k \in DOMAIN list : list[k].named \/ list[k].facts.regular}
           rest == [i \in DOMAIN Files(list) |-> Files(list)[i].layer]
           L == {list[i].layer : i \in places}
<1>1. Files(list) \in Seq(X) /\ Range(Files(list)) = {list[i] : i \in places \intersect DOMAIN list}
  BY KeptIs DEF Files
<1>2. Range(Files(list)) = {list[i] : i \in places}
  BY <1>1
<1>3. DOMAIN Files(list) = 1..Len(Files(list)) /\ Len(Files(list)) \in Nat
  BY <1>1
<1>4. Range(rest) = L
  <2>1. \A i \in DOMAIN Files(list) : \E k \in places : list[k] = Files(list)[i]
    BY <1>2 DEF Range
  <2>2. \A k \in places : \E i \in DOMAIN Files(list) : list[k] = Files(list)[i]
    BY <1>2 DEF Range
  <2>3. DOMAIN rest = DOMAIN Files(list) /\ \A i \in DOMAIN Files(list) : rest[i] = Files(list)[i].layer
    OBVIOUS
  <2> HIDE DEF rest, places
  <2> QED
    BY <2>1, <2>2, <2>3 DEF Range
<1>5. rest \in Seq(L \union {SecureDefaults})
  BY <1>3, <1>4 DEF Range
<1>6. <<SecureDefaults>> \in Seq(L \union {SecureDefaults}) /\ Range(<<SecureDefaults>>) = {SecureDefaults}
  BY DEF Range
<1> DEFINE first == <<SecureDefaults>>
           U == L \union {SecureDefaults}
<1>7. LayersOf(list) = first \o rest /\ first \in Seq(U) /\ rest \in Seq(U) /\ Range(first) = {SecureDefaults}
  BY <1>5, <1>6 DEF LayersOf
<1> HIDE DEF rest, L, first, U
<1>8. LayersOf(list) \in Seq(U) /\ Range(LayersOf(list)) = {SecureDefaults} \union L
  BY <1>4, <1>7, RangeOfConcat
<1>9. LayersOf(list) \in Seq(Range(LayersOf(list)))
  BY <1>8 DEF U
<1> QED
  BY <1>8, <1>9 DEF L

\* A file in front or behind takes no layer away.
LEMMA LayersStay ==
  ASSUME NEW list \in PolicyFiles, NEW more \in PolicyFiles
  PROVE  Range(LayersOf(list)) \subseteq Range(LayersOf(list \o more))
<1> DEFINE X == Range(list) \union Range(more)
           places(l) == {k \in DOMAIN l : l[k].named \/ l[k].facts.regular}
<1>1. list \in Seq(X) /\ more \in Seq(X)
  BY PoliciesAssumption DEF Listed
<1> HIDE DEF X
<1>2. list \o more \in Seq(X) /\ \A i \in DOMAIN list : i \in DOMAIN (list \o more) /\ (list \o more)[i] = list[i]
  BY <1>1
<1>3. \A l \in Seq(X) : Range(LayersOf(l)) = {SecureDefaults} \union {l[i].layer : i \in places(l)}
  BY LayersAre
<1>4. \A i \in places(list) : i \in places(list \o more) /\ (list \o more)[i].layer = list[i].layer
  BY <1>2
<1> HIDE DEF places
<1>5. Range(LayersOf(list)) = {SecureDefaults} \union {list[i].layer : i \in places(list)}
  BY <1>1, <1>3
<1>6. Range(LayersOf(list \o more)) = {SecureDefaults} \union {(list \o more)[i].layer : i \in places(list \o more)}
  BY <1>2, <1>3
<1> QED
  BY <1>4, <1>5, <1>6

\* What holds of more layers objects to at least as much.
LEMMA MoreLayersDenyMore ==
  ASSUME NEW layers, NEW others, Range(layers) \subseteq Range(others),
         NEW p, NEW s, NEW op, NEW ctx
  PROVE  LET before == Decision(layers, p, s, op, ctx)
             after == Decision(others, p, s, op, ctx)
         IN (Allowed(after) => Allowed(before)) /\ (before.confirm => after.confirm)
<1> DEFINE Codes(l) == {<<l.id, code, Age(code, s, ctx)>> : code \in LayerCodes(l, p, s, op, ctx)}
<1>1. \A list : Reasons(list, p, s, op, ctx) = UNION {Codes(list[i]) : i \in DOMAIN list}
  BY DEF Reasons
<1> HIDE DEF Codes
<1>2. \A i \in DOMAIN layers : \E j \in DOMAIN others : others[j] = layers[i]
  BY DEF Range
<1>3. Reasons(layers, p, s, op, ctx) \subseteq Reasons(others, p, s, op, ctx)
  BY <1>1, <1>2
<1>4. (\E i \in DOMAIN layers : layers[i].confirm) => \E j \in DOMAIN others : others[j].confirm
  BY <1>2
<1> QED
  BY <1>3, <1>4 DEF Decision, Allowed

\* Deny wins (LayeredPolicy): a policy file that is added neither lets through
\* what was not, nor takes a confirmation back.
THEOREM DenyWins == Spec => []LayersOnlyTighten
<1> DEFINE Placed == files \in PolicyFiles
<1>1. Init => Placed
  BY DEF Init
<1>2. Placed /\ [Next]_vars => Placed'
  BY DEF Next, vars, things, records, bounds, Apply, Operate, Ask, Lock, Refresh, WriteLock, Decline, Confirm, Step,
         Commit, Finish, Fail, UpdateCatalog, ChangePolicy, EditBundle, NextDay, Pin, Hold, Release, Elsewhere
<1>3. ASSUME Placed PROVE LayersOnlyTighten
  <2>1. ASSUME NEW more \in PolicyFiles, NEW p, NEW s, NEW op, NEW ctx
        PROVE  LET before == Decision(LayersOf(files), p, s, op, ctx)
                   after == Decision(LayersOf(files \o more), p, s, op, ctx)
               IN (Allowed(after) => Allowed(before)) /\ (before.confirm => after.confirm)
    BY <1>3, LayersStay, MoreLayersDenyMore
  <2> DEFINE Verdict(list, p, s, op) ==
        Decision(LayersOf(list), p, s, op, PolicyContext(Now, p.id, s, Request(Anything, "auto", "stable", NoVersion), FALSE))
  <2>2. SUFFICES ASSUME NEW more \in PolicyFiles, NEW i \in DOMAIN catalog.packages, NEW op \in {"install", "remove"},
                        NEW s \in Range(catalog.packages[i].sources),
                        NEW before, before = Verdict(files, catalog.packages[i], s, op),
                        NEW after, after = Verdict(files \o more, catalog.packages[i], s, op)
                 PROVE  (Allowed(after) => Allowed(before)) /\ (before.confirm => after.confirm)
    BY Zenon DEF LayersOnlyTighten
  <2> QED
    BY <2>1, <2>2
<1> QED
  BY <1>1, <1>2, <1>3, PTL DEF Spec

-----------------------------------------------------------------------------
(* Resolution *)

\* What a process has loaded: a catalog that may be active, and the layers of
\* policy files that may be in place,
\* and versions that are texts.
Typed(version) == version # NoVersion => version.text \in Seq(Int)
Loaded(w) ==
  /\ w.catalog \in Catalogs /\ \E list \in PolicyFiles : w.layers = LayersOf(list)
  /\ \A id \in DOMAIN w.installed : w.installed[id].version \in VersionTexts /\ Typed(w.installed[id].pinned)

\* The position of a backend among those preferred is a number.
LEMMA PreferenceIsNumber ==
  ASSUME NEW list \in PolicyFiles, NEW backend
  PROVE  Preference(LayersOf(list), backend) \in Int
<1> DEFINE layers == LayersOf(list)
           naming == {i \in DOMAIN layers : backend \in Range(layers[i].preferred)}
           best == layers[Max(naming)].preferred
           at_ == {k \in DOMAIN best : best[k] = backend}
<1>1. list \in Seq(Range(list)) /\ \A f \in Range(list) : f.layer.preferred \in Seq(Range(f.layer.preferred))
  BY PoliciesAssumption DEF Listed
<1>2. layers \in Seq(Range(layers)) /\ \A l \in Range(layers) : l = SecureDefaults \/ \E f \in Range(list) : l = f.layer
  <2> DEFINE places == {k \in DOMAIN list : list[k].named \/ list[k].facts.regular}
  <2>1. layers \in Seq(Range(layers)) /\ Range(layers) = {SecureDefaults} \union {list[i].layer : i \in places}
    BY <1>1, LayersAre
  <2>2. \A i \in places : list[i] \in Range(list)
    BY DEF Range
  <2> HIDE DEF layers, places
  <2> QED
    BY <2>1, <2>2
<1>3. SecureDefaults.preferred = <<>>
  BY DEF SecureDefaults, Neutral
<1>4. \A l \in Range(layers) : DOMAIN l.preferred \subseteq Nat
  <2>1. \A f \in Range(list) : DOMAIN f.layer.preferred \subseteq Nat
    BY <1>1
  <2> QED
    BY <1>2, <1>3, <2>1
<1>5. Preference(layers, backend) = IF naming = {} THEN 99 ELSE Min(at_) - 1
  BY DEF Preference
<1>6. Len(layers) \in Nat /\ DOMAIN layers = 1..Len(layers)
  BY <1>2
<1>7. naming \in SUBSET (1..Len(layers))
  BY <1>6
<1> HIDE DEF layers
<1>8. ASSUME naming # {} PROVE at_ \subseteq Nat /\ at_ # {}
  <2>1. Max(naming) \in naming
    BY <1>6, <1>7, <1>8, MaxIsOne
  <2>2. backend \in Range(best) /\ best \in {layers[i].preferred : i \in DOMAIN layers}
    BY <2>1
  <2>3. DOMAIN best \subseteq Nat
    BY <1>4, <2>2 DEF Range
  <2> QED
    BY <2>2, <2>3 DEF Range
<1>9. ASSUME naming # {} PROVE Min(at_) \in Nat
  BY <1>8, <1>9, MinIsOne
<1> QED
  BY <1>5, <1>9 DEF layers

\* The order of ranks, place by place.
Ranks == {v \in Seq(Int) : Len(v) = 5}
Precedes(v, u) ==
  \/ v[1] < u[1]
  \/ v[1] = u[1] /\ v[2] < u[2]
  \/ v[1] = u[1] /\ v[2] = u[2] /\ v[3] < u[3]
  \/ v[1] = u[1] /\ v[2] = u[2] /\ v[3] = u[3] /\ v[4] < u[4]
  \/ v[1] = u[1] /\ v[2] = u[2] /\ v[3] = u[3] /\ v[4] = u[4] /\ v[5] < u[5]

LEMMA BeforeFive ==
  ASSUME NEW v \in Ranks, NEW u \in Ranks, NEW shorter
  PROVE  Before(v, u, shorter) <=> Precedes(v, u)
<1>1. DOMAIN v = 1..5 /\ DOMAIN u = 1..5 /\ Len(v) = 5 /\ Len(u) = 5
  BY DEF Ranks
<1>2. Before(v, u, shorter) <=> \E i \in 1..5 : (\A j \in 1..(i - 1) : v[j] = u[j]) /\ v[i] < u[i]
  BY <1>1 DEF Before
<1>3. 1..5 = {1, 2, 3, 4, 5} /\ 1..(1 - 1) = {} /\ 1..(2 - 1) = {1} /\ 1..(3 - 1) = {1, 2}
      /\ 1..(4 - 1) = {1, 2, 3} /\ 1..(5 - 1) = {1, 2, 3, 4}
  OBVIOUS
<1> DEFINE P(i) == (\A j \in 1..(i - 1) : v[j] = u[j]) /\ v[i] < u[i]
<1>4. (\E i \in 1..5 : P(i)) <=> P(1) \/ P(2) \/ P(3) \/ P(4) \/ P(5)
  BY <1>3
<1> QED
  BY <1>2, <1>3, <1>4 DEF Precedes

LEMMA PlacesAreNumbers ==
  ASSUME NEW v \in Ranks
  PROVE  v[1] \in Int /\ v[2] \in Int /\ v[3] \in Int /\ v[4] \in Int /\ v[5] \in Int
BY DEF Ranks

\* What lies before t lies before u, or u before t.
LEMMA PrecedesIsWeakOrder ==
  ASSUME NEW v \in Ranks, NEW u \in Ranks, NEW t \in Ranks
  PROVE  Precedes(v, t) => Precedes(v, u) \/ Precedes(u, t)
<1>1. /\ v[1] \in Int /\ v[2] \in Int /\ v[3] \in Int /\ v[4] \in Int /\ v[5] \in Int
      /\ u[1] \in Int /\ u[2] \in Int /\ u[3] \in Int /\ u[4] \in Int /\ u[5] \in Int
      /\ t[1] \in Int /\ t[2] \in Int /\ t[3] \in Int /\ t[4] \in Int /\ t[5] \in Int
  BY PlacesAreNumbers
<1>2. CASE v[1] < t[1]
  BY <1>1, <1>2 DEF Precedes
<1>3. CASE v[1] = t[1] /\ v[2] < t[2]
  BY <1>1, <1>3 DEF Precedes
<1>4. CASE v[1] = t[1] /\ v[2] = t[2] /\ v[3] < t[3]
  BY <1>1, <1>4 DEF Precedes
<1>5. CASE v[1] = t[1] /\ v[2] = t[2] /\ v[3] = t[3] /\ v[4] < t[4]
  BY <1>1, <1>5 DEF Precedes
<1>6. CASE v[1] = t[1] /\ v[2] = t[2] /\ v[3] = t[3] /\ v[4] = t[4] /\ v[5] < t[5]
  BY <1>1, <1>6 DEF Precedes
<1> QED
  BY <1>2, <1>3, <1>4, <1>5, <1>6 DEF Precedes

LEMMA PrecedesOneWay ==
  ASSUME NEW v \in Ranks, NEW u \in Ranks
  PROVE  ~(Precedes(v, u) /\ Precedes(u, v))
<1>1. /\ v[1] \in Int /\ v[2] \in Int /\ v[3] \in Int /\ v[4] \in Int /\ v[5] \in Int
      /\ u[1] \in Int /\ u[2] \in Int /\ u[3] \in Int /\ u[4] \in Int /\ u[5] \in Int
  BY PlacesAreNumbers
<1> QED
  BY <1>1 DEF Precedes

\* Of some evaluations one is the best.
LEMMA BestIsOne ==
  ASSUME NEW N \in Nat, NEW evaluations, \A i \in 1..N : evaluations[i].rank \in Ranks,
         NEW E \in SUBSET (1..N), E # {}
  PROVE  Best(evaluations, E) \in E
<1> DEFINE Beats(i, j) == ~Better(evaluations[j], evaluations[i]) /\ (~Better(evaluations[i], evaluations[j]) => i < j)
           G == {r \in (1..N) \X (1..N) : Beats(r[1], r[2])}
           Less(i, j) == Precedes(evaluations[i].rank, evaluations[j].rank)
<1>1. \A i, j \in 1..N : Better(evaluations[i], evaluations[j]) <=> Less(j, i)
  BY BeforeFive DEF Better
<1>2. \A i, j \in 1..N : ~(Less(i, j) /\ Less(j, i))
  BY PrecedesOneWay
<1>3. \A i, j, k \in 1..N : Less(i, k) => Less(i, j) \/ Less(j, k)
  BY PrecedesIsWeakOrder
<1> HIDE DEF Less
<1>4. \A i, j \in 1..N : Beats(i, j) <=> ~Less(i, j) /\ (~Less(j, i) => i < j)
  BY <1>1
<1> HIDE DEF Beats
<1>5. /\ \A i, j \in 1..N : i # j => Beats(i, j) \/ Beats(j, i)
      /\ \A i, j, k \in 1..N : Beats(i, j) /\ Beats(j, k) /\ i # k => Beats(i, k)
  <2>1. ASSUME NEW i \in 1..N, NEW j \in 1..N, i # j PROVE Beats(i, j) \/ Beats(j, i)
    <3>1. i < j \/ j < i
      BY <2>1
    <3> QED
      BY <1>2, <1>4, <3>1
  <2>2. ASSUME NEW i \in 1..N, NEW j \in 1..N, NEW k \in 1..N, Beats(i, j), Beats(j, k) PROVE Beats(i, k)
    <3>1. ~Less(i, j) /\ ~Less(j, k) /\ ~Less(i, k)
      BY <1>3, <1>4, <2>2
    <3>2. ~Less(k, i) => ~Less(j, i) /\ ~Less(k, j)
      BY <1>3, <3>1
    <3>3. i < j /\ j < k => i < k
      OBVIOUS
    <3> QED
      BY <1>4, <2>2, <3>1, <3>2, <3>3
  <2> QED
    BY <2>1, <2>2
<1>6. G \in SUBSET ((1..N) \X (1..N)) /\ \A i, j \in 1..N : <<i, j>> \in G <=> Beats(i, j)
  OBVIOUS
<1> HIDE DEF G
<1>7. /\ \A i, j \in 1..N : i # j => <<i, j>> \in G \/ <<j, i>> \in G
      /\ \A i, j, k \in 1..N : <<i, j>> \in G /\ <<j, k>> \in G /\ i # k => <<i, k>> \in G
  BY <1>5, <1>6
<1>8. \E i \in E : \A j \in E \ {i} : <<i, j>> \in G
  BY <1>6, <1>7, BestExists
<1>9. \E i \in E : \A j \in E \ {i} : Beats(i, j)
  BY <1>6, <1>8
<1> QED
  BY <1>9 DEF Best, Beats

\* A name that is known has its manifest in the catalog.
LEMMA ManifestIsOne ==
  ASSUME NEW doc \in Catalogs, NEW name, Known(doc, name)
  PROVE  Lookup(doc, name).at \in DOMAIN doc.packages /\ Manifest(doc, name) \in Range(doc.packages)
<1> DEFINE n == Normal(name)
           exact == ExactIndex(doc, n)
           old == DeprecatedIndex(doc, n)
<1>1. doc.packages \in Seq(Range(doc.packages))
  BY CatalogsAssumption DEF Listed
<1>2. Len(doc.packages) \in Nat /\ DOMAIN doc.packages = 1..Len(doc.packages)
  BY <1>1
<1>3. ASSUME NEW places \in SUBSET (1..Len(doc.packages)), Indexed(places) # 0 PROVE Indexed(places) \in places
  BY <1>2, <1>3, MaxIsOne DEF Indexed
<1>4. exact # 0 => exact \in DOMAIN doc.packages
  <2> DEFINE places == {i \in DOMAIN doc.packages :
                          n \in {doc.packages[i].id} \union {Normal(a) : a \in doc.packages[i].aliases}}
  <2>1. exact = Indexed(places) /\ places \in SUBSET (1..Len(doc.packages))
    BY <1>2 DEF ExactIndex
  <2> QED
    BY <1>2, <1>3, <2>1
<1>5. old # 0 => old \in DOMAIN doc.packages
  <2> DEFINE places == {i \in DOMAIN doc.packages : n \in {Normal(a) : a \in doc.packages[i].deprecatedAliases}}
  <2>1. old = Indexed(places) /\ places \in SUBSET (1..Len(doc.packages))
    BY <1>2 DEF DeprecatedIndex
  <2> QED
    BY <1>2, <1>3, <2>1
<1>6. SafeName(name) /\ Lookup(doc, name) = Found(exact, old, Plausible(doc, n))
  BY DEF Known, Lookup, LookupNormal
<1> HIDE DEF exact, old
<1>7. Lookup(doc, name).at \in DOMAIN doc.packages
  BY <1>4, <1>5, <1>6 DEF Known, Found
<1> QED
  BY <1>7 DEF Manifest, Range

LEMMA LookupSaysWhy ==
  ASSUME NEW doc, NEW name
  PROVE  Lookup(doc, name).found # ""
BY DEF Lookup, LookupNormal, Found

\* What speaks for running op as the resolution r says, in the state of things w.
Granted(w, op, r, dryRun) ==
  LET asked == [version |-> r.version] IN
  /\ r.error = "" /\ r.selected # 0 /\ Typed(r.version)
  /\ Marked(w, r.id, op, asked) = {}
  /\ op # "remove" /\ IsInstalled(w, r.id) /\ w.installed[r.id].pinned # NoVersion => r.version # NoVersion
  /\ \E p \in Range(w.catalog.packages) :
       /\ p.id = r.id /\ Selected(r) \in Range(p.sources)
       /\ Allowed(Decision(w.layers, p, Selected(r), op, PolicyContext(w, r.id, Selected(r), asked, dryRun)))

LEMMA RankIsRank ==
  ASSUME NEW w, Loaded(w), NEW s, s.priority \in Int, NEW opts
  PROVE  Rank(w, s, opts) \in Ranks
<1>1. PICK list \in PolicyFiles : w.layers = LayersOf(list)
  BY DEF Loaded
<1> DEFINE a == IF opts.source = s.id THEN 1 ELSE 0
           b == IF opts.via \in {s.backend, Tool(s.backend)} THEN 1 ELSE 0
           c == -Preference(w.layers, s.backend)
           d == Trust(s)
           e == -s.priority
<1>2. Preference(w.layers, s.backend) \in Int
  BY <1>1, PreferenceIsNumber
<1>3. d \in Int
  BY DEF Trust
<1>4. a \in Int /\ b \in Int /\ c \in Int /\ e \in Int
  BY <1>2
<1>5. Rank(w, s, opts) = <<a, b, c, d, e>>
  BY DEF Rank
<1> HIDE DEF a, b, c, d, e
<1> QED
  BY <1>3, <1>4, <1>5 DEF Ranks

LEMMA RequestWith ==
  ASSUME NEW via, NEW scope, NEW channel, NEW version, NEW other
  PROVE  AtVersion(Request(via, scope, channel, version), other) = Request(via, scope, channel, other)
BY SMT DEF Request, AtVersion

\* An evaluation that is accepted grants what it is for.
LEMMA AcceptedIsGranted ==
  ASSUME NEW w, Loaded(w), NEW p \in Range(w.catalog.packages), NEW op, NEW opts, NEW dryRun,
         op # "remove" /\ IsInstalled(w, p.id) /\ w.installed[p.id].pinned # NoVersion => opts.version # NoVersion,
         Typed(opts.version), NEW r, r.error = "", r.id = p.id, r.version = opts.version,
         r.evaluations = [i \in DOMAIN p.sources |-> Evaluate(w, p, p.sources[i], op, opts, dryRun)],
         r.selected \in Accepted(r.evaluations)
  PROVE  Granted(w, op, r, dryRun)
<1> DEFINE k == r.selected
           source == p.sources[k]
           asked == [version |-> r.version]
           decision == Decision(w.layers, p, source, op, PolicyContext(w, p.id, source, opts, dryRun))
<1>1. p.sources \in Seq(Range(p.sources))
  BY CatalogsAssumption DEF Loaded, Listed
<1>2. k \in DOMAIN p.sources /\ r.evaluations[k].accepted
  BY DEF Accepted
<1>3. k # 0
  <2>1. \A i \in DOMAIN p.sources : i # 0
    BY <1>1, PlacesCount, Zenon
  <2> QED
    BY <1>2, <2>1, Zenon
<1>4. r.evaluations[k] = Evaluate(w, p, source, op, opts, dryRun)
  BY <1>2
<1> DEFINE rejections == Unfit(w, source, opts) \union Marked(w, p.id, op, opts)
<1>5. Selected(r) = source /\ Marked(w, p.id, op, opts) = {} /\ Allowed(decision)
  <2>1. r.evaluations[k] = Judged(source, decision, rejections, Rank(w, source, opts))
    BY <1>4 DEF Evaluate
  <2> HIDE DEF source, decision, rejections
  <2> DEFINE e == r.evaluations[k]
             rank == Rank(w, source, opts)
  <2>2. e = Judged(source, decision, rejections, rank) /\ e.accepted
    BY <1>2, <2>1
  <2> HIDE DEF e, rank, k
  <2>3. e.source = source
    BY <2>2 DEF Judged
  <2>5. rejections = {} /\ Allowed(decision)
    BY <2>2 DEF Judged
  <2>4. r.evaluations[k].source = source /\ rejections = {} /\ Allowed(decision)
    BY <2>3, <2>5 DEF e
  <2> QED
    BY <2>4 DEF Selected, rejections, k
<1>6. Marked(w, p.id, op, opts) = Marked(w, p.id, op, asked)
  BY DEF Marked
<1>7. PolicyContext(w, p.id, source, opts, dryRun) = PolicyContext(w, p.id, source, asked, dryRun)
  BY DEF PolicyContext
<1>8. source \in Range(p.sources)
  BY <1>2 DEF Range
<1> QED
  BY <1>3, <1>5, <1>6, <1>7, <1>8 DEF Granted

\* The version that is looked for: the one asked for or, if none is, the pin.
LEMMA EffectiveIs ==
  ASSUME NEW w, Loaded(w), NEW id, NEW op \in {"install", "upgrade", "repair", "remove"},
         NEW via, NEW scope, NEW channel, NEW version, Typed(version), NEW v,
         v = EffectiveVersion(w, id, op, Request(via, scope, channel, version))
  PROVE  /\ Typed(v)
         /\ op # "remove" /\ IsInstalled(w, id) /\ w.installed[id].pinned # NoVersion => v # NoVersion
<1>1. Request(via, scope, channel, version).version = version
  BY DEF Request
<1>2. v = IF version = NoVersion /\ op \in {"install", "upgrade", "repair"} /\ IsInstalled(w, id)
          THEN w.installed[id].pinned ELSE version
  BY <1>1 DEF EffectiveVersion
<1>3. \A x \in DOMAIN w.installed : Typed(w.installed[x].pinned)
  BY DEF Loaded
<1> QED
  BY <1>2, <1>3 DEF IsInstalled

\* The resolution of one package of the catalog, the one the name is of.
OfThePackage(w, name, op, via, scope, channel, version, dryRun, r) ==
  \E p \in Range(w.catalog.packages) : \E v :
    /\ p = Manifest(w.catalog, name) /\ Known(w.catalog, name)
    /\ v = EffectiveVersion(w, p.id, op, Request(via, scope, channel, version))
    /\ r = Resolved(p.id, v, Evaluations(w, p, op, Request(via, scope, channel, v), dryRun))

LEMMA ResolutionIs ==
  ASSUME NEW w, Loaded(w), NEW name, NEW op, NEW via, NEW scope, NEW channel, NEW version, NEW dryRun,
         Resolve(w, name, op, Request(via, scope, channel, version), dryRun).error = ""
  PROVE  OfThePackage(w, name, op, via, scope, channel, version, dryRun,
                      Resolve(w, name, op, Request(via, scope, channel, version), dryRun))
<1> DEFINE p == Manifest(w.catalog, name)
           first == Request(via, scope, channel, version)
           v == EffectiveVersion(w, p.id, op, first)
           opts == Request(via, scope, channel, v)
           r == Resolve(w, name, op, first, dryRun)
<1>1. \A reason : Failed(reason).error = reason
  BY DEF Failed
<1>2. Known(w.catalog, name) /\ r = ResolvePackage(w, p, op, first, dryRun)
  BY <1>1, LookupSaysWhy DEF Resolve
<1>3. p \in Range(w.catalog.packages)
  BY <1>2, ManifestIsOne DEF Loaded
<1>4. AtVersion(first, v) = opts
  <2>1. ASSUME NEW x PROVE AtVersion(Request(via, scope, channel, version), x) = Request(via, scope, channel, x)
    BY RequestWith, Zenon
  <2> HIDE DEF v
  <2> QED
    BY <2>1, Zenon
<1>5. r = ResolveAs(w, p, op, opts, dryRun)
  BY <1>2, <1>4 DEF ResolvePackage
<1>6. opts.version = v
  BY DEF Request
<1>7. r = Resolved(p.id, opts.version, Evaluations(w, p, op, opts, dryRun))
  <2>1. r.error = ""
    OBVIOUS
  <2> HIDE DEF r, opts
  <2> QED
    BY <1>1, <1>5, <2>1 DEF ResolveAs
<1> QED
  BY <1>2, <1>3, <1>6, <1>7 DEF OfThePackage

\* Every evaluation has a rank, so that one of those accepted is the best.
LEMMA BestIsAccepted ==
  ASSUME NEW w, Loaded(w), NEW p \in Range(w.catalog.packages), NEW op, NEW opts, NEW dryRun,
         NEW evaluations, evaluations = Evaluations(w, p, op, opts, dryRun),
         NEW E \in SUBSET Accepted(evaluations), E # {}
  PROVE  Best(evaluations, E) \in E
<1>1. p.sources \in Seq(Range(p.sources)) /\ \A s \in Range(p.sources) : s.priority \in Int
  BY CatalogsAssumption DEF Loaded, Listed
<1>2. Len(p.sources) \in Nat /\ DOMAIN p.sources = 1..Len(p.sources)
  BY <1>1, PlacesCount
<1>3. DOMAIN evaluations = DOMAIN p.sources
      /\ \A i \in DOMAIN p.sources : evaluations[i] = Evaluate(w, p, p.sources[i], op, opts, dryRun)
  BY DEF Evaluations
<1>4. ASSUME NEW i \in DOMAIN p.sources PROVE evaluations[i].rank \in Ranks
  <2>1. p.sources[i].priority \in Int
    BY <1>1 DEF Range
  <2> DEFINE e == evaluations[i]
             source == p.sources[i]
             rank == Rank(w, source, opts)
             decision == Decision(w.layers, p, source, op, PolicyContext(w, p.id, source, opts, dryRun))
             rejections == Unfit(w, source, opts) \union Marked(w, p.id, op, opts)
  <2>3. e = Judged(source, decision, rejections, rank)
    BY <1>3, Zenon DEF Evaluate
  <2> HIDE DEF e, rank, decision, rejections
  <2>4. e.rank = rank
    BY <2>3 DEF Judged
  <2>2. evaluations[i].rank = Rank(w, p.sources[i], opts)
    BY <2>4 DEF e, rank
  <2> QED
    BY <2>1, <2>2, RankIsRank
<1>5. \A i \in 1..Len(p.sources) : evaluations[i].rank \in Ranks
  BY <1>2, <1>4
<1>6. Accepted(evaluations) \subseteq 1..Len(p.sources)
  BY <1>2, <1>3 DEF Accepted
<1>7. E \in SUBSET (1..Len(p.sources))
  BY <1>6
<1> QED
  BY <1>2, <1>5, <1>7, BestIsOne

\* What is selected of a resolution is granted, and so would be the best of any
\* of the sources that it accepts.
LEMMA SelectionGrants ==
  ASSUME NEW w, Loaded(w), NEW p \in Range(w.catalog.packages), NEW op, NEW opts, NEW dryRun,
         NEW v, opts.version = v, Typed(v),
         op # "remove" /\ IsInstalled(w, p.id) /\ w.installed[p.id].pinned # NoVersion => v # NoVersion,
         NEW evaluations, evaluations = Evaluations(w, p, op, opts, dryRun)
  PROVE  /\ Resolved(p.id, v, evaluations).selected # 0 => Granted(w, op, Resolved(p.id, v, evaluations), dryRun)
         /\ \A E \in SUBSET Accepted(evaluations) :
              E # {} => Granted(w, op, Selecting(Resolved(p.id, v, evaluations), Best(evaluations, E)), dryRun)
<1>1. \A E \in SUBSET Accepted(evaluations) : E # {} => Best(evaluations, E) \in E
  BY BestIsAccepted
<1>2. evaluations = [i \in DOMAIN p.sources |-> Evaluate(w, p, p.sources[i], op, opts, dryRun)]
  BY DEF Evaluations
<1>3. ASSUME NEW k \in Accepted(evaluations), NEW g, g.error = "", g.id = p.id, g.version = v,
             g.evaluations = evaluations, g.selected = k
      PROVE  Granted(w, op, g, dryRun)
  BY <1>2, <1>3, AcceptedIsGranted
<1>4. ASSUME NEW r, r = Resolved(p.id, v, evaluations), r.selected # 0 PROVE Granted(w, op, r, dryRun)
  <2>1. /\ r.error = "" /\ r.id = p.id /\ r.version = v /\ r.evaluations = evaluations
        /\ r.selected = Choice(evaluations, Accepted(evaluations))
    BY <1>4, Zenon DEF Resolved
  <2>2. Accepted(evaluations) # {} /\ r.selected = Best(evaluations, Accepted(evaluations))
    BY <1>4, <2>1 DEF Choice
  <2>3. r.selected \in Accepted(evaluations)
    BY <1>1, <2>2
  <2> QED
    BY <1>3, <2>1, <2>3
<1>5. ASSUME NEW E \in SUBSET Accepted(evaluations), E # {}, NEW g,
             g = Selecting(Resolved(p.id, v, evaluations), Best(evaluations, E))
      PROVE  Granted(w, op, g, dryRun)
  <2>1. Best(evaluations, E) \in Accepted(evaluations)
    BY <1>1, <1>5
  <2>2. g.error = "" /\ g.id = p.id /\ g.version = v /\ g.evaluations = evaluations /\ g.selected = Best(evaluations, E)
    BY <1>5, Zenon DEF Selecting, Resolved
  <2> QED
    BY <1>3, <2>1, <2>2
<1> QED
  BY <1>4, <1>5, Zenon

\* What Resolve selects is granted, and so is the best of any of the sources it accepts.
LEMMA ResolveGrants ==
  ASSUME NEW w, Loaded(w), NEW name, NEW op \in {"install", "upgrade", "repair", "remove"},
         NEW via, NEW scope, NEW channel, NEW version, Typed(version), NEW dryRun, NEW r,
         Resolve(w, name, op, Request(via, scope, channel, version), dryRun).error = "",
         r = Resolve(w, name, op, Request(via, scope, channel, version), dryRun)
  PROVE  /\ r.selected # 0 => Granted(w, op, r, dryRun)
         /\ \A E \in SUBSET Accepted(r.evaluations) :
              E # {} => Granted(w, op, Selecting(r, Best(r.evaluations, E)), dryRun)
<1> DEFINE Opts(v) == Request(via, scope, channel, v)
<1>0. PICK p \in Range(w.catalog.packages) : \E v :
           /\ v = EffectiveVersion(w, p.id, op, Request(via, scope, channel, version))
           /\ r = Resolved(p.id, v, Evaluations(w, p, op, Request(via, scope, channel, v), dryRun))
  <2>1. OfThePackage(w, name, op, via, scope, channel, version, dryRun, r)
    BY ResolutionIs
  <2> QED
    BY <2>1, Zenon DEF OfThePackage
<1>1. PICK v :
           /\ v = EffectiveVersion(w, p.id, op, Request(via, scope, channel, version))
           /\ r = Resolved(p.id, v, Evaluations(w, p, op, Request(via, scope, channel, v), dryRun))
  BY <1>0, Zenon
<1>2. v = EffectiveVersion(w, p.id, op, Opts(version)) /\ r = Resolved(p.id, v, Evaluations(w, p, op, Opts(v), dryRun))
  BY <1>1, Zenon
<1>3. /\ Typed(v)
      /\ op # "remove" /\ IsInstalled(w, p.id) /\ w.installed[p.id].pinned # NoVersion => v # NoVersion
  BY <1>2, EffectiveIs, Zenon
<1>4. Opts(v).version = v
  BY DEF Request
<1> DEFINE evaluations == Evaluations(w, p, op, Opts(v), dryRun)
<1>5. /\ Resolved(p.id, v, evaluations).selected # 0 => Granted(w, op, Resolved(p.id, v, evaluations), dryRun)
      /\ \A E \in SUBSET Accepted(evaluations) :
           E # {} => Granted(w, op, Selecting(Resolved(p.id, v, evaluations), Best(evaluations, E)), dryRun)
  BY <1>3, <1>4, SelectionGrants, Zenon
<1>6. Resolved(p.id, v, evaluations).evaluations = evaluations
  BY Zenon DEF Resolved
<1>7. r = Resolved(p.id, v, evaluations) /\ r.evaluations = evaluations
  BY <1>2, <1>6, Zenon
<1> HIDE DEF evaluations, Opts
<1> QED
  BY <1>5, <1>7, Zenon

-----------------------------------------------------------------------------
(* Bundles *)

\* What is scheduled is granted.
Permissible(w, dryRun, o) ==
  o.op \in {"install", "upgrade", "repair", "remove"} /\ Granted(w, o.op, o.resolution, dryRun)

\* The entry of a lock is of a source in the catalog, and tells what is installed.
EntryOf(id, state, source, backend, native, version, scope, channel, features, conflict, material, explanation, observed) ==
  [id |-> id, state |-> state, source |-> source, backend |-> backend, native |-> native,
   version |-> version, scope |-> scope, channel |-> channel, features |-> features,
   conflict |-> conflict, material |-> material, explanation |-> explanation, observed |-> observed]
Truthful(w, e) ==
  /\ e = EntryOf(e.id, e.state, e.source, e.backend, e.native, e.version, e.scope, e.channel, e.features,
                 e.conflict, e.material, e.explanation, e.observed)
  /\ \E p \in Range(w.catalog.packages) : \E s \in Range(p.sources) :
       e.id = p.id /\ e.source = s.id /\ e.backend = s.backend /\ e.native = s.native /\ e.material = Material(s)
  /\ e.observed = IF IsInstalled(w, e.id) THEN w.installed[e.id].version ELSE NoVersion
Covers(e, o) == e.id = Id(o) /\ e.source = Selected(o.resolution).id

\* What becomes of some intents is as it should be, or an error.
Good(w, dryRun, x) ==
  x.error = "" =>
    /\ Listed(x.ops) /\ Listed(x.entries)
    /\ \A o \in Range(x.ops) : Permissible(w, dryRun, o)
    /\ \A o \in Range(x.ops) : o.own => \E e \in Range(x.entries) : Covers(e, o)
    /\ \A e \in Range(x.entries) : Truthful(w, e)

IsEntry(e, id, state, source, backend, native, version, scope, channel, features, conflict, material, explanation, observed) ==
  /\ e.id = id /\ e.state = state /\ e.source = source /\ e.backend = backend /\ e.native = native
  /\ e.version = version /\ e.scope = scope /\ e.channel = channel /\ e.features = features
  /\ e.conflict = conflict /\ e.material = material /\ e.explanation = explanation /\ e.observed = observed

LEMMA EntryIs ==
  ASSUME NEW id, NEW state, NEW source, NEW backend, NEW native, NEW version, NEW scope, NEW channel, NEW features,
         NEW conflict, NEW material, NEW explanation, NEW observed
  PROVE  IsEntry(EntryOf(id, state, source, backend, native, version, scope, channel, features, conflict, material,
                         explanation, observed),
                 id, state, source, backend, native, version, scope, channel, features, conflict, material,
                 explanation, observed)
BY DEF EntryOf, IsEntry

LEMMA LockedIsTruthful ==
  ASSUME NEW w, NEW i, NEW op, NEW r, NEW dryRun, Granted(w, op, r, dryRun), NEW e, e = Locked(w, i, r, Selected(r))
  PROVE  Truthful(w, e) /\ e.id = r.id /\ e.source = Selected(r).id
<1> DEFINE s == Selected(r)
           observed == IF IsInstalled(w, r.id) THEN w.installed[r.id].version ELSE NoVersion
<1>1. e = EntryOf(r.id, i.state, s.id, s.backend, s.native, i.version, i.scope, i.channel, Range(i.features),
                  i.conflict, Material(s), r.evaluations, observed)
  BY Zenon DEF Locked, EntryOf
<1>2. PICK p \in Range(w.catalog.packages) : p.id = r.id /\ s \in Range(p.sources)
  BY Zenon DEF Granted
<1> HIDE DEF s, observed
<1>3. /\ e.id = r.id /\ e.state = i.state /\ e.source = s.id /\ e.backend = s.backend /\ e.native = s.native
      /\ e.version = i.version /\ e.scope = i.scope /\ e.channel = i.channel /\ e.features = Range(i.features)
      /\ e.conflict = i.conflict /\ e.material = Material(s) /\ e.explanation = r.evaluations /\ e.observed = observed
  <2>1. IsEntry(e, r.id, i.state, s.id, s.backend, s.native, i.version, i.scope, i.channel, Range(i.features),
                i.conflict, Material(s), r.evaluations, observed)
    BY <1>1, EntryIs, Zenon
  <2> QED
    BY <2>1, Zenon DEF IsEntry
<1>4. e = EntryOf(e.id, e.state, e.source, e.backend, e.native, e.version, e.scope, e.channel, e.features,
                  e.conflict, e.material, e.explanation, e.observed)
  BY <1>1, <1>3, Zenon
<1>5. e.observed = IF IsInstalled(w, e.id) THEN w.installed[e.id].version ELSE NoVersion
  BY <1>3 DEF observed
<1>6. \E q \in Range(w.catalog.packages) : \E t \in Range(q.sources) :
        e.id = q.id /\ e.source = t.id /\ e.backend = t.backend /\ e.native = t.native /\ e.material = Material(t)
  BY <1>2, <1>3
<1>7. Truthful(w, e)
  BY <1>4, <1>5, <1>6, Zenon DEF Truthful
<1> QED
  BY <1>3, <1>7 DEF s

LEMMA NothingIsGood ==
  ASSUME NEW w, NEW dryRun
  PROVE  Good(w, dryRun, Nothing) /\ \A error : error # "" => Good(w, dryRun, Outcome(error, <<>>, <<>>))
<1>1. Listed(<<>>) /\ Range(<<>>) = {}
  BY DEF Listed, Range
<1>2. ASSUME NEW x, x.error = "" => x.ops = <<>> /\ x.entries = <<>> PROVE Good(w, dryRun, x)
  BY <1>1, <1>2 DEF Good
<1>3. Nothing.error = "" /\ Nothing.ops = <<>> /\ Nothing.entries = <<>>
  BY DEF Nothing, Outcome
<1>4. ASSUME NEW error, error # "" PROVE Good(w, dryRun, Outcome(error, <<>>, <<>>))
  <2>1. Outcome(error, <<>>, <<>>).error = error
    BY DEF Outcome
  <2> QED
    BY <1>4, <2>1 DEF Good
<1>5. Good(w, dryRun, Nothing)
  BY <1>2, <1>3
<1> QED
  BY <1>4, <1>5

\* A finite set can be listed.
LEMMA ListOfSet ==
  ASSUME NEW S, IsFiniteSet(S)
  PROVE  SetToSeq(S) \in Seq(S)
<1>1. PICK n \in Nat : n = Cardinality(S) /\ ExistsBijection(1..n, S)
  BY FS_CardinalityType
<1>2. \E f \in [1..n -> S] : IsInjective(f)
  BY <1>1 DEF ExistsBijection, Bijection, Injection
<1>3. SetToSeq(S) \in [1..n -> S]
  BY <1>1, <1>2 DEF SetToSeq
<1> QED
  BY <1>1, <1>3

LEMMA FunctionIsListed ==
  ASSUME NEW n \in Nat, NEW s, s = [k \in DOMAIN s |-> s[k]], DOMAIN s = 1..n
  PROVE  Listed(s)
BY DEF Listed, Range

\* Removals that are all resolved.
Clearing(w, dryRun, removals) ==
  Listed(removals) /\ \A o \in Range(removals) : Permissible(w, dryRun, o) /\ ~o.own

LEMMA RemovalsAreGood ==
  ASSUME NEW w, Loaded(w), NEW S, NEW going \in Seq(S), NEW dryRun,
         NEW removals, removals = Removals(w, going, dryRun),
         \A k \in DOMAIN removals : removals[k].resolution.error = "" /\ removals[k].resolution.selected # 0
  PROVE  Clearing(w, dryRun, removals)
<1>1. DOMAIN removals = DOMAIN going
  BY DEF Removals
<1>2. DOMAIN going = 1..Len(going) /\ Len(going) \in Nat
  BY PlacesCount, Zenon
<1>3. Listed(removals)
  <2>1. removals = [k \in DOMAIN removals |-> removals[k]]
    BY Zenon DEF Removals
  <2> QED
    BY <1>1, <1>2, <2>1, FunctionIsListed
<1>4. ASSUME NEW k \in DOMAIN removals PROVE Permissible(w, dryRun, removals[k]) /\ ~removals[k].own
  <2> DEFINE o == removals[k]
             mine == w.installed[going[k]]
             r == Resolve(w, going[k], "remove", Request(mine.backend, mine.scope, "stable", NoVersion), dryRun)
  <2>1. o = [op |-> "remove", own |-> FALSE, for |-> going[k], resolution |-> RemovalOf(w, going[k], dryRun)]
    BY <1>1, Zenon DEF Removals
  <2>2. o.error = o.error /\ o.resolution.error = "" /\ o.resolution.selected # 0
    OBVIOUS
  <2> HIDE DEF o
  <2>3. o.op = "remove" /\ o.resolution = RemovalOf(w, going[k], dryRun)
    BY <2>1
  <2>4. ~o.own
    BY <2>1, Zenon
  <2>5. RemovalOf(w, going[k], dryRun) = r
    BY DEF RemovalOf
  <2>6. o.resolution = r /\ r.error = "" /\ r.selected # 0
    BY <2>2, <2>3, <2>5
  <2> HIDE DEF r
  <2>7. Granted(w, "remove", r, dryRun)
    <3>1. Typed(NoVersion)
      BY DEF Typed
    <3> QED
      BY <2>6, <3>1, ResolveGrants DEF r
  <2>8. Permissible(w, dryRun, o)
    BY <2>3, <2>6, <2>7 DEF Permissible
  <2> QED
    BY <2>4, <2>8 DEF o
<1> QED
  BY <1>3, <1>4 DEF Clearing, Range

LEMMA ChosenIsGood ==
  ASSUME NEW w, NEW i, NEW dryRun, NEW removals, Clearing(w, dryRun, removals), NEW r,
         Granted(w, Operation(i.state), r, dryRun)
  PROVE  Good(w, dryRun, Chosen(w, i, removals, r))
<1> DEFINE e == Locked(w, i, r, Selected(r))
           o == [op |-> Operation(i.state), own |-> TRUE, for |-> i.id, resolution |-> r]
           x == Chosen(w, i, removals, r)
           X == Range(removals) \union {o}
<1>1. Truthful(w, e) /\ e.id = r.id /\ e.source = Selected(r).id
  BY LockedIsTruthful
<1>2. o.op = Operation(i.state) /\ o.resolution = r
  OBVIOUS
<1>3. Operation(i.state) \in {"install", "remove"}
  BY DEF Operation
<1>4. x.ops = Append(removals, o) /\ x.entries = <<e>>
  BY DEF Chosen, Outcome
<1> HIDE DEF e, o, x
<1>5. Permissible(w, dryRun, o)
  BY <1>2, <1>3 DEF Permissible
<1>6. Covers(e, o)
  BY <1>1, <1>2 DEF Covers, Id
<1>7. removals \in Seq(X) /\ o \in X
  BY DEF Clearing, Listed
<1> HIDE DEF X
<1>8. Append(removals, o) \in Seq(X) /\ Range(Append(removals, o)) = Range(removals) \union {o}
  BY <1>7, RangeOfAppend
<1>9. Listed(x.ops) /\ Range(x.ops) = Range(removals) \union {o}
  BY <1>4, <1>7, <1>8 DEF Listed, Clearing, X
<1>10. Listed(x.entries) /\ Range(x.entries) = {e}
  BY <1>4 DEF Listed, Range
<1>11. \A q \in Range(x.ops) : Permissible(w, dryRun, q)
  BY <1>5, <1>9 DEF Clearing
<1>12. \A q \in Range(x.ops) : q.own => \E f \in Range(x.entries) : Covers(f, q)
  BY <1>6, <1>9, <1>10, Zenon DEF Clearing
<1>13. \A f \in Range(x.entries) : Truthful(w, f)
  BY <1>1, <1>10
<1> QED
  BY <1>9, <1>10, <1>11, <1>12, <1>13 DEF Good, x

\* An intent, after the removals that make room for it.
LEMMA OwnIsGood ==
  ASSUME NEW w, Loaded(w), NEW i, Typed(i.version), NEW dryRun, NEW removals, Clearing(w, dryRun, removals)
  PROVE  Good(w, dryRun, OwnOutcome(w, i, removals, dryRun))
<1> DEFINE op == Operation(i.state)
           r == Resolve(w, i.id, op, Request(Anything, i.scope, i.channel, i.version), dryRun)
           among == Permitted(i, r)
           chosen == Selecting(r, Best(r.evaluations, among))
           x == Settle(w, i, removals, r, among)
<1>1. OwnOutcome(w, i, removals, dryRun) = x
  BY DEF OwnOutcome, SettleAmong
<1>2. op \in {"install", "upgrade", "repair", "remove"}
  BY DEF Operation
<1>3. among \in SUBSET Accepted(r.evaluations)
  BY DEF Permitted, Accepted
<1>4. ASSUME r.error = "", among # {} PROVE Good(w, dryRun, Chosen(w, i, removals, chosen))
  <2>1. Granted(w, op, chosen, dryRun)
    BY <1>2, <1>3, <1>4, ResolveGrants
  <2> HIDE DEF chosen
  <2> QED
    BY <2>1, ChosenIsGood
<1>5. Good(w, dryRun, Outcome("", removals, <<>>))
  <2> DEFINE y == Outcome("", removals, <<>>)
  <2>1. y.ops = removals /\ y.entries = <<>>
    BY DEF Outcome
  <2> HIDE DEF y
  <2>2. Listed(y.entries) /\ Range(y.entries) = {}
    BY <2>1 DEF Listed, Range
  <2>3. Good(w, dryRun, y)
    BY <2>1, <2>2, Zenon DEF Good, Clearing
  <2> QED
    BY <2>3 DEF y
<1> HIDE DEF r, among, chosen
<1>6. ASSUME r.error # "" PROVE Good(w, dryRun, x)
  <2>1. x = Outcome(r.error, <<>>, <<>>)
    BY <1>6, Zenon DEF Settle
  <2>2. Good(w, dryRun, Outcome(r.error, <<>>, <<>>))
    BY <1>6, NothingIsGood, Zenon
  <2> QED
    BY <2>1, <2>2, Zenon
<1>7. ASSUME r.error = "", among = {}, i.optional PROVE Good(w, dryRun, x)
  <2>1. x = Outcome("", removals, <<>>)
    BY <1>7, Zenon DEF Settle
  <2> QED
    BY <1>5, <2>1, Zenon
<1>8. ASSUME r.error = "", among = {}, ~i.optional PROVE Good(w, dryRun, x)
  <2>1. x = Outcome("no_candidate", <<>>, <<>>)
    BY <1>8, Zenon DEF Settle
  <2>2. Good(w, dryRun, Outcome("no_candidate", <<>>, <<>>))
    BY NothingIsGood
  <2> QED
    BY <2>1, <2>2, Zenon
<1>9. ASSUME r.error = "", among # {} PROVE Good(w, dryRun, x)
  <2>1. x = Chosen(w, i, removals, chosen)
    BY <1>9, Zenon DEF Settle, chosen
  <2> QED
    BY <1>4, <1>9, <2>1, Zenon
<1>10. Good(w, dryRun, x)
  BY <1>6, <1>7, <1>8, <1>9, Zenon
<1> QED
  BY <1>1, <1>10, Zenon

LEMMA IntentIsGood ==
  ASSUME NEW w, Loaded(w), NEW i, Typed(i.version), NEW skipped, NEW scheduled, NEW dryRun
  PROVE  Good(w, dryRun, IntentOutcome(w, i, skipped, scheduled, dryRun))
<1> DEFINE S == InstalledConflicts(w, i) \ scheduled
           removals == Removals(w, SetToSeq(S), dryRun)
           x == IntentOutcome(w, i, skipped, scheduled, dryRun)
<1>1. \A error : error # "" => Good(w, dryRun, Outcome(error, <<>>, <<>>))
  BY NothingIsGood
<1>2. Good(w, dryRun, Nothing)
  BY NothingIsGood
<1>3. ASSUME Known(w.catalog, i.id) PROVE Good(w, dryRun, MakingRoom(w, i, removals, dryRun))
  <2>1. Manifest(w.catalog, i.id) \in Range(w.catalog.packages)
    BY <1>3, ManifestIsOne DEF Loaded
  <2>2. IsFiniteSet(Manifest(w.catalog, i.id).conflicts)
    BY <2>1, CatalogsAssumption DEF Loaded
  <2>3. S \subseteq Manifest(w.catalog, i.id).conflicts
    BY DEF InstalledConflicts
  <2>4. SetToSeq(S) \in Seq(S)
    BY <2>2, <2>3, FS_Subset, ListOfSet
  <2> DEFINE failed == \E k \in DOMAIN removals : removals[k].resolution.error # "" \/ removals[k].resolution.selected = 0
  <2>5. MakingRoom(w, i, removals, dryRun) =
          IF failed THEN Outcome("no_candidate", <<>>, <<>>) ELSE OwnOutcome(w, i, removals, dryRun)
    BY DEF MakingRoom
  <2>6. CASE failed
    <3>1. Good(w, dryRun, Outcome("no_candidate", <<>>, <<>>))
      BY <1>1
    <3> QED
      BY <2>5, <2>6, <3>1
  <2>7. CASE ~failed
    <3>1. Clearing(w, dryRun, removals)
      BY <2>4, <2>7, RemovalsAreGood
    <3> HIDE DEF removals
    <3>2. Good(w, dryRun, OwnOutcome(w, i, removals, dryRun))
      BY <3>1, OwnIsGood
    <3> QED
      BY <2>5, <2>7, <3>2
  <2> QED
    BY <2>6, <2>7
<1> DEFINE left == i.id \in skipped \/ (i.platforms # {} /\ w.platform.os \notin i.platforms)
           unknown == Outcome(Lookup(w.catalog, i.id).found, <<>>, <<>>)
           refused == Outcome("conflict.detected", <<>>, <<>>)
           room == MakingRoom(w, i, removals, dryRun)
<1>4. x = Nothing \/ (~Known(w.catalog, i.id) /\ x = unknown) \/ x = refused \/ (Known(w.catalog, i.id) /\ x = room)
  BY Zenon DEF IntentOutcome
<1>5. Good(w, dryRun, unknown)
  BY <1>1, LookupSaysWhy, Zenon
<1>6. Good(w, dryRun, refused)
  BY <1>1
<1> HIDE DEF x, unknown, refused, room
<1>7. Good(w, dryRun, x)
  BY <1>2, <1>3, <1>4, <1>5, <1>6, Zenon DEF room
<1> QED
  BY <1>7 DEF x

LEMMA ListsJoin ==
  ASSUME NEW s, NEW t, Listed(s), Listed(t)
  PROVE  Listed(s \o t) /\ Range(s \o t) = Range(s) \union Range(t)
<1> DEFINE X == Range(s) \union Range(t)
<1>1. s \in Seq(X) /\ t \in Seq(X)
  BY DEF Listed
<1> HIDE DEF X
<1>2. s \o t \in Seq(X) /\ Range(s \o t) = Range(s) \union Range(t)
  BY <1>1, RangeOfConcat
<1> QED
  BY <1>2 DEF Listed, X

\* One intent after the others.
LEMMA FurtherIsGood ==
  ASSUME NEW w, Loaded(w), NEW i, Typed(i.version), NEW skipped, NEW dryRun,
         NEW before, Good(w, dryRun, before)
  PROVE  Good(w, dryRun, Further(w, i, skipped, before, dryRun))
<1> DEFINE outcome == IntentOutcome(w, i, skipped, Scheduled(before), dryRun)
           x == Following(before, outcome)
           X == Range(before.ops) \union Range(outcome.ops)
           E == Range(before.entries) \union Range(outcome.entries)
<1>1. Good(w, dryRun, outcome)
  BY IntentIsGood
<1>2. x.error = outcome.error /\ x.ops = before.ops \o outcome.ops /\ x.entries = before.entries \o outcome.entries
  BY DEF Following, Outcome
<1> HIDE DEF x, outcome
<1>3. ASSUME before.error = "", x.error = "" PROVE Good(w, dryRun, x)
  <2>1. Listed(before.ops) /\ Listed(before.entries) /\ Listed(outcome.ops) /\ Listed(outcome.entries)
    BY <1>1, <1>2, <1>3, Zenon DEF Good
  <2>2. Listed(x.ops) /\ Range(x.ops) = X
    BY <1>2, <2>1, ListsJoin DEF X
  <2>3. Listed(x.entries) /\ Range(x.entries) = E
    BY <1>2, <2>1, ListsJoin DEF E
  <2>5. \A o \in Range(x.ops) : Permissible(w, dryRun, o) /\ (o.own => \E e \in Range(x.entries) : Covers(e, o))
    BY <1>1, <1>2, <1>3, <2>2, <2>3, Zenon DEF Good, X, E
  <2>6. \A e \in Range(x.entries) : Truthful(w, e)
    BY <1>1, <1>2, <1>3, <2>3, Zenon DEF Good, E
  <2> QED
    BY <2>2, <2>3, <2>5, <2>6, Zenon DEF Good
<1>4. CASE before.error # ""
  BY <1>4, Zenon DEF Further
<1>5. ASSUME before.error = "" PROVE Good(w, dryRun, x)
  BY <1>3, <1>5, Zenon DEF Good
<1>6. CASE before.error = ""
  BY <1>5, <1>6, Zenon DEF Further, x, outcome
<1> QED
  BY <1>4, <1>6

GatherAt(w, intents, skipped, dryRun, f, n) ==
  IF n = 0 THEN Nothing ELSE Further(w, intents[n], skipped, f[n - 1], dryRun)

\* There is such a function on the numbers up to N.
LEMMA GatherExists ==
  ASSUME NEW w, NEW intents, NEW skipped, NEW dryRun, NEW N \in Nat
  PROVE  \E f : f = [n \in 0..N |-> GatherAt(w, intents, skipped, dryRun, f, n)]
<1> DEFINE Bad == {m \in Nat : ~ \E f : f = [n \in 0..m |-> GatherAt(w, intents, skipped, dryRun, f, n)]}
<1>1. SUFFICES ASSUME Bad # {} PROVE FALSE
  OBVIOUS
<1>2. PICK m \in Bad : \A k \in Bad : m <= k
  BY <1>1, Least
<1>3. m # 0
  <2> DEFINE f == [n \in 0..0 |-> Nothing]
  <2>1. f = [n \in 0..0 |-> GatherAt(w, intents, skipped, dryRun, f, n)]
    BY DEF GatherAt
  <2> QED
    BY <1>2, <2>1
<1>4. m - 1 \in Nat /\ m - 1 \notin Bad
  BY <1>2, <1>3
<1>5. PICK g : g = [n \in 0..(m - 1) |-> GatherAt(w, intents, skipped, dryRun, g, n)]
  BY <1>4
<1> DEFINE f == [n \in 0..m |-> IF n = m THEN GatherAt(w, intents, skipped, dryRun, g, m) ELSE g[n]]
<1>6. f = [n \in 0..m |-> GatherAt(w, intents, skipped, dryRun, f, n)]
  <2>1. SUFFICES ASSUME NEW n \in 0..m PROVE f[n] = GatherAt(w, intents, skipped, dryRun, f, n)
    OBVIOUS
  <2>2. n # 0 => f[n - 1] = g[n - 1]
    BY <1>4
  <2>3. CASE n = m
    BY <1>3, <1>4, <2>2, <2>3 DEF GatherAt
  <2>4. CASE n # m
    <3>1. n \in 0..(m - 1) /\ f[n] = g[n]
      BY <1>4, <2>4
    <3>2. g[n] = GatherAt(w, intents, skipped, dryRun, g, n)
      BY <1>5, <3>1
    <3> QED
      BY <2>2, <3>1, <3>2 DEF GatherAt
  <2> QED
    BY <2>3, <2>4
<1> QED
  BY <1>2, <1>6

\* Gather is its value at the number of the intents.
LEMMA GatherUnfolds ==
  ASSUME NEW w, NEW intents, NEW skipped, NEW dryRun, Len(intents) \in Nat
  PROVE  \E f : /\ f = [n \in 0..Len(intents) |-> GatherAt(w, intents, skipped, dryRun, f, n)]
                /\ Gather(w, intents, skipped, dryRun) = f[Len(intents)]
<1> DEFINE f == CHOOSE f : f = [n \in 0..Len(intents) |-> IF n = 0 THEN Nothing
                                                        ELSE Further(w, intents[n], skipped, f[n - 1], dryRun)]
<1>1. Gather(w, intents, skipped, dryRun) = f[Len(intents)]
  BY DEF Gather
<1>2. \E h : h = [n \in 0..Len(intents) |-> GatherAt(w, intents, skipped, dryRun, h, n)]
  BY GatherExists
<1>3. \E h : h = [n \in 0..Len(intents) |-> IF n = 0 THEN Nothing
                                            ELSE Further(w, intents[n], skipped, h[n - 1], dryRun)]
  BY <1>2 DEF GatherAt
<1>4. f = [n \in 0..Len(intents) |-> IF n = 0 THEN Nothing ELSE Further(w, intents[n], skipped, f[n - 1], dryRun)]
  BY <1>3
<1> HIDE DEF f
<1> QED
  BY <1>1, <1>4 DEF GatherAt

LEMMA GatherIsGood ==
  ASSUME NEW w, Loaded(w), NEW intents, Listed(intents), \A i \in Range(intents) : Typed(i.version),
         NEW skipped, NEW dryRun
  PROVE  Good(w, dryRun, Gather(w, intents, skipped, dryRun))
<1>1. Len(intents) \in Nat /\ DOMAIN intents = 1..Len(intents)
  BY PlacesCount, Zenon DEF Listed
<1>2. PICK f : /\ f = [n \in 0..Len(intents) |-> GatherAt(w, intents, skipped, dryRun, f, n)]
               /\ Gather(w, intents, skipped, dryRun) = f[Len(intents)]
  BY <1>1, GatherUnfolds
<1>3. \A n \in 0..Len(intents) : f[n] = GatherAt(w, intents, skipped, dryRun, f, n)
  BY <1>2
<1> DEFINE Fine(n) == Good(w, dryRun, f[n])
           Bad == {n \in 0..Len(intents) : ~Fine(n)}
<1>4. Fine(0)
  <2>1. f[0] = Nothing
    BY <1>1, <1>3 DEF GatherAt
  <2>2. Good(w, dryRun, Nothing)
    BY NothingIsGood, Zenon
  <2> QED
    BY <2>1, <2>2
<1>5. ASSUME NEW n \in 1..Len(intents), Fine(n - 1) PROVE Fine(n)
  <2>1. f[n] = Further(w, intents[n], skipped, f[n - 1], dryRun)
    BY <1>1, <1>3 DEF GatherAt
  <2>2. Typed(intents[n].version)
    BY <1>1 DEF Range
  <2> QED
    BY <1>5, <2>1, <2>2, FurtherIsGood
<1>6. Bad \subseteq Nat /\ \A n \in 0..Len(intents) : n \notin Bad => Fine(n)
  OBVIOUS
<1>7. \A n \in Bad : n \in 0..Len(intents) /\ ~Fine(n)
  OBVIOUS
<1> HIDE DEF Fine, Bad
<1>8. ASSUME Bad # {} PROVE FALSE
  <2>1. PICK m \in Bad : \A k \in Bad : m <= k
    BY <1>6, <1>8, Least
  <2>2. m \in 0..Len(intents) /\ ~Fine(m) /\ m # 0
    BY <1>4, <1>7, <2>1
  <2>3. m \in 1..Len(intents) /\ m - 1 \in 0..Len(intents) /\ m - 1 \notin Bad
    BY <1>1, <1>7, <2>1, <2>2
  <2> QED
    BY <1>5, <1>6, <2>2, <2>3
<1>9. Fine(Len(intents))
  BY <1>1, <1>6, <1>8
<1> QED
  BY <1>2, <1>9 DEF Fine

\* A bundle that is resolved, and what its intents come to.
ComesTo(w, b, profile, dryRun, all, x) ==
  /\ Good(w, dryRun, all) /\ all.error = ""
  /\ x.error = "" /\ x.ops = all.ops /\ x.lock = LockOf(w, b, profile, all.entries)
  /\ Range(b.references) \subseteq LayerIds(w.layers)

LEMMA IntentsAreListed ==
  ASSUME NEW b \in Bundles, NEW profile
  PROVE  /\ Listed(Intents(b, profile)) /\ Range(Intents(b, profile)) \subseteq Range(b.packages)
         /\ \A i \in Range(Intents(b, profile)) : Typed(i.version)
<1> DEFINE places == {k \in DOMAIN b.packages : b.packages[k].id \in Members(b, profile)}
<1>1. b.packages \in Seq(Range(b.packages)) /\ \A i \in Range(b.packages) : Typed(i.version)
  BY IntentsAssumption DEF Listed, Typed
<1>2. CASE profile = NoProfile
  BY <1>1, <1>2, Zenon DEF Intents, Listed
<1>3. CASE profile # NoProfile
  <2>1. Intents(b, profile) = Kept(b.packages, places)
    BY <1>3, Zenon DEF Intents
  <2> HIDE DEF places
  <2> DEFINE kept == Kept(b.packages, places)
  <2>2. kept \in Seq(Range(b.packages)) /\ Range(kept) = {b.packages[i] : i \in places \intersect DOMAIN b.packages}
    BY <1>1, KeptIs
  <2> HIDE DEF kept
  <2>3. Range(kept) \subseteq Range(b.packages)
    BY <2>2 DEF Range
  <2>4. Listed(kept)
    BY <2>2 DEF Listed, Range
  <2> QED
    BY <1>1, <2>1, <2>3, <2>4 DEF kept
<1> QED
  BY <1>2, <1>3

LEMMA BundleResolves ==
  ASSUME NEW w, Loaded(w), NEW b \in Bundles, NEW profile, NEW dryRun, ResolveBundle(w, b, profile, dryRun).error = ""
  PROVE  ComesTo(w, b, profile, dryRun, Gather(w, Intents(b, profile), Skipped(w, Intents(b, profile)), dryRun),
                 ResolveBundle(w, b, profile, dryRun))
<1> DEFINE intents == Intents(b, profile)
           all == Gather(w, intents, Skipped(w, intents), dryRun)
           x == ResolveBundle(w, b, profile, dryRun)
<1>1. \A error : Refused(error).error = error
  BY DEF Refused
<1>2. x = Resolution(w, b, profile, all) /\ Range(b.references) \subseteq LayerIds(w.layers)
  <2> DEFINE unknown == \E i \in {k \in Range(intents) : k.state = "present"} : ~Known(w.catalog, i.id)
             gone == profile # NoProfile /\ profile \notin DOMAIN b.profiles
             named == Range(b.references) \subseteq LayerIds(w.layers)
             resolution == Resolution(w, b, profile, all)
  <2>1. x = IF ~ValidBundle(b) THEN Refused("invalid")
            ELSE IF ~named THEN Refused("policy_reference.missing")
            ELSE IF gone THEN Refused("profile.missing")
            ELSE IF unknown THEN Refused("package.missing")
            ELSE IF Ambiguous(w, intents) THEN Refused("conflict.ambiguous")
            ELSE resolution
    BY Zenon DEF ResolveBundle
  <2>2. x.error = ""
    OBVIOUS
  <2>3. /\ Refused("invalid").error # "" /\ Refused("policy_reference.missing").error # ""
        /\ Refused("profile.missing").error # "" /\ Refused("package.missing").error # ""
        /\ Refused("conflict.ambiguous").error # ""
    BY DEF Refused
  <2> HIDE DEF x, unknown, gone, named, resolution
  <2>4. x = resolution /\ named
    BY <2>1, <2>2, <2>3, Zenon
  <2> QED
    BY <2>4, Zenon DEF resolution, named
<1>3. Good(w, dryRun, all)
  BY IntentsAreListed, GatherIsGood
<1>4. x.error = ""
  OBVIOUS
<1> HIDE DEF x, all
<1>5. all.error = "" /\ x = [error |-> "", lock |-> LockOf(w, b, profile, all.entries), ops |-> all.ops]
  BY <1>1, <1>2, <1>4 DEF Resolution
<1>6. x.ops = all.ops /\ x.lock = LockOf(w, b, profile, all.entries)
  BY <1>5
<1>7. ComesTo(w, b, profile, dryRun, all, x)
  BY <1>2, <1>3, <1>4, <1>5, <1>6, Zenon DEF ComesTo
<1> QED
  BY <1>7 DEF x, all

\* The entries of a lock are those it was made of.
LEMMA EntriesAre ==
  ASSUME NEW w, NEW b, NEW profile, NEW entries, Listed(entries)
  PROVE  Entries(LockOf(w, b, profile, entries)) = Range(entries)
<1> DEFINE lock == LockOf(w, b, profile, entries)
           ids == {entries[k].id : k \in DOMAIN entries}
           places(id) == {k \in DOMAIN entries : entries[k].id = id}
<1>1. lock.packages = Sorted(entries)
  BY DEF LockOf
<1>2. Sorted(entries) = [id \in ids |-> Kept(entries, places(id))]
  BY DEF Sorted
<1>3. \A id : Range(Kept(entries, places(id))) = {entries[k] : k \in places(id) \intersect DOMAIN entries}
  BY KeptIs DEF Listed
<1> HIDE DEF lock
<1>4. DOMAIN lock.packages = ids /\ \A id \in ids : lock.packages[id] = Kept(entries, places(id))
  BY <1>1, <1>2
<1>5. \A id \in ids : Range(lock.packages[id]) = {entries[k] : k \in places(id)}
  BY <1>3, <1>4
<1>6. \A e : e \in Entries(lock) <=> \E id \in ids : e \in {entries[k] : k \in places(id)}
  <2>1. \A e : e \in Entries(lock) <=> \E id \in ids : e \in Range(lock.packages[id])
    BY <1>4, Zenon DEF Entries
  <2> QED
    BY <1>5, <2>1
<1>7. \A k \in DOMAIN entries : entries[k].id \in ids /\ k \in places(entries[k].id)
  OBVIOUS
<1>8. \A id \in ids : places(id) \subseteq DOMAIN entries
  OBVIOUS
<1> HIDE DEF ids, places
<1>9. Entries(lock) = Range(entries)
  BY <1>6, <1>7, <1>8 DEF Range
<1> QED
  BY <1>9 DEF lock

-----------------------------------------------------------------------------
(* The command under way *)

\* What is in place can be loaded.
Ready ==
  /\ catalog \in Catalogs /\ files \in PolicyFiles /\ bundle \in Bundles
  /\ \A id \in DOMAIN receipts : receipts[id].version \in VersionTexts
  /\ \A id \in DOMAIN pins : pins[id].text \in Seq(Int)

StateOf(doc, layers, platform, today, installed) ==
  [catalog |-> doc, layers |-> layers, platform |-> platform, day |-> today, installed |-> installed]
Carrying(kind, ops, supplied, lock, base, seen, intent, profile, held, got, calm) ==
  [kind |-> kind, ops |-> ops, supplied |-> supplied, lock |-> lock, base |-> base, seen |-> seen,
   bundle |-> intent, profile |-> profile, holds |-> held, got |-> got, calm |-> calm]
Carried(c) == c = Carrying(c.kind, c.ops, c.supplied, c.lock, c.base, c.seen, c.bundle, c.profile, c.holds, c.got, c.calm)

\* What a command is to do was allowed when it was decided, and is what its lock says.
Decided(c) ==
  /\ Carried(c) /\ Loaded(c.base) /\ Listed(c.ops)
  /\ \A k \in DOMAIN c.ops : Permissible(c.base, FALSE, c.ops[k])
  /\ c.supplied # None =>
       /\ c.lock = c.supplied /\ c.lock.intent = c.bundle
       /\ \A k \in DOMAIN c.ops : c.ops[k].own => \E e \in Entries(c.lock) : Covers(e, c.ops[k])

\* All that was decided is so when it is confirmed.
Confirmed(c) ==
  /\ c.seen = StateOf(c.seen.catalog, c.seen.layers, c.seen.platform, c.seen.day, c.seen.installed)
  /\ c.seen.catalog = c.base.catalog /\ c.seen.layers = c.base.layers /\ c.seen.installed = c.base.installed
  /\ c.supplied # None => ContextStands(c.seen, c.lock) /\ VersionsStand(c.seen, c.lock)

\* The steps of the plan under way that are done left versions to be recorded.
Going ==
  /\ pc = "asked" => at = 1
  /\ Running => \A j \in PlanOf(at) :
       (pc = "receipts" \/ j < at) /\ cmd.ops[j].op # "remove" /\ ~Idle(cmd.ops[j]) =>
         Id(cmd.ops[j]) \in DOMAIN cmd.got /\ cmd.got[Id(cmd.ops[j])] \in VersionTexts
  /\ pc = "receipts" => at + 1 \notin PlanOf(at)

\* The rest of TypeOK.
Typing ==
  /\ ValidDocument(catalog) /\ day \in 0..LastDay
  /\ \A id \in DOMAIN machine : machine[id] \in VersionTexts \union {None}
  /\ holds \subseteq Spellings
  /\ pc \in {"idle", "asked", "run", "receipts", "finish"}
  /\ pc = "idle" => cmd = None
  /\ pc \in {"run", "receipts"} => at \in DOMAIN cmd.ops
  /\ changes \in 0..MaxChanges /\ faults \in 0..MaxFaults /\ commands \in 0..MaxCommands

IInv ==
  /\ Ready /\ Typing /\ Going
  /\ pc # "idle" => Decided(cmd)
  /\ Running => Confirmed(cmd)

LEMMA NowIsLoaded ==
  ASSUME Ready
  PROVE  Loaded(Now) /\ Now.installed = Installed
<1>1. Now.catalog = catalog /\ Now.layers = LayersOf(files) /\ Now.installed = Installed
  BY DEF Now
<1>2. DOMAIN Installed = DOMAIN receipts
  BY DEF Installed
<1>3. ASSUME NEW id \in DOMAIN receipts PROVE Installed[id].version \in VersionTexts /\ Typed(Installed[id].pinned)
  <2> DEFINE mark == IF id \in DOMAIN pins THEN pins[id] ELSE NoVersion
  <2>1. Installed[id].version = receipts[id].version /\ Installed[id].pinned = mark
    BY <1>3 DEF Installed
  <2>2. mark # NoVersion => mark.text \in Seq(Int)
    BY DEF Ready
  <2> QED
    BY <2>1, <2>2 DEF Ready, Typed
<1> QED
  BY <1>1, <1>2, <1>3 DEF Loaded, Ready

\* Of a command only what was seen, what was got and whether it was calm changes.
Same(c, d) ==
  /\ d.kind = c.kind /\ d.ops = c.ops /\ d.supplied = c.supplied /\ d.lock = c.lock /\ d.base = c.base
  /\ d.bundle = c.bundle /\ d.profile = c.profile
IsCommand(c, kind, ops, supplied, lock, base, seen, intent, profile, held, got, calm) ==
  /\ c.kind = kind /\ c.ops = ops /\ c.supplied = supplied /\ c.lock = lock /\ c.base = base /\ c.seen = seen
  /\ c.bundle = intent /\ c.profile = profile /\ c.holds = held /\ c.got = got /\ c.calm = calm /\ Carried(c)

LEMMA CarryingIs ==
  ASSUME NEW kind, NEW ops, NEW supplied, NEW lock, NEW base, NEW seen, NEW intent, NEW profile, NEW held, NEW got, NEW calm
  PROVE  IsCommand(Carrying(kind, ops, supplied, lock, base, seen, intent, profile, held, got, calm),
                   kind, ops, supplied, lock, base, seen, intent, profile, held, got, calm)
<1> DEFINE c == Carrying(kind, ops, supplied, lock, base, seen, intent, profile, held, got, calm)
<1>1. /\ c.kind = kind /\ c.ops = ops /\ c.supplied = supplied /\ c.lock = lock /\ c.base = base /\ c.seen = seen
      /\ c.bundle = intent /\ c.profile = profile /\ c.holds = held /\ c.got = got /\ c.calm = calm
  BY Zenon DEF Carrying
<1>2. c = Carrying(kind, ops, supplied, lock, base, seen, intent, profile, held, got, calm)
  OBVIOUS
<1> HIDE DEF c
<1>3. Carried(c)
  BY <1>1, <1>2, Zenon DEF Carried
<1> QED
  BY <1>1, <1>3, Zenon DEF IsCommand, c

LEMMA CommandSees ==
  ASSUME NEW c, Carried(c), NEW w, NEW d, d = [c EXCEPT !.seen = w]
  PROVE  Carried(d) /\ Same(c, d) /\ d.seen = w /\ d.got = c.got /\ d.calm = c.calm
<1>1. d = Carrying(c.kind, c.ops, c.supplied, c.lock, c.base, w, c.bundle, c.profile, c.holds, c.got, c.calm)
  <2>1. c = Carrying(c.kind, c.ops, c.supplied, c.lock, c.base, c.seen, c.bundle, c.profile, c.holds, c.got, c.calm)
    BY DEF Carried
  <2> QED
    BY <2>1, Zenon DEF Carrying
<1>2. IsCommand(d, c.kind, c.ops, c.supplied, c.lock, c.base, w, c.bundle, c.profile, c.holds, c.got, c.calm)
  <2>1. IsCommand(Carrying(c.kind, c.ops, c.supplied, c.lock, c.base, w, c.bundle, c.profile, c.holds, c.got, c.calm),
                  c.kind, c.ops, c.supplied, c.lock, c.base, w, c.bundle, c.profile, c.holds, c.got, c.calm)
    BY CarryingIs
  <2> QED
    BY <1>1, <2>1, Zenon
<1> QED
  BY <1>2, Zenon DEF IsCommand, Same

LEMMA CommandGets ==
  ASSUME NEW c, Carried(c), NEW got, NEW d, d = [c EXCEPT !.got = got]
  PROVE  Carried(d) /\ Same(c, d) /\ d.seen = c.seen /\ d.got = got /\ d.calm = c.calm
<1>1. d = Carrying(c.kind, c.ops, c.supplied, c.lock, c.base, c.seen, c.bundle, c.profile, c.holds, got, c.calm)
  <2>1. c = Carrying(c.kind, c.ops, c.supplied, c.lock, c.base, c.seen, c.bundle, c.profile, c.holds, c.got, c.calm)
    BY DEF Carried
  <2> QED
    BY <2>1, Zenon DEF Carrying
<1>2. IsCommand(d, c.kind, c.ops, c.supplied, c.lock, c.base, c.seen, c.bundle, c.profile, c.holds, got, c.calm)
  <2>1. IsCommand(Carrying(c.kind, c.ops, c.supplied, c.lock, c.base, c.seen, c.bundle, c.profile, c.holds, got, c.calm),
                  c.kind, c.ops, c.supplied, c.lock, c.base, c.seen, c.bundle, c.profile, c.holds, got, c.calm)
    BY CarryingIs
  <2> QED
    BY <1>1, <2>1, Zenon
<1> QED
  BY <1>2, Zenon DEF IsCommand, Same

LEMMA CommandIsDisturbed ==
  ASSUME NEW c, Carried(c), NEW calm, NEW d, d = [c EXCEPT !.calm = calm]
  PROVE  Carried(d) /\ Same(c, d) /\ d.seen = c.seen /\ d.got = c.got /\ d.calm = calm
<1>1. d = Carrying(c.kind, c.ops, c.supplied, c.lock, c.base, c.seen, c.bundle, c.profile, c.holds, c.got, calm)
  <2>1. c = Carrying(c.kind, c.ops, c.supplied, c.lock, c.base, c.seen, c.bundle, c.profile, c.holds, c.got, c.calm)
    BY DEF Carried
  <2> QED
    BY <2>1, Zenon DEF Carrying
<1>2. IsCommand(d, c.kind, c.ops, c.supplied, c.lock, c.base, c.seen, c.bundle, c.profile, c.holds, c.got, calm)
  <2>1. IsCommand(Carrying(c.kind, c.ops, c.supplied, c.lock, c.base, c.seen, c.bundle, c.profile, c.holds, c.got, calm),
                  c.kind, c.ops, c.supplied, c.lock, c.base, c.seen, c.bundle, c.profile, c.holds, c.got, calm)
    BY CarryingIs
  <2> QED
    BY <1>1, <2>1, Zenon
<1> QED
  BY <1>2, Zenon DEF IsCommand, Same

LEMMA SameIsDecided ==
  ASSUME NEW c, NEW d, Decided(c), Carried(d), Same(c, d)
  PROVE  Decided(d)
BY Zenon DEF Decided, Same

LEMMA SameIsConfirmed ==
  ASSUME NEW c, NEW d, Confirmed(c), Same(c, d), d.seen = c.seen
  PROVE  Confirmed(d)
BY Zenon DEF Confirmed, Same

\* What apply_bundle decides.
LEMMA ApplyDecides ==
  ASSUME Ready, NEW profile, Apply(profile)
  PROVE  Decided(cmd')
<1>1. PICK supplied \in {None} \union ({lockfile} \ {Torn}), r \in {ResolveBundle(Now, bundle, profile, FALSE)} :
        /\ r.error = ""
        /\ supplied # None => Supplied(supplied, profile, r.lock)
        /\ Ask(Command("apply", r.ops, supplied, r.lock, profile))
  BY Zenon DEF Apply
<1> DEFINE w == Now
           all == Gather(w, Intents(bundle, profile), Skipped(w, Intents(bundle, profile)), FALSE)
           c == cmd'
<1>2. r = ResolveBundle(w, bundle, profile, FALSE)
  BY <1>1, Zenon
<1>3. Loaded(w) /\ bundle \in Bundles
  BY NowIsLoaded DEF Ready
<1>4. ResolveBundle(w, bundle, profile, FALSE).error = ""
  BY <1>1, <1>2, Zenon
<1>5. ComesTo(w, bundle, profile, FALSE, all, ResolveBundle(w, bundle, profile, FALSE))
  BY <1>3, <1>4, BundleResolves
<1>6. c = Carrying("apply", r.ops, supplied, r.lock, w, None, bundle, profile, holds, <<>>, TRUE)
  BY <1>1, Zenon DEF Ask, Command, Carrying
<1>7. IsCommand(c, "apply", r.ops, supplied, r.lock, w, None, bundle, profile, holds, <<>>, TRUE)
  <2>1. IsCommand(Carrying("apply", r.ops, supplied, r.lock, w, None, bundle, profile, holds, <<>>, TRUE),
                  "apply", r.ops, supplied, r.lock, w, None, bundle, profile, holds, <<>>, TRUE)
    BY CarryingIs
  <2> QED
    BY <1>6, <2>1, Zenon
<1> HIDE DEF w, all, c
<1>8. Carried(c) /\ c.ops = r.ops /\ c.supplied = supplied /\ c.lock = r.lock /\ c.base = w /\ c.bundle = bundle
  BY <1>7, Zenon DEF IsCommand
<1>9. /\ Good(w, FALSE, all) /\ all.error = ""
      /\ r.ops = all.ops /\ r.lock = LockOf(w, bundle, profile, all.entries)
  BY <1>2, <1>5, Zenon DEF ComesTo
<1>10. /\ Listed(all.ops) /\ Listed(all.entries)
       /\ \A o \in Range(all.ops) : Permissible(w, FALSE, o)
       /\ \A o \in Range(all.ops) : o.own => \E e \in Range(all.entries) : Covers(e, o)
  BY <1>9, Zenon DEF Good
<1>11. Entries(r.lock) = Range(all.entries)
  BY <1>9, <1>10, EntriesAre, Zenon
<1>12. \A k \in DOMAIN c.ops : c.ops[k] \in Range(all.ops)
  BY <1>8, <1>9, Zenon DEF Range
<1>13. supplied # None => r.lock = supplied /\ r.lock.intent = bundle
  BY <1>1, Zenon DEF Supplied
<1>14. Listed(c.ops)
  BY <1>8, <1>9, <1>10, Zenon
<1>15. \A k \in DOMAIN c.ops : Permissible(c.base, FALSE, c.ops[k])
  BY <1>8, <1>10, <1>12, Zenon
<1>16. \A k \in DOMAIN c.ops : c.ops[k].own => \E e \in Entries(c.lock) : Covers(e, c.ops[k])
  BY <1>8, <1>10, <1>11, <1>12, Zenon
<1>17. Decided(c)
  BY <1>3, <1>8, <1>13, <1>14, <1>15, <1>16, Zenon DEF Decided, w
<1> QED
  BY <1>17 DEF c

\* What handle_operation decides.
LEMMA OperateDecides ==
  ASSUME Ready, NEW q \in Requests, Operate(q)
  PROVE  Decided(cmd')
<1> DEFINE w == Now
           version == q.version
           first == Request(Anything, "auto", "stable", version)
           c == cmd'
<1>1. PICK r \in {Resolve(w, q.name, q.op, first, FALSE)} :
        /\ r.error = "" /\ r.selected # 0
        /\ Ask(Command("operation", <<[op |-> q.op, own |-> TRUE, for |-> q.name, resolution |-> r]>>, None, None, NoProfile))
  BY Zenon DEF Operate
<1> DEFINE o == [op |-> q.op, own |-> TRUE, for |-> q.name, resolution |-> r]
           ops == <<o>>
<1>2. Loaded(w)
  BY NowIsLoaded
<1>3. q.op \in {"install", "upgrade", "repair", "remove"} /\ Typed(version)
  BY IntentsAssumption DEF Typed
<1>4. r = Resolve(w, q.name, q.op, first, FALSE) /\ Resolve(w, q.name, q.op, first, FALSE).error = ""
  BY <1>1, Zenon
<1>5. c = Carrying("operation", ops, None, None, w, None, bundle, NoProfile, holds, <<>>, TRUE)
  BY <1>1, Zenon DEF Ask, Command, Carrying
<1> HIDE DEF c, w, version
<1>6. Granted(w, q.op, r, FALSE)
  BY <1>1, <1>2, <1>3, <1>4, ResolveGrants
<1>7. IsCommand(c, "operation", ops, None, None, w, None, bundle, NoProfile, holds, <<>>, TRUE)
  <2>1. IsCommand(Carrying("operation", ops, None, None, w, None, bundle, NoProfile, holds, <<>>, TRUE),
                  "operation", ops, None, None, w, None, bundle, NoProfile, holds, <<>>, TRUE)
    BY CarryingIs
  <2> QED
    BY <1>5, <2>1, Zenon
<1>8. o.op = q.op /\ o.resolution = r
  OBVIOUS
<1> HIDE DEF o
<1>9. Permissible(w, FALSE, o)
  BY <1>3, <1>6, <1>8, Zenon DEF Permissible
<1>10. Listed(ops) /\ \A k \in DOMAIN ops : ops[k] = o
  BY DEF Listed, Range
<1> HIDE DEF ops
<1>11. Carried(c) /\ c.ops = ops /\ c.supplied = None /\ c.base = w
  BY <1>7, Zenon DEF IsCommand
<1>12. \A k \in DOMAIN c.ops : Permissible(c.base, FALSE, c.ops[k])
  BY <1>9, <1>10, <1>11, Zenon
<1>13. Decided(c)
  BY <1>2, <1>10, <1>11, <1>12, Zenon DEF Decided
<1> QED
  BY <1>13 DEF c

\* What does not take the command further: it ends, or stays where it is.
Aside ==
  \/ pc' = "idle"
  \/ pc' = pc /\ at' = at /\ pc # "idle" /\ cmd' = cmd
  \/ pc' = pc /\ at' = at /\ pc # "idle" /\ cmd' = [cmd EXCEPT !.calm = FALSE]

LEMMA StepsAre ==
  ASSUME [Next]_vars
  PROVE  \/ \E profile \in Profiles : Apply(profile)
         \/ \E q \in Requests : Operate(q)
         \/ Confirm \/ Step \/ Commit \/ Aside
<1>1. ASSUME Change PROVE Aside
  BY <1>1, Zenon DEF Change, Aside
<1>2. ASSUME NEW profile, Lock(profile) PROVE Aside
  <2>1. PICK lock : WriteLock(lock)
    BY <1>2, Zenon DEF Lock
  <2> QED
    BY <2>1, Zenon DEF WriteLock, Aside
<1>3. ASSUME UNCHANGED vars PROVE Aside
  BY <1>3, Zenon DEF vars, Aside
<1>4. Decline \/ Finish \/ Fail => Aside
  BY Zenon DEF Decline, Finish, Fail, Aside
<1>5. UpdateCatalog \/ ChangePolicy \/ EditBundle \/ NextDay => Change
  BY Zenon DEF UpdateCatalog, ChangePolicy, EditBundle, NextDay
<1>6. \A name : Pin(name) \/ Hold(name) \/ Release(name) \/ Elsewhere(name) => Change
  BY Zenon DEF Pin, Hold, Release, Elsewhere
<1>7. \A profile : Refresh(profile) => Lock(profile)
  BY Zenon DEF Refresh
<1> QED
  BY <1>1, <1>2, <1>3, <1>4, <1>5, <1>6, <1>7, Zenon DEF Next

\* What is found again at the prompt's end.
LEMMA ConfirmConfirms ==
  ASSUME IInv, Confirm
  PROVE  pc' # "idle" => Decided(cmd') /\ (pc' = "run" => Confirmed(cmd'))
<1> DEFINE d == cmd'
<1>1. SUFFICES ASSUME pc' # "idle" PROVE Decided(d) /\ (pc' = "run" => Confirmed(d))
  OBVIOUS
<1>2. Decided(cmd)
  BY Zenon DEF IInv, Confirm
<1>3. /\ cmd' = [cmd EXCEPT !.seen = Now]
      /\ cmd.supplied # None => ContextStands(Now, cmd.lock) /\ VersionsStand(Now, cmd.lock)
      /\ pc' = "run" => Current
  BY <1>1 DEF Confirm
<1>4. Carried(d) /\ Same(cmd, d) /\ d.seen = Now
  <2>1. Carried(cmd)
    BY <1>2, Zenon DEF Decided
  <2> DEFINE w == Now
  <2>2. d = [cmd EXCEPT !.seen = w]
    BY <1>3, Zenon
  <2> HIDE DEF w, d
  <2>3. Carried(d) /\ Same(cmd, d) /\ d.seen = w
    BY <2>1, <2>2, CommandSees
  <2> QED
    BY <2>3, Zenon DEF w
<1> HIDE DEF d
<1>5. Decided(d)
  BY <1>2, <1>4, SameIsDecided, Zenon
<1>6. ASSUME Current PROVE Confirmed(d)
  <2>1. d.seen.catalog = d.base.catalog /\ d.seen.layers = d.base.layers /\ d.seen.installed = d.base.installed
    BY <1>4, <1>6, Zenon DEF Current, Same
  <2>2. d.supplied # None => ContextStands(d.seen, d.lock) /\ VersionsStand(d.seen, d.lock)
    BY <1>3, <1>4, Zenon DEF Same
  <2>3. Now = StateOf(Now.catalog, Now.layers, Now.platform, Now.day, Now.installed)
    BY DEF StateOf, Now
  <2>4. d.seen = StateOf(d.seen.catalog, d.seen.layers, d.seen.platform, d.seen.day, d.seen.installed)
    BY <1>4, <2>3, Zenon
  <2> QED
    BY <2>1, <2>2, <2>4, Zenon DEF Confirmed
<1> QED
  BY <1>3, <1>5, <1>6

LEMMA AsideCarries ==
  ASSUME pc # "idle" => Decided(cmd), Aside, pc' # "idle"
  PROVE  /\ pc' = pc /\ at' = at /\ pc # "idle"
         /\ Carried(cmd') /\ Same(cmd, cmd') /\ cmd'.seen = cmd.seen /\ cmd'.got = cmd.got
<1>1. pc' = pc /\ at' = at /\ pc # "idle"
  BY Zenon DEF Aside
<1>2. Carried(cmd)
  BY <1>1, Zenon DEF Decided
<1>3. CASE cmd' = cmd
  BY <1>1, <1>2, <1>3, Zenon DEF Same
<1>4. ASSUME cmd' = [cmd EXCEPT !.calm = FALSE]
      PROVE  Carried(cmd') /\ Same(cmd, cmd') /\ cmd'.seen = cmd.seen /\ cmd'.got = cmd.got
  <2>1. ASSUME NEW calm, cmd' = [cmd EXCEPT !.calm = calm]
        PROVE  Carried(cmd') /\ Same(cmd, cmd') /\ cmd'.seen = cmd.seen /\ cmd'.got = cmd.got
    BY <1>2, <2>1, CommandIsDisturbed
  <2> QED
    BY <1>4, <2>1, Zenon
<1> QED
  BY <1>1, <1>3, <1>4, Zenon DEF Aside

LEMMA StepCarries ==
  ASSUME IInv, Step
  PROVE  /\ pc = "run" /\ Carried(cmd') /\ Same(cmd, cmd') /\ cmd'.seen = cmd.seen /\ cmd'.calm = cmd.calm
         /\ \/ Idle(O) /\ cmd'.got = cmd.got
            \/ ~Idle(O) /\ \E v \in Outcomes(O) : cmd'.got = Put(cmd.got, Id(O), v)
<1>1. pc = "run" /\ Carried(cmd)
  BY Zenon DEF Step, IInv, Decided
<1>2. ASSUME Idle(O)
      PROVE  Carried(cmd') /\ Same(cmd, cmd') /\ cmd'.seen = cmd.seen /\ cmd'.got = cmd.got /\ cmd'.calm = cmd.calm
  BY <1>1, <1>2, Zenon DEF Step, Same
<1>3. ASSUME ~Idle(O), NEW v \in Outcomes(O), cmd' = [cmd EXCEPT !.got = Put(@, Id(O), v)]
      PROVE  Carried(cmd') /\ Same(cmd, cmd') /\ cmd'.seen = cmd.seen /\ cmd'.got = Put(cmd.got, Id(O), v) /\ cmd'.calm = cmd.calm
  <2> DEFINE got == Put(cmd.got, Id(O), v)
  <2>1. cmd' = [cmd EXCEPT !.got = got]
    BY <1>3, Zenon
  <2> HIDE DEF got
  <2>2. Carried(cmd') /\ Same(cmd, cmd') /\ cmd'.seen = cmd.seen /\ cmd'.got = got /\ cmd'.calm = cmd.calm
    BY <1>1, <2>1, CommandGets
  <2> QED
    BY <2>2, Zenon DEF got
<1>4. ~Idle(O) => \E v \in Outcomes(O) : cmd' = [cmd EXCEPT !.got = Put(@, Id(O), v)]
  BY Zenon DEF Step
<1> QED
  BY <1>1, <1>2, <1>3, <1>4, Zenon

LEMMA CommandsAreDecided ==
  ASSUME IInv, [Next]_vars
  PROVE  (pc' # "idle" => Decided(cmd')) /\ (Running' => Confirmed(cmd'))
<1>1. Ready /\ (pc # "idle" => Decided(cmd)) /\ (pc \in {"run", "receipts"} => Confirmed(cmd))
  BY Zenon DEF IInv, Running
<1>2. Running' <=> pc' \in {"run", "receipts"}
  BY DEF Running
<1> DEFINE Fine == (pc' # "idle" => Decided(cmd')) /\ (pc' \in {"run", "receipts"} => Confirmed(cmd'))
<1>3. ASSUME NEW profile, Apply(profile) PROVE Fine
  <2>1. pc' = "asked"
    BY <1>3, Zenon DEF Apply, Ask
  <2> QED
    BY <1>1, <1>3, <2>1, ApplyDecides
<1>4. ASSUME NEW q \in Requests, Operate(q) PROVE Fine
  <2>1. pc' = "asked"
    BY <1>4, Zenon DEF Operate, Ask
  <2> QED
    BY <1>1, <1>4, <2>1, OperateDecides
<1>5. ASSUME Confirm PROVE Fine
  <2>1. pc' # "receipts"
    BY <1>5 DEF Confirm
  <2> QED
    BY <1>5, <2>1, ConfirmConfirms
<1>6. ASSUME Step PROVE Fine
  <2>1. pc = "run" /\ Carried(cmd') /\ Same(cmd, cmd') /\ cmd'.seen = cmd.seen
    BY <1>6, StepCarries
  <2>2. Decided(cmd) /\ Confirmed(cmd)
    BY <1>1, <2>1
  <2> QED
    BY <2>1, <2>2, SameIsDecided, SameIsConfirmed, Zenon
<1>7. ASSUME Commit PROVE Fine
  BY <1>1, <1>7 DEF Commit
<1>8. ASSUME Aside PROVE Fine
  <2>1. ASSUME pc' # "idle" PROVE Decided(cmd') /\ (pc' \in {"run", "receipts"} => Confirmed(cmd'))
    <3>1. /\ pc' = pc /\ pc # "idle"
          /\ Carried(cmd') /\ Same(cmd, cmd') /\ cmd'.seen = cmd.seen
      BY <1>1, <1>8, <2>1, AsideCarries
    <3>2. Decided(cmd')
      BY <1>1, <3>1, SameIsDecided, Zenon
    <3>3. pc' \in {"run", "receipts"} => Confirmed(cmd')
      BY <1>1, <3>1, SameIsConfirmed, Zenon
    <3> QED
      BY <3>2, <3>3
  <2> QED
    BY <2>1
<1> HIDE DEF Fine
<1>9. Fine
  BY <1>3, <1>4, <1>5, <1>6, <1>7, <1>8, StepsAre
<1> QED
  BY <1>2, <1>9 DEF Fine

\* The plan around one operation: those beside it of the same kind.
LEMMA PlanFacts ==
  ASSUME pc # "idle" => Decided(cmd), pc # "idle", at \in DOMAIN cmd.ops
  PROVE  /\ at \in Nat /\ DOMAIN cmd.ops = 1..Len(cmd.ops) /\ Len(cmd.ops) \in Nat
         /\ \A j \in PlanOf(at) : j \in DOMAIN cmd.ops /\ cmd.ops[j].op = O.op
         /\ \A j \in PlanOf(at) : j > at => at + 1 \in PlanOf(at)
         /\ at + 1 \in PlanOf(at) => PlanOf(at + 1) \subseteq PlanOf(at)
         /\ at + 1 \notin PlanOf(at) /\ at + 1 \in DOMAIN cmd.ops => \A j \in PlanOf(at + 1) : j > at
<1> DEFINE N == Len(cmd.ops)
           Kind(j) == cmd.ops[j].op
<1>1. DOMAIN cmd.ops = 1..N /\ N \in Nat
  <2>1. Listed(cmd.ops)
    BY Zenon DEF Decided
  <2> QED
    BY <2>1, PlacesCount, Zenon DEF Listed
<1>2. at \in Nat /\ at \in 1..N
  BY <1>1
<1> HIDE DEF N
<1>3. O.op = Kind(at)
  BY DEF O
<1>4. ASSUME NEW i \in 1..N
      PROVE  \A j : j \in PlanOf(i) <=> /\ j \in 1..N
               /\ \A k \in 1..N : (i <= k /\ k <= j) \/ (j <= k /\ k <= i) => Kind(k) = Kind(i)
  <2>1. \A j : j \in PlanOf(i) <=> /\ j \in 1..N
          /\ \A k \in 1..N : (IF i < j THEN i ELSE j) <= k /\ k <= (IF i < j THEN j ELSE i) => Kind(k) = Kind(i)
    BY <1>1, Zenon DEF PlanOf
  <2> HIDE DEF Kind
  <2> QED
    BY <1>1, <2>1
<1> HIDE DEF Kind
<1>5. \A j \in PlanOf(at) : j \in 1..N /\ Kind(j) = Kind(at)
  BY <1>1, <1>2, <1>4
<1>6. ASSUME NEW j \in PlanOf(at), j > at PROVE at + 1 \in PlanOf(at)
  BY <1>1, <1>2, <1>4, <1>6
<1>7. ASSUME at + 1 \in PlanOf(at), NEW j \in PlanOf(at + 1) PROVE j \in PlanOf(at)
  <2>1. at + 1 \in 1..N /\ Kind(at + 1) = Kind(at)
    BY <1>5, <1>7
  <2>2. j \in 1..N /\ \A k \in 1..N : (at + 1 <= k /\ k <= j) \/ (j <= k /\ k <= at + 1) => Kind(k) = Kind(at + 1)
    BY <1>4, <1>7, <2>1
  <2>3. \A k \in 1..N : (at <= k /\ k <= j) \/ (j <= k /\ k <= at) => Kind(k) = Kind(at)
    BY <1>1, <1>2, <2>1, <2>2
  <2> QED
    BY <1>2, <1>4, <2>2, <2>3
<1>8. ASSUME at + 1 \notin PlanOf(at), at + 1 \in 1..N, NEW j \in PlanOf(at + 1) PROVE j > at
  <2>1. j \in 1..N /\ \A k \in 1..N : (at + 1 <= k /\ k <= j) \/ (j <= k /\ k <= at + 1) => Kind(k) = Kind(at + 1)
    BY <1>4, <1>8
  <2>2. SUFFICES ASSUME j <= at PROVE FALSE
    BY <1>1, <1>2, <2>1
  <2>3. Kind(at) = Kind(at + 1)
    BY <1>1, <1>2, <2>1, <2>2
  <2>4. \A k \in 1..N : (at <= k /\ k <= at + 1) \/ (at + 1 <= k /\ k <= at) => Kind(k) = Kind(at)
    BY <1>1, <1>2, <2>3
  <2>5. at + 1 \in PlanOf(at)
    BY <1>2, <1>4, <1>8, <2>4
  <2> QED
    BY <1>8, <2>5
<1> QED
  BY <1>1, <1>2, <1>3, <1>5, <1>6, <1>7, <1>8 DEF Kind, N

LEMMA GoingStays ==
  ASSUME IInv, [Next]_vars
  PROVE  Going'
<1> DEFINE Due(j) == cmd.ops[j].op # "remove" /\ ~Idle(cmd.ops[j])
           Held(got, j) == Id(cmd.ops[j]) \in DOMAIN got /\ got[Id(cmd.ops[j])] \in VersionTexts
           Fine == /\ pc' = "asked" => at' = 1
                   /\ pc' \in {"run", "receipts"} =>
                        /\ cmd'.ops = cmd.ops /\ cmd'.base = cmd.base
                        /\ \A j \in PlanOf(at') : (pc' = "receipts" \/ j < at') /\ Due(j) => Held(cmd'.got, j)
                        /\ pc' = "receipts" => at' + 1 \notin PlanOf(at')
<1>1. /\ pc = "asked" => at = 1
      /\ pc \in {"run", "receipts"} => \A j \in PlanOf(at) : (pc = "receipts" \/ j < at) /\ Due(j) => Held(cmd.got, j)
      /\ pc = "receipts" => at + 1 \notin PlanOf(at)
  BY Zenon DEF IInv, Going, Running
<1>2. pc # "idle" => Decided(cmd)
  BY Zenon DEF IInv
<1>3. pc \in {"run", "receipts"} => at \in DOMAIN cmd.ops
  BY Zenon DEF IInv, Typing
<1>4. ASSUME pc \in {"run", "receipts"}
      PROVE  /\ at \in Nat /\ DOMAIN cmd.ops = 1..Len(cmd.ops) /\ Len(cmd.ops) \in Nat
             /\ \A j \in PlanOf(at) : j \in DOMAIN cmd.ops /\ cmd.ops[j].op = O.op
             /\ \A j \in PlanOf(at) : j > at => at + 1 \in PlanOf(at)
             /\ at + 1 \in PlanOf(at) => PlanOf(at + 1) \subseteq PlanOf(at)
             /\ at + 1 \notin PlanOf(at) /\ at + 1 \in DOMAIN cmd.ops => \A j \in PlanOf(at + 1) : j > at
  BY <1>2, <1>3, <1>4, PlanFacts
<1>5. O = cmd.ops[at]
  BY DEF O
<1>6. Fine => Going'
  <2>1. SUFFICES ASSUME Fine PROVE Going'
    OBVIOUS
  <2>2. Running' <=> pc' \in {"run", "receipts"}
    BY DEF Running
  <2>3. ASSUME pc' \in {"run", "receipts"}
        PROVE  /\ PlanOf(at)' = PlanOf(at')
               /\ PlanOf(at' + 1) = PlanOf(at' + 1)
               /\ \A j : cmd'.ops[j] = cmd.ops[j] /\ (Idle(cmd.ops[j])' <=> Idle(cmd.ops[j]))
    <3>1. cmd'.ops = cmd.ops /\ cmd'.base = cmd.base
      BY <2>1, <2>3, Zenon
    <3> QED
      BY <3>1, Zenon DEF PlanOf, Idle
  <2> QED
    BY <2>1, <2>2, <2>3, Zenon DEF Going
<1> HIDE DEF Due, Held
<1>7. ASSUME NEW profile, Apply(profile) PROVE Fine
  BY <1>7 DEF Apply, Ask
<1>8. ASSUME NEW q \in Requests, Operate(q) PROVE Fine
  BY <1>8 DEF Operate, Ask
<1>9. ASSUME Confirm PROVE Fine
  <2>1. pc = "asked" /\ at' = at /\ pc' \in {"idle", "finish", "run"}
    BY <1>9 DEF Confirm
  <2>2. at' = 1
    BY <1>1, <2>1
  <2>3. ASSUME pc' = "run" PROVE cmd'.ops = cmd.ops /\ cmd'.base = cmd.base
    <3>1. cmd' = [cmd EXCEPT !.seen = Now] /\ Carried(cmd)
      BY <1>2, <1>9, <2>1, <2>3 DEF Confirm, Decided
    <3> DEFINE w == Now
    <3>2. cmd' = [cmd EXCEPT !.seen = w] /\ Carried(cmd)
      BY <3>1, Zenon
    <3> HIDE DEF w
    <3>3. Same(cmd, cmd')
      BY <3>2, CommandSees
    <3> QED
      BY <3>3, Zenon DEF Same
  <2>4. \A j \in PlanOf(1) : ~(j < 1)
    <3>1. Listed(cmd.ops)
      BY <1>2, <2>1 DEF Decided
    <3>2. \A j \in DOMAIN cmd.ops : j \in Nat /\ j # 0
      BY <3>1, PlacesCount, Zenon DEF Listed
    <3> QED
      BY <3>2 DEF PlanOf
  <2> QED
    BY <2>1, <2>2, <2>3, <2>4
<1>10. ASSUME Step PROVE Fine
  <2>1. /\ pc = "run" /\ Same(cmd, cmd')
        /\ \/ Idle(O) /\ cmd'.got = cmd.got
           \/ ~Idle(O) /\ \E v \in Outcomes(O) : cmd'.got = Put(cmd.got, Id(O), v)
    BY <1>10, StepCarries, Zenon
  <2>2. cmd'.ops = cmd.ops /\ cmd'.base = cmd.base
    BY <2>1, Zenon DEF Same
  <2>3. \/ at + 1 \in PlanOf(at) /\ at' = at + 1 /\ pc' = "run"
        \/ at + 1 \notin PlanOf(at) /\ at' = at /\ pc' = "receipts"
    BY <1>10, <2>1 DEF Step
  <2>4. ASSUME NEW j \in PlanOf(at), j <= at, Due(j) PROVE Held(cmd'.got, j)
    <3>1. CASE Idle(O)
      <4>1. j # at
        BY <1>5, <2>4, <3>1, Zenon DEF Due
      <4>2. j < at
        BY <1>4, <2>1, <2>4, <4>1
      <4> QED
        BY <1>1, <2>1, <2>4, <3>1, <4>2
    <3>2. CASE ~Idle(O)
      <4>1. PICK v \in Outcomes(O) : cmd'.got = Put(cmd.got, Id(O), v)
        BY <2>1, <3>2, Zenon
      <4>2. v \in VersionTexts
        <5>1. O.op # "remove"
          BY <1>4, <2>1, <2>4 DEF Due
        <5> QED
          BY <5>1 DEF Outcomes
      <4> DEFINE x == Id(O)
                 g == cmd'.got
                 f == cmd.got
      <4>3. g = Put(f, x, v)
        BY <4>1, Zenon
      <4> HIDE DEF x, g, f
      <4>4. DOMAIN g = DOMAIN f \union {x} /\ g[x] = v /\ \A y \in DOMAIN f : y # x => g[y] = f[y]
        BY <4>3 DEF Put
      <4>5. CASE Id(cmd.ops[j]) = x
        BY <4>2, <4>4, <4>5 DEF Held, g
      <4>6. CASE Id(cmd.ops[j]) # x
        <5>1. j < at
          BY <1>4, <1>5, <2>1, <2>4, <4>6 DEF x
        <5>2. Held(f, j)
          BY <1>1, <2>1, <2>4, <5>1 DEF f
        <5> QED
          BY <4>4, <4>6, <5>2 DEF Held, g
      <4> QED
        BY <4>5, <4>6
    <3> QED
      BY <3>1, <3>2
  <2>5. CASE at + 1 \in PlanOf(at) /\ at' = at + 1 /\ pc' = "run"
    <3>1. \A j \in PlanOf(at') : j < at' => j \in PlanOf(at) /\ j <= at
      BY <1>4, <2>1, <2>5
    <3> QED
      BY <2>2, <2>4, <2>5, <3>1
  <2>6. CASE at + 1 \notin PlanOf(at) /\ at' = at /\ pc' = "receipts"
    <3>1. \A j \in PlanOf(at) : j <= at
      BY <1>4, <2>1, <2>6
    <3> QED
      BY <2>2, <2>4, <2>6, <3>1
  <2> QED
    BY <2>3, <2>5, <2>6
<1>11. ASSUME Commit PROVE Fine
  <2>1. pc = "receipts" /\ cmd' = cmd
    BY <1>11 DEF Commit
  <2>2. (at < Len(cmd.ops) /\ at' = at + 1 /\ pc' = "run") \/ pc' = "finish"
    BY <1>11 DEF Commit
  <2>3. CASE at < Len(cmd.ops) /\ at' = at + 1 /\ pc' = "run"
    <3>1. at + 1 \in DOMAIN cmd.ops /\ at + 1 \notin PlanOf(at)
      BY <1>1, <1>4, <2>1, <2>3
    <3>2. \A j \in PlanOf(at') : ~(j < at')
      <4>1. \A j \in PlanOf(at + 1) : j > at /\ j \in Nat
        BY <1>4, <2>1, <3>1 DEF PlanOf
      <4> QED
        BY <1>4, <2>1, <2>3, <4>1
    <3> QED
      BY <2>1, <2>3, <3>2
  <2> QED
    BY <2>2, <2>3
<1>12. ASSUME Aside PROVE Fine
  <2>1. SUFFICES ASSUME pc' # "idle" PROVE Fine
    OBVIOUS
  <2>2. pc' = pc /\ at' = at /\ pc # "idle" /\ Same(cmd, cmd') /\ cmd'.got = cmd.got
    BY <1>2, <1>12, <2>1, AsideCarries
  <2>3. cmd'.ops = cmd.ops /\ cmd'.base = cmd.base
    BY <2>2, Zenon DEF Same
  <2> QED
    BY <1>1, <2>2, <2>3
<1> HIDE DEF Fine
<1>13. Fine
  BY <1>7, <1>8, <1>9, <1>10, <1>11, <1>12, StepsAre
<1> QED
  BY <1>6, <1>13
\* A plan that is done leaves receipts of versions.
LEMMA CommitRecords ==
  ASSUME IInv, Commit
  PROVE  \A id \in DOMAIN receipts' : receipts'[id].version \in VersionTexts
<1> DEFINE acted == {j \in PlanOf(at) : ~Idle(cmd.ops[j])}
           removed == {Id(cmd.ops[j]) : j \in {k \in acted : cmd.ops[k].op = "remove"}}
           written == {j \in acted : cmd.ops[j].op # "remove"}
           mine(id) == {j \in written : Id(cmd.ops[j]) = id}
           last(id) == Max(mine(id))
           ids == {Id(cmd.ops[j]) : j \in written}
<1>1. /\ pc = "receipts"
      /\ receipts' = [id \in (DOMAIN receipts \ removed) \union ids |->
                        IF id \in ids THEN Receipt(cmd.ops[last(id)]) ELSE receipts[id]]
  BY Zenon DEF Commit
<1>2. \A j \in written : Id(cmd.ops[j]) \in DOMAIN cmd.got /\ cmd.got[Id(cmd.ops[j])] \in VersionTexts
  BY <1>1, Zenon DEF IInv, Going, Running
<1>3. at \in DOMAIN cmd.ops /\ (pc # "idle" => Decided(cmd))
  BY <1>1, Zenon DEF IInv, Typing
<1>4. DOMAIN cmd.ops = 1..Len(cmd.ops) /\ Len(cmd.ops) \in Nat /\ \A j \in PlanOf(at) : j \in DOMAIN cmd.ops
  BY <1>1, <1>3, PlanFacts, Zenon
<1>5. ASSUME NEW id \in ids PROVE Receipt(cmd.ops[last(id)]).version \in VersionTexts
  <2>1. mine(id) # {} /\ mine(id) \in SUBSET (1..Len(cmd.ops))
    BY <1>4
  <2>2. last(id) \in mine(id)
    BY <1>4, <2>1, MaxIsOne, Zenon
  <2> HIDE DEF last
  <2>3. last(id) \in written /\ Id(cmd.ops[last(id)]) = id
    BY <2>2
  <2>4. Receipt(cmd.ops[last(id)]).version = cmd.got[Id(cmd.ops[last(id)])]
    BY DEF Receipt
  <2> QED
    BY <1>2, <2>3, <2>4, Zenon
<1>6. \A id \in DOMAIN receipts : receipts[id].version \in VersionTexts
  BY Zenon DEF IInv, Ready
<1> HIDE DEF ids, last, removed
<1>7. ASSUME NEW id \in DOMAIN receipts' PROVE receipts'[id].version \in VersionTexts
  <2>1. id \in (DOMAIN receipts \ removed) \union ids
    BY <1>1, <1>7, Zenon
  <2>2. CASE id \in ids
    BY <1>1, <1>5, <2>1, <2>2, Zenon
  <2>3. CASE id \notin ids
    BY <1>1, <1>6, <2>1, <2>3, Zenon
  <2> QED
    BY <2>2, <2>3
<1> QED
  BY <1>7

LEMMA ReadyStays ==
  ASSUME IInv, [Next]_vars
  PROVE  Ready'
<1>1. Ready
  BY Zenon DEF IInv
<1>2. ASSUME UNCHANGED <<things, records>> PROVE Ready'
  BY <1>1, <1>2 DEF things, records, Ready
<1>3. Decline \/ Confirm \/ Step \/ Finish \/ Fail => UNCHANGED <<things, records>>
  BY Zenon DEF Decline, Confirm, Step, Finish, Fail
<1>4. ASSUME NEW profile, Apply(profile) \/ Lock(profile) \/ Refresh(profile) PROVE UNCHANGED <<things, records>>
  BY <1>4, Zenon DEF Apply, Ask, Refresh, Lock, WriteLock
<1>5. ASSUME NEW q \in Requests, Operate(q) PROVE UNCHANGED <<things, records>>
  BY <1>5, Zenon DEF Operate, Ask
<1>6. ASSUME Commit PROVE Ready'
  <2>1. \A id \in DOMAIN receipts' : receipts'[id].version \in VersionTexts
    BY <1>6, CommitRecords
  <2>2. UNCHANGED <<things, pins>>
    BY <1>6, Zenon DEF Commit
  <2> QED
    BY <1>1, <2>1, <2>2 DEF things, Ready
<1>7. ASSUME UpdateCatalog \/ ChangePolicy \/ EditBundle \/ NextDay PROVE Ready'
  BY <1>1, <1>7 DEF UpdateCatalog, ChangePolicy, EditBundle, NextDay, records, Ready
<1>8. ASSUME NEW name, Pin(name) PROVE Ready'
  <2>1. PICK v \in {c \in {r.version : r \in Requests} \ {NoVersion} : ValidConstraint(c)}
             \union {[mark |-> "", text |-> receipts[x].version] : x \in DOMAIN receipts \intersect {Manifest(catalog, name).id}} :
           pins' = Put(pins, Manifest(catalog, name).id, v)
    BY <1>8, Zenon DEF Pin
  <2>2. v.text \in Seq(Int)
    <3>1. ASSUME NEW r \in Requests, r.version # NoVersion, v = r.version PROVE v.text \in Seq(Int)
      BY <3>1, IntentsAssumption
    <3>2. ASSUME NEW x \in DOMAIN receipts, v = [mark |-> "", text |-> receipts[x].version] PROVE v.text \in Seq(Int)
      BY <1>1, <3>2, IntentsAssumption DEF Ready
    <3> QED
      BY <2>1, <3>1, <3>2
  <2>3. UNCHANGED <<things, receipts>>
    BY <1>8, Zenon DEF Pin
  <2> DEFINE x == Manifest(catalog, name).id
  <2>4. pins' = Put(pins, x, v)
    BY <2>1, Zenon
  <2> HIDE DEF x
  <2>5. \A id \in DOMAIN pins' : pins'[id].text \in Seq(Int)
    BY <1>1, <2>2, <2>4 DEF Put, Ready
  <2> QED
    BY <1>1, <2>3, <2>5 DEF things, Ready
<1>9. ASSUME NEW name, Hold(name) \/ Release(name) PROVE Ready'
  BY <1>1, <1>9 DEF Hold, Release, things, Ready
<1>10. ASSUME NEW id, Elsewhere(id) PROVE Ready'
  <2>1. UNCHANGED <<things, pins>>
    BY <1>10, Zenon DEF Elsewhere
  <2>2. CASE receipts' = [x \in DOMAIN receipts \ {id} |-> receipts[x]]
    BY <1>1, <2>1, <2>2 DEF things, Ready
  <2>3. ASSUME NEW v \in VersionTexts, NEW b, receipts' = Put(receipts, id, [version |-> v, backend |-> b, scope |-> "auto"])
        PROVE  Ready'
    BY <1>1, <2>1, <2>3 DEF things, Put, Ready
  <2> QED
    BY <1>10, <2>2, <2>3, Zenon DEF Elsewhere
<1> QED
  BY <1>2, <1>3, <1>4, <1>5, <1>6, <1>7, <1>8, <1>9, <1>10, Zenon DEF Next, vars
\* Of the counters and the rest of what has a type.
LEMMA RestStays ==
  ASSUME Typing, [Next]_vars
  PROVE  /\ ValidDocument(catalog') /\ day' \in 0..LastDay /\ holds' \subseteq Spellings
         /\ pc' \in {"idle", "asked", "run", "receipts", "finish"} /\ (pc' = "idle" => cmd' = None)
         /\ changes' \in 0..MaxChanges /\ faults' \in 0..MaxFaults /\ commands' \in 0..MaxCommands
<1>1. ValidDocument(catalog')
  <2>1. catalog' = catalog \/ ValidDocument(catalog')
    BY Zenon DEF Next, vars, things, Apply, Operate, Ask, Lock, Refresh, WriteLock, Decline, Confirm, Step, Commit,
         Finish, Fail, UpdateCatalog, ChangePolicy, EditBundle, NextDay, Pin, Hold, Release, Elsewhere
  <2>2. ValidDocument(catalog)
    BY Zenon DEF Typing
  <2> QED
    BY <2>1, <2>2, Zenon
<1>2. /\ {LastDay, MaxChanges, MaxFaults, MaxCommands} \subseteq Nat
      /\ day \in 0..LastDay /\ changes \in 0..MaxChanges /\ faults \in 0..MaxFaults /\ commands \in 0..MaxCommands
  BY BundleApplyAssumption DEF Typing
<1>3. day' = day \/ (day < LastDay /\ day' = day + 1)
  BY Zenon DEF Next, vars, things, Apply, Operate, Ask, Lock, Refresh, WriteLock, Decline, Confirm, Step, Commit,
       Finish, Fail, UpdateCatalog, ChangePolicy, EditBundle, NextDay, Pin, Hold, Release, Elsewhere
<1>4. changes' = changes \/ (changes < MaxChanges /\ changes' = changes + 1)
  BY Zenon DEF Next, vars, bounds, Apply, Operate, Ask, Lock, Refresh, WriteLock, Decline, Confirm, Step, Commit,
       Finish, Fail, UpdateCatalog, ChangePolicy, EditBundle, NextDay, Pin, Hold, Release, Elsewhere, Change
<1>5. faults' = faults \/ (faults < MaxFaults /\ faults' = faults + 1)
  BY Zenon DEF Next, vars, bounds, Apply, Operate, Ask, Lock, Refresh, WriteLock, Decline, Confirm, Step, Commit,
       Finish, Fail, UpdateCatalog, ChangePolicy, EditBundle, NextDay, Pin, Hold, Release, Elsewhere, Change
<1>6. commands' = commands \/ (commands < MaxCommands /\ commands' = commands + 1)
  BY Zenon DEF Next, vars, bounds, Apply, Operate, Ask, CanStart, Lock, Refresh, WriteLock, Decline, Confirm, Step,
       Commit, Finish, Fail, UpdateCatalog, ChangePolicy, EditBundle, NextDay, Pin, Hold, Release, Elsewhere, Change
<1>7. day' \in 0..LastDay /\ changes' \in 0..MaxChanges /\ faults' \in 0..MaxFaults /\ commands' \in 0..MaxCommands
  BY <1>2, <1>3, <1>4, <1>5, <1>6
<1>8. holds' = holds \/ (\E name \in Spellings : holds' = holds \union {name} \/ holds' = holds \ {name})
  BY Zenon DEF Next, vars, records, Apply, Operate, Ask, Lock, Refresh, WriteLock, Decline, Confirm, Step, Commit,
       Finish, Fail, UpdateCatalog, ChangePolicy, EditBundle, NextDay, Pin, Hold, Release, Elsewhere
<1>9. holds' \subseteq Spellings
  BY <1>8, Zenon DEF Typing
<1>10. pc' \in {"idle", "asked", "run", "receipts", "finish"} /\ (pc' = "idle" => cmd' = None)
  <2>1. ASSUME Change PROVE pc' = pc /\ (pc = "idle" => cmd' = None)
    BY <2>1, Zenon DEF Change
  <2>2. ASSUME NEW lock, WriteLock(lock) PROVE pc' = pc /\ cmd' = cmd
    BY <2>2, Zenon DEF WriteLock
  <2>3. UpdateCatalog \/ ChangePolicy \/ EditBundle \/ NextDay => Change
    BY Zenon DEF UpdateCatalog, ChangePolicy, EditBundle, NextDay
  <2>4. \A name : Pin(name) \/ Hold(name) \/ Release(name) \/ Elsewhere(name) => Change
    BY Zenon DEF Pin, Hold, Release, Elsewhere
  <2>5. \A profile : Lock(profile) \/ Refresh(profile) => pc' = pc /\ cmd' = cmd
    BY <2>2, Zenon DEF Lock, Refresh
  <2>6. \A profile : Apply(profile) => pc' = "asked"
    BY Zenon DEF Apply, Ask
  <2>7. \A q : Operate(q) => pc' = "asked"
    BY Zenon DEF Operate, Ask
  <2>8. Decline \/ Finish \/ Fail => pc' = "idle" /\ cmd' = None
    BY Zenon DEF Decline, Finish, Fail
  <2>9. Confirm => pc' \in {"finish", "run"} \/ (pc' = "idle" /\ cmd' = None)
    BY DEF Confirm
  <2>10. Step => pc' \in {"run", "receipts"}
    BY DEF Step
  <2>11. Commit => pc' \in {"run", "finish"}
    BY DEF Commit
  <2>12. UNCHANGED vars => pc' = pc /\ cmd' = cmd
    BY DEF vars
  <2>13. \/ pc' = pc /\ (cmd' = cmd \/ (pc = "idle" => cmd' = None))
         \/ pc' = "idle" /\ cmd' = None
         \/ pc' \in {"asked", "finish", "run", "receipts"}
    BY <2>1, <2>3, <2>4, <2>5, <2>6, <2>7, <2>8, <2>9, <2>10, <2>11, <2>12 DEF Next
  <2>14. pc \in {"idle", "asked", "run", "receipts", "finish"} /\ (pc = "idle" => cmd = None)
    BY Zenon DEF Typing
  <2> QED
    BY <2>13, <2>14
<1> QED
  BY <1>1, <1>7, <1>9, <1>10

LEMMA MachineStays ==
  ASSUME Typing, [Next]_vars
  PROVE  \A id \in DOMAIN machine' : machine'[id] \in VersionTexts \union {None}
<1> DEFINE Fine(m) == \A id \in DOMAIN m : m[id] \in VersionTexts \union {None}
<1>1. Fine(machine)
  BY DEF Typing
<1>2. ASSUME NEW id, NEW v \in VersionTexts \union {None, machine[id]}, machine' = [machine EXCEPT ![id] = v]
      PROVE  Fine(machine')
  BY <1>1, <1>2
<1>3. \A o : Outcomes(o) \subseteq VersionTexts \union {None}
  BY DEF Outcomes
<1>4. \/ machine' = machine
      \/ \E v \in Outcomes(O) : machine' = [machine EXCEPT ![Id(O)] = v]
      \/ \E v \in {machine[Id(O)]} \union Outcomes(O) : machine' = [machine EXCEPT ![Id(O)] = v]
      \/ \E id : machine' = [machine EXCEPT ![id] = None] \/ \E v \in VersionTexts : machine' = [machine EXCEPT ![id] = v]
  <2>1. Step => machine' = machine \/ \E v \in Outcomes(O) : machine' = [machine EXCEPT ![Id(O)] = v]
    BY Zenon DEF Step
  <2>2. Fail => machine' = machine \/ \E v \in {machine[Id(O)]} \union Outcomes(O) : machine' = [machine EXCEPT ![Id(O)] = v]
    BY Zenon DEF Fail
  <2>3. \A id : Elsewhere(id) =>
          machine' = [machine EXCEPT ![id] = None] \/ \E v \in VersionTexts : machine' = [machine EXCEPT ![id] = v]
    BY Zenon DEF Elsewhere
  <2>4. Step \/ Fail \/ (\E id : Elsewhere(id)) \/ machine' = machine
    BY Zenon DEF Next, vars, Apply, Operate, Ask, Lock, Refresh, WriteLock, Decline, Confirm, Commit, Finish,
         UpdateCatalog, ChangePolicy, EditBundle, NextDay, Pin, Hold, Release
  <2> QED
    BY <2>1, <2>2, <2>3, <2>4, Zenon
<1> HIDE DEF Fine
<1>5. Fine(machine')
  BY <1>1, <1>2, <1>3, <1>4
<1> QED
  BY <1>5 DEF Fine

LEMMA PlaceStays ==
  ASSUME IInv, [Next]_vars
  PROVE  pc' \in {"run", "receipts"} => at' \in DOMAIN cmd'.ops
<1>1. /\ pc # "idle" => Decided(cmd)
      /\ pc \in {"run", "receipts"} => at \in DOMAIN cmd.ops
      /\ pc = "asked" => at = 1
  BY Zenon DEF IInv, Typing, Going
<1> DEFINE Fine == pc' \in {"run", "receipts"} => at' \in DOMAIN cmd'.ops
<1>2. ASSUME NEW profile, Apply(profile) PROVE Fine
  BY <1>2 DEF Apply, Ask
<1>3. ASSUME NEW q \in Requests, Operate(q) PROVE Fine
  BY <1>3 DEF Operate, Ask
<1>4. ASSUME Confirm PROVE Fine
  <2>1. SUFFICES ASSUME pc' = "run" PROVE at' \in DOMAIN cmd'.ops
    BY <1>4 DEF Confirm
  <2>2. pc = "asked" /\ at' = at /\ cmd' = [cmd EXCEPT !.seen = Now] /\ cmd.ops # <<>>
    BY <1>4, <2>1 DEF Confirm
  <2>3. Carried(cmd) /\ Listed(cmd.ops) /\ at' = 1
    BY <1>1, <2>2 DEF Decided
  <2> DEFINE w == Now
  <2>4. cmd' = [cmd EXCEPT !.seen = w] /\ Carried(cmd)
    BY <2>2, <2>3, Zenon
  <2> HIDE DEF w
  <2>5. Same(cmd, cmd')
    BY <2>4, CommandSees
  <2>6. 1 \in DOMAIN cmd.ops
    BY <2>2, <2>3 DEF Listed
  <2> QED
    BY <2>3, <2>5, <2>6, Zenon DEF Same
<1>5. ASSUME Step PROVE Fine
  <2>1. pc = "run" /\ Same(cmd, cmd')
    BY <1>5, StepCarries, Zenon
  <2>2. cmd'.ops = cmd.ops /\ at \in DOMAIN cmd.ops
    BY <1>1, <2>1 DEF Same
  <2>3. at' = at \/ (at' = at + 1 /\ at + 1 \in PlanOf(at))
    BY <1>5, Zenon DEF Step
  <2> QED
    BY <2>2, <2>3 DEF PlanOf
<1>6. ASSUME Commit PROVE Fine
  <2>1. SUFFICES ASSUME pc' = "run" PROVE at' \in DOMAIN cmd'.ops
    BY <1>6 DEF Commit
  <2>2. pc = "receipts" /\ cmd' = cmd /\ at < Len(cmd.ops) /\ at' = at + 1
    BY <1>6, <2>1 DEF Commit
  <2>3. Listed(cmd.ops) /\ at \in DOMAIN cmd.ops
    BY <1>1, <2>2 DEF Decided
  <2> QED
    BY <2>2, <2>3 DEF Listed
<1>7. ASSUME Aside PROVE Fine
  <2>1. SUFFICES ASSUME pc' # "idle" PROVE Fine
    OBVIOUS
  <2>2. pc' = pc /\ at' = at /\ Same(cmd, cmd')
    BY <1>1, <1>7, <2>1, AsideCarries
  <2> QED
    BY <1>1, <2>2, Zenon DEF Same
<1> HIDE DEF Fine
<1>8. Fine
  BY <1>2, <1>3, <1>4, <1>5, <1>6, <1>7, StepsAre
<1> QED
  BY <1>8 DEF Fine

\* The invariant holds at first, and every step preserves it.
LEMMA Start == Init => IInv
<1> SUFFICES ASSUME Init PROVE IInv
  OBVIOUS
<1>1. Ready
  BY IntentsAssumption DEF Init, Ready
<1>2. Typing
  <2>1. ValidDocument(catalog)
    BY Zenon DEF Init
  <2>2. \A id \in DOMAIN machine : machine[id] = None
    BY DEF Init
  <2> HIDE DEF ValidDocument
  <2> QED
    BY <2>1, <2>2, BundleApplyAssumption DEF Init, Typing
<1>3. Going /\ ~Running /\ pc = "idle"
  BY DEF Init, Going, Running
<1> QED
  BY <1>1, <1>2, <1>3 DEF IInv

LEMMA Inductive == IInv /\ [Next]_vars => IInv'
<1> SUFFICES ASSUME IInv, [Next]_vars PROVE IInv'
  OBVIOUS
<1>1. Ready'
  BY ReadyStays
<1>2. Typing'
  <2>1. Typing
    BY Zenon DEF IInv
  <2> QED
    BY <2>1, RestStays, MachineStays, PlaceStays, Zenon DEF Typing
<1>3. Going'
  BY GoingStays
<1>4. (pc' # "idle" => Decided(cmd')) /\ (Running' => Confirmed(cmd'))
  BY CommandsAreDecided
<1>5. Decided(cmd)' <=> Decided(cmd')
  BY DEF Decided, Carried, Carrying, Loaded, Listed, Permissible
<1> QED
  BY <1>1, <1>2, <1>3, <1>4, Zenon DEF IInv
\* Every reachable state satisfies the invariant.
LEMMA Always == Spec => []IInv
BY Start, Inductive, PTL DEF Spec

\* While a command runs, each of its operations was granted, and what it was
\* granted on is what was seen when it was confirmed.
LEMMA WhatRunsWasGranted ==
  ASSUME IInv, Running, NEW k \in DOMAIN cmd.ops
  PROVE  /\ Granted(cmd.base, cmd.ops[k].op, cmd.ops[k].resolution, FALSE)
         /\ cmd.ops[k].op \in {"install", "upgrade", "repair", "remove"}
         /\ Loaded(cmd.base) /\ Confirmed(cmd) /\ Decided(cmd)
<1>1. pc # "idle"
  BY DEF Running
<1> QED
  BY <1>1, Zenon DEF IInv, Decided, Permissible

\* Types and control points: a command under way has been decided, what runs has
\* a next operation, and every operation of a command has a source (TypeOK).
THEOREM CommandsAreTyped == Spec => []TypeOK
<1>1. ASSUME IInv PROVE TypeOK
  <2>1. ASSUME pc # "idle", NEW k \in DOMAIN cmd.ops
        PROVE  cmd.ops[k].resolution.error = "" /\ cmd.ops[k].resolution.selected # 0
    BY <1>1, <2>1, Zenon DEF IInv, Decided, Permissible, Granted
  <2>2. Ready /\ Typing
    BY <1>1, Zenon DEF IInv
  <2> QED
    BY <2>1, <2>2, Zenon DEF Ready, Typing, TypeOK
<1> QED
  BY <1>1, Always, PTL

\* Marks bind every command: what runs neither removes nor upgrades a package
\* whose own id was held when the run was confirmed, and what it installs over
\* an installed package has the version of that package's pin, whatever names the
\* package and whatever changed while the prompt was open.
THEOREM HeldAndPinnedStay == Spec => []MarksAreRespected
<1>1. ASSUME IInv, Running, NEW k \in DOMAIN cmd.ops, IsInstalled(cmd.seen, Id(cmd.ops[k]))
      PROVE  LET o == cmd.ops[k]  now == cmd.seen.installed IN
             /\ o.op \in {"remove", "upgrade"} => ~now[Id(o)].held
             /\ o.op # "remove" /\ now[Id(o)].pinned # NoVersion => o.resolution.version = now[Id(o)].pinned
  <2> DEFINE o == cmd.ops[k]
             r == o.resolution
             mine == cmd.base.installed[r.id]
  <2>1. Granted(cmd.base, o.op, r, FALSE) /\ Confirmed(cmd)
    BY <1>1, WhatRunsWasGranted
  <2>2. cmd.seen.installed = cmd.base.installed
    BY <2>1, Zenon DEF Confirmed
  <2>3. IsInstalled(cmd.base, r.id)
    BY <1>1, <2>2, Zenon DEF IsInstalled, Id
  <2>4. /\ Marked(cmd.base, r.id, o.op, [version |-> r.version]) = {}
        /\ o.op # "remove" /\ mine.pinned # NoVersion => r.version # NoVersion
    BY <2>1, <2>3, Zenon DEF Granted
  <2>5. /\ ~(mine.held /\ o.op \in {"remove", "upgrade"})
        /\ ~(NoVersion \notin {mine.pinned, r.version} /\ mine.pinned # r.version)
    <3> DEFINE Asked == [version |-> r.version]
    <3>1. Asked.version = r.version
      OBVIOUS
    <3>2. Marked(cmd.base, r.id, o.op, Asked) = {}
      BY <2>4
    <3> HIDE DEF Asked, r, o
    <3>3. If(mine.held /\ o.op \in {"remove", "upgrade"}, "package.held") = {}
      BY <2>3, <3>1, <3>2, Zenon DEF Marked
    <3>4. If(NoVersion \notin {mine.pinned, Asked.version} /\ mine.pinned # Asked.version, "package.pinned") = {}
      BY <2>3, <3>2, Zenon DEF Marked
    <3> QED
      BY <3>1, <3>3, <3>4, Zenon DEF If
  <2>6. Id(o) = r.id
    BY DEF Id
  <2> QED
    BY <2>2, <2>4, <2>5, <2>6, Zenon
<1>2. ASSUME IInv PROVE MarksAreRespected
  BY <1>1, <1>2, Zenon DEF MarksAreRespected
<1> QED
  BY <1>2, Always, PTL

\* No policy in force when a run is confirmed denies anything that it does,
\* conflict removals included, but for the age of a review, which is that of the
\* day of the decision.
THEOREM WhatRunsIsAllowed == Spec => []PolicyAllowsWhatRuns
<1>1. ASSUME IInv, Running, NEW k \in DOMAIN cmd.ops, NEW w, w = [cmd.seen EXCEPT !.day = cmd.base.day]
      PROVE  LET r == cmd.ops[k].resolution  s == Selected(r)
                 ctx == PolicyContext(w, r.id, s, [version |-> r.version], FALSE)
             IN \E p \in Range(w.catalog.packages) :
                  p.id = r.id /\ s \in Range(p.sources) /\ Allowed(Decision(w.layers, p, s, cmd.ops[k].op, ctx))
  <2> DEFINE r == cmd.ops[k].resolution
             s == Selected(r)
             op == cmd.ops[k].op
             asked == [version |-> r.version]
  <2>1. Granted(cmd.base, op, r, FALSE) /\ Confirmed(cmd)
    BY <1>1, WhatRunsWasGranted
  <2>2. /\ cmd.seen = StateOf(cmd.seen.catalog, cmd.seen.layers, cmd.seen.platform, cmd.seen.day, cmd.seen.installed)
        /\ cmd.seen.catalog = cmd.base.catalog /\ cmd.seen.layers = cmd.base.layers
        /\ cmd.seen.installed = cmd.base.installed
    BY <2>1, Zenon DEF Confirmed
  <2>3. w = StateOf(cmd.seen.catalog, cmd.seen.layers, cmd.seen.platform, cmd.base.day, cmd.seen.installed)
    BY <1>1, <2>2, Zenon DEF StateOf
  <2>4. w.catalog = cmd.base.catalog /\ w.layers = cmd.base.layers /\ w.installed = cmd.base.installed /\ w.day = cmd.base.day
    BY <2>2, <2>3, Zenon DEF StateOf
  <2>5. PICK p \in Range(cmd.base.catalog.packages) :
          /\ p.id = r.id /\ s \in Range(p.sources)
          /\ Allowed(Decision(cmd.base.layers, p, s, op, PolicyContext(cmd.base, r.id, s, asked, FALSE)))
    BY <2>1, Zenon DEF Granted
  <2>6. PolicyContext(w, r.id, s, asked, FALSE) = PolicyContext(cmd.base, r.id, s, asked, FALSE)
    BY <2>4, Zenon DEF PolicyContext, IsInstalled
  <2> QED
    BY <2>4, <2>5, <2>6, Zenon
<1>2. ASSUME IInv PROVE PolicyAllowsWhatRuns
  BY <1>1, <1>2, Zenon DEF PolicyAllowsWhatRuns
<1> QED
  BY <1>2, Always, PTL

\* What runs under a lock is what was locked: the catalog, the policy and the
\* versions observed are those it names, and each package of the bundle comes
\* from the source of its entry.
THEOREM LockedIsWhatRuns == Spec => []LockedRunsAsLocked
<1>1. ASSUME IInv PROVE LockedRunsAsLocked
  <2>1. SUFFICES ASSUME Running, cmd.supplied # None
        PROVE  LET lock == cmd.supplied IN
               /\ lock.catalog = cmd.seen.catalog /\ lock.layers = cmd.seen.layers /\ lock.intent = cmd.bundle
               /\ VersionsStand(cmd.seen, lock)
               /\ \A k \in DOMAIN cmd.ops : cmd.ops[k].own =>
                    \E e \in Entries(lock) : e.id = Id(cmd.ops[k]) /\ e.source = Selected(cmd.ops[k].resolution).id
    BY DEF LockedRunsAsLocked
  <2>2. Decided(cmd) /\ Confirmed(cmd)
    BY <1>1, <2>1 DEF IInv, Running
  <2>3. cmd.lock = cmd.supplied /\ cmd.lock.intent = cmd.bundle
    BY <2>1, <2>2, Zenon DEF Decided
  <2>4. ContextStands(cmd.seen, cmd.lock) /\ VersionsStand(cmd.seen, cmd.lock)
    BY <2>1, <2>2, Zenon DEF Confirmed
  <2>5. cmd.lock.catalog = cmd.seen.catalog /\ cmd.lock.layers = cmd.seen.layers
    BY <2>4, Zenon DEF ContextStands
  <2>6. \A k \in DOMAIN cmd.ops : cmd.ops[k].own => \E e \in Entries(cmd.lock) : Covers(e, cmd.ops[k])
    BY <2>1, <2>2, Zenon DEF Decided
  <2> QED
    BY <2>3, <2>4, <2>5, <2>6, Zenon DEF Covers
<1> QED
  BY <1>1, Always, PTL
-----------------------------------------------------------------------------
(* Versions *)

LEMMA LengthsAdd ==
  ASSUME NEW X, NEW a \in Seq(X), NEW b \in Seq(X)
  PROVE  a \o b \in Seq(X) /\ Len(a \o b) = Len(a) + Len(b)
OBVIOUS

\* A semantic key has five parts.
LEMMA KeysAreFive ==
  ASSUME NEW v
  PROVE  \E X : SemanticKey(v) \in Seq(X) /\ Len(SemanticKey(v)) = 5
<1> DEFINE part(mark) == IF Suffix(v) # <<>> /\ Suffix(v)[1] = mark THEN PreRank(Suffix(v)[2]) ELSE -1
           a == IF part(Dash) = -1 THEN 99 ELSE part(Dash)
           b == part(Plus)
           N(i) == IF 2 * i - 1 <= Len(Base(v)) THEN v[2 * i - 1] ELSE 0
           X == {N(i) : i \in 1..3} \union {a, b}
           numbers == [i \in 1..3 |-> N(i)]
           rest == <<a, b>>
<1>1. SemanticKey(v) = numbers \o rest
  BY Zenon DEF SemanticKey, Numbers
<1>2. numbers \in Seq(X) /\ Len(numbers) = 3
  <2>1. \A i \in 1..3 : N(i) \in X
    OBVIOUS
  <2> HIDE DEF X, N
  <2> QED
    BY <2>1
<1>3. rest \in Seq(X) /\ Len(rest) = 2
  <2>1. a \in X /\ b \in X
    OBVIOUS
  <2> HIDE DEF X, a, b
  <2> QED
    BY <2>1
<1> HIDE DEF numbers, rest, X
<1>4. numbers \o rest \in Seq(X) /\ Len(numbers \o rest) = 3 + 2
  BY <1>2, <1>3, LengthsAdd, Zenon
<1> QED
  BY <1>1, <1>4

\* What is before without regard to build metadata is before.
LEMMA BeforeByPrefix ==
  ASSUME NEW X, NEW a \in Seq(X), NEW Y, NEW b \in Seq(Y), Len(a) = 5, Len(b) = 5,
         Before(SubSeq(a, 1, 4), SubSeq(b, 1, 4), 0)
  PROVE  Before(a, b, 0)
<1> DEFINE c == SubSeq(a, 1, 4)
           d == SubSeq(b, 1, 4)
<1>1. Len(c) = 4 /\ DOMAIN c = 1..4 /\ \A i \in 1..4 : c[i] = a[i]
  OBVIOUS
<1>2. Len(d) = 4 /\ DOMAIN d = 1..4 /\ \A i \in 1..4 : d[i] = b[i]
  OBVIOUS
<1>3. DOMAIN a = 1..5 /\ DOMAIN b = 1..5
  OBVIOUS
<1>4. Before(c, d, 0)
  OBVIOUS
<1> HIDE DEF c, d
<1>5. PICK i \in 1..4 : /\ \A j \in 1..(i - 1) : j \in DOMAIN c /\ j \in DOMAIN d /\ c[j] = d[j]
                        /\ c[i] < d[i]
  BY <1>1, <1>2, <1>4 DEF Before
<1>6. i \in 1..5 /\ a[i] < b[i] /\ \A j \in 1..(i - 1) : j \in 1..5 /\ a[j] = b[j]
  BY <1>1, <1>2, <1>5
<1> QED
  BY <1>3, <1>6 DEF Before

\* What an exact constraint accepts is older than m only where the constraint's own text is.
LEMMA OlderByText ==
  ASSUME NEW c, Exact(c), NEW v, Satisfies(v, c), NEW m, Semantic(m) \/ v = c.text, Older(v, m)
  PROVE  VersionBefore(c.text, m)
<1> DEFINE t == c.text
<1>1. ASSUME NEW x, Semantic(x), Semantic(m), Before(SubSeq(SemanticKey(x), 1, 4), SubSeq(SemanticKey(m), 1, 4), 0)
      PROVE  VersionBefore(x, m)
  <2>1. PICK X : SemanticKey(x) \in Seq(X) /\ Len(SemanticKey(x)) = 5
    BY KeysAreFive
  <2>2. PICK Y : SemanticKey(m) \in Seq(Y) /\ Len(SemanticKey(m)) = 5
    BY KeysAreFive
  <2>3. Before(SemanticKey(x), SemanticKey(m), 0)
    BY <1>1, <2>1, <2>2, BeforeByPrefix
  <2> QED
    BY <1>1, <2>3, Zenon DEF VersionBefore
<1>2. CASE v = t
  <2>1. CASE Semantic(t) /\ Semantic(m)
    <3>1. Before(SubSeq(SemanticKey(t), 1, 4), SubSeq(SemanticKey(m), 1, 4), 0)
      BY <1>2, <2>1, Zenon DEF Older
    <3> QED
      BY <1>1, <2>1, <3>1
  <2>2. CASE ~(Semantic(t) /\ Semantic(m))
    BY <1>2, <2>2, Zenon DEF Older, VersionBefore
  <2> QED
    BY <2>1, <2>2
<1>3. CASE v # t
  <2>1. Semantic(t) /\ Semantic(v) /\ SubSeq(SemanticKey(v), 1, 4) = SubSeq(SemanticKey(t), 1, 4)
    BY <1>3, Zenon DEF Satisfies
  <2>2. Before(SubSeq(SemanticKey(v), 1, 4), SubSeq(SemanticKey(m), 1, 4), 0) /\ Semantic(m)
    BY <1>3, <2>1, Zenon DEF Older
  <2>3. Before(SubSeq(SemanticKey(t), 1, 4), SubSeq(SemanticKey(m), 1, 4), 0)
    BY <2>1, <2>2, Zenon
  <2> QED
    BY <1>1, <2>1, <2>2, <2>3
<1> QED
  BY <1>2, <1>3

\* The built-in layer is always there, so that what is granted is no downgrade to an exact version.
LEMMA GrantedIsNoDowngrade ==
  ASSUME NEW w, Loaded(w), NEW op \in {"install", "upgrade", "repair"}, NEW r, Granted(w, op, r, FALSE),
         IsInstalled(w, r.id), r.version # NoVersion, Exact(r.version)
  PROVE  ~VersionBefore(r.version.text, w.installed[r.id].version)
<1> DEFINE asked == [version |-> r.version]
           s == Selected(r)
           ctx == PolicyContext(w, r.id, s, asked, FALSE)
           m == w.installed[r.id].version
<1>1. PICK p \in Range(w.catalog.packages) : Allowed(Decision(w.layers, p, s, op, ctx))
  BY Zenon DEF Granted
<1>2. \E i \in DOMAIN w.layers : w.layers[i] = SecureDefaults
  <2>1. PICK list \in PolicyFiles : w.layers = LayersOf(list)
    BY DEF Loaded
  <2>2. list \in Seq(Range(list))
    BY <2>1, PoliciesAssumption DEF Listed
  <2>3. SecureDefaults \in Range(LayersOf(list))
    BY <2>2, LayersAre
  <2> QED
    BY <2>1, <2>3 DEF Range
<1>3. Downgrade(SecureDefaults, op, ctx) = {}
  <2>1. PICK i \in DOMAIN w.layers : w.layers[i] = SecureDefaults
    BY <1>2
  <2>2. Reasons(w.layers, p, s, op, ctx) = {}
    <3> DEFINE reasons == Reasons(w.layers, p, s, op, ctx)
               d == Decision(w.layers, p, s, op, ctx)
    <3>1. d.reasons = reasons
      BY Zenon DEF Decision
    <3> QED
      BY <1>1, <3>1, Zenon DEF Allowed
  <2> HIDE DEF s, ctx
  <2>3. LayerCodes(w.layers[i], p, s, op, ctx) = {}
    <3> DEFINE codes == LayerCodes(w.layers[i], p, s, op, ctx)
               objections == {<<w.layers[i].id, code, Age(code, s, ctx)>> : code \in codes}
    <3>1. objections \subseteq Reasons(w.layers, p, s, op, ctx)
      BY Zenon DEF Reasons
    <3>2. objections = {}
      BY <2>2, <3>1, Zenon
    <3> HIDE DEF codes
    <3>3. codes = {}
      BY <3>2
    <3> QED
      BY <3>3 DEF codes
  <2>4. Downgrade(w.layers[i], op, ctx) \subseteq LayerCodes(w.layers[i], p, s, op, ctx)
    BY DEF LayerCodes
  <2> QED
    BY <2>1, <2>3, <2>4
<1>4. ctx.installed = m /\ ctx.target = r.version
  <2>1. asked.version = r.version
    OBVIOUS
  <2> HIDE DEF asked, s
  <2> QED
    BY <2>1, Zenon DEF PolicyContext
<1>5. m # NoVersion
  BY BundleApplyAssumption DEF Loaded, IsInstalled
<1> HIDE DEF ctx, m, s
<1>6. SecureDefaults.noDowngrade
  BY DEF SecureDefaults, Neutral
<1>7. If(Exact(ctx.target) /\ VersionBefore(ctx.target.text, ctx.installed), "downgrade") = {}
  BY <1>3, <1>4, <1>5, <1>6, Zenon DEF Downgrade
<1>8. ~(Exact(ctx.target) /\ VersionBefore(ctx.target.text, ctx.installed))
  BY <1>7, Zenon DEF If
<1> QED
  BY <1>4, <1>8, Zenon DEF m
\* An exact version never replaces a later one that the receipts record truly:
\* the built-in layer prevents it, whatever other policy there is.
THEOREM ExactIsNeverOlder == Spec => NeverDowngraded
<1> DEFINE NotOlder(id) ==
             /\ pc = "run" /\ changes' = changes /\ Id(O) = id /\ ~Idle(O) /\ O.op # "remove"
             /\ O.resolution.version # NoVersion /\ Exact(O.resolution.version)
             /\ id \in DOMAIN cmd.base.installed /\ machine[id] = cmd.base.installed[id].version
             /\ machine'[id] \notin {machine[id], None}
             /\ Semantic(machine[id]) \/ machine'[id] = O.resolution.version.text
             => ~Older(machine'[id], machine[id])
<1>1. ASSUME IInv, [Next]_vars, NEW id \in DOMAIN machine,
             pc = "run", changes' = changes, Id(O) = id, ~Idle(O), O.op # "remove",
             O.resolution.version # NoVersion, Exact(O.resolution.version),
             id \in DOMAIN cmd.base.installed, machine[id] = cmd.base.installed[id].version,
             machine'[id] \notin {machine[id], None},
             Semantic(machine[id]) \/ machine'[id] = O.resolution.version.text
      PROVE  ~Older(machine'[id], machine[id])
  <2> DEFINE r == O.resolution
             v == machine'[id]
             m == machine[id]
  <2>1. at \in DOMAIN cmd.ops /\ Running
    BY <1>1 DEF IInv, Typing, Running
  <2>2. /\ Granted(cmd.base, O.op, r, FALSE) /\ Loaded(cmd.base)
        /\ O.op \in {"install", "upgrade", "repair", "remove"}
    BY <1>1, <2>1, WhatRunsWasGranted, Zenon DEF O
  <2>3. IsInstalled(cmd.base, r.id) /\ m = cmd.base.installed[r.id].version
    BY <1>1 DEF IsInstalled, Id
  <2>4. ~VersionBefore(r.version.text, m)
    BY <1>1, <2>2, <2>3, GrantedIsNoDowngrade
  <2>5. Satisfies(v, r.version)
    <3>1. \E x \in {m} \union Outcomes(O) : machine' = [machine EXCEPT ![id] = x]
      <4>1. Step => \E x \in Outcomes(O) : machine' = [machine EXCEPT ![Id(O)] = x]
        BY <1>1, Zenon DEF Step
      <4>2. Fail => \E x \in {machine[Id(O)]} \union Outcomes(O) : machine' = [machine EXCEPT ![Id(O)] = x]
        BY <1>1, Zenon DEF Fail
      <4>3. \A y : ~Elsewhere(y)
        <5>1. Change => changes' = changes + 1
          BY Zenon DEF Change
        <5>2. changes \in 0..MaxChanges
          BY <1>1, Zenon DEF IInv, Typing
        <5>3. changes' # changes + 1
          BY <1>1, <5>2, BundleApplyAssumption
        <5> QED
          BY <5>1, <5>3, Zenon DEF Elsewhere
      <4>4. Step \/ Fail \/ (\E y : Elsewhere(y)) \/ machine' = machine
        BY <1>1, Zenon DEF Next, vars, Apply, Operate, Ask, Lock, Refresh, WriteLock, Decline, Confirm, Commit, Finish,
             UpdateCatalog, ChangePolicy, EditBundle, NextDay, Pin, Hold, Release
      <4>5. machine' # machine
        BY <1>1
      <4> QED
        BY <1>1, <4>1, <4>2, <4>3, <4>4, <4>5, Zenon
    <3>2. PICK x \in {m} \union Outcomes(O) : machine' = [machine EXCEPT ![id] = x]
      BY <3>1
    <3>3. v = x
      BY <1>1, <3>2
    <3>4. v \in Outcomes(O)
      BY <1>1, <3>2, <3>3
    <3> HIDE DEF v
    <3>5. v \in {u \in VersionTexts : r.version # NoVersion => Satisfies(u, r.version)}
      BY <1>1, <3>4, Zenon DEF Outcomes
    <3> QED
      BY <1>1, <3>5, Zenon
  <2>6. Semantic(m) \/ v = r.version.text
    BY <1>1
  <2> HIDE DEF m, v
  <2>7. ASSUME Older(v, m) PROVE FALSE
    BY <1>1, <2>4, <2>5, <2>6, <2>7, OlderByText
  <2> QED
    BY <2>7, Zenon DEF m, v
<1>2. ASSUME IInv, [Next]_vars PROVE \A id \in DOMAIN machine : NotOlder(id)
  BY <1>1, <1>2, Zenon
<1>3. IInv /\ [Next]_vars => [\A id \in DOMAIN machine : NotOlder(id)]_vars
  BY <1>2, Zenon
<1>4. Spec => [][\A id \in DOMAIN machine : NotOlder(id)]_vars
  BY <1>3, Always, PTL DEF Spec
<1> QED
  BY <1>4 DEF NeverDowngraded

-----------------------------------------------------------------------------
(* Locks *)

\* A lock that is whole is what the bundle came to in the state of things that
\* it was made from.
Made(w, lock) ==
  /\ Loaded(w) /\ lock.intent \in Bundles
  /\ ResolveBundle(w, lock.intent, lock.profile, TRUE).error = ""
  /\ lock = ResolveBundle(w, lock.intent, lock.profile, TRUE).lock
MadeFrom == StateOf(lockfile.catalog, lockfile.layers, Host, lockedAt.day, lockedAt.installed)
LockIs == Whole => Made(MadeFrom, lockfile)

LockHas(lock, w, b, profile, entries) ==
  /\ lock.intent = b /\ lock.profile = profile /\ lock.references = Range(b.references)
  /\ lock.catalog = w.catalog /\ lock.layers = w.layers /\ lock.platform = w.platform
  /\ lock.packages = Sorted(entries)

LEMMA LockFields ==
  ASSUME NEW w, NEW b, NEW profile, NEW entries
  PROVE  LockHas(LockOf(w, b, profile, entries), w, b, profile, entries)
BY DEF LockOf, LockHas

\* Only bundle lock and bundle refresh write the lock.
LEMMA LockIsMade ==
  ASSUME Ready, NEW profile, Lock(profile)
  PROVE  LockIs'
<1> DEFINE w == Now
           b == bundle
           all == Gather(w, Intents(b, profile), Skipped(w, Intents(b, profile)), TRUE)
           x == ResolveBundle(w, b, profile, TRUE)
<1>1. x.error = "" /\ WriteLock(x.lock)
  BY Zenon DEF Lock
<1>2. Loaded(w) /\ b \in Bundles
  BY NowIsLoaded DEF Ready
<1>3. ComesTo(w, b, profile, TRUE, all, x)
  BY <1>1, <1>2, BundleResolves
<1>4. x.lock = LockOf(w, b, profile, all.entries)
  BY <1>3, Zenon DEF ComesTo
<1>5. w = StateOf(catalog, LayersOf(files), Host, day, Installed)
  BY Zenon DEF Now, StateOf
<1>6. w.catalog = catalog /\ w.layers = LayersOf(files)
  BY DEF Now
<1>7. lockedAt' = [installed |-> Installed, day |-> day] /\ (Whole' => lockfile' = x.lock)
  BY <1>1, Zenon DEF WriteLock, Whole
<1>8. lockedAt'.installed = Installed /\ lockedAt'.day = day
  BY <1>7
<1> HIDE DEF w, all
<1>9. x.lock.intent = b /\ x.lock.profile = profile /\ x.lock.catalog = w.catalog /\ x.lock.layers = w.layers
  <2>1. LockHas(LockOf(w, b, profile, all.entries), w, b, profile, all.entries)
    BY LockFields
  <2>2. LockHas(x.lock, w, b, profile, all.entries)
    BY <1>4, <2>1, Zenon
  <2> QED
    BY <2>2, Zenon DEF LockHas
<1>10. Made(w, x.lock)
  BY <1>1, <1>2, <1>9, Zenon DEF Made
<1>11. ASSUME Whole'
       PROVE  Made(StateOf(lockfile'.catalog, lockfile'.layers, Host, lockedAt'.day, lockedAt'.installed), lockfile')
  <2>1. lockfile' = x.lock
    BY <1>7, <1>11
  <2>2. lockfile'.catalog = catalog /\ lockfile'.layers = LayersOf(files)
    BY <1>6, <1>9, <2>1, Zenon
  <2>3. StateOf(lockfile'.catalog, lockfile'.layers, Host, lockedAt'.day, lockedAt'.installed) = w
    BY <1>5, <1>8, <2>2, Zenon
  <2> QED
    BY <1>10, <2>1, <2>3, Zenon
<1> QED
  BY <1>11, Zenon DEF LockIs, MadeFrom

LEMMA LockStays ==
  ASSUME Ready, LockIs, [Next]_vars
  PROVE  LockIs'
<1>1. \/ \E profile : Lock(profile)
      \/ lockfile' = lockfile /\ lockedAt' = lockedAt
  BY Zenon DEF Next, vars, Apply, Operate, Ask, Refresh, Decline, Confirm, Step, Commit, Finish, Fail,
       UpdateCatalog, ChangePolicy, EditBundle, NextDay, Pin, Hold, Release, Elsewhere, Change
<1>2. ASSUME lockfile' = lockfile, lockedAt' = lockedAt PROVE LockIs'
  <2>1. (Whole' <=> Whole) /\ MadeFrom' = MadeFrom
    BY <1>2, Zenon DEF Whole, MadeFrom
  <2>2. Whole' => Made(MadeFrom', lockfile')
    BY <1>2, <2>1, Zenon DEF LockIs
  <2> QED
    BY <2>2, Zenon DEF LockIs
<1> QED
  BY <1>1, <1>2, LockIsMade

LEMMA LockIsAlways == Spec => [](IInv /\ LockIs)
<1>1. Init => LockIs
  BY DEF Init, LockIs, Whole
<1>2. IInv /\ LockIs /\ [Next]_vars => LockIs'
  BY LockStays DEF IInv
<1> QED
  BY <1>1, <1>2, Start, Inductive, PTL DEF Spec

\* Of each package that is locked once the entry is the last one, and the only one.
LEMMA SortedOnce ==
  ASSUME NEW entries, Listed(entries), NEW id \in DOMAIN Sorted(entries), Len(Sorted(entries)[id]) = 1
  PROVE  /\ Sorted(entries)[id] = <<Last(Sorted(entries)[id])>>
         /\ Last(Sorted(entries)[id]) \in Range(entries) /\ Last(Sorted(entries)[id]).id = id
<1> DEFINE places == {k \in DOMAIN entries : entries[k].id = id}
           s == Sorted(entries)[id]
<1>1. s = Kept(entries, places)
  BY DEF Sorted
<1>2. Kept(entries, places) \in Seq(Range(entries))
      /\ Range(Kept(entries, places)) = {entries[k] : k \in places \intersect DOMAIN entries}
  BY KeptIs DEF Listed
<1> HIDE DEF s
<1>3. s \in Seq(Range(entries)) /\ \A e \in Range(s) : e \in Range(entries) /\ e.id = id
  BY <1>1, <1>2 DEF Range
<1>4. Len(s) = 1
  BY DEF s
<1>5. s = <<s[1]>> /\ Last(s) = s[1] /\ s[1] \in Range(s)
  BY <1>3, <1>4 DEF Last, Range
<1> QED
  BY <1>3, <1>5 DEF s

Differ(a, b) ==
  \/ <<a.source, a.backend, a.native>> # <<b.source, b.backend, b.native>>
  \/ <<a.version, a.observed>> # <<b.version, b.observed>>
  \/ <<a.state, a.scope, a.channel>> # <<b.state, b.scope, b.channel>>
  \/ <<a.features, a.conflict>> # <<b.features, b.conflict>>
  \/ a.material # b.material
  \/ a.explanation # b.explanation

\* Entries of one package that do not differ in what is compared are the same.
LEMMA ComparedIsAll ==
  ASSUME NEW w, NEW v, NEW a, NEW b, Truthful(w, a), Truthful(v, b), a.id = b.id, ~Differ(a, b)
  PROVE  a = b
<1>1. /\ a.source = b.source /\ a.backend = b.backend /\ a.native = b.native
      /\ a.version = b.version /\ a.observed = b.observed
      /\ a.state = b.state /\ a.scope = b.scope /\ a.channel = b.channel
      /\ a.features = b.features /\ a.conflict = b.conflict
      /\ a.material = b.material /\ a.explanation = b.explanation
  BY DEF Differ
<1>2. a = EntryOf(a.id, a.state, a.source, a.backend, a.native, a.version, a.scope, a.channel, a.features,
                  a.conflict, a.material, a.explanation, a.observed)
  BY Zenon DEF Truthful
<1>3. b = EntryOf(b.id, b.state, b.source, b.backend, b.native, b.version, b.scope, b.channel, b.features,
                  b.conflict, b.material, b.explanation, b.observed)
  BY Zenon DEF Truthful
<1> QED
  BY <1>1, <1>2, <1>3, Zenon

\* What a report that finds nothing has found.
LEMMA ReportFinds ==
  ASSUME NEW old, NEW new, ReportsNothing(ReportedChanges(old, new))
  PROVE  /\ old.catalog = new.catalog /\ old.layers = new.layers /\ old.references = new.references
         /\ old.platform = new.platform /\ DOMAIN old.packages = DOMAIN new.packages
         /\ \A id \in DOMAIN old.packages : ~Differ(Last(old.packages[id]), Last(new.packages[id]))
<1> DEFINE both == DOMAIN old.packages \intersect DOMAIN new.packages
           report == ReportedChanges(old, new)
<1>1. /\ report.catalog = (old.catalog # new.catalog)
      /\ report.policy = (old.layers # new.layers \/ old.references # new.references)
      /\ report.platform = (old.platform # new.platform)
      /\ report.added = DOMAIN new.packages \ both /\ report.removed = DOMAIN old.packages \ both
      /\ report.changed = {id \in both : Differ(Last(old.packages[id]), Last(new.packages[id]))}
  BY Zenon DEF ReportedChanges, Differ
<1>2. /\ ~report.catalog /\ ~report.policy /\ ~report.platform
      /\ report.added = {} /\ report.removed = {} /\ report.changed = {}
  BY DEF ReportsNothing
<1> HIDE DEF report
<1> QED
  BY <1>1, <1>2

AllTruthful(w, entries) == Listed(entries) /\ \A e \in Range(entries) : Truthful(w, e)

\* Two locks of one bundle between which nothing is reported are the same.
LEMMA NothingReportedNothingChanged ==
  ASSUME NEW w, NEW v, NEW b, NEW profile, NEW these, NEW those, AllTruthful(w, these), AllTruthful(v, those),
         Distinct(LockOf(w, b, profile, these)), Distinct(LockOf(v, b, profile, those)),
         ReportsNothing(ReportedChanges(LockOf(w, b, profile, these), LockOf(v, b, profile, those)))
  PROVE  LockOf(v, b, profile, those) = LockOf(w, b, profile, these)
<1> DEFINE old == LockOf(w, b, profile, these)
           new == LockOf(v, b, profile, those)
<1>0. /\ Listed(these) /\ \A e \in Range(these) : Truthful(w, e)
      /\ Listed(those) /\ \A e \in Range(those) : Truthful(v, e)
  BY DEF AllTruthful
<1>7. LockHas(old, w, b, profile, these) /\ LockHas(new, v, b, profile, those)
  BY LockFields
<1>8. Distinct(old) /\ Distinct(new) /\ ReportsNothing(ReportedChanges(old, new))
  OBVIOUS
<1> HIDE DEF old, new
<1>1. old.packages = Sorted(these) /\ new.packages = Sorted(those)
  BY <1>7, Zenon DEF LockHas
<1>2. /\ old.catalog = w.catalog /\ old.layers = w.layers /\ old.platform = w.platform
      /\ new.catalog = v.catalog /\ new.layers = v.layers /\ new.platform = v.platform
  BY <1>7, Zenon DEF LockHas
<1>3. /\ old.catalog = new.catalog /\ old.layers = new.layers /\ old.platform = new.platform
      /\ DOMAIN old.packages = DOMAIN new.packages
      /\ \A id \in DOMAIN old.packages : ~Differ(Last(old.packages[id]), Last(new.packages[id]))
  BY <1>8, ReportFinds
<1>4. ASSUME NEW id \in DOMAIN old.packages PROVE old.packages[id] = new.packages[id]
  <2> DEFINE e == Last(Sorted(these)[id])
             f == Last(Sorted(those)[id])
  <2>1. id \in DOMAIN Sorted(these) /\ id \in DOMAIN Sorted(those)
    BY <1>1, <1>3
  <2>2. Len(Sorted(these)[id]) = 1 /\ Len(Sorted(those)[id]) = 1
    BY <1>1, <1>8, <2>1, Zenon DEF Distinct
  <2>3. Sorted(these)[id] = <<e>> /\ e \in Range(these) /\ e.id = id
    BY <1>0, <2>1, <2>2, SortedOnce
  <2>4. Sorted(those)[id] = <<f>> /\ f \in Range(those) /\ f.id = id
    BY <1>0, <2>1, <2>2, SortedOnce
  <2>5. ~Differ(e, f)
    BY <1>1, <1>3, Zenon
  <2> HIDE DEF e, f
  <2>6. Truthful(w, e) /\ Truthful(v, f) /\ e.id = f.id
    BY <1>0, <2>3, <2>4
  <2>7. e = f
    BY <2>5, <2>6, ComparedIsAll
  <2> QED
    BY <1>1, <2>3, <2>4, <2>7, Zenon
<1>5. Sorted(these) = Sorted(those)
  <2>1. Sorted(these) = [id \in DOMAIN Sorted(these) |-> Sorted(these)[id]]
        /\ Sorted(those) = [id \in DOMAIN Sorted(those) |-> Sorted(those)[id]]
    BY DEF Sorted
  <2>2. DOMAIN Sorted(these) = DOMAIN Sorted(those) /\ \A id \in DOMAIN Sorted(these) : Sorted(these)[id] = Sorted(those)[id]
    BY <1>1, <1>3, <1>4, Zenon
  <2> DEFINE f == Sorted(these)
             g == Sorted(those)
  <2> HIDE DEF f, g
  <2>3. f = [id \in DOMAIN f |-> f[id]] /\ g = [id \in DOMAIN g |-> g[id]]
        /\ DOMAIN f = DOMAIN g /\ \A id \in DOMAIN f : f[id] = g[id]
    BY <2>1, <2>2, Zenon DEF f, g
  <2>4. f = g
    BY <2>3
  <2> QED
    BY <2>4 DEF f, g
<1>6. w.catalog = v.catalog /\ w.layers = v.layers /\ w.platform = v.platform
  BY <1>2, <1>3, Zenon
<1> QED
  BY <1>5, <1>6, Zenon DEF LockOf

\* Where no layer demands dry runs it makes no difference whether a run is one.
LEMMA CodesOfADryRun ==
  ASSUME NEW l, ~l.dryRun, NEW p, NEW s, NEW op, NEW c, NEW d,
         c.day = d.day, c.target = d.target, c.installed = d.installed, c.hosts = d.hosts
  PROVE  LayerCodes(l, p, s, op, c) = LayerCodes(l, p, s, op, d)
<1>1. Network(l, s, op, c) = Network(l, s, op, d)
  <2>1. Endpoints(s, c) = Endpoints(s, d)
    BY Zenon DEF Endpoints
  <2> QED
    BY <2>1, Zenon DEF Network
<1>2. Downgrade(l, op, c) = Downgrade(l, op, d)
  BY Zenon DEF Downgrade
<1>3. If(l.dryRun /\ op # "verify" /\ ~c.dryRun, "dry_run.required")
      = If(l.dryRun /\ op # "verify" /\ ~d.dryRun, "dry_run.required")
  BY Zenon DEF If
<1>4. Freshness(l, s, c.day) = Freshness(l, s, d.day)
  OBVIOUS
<1> QED
  BY <1>1, <1>2, <1>3, <1>4, Zenon DEF LayerCodes

NoDryRuns(layers) == \A i \in DOMAIN layers : ~layers[i].dryRun

LEMMA DecisionOfADryRun ==
  ASSUME NEW layers, NoDryRuns(layers), NEW w, NEW id, NEW p, NEW s, NEW op, NEW opts
  PROVE  Decision(layers, p, s, op, PolicyContext(w, id, s, opts, TRUE))
         = Decision(layers, p, s, op, PolicyContext(w, id, s, opts, FALSE))
<1> DEFINE c == PolicyContext(w, id, s, opts, TRUE)
           d == PolicyContext(w, id, s, opts, FALSE)
           Codes(i, ctx) == {<<layers[i].id, code, Age(code, s, ctx)>> : code \in LayerCodes(layers[i], p, s, op, ctx)}
<1>1. c.day = d.day /\ c.target = d.target /\ c.installed = d.installed /\ c.hosts = d.hosts
  BY DEF PolicyContext
<1> HIDE DEF c, d
<1>2. \A code : Age(code, s, c) = Age(code, s, d)
  BY <1>1, Zenon DEF Age
<1>3. \A i \in DOMAIN layers : LayerCodes(layers[i], p, s, op, c) = LayerCodes(layers[i], p, s, op, d)
  BY <1>1, CodesOfADryRun DEF NoDryRuns
<1>4. \A i \in DOMAIN layers : Codes(i, c) = Codes(i, d)
  BY <1>2, <1>3
<1>5. Reasons(layers, p, s, op, c) = UNION {Codes(i, c) : i \in DOMAIN layers}
      /\ Reasons(layers, p, s, op, d) = UNION {Codes(i, d) : i \in DOMAIN layers}
  BY DEF Reasons
<1> HIDE DEF Codes
<1>6. Reasons(layers, p, s, op, c) = Reasons(layers, p, s, op, d)
  BY <1>4, <1>5
<1>7. Decision(layers, p, s, op, c) = Decision(layers, p, s, op, d)
  BY <1>6, Zenon DEF Decision
<1> QED
  BY <1>7 DEF c, d

LEMMA ResolveOfADryRun ==
  ASSUME NEW w, NoDryRuns(w.layers), NEW name, NEW op, NEW opts
  PROVE  Resolve(w, name, op, opts, TRUE) = Resolve(w, name, op, opts, FALSE)
<1>1. ASSUME NEW p, NEW s, NEW o PROVE Evaluate(w, p, s, op, o, TRUE) = Evaluate(w, p, s, op, o, FALSE)
  <2>1. Decision(w.layers, p, s, op, PolicyContext(w, p.id, s, o, TRUE))
        = Decision(w.layers, p, s, op, PolicyContext(w, p.id, s, o, FALSE))
    BY DecisionOfADryRun
  <2> QED
    BY <2>1, Zenon DEF Evaluate
<1>2. ASSUME NEW p, NEW o PROVE Evaluations(w, p, op, o, TRUE) = Evaluations(w, p, op, o, FALSE)
  <2>1. \A i \in DOMAIN p.sources : Evaluate(w, p, p.sources[i], op, o, TRUE) = Evaluate(w, p, p.sources[i], op, o, FALSE)
    BY <1>1, Zenon
  <2> QED
    BY <2>1 DEF Evaluations
<1>3. ASSUME NEW p, NEW o PROVE ResolveAs(w, p, op, o, TRUE) = ResolveAs(w, p, op, o, FALSE)
  BY <1>2, Zenon DEF ResolveAs
<1>4. ASSUME NEW p PROVE ResolvePackage(w, p, op, opts, TRUE) = ResolvePackage(w, p, op, opts, FALSE)
  BY <1>3, Zenon DEF ResolvePackage
<1> QED
  BY <1>4, Zenon DEF Resolve

LEMMA FurtherOfADryRun ==
  ASSUME NEW w, NoDryRuns(w.layers), NEW i, NEW skipped, NEW before
  PROVE  Further(w, i, skipped, before, TRUE) = Further(w, i, skipped, before, FALSE)
<1>1. \A name, op, opts : Resolve(w, name, op, opts, TRUE) = Resolve(w, name, op, opts, FALSE)
  BY ResolveOfADryRun
<1>2. \A removals : OwnOutcome(w, i, removals, TRUE) = OwnOutcome(w, i, removals, FALSE)
  BY <1>1, Zenon DEF OwnOutcome
<1>3. \A removals : MakingRoom(w, i, removals, TRUE) = MakingRoom(w, i, removals, FALSE)
  BY <1>2, Zenon DEF MakingRoom
<1>4. \A id : RemovalOf(w, id, TRUE) = RemovalOf(w, id, FALSE)
  BY <1>1, Zenon DEF RemovalOf
<1>5. ASSUME NEW going PROVE Removals(w, going, TRUE) = Removals(w, going, FALSE)
  <2> DEFINE O1(k) == [op |-> "remove", own |-> FALSE, for |-> going[k], resolution |-> RemovalOf(w, going[k], TRUE)]
             O2(k) == [op |-> "remove", own |-> FALSE, for |-> going[k], resolution |-> RemovalOf(w, going[k], FALSE)]
  <2>1. \A k \in DOMAIN going : O1(k) = O2(k)
    BY <1>4, Zenon
  <2>2. Removals(w, going, TRUE) = [k \in DOMAIN going |-> O1(k)]
        /\ Removals(w, going, FALSE) = [k \in DOMAIN going |-> O2(k)]
    BY Zenon DEF Removals
  <2> HIDE DEF O1, O2
  <2> QED
    BY <2>1, <2>2
<1>6. \A scheduled : IntentOutcome(w, i, skipped, scheduled, TRUE) = IntentOutcome(w, i, skipped, scheduled, FALSE)
  BY <1>3, <1>5, Zenon DEF IntentOutcome
<1> QED
  BY <1>6, Zenon DEF Further

LEMMA GatherIsTheSame ==
  ASSUME NEW w, NEW intents, Len(intents) \in Nat, NEW skipped, NEW c, NEW d,
         \A i, before : Further(w, i, skipped, before, c) = Further(w, i, skipped, before, d)
  PROVE  Gather(w, intents, skipped, c) = Gather(w, intents, skipped, d)
<1> DEFINE N == Len(intents)
<1>1. PICK f : /\ f = [n \in 0..Len(intents) |-> GatherAt(w, intents, skipped, c, f, n)]
               /\ Gather(w, intents, skipped, c) = f[Len(intents)]
  BY GatherUnfolds
<1>2. PICK g : /\ g = [n \in 0..Len(intents) |-> GatherAt(w, intents, skipped, d, g, n)]
               /\ Gather(w, intents, skipped, d) = g[Len(intents)]
  BY GatherUnfolds
<1> DEFINE Bad == {n \in 0..N : f[n] # g[n]}
<1>0. Bad \subseteq Nat
  OBVIOUS
<1>3. /\ \A n \in 0..N : f[n] = GatherAt(w, intents, skipped, c, f, n)
      /\ \A n \in 0..N : g[n] = GatherAt(w, intents, skipped, d, g, n)
  BY <1>1, <1>2
<1>4. f[0] = g[0]
  <2>1. 0 \in 0..N
    OBVIOUS
  <2> QED
    BY <1>3, <2>1, Zenon DEF GatherAt
<1>5. ASSUME NEW n \in 1..N, f[n - 1] = g[n - 1] PROVE f[n] = g[n]
  <2>1. n \in 0..N /\ n # 0
    OBVIOUS
  <2>2. f[n] = Further(w, intents[n], skipped, f[n - 1], c) /\ g[n] = Further(w, intents[n], skipped, g[n - 1], d)
    BY <1>3, <2>1, Zenon DEF GatherAt
  <2> QED
    BY <1>5, <2>2, Zenon
<1>6. ASSUME Bad # {} PROVE FALSE
  <2>1. PICK m \in Bad : \A k \in Bad : m <= k
    <3> HIDE DEF Bad
    <3> QED
      BY <1>0, <1>6, Least
  <2>2. m \in 1..N /\ m - 1 \in 0..N /\ m - 1 \notin Bad
    BY <1>4, <2>1
  <2> QED
    BY <1>5, <2>1, <2>2
<1>7. f[N] = g[N]
  BY <1>6
<1> QED
  BY <1>1, <1>2, <1>7

LEMMA BundleOfADryRun ==
  ASSUME NEW w, NoDryRuns(w.layers), NEW b \in Bundles, NEW profile
  PROVE  ResolveBundle(w, b, profile, TRUE) = ResolveBundle(w, b, profile, FALSE)
<1> DEFINE intents == Intents(b, profile)
           skipped == Skipped(w, intents)
<1>1. Listed(intents)
  BY IntentsAreListed
<1>2. Len(intents) \in Nat
  BY <1>1, PlacesCount, Zenon DEF Listed
<1>3. Gather(w, intents, skipped, TRUE) = Gather(w, intents, skipped, FALSE)
  <2>1. \A i, before : Further(w, i, skipped, before, TRUE) = Further(w, i, skipped, before, FALSE)
    BY FurtherOfADryRun
  <2> HIDE DEF intents, skipped
  <2> QED
    BY <1>2, <2>1, GatherIsTheSame, Zenon
<1> QED
  BY <1>3, Zenon DEF ResolveBundle

\* In a valid catalog, where every package has an id of its own, the id of a
\* package names it.
LEMMA IdNamesIt ==
  ASSUME NEW doc \in Catalogs, ValidDocument(doc), IsInjective([i \in DOMAIN doc.packages |-> doc.packages[i].id]),
         NEW p \in Range(doc.packages)
  PROVE  Known(doc, p.id) /\ Manifest(doc, p.id) = p
<1> DEFINE ps == doc.packages
           places == {i \in DOMAIN ps : p.id \in {ps[i].id} \union {Normal(a) : a \in ps[i].aliases}}
           at_ == Max(places)
<1>1. ps \in Seq(Range(ps))
  BY CatalogsAssumption DEF Listed
<1>2. Len(ps) \in Nat /\ DOMAIN ps = 1..Len(ps) /\ \A i \in DOMAIN ps : i # 0
  BY <1>1, PlacesCount
<1>3. PICK k \in DOMAIN ps : p = ps[k]
  BY DEF Range
<1>4. /\ \A i \in DOMAIN ps : Normal(ps[i].id) = ps[i].id /\ \A n \in Names(ps[i]) : SafeName(n)
      /\ IdentitiesApart(ps)
  BY Zenon DEF ValidDocument
<1>5. \A i, j \in DOMAIN ps : ps[i].id = ps[j].id => i = j
  <2> DEFINE ids == [i \in DOMAIN ps |-> ps[i].id]
  <2>1. IsInjective(ids) /\ DOMAIN ids = DOMAIN ps /\ \A i \in DOMAIN ps : ids[i] = ps[i].id
    OBVIOUS
  <2> HIDE DEF ids
  <2>2. \A i, j \in DOMAIN ids : ids[i] = ids[j] => i = j
    BY <2>1 DEF IsInjective
  <2> QED
    BY <2>1, <2>2, Zenon
<1>6. SafeName(p.id) /\ Normal(p.id) = p.id
  BY <1>3, <1>4 DEF Names
<1>7. places \in SUBSET (1..Len(ps)) /\ k \in places
  BY <1>2, <1>3
<1>8. at_ \in places
  BY <1>2, <1>7, MaxIsOne
<1>9. at_ = k
  <2>1. at_ \in DOMAIN ps /\ (p.id = ps[at_].id \/ \E a \in ps[at_].aliases : p.id = Normal(a))
    BY <1>8
  <2> HIDE DEF at_, places
  <2>2. ASSUME NEW a \in ps[at_].aliases, p.id = Normal(a), ps[at_].id # p.id PROVE FALSE
    <3>1. {Normal(n) : n \in Names(ps[at_])} \intersect {Normal(n) : n \in Names(ps[k])} = {}
      BY <1>3, <1>4, <2>1, <2>2 DEF IdentitiesApart
    <3>2. a \in Names(ps[at_]) /\ p.id \in Names(ps[k])
      BY <1>3, <2>2 DEF Names
    <3>3. p.id \in {Normal(n) : n \in Names(ps[at_])} /\ p.id \in {Normal(n) : n \in Names(ps[k])}
      BY <1>6, <2>2, <3>2
    <3> QED
      BY <3>1, <3>3
  <2> QED
    BY <1>3, <1>5, <2>1, <2>2
<1>10. ExactIndex(doc, p.id) = at_
  <2>1. ExactIndex(doc, p.id) = Indexed(places)
    BY Zenon DEF ExactIndex
  <2>2. places # {}
    BY <1>7
  <2> HIDE DEF places
  <2> QED
    BY <2>1, <2>2, Zenon DEF Indexed
<1>11. Lookup(doc, p.id) = Found(k, DeprecatedIndex(doc, p.id), Plausible(doc, p.id))
  BY <1>6, <1>9, <1>10, Zenon DEF Lookup, LookupNormal
<1>12. k # 0
  BY <1>2
<1>13. Lookup(doc, p.id) = [found |-> "exact", at |-> k]
  BY <1>11, <1>12, Zenon DEF Found
<1>14. Lookup(doc, p.id).found = "exact" /\ Lookup(doc, p.id).at = k
  BY <1>13
<1> QED
  BY <1>3, <1>14 DEF Known, Manifest

\* What is said of a package and its versions stands where it was said.
LEMMA EntryStands ==
  ASSUME NEW w, w.catalog \in Catalogs, ValidDocument(w.catalog),
         IsInjective([i \in DOMAIN w.catalog.packages |-> w.catalog.packages[i].id]),
         NEW e, Truthful(w, e)
  PROVE  /\ SourceStands(w, e)
         /\ e.observed # NoVersion => IsInstalled(w, e.id) /\ w.installed[e.id].version = e.observed
<1>1. PICK p \in Range(w.catalog.packages) : \E s \in Range(p.sources) :
        e.id = p.id /\ e.source = s.id /\ e.backend = s.backend /\ e.native = s.native /\ e.material = Material(s)
  BY Zenon DEF Truthful
<1>2. PICK s \in Range(p.sources) :
        e.id = p.id /\ e.source = s.id /\ e.backend = s.backend /\ e.native = s.native /\ e.material = Material(s)
  BY <1>1
<1>3. Known(w.catalog, e.id) /\ Manifest(w.catalog, e.id) = p
  <2> DEFINE doc == w.catalog
  <2>1. doc \in Catalogs /\ ValidDocument(doc) /\ p \in Range(doc.packages)
        /\ IsInjective([i \in DOMAIN doc.packages |-> doc.packages[i].id])
    OBVIOUS
  <2> HIDE DEF doc
  <2>2. Known(doc, p.id) /\ Manifest(doc, p.id) = p
    BY <2>1, IdNamesIt
  <2> QED
    BY <1>2, <2>2 DEF doc
<1>4. PICK k \in DOMAIN p.sources : p.sources[k] = s
  BY DEF Range
<1>5. SourceStands(w, e)
  BY <1>2, <1>3, <1>4, Zenon DEF SourceStands
<1>6. e.observed = IF IsInstalled(w, e.id) THEN w.installed[e.id].version ELSE NoVersion
  BY Zenon DEF Truthful
<1> QED
  BY <1>5, <1>6

\* The layers of files none of which demands dry runs.
LEMMA LayersWithoutDryRuns ==
  ASSUME NEW list \in PolicyFiles, \A k \in DOMAIN list : ~list[k].layer.dryRun
  PROVE  NoDryRuns(LayersOf(list))
<1>1. list \in Seq(Range(list))
  BY PoliciesAssumption DEF Listed
<1> DEFINE layers == LayersOf(list)
           places == {k \in DOMAIN list : list[k].named \/ list[k].facts.regular}
<1>2. Range(layers) = {SecureDefaults} \union {list[i].layer : i \in places}
  BY <1>1, LayersAre
<1>3. ~SecureDefaults.dryRun
  BY DEF SecureDefaults, Neutral
<1>4. \A i \in DOMAIN layers : layers[i] \in Range(layers)
  BY DEF Range
<1> HIDE DEF layers
<1>5. \A l \in Range(layers) : ~l.dryRun
  BY <1>2, <1>3
<1> QED
  BY <1>4, <1>5 DEF NoDryRuns, layers

\* An apply accepts a lock that nothing it depends on has outlived.
LEMMA FreshIsSupplied ==
  ASSUME IInv, NEW lock, Made(Now, lock), lock.intent = bundle, Distinct(lock),
         IsInjective([i \in DOMAIN catalog.packages |-> catalog.packages[i].id]),
         NoDryRuns(LayersOf(files))
  PROVE  /\ ResolveBundle(Now, bundle, lock.profile, FALSE).error = ""
         /\ Supplied(lock, lock.profile, ResolveBundle(Now, bundle, lock.profile, FALSE).lock)
<1> DEFINE w == Now
           b == bundle
           profile == lock.profile
           all == Gather(w, Intents(b, profile), Skipped(w, Intents(b, profile)), TRUE)
           x == ResolveBundle(w, b, profile, TRUE)
<1>1. w.catalog = catalog /\ w.layers = LayersOf(files)
  BY DEF Now
<1>2. Loaded(w) /\ b \in Bundles /\ x.error = "" /\ lock = x.lock
  BY Zenon DEF Made
<1>3. ComesTo(w, b, profile, TRUE, all, x)
  BY <1>2, BundleResolves
<1>4. ResolveBundle(w, b, profile, FALSE) = x
  BY <1>1, <1>2, BundleOfADryRun
<1>5. ValidDocument(w.catalog) /\ w.catalog \in Catalogs
  BY <1>1, Zenon DEF IInv, Typing, Ready
<1>6. IsInjective([i \in DOMAIN w.catalog.packages |-> w.catalog.packages[i].id])
  BY <1>1, Zenon
<1> HIDE DEF x, all, w
<1>7. lock = LockOf(w, b, profile, all.entries) /\ Range(b.references) \subseteq LayerIds(w.layers)
      /\ Good(w, TRUE, all) /\ all.error = ""
  BY <1>2, <1>3, Zenon DEF ComesTo
<1>8. Listed(all.entries) /\ \A e \in Range(all.entries) : Truthful(w, e)
  BY <1>7, Zenon DEF Good
<1>9. Entries(lock) = Range(all.entries)
  BY <1>7, <1>8, EntriesAre, Zenon
<1>10. \A e \in Entries(lock) : SourceStands(w, e)
         /\ (e.observed # NoVersion => IsInstalled(w, e.id) /\ w.installed[e.id].version = e.observed)
  BY <1>5, <1>6, <1>8, <1>9, EntryStands
<1>11. lock.catalog = w.catalog /\ lock.layers = w.layers /\ lock.platform = w.platform
       /\ lock.references \subseteq LayerIds(w.layers)
  <2>1. lock.catalog = w.catalog /\ lock.layers = w.layers /\ lock.platform = w.platform
        /\ lock.references = Range(b.references)
    <3>1. LockHas(LockOf(w, b, profile, all.entries), w, b, profile, all.entries)
      BY LockFields
    <3>2. LockHas(lock, w, b, profile, all.entries)
      BY <1>7, <3>1, Zenon
    <3> QED
      BY <3>2, Zenon DEF LockHas
  <2> QED
    BY <1>7, <2>1, Zenon
<1>12. ContextStands(w, lock) /\ VersionsStand(w, lock)
  BY <1>10, <1>11, Zenon DEF ContextStands, VersionsStand
<1>13. Supplied(lock, profile, x.lock)
  BY <1>2, <1>12, Zenon DEF Supplied, w
<1> QED
  BY <1>2, <1>4, <1>13, Zenon DEF w

\* Nothing that a lock records changes unreported (compare_locks), and an apply
\* accepts a lock as long as nothing that it was made from has changed
\* (verify_supplied_lock), wherever policy does not demand dry runs.
THEOREM LocksAreTruthful == Spec => []LockTellsTheTruth
<1>1. ASSUME IInv, LockIs PROVE LockTellsTheTruth
  <2>1. SUFFICES ASSUME Whole, lockfile.intent = bundle PROVE UntouchedIsAccepted /\ EveryChangeIsReported
    BY Zenon DEF LockTellsTheTruth
  <2> DEFINE w == MadeFrom
             profile == lockfile.profile
  <2>2. Made(w, lockfile)
    BY <1>1, <2>1, Zenon DEF LockIs
  <2>3. UntouchedIsAccepted
    <3>1. SUFFICES ASSUME Distinct(lockfile), IsInjective([i \in DOMAIN catalog.packages |-> catalog.packages[i].id]),
                          lockfile.catalog = catalog, lockfile.layers = LayersOf(files),
                          lockedAt = [installed |-> Installed, day |-> day],
                          \A k \in DOMAIN files : ~files[k].layer.dryRun
                   PROVE  /\ ResolveBundle(Now, bundle, profile, FALSE).error = ""
                          /\ Supplied(lockfile, profile, ResolveBundle(Now, bundle, profile, FALSE).lock)
      BY Zenon DEF UntouchedIsAccepted
    <3>2. lockedAt.installed = Installed /\ lockedAt.day = day
      BY <3>1
    <3>3. Now = w
      BY <3>1, <3>2, Zenon DEF Now, MadeFrom, StateOf
    <3>4. NoDryRuns(LayersOf(files))
      BY <1>1, <3>1, LayersWithoutDryRuns DEF IInv, Ready
    <3>5. Made(Now, lockfile)
      BY <2>2, <3>3, Zenon
    <3> QED
      BY <1>1, <2>1, <3>1, <3>4, <3>5, FreshIsSupplied
  <2>4. EveryChangeIsReported
    <3> DEFINE x == ResolveBundle(w, bundle, profile, TRUE)
               y == ResolveBundle(Now, bundle, profile, TRUE)
               these == Gather(w, Intents(bundle, profile), Skipped(w, Intents(bundle, profile)), TRUE)
               those == Gather(Now, Intents(bundle, profile), Skipped(Now, Intents(bundle, profile)), TRUE)
    <3>1. SUFFICES ASSUME y.error = "", Distinct(lockfile), Distinct(y.lock), ReportsNothing(ReportedChanges(lockfile, y.lock))
                   PROVE  y.lock = lockfile
      BY Zenon DEF EveryChangeIsReported
    <3>2. bundle \in Bundles /\ Loaded(Now) /\ Loaded(w) /\ x.error = "" /\ lockfile = x.lock
      BY <1>1, <2>1, <2>2, NowIsLoaded DEF IInv, Made, Ready
    <3>3. ComesTo(w, bundle, profile, TRUE, these, x)
      BY <3>2, BundleResolves
    <3>4. ComesTo(Now, bundle, profile, TRUE, those, y)
      BY <3>1, <3>2, BundleResolves
    <3> HIDE DEF x, y, these, those, w
    <3>5. /\ lockfile = LockOf(w, bundle, profile, these.entries)
          /\ AllTruthful(w, these.entries)
      BY <3>2, <3>3, Zenon DEF ComesTo, Good, AllTruthful
    <3>6. /\ y.lock = LockOf(Now, bundle, profile, those.entries)
          /\ AllTruthful(Now, those.entries)
      BY <3>4, Zenon DEF ComesTo, Good, AllTruthful
    <3> DEFINE old == LockOf(w, bundle, profile, these.entries)
               new == LockOf(Now, bundle, profile, those.entries)
    <3>7. Distinct(old) /\ Distinct(new) /\ ReportsNothing(ReportedChanges(old, new))
      BY <3>1, <3>5, <3>6, Zenon
    <3>8. new = old
      <4> DEFINE v == Now
                 some == these.entries
                 others == those.entries
      <4>1. AllTruthful(w, some) /\ AllTruthful(v, others)
        BY <3>5, <3>6
      <4>2. /\ Distinct(LockOf(w, bundle, profile, some)) /\ Distinct(LockOf(v, bundle, profile, others))
            /\ ReportsNothing(ReportedChanges(LockOf(w, bundle, profile, some), LockOf(v, bundle, profile, others)))
        BY <3>7
      <4> HIDE DEF v, some, others, profile
      <4>3. LockOf(v, bundle, profile, others) = LockOf(w, bundle, profile, some)
        BY <4>1, <4>2, NothingReportedNothingChanged
      <4> QED
        BY <4>3 DEF v, some, others, profile
    <3> QED
      BY <3>5, <3>6, <3>8, Zenon
  <2> QED
    BY <2>3, <2>4
<1> QED
  BY <1>1, LockIsAlways, PTL

-----------------------------------------------------------------------------
(* What an apply leaves *)

\* An operation that is not idle, on the package of this id.
Acts(w, o, id) ==
  /\ Id(o) = id
  /\ ~(o.op = "install" /\ IsInstalled(w, id) /\ o.resolution.version = NoVersion)
  /\ ~(o.op = "remove" /\ ~IsInstalled(w, id))

\* What the receipts r say of a package when some of the operations are done and
\* have their receipts: what they said at first, or what one of them left.
Recorded(w, ops, past, r, id) ==
  \/ /\ \A j \in past : ~Acts(w, ops[j], id)
     /\ id \in DOMAIN r <=> id \in DOMAIN w.installed
  \/ id \notin DOMAIN r /\ \E j \in past : Acts(w, ops[j], id) /\ ops[j].op = "remove"
  \/ /\ id \in DOMAIN r
     /\ \E j \in past : Acts(w, ops[j], id) /\ ops[j].op # "remove" /\ r[id].version \in Outcomes(ops[j])

\* The operations of the plans that are done.
Past == {j \in DOMAIN cmd.ops : pc = "finish" \/ (Running /\ j < at /\ j \notin PlanOf(at))}
\* Those of the plan under way that are done.
Underway == {j \in PlanOf(at) : pc = "receipts" \/ j < at}

\* An apply is to do what its bundle resolved to.
Situated(w) == w = StateOf(w.catalog, w.layers, w.platform, w.day, w.installed)
Heeds(c) ==
  /\ Situated(c.base)
  /\ c.kind = "apply" =>
       /\ c.bundle \in Bundles
       /\ ResolveBundle(c.base, c.bundle, c.profile, FALSE).error = ""
       /\ c.ops = ResolveBundle(c.base, c.bundle, c.profile, FALSE).ops

\* The steps of the plan under way that are done left what they should.
Left ==
  Running => \A j \in Underway : \A id :
    Acts(cmd.base, cmd.ops[j], id) /\ cmd.ops[j].op # "remove" =>
      /\ id \in DOMAIN cmd.got
      /\ \E k \in Underway : Acts(cmd.base, cmd.ops[k], id) /\ cmd.got[id] \in Outcomes(cmd.ops[k])

\* All that an apply was to do is done and has its receipts.
Ended(d) ==
  /\ catalog = d.base.catalog /\ d.bundle \in Bundles /\ Loaded(d.base) /\ Situated(d.base)
  /\ ResolveBundle(d.base, d.bundle, d.profile, FALSE).error = ""
  /\ \A ops \in {ResolveBundle(d.base, d.bundle, d.profile, FALSE).ops} :
       \A id : Recorded(d.base, ops, DOMAIN ops, receipts, id)

Undisturbed ==
  catalog = cmd.base.catalog /\ \A id : Recorded(cmd.base, cmd.ops, Past, receipts, id)

Meeting ==
  /\ pc # "idle" => done = None /\ Heeds(cmd)
  /\ Left
  /\ pc # "idle" /\ cmd.calm => Undisturbed
  /\ done # None => Ended(done)

LEMMA WholePlan ==
  ASSUME pc # "idle" => Decided(cmd), pc # "idle", at \in DOMAIN cmd.ops
  PROVE  at \in PlanOf(at) /\ (at + 1 \in PlanOf(at) => PlanOf(at + 1) = PlanOf(at))
<1> DEFINE N == Len(cmd.ops)
           Kind(j) == cmd.ops[j].op
<1>1. DOMAIN cmd.ops = 1..N /\ N \in Nat
  <2>1. Listed(cmd.ops)
    BY Zenon DEF Decided
  <2> QED
    BY <2>1, PlacesCount, Zenon DEF Listed
<1>2. at \in Nat /\ at \in 1..N
  BY <1>1
<1> HIDE DEF N
<1>4. ASSUME NEW i \in 1..N
      PROVE  \A j : j \in PlanOf(i) <=> /\ j \in 1..N
               /\ \A k \in 1..N : (i <= k /\ k <= j) \/ (j <= k /\ k <= i) => Kind(k) = Kind(i)
  <2>1. \A j : j \in PlanOf(i) <=> /\ j \in 1..N
          /\ \A k \in 1..N : (IF i < j THEN i ELSE j) <= k /\ k <= (IF i < j THEN j ELSE i) => Kind(k) = Kind(i)
    BY <1>1, Zenon DEF PlanOf
  <2> HIDE DEF Kind
  <2> QED
    BY <1>1, <2>1
<1> HIDE DEF Kind
<1>5. at \in PlanOf(at)
  <2>1. \A k \in 1..N : (at <= k /\ k <= at) \/ (at <= k /\ k <= at) => k = at
    BY <1>1, <1>2
  <2> QED
    BY <1>2, <1>4, <2>1
<1>6. ASSUME at + 1 \in PlanOf(at), NEW j \in PlanOf(at) PROVE j \in PlanOf(at + 1)
  <2>1. /\ at + 1 \in 1..N
        /\ \A k \in 1..N : (at <= k /\ k <= at + 1) \/ (at + 1 <= k /\ k <= at) => Kind(k) = Kind(at)
    BY <1>2, <1>4, <1>6
  <2>2. j \in 1..N /\ \A k \in 1..N : (at <= k /\ k <= j) \/ (j <= k /\ k <= at) => Kind(k) = Kind(at)
    BY <1>2, <1>4, <1>6
  <2>3. Kind(at + 1) = Kind(at)
    BY <1>2, <2>1
  <2>4. \A k \in 1..N : (at + 1 <= k /\ k <= j) \/ (j <= k /\ k <= at + 1) => Kind(k) = Kind(at + 1)
    BY <1>1, <1>2, <2>1, <2>2, <2>3
  <2> QED
    BY <1>4, <2>1, <2>2, <2>4
<1>7. at + 1 \in PlanOf(at) => PlanOf(at + 1) \subseteq PlanOf(at)
  BY PlanFacts, Zenon
<1> QED
  BY <1>5, <1>6, <1>7

\* What changes nothing that is recorded: it ends the command, or leaves it.
Quiet ==
  /\ catalog' = catalog /\ receipts' = receipts /\ done' = done
  /\ \/ pc' = "idle" /\ pc # "idle"
     \/ pc' = pc /\ at' = at /\ cmd' = cmd

LEMMA TurnsAre ==
  ASSUME [Next]_vars
  PROVE  \/ \E profile \in Profiles : Apply(profile)
         \/ \E q \in Requests : Operate(q)
         \/ Confirm \/ Step \/ Commit \/ Finish \/ Change \/ Quiet
<1>1. ASSUME NEW profile, Lock(profile) PROVE Quiet
  <2>1. PICK lock : WriteLock(lock)
    BY <1>1, Zenon DEF Lock
  <2> QED
    BY <2>1, Zenon DEF WriteLock, things, records, Quiet
<1>2. ASSUME UNCHANGED vars PROVE Quiet
  BY <1>2, Zenon DEF vars, things, records, Quiet
<1>3. Decline => Quiet
  BY Zenon DEF Decline, Quiet, things, records
<1>4. Fail => Quiet
  <2>1. ASSUME Fail PROVE pc # "idle"
    BY <2>1 DEF Fail
  <2>2. ASSUME Fail PROVE catalog' = catalog /\ receipts' = receipts /\ done' = done /\ pc' = "idle"
    BY <2>2, Zenon DEF Fail, things, records
  <2> QED
    BY <2>1, <2>2, Zenon DEF Quiet
<1>5. UpdateCatalog \/ ChangePolicy \/ EditBundle \/ NextDay => Change
  BY Zenon DEF UpdateCatalog, ChangePolicy, EditBundle, NextDay
<1>6. \A name : Pin(name) \/ Hold(name) \/ Release(name) \/ Elsewhere(name) => Change
  BY Zenon DEF Pin, Hold, Release, Elsewhere
<1>7. \A profile : Refresh(profile) => Lock(profile)
  BY Zenon DEF Refresh
<1> QED
  BY <1>1, <1>2, <1>3, <1>4, <1>5, <1>6, <1>7, Zenon DEF Next

\* Nothing done, nothing changed.
LEMMA RecordedAtFirst ==
  ASSUME NEW w, NEW ops, NEW r, DOMAIN r = DOMAIN w.installed, NEW id
  PROVE  Recorded(w, ops, {}, r, id)
BY DEF Recorded

LEMMA SameHeeds ==
  ASSUME NEW c, NEW d, Heeds(c), Same(c, d)
  PROVE  Heeds(d)
BY Zenon DEF Heeds, Same

\* What is to hold after a step, as long as a command is under way.
Meets(p, c, doc, r, past, under, d) ==
  /\ p # "idle" => d = None /\ Heeds(c)
  /\ p \in {"run", "receipts"} => \A j \in under : \A id :
       Acts(c.base, c.ops[j], id) /\ c.ops[j].op # "remove" =>
         /\ id \in DOMAIN c.got
         /\ \E k \in under : Acts(c.base, c.ops[k], id) /\ c.got[id] \in Outcomes(c.ops[k])
  /\ p # "idle" /\ c.calm => doc = c.base.catalog /\ \A id : Recorded(c.base, c.ops, past, r, id)

LEMMA MeetingIs ==
  /\ Meeting <=> Meets(pc, cmd, catalog, receipts, Past, Underway, done) /\ (done # None => Ended(done))
  /\ Meeting' <=> Meets(pc', cmd', catalog', receipts', Past', Underway', done') /\ (done' # None => Ended(done)')
<1>1. Meeting <=> Meets(pc, cmd, catalog, receipts, Past, Underway, done) /\ (done # None => Ended(done))
  BY Zenon DEF Meeting, Meets, Left, Undisturbed, Running
<1>2. Meeting' <=> Meets(pc', cmd', catalog', receipts', Past', Underway', done') /\ (done' # None => Ended(done)')
  BY Zenon DEF Meeting, Meets, Left, Undisturbed, Running
<1> QED
  BY <1>1, <1>2

\* Deciding.
LEMMA AskMeets ==
  ASSUME IInv, pc = "idle", NEW kind, NEW ops, NEW supplied, NEW lock, NEW profile,
         Ask(Command(kind, ops, supplied, lock, profile)),
         kind = "apply" => /\ ResolveBundle(Now, bundle, profile, FALSE).error = ""
                           /\ ops = ResolveBundle(Now, bundle, profile, FALSE).ops
  PROVE  Meeting'
<1> DEFINE w == Now
           c == cmd'
<1>1. c = Carrying(kind, ops, supplied, lock, w, None, bundle, profile, holds, <<>>, TRUE)
  BY Zenon DEF Ask, Command, Carrying
<1>2. IsCommand(c, kind, ops, supplied, lock, w, None, bundle, profile, holds, <<>>, TRUE)
  <2>1. IsCommand(Carrying(kind, ops, supplied, lock, w, None, bundle, profile, holds, <<>>, TRUE),
                  kind, ops, supplied, lock, w, None, bundle, profile, holds, <<>>, TRUE)
    BY CarryingIs
  <2> QED
    BY <1>1, <2>1, Zenon
<1>3. Ready /\ catalog' = catalog /\ receipts' = receipts /\ pc' = "asked" /\ done' = None
  BY Zenon DEF Ask, things, records, IInv
<1>4. w.catalog = catalog /\ DOMAIN w.installed = DOMAIN receipts
  BY DEF Now, Installed
<1>11. Situated(w)
  <2>1. Now = StateOf(Now.catalog, Now.layers, Now.platform, Now.day, Now.installed)
    BY DEF StateOf, Now
  <2> QED
    BY <2>1, Zenon DEF Situated
<1>5. Heeds(c)
  <2>1. bundle \in Bundles /\ c.kind = kind /\ c.ops = ops /\ c.base = w /\ c.bundle = bundle /\ c.profile = profile
    BY <1>2, <1>3, Zenon DEF IsCommand, Ready
  <2> QED
    BY <1>11, <2>1, Zenon DEF Heeds
<1>6. c.base = w /\ c.ops = ops
  BY <1>2, Zenon DEF IsCommand
<1>7. Past' = {}
  BY <1>3 DEF Past, Running
<1> HIDE DEF w, c
<1>8. \A id : Recorded(c.base, c.ops, {}, receipts', id)
  BY <1>3, <1>4, <1>6, RecordedAtFirst
<1>9. catalog' = c.base.catalog
  BY <1>3, <1>4, <1>6
<1>10. Meets(pc', c, catalog', receipts', Past', Underway', done')
  BY <1>3, <1>5, <1>7, <1>8, <1>9 DEF Meets
<1> QED
  BY <1>3, <1>10, MeetingIs, Zenon DEF c

LEMMA ConfirmMeets ==
  ASSUME IInv, Meeting, Confirm
  PROVE  Meeting'
<1>1. /\ pc = "asked" /\ at = 1 /\ at' = at
      /\ catalog' = catalog /\ receipts' = receipts /\ done' = done
  <2>1. pc = "asked" /\ at' = at /\ catalog' = catalog /\ receipts' = receipts /\ done' = done
    BY Zenon DEF Confirm, things, records
  <2> QED
    BY <2>1, Zenon DEF IInv, Going
<1>2. done = None /\ Heeds(cmd) /\ (cmd.calm => catalog = cmd.base.catalog /\ \A id : Recorded(cmd.base, cmd.ops, {}, receipts, id))
  <2>1. Past = {}
    BY <1>1 DEF Past, Running
  <2> QED
    BY <1>1, <2>1, Zenon DEF Meeting, Undisturbed
<1>3. Decided(cmd)
  BY <1>1, Zenon DEF IInv
<1>4. ASSUME pc' # "idle"
      PROVE  Same(cmd, cmd') /\ cmd'.calm = cmd.calm /\ Past' = {} /\ (pc' = "run" => Underway' = {}) /\ pc' \in {"run", "finish"}
  <2>1. Carried(cmd) /\ Listed(cmd.ops)
    BY <1>3, Zenon DEF Decided
  <2>2. cmd' = [cmd EXCEPT !.seen = Now] /\ pc' = (IF cmd.ops = <<>> THEN "finish" ELSE "run")
    BY <1>4 DEF Confirm
  <2> DEFINE w == Now
  <2>3. cmd' = [cmd EXCEPT !.seen = w] /\ Carried(cmd)
    BY <2>1, <2>2, Zenon
  <2> HIDE DEF w
  <2>4. Same(cmd, cmd') /\ cmd'.calm = cmd.calm
    BY <2>3, CommandSees
  <2>5. cmd'.ops = cmd.ops
    BY <2>4, Zenon DEF Same
  <2>6. \A j \in DOMAIN cmd.ops : j \in Nat /\ j # 0
    BY <2>1, PlacesCount, Zenon DEF Listed
  <2>7. Past' = {}
    <3>1. CASE pc' = "finish"
      BY <2>2, <2>5, <3>1 DEF Past
    <3>2. CASE pc' = "run"
      BY <1>1, <2>5, <2>6, <3>2 DEF Past
    <3> QED
      BY <2>2, <3>1, <3>2
  <2>8. pc' = "run" => Underway' = {}
    <3>1. \A j \in PlanOf(at)' : j \in DOMAIN cmd'.ops
      BY DEF PlanOf
    <3> QED
      BY <1>1, <2>5, <2>6, <3>1 DEF Underway
  <2> QED
    BY <2>2, <2>4, <2>7, <2>8
<1>5. Meets(pc', cmd', catalog', receipts', Past', Underway', done')
  <2>1. CASE pc' = "idle"
    BY <2>1 DEF Meets
  <2>2. ASSUME pc' # "idle" PROVE Meets(pc', cmd', catalog', receipts', Past', Underway', done')
    <3>1. Heeds(cmd')
      BY <1>2, <1>4, <2>2, SameHeeds
    <3>2. cmd'.base = cmd.base /\ cmd'.ops = cmd.ops /\ cmd'.calm = cmd.calm
      BY <1>4, <2>2, Zenon DEF Same
    <3> QED
      BY <1>1, <1>2, <1>4, <2>2, <3>1, <3>2 DEF Meets
  <2> QED
    BY <2>1, <2>2
<1> QED
  BY <1>1, <1>2, <1>5, MeetingIs, Zenon

LEMMA IdleIs ==
  ASSUME NEW o
  PROVE  Idle(o) <=> ~Acts(cmd.base, o, Id(o))
BY DEF Idle, Acts

LEMMA StepMoves ==
  ASSUME IInv, Step
  PROVE  /\ pc = "run" /\ O = cmd.ops[at] /\ Past' = Past /\ Underway' = Underway \union {at}
         /\ \A j \in Underway' : cmd.ops[j].op = O.op
<1>1. pc = "run" /\ Same(cmd, cmd')
  BY StepCarries, Zenon
<1>2. cmd'.ops = cmd.ops
  BY <1>1, Zenon DEF Same
<1>3. at \in DOMAIN cmd.ops /\ (pc # "idle" => Decided(cmd)) /\ pc # "idle"
  BY <1>1, Zenon DEF IInv, Typing
<1>4. /\ at \in Nat /\ DOMAIN cmd.ops = 1..Len(cmd.ops) /\ Len(cmd.ops) \in Nat
      /\ \A j \in PlanOf(at) : j \in DOMAIN cmd.ops /\ cmd.ops[j].op = O.op
      /\ \A j \in PlanOf(at) : j > at => at + 1 \in PlanOf(at)
  BY <1>3, PlanFacts, Zenon
<1>5. at \in PlanOf(at) /\ (at + 1 \in PlanOf(at) => PlanOf(at + 1) = PlanOf(at))
  BY <1>3, WholePlan
<1>6. \/ at + 1 \in PlanOf(at) /\ at' = at + 1 /\ pc' = "run"
      \/ at + 1 \notin PlanOf(at) /\ at' = at /\ pc' = "receipts"
  BY <1>1 DEF Step
<1>7. PlanOf(at)' = PlanOf(at)
  <2>1. PlanOf(at)' = PlanOf(at')
    BY <1>2, Zenon DEF PlanOf
  <2> QED
    BY <1>5, <1>6, <2>1, Zenon
<1>8. Past = {j \in DOMAIN cmd.ops : j < at /\ j \notin PlanOf(at)}
  BY <1>1 DEF Past, Running
<1>9. Past' = {j \in DOMAIN cmd.ops : j < at' /\ j \notin PlanOf(at)}
  BY <1>2, <1>6, <1>7 DEF Past, Running
<1>10. Past' = Past
  <2>1. \A j \in DOMAIN cmd.ops : j < at' /\ j \notin PlanOf(at) => j < at
    BY <1>4, <1>5, <1>6
  <2>2. \A j \in DOMAIN cmd.ops : j < at => j < at'
    BY <1>4, <1>6
  <2> QED
    BY <1>8, <1>9, <2>1, <2>2
<1>11. Underway = {j \in PlanOf(at) : j < at}
  BY <1>1 DEF Underway
<1>12. Underway' = {j \in PlanOf(at) : j = at \/ j < at}
  <2>1. Underway' = {j \in PlanOf(at) : pc' = "receipts" \/ j < at'}
    BY <1>7 DEF Underway
  <2>2. \A j \in PlanOf(at) : (pc' = "receipts" \/ j < at') <=> (j = at \/ j < at)
    BY <1>4, <1>6
  <2> QED
    BY <2>1, <2>2
<1>13. \A j \in Underway' : cmd.ops[j].op = O.op
  BY <1>4, <1>12
<1>14. Underway' = Underway \union {at}
  BY <1>5, <1>11, <1>12
<1> QED
  BY <1>1, <1>10, <1>13, <1>14 DEF O

LEMMA StepMeets ==
  ASSUME IInv, Meeting, Step
  PROVE  Meeting'
<1>1. /\ pc = "run" /\ O = cmd.ops[at] /\ Past' = Past /\ Underway' = Underway \union {at}
      /\ \A j \in Underway' : cmd.ops[j].op = O.op
  BY StepMoves
<1>2. /\ Same(cmd, cmd') /\ cmd'.calm = cmd.calm
      /\ \/ Idle(O) /\ cmd'.got = cmd.got
         \/ ~Idle(O) /\ \E v \in Outcomes(O) : cmd'.got = Put(cmd.got, Id(O), v)
  BY StepCarries, Zenon
<1>3. catalog' = catalog /\ receipts' = receipts /\ done' = done
  BY Zenon DEF Step, things, records
<1>4. cmd'.ops = cmd.ops /\ cmd'.base = cmd.base
  BY <1>2, Zenon DEF Same
<1>5. Meets(pc, cmd, catalog, receipts, Past, Underway, done)
  BY MeetingIs, Zenon
<1>6. Heeds(cmd') /\ done = None
  <2>1. Heeds(cmd) /\ done = None
    BY <1>1, <1>5 DEF Meets
  <2> QED
    BY <1>2, <2>1, SameHeeds
<1> DEFINE w == cmd.base
           f == cmd.got
           g == cmd'.got
           Fits(got, under, id) == /\ id \in DOMAIN got
                                   /\ \E k \in under : Acts(w, cmd.ops[k], id) /\ got[id] \in Outcomes(cmd.ops[k])
<1>7. \A j \in Underway : \A id : Acts(w, cmd.ops[j], id) /\ cmd.ops[j].op # "remove" => Fits(f, Underway, id)
  BY <1>1, <1>5, Zenon DEF Meets
<1>8. ASSUME NEW j \in Underway', NEW id, Acts(w, cmd.ops[j], id), cmd.ops[j].op # "remove" PROVE Fits(g, Underway', id)
  <2>1. CASE Idle(O)
    <3>1. ~Acts(w, O, id)
      <4>1. Id(O) = id => ~Acts(w, O, id)
        BY <2>1, IdleIs, Zenon
      <4> QED
        BY <4>1 DEF Acts
    <3>2. j \in Underway
      BY <1>1, <1>8, <3>1
    <3>3. g = f
      BY <1>2, <2>1
    <3> HIDE DEF f, g, w
    <3>4. Fits(f, Underway, id)
      BY <1>7, <1>8, <3>2
    <3> QED
      BY <1>1, <3>3, <3>4
  <2>2. ASSUME ~Idle(O), NEW v \in Outcomes(O), g = Put(f, Id(O), v) PROVE Fits(g, Underway', id)
    <3> DEFINE x == Id(O)
    <3>1. Acts(w, O, x)
      BY <2>2, IdleIs
    <3>2. g = Put(f, x, v)
      BY <2>2
    <3> HIDE DEF x, f, g, w
    <3>3. DOMAIN g = DOMAIN f \union {x} /\ g[x] = v /\ \A y \in DOMAIN f : y # x => g[y] = f[y]
      BY <3>2 DEF Put
    <3>4. CASE id = x
      <4>1. at \in Underway' /\ Acts(w, cmd.ops[at], id) /\ g[id] \in Outcomes(cmd.ops[at])
        BY <1>1, <2>2, <3>1, <3>3, <3>4
      <4> QED
        BY <3>3, <3>4, <4>1
    <3>5. CASE id # x
      <4>1. j # at
        BY <1>1, <1>8, <3>5 DEF Acts, x
      <4>2. j \in Underway
        BY <1>1, <1>8, <4>1
      <4>3. Fits(f, Underway, id)
        BY <1>7, <1>8, <4>2
      <4> QED
        BY <1>1, <3>3, <3>5, <4>3
    <3> QED
      BY <3>4, <3>5
  <2> HIDE DEF Fits
  <2> QED
    BY <1>2, <2>1, <2>2, Zenon
<1>9. cmd'.calm => catalog = w.catalog /\ \A id : Recorded(w, cmd.ops, Past, receipts, id)
  BY <1>1, <1>2, <1>5 DEF Meets
<1>10. Meets(pc', cmd', catalog', receipts', Past', Underway', done')
  <2>1. \A j \in Underway' : \A id : Acts(cmd'.base, cmd'.ops[j], id) /\ cmd'.ops[j].op # "remove" =>
          /\ id \in DOMAIN cmd'.got
          /\ \E k \in Underway' : Acts(cmd'.base, cmd'.ops[k], id) /\ cmd'.got[id] \in Outcomes(cmd'.ops[k])
    BY <1>4, <1>8, Zenon
  <2>2. cmd'.calm => catalog' = cmd'.base.catalog /\ \A id : Recorded(cmd'.base, cmd'.ops, Past', receipts', id)
    BY <1>1, <1>3, <1>4, <1>9, Zenon
  <2> QED
    BY <1>3, <1>6, <2>1, <2>2, Zenon DEF Meets
<1> QED
  BY <1>3, <1>6, <1>10, MeetingIs, Zenon

LEMMA CommitMoves ==
  ASSUME IInv, Commit
  PROVE  /\ pc = "receipts" /\ cmd' = cmd /\ pc' \in {"run", "finish"} /\ Underway = PlanOf(at)
         /\ Past' = Past \union PlanOf(at) /\ (pc' = "run" => Underway' = {})
         /\ \A j \in PlanOf(at) : cmd.ops[j].op = O.op
         /\ PlanOf(at) \subseteq 1..Len(cmd.ops) /\ Len(cmd.ops) \in Nat
<1>1. pc = "receipts" /\ cmd' = cmd
  BY DEF Commit
<1>2. at \in DOMAIN cmd.ops /\ (pc # "idle" => Decided(cmd)) /\ pc # "idle" /\ at + 1 \notin PlanOf(at)
  BY <1>1, Zenon DEF IInv, Typing, Going
<1>3. /\ at \in Nat /\ DOMAIN cmd.ops = 1..Len(cmd.ops) /\ Len(cmd.ops) \in Nat
      /\ \A j \in PlanOf(at) : j \in DOMAIN cmd.ops /\ cmd.ops[j].op = O.op
      /\ \A j \in PlanOf(at) : j > at => at + 1 \in PlanOf(at)
      /\ at + 1 \notin PlanOf(at) /\ at + 1 \in DOMAIN cmd.ops => \A j \in PlanOf(at + 1) : j > at
  BY <1>2, PlanFacts, Zenon
<1>4. at \in PlanOf(at)
  BY <1>2, WholePlan
<1>5. \/ at < Len(cmd.ops) /\ at' = at + 1 /\ pc' = "run"
      \/ ~(at < Len(cmd.ops)) /\ at' = at /\ pc' = "finish"
  BY DEF Commit
<1>6. \A j \in PlanOf(at) : j <= at
  BY <1>2, <1>3
<1>7. Past = {j \in DOMAIN cmd.ops : j < at /\ j \notin PlanOf(at)}
  BY <1>1 DEF Past, Running
<1>8. Past \union PlanOf(at) = {j \in DOMAIN cmd.ops : j <= at}
  BY <1>3, <1>4, <1>6, <1>7
<1>9. CASE at < Len(cmd.ops) /\ at' = at + 1 /\ pc' = "run"
  <2>1. at + 1 \in DOMAIN cmd.ops
    BY <1>3, <1>9
  <2>2. \A j \in PlanOf(at + 1) : j > at /\ j \in DOMAIN cmd.ops
    BY <1>2, <1>3, <2>1 DEF PlanOf
  <2>3. PlanOf(at)' = PlanOf(at + 1)
    <3>1. PlanOf(at)' = PlanOf(at')
      BY <1>1, Zenon DEF PlanOf
    <3> QED
      BY <1>9, <3>1
  <2>4. Past' = {j \in DOMAIN cmd.ops : j < at + 1 /\ j \notin PlanOf(at + 1)}
    BY <1>1, <1>9, <2>3 DEF Past, Running
  <2>5. Past' = {j \in DOMAIN cmd.ops : j <= at}
    BY <1>3, <2>2, <2>4
  <2>6. Underway' = {}
    <3>1. Underway' = {j \in PlanOf(at + 1) : j < at + 1}
      BY <1>9, <2>3 DEF Underway
    <3> QED
      BY <1>3, <2>2, <3>1
  <2> QED
    BY <1>1, <1>3, <1>8, <1>9, <2>5, <2>6 DEF Underway
<1>10. CASE ~(at < Len(cmd.ops)) /\ at' = at /\ pc' = "finish"
  <2>1. Past' = DOMAIN cmd.ops
    BY <1>1, <1>10 DEF Past
  <2>2. Past' = {j \in DOMAIN cmd.ops : j <= at}
    BY <1>3, <1>10, <2>1
  <2> QED
    BY <1>1, <1>3, <1>8, <1>10, <2>2 DEF Underway
<1> QED
  BY <1>5, <1>9, <1>10

LEMMA RecordedStays ==
  ASSUME NEW w, NEW ops, NEW past, NEW r, NEW id, Recorded(w, ops, past, r, id), NEW more, NEW s,
         \A j \in more : ~Acts(w, ops[j], id),
         id \in DOMAIN s <=> id \in DOMAIN r, id \in DOMAIN r => s[id] = r[id]
  PROVE  Recorded(w, ops, past \union more, s, id)
<1> DEFINE both == past \union more
<1>1. past \subseteq both
  OBVIOUS
<1>2. CASE (\A j \in past : ~Acts(w, ops[j], id)) /\ (id \in DOMAIN r <=> id \in DOMAIN w.installed)
  <2>1. \A j \in both : ~Acts(w, ops[j], id)
    BY <1>2, Zenon
  <2> QED
    BY <1>2, <2>1, Zenon DEF Recorded
<1>3. CASE id \notin DOMAIN r /\ \E j \in past : Acts(w, ops[j], id) /\ ops[j].op = "remove"
  <2>1. id \notin DOMAIN s /\ \E j \in both : Acts(w, ops[j], id) /\ ops[j].op = "remove"
    BY <1>1, <1>3, Zenon
  <2> QED
    BY <2>1, Zenon DEF Recorded
<1>4. CASE /\ id \in DOMAIN r
           /\ \E j \in past : Acts(w, ops[j], id) /\ ops[j].op # "remove" /\ r[id].version \in Outcomes(ops[j])
  <2>1. /\ id \in DOMAIN s
        /\ \E j \in both : Acts(w, ops[j], id) /\ ops[j].op # "remove" /\ s[id].version \in Outcomes(ops[j])
    BY <1>1, <1>4, Zenon
  <2> QED
    BY <2>1, Zenon DEF Recorded
<1> QED
  BY <1>2, <1>3, <1>4, Zenon DEF Recorded

\* The receipts of one more plan.
LEMMA CommitIsRecorded ==
  ASSUME IInv, Meeting, Commit, NEW id, Recorded(cmd.base, cmd.ops, Past, receipts, id)
  PROVE  Recorded(cmd.base, cmd.ops, Past', receipts', id)
<1> DEFINE acted == {j \in PlanOf(at) : ~Idle(cmd.ops[j])}
           removed == {Id(cmd.ops[j]) : j \in {k \in acted : cmd.ops[k].op = "remove"}}
           written == {j \in acted : cmd.ops[j].op # "remove"}
           mine(x) == {j \in written : Id(cmd.ops[j]) = x}
           last(x) == Max(mine(x))
           ids == {Id(cmd.ops[j]) : j \in written}
           w == cmd.base
           ops == cmd.ops
<1>1. receipts' = [x \in (DOMAIN receipts \ removed) \union ids |->
                     IF x \in ids THEN Receipt(cmd.ops[last(x)]) ELSE receipts[x]]
  BY Zenon DEF Commit
<1>2. /\ pc = "receipts" /\ Past' = Past \union PlanOf(at) /\ Underway = PlanOf(at)
      /\ \A j \in PlanOf(at) : ops[j].op = O.op
      /\ PlanOf(at) \subseteq 1..Len(cmd.ops) /\ Len(cmd.ops) \in Nat
  BY CommitMoves
<1>3. \A j : j \in acted /\ Id(ops[j]) = id <=> j \in PlanOf(at) /\ Acts(w, ops[j], id)
  <2>1. \A j : Acts(w, ops[j], id) <=> Id(ops[j]) = id /\ ~Idle(ops[j])
    BY IdleIs DEF Acts
  <2> QED
    BY <2>1
<1>4. \A j \in PlanOf(at) : Acts(w, ops[j], id) /\ ops[j].op # "remove" =>
        /\ id \in DOMAIN cmd.got
        /\ \E k \in PlanOf(at) : Acts(w, ops[k], id) /\ cmd.got[id] \in Outcomes(ops[k])
  BY <1>2, Zenon DEF Meeting, Left, Running
<1>5. CASE \A j \in PlanOf(at) : ~Acts(w, ops[j], id)
  <2>1. \A j \in acted : Id(ops[j]) # id
    BY <1>3, <1>5
  <2>2. id \notin removed /\ id \notin ids
    BY <2>1
  <2> HIDE DEF removed, ids, last
  <2>3. (id \in DOMAIN receipts' <=> id \in DOMAIN receipts) /\ (id \in DOMAIN receipts => receipts'[id] = receipts[id])
    BY <1>1, <2>2
  <2> QED
    BY <1>2, <1>5, <2>3, RecordedStays
<1>6. ASSUME NEW j \in PlanOf(at), Acts(w, ops[j], id), ops[j].op = "remove"
      PROVE  Recorded(w, ops, Past', receipts', id)
  <2>1. id \in removed
    BY <1>3, <1>6
  <2>2. ids = {}
    BY <1>2, <1>6
  <2> HIDE DEF removed, ids, last
  <2>3. id \notin DOMAIN receipts'
    BY <1>1, <2>1, <2>2
  <2> HIDE DEF w, ops
  <2>4. j \in Past'
    BY <1>2
  <2> QED
    BY <1>6, <2>3, <2>4, Zenon DEF Recorded
<1>7. ASSUME NEW j \in PlanOf(at), Acts(w, ops[j], id), ops[j].op # "remove"
      PROVE  Recorded(w, ops, Past', receipts', id)
  <2>1. id \in ids /\ j \in mine(id)
    BY <1>3, <1>7
  <2>2. mine(id) # {} /\ mine(id) \in SUBSET (1..Len(cmd.ops))
    BY <1>2, <2>1
  <2>3. last(id) \in mine(id)
    BY <1>2, <2>2, MaxIsOne, Zenon
  <2>4. Id(ops[last(id)]) = id
    BY <2>3
  <2> HIDE DEF removed, ids, last
  <2>5. id \in DOMAIN receipts' /\ receipts'[id] = Receipt(ops[last(id)])
    BY <1>1, <2>1
  <2>6. receipts'[id].version = cmd.got[id]
    BY <2>4, <2>5 DEF Receipt
  <2>7. PICK k \in PlanOf(at) : Acts(w, ops[k], id) /\ cmd.got[id] \in Outcomes(ops[k])
    BY <1>4, <1>7
  <2>8. k \in Past' /\ ops[k].op # "remove"
    BY <1>2, <1>7, <2>7
  <2> HIDE DEF w, ops
  <2> QED
    BY <2>5, <2>6, <2>7, <2>8, Zenon DEF Recorded
<1> QED
  BY <1>5, <1>6, <1>7

LEMMA CommitMeets ==
  ASSUME IInv, Meeting, Commit
  PROVE  Meeting'
<1>1. pc = "receipts" /\ cmd' = cmd /\ pc' \in {"run", "finish"} /\ (pc' = "run" => Underway' = {})
  BY CommitMoves
<1>2. catalog' = catalog /\ done' = done
  BY Zenon DEF Commit, things
<1>3. Meets(pc, cmd, catalog, receipts, Past, Underway, done)
  BY MeetingIs, Zenon
<1>4. done = None /\ Heeds(cmd)
  BY <1>1, <1>3 DEF Meets
<1>5. cmd.calm => catalog = cmd.base.catalog /\ \A id : Recorded(cmd.base, cmd.ops, Past, receipts, id)
  BY <1>1, <1>3 DEF Meets
<1>6. cmd.calm => \A id : Recorded(cmd.base, cmd.ops, Past', receipts', id)
  BY <1>5, CommitIsRecorded
<1>7. Meets(pc', cmd', catalog', receipts', Past', Underway', done')
  BY <1>1, <1>2, <1>4, <1>5, <1>6 DEF Meets
<1> QED
  BY <1>2, <1>4, <1>7, MeetingIs, Zenon

LEMMA FinishMeets ==
  ASSUME IInv, Meeting, Finish
  PROVE  Meeting'
<1>1. pc = "finish" /\ pc' = "idle" /\ catalog' = catalog /\ receipts' = receipts
  BY Zenon DEF Finish, things, records
<1>2. done' = IF cmd.kind = "apply" /\ cmd.calm
              THEN [base |-> cmd.base, bundle |-> cmd.bundle, profile |-> cmd.profile] ELSE None
  BY DEF Finish
<1>3. Decided(cmd)
  BY <1>1, Zenon DEF IInv
<1>4. Past = DOMAIN cmd.ops
  BY <1>1 DEF Past
<1>5. Heeds(cmd) /\ (cmd.calm => catalog = cmd.base.catalog /\ \A id : Recorded(cmd.base, cmd.ops, DOMAIN cmd.ops, receipts, id))
  BY <1>1, <1>4, Zenon DEF Meeting, Undisturbed
<1>6. ASSUME cmd.kind = "apply", cmd.calm PROVE Ended(done)'
  <2>1. done'.base = cmd.base /\ done'.bundle = cmd.bundle /\ done'.profile = cmd.profile
    BY <1>2, <1>6
  <2>2. Loaded(cmd.base) /\ Situated(cmd.base)
    BY <1>3, <1>5, Zenon DEF Decided, Heeds
  <2>3. /\ cmd.bundle \in Bundles
        /\ ResolveBundle(cmd.base, cmd.bundle, cmd.profile, FALSE).error = ""
        /\ cmd.ops = ResolveBundle(cmd.base, cmd.bundle, cmd.profile, FALSE).ops
    BY <1>5, <1>6, Zenon DEF Heeds
  <2> DEFINE x == ResolveBundle(cmd.base, cmd.bundle, cmd.profile, FALSE)
  <2>4. \A ops \in {x.ops} : \A id : Recorded(cmd.base, ops, DOMAIN ops, receipts', id)
    <3>1. \A id : Recorded(cmd.base, cmd.ops, DOMAIN cmd.ops, receipts', id)
      BY <1>1, <1>5, <1>6, Zenon
    <3>2. cmd.ops = x.ops
      BY <2>3, Zenon
    <3> HIDE DEF x
    <3>3. SUFFICES ASSUME NEW ops, ops = x.ops PROVE \A id : Recorded(cmd.base, ops, DOMAIN ops, receipts', id)
      BY Zenon
    <3>4. ops = cmd.ops
      BY <3>2, <3>3
    <3> QED
      BY <3>1, <3>4, Zenon
  <2>5. /\ catalog' = done'.base.catalog /\ done'.bundle \in Bundles /\ Loaded(done'.base) /\ Situated(done'.base)
        /\ ResolveBundle(done'.base, done'.bundle, done'.profile, FALSE).error = ""
        /\ \A ops \in {ResolveBundle(done'.base, done'.bundle, done'.profile, FALSE).ops} :
             \A id : Recorded(done'.base, ops, DOMAIN ops, receipts', id)
    BY <1>1, <1>5, <1>6, <2>1, <2>2, <2>3, <2>4, Zenon
  <2> HIDE DEF x
  <2> QED
    BY <2>5, Zenon DEF Ended
<1>7. done' # None => Ended(done)'
  BY <1>2, <1>6
<1>8. Meets(pc', cmd', catalog', receipts', Past', Underway', done')
  BY <1>1 DEF Meets
<1> QED
  BY <1>7, <1>8, MeetingIs, Zenon

LEMMA ChangeMeets ==
  ASSUME IInv, Meeting, Change
  PROVE  Meeting'
<1>1. done' = None /\ pc' = pc /\ at' = at
  BY Zenon DEF Change
<1>2. Meets(pc, cmd, catalog, receipts, Past, Underway, done)
  BY MeetingIs, Zenon
<1>3. ASSUME pc # "idle" PROVE Same(cmd, cmd') /\ cmd'.got = cmd.got /\ ~cmd'.calm
  <2>1. Carried(cmd)
    BY <1>3, Zenon DEF IInv, Decided
  <2>2. cmd' = [cmd EXCEPT !.calm = FALSE]
    BY <1>3 DEF Change
  <2>3. ASSUME NEW calm, calm = FALSE PROVE Same(cmd, cmd') /\ cmd'.got = cmd.got /\ cmd'.calm = calm
    <3>1. cmd' = [cmd EXCEPT !.calm = calm]
      BY <2>2, <2>3
    <3> QED
      BY <2>1, <3>1, CommandIsDisturbed
  <2> QED
    BY <2>3
<1>4. Meets(pc', cmd', catalog', receipts', Past', Underway', done')
  <2>1. CASE pc = "idle"
    BY <1>1, <2>1 DEF Meets
  <2>2. ASSUME pc # "idle" PROVE Meets(pc', cmd', catalog', receipts', Past', Underway', done')
    <3>1. cmd'.ops = cmd.ops /\ cmd'.base = cmd.base /\ cmd'.got = cmd.got /\ ~cmd'.calm
      BY <1>3, <2>2, Zenon DEF Same
    <3>2. Heeds(cmd')
      <4>1. Heeds(cmd)
        BY <1>2, <2>2 DEF Meets
      <4> QED
        BY <1>3, <2>2, <4>1, SameHeeds
    <3>3. Underway' = Underway
      <4>1. PlanOf(at)' = PlanOf(at)
        BY <1>1, <3>1, Zenon DEF PlanOf
      <4> QED
        BY <1>1, <4>1, Zenon DEF Underway
    <3> QED
      BY <1>1, <1>2, <3>1, <3>2, <3>3, Zenon DEF Meets
  <2> QED
    BY <2>1, <2>2
<1> QED
  BY <1>1, <1>4, MeetingIs, Zenon

LEMMA QuietMeets ==
  ASSUME IInv, Meeting, Quiet
  PROVE  Meeting'
<1>1. catalog' = catalog /\ receipts' = receipts /\ done' = done
  BY Zenon DEF Quiet
<1>2. Meets(pc, cmd, catalog, receipts, Past, Underway, done) /\ (done # None => Ended(done))
  BY MeetingIs, Zenon
<1>3. done' # None => Ended(done)'
  <2>1. Ended(done)' <=> Ended(done)
    BY <1>1, Zenon DEF Ended
  <2> QED
    BY <1>1, <1>2, <2>1, Zenon
<1>4. CASE pc' = "idle" /\ pc # "idle"
  <2>1. Meets(pc', cmd', catalog', receipts', Past', Underway', done')
    BY <1>4 DEF Meets
  <2> QED
    BY <1>3, <2>1, MeetingIs, Zenon
<1>5. CASE pc' = pc /\ at' = at /\ cmd' = cmd
  <2>1. PlanOf(at)' = PlanOf(at)
    BY <1>5, Zenon DEF PlanOf
  <2>2. Past' = Past /\ Underway' = Underway
    BY <1>5, <2>1, Zenon DEF Past, Underway, Running
  <2>3. Meets(pc', cmd', catalog', receipts', Past', Underway', done')
    BY <1>1, <1>2, <1>5, <2>2, Zenon
  <2> QED
    BY <1>3, <2>3, MeetingIs, Zenon
<1> QED
  BY <1>4, <1>5, Zenon DEF Quiet

LEMMA MeetingStays == IInv /\ Meeting /\ [Next]_vars => Meeting'
<1> SUFFICES ASSUME IInv, Meeting, [Next]_vars PROVE Meeting'
  OBVIOUS
<1>1. ASSUME NEW profile, Apply(profile) PROVE Meeting'
  <2>1. PICK supplied \in {None} \union ({lockfile} \ {Torn}), r \in {ResolveBundle(Now, bundle, profile, FALSE)} :
          /\ r.error = ""
          /\ Ask(Command("apply", r.ops, supplied, r.lock, profile))
    BY <1>1, Zenon DEF Apply
  <2>2. r = ResolveBundle(Now, bundle, profile, FALSE)
    BY <2>1, Zenon
  <2>3. pc = "idle"
    BY <1>1, Zenon DEF Apply, CanStart
  <2>4. ResolveBundle(Now, bundle, profile, FALSE).error = "" /\ r.ops = ResolveBundle(Now, bundle, profile, FALSE).ops
    BY <2>1, <2>2, Zenon
  <2> QED
    BY <2>1, <2>3, <2>4, AskMeets
<1>2. ASSUME NEW q, Operate(q) PROVE Meeting'
  <2>1. PICK ops : Ask(Command("operation", ops, None, None, NoProfile))
    BY <1>2, Zenon DEF Operate
  <2>2. pc = "idle"
    BY <1>2, Zenon DEF Operate, CanStart
  <2>3. "operation" # "apply"
    OBVIOUS
  <2> QED
    BY <2>1, <2>2, <2>3, AskMeets
<1> QED
  BY <1>1, <1>2, ConfirmMeets, StepMeets, CommitMeets, FinishMeets, ChangeMeets, QuietMeets, TurnsAre, Zenon

LEMMA MeetingAlways == Spec => [](IInv /\ Meeting)
<1>1. Init => Meeting
  BY DEF Init, Meeting, Left, Running
<1> QED
  BY <1>1, Start, Inductive, MeetingStays, PTL DEF Spec

-----------------------------------------------------------------------------
(* What a bundle resolves to *)

\* A finite set is listed whole.
LEMMA ListOfAll ==
  ASSUME NEW S, IsFiniteSet(S)
  PROVE  Range(SetToSeq(S)) = S
<1> DEFINE n == Cardinality(S)
           f == SetToSeq(S)
<1>1. n \in Nat /\ ExistsBijection(1..n, S)
  BY FS_CardinalityType
<1>2. \E g \in [1..n -> S] : IsInjective(g)
  BY <1>1 DEF ExistsBijection, Bijection, Injection
<1>3. f \in [1..n -> S] /\ IsInjective(f)
  BY <1>2 DEF SetToSeq
<1> HIDE DEF f
<1>4. f \in Surjection(1..n, S)
  <2>1. f \in Injection(1..n, S)
    BY <1>3 DEF Injection
  <2>2. Cardinality(1..n) = n
    BY <1>1, FS_Interval
  <2> QED
    BY <2>1, <2>2, FS_Injection
<1>5. Range(f) = S
  BY <1>3, <1>4 DEF Surjection, Range
<1> QED
  BY <1>5 DEF f

\* An intent that is acted on, and one that must be met.
Followed(w, i, skipped) ==
  /\ i.id \notin skipped
  /\ i.platforms = {} \/ w.platform.os \in i.platforms
  /\ Known(w.catalog, i.id)
Binding(w, i, skipped) ==
  /\ ~i.optional /\ i.id \notin skipped
  /\ i.platforms = {} \/ w.platform.os \in i.platforms
  /\ i.conflict # "prefer-installed"

\* The operation on an intent's own package, and that on one it conflicts with.
Owned(w, i, o) ==
  /\ o.own /\ o.op = Operation(i.state) /\ Id(o) = Manifest(w.catalog, i.id).id
  /\ i.version # NoVersion => o.resolution.version = i.version
Cleared(w, c, o) ==
  ~o.own /\ o.op = "remove" /\ o.for = c /\ Known(w.catalog, c) /\ Id(o) = Manifest(w.catalog, c).id
ComesOf(w, i, o) == Owned(w, i, o) \/ \E c \in InstalledConflicts(w, i) : Cleared(w, c, o)

AsAsked(r, id, version) ==
  /\ r.id = id /\ (version # NoVersion => r.version = version)
  /\ \A k : Selecting(r, k).id = id /\ (version # NoVersion => Selecting(r, k).version = version)

\* What an intent adds comes of it; and if it must be met, that is all it takes.
Serves(w, i, skipped, scheduled, x) ==
  x.error = "" =>
    /\ \A o \in Range(x.ops) : Followed(w, i, skipped) /\ ComesOf(w, i, o)
    /\ Binding(w, i, skipped) =>
         /\ Known(w.catalog, i.id) /\ \E o \in Range(x.ops) : Owned(w, i, o)
         /\ \A c \in InstalledConflicts(w, i) \ scheduled : \E o \in Range(x.ops) : Cleared(w, c, o)

\* A resolution is of the package asked for, at the version asked for, and so is
\* what else may be selected of it.
LEMMA ResolvedIs ==
  ASSUME NEW w, Loaded(w), NEW name, NEW op, NEW via, NEW scope, NEW channel, NEW version, NEW dryRun,
         Resolve(w, name, op, Request(via, scope, channel, version), dryRun).error = ""
  PROVE  /\ Known(w.catalog, name)
         /\ AsAsked(Resolve(w, name, op, Request(via, scope, channel, version), dryRun), Manifest(w.catalog, name).id, version)
<1> DEFINE r == Resolve(w, name, op, Request(via, scope, channel, version), dryRun)
<1>1. OfThePackage(w, name, op, via, scope, channel, version, dryRun, r)
  BY ResolutionIs
<1> HIDE DEF r
<1>2. PICK p, v :
    /\ p = Manifest(w.catalog, name) /\ Known(w.catalog, name)
    /\ v = EffectiveVersion(w, p.id, op, Request(via, scope, channel, version))
    /\ r = Resolved(p.id, v, Evaluations(w, p, op, Request(via, scope, channel, v), dryRun))
  BY <1>1, Zenon DEF OfThePackage
<1> DEFINE evaluations == Evaluations(w, p, op, Request(via, scope, channel, v), dryRun)
<1>3. ASSUME NEW e, r = Resolved(p.id, v, e)
      PROVE  r.id = p.id /\ r.version = v /\ \A k : Selecting(r, k).id = p.id /\ Selecting(r, k).version = v
  BY <1>3, Zenon DEF Resolved, Selecting
<1>4. r.id = p.id /\ r.version = v /\ \A k : Selecting(r, k).id = p.id /\ Selecting(r, k).version = v
  BY <1>2, <1>3, Zenon
<1>5. version # NoVersion => v = version
  BY <1>2 DEF EffectiveVersion, Request
<1>6. AsAsked(r, Manifest(w.catalog, name).id, version)
  BY <1>2, <1>4, <1>5, Zenon DEF AsAsked
<1> QED
  BY <1>2, <1>6, Zenon DEF r

LEMMA RangeWith ==
  ASSUME NEW s, Listed(s), NEW x
  PROVE  Range(Append(s, x)) = Range(s) \union {x}
<1> DEFINE X == Range(s) \union {x}
<1>1. s \in Seq(X) /\ x \in X
  BY DEF Listed
<1> HIDE DEF X
<1> QED
  BY <1>1, RangeOfAppend

\* The removals of what conflicts, where they are resolved.
LEMMA RemovalsClear ==
  ASSUME NEW w, Loaded(w), NEW S, IsFiniteSet(S), NEW dryRun,
         NEW removals, removals = Removals(w, SetToSeq(S), dryRun),
         \A k \in DOMAIN removals : removals[k].resolution.error = ""
  PROVE  /\ \A o \in Range(removals) : \E c \in S : Cleared(w, c, o)
         /\ \A c \in S : \E o \in Range(removals) : Cleared(w, c, o)
<1> DEFINE going == SetToSeq(S)
<1>1. Range(going) = S
  BY ListOfAll
<1> HIDE DEF going
<1>2. removals = [k \in DOMAIN going |->
         [op |-> "remove", own |-> FALSE, for |-> going[k], resolution |-> RemovalOf(w, going[k], dryRun)]]
  BY Zenon DEF Removals, going
<1>3. DOMAIN removals = DOMAIN going
  BY <1>2
<1>4. ASSUME NEW k \in DOMAIN going PROVE Cleared(w, going[k], removals[k])
  <2> DEFINE o == removals[k]
             c == going[k]
             mine == w.installed[c]
  <2>1. o = [op |-> "remove", own |-> FALSE, for |-> c, resolution |-> RemovalOf(w, c, dryRun)]
    BY <1>2, Zenon
  <2>2. o.resolution.error = ""
    BY <1>3
  <2> HIDE DEF o, c
  <2>3. o.op = "remove" /\ ~o.own /\ o.for = c /\ o.resolution = RemovalOf(w, c, dryRun)
    BY <2>1
  <2>4. RemovalOf(w, c, dryRun) = Resolve(w, c, "remove", Request(mine.backend, mine.scope, "stable", NoVersion), dryRun)
    BY Zenon DEF RemovalOf
  <2> DEFINE r == Resolve(w, c, "remove", Request(mine.backend, mine.scope, "stable", NoVersion), dryRun)
  <2>5. r.error = ""
    BY <2>2, <2>3, <2>4
  <2>6. Known(w.catalog, c) /\ AsAsked(r, Manifest(w.catalog, c).id, NoVersion)
    BY <2>5, ResolvedIs
  <2>7. o.resolution.id = Manifest(w.catalog, c).id
    BY <2>3, <2>4, <2>6, Zenon DEF AsAsked
  <2> QED
    BY <2>3, <2>6, <2>7 DEF Cleared, Id, o, c
<1> QED
  BY <1>1, <1>3, <1>4 DEF Range

\* An intent adds its own operation after the removals, unless it is dropped.
Provides(w, i, removals, x) ==
  x.error = "" =>
    /\ \A o \in Range(x.ops) : o \in Range(removals) \/ Owned(w, i, o)
    /\ ~i.optional => /\ Range(removals) \subseteq Range(x.ops)
                      /\ \E o \in Range(x.ops) : Owned(w, i, o)

LEMMA OwnServes ==
  ASSUME NEW w, Loaded(w), NEW i, NEW dryRun, NEW removals, Listed(removals)
  PROVE  Provides(w, i, removals, OwnOutcome(w, i, removals, dryRun))
<1> DEFINE x == OwnOutcome(w, i, removals, dryRun)
           op == Operation(i.state)
           r == Resolve(w, i.id, op, Request(Anything, i.scope, i.channel, i.version), dryRun)
           among == Permitted(i, r)
           chosen == Selecting(r, Best(r.evaluations, among))
           y == Outcome("", removals, <<>>)
           z == Chosen(w, i, removals, chosen)
           none == Outcome("no_candidate", <<>>, <<>>)
           failed == Outcome(r.error, <<>>, <<>>)
           o == [op |-> op, own |-> TRUE, for |-> i.id, resolution |-> chosen]
<1>1. x = IF r.error # "" THEN failed
          ELSE IF among = {} /\ i.optional THEN y
          ELSE IF among = {} THEN none
          ELSE z
  BY Zenon DEF OwnOutcome, SettleAmong, Settle
<1>2. failed.error = r.error /\ none.error = "no_candidate" /\ y.ops = removals
  BY DEF Outcome
<1>3. z.ops = Append(removals, o)
  BY Zenon DEF Chosen, Outcome
<1>4. o.op = op /\ o.own /\ o.resolution = chosen
  BY Zenon
<1>6. ASSUME r.error = "" PROVE Owned(w, i, o)
  <2>1. AsAsked(r, Manifest(w.catalog, i.id).id, i.version)
    BY <1>6, ResolvedIs
  <2> HIDE DEF r
  <2>2. chosen.id = Manifest(w.catalog, i.id).id /\ (i.version # NoVersion => chosen.version = i.version)
    BY <2>1, Zenon DEF AsAsked
  <2> HIDE DEF chosen, o
  <2> QED
    BY <1>4, <2>2, Zenon DEF Owned, Id
<1> HIDE DEF x, r, among, chosen, y, z, none, failed, o
<1>7. x.error = "" => (x = y /\ i.optional) \/ (x = z /\ r.error = "")
  BY <1>1, <1>2
<1>8. Range(z.ops) = Range(removals) \union {o}
  BY <1>3, RangeWith
<1>9. Provides(w, i, removals, x)
  BY <1>2, <1>6, <1>7, <1>8 DEF Provides
<1> QED
  BY <1>9 DEF x

LEMMA RoomServes ==
  ASSUME NEW w, Loaded(w), NEW i, NEW skipped, Followed(w, i, skipped), NEW scheduled, NEW dryRun, NEW removals,
         removals = Removals(w, SetToSeq(InstalledConflicts(w, i) \ scheduled), dryRun)
  PROVE  Serves(w, i, skipped, scheduled, MakingRoom(w, i, removals, dryRun))
<1> DEFINE S == InstalledConflicts(w, i) \ scheduled
           failed == \E k \in DOMAIN removals : removals[k].resolution.error # "" \/ removals[k].resolution.selected = 0
           own == OwnOutcome(w, i, removals, dryRun)
           none == Outcome("no_candidate", <<>>, <<>>)
           x == MakingRoom(w, i, removals, dryRun)
<1>1. x = IF failed THEN none ELSE own
  BY Zenon DEF MakingRoom
<1>2. none.error = "no_candidate"
  BY DEF Outcome
<1>3. IsFiniteSet(S) /\ Known(w.catalog, i.id)
  <2>0. Known(w.catalog, i.id)
    BY Zenon DEF Followed
  <2>1. Manifest(w.catalog, i.id) \in Range(w.catalog.packages)
    BY <2>0, ManifestIsOne DEF Loaded
  <2>2. IsFiniteSet(Manifest(w.catalog, i.id).conflicts)
    BY <2>1, CatalogsAssumption DEF Loaded
  <2>3. S \subseteq Manifest(w.catalog, i.id).conflicts
    BY DEF InstalledConflicts
  <2> QED
    BY <2>0, <2>2, <2>3, FS_Subset
<1>4. SetToSeq(S) \in Seq(S)
  BY <1>3, ListOfSet
<1> HIDE DEF own, none, x
<1>5. SUFFICES ASSUME x.error = "" PROVE Serves(w, i, skipped, scheduled, x)
  BY Zenon DEF Serves, x
<1>6. x = own /\ ~failed
  BY <1>1, <1>2, <1>5
<1>7. removals = Removals(w, SetToSeq(S), dryRun)
  BY Zenon
<1>8. Listed(removals)
  <2>1. \A k \in DOMAIN removals : removals[k].resolution.error = "" /\ removals[k].resolution.selected # 0
    BY <1>6, Zenon
  <2>2. Clearing(w, dryRun, removals)
    BY <1>4, <1>7, <2>1, RemovalsAreGood
  <2> QED
    BY <2>2, Zenon DEF Clearing
<1>9. /\ \A o \in Range(removals) : \E c \in S : Cleared(w, c, o)
      /\ \A c \in S : \E o \in Range(removals) : Cleared(w, c, o)
  <2>1. \A k \in DOMAIN removals : removals[k].resolution.error = ""
    BY <1>6, Zenon
  <2> HIDE DEF S
  <2> QED
    BY <1>3, <1>7, <2>1, RemovalsClear
<1>10. /\ \A o \in Range(x.ops) : o \in Range(removals) \/ Owned(w, i, o)
       /\ ~i.optional => /\ Range(removals) \subseteq Range(x.ops)
                         /\ \E o \in Range(x.ops) : Owned(w, i, o)
  <2>1. x = OwnOutcome(w, i, removals, dryRun)
    BY <1>6, Zenon DEF own
  <2>2. Provides(w, i, removals, OwnOutcome(w, i, removals, dryRun))
    BY <1>8, OwnServes
  <2> QED
    BY <1>5, <2>1, <2>2, Zenon DEF Provides
<1>11. \A c \in S : c \in InstalledConflicts(w, i)
  OBVIOUS
<1> HIDE DEF S
<1>12. \A o \in Range(x.ops) : ComesOf(w, i, o)
  BY <1>9, <1>10, <1>11, Zenon DEF ComesOf
<1>13. ~i.optional => (\E o \in Range(x.ops) : Owned(w, i, o)) /\ \A c \in S : \E o \in Range(x.ops) : Cleared(w, c, o)
  BY <1>9, <1>10
<1> QED
  BY <1>3, <1>12, <1>13, Zenon DEF Serves, Binding, S

LEMMA IntentServes ==
  ASSUME NEW w, Loaded(w), NEW i, NEW skipped, NEW scheduled, NEW dryRun
  PROVE  Serves(w, i, skipped, scheduled, IntentOutcome(w, i, skipped, scheduled, dryRun))
<1> DEFINE x == IntentOutcome(w, i, skipped, scheduled, dryRun)
           removals == Removals(w, SetToSeq(InstalledConflicts(w, i) \ scheduled), dryRun)
           left == i.id \in skipped \/ (i.platforms # {} /\ w.platform.os \notin i.platforms)
           unknown == Outcome(Lookup(w.catalog, i.id).found, <<>>, <<>>)
           refused == Outcome("conflict.detected", <<>>, <<>>)
           room == MakingRoom(w, i, removals, dryRun)
<1>1. \/ x = Nothing /\ (left \/ i.conflict = "prefer-installed")
      \/ x = unknown \/ x = refused
      \/ x = room /\ ~left /\ Known(w.catalog, i.id)
  BY Zenon DEF IntentOutcome
<1>2. unknown.error # "" /\ refused.error # "" /\ Range(Nothing.ops) = {}
  <2>1. unknown.error = Lookup(w.catalog, i.id).found /\ refused.error = "conflict.detected" /\ Nothing.ops = <<>>
    BY DEF Outcome, Nothing
  <2>2. Lookup(w.catalog, i.id).found # ""
    BY LookupSaysWhy, Zenon
  <2>3. Range(<<>>) = {}
    BY DEF Range
  <2> HIDE DEF unknown, refused
  <2>4. Range(Nothing.ops) = {}
    BY <2>1, <2>3, Zenon
  <2>5. unknown.error # ""
    BY <2>1, <2>2, Zenon
  <2>6. refused.error # ""
    BY <2>1
  <2> QED
    BY <2>4, <2>5, <2>6
<1>3. left => ~Binding(w, i, skipped)
  BY Zenon DEF Binding
<1>4. ~left /\ Known(w.catalog, i.id) => Followed(w, i, skipped)
  BY Zenon DEF Followed
<1>5. Followed(w, i, skipped) => Serves(w, i, skipped, scheduled, room)
  BY RoomServes
<1> HIDE DEF x, left, unknown, refused, room
<1>6. ASSUME x = Nothing, left \/ i.conflict = "prefer-installed" PROVE Serves(w, i, skipped, scheduled, x)
  BY <1>2, <1>3, <1>6, Zenon DEF Serves, Binding
<1>7. ASSUME x.error # "" PROVE Serves(w, i, skipped, scheduled, x)
  BY <1>7, Zenon DEF Serves
<1>8. Serves(w, i, skipped, scheduled, x)
  BY <1>1, <1>2, <1>4, <1>5, <1>6, <1>7, Zenon
<1> QED
  BY <1>8 DEF x

\* What the first n intents add comes of one of them; those of them that must be
\* met have all that it takes.
ServesAll(w, intents, skipped, n, x) ==
  x.error = "" =>
    /\ \A o \in Range(x.ops) : \E k \in 1..n : Followed(w, intents[k], skipped) /\ ComesOf(w, intents[k], o)
    /\ \A k \in 1..n : Binding(w, intents[k], skipped) =>
         /\ Known(w.catalog, intents[k].id) /\ \E o \in Range(x.ops) : Owned(w, intents[k], o)
         /\ \A c \in InstalledConflicts(w, intents[k]) : \E o \in Range(x.ops) : Cleared(w, c, o)

LEMMA FurtherServes ==
  ASSUME NEW w, Loaded(w), NEW intents, NEW n \in Nat, n # 0, Typed(intents[n].version), NEW skipped, NEW dryRun,
         NEW before, Good(w, dryRun, before), ServesAll(w, intents, skipped, n - 1, before)
  PROVE  ServesAll(w, intents, skipped, n, Further(w, intents[n], skipped, before, dryRun))
<1> DEFINE i == intents[n]
           scheduled == Scheduled(before)
           outcome == IntentOutcome(w, i, skipped, scheduled, dryRun)
           x == Following(before, outcome)
<1>1. Good(w, dryRun, outcome)
  BY IntentIsGood
<1>2. Serves(w, i, skipped, scheduled, outcome)
  BY IntentServes
<1>3. x.error = outcome.error /\ x.ops = before.ops \o outcome.ops
  BY DEF Following, Outcome
<1>4. Further(w, intents[n], skipped, before, dryRun) = IF before.error # "" THEN before ELSE x
  BY Zenon DEF Further
<1>5. \A o \in Range(before.ops) : ~o.own => o.for \in scheduled
  BY DEF Scheduled
<1>6. \A c \in scheduled : \E o \in Range(before.ops) : ~o.own /\ o.for = c
  BY DEF Scheduled
<1> HIDE DEF x, outcome, scheduled, i
<1>7. CASE before.error # ""
  BY <1>4, <1>7 DEF ServesAll
<1>8. CASE before.error = "" /\ x.error # ""
  BY <1>4, <1>8 DEF ServesAll
<1>9. ASSUME before.error = "", x.error = "" PROVE ServesAll(w, intents, skipped, n, x)
  <2>1. Range(x.ops) = Range(before.ops) \union Range(outcome.ops)
    <3>1. Listed(before.ops) /\ Listed(outcome.ops)
      BY <1>1, <1>3, <1>9, Zenon DEF Good
    <3> QED
      BY <1>3, <3>1, ListsJoin
  <2>2. /\ \A o \in Range(outcome.ops) : Followed(w, i, skipped) /\ ComesOf(w, i, o)
        /\ Binding(w, i, skipped) =>
             /\ Known(w.catalog, i.id) /\ \E o \in Range(outcome.ops) : Owned(w, i, o)
             /\ \A c \in InstalledConflicts(w, i) \ scheduled : \E o \in Range(outcome.ops) : Cleared(w, c, o)
    BY <1>2, <1>3, <1>9, Zenon DEF Serves
  <2>3. /\ \A o \in Range(before.ops) : \E k \in 1..(n - 1) : Followed(w, intents[k], skipped) /\ ComesOf(w, intents[k], o)
        /\ \A k \in 1..(n - 1) : Binding(w, intents[k], skipped) =>
             /\ Known(w.catalog, intents[k].id) /\ \E o \in Range(before.ops) : Owned(w, intents[k], o)
             /\ \A c \in InstalledConflicts(w, intents[k]) : \E o \in Range(before.ops) : Cleared(w, c, o)
    BY <1>9, Zenon DEF ServesAll
  <2>4. \A k \in 1..(n - 1) : k \in 1..n
    OBVIOUS
  <2>5. n \in 1..n /\ i = intents[n] /\ \A k \in 1..n : k = n \/ k \in 1..(n - 1)
    BY DEF i
  <2>6. \A o \in Range(x.ops) : \E k \in 1..n : Followed(w, intents[k], skipped) /\ ComesOf(w, intents[k], o)
    <3>1. ASSUME NEW o \in Range(before.ops) PROVE \E k \in 1..n : Followed(w, intents[k], skipped) /\ ComesOf(w, intents[k], o)
      BY <2>3, <2>4, Zenon
    <3>2. ASSUME NEW o \in Range(outcome.ops) PROVE \E k \in 1..n : Followed(w, intents[k], skipped) /\ ComesOf(w, intents[k], o)
      BY <2>2, <2>5, Zenon
    <3> QED
      BY <2>1, <3>1, <3>2
  <2>7. ASSUME Binding(w, i, skipped), NEW c \in InstalledConflicts(w, i) PROVE \E o \in Range(x.ops) : Cleared(w, c, o)
    <3>1. CASE c \notin scheduled
      <4>1. \E o \in Range(outcome.ops) : Cleared(w, c, o)
        BY <2>2, <2>7, <3>1
      <4> QED
        BY <2>1, <4>1
    <3>2. CASE c \in scheduled
      <4>1. PICK o \in Range(before.ops) : ~o.own /\ o.for = c
        BY <1>6, <3>2
      <4>2. PICK k \in 1..(n - 1) : ComesOf(w, intents[k], o)
        BY <2>3, <4>1
      <4>3. Cleared(w, c, o)
        BY <4>1, <4>2 DEF ComesOf, Owned, Cleared
      <4> QED
        BY <2>1, <4>1, <4>3
    <3> QED
      BY <3>1, <3>2
  <2>8. ASSUME NEW k \in 1..n, Binding(w, intents[k], skipped)
        PROVE  /\ Known(w.catalog, intents[k].id) /\ \E o \in Range(x.ops) : Owned(w, intents[k], o)
               /\ \A c \in InstalledConflicts(w, intents[k]) : \E o \in Range(x.ops) : Cleared(w, c, o)
    <3>1. CASE k = n
      BY <2>1, <2>2, <2>5, <2>7, <2>8, <3>1
    <3>2. CASE k \in 1..(n - 1)
      BY <2>1, <2>3, <2>8, <3>2
    <3> QED
      BY <2>5, <3>1, <3>2
  <2> QED
    BY <2>6, <2>8, Zenon DEF ServesAll
<1> QED
  BY <1>4, <1>7, <1>8, <1>9, Zenon

LEMMA GatherServes ==
  ASSUME NEW w, Loaded(w), NEW intents, Listed(intents), \A i \in Range(intents) : Typed(i.version),
         NEW skipped, NEW dryRun
  PROVE  ServesAll(w, intents, skipped, Len(intents), Gather(w, intents, skipped, dryRun))
<1>1. Len(intents) \in Nat /\ DOMAIN intents = 1..Len(intents)
  BY PlacesCount, Zenon DEF Listed
<1>2. PICK f : /\ f = [n \in 0..Len(intents) |-> GatherAt(w, intents, skipped, dryRun, f, n)]
               /\ Gather(w, intents, skipped, dryRun) = f[Len(intents)]
  BY <1>1, GatherUnfolds
<1>3. \A n \in 0..Len(intents) : f[n] = GatherAt(w, intents, skipped, dryRun, f, n)
  BY <1>2
<1> DEFINE Fine(n) == Good(w, dryRun, f[n]) /\ ServesAll(w, intents, skipped, n, f[n])
           Bad == {n \in 0..Len(intents) : ~Fine(n)}
<1>4. Fine(0)
  <2>1. f[0] = Nothing
    BY <1>1, <1>3 DEF GatherAt
  <2>2. Good(w, dryRun, Nothing)
    BY NothingIsGood, Zenon
  <2>3. Range(Nothing.ops) = {}
    BY DEF Nothing, Outcome, Range
  <2>4. \A k \in 1..0 : FALSE
    OBVIOUS
  <2>5. ServesAll(w, intents, skipped, 0, Nothing)
    BY <2>3, <2>4, Zenon DEF ServesAll
  <2> QED
    BY <2>1, <2>2, <2>5
<1>5. ASSUME NEW n \in 1..Len(intents), Fine(n - 1) PROVE Fine(n)
  <2>1. f[n] = Further(w, intents[n], skipped, f[n - 1], dryRun)
    BY <1>1, <1>3 DEF GatherAt
  <2>2. Typed(intents[n].version) /\ n \in Nat /\ n # 0
    BY <1>1 DEF Range
  <2>3. Good(w, dryRun, f[n])
    BY <1>5, <2>1, <2>2, FurtherIsGood
  <2>4. ServesAll(w, intents, skipped, n, f[n])
    BY <1>5, <2>1, <2>2, FurtherServes
  <2> QED
    BY <2>3, <2>4
<1>6. Bad \subseteq Nat /\ \A n \in 0..Len(intents) : n \notin Bad => Fine(n)
  OBVIOUS
<1>7. \A n \in Bad : n \in 0..Len(intents) /\ ~Fine(n)
  OBVIOUS
<1> HIDE DEF Fine, Bad
<1>8. ASSUME Bad # {} PROVE FALSE
  <2>1. PICK m \in Bad : \A k \in Bad : m <= k
    BY <1>6, <1>8, Least
  <2>2. m \in 0..Len(intents) /\ ~Fine(m) /\ m # 0
    BY <1>4, <1>7, <2>1
  <2>3. m \in 1..Len(intents) /\ m - 1 \in 0..Len(intents) /\ m - 1 \notin Bad
    BY <1>1, <1>7, <2>1, <2>2
  <2> QED
    BY <1>5, <1>6, <2>2, <2>3
<1>9. Fine(Len(intents))
  BY <1>1, <1>6, <1>8
<1> QED
  BY <1>2, <1>9 DEF Fine

-----------------------------------------------------------------------------
(* An apply that ended meets the intents of its bundle *)

\* The operations are those that the intents ask for.
Served(w, intents, ops) ==
  /\ \A o \in Range(ops) : \E i \in Range(intents) : Followed(w, i, Skipped(w, intents)) /\ ComesOf(w, i, o)
  /\ \A i \in Counted(w, intents) :
       /\ Known(w.catalog, i.id) /\ \E o \in Range(ops) : Owned(w, i, o)
       /\ \A c \in InstalledConflicts(w, i) : \E o \in Range(ops) : Cleared(w, c, o)

LEMMA BundleServes ==
  ASSUME NEW w, Loaded(w), NEW b \in Bundles, NEW profile, ResolveBundle(w, b, profile, FALSE).error = ""
  PROVE  /\ ValidBundle(b) /\ ~Ambiguous(w, Intents(b, profile))
         /\ Served(w, Intents(b, profile), ResolveBundle(w, b, profile, FALSE).ops)
<1> DEFINE intents == Intents(b, profile)
           skipped == Skipped(w, intents)
           all == Gather(w, intents, skipped, FALSE)
           x == ResolveBundle(w, b, profile, FALSE)
<1>1. ComesTo(w, b, profile, FALSE, all, x)
  BY BundleResolves
<1>2. all.error = "" /\ x.ops = all.ops
  BY <1>1, Zenon DEF ComesTo
<1>3. ValidBundle(b) /\ ~Ambiguous(w, intents)
  <2> DEFINE unknown == \E i \in {k \in Range(intents) : k.state = "present"} : ~Known(w.catalog, i.id)
             gone == profile # NoProfile /\ profile \notin DOMAIN b.profiles
             named == Range(b.references) \subseteq LayerIds(w.layers)
             resolution == Resolution(w, b, profile, all)
  <2>1. x = IF ~ValidBundle(b) THEN Refused("invalid")
            ELSE IF ~named THEN Refused("policy_reference.missing")
            ELSE IF gone THEN Refused("profile.missing")
            ELSE IF unknown THEN Refused("package.missing")
            ELSE IF Ambiguous(w, intents) THEN Refused("conflict.ambiguous")
            ELSE resolution
    BY Zenon DEF ResolveBundle
  <2>2. x.error = ""
    OBVIOUS
  <2>3. /\ Refused("invalid").error # "" /\ Refused("policy_reference.missing").error # ""
        /\ Refused("profile.missing").error # "" /\ Refused("package.missing").error # ""
        /\ Refused("conflict.ambiguous").error # ""
    BY DEF Refused
  <2> HIDE DEF x, unknown, gone, named, resolution, intents
  <2> QED
    BY <2>1, <2>2, <2>3, Zenon
<1>4. Listed(intents) /\ \A i \in Range(intents) : Typed(i.version)
  BY IntentsAreListed
<1> HIDE DEF all, x, intents, skipped
<1>5. ServesAll(w, intents, skipped, Len(intents), all)
  BY <1>4, GatherServes DEF all
<1>6. DOMAIN intents = 1..Len(intents)
  BY <1>4, PlacesCount, Zenon DEF Listed
<1>7. \A i : i \in Range(intents) <=> \E k \in 1..Len(intents) : i = intents[k]
  BY <1>6 DEF Range
<1>8. \A i \in Counted(w, intents) : i \in Range(intents) /\ Binding(w, i, skipped)
  BY DEF Counted, Binding, skipped
<1>9. \A o \in Range(x.ops) : \E i \in Range(intents) : Followed(w, i, skipped) /\ ComesOf(w, i, o)
  BY <1>2, <1>5, <1>7, Zenon DEF ServesAll
<1>10. \A i \in Counted(w, intents) :
         /\ Known(w.catalog, i.id) /\ \E o \in Range(x.ops) : Owned(w, i, o)
         /\ \A c \in InstalledConflicts(w, i) : \E o \in Range(x.ops) : Cleared(w, c, o)
  <2>1. SUFFICES ASSUME NEW i \in Counted(w, intents)
                 PROVE  /\ Known(w.catalog, i.id) /\ \E o \in Range(x.ops) : Owned(w, i, o)
                        /\ \A c \in InstalledConflicts(w, i) : \E o \in Range(x.ops) : Cleared(w, c, o)
    BY Zenon
  <2>2. PICK k \in 1..Len(intents) : i = intents[k]
    BY <1>7, <1>8
  <2>3. Binding(w, intents[k], skipped)
    BY <1>8, <2>2
  <2>4. /\ Known(w.catalog, intents[k].id) /\ \E o \in Range(all.ops) : Owned(w, intents[k], o)
        /\ \A c \in InstalledConflicts(w, intents[k]) : \E o \in Range(all.ops) : Cleared(w, c, o)
    BY <1>2, <1>5, <2>3, Zenon DEF ServesAll
  <2> QED
    BY <1>2, <2>2, <2>4, Zenon
<1>11. Served(w, intents, x.ops)
  BY <1>9, <1>10, Zenon DEF Served, skipped
<1> QED
  BY <1>3, <1>11 DEF x, intents

\* Of two intents for packages to be present that conflict one is skipped.
LEMMA NoRivals ==
  ASSUME NEW w, NEW intents, ~Ambiguous(w, intents), NEW i \in Range(intents), NEW j \in Range(intents),
         i # j, i.state = "present", j.state = "present",
         i.id \notin Skipped(w, intents), j.id \notin Skipped(w, intents)
  PROVE  Manifest(w.catalog, i.id).id \notin Manifest(w.catalog, j.id).conflicts
<1>1. SUFFICES ASSUME Manifest(w.catalog, i.id).id \in Manifest(w.catalog, j.id).conflicts PROVE FALSE
  OBVIOUS
<1>2. Conflicting(w, i, j) /\ Conflicting(w, j, i)
  BY <1>1, Zenon DEF Conflicting
<1>3. <<i, j>> \in Rivals(w, intents) /\ <<j, i>> \in Rivals(w, intents)
  BY <1>2 DEF Rivals
<1>4. Yields(i, j) \/ Yields(j, i)
  BY <1>3 DEF Ambiguous
<1>5. Yields(i, j) => i.id \in Skipped(w, intents)
  BY <1>3 DEF Skipped
<1>6. Yields(j, i) => j.id \in Skipped(w, intents)
  BY <1>3 DEF Skipped
<1> QED
  BY <1>4, <1>5, <1>6

\* In a valid bundle no two intents are spelled alike, and each has a state.
LEMMA IntentsDiffer ==
  ASSUME NEW b \in Bundles, ValidBundle(b)
  PROVE  /\ \A i \in Range(b.packages) : i.state \in {"present", "absent"}
         /\ \A i, j \in Range(b.packages) : i.id = j.id => i = j
<1> DEFINE names == [k \in DOMAIN b.packages |-> Normal(b.packages[k].id)]
<1>1. IsInjective(names) /\ \A k \in DOMAIN b.packages : b.packages[k].state \in {"present", "absent"}
  BY Zenon DEF ValidBundle, ValidIntent
<1>2. DOMAIN names = DOMAIN b.packages /\ \A k \in DOMAIN b.packages : names[k] = Normal(b.packages[k].id)
  BY Zenon
<1> HIDE DEF names
<1>3. \A k, l \in DOMAIN b.packages : b.packages[k].id = b.packages[l].id => k = l
  BY <1>1, <1>2, Zenon DEF IsInjective
<1> QED
  BY <1>1, <1>3, Zenon DEF Range

\* What is removed is absent or has to yield, what is installed is to be present.
LEMMA OperationsTell ==
  ASSUME NEW w, NEW b \in Bundles, ValidBundle(b), NEW intents, Range(intents) \subseteq Range(b.packages),
         Meetable(w, intents), NEW i \in Range(intents), Followed(w, i, Skipped(w, intents)),
         NEW o, ComesOf(w, i, o)
  PROVE  \/ o.op = "install" /\ i.state = "present" /\ Owned(w, i, o)
         \/ o.op = "remove" /\ i.state = "absent" /\ Owned(w, i, o)
         \/ o.op = "remove" /\ Id(o) \in Manifest(w.catalog, i.id).conflicts
<1>1. i.state \in {"present", "absent"}
  BY IntentsDiffer
<1>2. CASE Owned(w, i, o)
  BY <1>1, <1>2 DEF Owned, Operation
<1>3. ASSUME NEW c \in InstalledConflicts(w, i), Cleared(w, c, o) PROVE o.op = "remove" /\ Id(o) \in Manifest(w.catalog, i.id).conflicts
  <2>1. c \in DOMAIN w.installed /\ c \in Manifest(w.catalog, i.id).conflicts
    BY DEF InstalledConflicts
  <2>2. o.op = "remove" /\ Known(w.catalog, c) /\ Id(o) = Manifest(w.catalog, c).id
    BY <1>3, Zenon DEF Cleared
  <2>3. Manifest(w.catalog, c).id = c
    BY <2>1, <2>2, Zenon DEF Meetable
  <2> QED
    BY <2>1, <2>2, <2>3
<1> QED
  BY <1>2, <1>3 DEF ComesOf

\* No operation undoes what an intent to be met asks for.
LEMMA NothingUndoes ==
  ASSUME NEW w, NEW b \in Bundles, ValidBundle(b), NEW intents, Range(intents) \subseteq Range(b.packages),
         Meetable(w, intents), ~Ambiguous(w, intents), NEW ops, Served(w, intents, ops),
         NEW i \in Counted(w, intents), NEW o \in Range(ops)
  PROVE  /\ Id(o) = Manifest(w.catalog, i.id).id =>
              /\ i.state = "present" => o.op = "install" /\ Owned(w, i, o)
              /\ i.state = "absent" => o.op = "remove"
         /\ i.state = "present" /\ Id(o) \in Manifest(w.catalog, i.id).conflicts => o.op = "remove"
<1> DEFINE skipped == Skipped(w, intents)
           names(k) == Manifest(w.catalog, k.id).id
           against(k) == Manifest(w.catalog, k.id).conflicts
<1>1. PICK j \in Range(intents) : Followed(w, j, skipped) /\ ComesOf(w, j, o)
  BY Zenon DEF Served
<1>2. \/ o.op = "install" /\ j.state = "present" /\ Owned(w, j, o)
      \/ o.op = "remove" /\ j.state = "absent" /\ Owned(w, j, o)
      \/ o.op = "remove" /\ Id(o) \in against(j)
  BY <1>1, OperationsTell
<1>3. i \in Range(intents) /\ Known(w.catalog, i.id) /\ i.id \notin skipped
  BY Zenon DEF Served, Counted
<1>4. Known(w.catalog, j.id) /\ j.id \notin skipped
  BY <1>1, Zenon DEF Followed
<1>5. names(i) = names(j) => i = j
  BY <1>3, <1>4 DEF Meetable
<1>6. i.state = "present" /\ (j = i \/ j.state = "absent") => names(i) \notin against(j)
  BY <1>3, <1>4 DEF Meetable
<1>7. j.state = "present" /\ (i = j \/ i.state = "absent") => names(j) \notin against(i)
  BY <1>3, <1>4 DEF Meetable
<1>8. i # j /\ i.state = "present" /\ j.state = "present" => names(i) \notin against(j) /\ names(j) \notin against(i)
  BY <1>3, <1>4, NoRivals
<1>9. i.state \in {"present", "absent"} /\ j.state \in {"present", "absent"}
  BY <1>3, IntentsDiffer
<1>10. Owned(w, j, o) => Id(o) = names(j)
  BY Zenon DEF Owned
<1> HIDE DEF names, against, skipped
<1>11. ASSUME Id(o) = names(i), i.state = "present" PROVE o.op = "install" /\ Owned(w, i, o)
  BY <1>2, <1>5, <1>6, <1>8, <1>9, <1>10, <1>11
<1>12. ASSUME Id(o) = names(i), i.state = "absent" PROVE o.op = "remove"
  BY <1>2, <1>5, <1>10, <1>12
<1>13. ASSUME i.state = "present", Id(o) \in against(i) PROVE o.op = "remove"
  BY <1>2, <1>7, <1>8, <1>9, <1>10, <1>13
<1> QED
  BY <1>11, <1>12, <1>13 DEF names, against

LEMMA IntentIsMet ==
  ASSUME NEW w, NEW b \in Bundles, ValidBundle(b), NEW intents, Range(intents) \subseteq Range(b.packages),
         Meetable(w, intents), ~Ambiguous(w, intents), NEW ops, Served(w, intents, ops),
         NEW r, \A id : Recorded(w, ops, DOMAIN ops, r, id), NEW i \in Counted(w, intents)
  PROVE  /\ i.state = "present" <=> Manifest(w.catalog, i.id).id \in DOMAIN r
         /\ i.state = "present" => Manifest(w.catalog, i.id).conflicts \intersect DOMAIN r = {}
         /\ i.state = "present" /\ i.version # NoVersion =>
              Satisfies(r[Manifest(w.catalog, i.id).id].version, i.version)
<1> DEFINE x == Manifest(w.catalog, i.id).id
           against == Manifest(w.catalog, i.id).conflicts
<1>1. \A o \in Range(ops) :
        /\ Id(o) = x => /\ i.state = "present" => o.op = "install" /\ Owned(w, i, o)
                        /\ i.state = "absent" => o.op = "remove"
        /\ i.state = "present" /\ Id(o) \in against => o.op = "remove"
  BY NothingUndoes
<1>2. /\ Known(w.catalog, i.id) /\ \E o \in Range(ops) : Owned(w, i, o)
      /\ \A c \in InstalledConflicts(w, i) : \E o \in Range(ops) : Cleared(w, c, o)
  BY Zenon DEF Served
<1>3. i.state \in {"present", "absent"}
  BY IntentsDiffer DEF Counted
<1>4. \A j \in DOMAIN ops : ops[j] \in Range(ops)
  BY DEF Range
<1>5. \A o \in Range(ops) : \E j \in DOMAIN ops : o = ops[j]
  BY DEF Range
<1>6. PICK own \in DOMAIN ops : Owned(w, i, ops[own])
  BY <1>2, <1>5
<1>7. /\ ops[own].op = (IF i.state = "absent" THEN "remove" ELSE "install") /\ Id(ops[own]) = x
      /\ i.version # NoVersion => ops[own].resolution.version = i.version
  BY <1>6, Zenon DEF Owned, Operation
<1>8. ASSUME NEW id
      PROVE  \/ /\ \A j \in DOMAIN ops : ~Acts(w, ops[j], id)
                /\ id \in DOMAIN r <=> id \in DOMAIN w.installed
             \/ id \notin DOMAIN r /\ \E j \in DOMAIN ops : Acts(w, ops[j], id) /\ ops[j].op = "remove"
             \/ /\ id \in DOMAIN r
                /\ \E j \in DOMAIN ops : Acts(w, ops[j], id) /\ ops[j].op # "remove" /\ r[id].version \in Outcomes(ops[j])
  BY Zenon DEF Recorded
<1>9. \A o, id : Acts(w, o, id) => Id(o) = id
  BY Zenon DEF Acts
<1> HIDE DEF x, against
<1>10. ASSUME i.state = "present" PROVE x \in DOMAIN r
  <2>1. ASSUME \A j \in DOMAIN ops : ~Acts(w, ops[j], x) PROVE x \in DOMAIN w.installed
    <3>1. ~Acts(w, ops[own], x) /\ ops[own].op = "install"
      BY <1>7, <1>10, <2>1
    <3> QED
      BY <1>7, <3>1 DEF Acts, IsInstalled
  <2>2. \A j \in DOMAIN ops : Acts(w, ops[j], x) => ops[j].op # "remove"
    BY <1>1, <1>4, <1>9, <1>10
  <2> QED
    BY <1>8, <2>1, <2>2
<1>11. ASSUME i.state = "absent" PROVE x \notin DOMAIN r
  <2>1. ASSUME \A j \in DOMAIN ops : ~Acts(w, ops[j], x) PROVE x \notin DOMAIN w.installed
    <3>1. ~Acts(w, ops[own], x) /\ ops[own].op = "remove"
      BY <1>7, <1>11, <2>1
    <3> QED
      BY <1>7, <3>1 DEF Acts, IsInstalled
  <2>2. \A j \in DOMAIN ops : Acts(w, ops[j], x) => ops[j].op = "remove"
    BY <1>1, <1>4, <1>9, <1>11
  <2> QED
    BY <1>8, <2>1, <2>2
<1>12. ASSUME i.state = "present", NEW c \in against, c \in DOMAIN r PROVE FALSE
  <2>1. \A j \in DOMAIN ops : Acts(w, ops[j], c) => ops[j].op = "remove"
    BY <1>1, <1>4, <1>9, <1>12
  <2>2. (\A j \in DOMAIN ops : ~Acts(w, ops[j], c)) /\ c \in DOMAIN w.installed
    BY <1>8, <1>12, <2>1
  <2>3. c \in InstalledConflicts(w, i)
    BY <1>12, <2>2 DEF InstalledConflicts, against
  <2>4. PICK j \in DOMAIN ops : Cleared(w, c, ops[j])
    BY <1>2, <1>5, <2>3
  <2>5. ops[j].op = "remove" /\ Known(w.catalog, c) /\ Id(ops[j]) = Manifest(w.catalog, c).id
    BY <2>4, Zenon DEF Cleared
  <2>6. Id(ops[j]) = c
    BY <2>2, <2>5 DEF Meetable
  <2>7. Acts(w, ops[j], c)
    BY <2>2, <2>5, <2>6 DEF Acts, IsInstalled
  <2> QED
    BY <2>2, <2>7
<1>13. ASSUME i.state = "present", i.version # NoVersion PROVE Satisfies(r[x].version, i.version)
  <2>1. Acts(w, ops[own], x)
    BY <1>7, <1>13 DEF Acts
  <2>2. \A j \in DOMAIN ops : Acts(w, ops[j], x) => ops[j].op = "install" /\ Owned(w, i, ops[j])
    BY <1>1, <1>4, <1>9, <1>13
  <2>3. PICK j \in DOMAIN ops : Acts(w, ops[j], x) /\ ops[j].op # "remove" /\ r[x].version \in Outcomes(ops[j])
    BY <1>8, <2>1, <2>2
  <2>4. ops[j].resolution.version = i.version
    BY <1>13, <2>2, <2>3, Zenon DEF Owned
  <2> QED
    BY <1>13, <2>3, <2>4 DEF Outcomes
<1> QED
  BY <1>3, <1>10, <1>11, <1>12, <1>13 DEF x, against

\* `bundle diff` has nothing to say of an intent that is met.
LEMMA DiffIsSilent ==
  ASSUME NEW w, NEW b \in Bundles, ValidBundle(b), NEW i \in Range(b.packages),
         i.state = "present" <=> IsInstalled(w, i.id), ~(i.state = "present" /\ i.optional),
         i.state = "present" => ~Mismatch(i, w.installed[i.id])
  PROVE  i.id \notin Diff(w, b).install \union Diff(w, b).remove \union Diff(w, b).mismatched
<1> DEFINE report == Diff(w, b)
<1>1. \A j \in Range(b.packages) : j.id = i.id => j = i
  BY IntentsDiffer
<1>2. i.state \in {"present", "absent"}
  BY IntentsDiffer
<1>3. report.install = {k.id : k \in {j \in Range(b.packages) : j.state = "present" /\ ~IsInstalled(w, j.id) /\ ~j.optional}}
  BY DEF Diff
<1>4. report.remove = {k.id : k \in {j \in Range(b.packages) : j.state = "absent" /\ IsInstalled(w, j.id)}}
  BY DEF Diff
<1>5. report.mismatched = {k.id : k \in {j \in Range(b.packages) :
                             j.state = "present" /\ IsInstalled(w, j.id) /\ Mismatch(j, w.installed[j.id])}}
  BY DEF Diff
<1> HIDE DEF report
<1>6. i.id \notin report.install
  BY <1>1, <1>3
<1>7. i.id \notin report.remove
  BY <1>1, <1>2, <1>4
<1>8. i.id \notin report.mismatched
  BY <1>1, <1>5
<1> QED
  BY <1>6, <1>7, <1>8 DEF report

\* An apply that ends while nothing else changes leaves what its bundle says, for
\* any intents that can all be met: packages to be present recorded, at a version
\* that the intent allows, those to be absent not, and nothing recorded that a
\* present package declares a conflict with; and `bundle diff` agrees.
THEOREM IntentIsMetByApply == Spec => []ApplyMeetsIntent
<1>1. ASSUME IInv, Meeting PROVE ApplyMeetsIntent
  <2> DEFINE w == done.base
             b == done.bundle
             intents == Intents(b, done.profile)
             ops == ResolveBundle(w, b, done.profile, FALSE).ops
  <2>1. SUFFICES ASSUME done # None, Meetable(w, intents), NEW i \in Counted(w, intents)
                 PROVE  LET p == Manifest(catalog, i.id) IN
                        /\ i.state = "present" <=> p.id \in DOMAIN receipts
                        /\ i.state = "present" => p.conflicts \intersect DOMAIN receipts = {}
                        /\ i.id = p.id => LET report == Diff([w EXCEPT !.installed = Installed], b)
                                          IN i.id \notin report.install \union report.remove \union report.mismatched
    BY Zenon DEF ApplyMeetsIntent
  <2>2. /\ catalog = w.catalog /\ b \in Bundles /\ Loaded(w) /\ Situated(w)
        /\ ResolveBundle(w, b, done.profile, FALSE).error = ""
        /\ \A id : Recorded(w, ops, DOMAIN ops, receipts, id)
    BY <1>1, <2>1, Zenon DEF Meeting, Ended
  <2>3. ValidBundle(b) /\ ~Ambiguous(w, intents) /\ Served(w, intents, ops)
    BY <2>2, BundleServes
  <2>4. Range(intents) \subseteq Range(b.packages)
    BY <2>2, IntentsAreListed
  <2>5. i \in Range(b.packages) /\ ~i.optional
    BY <2>1, <2>4 DEF Counted
  <2> HIDE DEF w, b, intents, ops
  <2>6. /\ i.state = "present" <=> Manifest(w.catalog, i.id).id \in DOMAIN receipts
        /\ i.state = "present" => Manifest(w.catalog, i.id).conflicts \intersect DOMAIN receipts = {}
        /\ i.state = "present" /\ i.version # NoVersion =>
             Satisfies(receipts[Manifest(w.catalog, i.id).id].version, i.version)
    BY <2>1, <2>2, <2>3, <2>4, IntentIsMet
  <2> DEFINE here == [w EXCEPT !.installed = Installed]
  <2>7. here.installed = Installed
    <3>1. w = StateOf(w.catalog, w.layers, w.platform, w.day, w.installed)
      BY <2>2, Zenon DEF Situated
    <3> DEFINE now == Installed
    <3> HIDE DEF now
    <3>2. [w EXCEPT !.installed = now].installed = now
      BY <3>1, Zenon DEF StateOf
    <3> QED
      BY <3>2, Zenon DEF now
  <2>8. DOMAIN Installed = DOMAIN receipts /\ \A id \in DOMAIN receipts : Installed[id].version = receipts[id].version
    BY DEF Installed
  <2>9. \A id \in DOMAIN receipts : receipts[id].version # NoVersion
    BY <1>1, BundleApplyAssumption DEF IInv, Ready
  <2> HIDE DEF here
  <2>10. ASSUME i.id = Manifest(w.catalog, i.id).id
         PROVE  i.id \notin Diff(here, b).install \union Diff(here, b).remove \union Diff(here, b).mismatched
    <3>1. i.state = "present" <=> IsInstalled(here, i.id)
      BY <2>6, <2>7, <2>8, <2>10 DEF IsInstalled
    <3>2. i.state = "present" => ~Mismatch(i, here.installed[i.id])
      BY <2>6, <2>7, <2>8, <2>9, <2>10 DEF Mismatch
    <3> QED
      BY <2>2, <2>3, <2>5, <3>1, <3>2, DiffIsSilent
  <2> QED
    BY <2>2, <2>6, <2>10, Zenon DEF here
<1> QED
  BY <1>1, MeetingAlways, PTL

-----------------------------------------------------------------------------
(* The order of versions *)

\* The order of two texts is decided at the first place where they differ, so it
\* is an order wherever the tokens are numbers: nothing is before itself, and what
\* is before something is before all that follows it.
LEMMA BeforeIsAnOrder ==
  ASSUME NEW u \in Seq(Int), NEW v \in Seq(Int), NEW w \in Seq(Int), NEW shorter \in Int
  PROVE  /\ ~Before(u, u, shorter)
         /\ Before(u, v, shorter) /\ Before(v, w, shorter) => Before(u, w, shorter)
<1> DEFINE At(s, i) == IF i \in DOMAIN s THEN s[i] ELSE shorter
           Longest(s, t) == IF Len(s) > Len(t) THEN Len(s) ELSE Len(t)
<1>1. \A s \in Seq(Int) : Len(s) \in Nat /\ DOMAIN s = 1..Len(s)
  OBVIOUS
<1>2. \A s \in Seq(Int), i \in Nat : At(s, i) \in Int
  OBVIOUS
<1>3. \A s, t : Before(s, t, shorter)
                <=> \E i \in 1..Longest(s, t) :
                      /\ \A j \in 1..(i - 1) : j \in DOMAIN s /\ j \in DOMAIN t /\ s[j] = t[j]
                      /\ At(s, i) < At(t, i)
  BY Zenon DEF Before
<1> HIDE DEF At
<1>4. ~Before(u, u, shorter)
  <2>1. \A i \in 1..Longest(u, u) : ~(At(u, i) < At(u, i))
    BY <1>1, <1>2
  <2> QED
    BY <1>3, <2>1, Zenon
<1>5. ASSUME Before(u, v, shorter), Before(v, w, shorter)
      PROVE  Before(u, w, shorter)
  <2>1. PICK i \in 1..Longest(u, v) :
          /\ \A j \in 1..(i - 1) : j \in DOMAIN u /\ j \in DOMAIN v /\ u[j] = v[j]
          /\ At(u, i) < At(v, i)
    BY <1>3, <1>5, Zenon
  <2>2. PICK k \in 1..Longest(v, w) :
          /\ \A j \in 1..(k - 1) : j \in DOMAIN v /\ j \in DOMAIN w /\ v[j] = w[j]
          /\ At(v, k) < At(w, k)
    BY <1>3, <1>5, Zenon
  <2>3. i \in Nat /\ k \in Nat /\ i >= 1 /\ k >= 1
    BY <1>1, <2>1, <2>2
  <2> DEFINE m == IF i < k THEN i ELSE k
  <2>4. m \in Nat /\ m >= 1 /\ m <= i /\ m <= k
    BY <2>3
  <2>5. \A j \in 1..(m - 1) : j \in DOMAIN u /\ j \in DOMAIN w /\ u[j] = w[j]
    BY <2>1, <2>2, <2>3, <2>4
  <2>6. At(u, m) < At(w, m)
    <3>1. i < k => At(v, i) = At(w, i)
      BY <2>2, <2>3 DEF At
    <3>2. k < i => At(u, k) = At(v, k)
      BY <2>1, <2>3 DEF At
    <3>3. /\ At(u, i) \in Int /\ At(v, i) \in Int /\ At(w, i) \in Int
          /\ At(u, k) \in Int /\ At(v, k) \in Int /\ At(w, k) \in Int
      BY <1>2, <2>3
    <3>4. CASE i < k
      BY <2>1, <3>1, <3>4
    <3>5. CASE k < i
      BY <2>2, <2>3, <3>2, <3>5
    <3>6. CASE i = k
      BY <2>1, <2>2, <2>3, <3>3, <3>6
    <3> QED
      BY <2>3, <3>4, <3>5, <3>6
  <2>7. m \in 1..Longest(u, w)
    <3>1. m \in DOMAIN u \/ m \in DOMAIN w
      <4>1. m \notin DOMAIN u /\ m \notin DOMAIN w => At(u, m) = At(w, m)
        BY DEF At
      <4>2. At(u, m) \in Int /\ At(w, m) \in Int
        BY <1>2, <2>4
      <4> QED
        BY <2>6, <4>1, <4>2
    <3> QED
      BY <1>1, <2>4, <3>1
  <2> QED
    BY <1>3, <2>5, <2>6, <2>7, Zenon
<1> QED
  BY <1>4, <1>5

\* What semver compares of a version is five numbers.
LEMMA SemanticKeyIsNumbers ==
  ASSUME NEW v \in Text, Semantic(v)
  PROVE  SemanticKey(v) \in Seq(Int)
<1>1. v \in Seq(Int) /\ Len(v) \in Nat /\ DOMAIN v = 1..Len(v) /\ \A i \in 1..Len(v) : v[i] \in Int
  <2>1. v \in Seq(Int)
    BY SeqMonotonic DEF Text
  <2> QED
    BY <2>1
<1> DEFINE c == Cut(v, {Dash, Plus})
<1>2. c \in Nat /\ c >= 1 /\ c <= Len(v) + 1
  <2>1. CASE \E i \in DOMAIN v : v[i] \in {Dash, Plus}
    <3>1. \E i \in DOMAIN v : v[i] \in {Dash, Plus} /\ \A j \in 1..(i - 1) : v[j] \notin {Dash, Plus}
      <4> DEFINE T == {i \in DOMAIN v : v[i] \in {Dash, Plus}}
      <4>0. T \subseteq Nat /\ T # {}
        BY <1>1, <2>1
      <4> HIDE DEF T
      <4>1. PICK n \in T : \A m \in T : n <= m
        BY <4>0, Least, Zenon
      <4> USE DEF T
      <4>2. \A j \in 1..(n - 1) : j \in DOMAIN v /\ ~(n <= j)
        BY <1>1, <4>1
      <4> QED
        BY <4>1, <4>2
    <3>2. c \in DOMAIN v
      BY <2>1, <3>1 DEF Cut
    <3> QED
      BY <1>1, <3>2
  <2>2. CASE ~\E i \in DOMAIN v : v[i] \in {Dash, Plus}
    BY <1>1, <2>2 DEF Cut
  <2> QED
    BY <2>1, <2>2
<1> HIDE DEF c
<1>3. Base(v) \in Seq(Int) /\ Len(Base(v)) = c - 1
  <2>1. \A i \in 1..(c - 1) : v[i] \in Int
    BY <1>1, <1>2
  <2>2. /\ SubSeq(v, 1, c - 1) \in Seq(Int)
        /\ Len(SubSeq(v, 1, c - 1)) = IF 1 <= c - 1 THEN c - 1 - 1 + 1 ELSE 0
    BY <1>2, <2>1, SubSeqProperties
  <2>3. Base(v) = SubSeq(v, 1, c - 1)
    BY Zenon DEF Base, c
  <2> QED
    BY <1>2, <2>2, <2>3
<1>4. Suffix(v) \in Seq(Int)
  <2>1. \A i \in c..Len(v) : v[i] \in Int
    BY <1>1, <1>2
  <2>2. SubSeq(v, c, Len(v)) \in Seq(Int)
    BY <1>1, <1>2, <2>1, SubSeqProperties
  <2> QED
    BY <2>2, Zenon DEF Suffix, c
<1>5. Numbers(v) \in Seq(Int)
  <2>1. \A i \in 1..3 : (IF 2 * i - 1 <= Len(Base(v)) THEN v[2 * i - 1] ELSE 0) \in Int
    BY <1>1, <1>2, <1>3
  <2> QED
    BY <2>1 DEF Numbers
<1>6. \A t \in Int : PreRank(t) \in Int
  BY DEF PreRank
<1> DEFINE part(mark) == IF Suffix(v) # <<>> /\ Suffix(v)[1] = mark THEN PreRank(Suffix(v)[2]) ELSE -1
<1>7. \A mark : part(mark) \in Int
  <2>1. Suffix(v) # <<>> => Suffix(v)[2] \in Int
    BY <1>4 DEF Semantic
  <2> QED
    BY <1>6, <2>1
<1>8. SemanticKey(v) = Numbers(v) \o <<IF part(Dash) = -1 THEN 99 ELSE part(Dash), part(Plus)>>
  BY Zenon DEF SemanticKey
<1> HIDE DEF part
<1>9. <<IF part(Dash) = -1 THEN 99 ELSE part(Dash), part(Plus)>> \in Seq(Int)
  BY <1>7
<1> QED
  BY <1>5, <1>8, <1>9

\* No version is a downgrade of itself and no two versions are downgrades of
\* each other, whatever is written in them; and among versions that semver can
\* read, or among those that it cannot, a downgrade of a downgrade is one: the
\* order behind "policy.downgrade.prevented" (compare_versions).
THEOREM DowngradesAreAnOrder ==
  ASSUME NEW u \in Text, NEW v \in Text, NEW w \in Text
  PROVE  /\ ~VersionBefore(u, u)
         /\ ~(VersionBefore(u, v) /\ VersionBefore(v, u))
         /\ (Semantic(u) <=> Semantic(v)) /\ (Semantic(v) <=> Semantic(w))
              => (VersionBefore(u, v) /\ VersionBefore(v, w) => VersionBefore(u, w))
<1>1. \A s \in Text : s \in Seq(Int)
  <2>1. -9..9 \subseteq Int
    OBVIOUS
  <2> QED
    BY <2>1, SeqMonotonic, Zenon DEF Text
<1>2. \A s \in Text : Semantic(s) => SemanticKey(s) \in Seq(Int)
  BY SemanticKeyIsNumbers, Zenon
<1>3. End \in Int /\ 0 \in Int
  BY DEF End
<1>4. \A s, t, r \in Seq(Int), e \in Int :
        ~Before(s, s, e) /\ (Before(s, t, e) /\ Before(t, r, e) => Before(s, r, e))
  BY BeforeIsAnOrder, Zenon
<1>5. \A s, t \in Text : ~(VersionBefore(s, t) /\ VersionBefore(t, s))
  BY <1>1, <1>2, <1>3, <1>4, Zenon DEF VersionBefore, NativeBefore
<1>6. (Semantic(u) <=> Semantic(v)) /\ (Semantic(v) <=> Semantic(w))
        => (VersionBefore(u, v) /\ VersionBefore(v, w) => VersionBefore(u, w))
  BY <1>1, <1>2, <1>3, <1>4, Zenon DEF VersionBefore, NativeBefore
<1> QED
  BY <1>5, <1>6

\* Where versions that semver can read meet one that it cannot, it is no order:
\* by their characters 1.0 comes before 1.0a and that before 1.0-1, and 1.0-1
\* comes before 1.0, as its pre-release. No step from each to the next is a
\* downgrade, though they lead in a circle (compare_versions; the one letter of
\* the model stands for any).
THEOREM MixedVersionsGoRound ==
  \E u, v, w \in Text : /\ VersionBefore(u, v) /\ VersionBefore(v, w) /\ VersionBefore(w, u)
                       /\ Semantic(u) /\ ~Semantic(v) /\ Semantic(w)
<1> DEFINE A == <<1, Dot, 0>>
           B == <<1, Dot, 0, LetterX>>
           C == <<1, Dot, 0, Dash, 1>>
<1> USE DEF Dot, Dash, Plus, LetterX
<1>1. A \in Text /\ B \in Text /\ C \in Text
  BY DEF Text
<1>2. /\ Len(A) = 3 /\ DOMAIN A = 1..3 /\ A[1] = 1 /\ A[2] = -1 /\ A[3] = 0
      /\ Len(B) = 4 /\ DOMAIN B = 1..4 /\ B[1] = 1 /\ B[2] = -1 /\ B[3] = 0 /\ B[4] = -7
      /\ Len(C) = 5 /\ DOMAIN C = 1..5 /\ C[1] = 1 /\ C[2] = -1 /\ C[3] = 0 /\ C[4] = -2 /\ C[5] = 1
  OBVIOUS
<1> HIDE DEF A, B, C
<1>3. Base(A) = SubSeq(A, 1, 3) /\ Suffix(A) = SubSeq(A, 4, 3)
  <2>1. Cut(A, {Dash, Plus}) = 4
    BY <1>2 DEF Cut
  <2> QED
    BY <1>2, <2>1 DEF Base, Suffix
<1>4. Base(B) = SubSeq(B, 1, 4)
  <2>1. Cut(B, {Dash, Plus}) = 5
    BY <1>2 DEF Cut
  <2> QED
    BY <2>1 DEF Base
<1>5. Base(C) = SubSeq(C, 1, 3) /\ Suffix(C) = SubSeq(C, 4, 5)
  <2>1. \A i \in 1..5 : C[i] \in {Dash, Plus} <=> i = 4
    BY <1>2
  <2>2. Cut(C, {Dash, Plus}) = 4
    BY <1>2, <2>1 DEF Cut
  <2> QED
    BY <1>2, <2>2 DEF Base, Suffix
<1>6. \A i \in 1..3 : A[i] \in Int /\ C[i] \in Int
  BY <1>2
<1>7. \A i \in 1..4 : B[i] \in Int
  BY <1>2
<1>8. \A i \in 4..5 : C[i] \in Int
  BY <1>2
<1>9. Len(Base(A)) = 3 /\ Base(A) \in Seq(Int) /\ Suffix(A) = <<>>
  BY <1>3, <1>6, SubSeqProperties, SubSeqEmpty
<1>10. Len(Base(B)) = 4
  BY <1>4, <1>7, SubSeqProperties
<1>11. Len(Base(C)) = 3 /\ Base(C) \in Seq(Int)
  BY <1>5, <1>6, SubSeqProperties
<1>12. Len(Suffix(C)) = 2 /\ Suffix(C) # <<>> /\ Suffix(C)[1] = -2 /\ Suffix(C)[2] = 1
  <2>1. /\ SubSeq(C, 4, 5) \in Seq(Int) /\ Len(SubSeq(C, 4, 5)) = 2
        /\ \A i \in 1..2 : SubSeq(C, 4, 5)[i] = C[4 + i - 1]
    BY <1>8, SubSeqProperties
  <2> QED
    BY <1>2, <1>5, <2>1
<1>13. Semantic(A) /\ ~Semantic(B) /\ Semantic(C)
  BY <1>2, <1>9, <1>10, <1>11, <1>12 DEF Semantic, Digits
<1>14. Numbers(A) = <<1, 0, 0>> /\ Numbers(C) = <<1, 0, 0>>
  BY <1>2, <1>9, <1>11 DEF Numbers
<1>15. SemanticKey(A) = <<1, 0, 0>> \o <<99, -1>>
  BY <1>9, <1>14 DEF SemanticKey
<1>16. SemanticKey(C) = <<1, 0, 0>> \o <<1, -1>>
  BY <1>12, <1>14 DEF SemanticKey, PreRank, Digits
<1>17. \A x \in Int : LET key == <<1, 0, 0>> \o <<x, -1>>
                      IN Len(key) = 5 /\ DOMAIN key = 1..5 /\ key[4] = x /\ \A i \in 1..3 : key[i] = <<1, 0, 0>>[i]
  <2> SUFFICES ASSUME NEW x \in Int
               PROVE  LET key == <<1, 0, 0>> \o <<x, -1>>
                      IN Len(key) = 5 /\ DOMAIN key = 1..5 /\ key[4] = x /\ \A i \in 1..3 : key[i] = <<1, 0, 0>>[i]
    OBVIOUS
  <2> DEFINE S == <<1, 0, 0>>
             T == <<x, -1>>
  <2>1. S \in Seq(Int) /\ T \in Seq(Int) /\ Len(S) = 3 /\ Len(T) = 2 /\ T[1] = x
    OBVIOUS
  <2> HIDE DEF S, T
  <2>2. /\ S \o T \in Seq(Int) /\ Len(S \o T) = Len(S) + Len(T)
        /\ \A i \in 1..(Len(S) + Len(T)) : (S \o T)[i] = IF i <= Len(S) THEN S[i] ELSE T[i - Len(S)]
    BY <2>1, ConcatProperties
  <2>3. DOMAIN (S \o T) = 1..5 /\ Len(S \o T) = 5
    BY <2>1, <2>2
  <2>4. (S \o T)[4] = x /\ \A i \in 1..3 : (S \o T)[i] = S[i]
    BY <2>1, <2>2
  <2> QED
    BY <2>3, <2>4 DEF S, T
<1>18. Before(A, B, End)
  BY <1>2 DEF Before, End
<1>19. Before(B, C, End)
  BY <1>2 DEF Before, End
<1>20. Before(SemanticKey(C), SemanticKey(A), 0)
  <2> DEFINE K == SemanticKey(C)
             L == SemanticKey(A)
  <2>1. /\ Len(K) = 5 /\ DOMAIN K = 1..5 /\ K[4] = 1 /\ \A i \in 1..3 : K[i] = <<1, 0, 0>>[i]
        /\ Len(L) = 5 /\ DOMAIN L = 1..5 /\ L[4] = 99 /\ \A i \in 1..3 : L[i] = <<1, 0, 0>>[i]
    <3>1. 1 \in Int /\ 99 \in Int
      OBVIOUS
    <3>2. /\ Len(K) = 5 /\ DOMAIN K = 1..5 /\ K[4] = 1 /\ \A i \in 1..3 : K[i] = <<1, 0, 0>>[i]
      <4> HIDE DEF K
      <4>1. K = <<1, 0, 0>> \o <<1, -1>>
        BY <1>16 DEF K
      <4> QED
        BY <1>17, <3>1, <4>1
    <3>3. /\ Len(L) = 5 /\ DOMAIN L = 1..5 /\ L[4] = 99 /\ \A i \in 1..3 : L[i] = <<1, 0, 0>>[i]
      <4> HIDE DEF L
      <4>1. L = <<1, 0, 0>> \o <<99, -1>>
        BY <1>15 DEF L
      <4> QED
        BY <1>17, <3>1, <4>1
    <3> QED
      BY <3>2, <3>3
  <2> HIDE DEF K, L
  <2>2. 4 \in 1..5 /\ 1 < 99
    OBVIOUS
  <2>3. \A j \in 1..(4 - 1) : j \in DOMAIN K /\ j \in DOMAIN L /\ K[j] = L[j]
    BY <2>1
  <2>4. Before(K, L, 0)
    BY <2>1, <2>2, <2>3 DEF Before
  <2> QED
    BY <2>4 DEF K, L
<1>21. VersionBefore(A, B) /\ VersionBefore(B, C) /\ VersionBefore(C, A)
  BY <1>13, <1>18, <1>19, <1>20 DEF VersionBefore, NativeBefore
<1> QED
  BY <1>1, <1>13, <1>21
=============================================================================
