---- MODULE MirrorsProofs ----
(***************************************************************************)
(* Proofs about the components whose rows mirror something else            *)
(* (MCMirrors), in three modules: this one has what they share (a step of  *)
(* the whole is one component's; sums) and the components that keep to one *)
(* table or compute.  Each component has an inductive invariant of its     *)
(* own, which implies its properties.                                      *)
(***************************************************************************)
EXTENDS MCMirrors, Sequences, FiniteSetTheorems, WellFoundedInduction, TLAPS

\* The component is chosen at the start.
LEMMA SubjectStays == ASSUME [Next]_vars PROVE subject' = subject
<1>1. CASE NextChannel
  BY <1>1, SMT DEF NextChannel, OnlyChannel
<1>2. CASE NextPlan
  BY <1>2, SMT DEF NextPlan, OnlyPlan
<1>3. CASE NextUsage
  BY <1>3, SMT DEF NextUsage, OnlyUsage
<1>4. CASE NextQuestion
  BY <1>4, SMT DEF NextQuestion, OnlyQuestion
<1>5. CASE NextMetric
  BY <1>5, SMT DEF NextMetric, OnlyMetric
<1>6. CASE NextProgress
  BY <1>6, SMT DEF NextProgress, OnlyProgress
<1>7. CASE NextScore
  BY <1>7, SMT DEF NextScore, OnlyScore
<1>8. CASE NextSettings
  BY <1>8, SMT DEF NextSettings, OnlySettings
<1>9. CASE NextUpload
  BY <1>9, SMT DEF NextUpload, OnlyUpload
<1>10. CASE NextWebsite
  BY <1>10, SMT DEF NextWebsite, OnlyWebsite
<1>11. CASE NextFeature
  BY <1>11, SMT DEF NextFeature, OnlyFeature
<1>12. CASE vars' = vars
  BY <1>12 DEF vars
<1>. QED
  BY <1>1, <1>2, <1>3, <1>4, <1>5, <1>6, <1>7, <1>8, <1>9, <1>10, <1>11, <1>12 DEF Next

\* Each action is its component's.
LEMMA OneSubject ==
    /\ NextChannel => subject = "channel"
    /\ NextPlan => subject = "plan"
    /\ NextUsage => subject = "usage"
    /\ NextQuestion => subject = "question"
    /\ NextMetric => subject = "metric"
    /\ NextProgress => subject = "progress"
    /\ NextScore => subject = "score"
    /\ NextSettings => subject = "settings"
    /\ NextUpload => subject = "upload"
    /\ NextWebsite => subject = "website"
    /\ NextFeature => subject = "feature"
<1>1. NextChannel => subject = "channel"
  BY SMT DEF NextChannel, OnlyChannel
<1>2. NextPlan => subject = "plan"
  BY SMT DEF NextPlan, OnlyPlan
<1>3. NextUsage => subject = "usage"
  BY SMT DEF NextUsage, OnlyUsage
<1>4. NextQuestion => subject = "question"
  BY SMT DEF NextQuestion, OnlyQuestion
<1>5. NextMetric => subject = "metric"
  BY SMT DEF NextMetric, OnlyMetric
<1>6. NextProgress => subject = "progress"
  BY SMT DEF NextProgress, OnlyProgress
<1>7. NextScore => subject = "score"
  BY SMT DEF NextScore, OnlyScore
<1>8. NextSettings => subject = "settings"
  BY SMT DEF NextSettings, OnlySettings
<1>9. NextUpload => subject = "upload"
  BY SMT DEF NextUpload, OnlyUpload
<1>10. NextWebsite => subject = "website"
  BY SMT DEF NextWebsite, OnlyWebsite
<1>11. NextFeature => subject = "feature"
  BY SMT DEF NextFeature, OnlyFeature
<1>. QED
  BY <1>1, <1>2, <1>3, <1>4, <1>5, <1>6, <1>7, <1>8, <1>9, <1>10, <1>11

\* A step is one of the chosen component, or changes nothing.
LEMMA StepOfSubject ==
    ASSUME [Next]_vars
    PROVE  /\ subject = "channel" => NextChannel \/ UNCHANGED vars
           /\ subject = "plan" => NextPlan \/ UNCHANGED vars
           /\ subject = "usage" => NextUsage \/ UNCHANGED vars
           /\ subject = "question" => NextQuestion \/ UNCHANGED vars
           /\ subject = "metric" => NextMetric \/ UNCHANGED vars
           /\ subject = "progress" => NextProgress \/ UNCHANGED vars
           /\ subject = "score" => NextScore \/ UNCHANGED vars
           /\ subject = "settings" => NextSettings \/ UNCHANGED vars
           /\ subject = "upload" => NextUpload \/ UNCHANGED vars
           /\ subject = "website" => NextWebsite \/ UNCHANGED vars
           /\ subject = "feature" => NextFeature \/ UNCHANGED vars
BY OneSubject, SMT DEF Next

-----------------------------------------------------------------------------
(* Sums, by induction on the number of the summands. *)

\* A set of numbers has a least one.
LEMMA LeastOf ==
    ASSUME NEW T \in SUBSET Nat, T # {}
    PROVE  \E x \in T : \A y \in T : x <= y
<1> DEFINE R == OpToRel(<, Nat)
<1>1. \A x, y \in Nat : y < x => <<y, x>> \in R
  BY DEF OpToRel
<1>2. IsWellFoundedOn(R, Nat)
  BY NatLessThanWellFounded
<1>. HIDE DEF R
<1>3. PICK x \in T : \A y \in T : ~(<<y, x>> \in R)
  BY <1>2, WFMin
<1>4. ASSUME NEW y \in T PROVE x <= y
  <2>1. x \in Nat /\ y \in Nat
    OBVIOUS
  <2>2. ~(y < x)
    BY <1>1, <1>3, <2>1, Zenon
  <2>. QED
    BY <2>1, <2>2, SMT
<1>. QED
  BY <1>4

\* A sum the way FoldSet adds it: an element is chosen, then the rest is added.
Chosen(s) == CHOOSE x \in s : TRUE
Adds(f, S, w) == f = [s \in SUBSET S |-> IF s = {} THEN 0 ELSE f[s \ {Chosen(s)}] + w[Chosen(s)]]
Sum(S, w) == (CHOOSE f : Adds(f, S, w))[S]

LEMMA ChosenIn == ASSUME NEW s, s # {} PROVE Chosen(s) \in s
  BY DEF Chosen

\* Whatever adds the subsets of S up gives natural numbers.
LEMMA AddsNaturals ==
    ASSUME NEW S, IsFiniteSet(S), NEW w, \A x \in S : w[x] \in Nat, NEW f, Adds(f, S, w),
           NEW s \in SUBSET S
    PROVE  f[s] \in Nat
<1>1. \A t \in SUBSET S : IsFiniteSet(t) /\ Cardinality(t) \in Nat
  BY FS_Subset, FS_CardinalityType
<1>2. \A t \in SUBSET S : f[t] = IF t = {} THEN 0 ELSE f[t \ {Chosen(t)}] + w[Chosen(t)]
  BY Zenon DEF Adds
<1> DEFINE T == {n \in Nat : \E t \in SUBSET S : Cardinality(t) = n /\ f[t] \notin Nat}
<1>3. SUFFICES T = {}
  BY <1>1
<1>4. SUFFICES ASSUME T # {} PROVE FALSE
  OBVIOUS
<1>5. PICK n \in T : \A m \in T : n <= m
  <2>1. T \in SUBSET Nat
    OBVIOUS
  <2>. HIDE DEF T
  <2>. QED
    BY <1>4, <2>1, LeastOf
<1>6. PICK t \in SUBSET S : Cardinality(t) = n /\ f[t] \notin Nat
  OBVIOUS
<1>7. t # {}
  <2>1. t = {} => f[t] = 0
    BY <1>2, <1>6, Zenon
  <2>2. 0 \in Nat
    OBVIOUS
  <2>. QED
    BY <1>6, <2>1, <2>2, Zenon
<1> DEFINE x == Chosen(t)
           u == t \ {x}
<1>8. x \in t
  BY <1>7, ChosenIn
<1>9. u \in SUBSET S /\ Cardinality(u) = n - 1 /\ Cardinality(u) \in Nat
  BY <1>1, <1>6, <1>8, FS_RemoveElement
<1>10. f[t] = f[u] + w[x]
  BY <1>2, <1>7
<1>11. w[x] \in Nat
  BY <1>8
<1>. HIDE DEF x, u
<1>12. f[u] \notin Nat
  BY <1>6, <1>10, <1>11, SMT
<1>13. n - 1 \in T
  BY <1>9, <1>12
<1>14. n \in Nat
  OBVIOUS
<1>. HIDE DEF T
<1>. QED
  BY <1>5, <1>13, <1>14, SMT

\* There is such a function.
LEMMA AddsExists ==
    ASSUME NEW S, IsFiniteSet(S), NEW w, \A x \in S : w[x] \in Nat
    PROVE  \E f : Adds(f, S, w)
<1> DEFINE Upto(n) == {s \in SUBSET S : Cardinality(s) <= n}
           Value(f, s) == IF s = {} THEN 0 ELSE f[s \ {Chosen(s)}] + w[Chosen(s)]
           Good == {n \in Nat : \E f : f = [s \in Upto(n) |-> Value(f, s)]}
<1>1. \A t \in SUBSET S : IsFiniteSet(t) /\ Cardinality(t) \in Nat
  BY FS_Subset, FS_CardinalityType
<1>2. 0 \in Good
  <2>1. \A s \in Upto(0) : s = {}
    BY <1>1, FS_EmptySet, SMT
  <2> DEFINE f == [s \in Upto(0) |-> 0]
  <2>2. \A s \in Upto(0) : Value(f, s) = 0
    BY <2>1
  <2>3. f = [s \in Upto(0) |-> Value(f, s)]
    BY <2>2
  <2>. QED
    BY <2>3
<1>3. ASSUME NEW n \in Nat, n \in Good PROVE n + 1 \in Good
  <2>1. PICK f : f = [s \in Upto(n) |-> Value(f, s)]
    BY <1>3
  <2> DEFINE g == [s \in Upto(n + 1) |-> Value(f, s)]
  <2>2. \A s \in Upto(n) : s \in Upto(n + 1) /\ g[s] = f[s]
    <3>1. \A s \in Upto(n) : s \in Upto(n + 1)
      BY <1>1, SMT
    <3>2. \A s \in Upto(n) : f[s] = Value(f, s)
      BY <2>1, Zenon
    <3>. HIDE DEF Value, Upto
    <3>. QED
      BY <3>1, <3>2, Zenon
  <2>3. ASSUME NEW s \in Upto(n + 1) PROVE Value(g, s) = Value(f, s)
    <3>1. CASE s = {}
      BY <3>1, Zenon
    <3>2. CASE s # {}
      <4>1. Chosen(s) \in s
        BY <3>2, ChosenIn
      <4>2. s \ {Chosen(s)} \in SUBSET S /\ Cardinality(s \ {Chosen(s)}) = Cardinality(s) - 1
        BY <1>1, <4>1, FS_RemoveElement
      <4>3. s \ {Chosen(s)} \in Upto(n)
        BY <1>1, <4>2, SMT
      <4>4. g[s \ {Chosen(s)}] = f[s \ {Chosen(s)}]
        BY <2>2, <4>3
      <4>. HIDE DEF g
      <4>. QED
        BY <4>4, Zenon
    <3>. QED
      BY <3>1, <3>2
  <2>4. g = [s \in Upto(n + 1) |-> Value(g, s)]
    BY <2>3
  <2>5. n + 1 \in Nat
    OBVIOUS
  <2>. HIDE DEF g, Value, Upto
  <2>. QED
    BY <2>4, <2>5, Zenon
<1>4. Good = Nat
  <2> DEFINE T == Nat \ Good
  <2>1. SUFFICES ASSUME T # {} PROVE FALSE
    OBVIOUS
  <2>2. PICK n \in T : \A m \in T : n <= m
    <3>1. T \in SUBSET Nat
      OBVIOUS
    <3>. HIDE DEF T
    <3>. QED
      BY <2>1, <3>1, LeastOf
  <2>. HIDE DEF Good
  <2>3. n \in Nat /\ n \notin Good /\ n # 0
    BY <1>2
  <2>4. n - 1 \in Nat /\ n - 1 \notin Good /\ (n - 1) + 1 = n
    BY <1>3, <2>3, SMT
  <2>. QED
    BY <2>2, <2>3, <2>4, SMT
<1>5. Cardinality(S) \in Nat /\ Upto(Cardinality(S)) = SUBSET S
  BY FS_Subset, FS_CardinalityType
<1>6. PICK f : f = [s \in Upto(Cardinality(S)) |-> Value(f, s)]
  BY <1>4, <1>5
<1>. HIDE DEF Upto
<1>. QED
  BY <1>5, <1>6, Zenon DEF Adds

\* The sum of natural numbers is one.
LEMMA SumIsNatural ==
    ASSUME NEW S, IsFiniteSet(S), NEW w, \A x \in S : w[x] \in Nat
    PROVE  Sum(S, w) \in Nat
<1> DEFINE f == CHOOSE f : Adds(f, S, w)
<1>1. Adds(f, S, w)
  BY AddsExists, Zenon
<1>. HIDE DEF f
<1>2. S \in SUBSET S
  OBVIOUS
<1>3. f[S] \in Nat
  BY <1>1, <1>2, AddsNaturals
<1>. QED
  BY <1>3 DEF Sum, f

\* It depends on the numbers added, and on nothing else.
LEMMA SumDependsOn ==
    ASSUME NEW S, NEW v, NEW w, \A x \in S : v[x] = w[x]
    PROVE  Sum(S, v) = Sum(S, w)
<1>1. ASSUME NEW f PROVE Adds(f, S, v) <=> Adds(f, S, w)
  <2>1. \A s \in SUBSET S : (IF s = {} THEN 0 ELSE f[s \ {Chosen(s)}] + v[Chosen(s)])
                          = (IF s = {} THEN 0 ELSE f[s \ {Chosen(s)}] + w[Chosen(s)])
    BY ChosenIn, Zenon
  <2>. QED
    BY <2>1, Zenon DEF Adds
<1>. QED
  BY <1>1, Zenon DEF Sum

\* Two functions that add subsets up agree where both are defined.
LEMMA AddsAgree ==
    ASSUME NEW S, IsFiniteSet(S), NEW T \in SUBSET S, NEW w, NEW f, Adds(f, S, w),
           NEW g, Adds(g, T, w), NEW s \in SUBSET T
    PROVE  f[s] = g[s]
<1>1. \A t \in SUBSET T : IsFiniteSet(t) /\ Cardinality(t) \in Nat
  BY FS_Subset, FS_CardinalityType
<1>2. \A t \in SUBSET T : f[t] = IF t = {} THEN 0 ELSE f[t \ {Chosen(t)}] + w[Chosen(t)]
  <2>1. \A t \in SUBSET S : f[t] = IF t = {} THEN 0 ELSE f[t \ {Chosen(t)}] + w[Chosen(t)]
    BY Zenon DEF Adds
  <2>. QED
    BY <2>1
<1>3. \A t \in SUBSET T : g[t] = IF t = {} THEN 0 ELSE g[t \ {Chosen(t)}] + w[Chosen(t)]
  BY Zenon DEF Adds
<1> DEFINE D == {n \in Nat : \E t \in SUBSET T : Cardinality(t) = n /\ f[t] # g[t]}
<1>4. SUFFICES D = {}
  BY <1>1
<1>5. SUFFICES ASSUME D # {} PROVE FALSE
  OBVIOUS
<1>6. PICK n \in D : \A m \in D : n <= m
  <2>1. D \in SUBSET Nat
    OBVIOUS
  <2>. HIDE DEF D
  <2>. QED
    BY <1>5, <2>1, LeastOf
<1>7. PICK t \in SUBSET T : Cardinality(t) = n /\ f[t] # g[t]
  OBVIOUS
<1>8. t # {}
  BY <1>2, <1>3, <1>7, Zenon
<1> DEFINE x == Chosen(t)
           u == t \ {x}
<1>9. x \in t
  BY <1>8, ChosenIn
<1>10. u \in SUBSET T /\ Cardinality(u) = n - 1 /\ Cardinality(u) \in Nat
  BY <1>1, <1>7, <1>9, FS_RemoveElement
<1>11. f[t] = f[u] + w[x] /\ g[t] = g[u] + w[x]
  BY <1>2, <1>3, <1>8
<1>. HIDE DEF x, u
<1>12. f[u] # g[u]
  BY <1>7, <1>11
<1>13. n - 1 \in D
  BY <1>10, <1>12
<1>14. n \in Nat
  OBVIOUS
<1>. HIDE DEF D
<1>. QED
  BY <1>6, <1>13, <1>14, SMT

\* What adds the subsets of S up adds any element of one last.
LEMMA AddsWithout ==
    ASSUME NEW S, IsFiniteSet(S), NEW w, \A x \in S : w[x] \in Nat, NEW f, Adds(f, S, w),
           NEW s \in SUBSET S, NEW x \in s
    PROVE  f[s] = f[s \ {x}] + w[x]
<1>1. \A t \in SUBSET S : IsFiniteSet(t) /\ Cardinality(t) \in Nat
  BY FS_Subset, FS_CardinalityType
<1>2. \A t \in SUBSET S : f[t] = IF t = {} THEN 0 ELSE f[t \ {Chosen(t)}] + w[Chosen(t)]
  BY Zenon DEF Adds
<1> DEFINE D == {n \in Nat : \E t \in SUBSET S : /\ Cardinality(t) = n
                                                 /\ \E y \in t : f[t] # f[t \ {y}] + w[y]}
<1>3. SUFFICES D = {}
  BY <1>1
<1>4. SUFFICES ASSUME D # {} PROVE FALSE
  OBVIOUS
<1>5. PICK n \in D : \A m \in D : n <= m
  <2>1. D \in SUBSET Nat
    OBVIOUS
  <2>. HIDE DEF D
  <2>. QED
    BY <1>4, <2>1, LeastOf
<1>6. PICK t \in SUBSET S : /\ Cardinality(t) = n
                            /\ \E y \in t : f[t] # f[t \ {y}] + w[y]
  OBVIOUS
<1>7. PICK y \in t : f[t] # f[t \ {y}] + w[y]
  BY <1>6
<1> DEFINE c == Chosen(t)
<1>8. c \in t
  BY ChosenIn
<1>9. f[t] = f[t \ {c}] + w[c]
  BY <1>2
<1>. HIDE DEF c
<1>10. c # y
  BY <1>7, <1>9
<1>11. /\ t \ {c} \in SUBSET S /\ Cardinality(t \ {c}) = n - 1 /\ Cardinality(t \ {c}) \in Nat
       /\ t \ {y} \in SUBSET S /\ Cardinality(t \ {y}) = n - 1
  BY <1>1, <1>6, <1>8, FS_RemoveElement
<1>12. n - 1 \notin D
  <2>1. n \in Nat
    OBVIOUS
  <2>. HIDE DEF D
  <2>. QED
    BY <1>5, <2>1, SMT
<1>13. \A u \in SUBSET S : Cardinality(u) = n - 1 => \A z \in u : f[u] = f[u \ {z}] + w[z]
  BY <1>11, <1>12
<1>. HIDE DEF D
<1>14. y \in t \ {c} /\ c \in t \ {y} /\ (t \ {c}) \ {y} = (t \ {y}) \ {c}
  BY <1>8, <1>10
<1>15. f[t \ {c}] = f[(t \ {c}) \ {y}] + w[y] /\ f[t \ {y}] = f[(t \ {c}) \ {y}] + w[c]
  BY <1>11, <1>13, <1>14
<1> DEFINE a == f[(t \ {c}) \ {y}]
<1>16. a \in Nat
  <2>1. (t \ {c}) \ {y} \in SUBSET S
    BY <1>11
  <2>. QED
    BY <2>1, AddsNaturals
<1>17. w[y] \in Nat /\ w[c] \in Nat
  BY <1>8
<1>18. f[t] = (a + w[y]) + w[c] /\ f[t \ {y}] = a + w[c]
  BY <1>9, <1>15
<1>. HIDE DEF a
<1>. QED
  BY <1>7, <1>16, <1>17, <1>18, SMT

\* The empty sum.
LEMMA SumEmpty == ASSUME NEW w PROVE Sum({}, w) = 0
<1>1. IsFiniteSet({}) /\ \A x \in {} : w[x] \in Nat
  BY FS_EmptySet
<1> DEFINE f == CHOOSE f : Adds(f, {}, w)
<1>2. Adds(f, {}, w)
  BY <1>1, AddsExists, Zenon
<1>. HIDE DEF f
<1>3. f[{}] = 0
  <2>1. {} \in SUBSET {}
    OBVIOUS
  <2>. QED
    BY <1>2, <2>1, Zenon DEF Adds
<1>. QED
  BY <1>3 DEF Sum, f

\* Any element of a sum may be the one added last.
LEMMA SumWithout ==
    ASSUME NEW S, IsFiniteSet(S), NEW w, \A x \in S : w[x] \in Nat, NEW x \in S
    PROVE  Sum(S, w) = Sum(S \ {x}, w) + w[x]
<1> DEFINE T == S \ {x}
           f == CHOOSE f : Adds(f, S, w)
           g == CHOOSE g : Adds(g, T, w)
<1>1. T \in SUBSET S /\ IsFiniteSet(T) /\ \A y \in T : w[y] \in Nat
  BY FS_Subset
<1>. HIDE DEF T
<1>2. Adds(f, S, w) /\ Adds(g, T, w)
  BY <1>1, AddsExists, Zenon
<1>3. Sum(S, w) = f[S] /\ Sum(T, w) = g[T]
  BY DEF Sum
<1>. HIDE DEF f, g
<1>4. f[T] = g[T]
  <2>1. T \in SUBSET T
    OBVIOUS
  <2>. QED
    BY <1>1, <1>2, <2>1, AddsAgree
<1>5. f[S] = f[T] + w[x]
  <2>1. S \in SUBSET S
    OBVIOUS
  <2>. QED
    BY <1>2, <2>1, AddsWithout DEF T
<1>. QED
  BY <1>3, <1>4, <1>5 DEF T

\* One more element.
LEMMA SumWith ==
    ASSUME NEW S, IsFiniteSet(S), NEW w, NEW x, x \notin S, \A y \in S : w[y] \in Nat,
           w[x] \in Nat
    PROVE  Sum(S \cup {x}, w) = Sum(S, w) + w[x]
<1>1. IsFiniteSet(S \cup {x}) /\ (S \cup {x}) \ {x} = S
  BY FS_AddElement
<1>2. \A y \in S \cup {x} : w[y] \in Nat
  OBVIOUS
<1>3. x \in S \cup {x}
  OBVIOUS
<1>4. Sum(S \cup {x}, w) = Sum((S \cup {x}) \ {x}, w) + w[x]
  BY <1>1, <1>2, <1>3, SumWithout
<1>. QED
  BY <1>1, <1>4

\* One number changed.
LEMMA SumChanged ==
    ASSUME NEW S, IsFiniteSet(S), NEW v, NEW w, NEW x \in S,
           \A y \in S : v[y] \in Nat /\ w[y] \in Nat,
           \A y \in S : y # x => w[y] = v[y]
    PROVE  Sum(S, w) + v[x] = Sum(S, v) + w[x]
<1>1. Sum(S, w) = Sum(S \ {x}, w) + w[x] /\ Sum(S, v) = Sum(S \ {x}, v) + v[x]
  BY SumWithout
<1>2. Sum(S \ {x}, w) = Sum(S \ {x}, v)
  BY SumDependsOn
<1>3. Sum(S \ {x}, v) \in Nat
  <2>1. IsFiniteSet(S \ {x}) /\ \A y \in S \ {x} : v[y] \in Nat
    BY FS_Subset
  <2>. QED
    BY <2>1, SumIsNatural
<1>4. v[x] \in Nat /\ w[x] \in Nat
  OBVIOUS
<1>. QED
  BY <1>1, <1>2, <1>3, <1>4, SMT

\* Fewer and smaller numbers do not add up to more.
LEMMA SumGrows ==
    ASSUME NEW S, IsFiniteSet(S), NEW T \in SUBSET S, NEW v, NEW w,
           \A x \in S : w[x] \in Nat, \A x \in T : v[x] \in Nat /\ v[x] <= w[x]
    PROVE  Sum(T, v) <= Sum(S, w)
<1>1. \A t \in SUBSET S : IsFiniteSet(t) /\ Cardinality(t) \in Nat
  BY FS_Subset, FS_CardinalityType
<1> DEFINE Bad(s) == ~(Sum(s \cap T, v) <= Sum(s, w))
           D == {n \in Nat : \E s \in SUBSET S : Cardinality(s) = n /\ Bad(s)}
<1>2. SUFFICES D = {}
  BY <1>1
<1>3. SUFFICES ASSUME D # {} PROVE FALSE
  OBVIOUS
<1>4. PICK n \in D : \A m \in D : n <= m
  <2>1. D \in SUBSET Nat
    OBVIOUS
  <2>. HIDE DEF D
  <2>. QED
    BY <1>3, <2>1, LeastOf
<1>5. PICK s \in SUBSET S : Cardinality(s) = n /\ Bad(s)
  OBVIOUS
<1>6. s # {}
  <2>1. Sum({} \cap T, v) = 0 /\ Sum({}, w) = 0
    BY SumEmpty
  <2>. QED
    BY <1>5, <2>1
<1>7. PICK x \in s : TRUE
  BY <1>6
<1> DEFINE u == s \ {x}
<1>8. /\ u \in SUBSET S /\ Cardinality(u) = n - 1 /\ Cardinality(u) \in Nat
      /\ IsFiniteSet(s) /\ IsFiniteSet(s \cap T) /\ IsFiniteSet(u) /\ IsFiniteSet(u \cap T)
  BY <1>1, <1>5, FS_RemoveElement
<1>9. Sum(u \cap T, v) <= Sum(u, w)
  <2>1. n \in Nat
    OBVIOUS
  <2>2. n - 1 \notin D
    <3>. HIDE DEF D
    <3>. QED
      BY <1>4, <2>1, SMT
  <2>. QED
    BY <1>8, <2>2
<1>10. /\ \A y \in s : w[y] \in Nat
       /\ \A y \in u : w[y] \in Nat
       /\ \A y \in s \cap T : v[y] \in Nat
       /\ \A y \in u \cap T : v[y] \in Nat
  OBVIOUS
<1>11. Sum(s, w) = Sum(u, w) + w[x] /\ Sum(u, w) \in Nat /\ w[x] \in Nat
  BY <1>8, <1>10, SumWithout, SumIsNatural
<1>12. Sum(u \cap T, v) \in Nat
  BY <1>8, <1>10, SumIsNatural
<1>13. CASE x \in T
  <2>1. x \in s \cap T /\ (s \cap T) \ {x} = u \cap T
    BY <1>13
  <2>2. Sum(s \cap T, v) = Sum((s \cap T) \ {x}, v) + v[x]
    BY <1>8, <1>10, <2>1, SumWithout
  <2>3. v[x] \in Nat /\ v[x] <= w[x]
    BY <1>13
  <2>4. Sum(s \cap T, v) = Sum(u \cap T, v) + v[x]
    BY <2>1, <2>2
  <2>. HIDE DEF u, D
  <2>. QED
    BY <1>5, <1>9, <1>11, <1>12, <2>3, <2>4, SMT
<1>14. CASE x \notin T
  <2>1. s \cap T = u \cap T
    BY <1>14
  <2>2. Sum(s \cap T, v) = Sum(u \cap T, v)
    BY <2>1
  <2>. HIDE DEF u, D
  <2>. QED
    BY <1>5, <1>9, <1>11, <1>12, <2>2, SMT
<1>. QED
  BY <1>13, <1>14

\* A number added to one element, or to none before.
MoreBy(S, v, w, p, n) ==
    /\ n \in Nat
    /\ \A x \in S : v[x] \in Nat /\ (x # p => w[x] = v[x])
    /\ p \in S => w[p] = v[p] + n
    /\ p \notin S => w[p] = n

LEMMA SumOneMore ==
    ASSUME NEW S, IsFiniteSet(S), NEW v, NEW w, NEW p, NEW n, MoreBy(S, v, w, p, n)
    PROVE  Sum(S \cup {p}, w) = Sum(S, v) + n /\ Sum(S, v) \in Nat
<1>1. /\ n \in Nat /\ \A x \in S : v[x] \in Nat
      /\ \A x \in S : x # p => w[x] = v[x]
      /\ p \in S => w[p] = v[p] + n
      /\ p \notin S => w[p] = n
  BY Zenon DEF MoreBy
<1>2. Sum(S, v) \in Nat
  BY <1>1, SumIsNatural
<1>3. CASE p \in S
  <2>1. S \cup {p} = S
    BY <1>3
  <2>2. v[p] \in Nat /\ w[p] = v[p] + n
    BY <1>1, <1>3
  <2>3. \A x \in S : v[x] \in Nat /\ w[x] \in Nat
    BY <1>1, <2>2
  <2>4. Sum(S, w) + v[p] = Sum(S, v) + w[p]
    BY <1>1, <1>3, <2>3, SumChanged
  <2>5. Sum(S, w) \in Nat
    BY <2>3, SumIsNatural
  <2>6. Sum(S, w) = Sum(S, v) + n
    BY <1>1, <1>2, <2>2, <2>4, <2>5, SMT
  <2>. QED
    BY <1>2, <2>1, <2>6
<1>4. CASE p \notin S
  <2>1. \A x \in S : w[x] \in Nat /\ w[x] = v[x]
    BY <1>1, <1>4
  <2>2. w[p] = n
    BY <1>1, <1>4
  <2>3. w[p] \in Nat
    BY <1>1, <2>2
  <2>4. Sum(S \cup {p}, w) = Sum(S, w) + w[p]
    <3>1. /\ p \notin S /\ w[p] \in Nat /\ IsFiniteSet(S)
          /\ \A y \in S : w[y] \in Nat
      BY <1>4, <2>1, <2>3
    <3>. QED
      BY ONLY <3>1, SumWith
  <2>5. Sum(S, w) = Sum(S, v)
    BY <2>1, SumDependsOn
  <2>. QED
    BY <1>2, <2>2, <2>4, <2>5
<1>. QED
  BY <1>3, <1>4

-----------------------------------------------------------------------------
(* Onboarding checklist. *)

\* The rows, whose count of completed steps is any number.
ProgressRows == [exists : BOOLEAN, data : SUBSET Progress!AllSteps, completed : Nat,
                 current : Progress!AllSteps \cup {"none"}, finished : BOOLEAN]

\* The inductive invariant: what is stored or was read of the checklist was answered,
\* and the count, which is stored on its own, is not ahead of the answers.
ProgressInv ==
    /\ v1 \in ProgressRows
    /\ v1.data \subseteq v3
    /\ v1.completed <= Cardinality(v3)
    /\ v1.finished => v3 = Progress!AllSteps
    /\ v2 \in [Workers -> [step : Progress!AllSteps \cup {"none"}, seen : ProgressRows]]
    /\ \A w \in Workers :
          /\ v2[w].step = "none" => v2[w] = Progress!Idle
          /\ v2[w].seen.data \subseteq v3
          /\ v2[w].seen.completed <= Cardinality(v3)
    /\ v3 \subseteq Progress!AllSteps
    /\ v4 \in BOOLEAN
    /\ v5 \in 0..MaxSteps

\* The component's Cardinality is the library's.
LEMMA InstanceCardinality == \A S : Progress!Cardinality(S) = Cardinality(S)
  BY DEF Progress!Cardinality, Cardinality

\* The steps of the checklist.
LEMMA Steps4 ==
    /\ Progress!AllSteps = {"run_audit", "view_insights", "generate_content",
                            "generate_social_card"}
    /\ Progress!Total = 4
<1>1. /\ FourSteps[1] = "run_audit" /\ FourSteps[2] = "view_insights"
      /\ FourSteps[3] = "generate_content" /\ FourSteps[4] = "generate_social_card"
      /\ DOMAIN FourSteps = 1..4 /\ Len(FourSteps) = 4
  BY SMT DEF FourSteps
<1>2. DOMAIN FourSteps = {1, 2, 3, 4}
  BY <1>1, SMT
<1>3. Progress!AllSteps = {FourSteps[i] : i \in {1, 2, 3, 4}}
  BY <1>2 DEF Progress!AllSteps
<1>4. Progress!AllSteps = {"run_audit", "view_insights", "generate_content",
                            "generate_social_card"}
  BY <1>1, <1>3, SMT
<1>. QED
  BY <1>1, <1>4 DEF Progress!Total

\* Their number.
LEMMA StepsCount ==
    /\ IsFiniteSet(Progress!AllSteps)
    /\ Cardinality(Progress!AllSteps) <= 4
    /\ "none" \notin Progress!AllSteps
<1>1. IsFiniteSet({}) /\ Cardinality({}) = 0
  BY FS_EmptySet
<1> DEFINE A == {"run_audit"}
           B == A \cup {"view_insights"}
           C == B \cup {"generate_content"}
           D == C \cup {"generate_social_card"}
<1>2. IsFiniteSet(A) /\ Cardinality(A) = 1
  BY FS_Singleton
<1>3. IsFiniteSet(B) /\ Cardinality(B) = 2
  <2>1. "view_insights" \notin A
    BY SMT
  <2>. QED
    BY <1>2, <2>1, FS_AddElement
<1>4. IsFiniteSet(C) /\ Cardinality(C) = 3
  <2>1. "generate_content" \notin B
    BY SMT
  <2>. HIDE DEF B
  <2>. QED
    BY <1>3, <2>1, FS_AddElement
<1>5. IsFiniteSet(D) /\ Cardinality(D) = 4
  <2>1. "generate_social_card" \notin C
    BY SMT
  <2>. HIDE DEF C
  <2>. QED
    BY <1>4, <2>1, FS_AddElement
<1>6. D = Progress!AllSteps /\ "none" \notin Progress!AllSteps
  BY Steps4, SMT
<1>. HIDE DEF D
<1>. QED
  BY <1>5, <1>6

\* What an UPDATE leaves in the row is covered by the steps answered.
LEMMA StoreKeeps ==
    ASSUME NEW old \in ProgressRows, NEW seen \in ProgressRows,
           NEW step \in Progress!AllSteps, NEW before, NEW after,
           after = before \cup {step}, after \subseteq Progress!AllSteps,
           old.data \subseteq before, old.completed <= Cardinality(before),
           old.finished => before = Progress!AllSteps,
           seen.data \subseteq before, seen.completed <= Cardinality(before)
    PROVE  /\ Progress!Store(old, seen, step) \in ProgressRows
           /\ Progress!Store(old, seen, step).data \subseteq after
           /\ Progress!Store(old, seen, step).completed <= Cardinality(after)
           /\ Progress!Store(old, seen, step).finished => after = Progress!AllSteps
<1> DEFINE data == seen.data \cup {step}
           n == Cardinality(data)
           c == Progress!NextStep(data)
           new == [old EXCEPT !.data = IF seen.data = {} THEN data ELSE @,
                              !.completed = IF n # seen.completed THEN n ELSE @,
                              !.current = IF c # seen.current THEN c ELSE @,
                              !.finished = @ \/ n >= 4]
<1>1. Progress!Store(old, seen, step) = new
  BY InstanceCardinality, Steps4, Zenon DEF Progress!Store
<1>2. /\ seen.data \in SUBSET Progress!AllSteps /\ data \subseteq Progress!AllSteps
      /\ data \subseteq after /\ before \subseteq after
  BY SMT DEF ProgressRows
<1>3. /\ IsFiniteSet(after) /\ IsFiniteSet(before) /\ IsFiniteSet(data)
      /\ n \in Nat /\ n <= Cardinality(after) /\ Cardinality(after) \in Nat
      /\ Cardinality(before) \in Nat /\ Cardinality(before) <= Cardinality(after)
  BY <1>2, StepsCount, FS_Subset, FS_CardinalityType
<1>4. n >= 4 => data = Progress!AllSteps
  <2>. HIDE DEF data
  <2>1. /\ n <= Cardinality(Progress!AllSteps)
        /\ Cardinality(Progress!AllSteps) = n => Progress!AllSteps = data
    BY <1>2, StepsCount, FS_Subset
  <2>2. Cardinality(Progress!AllSteps) \in Nat
    BY StepsCount, FS_CardinalityType
  <2>. QED
    BY <1>3, <2>1, <2>2, StepsCount, SMT
<1>5. c \in Progress!AllSteps \cup {"none"}
  <2> DEFINE open == {i \in DOMAIN FourSteps : FourSteps[i] \notin data}
  <2>1. CASE open = {}
    BY <2>1 DEF Progress!NextStep
  <2>2. CASE open # {}
    <3>1. open \subseteq Nat
      BY SMT DEF FourSteps
    <3>2. \E i \in open : \A j \in open : i <= j
      <4>1. open \subseteq {1, 2, 3, 4}
        BY SMT DEF FourSteps
      <4>. HIDE DEF open
      <4>2. CASE 1 \in open
        BY <4>1, <4>2, SMT
      <4>3. CASE 1 \notin open /\ 2 \in open
        BY <4>1, <4>3, SMT
      <4>4. CASE 1 \notin open /\ 2 \notin open /\ 3 \in open
        BY <4>1, <4>4, SMT
      <4>5. CASE 1 \notin open /\ 2 \notin open /\ 3 \notin open
        <5>1. \A j \in open : j = 4
          BY <4>1, <4>5, Zenon
        <5>2. 4 \in open
          BY <2>2, <5>1, Zenon
        <5>. QED
          BY <5>1, <5>2, SMT
      <4>. QED
        BY <4>2, <4>3, <4>4, <4>5
    <3>3. (CHOOSE i \in open : \A j \in open : i <= j) \in open
      BY <3>2, Zenon
    <3>4. (CHOOSE i \in open : \A j \in open : i <= j) \in DOMAIN FourSteps
      BY <3>3, Zenon
    <3>5. c = FourSteps[CHOOSE i \in open : \A j \in open : i <= j]
      BY <2>2, Zenon DEF Progress!NextStep
    <3>. QED
      BY <3>4, <3>5 DEF Progress!AllSteps
  <2>. QED
    BY <2>1, <2>2
<1>. HIDE DEF n, c
<1> DEFINE newData == IF seen.data = {} THEN data ELSE old.data
           newCount == IF n # seen.completed THEN n ELSE old.completed
           newCurrent == IF c # seen.current THEN c ELSE old.current
           newFinished == old.finished \/ n >= 4
<1>6. new \in ProgressRows
  <2>1. /\ newData \in SUBSET Progress!AllSteps
        /\ newCurrent \in Progress!AllSteps \cup {"none"}
    BY <1>2, <1>5, SMT DEF ProgressRows
  <2>2. newCount \in Nat /\ newFinished \in BOOLEAN
    BY <1>3, SMT DEF ProgressRows
  <2>3. new = [old EXCEPT !.data = newData, !.completed = newCount,
                          !.current = newCurrent, !.finished = newFinished]
    OBVIOUS
  <2>. HIDE DEF newData, newCount, newCurrent, newFinished, new
  <2>4. old = [exists |-> old.exists, data |-> old.data, completed |-> old.completed,
               current |-> old.current, finished |-> old.finished]
        /\ old.exists \in BOOLEAN
    BY SMT DEF ProgressRows
  <2>5. new = [exists |-> old.exists, data |-> newData, completed |-> newCount,
               current |-> newCurrent, finished |-> newFinished]
    BY <2>3, <2>4, Zenon
  <2>. QED
    BY <2>1, <2>2, <2>4, <2>5, Zenon DEF ProgressRows
<1>7. /\ new.data = IF seen.data = {} THEN data ELSE old.data
      /\ new.completed = IF n # seen.completed THEN n ELSE old.completed
      /\ new.finished = (old.finished \/ n >= 4)
  BY SMT DEF ProgressRows
<1>8. new.data \subseteq after
  BY <1>2, <1>7, SMT
<1>9. new.completed <= Cardinality(after)
  BY <1>3, <1>7, SMT DEF ProgressRows
<1>10. ASSUME new.finished PROVE after = Progress!AllSteps
  <2>1. old.finished => after = Progress!AllSteps
    BY SMT
  <2>2. n >= 4 => after = Progress!AllSteps
    BY <1>2, <1>4
  <2>. HIDE DEF new
  <2>. QED
    BY <1>10, <1>7, <2>1, <2>2, Zenon
<1>. HIDE DEF new
<1>. QED
  BY <1>1, <1>6, <1>8, <1>9, <1>10

\* It holds initially.
LEMMA ProgressInit == ASSUME Progress!Init PROVE ProgressInv
<1>1. Progress!NoRow \in ProgressRows /\ Progress!NoRow.data = {}
      /\ Progress!NoRow.completed = 0 /\ Progress!NoRow.finished = FALSE
  BY SMT DEF ProgressRows, Progress!NoRow
<1>2. Progress!Idle.step = "none" /\ Progress!Idle.seen = Progress!NoRow
      /\ Progress!Idle \in [step : Progress!AllSteps \cup {"none"}, seen : ProgressRows]
  BY <1>1, SMT DEF Progress!Idle
<1>3. Cardinality({}) = 0
  BY FS_EmptySet
<1>4. v1 = Progress!NoRow /\ v2 = [w \in Workers |-> Progress!Idle] /\ v3 = {}
      /\ v4 = FALSE /\ v5 = 0
  BY DEF Progress!Init
<1>5. MaxSteps \in Nat
  BY MirrorsAssumption DEF MirrorsAssumption, Progress!OnboardingProgressAssumption
<1>6. /\ v1 \in ProgressRows /\ v1.data \subseteq v3
      /\ v1.finished => v3 = Progress!AllSteps
      /\ v3 \subseteq Progress!AllSteps /\ v4 \in BOOLEAN
  BY <1>1, <1>4, Zenon
<1>7. v1.completed <= Cardinality(v3) /\ v5 \in 0..MaxSteps
  BY <1>1, <1>3, <1>4, <1>5, SMT
<1>8. v2 \in [Workers -> [step : Progress!AllSteps \cup {"none"}, seen : ProgressRows]]
  BY <1>2, <1>4, Zenon
<1>9. ASSUME NEW w \in Workers
      PROVE  /\ v2[w].step = "none" => v2[w] = Progress!Idle
             /\ v2[w].seen.data \subseteq v3
             /\ v2[w].seen.completed <= Cardinality(v3)
  <2>1. v2[w] = Progress!Idle
    BY <1>4, Zenon
  <2>. QED
    BY <1>1, <1>2, <1>3, <1>4, <2>1, SMT
<1>. QED
  BY <1>6, <1>8, <1>9, <1>7 DEF ProgressInv

\* A new row has nothing completed.
LEMMA NewRowTyped ==
    /\ Progress!NewRow \in ProgressRows
    /\ Progress!NewRow.data = {} /\ Progress!NewRow.completed = 0
    /\ Progress!NewRow.finished = FALSE
<1>1. FourSteps[1] = "run_audit"
  BY SMT DEF FourSteps
<1>2. Progress!NewRow = [Progress!NoRow EXCEPT !.exists = TRUE, !.current = "run_audit"]
  BY <1>1, Zenon DEF Progress!NewRow
<1>3. Progress!NoRow \in ProgressRows
  BY SMT DEF ProgressRows, Progress!NoRow
<1>4. Progress!NewRow \in ProgressRows
  <2>1. "run_audit" \in Progress!AllSteps
    BY Steps4
  <2>2. Progress!NewRow = [exists |-> TRUE, data |-> {}, completed |-> 0,
                           current |-> "run_audit", finished |-> FALSE]
    BY <1>2, Zenon DEF Progress!NoRow
  <2>3. {} \in SUBSET Progress!AllSteps /\ 0 \in Nat
    BY SMT
  <2>. QED
    BY <2>1, <2>2, <2>3, Zenon DEF ProgressRows
<1>5. /\ Progress!NewRow.data = {} /\ Progress!NewRow.completed = 0
      /\ Progress!NewRow.finished = FALSE
  BY <1>2, SMT DEF Progress!NoRow
<1>. QED
  BY <1>4, <1>5

\* It is kept, action by action: a request loads the row.
LEMMA ProgressLoad ==
    ASSUME ProgressInv, NEW w \in Workers, NEW step \in Progress!AllSteps,
           Progress!Load(w, step)
    PROVE  ProgressInv'
<1>1. /\ v5' = v5 + 1 /\ v5 < MaxSteps /\ v1' = v1 /\ v3' = v3
      /\ v4' = (v4 \/ \E v \in Workers : v2[v] # Progress!Idle)
      /\ v2' = [v2 EXCEPT ![w] = [step |-> step, seen |-> v1]]
  BY DEF Progress!Load
<1>2. MaxSteps \in Nat
  BY MirrorsAssumption DEF MirrorsAssumption, Progress!OnboardingProgressAssumption
<1>3. v5' \in 0..MaxSteps /\ v4' \in BOOLEAN
  BY <1>1, <1>2, SMT DEF ProgressInv
<1>4. /\ v1' \in ProgressRows /\ v1'.data \subseteq v3' /\ v1'.completed <= Cardinality(v3')
      /\ v1'.finished => v3' = Progress!AllSteps
      /\ v3' \subseteq Progress!AllSteps
  BY <1>1 DEF ProgressInv
<1>5. v2' \in [Workers -> [step : Progress!AllSteps \cup {"none"}, seen : ProgressRows]]
  BY <1>1, SMT DEF ProgressInv
<1>6. ASSUME NEW u \in Workers
      PROVE  /\ v2'[u].step = "none" => v2'[u] = Progress!Idle
             /\ v2'[u].seen.data \subseteq v3'
             /\ v2'[u].seen.completed <= Cardinality(v3')
  BY <1>1, StepsCount, SMT DEF ProgressInv
<1>. QED
  BY <1>3, <1>4, <1>5, <1>6 DEF ProgressInv

\* Answering a step leaves what was covered by the steps answered covered.
LEMMA MoreAnswered ==
    ASSUME NEW before \in SUBSET Progress!AllSteps, NEW step \in Progress!AllSteps,
           NEW n \in Nat, n <= Cardinality(before)
    PROVE  /\ before \cup {step} \in SUBSET Progress!AllSteps
           /\ n <= Cardinality(before \cup {step})
           /\ before = Progress!AllSteps => before \cup {step} = Progress!AllSteps
<1>1. IsFiniteSet(before) /\ IsFiniteSet(before \cup {step})
      /\ Cardinality(before) <= Cardinality(before \cup {step})
  BY StepsCount, FS_Subset
<1>2. Cardinality(before) \in Nat /\ Cardinality(before \cup {step}) \in Nat
  BY <1>1, FS_CardinalityType
<1>. QED
  BY <1>1, <1>2, SMT

\* The answer given to it counts, whatever becomes of its row.
LEMMA ProgressAnswered ==
    ASSUME ProgressInv, NEW w \in Workers, v2[w].step # "none",
           v3' = v3 \cup {v2[w].step}, v2' = [v2 EXCEPT ![w] = Progress!Idle],
           v4' = v4, v5' = v5,
           v1' \in ProgressRows, v1'.data \subseteq v3', v1'.completed <= Cardinality(v3'),
           v1'.finished => v3' = Progress!AllSteps
    PROVE  ProgressInv'
<1> DEFINE a == v2[w].step
           U == [step : Progress!AllSteps \cup {"none"}, seen : ProgressRows]
<1>1. a \in Progress!AllSteps
  BY SMT DEF ProgressInv
<1>2. Progress!Idle \in U /\ Progress!Idle.seen.data = {} /\ Progress!Idle.seen.completed = 0
  BY SMT DEF ProgressRows, Progress!Idle, Progress!NoRow
<1>3. v2' \in [Workers -> U]
  BY <1>2, SMT DEF ProgressInv
<1>4. v3' \subseteq Progress!AllSteps
  BY <1>1 DEF ProgressInv
<1>5. ASSUME NEW u \in Workers
      PROVE  /\ v2'[u].step = "none" => v2'[u] = Progress!Idle
             /\ v2'[u].seen.data \subseteq v3'
             /\ v2'[u].seen.completed <= Cardinality(v3')
  <2>1. CASE u = w
    <3>1. v2'[u] = Progress!Idle
      BY <2>1, SMT DEF ProgressInv
    <3>2. Cardinality(v3') \in Nat
      BY <1>4, StepsCount, FS_Subset, FS_CardinalityType
    <3>. QED
      BY <1>2, <3>1, <3>2, SMT
  <2>2. CASE u # w
    <3>1. v2'[u] = v2[u]
      BY <2>2, SMT DEF ProgressInv
    <3>2. /\ v2[u].step = "none" => v2[u] = Progress!Idle
          /\ v2[u].seen.data \subseteq v3 /\ v2[u].seen.completed <= Cardinality(v3)
      BY DEF ProgressInv
    <3>3. v2[u].seen.completed \in Nat
      BY SMT DEF ProgressInv, ProgressRows
    <3>4. v2[u].seen.completed <= Cardinality(v3')
      BY <1>1, <3>2, <3>3, MoreAnswered DEF ProgressInv
    <3>. QED
      BY <3>1, <3>2, <3>4, SMT
  <2>. QED
    BY <2>1, <2>2
<1>. QED
  BY <1>3, <1>4, <1>5 DEF ProgressInv

LEMMA ProgressAlready ==
    ASSUME ProgressInv, NEW w \in Workers, Progress!AlreadyCompleted(w)
    PROVE  ProgressInv'
<1> DEFINE a == v2[w].step
<1>1. /\ v2[w] # Progress!Idle /\ v1' = v1 /\ v4' = v4 /\ v5' = v5
      /\ v3' = v3 \cup {v2[w].step} /\ v2' = [v2 EXCEPT ![w] = Progress!Idle]
  BY DEF Progress!AlreadyCompleted
<1>2. a # "none"
  BY <1>1 DEF ProgressInv
<1>3. a \in Progress!AllSteps
  BY <1>2, SMT DEF ProgressInv
<1>4. v1.completed \in Nat /\ v1.completed <= Cardinality(v3)
      /\ v3 \in SUBSET Progress!AllSteps
  BY SMT DEF ProgressInv, ProgressRows
<1>5. v1.completed <= Cardinality(v3') /\ (v3 = Progress!AllSteps => v3' = Progress!AllSteps)
  BY <1>1, <1>3, <1>4, MoreAnswered
<1>6. v1' \in ProgressRows /\ v1'.data \subseteq v3' /\ v1'.completed <= Cardinality(v3')
      /\ (v1'.finished => v3' = Progress!AllSteps)
  BY <1>1, <1>5 DEF ProgressInv
<1>. QED
  BY <1>1, <1>2, <1>6, ProgressAnswered

LEMMA ProgressComplete ==
    ASSUME ProgressInv, NEW w \in Workers, Progress!Complete(w)
    PROVE  ProgressInv'
<1> DEFINE a == v2[w].step
           seen == v2[w].seen
<1>1. /\ v2[w] # Progress!Idle /\ v4' = v4 /\ v5' = v5
      /\ v1' = IF seen.exists THEN Progress!Store(v1, seen, a)
               ELSE Progress!Store(Progress!NewRow, Progress!NewRow, a)
      /\ v3' = v3 \cup {v2[w].step} /\ v2' = [v2 EXCEPT ![w] = Progress!Idle]
  BY DEF Progress!Complete
<1>2. a # "none"
  BY <1>1 DEF ProgressInv
<1>3. a \in Progress!AllSteps /\ seen \in ProgressRows /\ v1 \in ProgressRows
      /\ v3' \subseteq Progress!AllSteps
  BY <1>1, <1>2, SMT DEF ProgressInv
<1>4. v1' \in ProgressRows /\ v1'.data \subseteq v3' /\ v1'.completed <= Cardinality(v3')
      /\ (v1'.finished => v3' = Progress!AllSteps)
  <2>1. CASE seen.exists
    <3>1. v1.data \subseteq v3 /\ v1.completed <= Cardinality(v3)
          /\ (v1.finished => v3 = Progress!AllSteps)
          /\ seen.data \subseteq v3 /\ seen.completed <= Cardinality(v3)
      BY DEF ProgressInv
    <3>2. v1' = Progress!Store(v1, seen, a)
      BY <1>1, <2>1
    <3>3. v3' = v3 \cup {a}
      BY <1>1
    <3>. HIDE DEF a, seen
    <3>. QED
      BY <1>3, <3>1, <3>2, <3>3, StoreKeeps, Zenon
  <2>2. CASE ~seen.exists
    <3>1. v1' = Progress!Store(Progress!NewRow, Progress!NewRow, a)
      BY <1>1, <2>2
    <3>2. Cardinality(v3) \in Nat
      BY StepsCount, FS_Subset, FS_CardinalityType DEF ProgressInv
    <3>3. Progress!NewRow.data \subseteq v3 /\ Progress!NewRow.completed <= Cardinality(v3)
          /\ (Progress!NewRow.finished => v3 = Progress!AllSteps)
      BY <3>2, NewRowTyped, SMT
    <3>4. v3' = v3 \cup {a}
      BY <1>1
    <3>. HIDE DEF a, seen
    <3>. QED
      BY <1>3, <3>1, <3>3, <3>4, NewRowTyped, StoreKeeps, Zenon
  <2>. QED
    BY <2>1, <2>2
<1>. QED
  BY <1>1, <1>2, <1>4, ProgressAnswered

LEMMA ProgressFails ==
    ASSUME ProgressInv, NEW w \in Workers, Progress!InsertFails(w)
    PROVE  ProgressInv'
<1>1. /\ v1' = v1 /\ v3' = v3 /\ v4' = v4 /\ v5' = v5
      /\ v2' = [v2 EXCEPT ![w] = Progress!Idle]
  BY DEF Progress!InsertFails
<1>2. Progress!Idle.seen.data = {} /\ Progress!Idle.seen.completed = 0
      /\ Progress!Idle \in [step : Progress!AllSteps \cup {"none"}, seen : ProgressRows]
  BY SMT DEF ProgressRows, Progress!Idle, Progress!NoRow
<1>3. v2' \in [Workers -> [step : Progress!AllSteps \cup {"none"}, seen : ProgressRows]]
  BY <1>1, <1>2, SMT DEF ProgressInv
<1>4. Cardinality(v3) \in Nat
  BY StepsCount, FS_Subset, FS_CardinalityType DEF ProgressInv
<1>5. ASSUME NEW u \in Workers
      PROVE  /\ v2'[u].step = "none" => v2'[u] = Progress!Idle
             /\ v2'[u].seen.data \subseteq v3'
             /\ v2'[u].seen.completed <= Cardinality(v3')
  <2>1. v2'[u] = v2[u] \/ v2'[u] = Progress!Idle
    BY <1>1, SMT DEF ProgressInv
  <2>2. 0 <= Cardinality(v3)
    BY <1>4, SMT
  <2>. QED
    BY <1>1, <1>2, <2>1, <2>2, Zenon DEF ProgressInv
<1>. QED
  BY <1>1, <1>3, <1>5 DEF ProgressInv

\* It is kept.
LEMMA ProgressSteps ==
    ASSUME ProgressInv, NextProgress \/ UNCHANGED vars
    PROVE  ProgressInv'
<1>1. CASE NextProgress
  <2>1. PICK w \in Workers :
            \/ \E step \in Progress!AllSteps : Progress!Load(w, step)
            \/ Progress!AlreadyCompleted(w)
            \/ Progress!Complete(w)
            \/ Progress!InsertFails(w)
    BY <1>1, Zenon DEF NextProgress
  <2>. QED
    BY <2>1, ProgressLoad, ProgressAlready, ProgressComplete, ProgressFails
<1>2. CASE UNCHANGED vars
  BY <1>2 DEF vars, ProgressInv
<1>. QED
  BY <1>1, <1>2

\* The types of the checklist.
LEMMA ProgressTypes == ASSUME ProgressInv PROVE Progress!TypeOK
<1>1. /\ v1 \in ProgressRows /\ v3 \subseteq Progress!AllSteps /\ v4 \in BOOLEAN
      /\ v5 \in 0..MaxSteps /\ v1.completed <= Cardinality(v3)
  BY DEF ProgressInv
<1>2. /\ v1.exists \in BOOLEAN /\ v1.finished \in BOOLEAN /\ v1.data \subseteq Progress!AllSteps
      /\ v1.completed \in Nat /\ v1.current \in Progress!AllSteps \cup {"none"}
  BY <1>1, SMT DEF ProgressRows
<1>3. v1.completed \in 0..Progress!Total
  <2>1. /\ Cardinality(v3) <= Cardinality(Progress!AllSteps) /\ Cardinality(v3) \in Nat
        /\ Cardinality(Progress!AllSteps) \in Nat
    BY <1>1, StepsCount, FS_Subset, FS_CardinalityType
  <2>. QED
    BY <1>1, <1>2, <2>1, StepsCount, Steps4
<1>. QED
  BY <1>1, <1>2, <1>3, Zenon DEF Progress!TypeOK

ProgressOnly == subject = "progress" => ProgressInv

\* It holds in every reachable state of the checklist.
LEMMA ProgressAlways == Spec => []ProgressOnly
<1>1. Init => ProgressOnly
  <2>1. Init /\ subject = "progress" => Progress!Init
    BY Zenon DEF Init
  <2>. QED
    BY <2>1, ProgressInit DEF ProgressOnly
<1>2. ProgressOnly /\ [Next]_vars => ProgressOnly'
  BY SubjectStays, StepOfSubject, ProgressSteps DEF ProgressOnly
<1>. QED
  BY <1>1, <1>2, PTL DEF Spec

\* A step is marked as completed only if the user answered it, and no more are counted
\* than were, however requests overlap (onboarding_service.py).
THEOREM ChecklistIsEarned == Spec => []ProgressIsEarned
<1>1. ProgressOnly => ProgressIsEarned
  BY InstanceCardinality, Zenon
     DEF ProgressOnly, ProgressIsEarned, Progress!ProgressIsEarned, ProgressInv
<1>. QED
  BY <1>1, ProgressAlways, PTL

-----------------------------------------------------------------------------
(* Account settings. *)

\* The values of the column, of what was asked for, and of the requests that change it.
SettingsMembers == [token : 1..MaxWrites, email : Emails, role : Roles,
                    status : {"pending", "active"}]
SettingsValues == [team : SUBSET SettingsMembers, other : [Keys -> Values \cup {"unset"}],
                   limits : Settings!Overrides]
AskedValues == [team : SUBSET Emails, other : [Keys -> Values \cup {"unset"}],
                limits : Settings!Overrides]
InviteOps == [pc : {"invite"}, token : 1..MaxWrites, email : Emails, role : Roles]
AcceptOps == [pc : {"accept"}, token : 1..MaxWrites]
RoleOps == [pc : {"role"}, email : Emails, role : Roles]
RemoveOps == [pc : {"remove"}, email : Emails]
PutOps == [pc : {"put"}, key : Keys, value : Values]
OverrideOps == [pc : {"override"}, limits : Settings!Overrides, plan : TwoPlans]
SettingsOps ==
    InviteOps \cup AcceptOps \cup RoleOps \cup RemoveOps \cup PutOps \cup OverrideOps

\* A request that has loaded the column; no overlap so far means that it still is so.
Loaded(op, s) == [pc |-> op.pc, op |-> op, seen |-> s]
SettingsBusy(w) ==
    \E op \in SettingsOps, s \in SettingsValues :
        /\ v3[w] = Loaded(op, s)
        /\ op \in OverrideOps => Settings!Usable(op.limits, op.plan)
        /\ ~v6 => s = v1

\* The addresses of a team.
EmailsOf(team) == {m.email : m \in team}

\* The inductive invariant: until two requests overlap the column has what was last
\* asked for, and the one request at work has read the column as it is.
SettingsInv ==
    /\ v1 \in SettingsValues
    /\ v2 \in TwoPlans /\ v5 \in TwoPlans
    /\ v4 \in AskedValues
    /\ v6 \in BOOLEAN
    /\ v7 \in 0..MaxWrites
    /\ DOMAIN v3 = Workers /\ v3 = [w \in Workers |-> v3[w]]
    /\ \A w \in Workers : v3[w] = Settings!Idle \/ SettingsBusy(w)
    /\ ~v6 => /\ \A u, w \in Workers :
                     v3[u] # Settings!Idle /\ v3[w] # Settings!Idle => u = w
              /\ EmailsOf(v1.team) = v4.team
              /\ v1.other = v4.other
              /\ v1.limits = v4.limits
              /\ Settings!Usable(v1.limits, v5)

\* The types agree.
LEMMA SettingsMembersAre == Settings!Members = SettingsMembers
  BY DEF Settings!Members, SettingsMembers

\* Of the members of one address there is a first.
LEMMA FirstIsMember ==
    ASSUME NEW members \in SUBSET SettingsMembers, members # {}
    PROVE  Settings!First(members) \in members
<1> DEFINE T == {m.token : m \in members}
<1>1. T \in SUBSET Nat /\ T # {}
  BY SMT DEF SettingsMembers
<1>2. \E n \in T : \A m \in T : n <= m
  <2>. HIDE DEF T
  <2>. QED
    BY <1>1, LeastOf
<1>3. \E m \in members : \A n \in members : m.token <= n.token
  BY <1>2
<1>. QED
  BY <1>3, Zenon DEF Settings!First

\* Each request leaves settings in the column, and changes the part it is about.
LEMMA InviteKeeps ==
    ASSUME NEW s \in SettingsValues, NEW op \in InviteOps
    PROVE  /\ Settings!Apply(s, op) \in SettingsValues
           /\ EmailsOf(Settings!Apply(s, op).team) = EmailsOf(s.team) \cup {op.email}
           /\ Settings!Apply(s, op).other = s.other
           /\ Settings!Apply(s, op).limits = s.limits
<1> DEFINE m == [token |-> op.token, email |-> op.email, role |-> op.role,
                 status |-> "pending"]
           team == (s.team \ {}) \cup {m}
           new == [s EXCEPT !.team = team]
<1>1. Settings!Apply(s, op) = Settings!Invite(s, op)
  BY SMT DEF Settings!Apply, InviteOps
<1>2. Settings!Invite(s, op) = new
  BY Zenon DEF Settings!Invite, Settings!Replace
<1>3. m \in SettingsMembers /\ m.email = op.email
  BY SMT DEF SettingsMembers, InviteOps
<1>. HIDE DEF m
<1>4. team \subseteq SettingsMembers
  BY <1>3, SMT DEF SettingsValues
<1>5. EmailsOf(team) = EmailsOf(s.team) \cup {op.email}
  BY <1>3 DEF EmailsOf
<1>. HIDE DEF team
<1>6. new \in SettingsValues /\ new.team = team /\ new.other = s.other
      /\ new.limits = s.limits
  BY <1>4, SMT DEF SettingsValues
<1>. QED
  BY <1>1, <1>2, <1>5, <1>6

\* An accepted invitation changes no address; the column is legal afterwards.
LEMMA AcceptKeeps ==
    ASSUME NEW s \in SettingsValues, NEW op \in AcceptOps
    PROVE  /\ Settings!Apply(s, op) \in SettingsValues
           /\ EmailsOf(Settings!Apply(s, op).team) = EmailsOf(s.team)
           /\ Settings!Apply(s, op).other = s.other
           /\ Settings!Apply(s, op).limits = s.limits
<1> DEFINE found == {m \in s.team : m.token = op.token /\ m.status = "pending"}
           active == {[m EXCEPT !.status = "active"] : m \in found}
           team == (s.team \ found) \cup active
           new == [s EXCEPT !.team = team]
<1>1. Settings!Apply(s, op) = Settings!Accept(s, op)
  BY SMT DEF Settings!Apply, AcceptOps
<1>2. Settings!Accept(s, op) = new
  BY Zenon DEF Settings!Accept, Settings!Replace
<1>3. \A m \in s.team : /\ [m EXCEPT !.status = "active"] \in SettingsMembers
                        /\ [m EXCEPT !.status = "active"].email = m.email
  BY SMT DEF SettingsMembers, SettingsValues
<1>4. found \subseteq s.team /\ s.team \subseteq SettingsMembers
  BY SMT DEF SettingsValues
<1>. HIDE DEF found
<1>5. team \subseteq SettingsMembers
  BY <1>3, <1>4
<1>6. EmailsOf(team) = EmailsOf(s.team)
  <2>1. EmailsOf(active) = EmailsOf(found)
    <3>1. \A m \in found : [m EXCEPT !.status = "active"].email = m.email
      BY <1>3, <1>4, Zenon
    <3>2. EmailsOf(active) = {[m EXCEPT !.status = "active"].email : m \in found}
      BY Zenon DEF EmailsOf
    <3>. HIDE DEF active
    <3>. QED
      BY <3>1, <3>2, Zenon DEF EmailsOf
  <2>. HIDE DEF active
  <2>2. EmailsOf(team) = EmailsOf(s.team \ found) \cup EmailsOf(active)
    BY Zenon DEF EmailsOf
  <2>3. EmailsOf(s.team) = EmailsOf(s.team \ found) \cup EmailsOf(found)
    BY <1>4 DEF EmailsOf
  <2>. QED
    BY <2>1, <2>2, <2>3
<1>. HIDE DEF team
<1>7. new \in SettingsValues /\ new.team = team /\ new.other = s.other
      /\ new.limits = s.limits
  BY <1>5, SMT DEF SettingsValues
<1>. QED
  BY <1>1, <1>2, <1>6, <1>7

\* Nor does a change of role.
LEMMA RoleKeeps ==
    ASSUME NEW s \in SettingsValues, NEW op \in RoleOps
    PROVE  /\ Settings!Apply(s, op) \in SettingsValues
           /\ EmailsOf(Settings!Apply(s, op).team) = EmailsOf(s.team)
           /\ Settings!Apply(s, op).other = s.other
           /\ Settings!Apply(s, op).limits = s.limits
<1> DEFINE named == Settings!Named(s, op.email)
           m == Settings!First(named)
           n == [m EXCEPT !.role = op.role]
           team == (s.team \ {m}) \cup {n}
           new == [s EXCEPT !.team = team]
<1>1. Settings!Apply(s, op) = Settings!SetRole(s, op)
  BY SMT DEF Settings!Apply, RoleOps
<1>2. CASE named = {}
  <2>1. Settings!SetRole(s, op) = s
    BY <1>2, Zenon DEF Settings!SetRole
  <2>. QED
    BY <1>1, <2>1
<1>3. CASE named # {}
  <2>1. Settings!SetRole(s, op) = new
    BY <1>3, Zenon DEF Settings!SetRole, Settings!Replace
  <2>2. named \subseteq s.team /\ s.team \subseteq SettingsMembers
    BY SMT DEF SettingsValues, Settings!Named
  <2>3. m \in named
    BY <1>3, <2>2, FirstIsMember
  <2>4. m \in s.team /\ m \in SettingsMembers
    BY <2>2, <2>3
  <2>. HIDE DEF m
  <2>5. n \in SettingsMembers /\ n.email = m.email
    BY <2>4, SMT DEF SettingsMembers, RoleOps
  <2>. HIDE DEF n
  <2>6. team \subseteq SettingsMembers
    BY <2>2, <2>5
  <2>7. EmailsOf(team) = EmailsOf(s.team)
    BY <2>4, <2>5 DEF EmailsOf
  <2>. HIDE DEF team
  <2>8. new \in SettingsValues /\ new.team = team /\ new.other = s.other
        /\ new.limits = s.limits
    BY <2>6, SMT DEF SettingsValues
  <2>. QED
    BY <1>1, <2>1, <2>7, <2>8
<1>. QED
  BY <1>2, <1>3

\* A removal takes the address away, every entry of it.
LEMMA RemoveKeeps ==
    ASSUME NEW s \in SettingsValues, NEW op \in RemoveOps
    PROVE  /\ Settings!Apply(s, op) \in SettingsValues
           /\ EmailsOf(Settings!Apply(s, op).team) = EmailsOf(s.team) \ {op.email}
           /\ Settings!Apply(s, op).other = s.other
           /\ Settings!Apply(s, op).limits = s.limits
<1> DEFINE named == {m \in s.team : m.email = op.email}
           team == (s.team \ named) \cup {}
           new == [s EXCEPT !.team = team]
<1>1. Settings!Apply(s, op) = Settings!Remove(s, op)
  BY SMT DEF Settings!Apply, RemoveOps
<1>2. Settings!Remove(s, op) = new
  BY Zenon DEF Settings!Remove, Settings!Replace, Settings!Named
<1>3. team = {m \in s.team : m.email # op.email}
  BY Zenon
<1>4. team \subseteq SettingsMembers
  BY <1>3, SMT DEF SettingsValues
<1>5. EmailsOf(team) = EmailsOf(s.team) \ {op.email}
  BY <1>3 DEF EmailsOf
<1>. HIDE DEF team
<1>6. new \in SettingsValues /\ new.team = team /\ new.other = s.other
      /\ new.limits = s.limits
  BY <1>4, SMT DEF SettingsValues
<1>. QED
  BY <1>1, <1>2, <1>5, <1>6

\* A preference leaves the rest alone.
LEMMA PutKeeps ==
    ASSUME NEW s \in SettingsValues, NEW op \in PutOps
    PROVE  /\ Settings!Apply(s, op) \in SettingsValues
           /\ Settings!Apply(s, op).team = s.team
           /\ Settings!Apply(s, op).other = [s.other EXCEPT ![op.key] = op.value]
           /\ Settings!Apply(s, op).limits = s.limits
<1> DEFINE other == [s.other EXCEPT ![op.key] = op.value]
           new == [s EXCEPT !.other = other]
<1>1. Settings!Apply(s, op) = Settings!Put(s, op)
  BY SMT DEF Settings!Apply, PutOps
<1>2. Settings!Put(s, op) = new
  BY Zenon DEF Settings!Put
<1>3. other \in [Keys -> Values \cup {"unset"}]
  BY SMT DEF SettingsValues, PutOps
<1>. HIDE DEF other
<1>4. new \in SettingsValues /\ new.team = s.team /\ new.other = other
      /\ new.limits = s.limits
  BY <1>3, SMT DEF SettingsValues
<1>. QED
  BY <1>1, <1>2, <1>4 DEF other

\* So do limits.
LEMMA OverrideKeeps ==
    ASSUME NEW s \in SettingsValues, NEW op \in OverrideOps
    PROVE  /\ Settings!Apply(s, op) \in SettingsValues
           /\ Settings!Apply(s, op).team = s.team
           /\ Settings!Apply(s, op).other = s.other
           /\ Settings!Apply(s, op).limits = op.limits
<1> DEFINE new == [s EXCEPT !.limits = op.limits]
<1>1. Settings!Apply(s, op) = Settings!Override(s, op)
  BY SMT DEF Settings!Apply, OverrideOps
<1>2. Settings!Override(s, op) = new
  BY Zenon DEF Settings!Override
<1>3. new \in SettingsValues /\ new.team = s.team /\ new.other = s.other
      /\ new.limits = op.limits
  BY SMT DEF SettingsValues, OverrideOps
<1>. QED
  BY <1>1, <1>2, <1>3

\* What a request that has loaded the column keeps.
LEMMA LoadedFields ==
    ASSUME NEW op \in SettingsOps, NEW s
    PROVE  /\ Loaded(op, s) # Settings!Idle
           /\ Loaded(op, s).op = op /\ Loaded(op, s).seen = s
<1>1. op.pc # "idle"
  BY SMT DEF SettingsOps, InviteOps, AcceptOps, RoleOps, RemoveOps, PutOps, OverrideOps
<1>2. Loaded(op, s).pc = op.pc /\ Settings!Idle.pc = "idle"
  BY SMT DEF Loaded, Settings!Idle
<1>. QED
  BY <1>1, <1>2, SMT DEF Loaded

\* A request loads the column.
LEMMA SettingsLoad ==
    ASSUME SettingsInv, NEW w \in Workers, NEW op \in SettingsOps,
           op \in OverrideOps => Settings!Usable(op.limits, op.plan),
           Settings!Load(w, op)
    PROVE  SettingsInv'
<1>1. /\ v3[w] = Settings!Idle /\ v7' = v7 + 1 /\ v7 < MaxWrites
      /\ v3' = [v3 EXCEPT ![w] = Loaded(op, v1)]
      /\ v6' = (v6 \/ \E v \in Workers : v3[v] # Settings!Idle)
      /\ v1' = v1 /\ v2' = v2 /\ v4' = v4 /\ v5' = v5
  BY Zenon DEF Settings!Load, Loaded
<1>2. MaxWrites \in Nat
  BY MirrorsAssumption DEF MirrorsAssumption, Settings!AccountSettingsAssumption
<1>3. v7' \in 0..MaxWrites
  BY <1>1, <1>2, SMT DEF SettingsInv
<1>4. v6' \in BOOLEAN /\ (~v6' => ~v6 /\ \A v \in Workers : v3[v] = Settings!Idle)
  BY <1>1, Zenon DEF SettingsInv
<1>5. DOMAIN v3' = Workers /\ v3' = [u \in Workers |-> v3'[u]]
      /\ v3'[w] = Loaded(op, v1) /\ \A u \in Workers : u # w => v3'[u] = v3[u]
  BY <1>1, SMT DEF SettingsInv
<1>6. ASSUME NEW u \in Workers PROVE v3'[u] = Settings!Idle \/ SettingsBusy(u)'
  <2>1. CASE u = w
    BY <1>1, <1>5, <2>1, Zenon DEF SettingsBusy, SettingsInv
  <2>2. CASE u # w
    <3>1. v3'[u] = v3[u] /\ (v3[u] = Settings!Idle \/ SettingsBusy(u))
      BY <1>5, <2>2 DEF SettingsInv
    <3>. QED
      BY <1>1, <1>4, <3>1, Zenon DEF SettingsBusy
  <2>. QED
    BY <2>1, <2>2
<1>7. ASSUME ~v6' PROVE /\ \A u, v \in Workers :
                               v3'[u] # Settings!Idle /\ v3'[v] # Settings!Idle => u = v
                        /\ EmailsOf(v1'.team) = v4'.team
                        /\ v1'.other = v4'.other
                        /\ v1'.limits = v4'.limits
                        /\ Settings!Usable(v1'.limits, v5')
  <2>1. \A u \in Workers : v3'[u] # Settings!Idle => u = w
    BY <1>4, <1>5, <1>7, Zenon
  <2>2. \A u, v \in Workers :
            v3'[u] # Settings!Idle /\ v3'[v] # Settings!Idle => u = v
    BY <2>1
  <2>. QED
    BY <1>1, <1>4, <1>7, <2>2, Zenon DEF SettingsInv
<1>. QED
  BY <1>1, <1>3, <1>4, <1>5, <1>6, <1>7, Zenon DEF SettingsInv

\* What a request answered changes in the history is what it changes in the column.
LEMMA SettingsAnswered ==
    ASSUME NEW s \in SettingsValues, NEW op \in SettingsOps, v4 \in AskedValues
    PROVE  /\ Settings!Apply(s, op) \in SettingsValues
           /\ Settings!Asked(op) \in AskedValues
           /\ EmailsOf(s.team) = v4.team =>
                  EmailsOf(Settings!Apply(s, op).team) = Settings!Asked(op).team
           /\ s.other = v4.other => Settings!Apply(s, op).other = Settings!Asked(op).other
           /\ s.limits = v4.limits => Settings!Apply(s, op).limits = Settings!Asked(op).limits
           /\ op \in OverrideOps => op.pc = "override"
                                    /\ Settings!Apply(s, op).limits = op.limits
           /\ op \notin OverrideOps => op.pc # "override"
                                       /\ Settings!Apply(s, op).limits = s.limits
<1> DEFINE same == Settings!Asked(op)
<1>1. CASE op \in InviteOps
  <2>1. op.pc = "invite" /\ op.email \in Emails
    BY <1>1, SMT DEF InviteOps
  <2>2. same = [v4 EXCEPT !.team = @ \cup {op.email}]
    BY <2>1, SMT DEF Settings!Asked
  <2>3. same \in AskedValues /\ same.team = v4.team \cup {op.email}
        /\ same.other = v4.other /\ same.limits = v4.limits
    BY <2>1, <2>2, SMT DEF AskedValues
  <2>4. op \notin OverrideOps
    BY <2>1, SMT DEF OverrideOps
  <2>. HIDE DEF same
  <2>5. /\ Settings!Apply(s, op) \in SettingsValues
        /\ EmailsOf(Settings!Apply(s, op).team) = EmailsOf(s.team) \cup {op.email}
        /\ Settings!Apply(s, op).other = s.other
        /\ Settings!Apply(s, op).limits = s.limits
    BY <1>1, InviteKeeps
  <2>6. /\ EmailsOf(s.team) = v4.team => EmailsOf(Settings!Apply(s, op).team) = same.team
        /\ s.other = v4.other => Settings!Apply(s, op).other = same.other
        /\ s.limits = v4.limits => Settings!Apply(s, op).limits = same.limits
    BY <2>3, <2>5, Zenon
  <2>. QED
    BY <2>1, <2>3, <2>4, <2>5, <2>6, Zenon DEF same
<1>2. CASE op \in AcceptOps
  <2>1. op.pc = "accept"
    BY <1>2, SMT DEF AcceptOps
  <2>2. same = v4
    BY <2>1, SMT DEF Settings!Asked
  <2>3. op \notin OverrideOps
    BY <2>1, SMT DEF OverrideOps
  <2>. QED
    BY <1>2, <2>1, <2>2, <2>3, AcceptKeeps, Zenon
<1>3. CASE op \in RoleOps
  <2>1. op.pc = "role"
    BY <1>3, SMT DEF RoleOps
  <2>2. same = v4
    BY <2>1, SMT DEF Settings!Asked
  <2>3. op \notin OverrideOps
    BY <2>1, SMT DEF OverrideOps
  <2>. QED
    BY <1>3, <2>1, <2>2, <2>3, RoleKeeps, Zenon
<1>4. CASE op \in RemoveOps
  <2>1. op.pc = "remove" /\ op.email \in Emails
    BY <1>4, SMT DEF RemoveOps
  <2>2. same = [v4 EXCEPT !.team = @ \ {op.email}]
    BY <2>1, SMT DEF Settings!Asked
  <2>3. same \in AskedValues /\ same.team = v4.team \ {op.email}
        /\ same.other = v4.other /\ same.limits = v4.limits
    BY <2>1, <2>2, SMT DEF AskedValues
  <2>4. op \notin OverrideOps
    BY <2>1, SMT DEF OverrideOps
  <2>. HIDE DEF same
  <2>5. /\ Settings!Apply(s, op) \in SettingsValues
        /\ EmailsOf(Settings!Apply(s, op).team) = EmailsOf(s.team) \ {op.email}
        /\ Settings!Apply(s, op).other = s.other
        /\ Settings!Apply(s, op).limits = s.limits
    BY <1>4, RemoveKeeps
  <2>6. /\ EmailsOf(s.team) = v4.team => EmailsOf(Settings!Apply(s, op).team) = same.team
        /\ s.other = v4.other => Settings!Apply(s, op).other = same.other
        /\ s.limits = v4.limits => Settings!Apply(s, op).limits = same.limits
    BY <2>3, <2>5, Zenon
  <2>. QED
    BY <2>1, <2>3, <2>4, <2>5, <2>6, Zenon DEF same
<1>5. CASE op \in PutOps
  <2>1. op.pc = "put" /\ op.key \in Keys /\ op.value \in Values
    BY <1>5, SMT DEF PutOps
  <2>2. same = [v4 EXCEPT !.other[op.key] = op.value]
    BY <2>1, SMT DEF Settings!Asked
  <2>3. [v4.other EXCEPT ![op.key] = op.value] \in [Keys -> Values \cup {"unset"}]
    BY <2>1, SMT DEF AskedValues
  <2>4. same \in AskedValues /\ same.team = v4.team
        /\ same.other = [v4.other EXCEPT ![op.key] = op.value] /\ same.limits = v4.limits
    BY <2>2, <2>3, SMT DEF AskedValues
  <2>5. op \notin OverrideOps
    BY <2>1, SMT DEF OverrideOps
  <2>. HIDE DEF same
  <2>6. /\ Settings!Apply(s, op) \in SettingsValues
        /\ Settings!Apply(s, op).team = s.team
        /\ Settings!Apply(s, op).other = [s.other EXCEPT ![op.key] = op.value]
        /\ Settings!Apply(s, op).limits = s.limits
    BY <1>5, PutKeeps
  <2>7. /\ EmailsOf(s.team) = v4.team => EmailsOf(Settings!Apply(s, op).team) = same.team
        /\ s.other = v4.other => Settings!Apply(s, op).other = same.other
        /\ s.limits = v4.limits => Settings!Apply(s, op).limits = same.limits
    BY <2>4, <2>6, Zenon
  <2>. QED
    BY <2>1, <2>4, <2>5, <2>6, <2>7, Zenon DEF same
<1>6. CASE op \in OverrideOps
  <2>1. op.pc = "override" /\ op.limits \in Settings!Overrides
    BY <1>6, SMT DEF OverrideOps
  <2>2. same = [v4 EXCEPT !.limits = op.limits]
    BY <2>1, SMT DEF Settings!Asked
  <2>3. same \in AskedValues /\ same.team = v4.team
        /\ same.other = v4.other /\ same.limits = op.limits
    BY <2>1, <2>2, SMT DEF AskedValues
  <2>. HIDE DEF same
  <2>. QED
    BY <1>6, <2>1, <2>3, OverrideKeeps, Zenon DEF same
<1>. QED
  BY <1>1, <1>2, <1>3, <1>4, <1>5, <1>6, Zenon DEF SettingsOps

\* A request commits the column it makes of what it loaded.
LEMMA SettingsCommit ==
    ASSUME SettingsInv, NEW w \in Workers, Settings!Commit(w)
    PROVE  SettingsInv'
<1>1. /\ v3[w] # Settings!Idle
      /\ v3' = [v3 EXCEPT ![w] = Settings!Idle]
      /\ v1' = IF Settings!Apply(v3[w].seen, v3[w].op) # v3[w].seen
               THEN Settings!Apply(v3[w].seen, v3[w].op) ELSE v1
      /\ v4' = Settings!Asked(v3[w].op)
      /\ v5' = IF v3[w].op.pc = "override" THEN v3[w].op.plan ELSE v5
      /\ v2' = v2 /\ v6' = v6 /\ v7' = v7
  BY Zenon DEF Settings!Commit
<1>2. SettingsBusy(w)
  BY <1>1 DEF SettingsInv
<1>3. PICK op \in SettingsOps, s \in SettingsValues :
          /\ v3[w] = Loaded(op, s)
          /\ op \in OverrideOps => Settings!Usable(op.limits, op.plan)
          /\ ~v6 => s = v1
  BY <1>2, Zenon DEF SettingsBusy
<1>4. v3[w].op = op /\ v3[w].seen = s
  BY <1>3, LoadedFields
<1> DEFINE new == Settings!Apply(s, op)
<1>5. /\ v1' = IF new # s THEN new ELSE v1
      /\ v4' = Settings!Asked(op)
      /\ v5' = IF op.pc = "override" THEN op.plan ELSE v5
  BY <1>1, <1>4
<1>6. v4 \in AskedValues /\ v1 \in SettingsValues /\ v5 \in TwoPlans
  BY DEF SettingsInv
<1>7. new \in SettingsValues /\ v4' \in AskedValues /\ v1' \in SettingsValues
  BY <1>5, <1>6, SettingsAnswered
<1>8. v5' \in TwoPlans
  <2>1. op \in OverrideOps => op.plan \in TwoPlans
    BY SMT DEF OverrideOps
  <2>2. op.pc = "override" => op \in OverrideOps
    BY <1>6, SettingsAnswered
  <2>. QED
    BY <1>5, <1>6, <2>1, <2>2
<1>. HIDE DEF new
<1>9. DOMAIN v3' = Workers /\ v3' = [u \in Workers |-> v3'[u]]
      /\ v3'[w] = Settings!Idle /\ \A u \in Workers : u # w => v3'[u] = v3[u]
  BY <1>1, SMT DEF SettingsInv
<1>10. ASSUME NEW u \in Workers PROVE v3'[u] = Settings!Idle \/ SettingsBusy(u)'
  <2>1. CASE u = w
    BY <1>9, <2>1
  <2>2. CASE u # w /\ v3[u] = Settings!Idle
    BY <1>9, <2>2
  <2>3. CASE u # w /\ v3[u] # Settings!Idle
    <3>1. v6
      BY <1>1, <2>3, Zenon DEF SettingsInv
    <3>2. SettingsBusy(u) /\ v3'[u] = v3[u]
      BY <1>9, <2>3, Zenon DEF SettingsInv
    <3>. QED
      BY <1>1, <3>1, <3>2, Zenon DEF SettingsBusy
  <2>. QED
    BY <2>1, <2>2, <2>3
<1>11. ASSUME ~v6' PROVE /\ \A u, v \in Workers :
                               v3'[u] # Settings!Idle /\ v3'[v] # Settings!Idle => u = v
                        /\ EmailsOf(v1'.team) = v4'.team
                        /\ v1'.other = v4'.other
                        /\ v1'.limits = v4'.limits
                        /\ Settings!Usable(v1'.limits, v5')
  <2>1. ~v6 /\ s = v1
    BY <1>1, <1>3, <1>11
  <2>2. v1' = new
    BY <1>5, <2>1
  <2>3. /\ \A u, v \in Workers : v3[u] # Settings!Idle /\ v3[v] # Settings!Idle => u = v
        /\ EmailsOf(s.team) = v4.team /\ s.other = v4.other /\ s.limits = v4.limits
        /\ Settings!Usable(s.limits, v5)
    BY <2>1, Zenon DEF SettingsInv
  <2>4. EmailsOf(new.team) = v4'.team /\ new.other = v4'.other /\ new.limits = v4'.limits
    BY <1>5, <1>6, <2>3, SettingsAnswered DEF new
  <2>5. Settings!Usable(new.limits, v5')
    <3>1. CASE op \in OverrideOps
      <4>1. op.pc = "override" /\ new.limits = op.limits
        BY <1>6, <3>1, SettingsAnswered DEF new
      <4>. QED
        BY <1>3, <1>5, <3>1, <4>1, Zenon
    <3>2. CASE op \notin OverrideOps
      <4>1. op.pc # "override" /\ new.limits = s.limits
        BY <1>6, <3>2, SettingsAnswered DEF new
      <4>. QED
        BY <1>5, <2>3, <4>1, Zenon
    <3>. QED
      BY <3>1, <3>2
  <2>6. \A u, v \in Workers : v3'[u] # Settings!Idle /\ v3'[v] # Settings!Idle => u = v
    <3>1. \A u \in Workers : v3'[u] # Settings!Idle => v3[u] # Settings!Idle
      BY <1>9, Zenon
    <3>. QED
      BY <2>3, <3>1, Zenon
  <2>. QED
    BY <2>2, <2>4, <2>5, <2>6, Zenon
<1>. QED
  BY <1>1, <1>7, <1>8, <1>9, <1>10, <1>11, Zenon DEF SettingsInv

\* It holds initially.
LEMMA SettingsInit == ASSUME Settings!Init PROVE SettingsInv
<1> DEFINE first == [team |-> {}, other |-> [k \in Keys |-> "unset"],
                     limits |-> Settings!NoOverrides]
<1>1. v1 = first /\ v4 = first /\ v2 \in TwoPlans /\ v5 = v2
      /\ v3 = [w \in Workers |-> Settings!Idle] /\ v6 = FALSE /\ v7 = 0
  BY Zenon DEF Settings!Init
<1>2. MaxWrites \in Nat /\ DailyLimit \in [TwoPlans -> Nat] /\ MonthlyLimit \in [TwoPlans -> Nat]
      /\ \A p \in TwoPlans : DailyLimit[p] <= MonthlyLimit[p]
  BY MirrorsAssumption DEF MirrorsAssumption, Settings!AccountSettingsAssumption
<1>3. Settings!NoOverrides \in Settings!Overrides
      /\ Settings!NoOverrides.daily = Settings!NoLimit
      /\ Settings!NoOverrides.monthly = Settings!NoLimit
  BY SMT DEF Settings!NoOverrides, Settings!Overrides
<1>4. first \in SettingsValues /\ first \in AskedValues /\ EmailsOf(first.team) = first.team
      /\ first.limits = Settings!NoOverrides
  BY <1>3, SMT DEF SettingsValues, AskedValues, EmailsOf
<1>. HIDE DEF first
<1>5. Settings!Usable(Settings!NoOverrides, v5)
  BY <1>1, <1>2, <1>3, SMT DEF Settings!Usable, Settings!Or
<1>6. DOMAIN v3 = Workers /\ v3 = [w \in Workers |-> v3[w]]
      /\ \A w \in Workers : v3[w] = Settings!Idle
  BY <1>1, Zenon
<1>7. v7 \in 0..MaxWrites
  BY <1>1, <1>2, SMT
<1>. QED
  BY <1>1, <1>4, <1>5, <1>6, <1>7, Zenon DEF SettingsInv

LEMMA SettingsBusyStays ==
    ASSUME SettingsInv, v1' = v1, v3' = v3, v6' = v6, NEW w \in Workers
    PROVE  v3'[w] = Settings!Idle \/ SettingsBusy(w)'
<1>1. v3'[w] = v3[w] /\ (v3[w] = Settings!Idle \/ SettingsBusy(w))
  BY DEF SettingsInv
<1>2. SettingsBusy(w)' = SettingsBusy(w)
  BY SMT DEF SettingsBusy
<1>. QED
  BY <1>1, <1>2

\* A change of plan.
LEMMA SettingsPlan ==
    ASSUME SettingsInv, NEW p \in TwoPlans, Settings!ChangePlan(p)
    PROVE  SettingsInv'
<1>1. v2' = p /\ v1' = v1 /\ v3' = v3 /\ v4' = v4 /\ v5' = v5 /\ v6' = v6 /\ v7' = v7
  BY DEF Settings!ChangePlan
<1>2. \A w \in Workers : v3'[w] = Settings!Idle \/ SettingsBusy(w)'
  BY <1>1, SettingsBusyStays
<1>. QED
  BY <1>1, <1>2, Zenon DEF SettingsInv

\* It is kept.
LEMMA SettingsSteps ==
    ASSUME SettingsInv, NextSettings \/ UNCHANGED vars
    PROVE  SettingsInv'
<1>1. ASSUME NEW w \in Workers, NEW email \in Emails, NEW role \in Roles,
             Settings!AskInvite(w, email, role)
      PROVE  SettingsInv'
  <2> DEFINE op == [pc |-> "invite", token |-> v7 + 1, email |-> email, role |-> role]
  <2>1. Settings!Load(w, op)
    BY <1>1, Zenon DEF Settings!AskInvite
  <2>2. v7 + 1 \in 1..MaxWrites
    <3>1. v7 < MaxWrites
      BY <2>1 DEF Settings!Load
    <3>2. MaxWrites \in Nat
      BY MirrorsAssumption DEF MirrorsAssumption, Settings!AccountSettingsAssumption
    <3>. QED
      BY <3>1, <3>2, SMT DEF SettingsInv
  <2>3. op \in InviteOps
    BY <2>2 DEF InviteOps
  <2>4. op \notin OverrideOps /\ op \in SettingsOps
    BY <2>3, SMT DEF InviteOps, OverrideOps, SettingsOps
  <2>. HIDE DEF op
  <2>. QED
    BY <2>1, <2>4, SettingsLoad
<1>2. ASSUME NEW w \in Workers, NEW email \in Emails, NEW role \in Roles,
             Settings!AskRole(w, email, role)
      PROVE  SettingsInv'
  <2> DEFINE op == [pc |-> "role", email |-> email, role |-> role]
  <2>1. Settings!Load(w, op)
    BY <1>2, Zenon DEF Settings!AskRole
  <2>2. op \in RoleOps
    BY DEF RoleOps
  <2>3. op \notin OverrideOps /\ op \in SettingsOps
    BY <2>2, SMT DEF RoleOps, OverrideOps, SettingsOps
  <2>. HIDE DEF op
  <2>. QED
    BY <2>1, <2>3, SettingsLoad
<1>3. ASSUME NEW w \in Workers, NEW n \in 1..MaxWrites, Settings!AskAccept(w, n)
      PROVE  SettingsInv'
  <2> DEFINE op == [pc |-> "accept", token |-> n]
  <2>1. Settings!Load(w, op)
    BY <1>3, Zenon DEF Settings!AskAccept
  <2>2. op \in AcceptOps
    BY DEF AcceptOps
  <2>3. op \notin OverrideOps /\ op \in SettingsOps
    BY <2>2, SMT DEF AcceptOps, OverrideOps, SettingsOps
  <2>. HIDE DEF op
  <2>. QED
    BY <2>1, <2>3, SettingsLoad
<1>4. ASSUME NEW w \in Workers, NEW email \in Emails, Settings!AskRemove(w, email)
      PROVE  SettingsInv'
  <2> DEFINE op == [pc |-> "remove", email |-> email]
  <2>1. Settings!Load(w, op)
    BY <1>4, Zenon DEF Settings!AskRemove
  <2>2. op \in RemoveOps
    BY DEF RemoveOps
  <2>3. op \notin OverrideOps /\ op \in SettingsOps
    BY <2>2, SMT DEF RemoveOps, OverrideOps, SettingsOps
  <2>. HIDE DEF op
  <2>. QED
    BY <2>1, <2>3, SettingsLoad
<1>5. ASSUME NEW w \in Workers, NEW key \in Keys, NEW value \in Values,
             Settings!AskPut(w, key, value)
      PROVE  SettingsInv'
  <2> DEFINE op == [pc |-> "put", key |-> key, value |-> value]
  <2>1. Settings!Load(w, op)
    BY <1>5, Zenon DEF Settings!AskPut
  <2>2. op \in PutOps
    BY DEF PutOps
  <2>3. op \notin OverrideOps /\ op \in SettingsOps
    BY <2>2, SMT DEF PutOps, OverrideOps, SettingsOps
  <2>. HIDE DEF op
  <2>. QED
    BY <2>1, <2>3, SettingsLoad
<1>6. ASSUME NEW w \in Workers, NEW limits \in Settings!Overrides,
             Settings!AskOverride(w, limits)
      PROVE  SettingsInv'
  <2> DEFINE op == [pc |-> "override", limits |-> limits, plan |-> v2]
  <2>1. Settings!Load(w, op) /\ Settings!Usable(limits, v2)
    BY <1>6, Zenon DEF Settings!AskOverride
  <2>2. op \in OverrideOps /\ op.limits = limits /\ op.plan = v2
    BY DEF OverrideOps, SettingsInv
  <2>3. op \in SettingsOps
    BY <2>2, Zenon DEF SettingsOps
  <2>. HIDE DEF op
  <2>. QED
    BY <2>1, <2>2, <2>3, SettingsLoad
<1>7. CASE NextSettings
  <2>1. \/ \E w \in Workers :
               \/ \E email \in Emails, role \in Roles :
                     Settings!AskInvite(w, email, role) \/ Settings!AskRole(w, email, role)
               \/ \E n \in 1..MaxWrites : Settings!AskAccept(w, n)
               \/ \E email \in Emails : Settings!AskRemove(w, email)
               \/ \E key \in Keys, value \in Values : Settings!AskPut(w, key, value)
               \/ \E limits \in Settings!Overrides : Settings!AskOverride(w, limits)
               \/ Settings!Commit(w)
        \/ \E p \in TwoPlans : Settings!ChangePlan(p)
    BY <1>7, Zenon DEF NextSettings
  <2>. QED
    BY <1>1, <1>2, <1>3, <1>4, <1>5, <1>6, <2>1, SettingsCommit, SettingsPlan, Zenon
<1>8. CASE UNCHANGED vars
  <2>1. v1' = v1 /\ v2' = v2 /\ v3' = v3 /\ v4' = v4 /\ v5' = v5 /\ v6' = v6 /\ v7' = v7
    BY <1>8 DEF vars
  <2>2. \A w \in Workers : v3'[w] = Settings!Idle \/ SettingsBusy(w)'
    BY <2>1, SettingsBusyStays
  <2>. QED
    BY <2>1, <2>2, Zenon DEF SettingsInv
<1>. QED
  BY <1>7, <1>8

\* The types of the settings.
LEMMA SettingsTypes == ASSUME SettingsInv PROVE Settings!TypeOK
<1>1. /\ v1 \in SettingsValues /\ v2 \in TwoPlans /\ v5 \in TwoPlans /\ v7 \in 0..MaxWrites
  BY Zenon DEF SettingsInv
<1>2. /\ v1.team \subseteq SettingsMembers /\ v1.other \in [Keys -> Values \cup {"unset"}]
      /\ v1.limits \in Settings!Overrides
  BY <1>1, SMT DEF SettingsValues
<1>. QED
  BY <1>1, <1>2, Zenon DEF Settings!TypeOK, Settings!Members, SettingsMembers

SettingsOnly == subject = "settings" => SettingsInv

\* It holds in every reachable state of the settings.
LEMMA SettingsAlways == Spec => []SettingsOnly
<1>1. Init => SettingsOnly
  <2>1. Init /\ subject = "settings" => Settings!Init
    BY Zenon DEF Init
  <2>. QED
    BY <2>1, SettingsInit DEF SettingsOnly
<1>2. SettingsOnly /\ [Next]_vars => SettingsOnly'
  BY SubjectStays, StepOfSubject, SettingsSteps DEF SettingsOnly
<1>. QED
  BY <1>1, <1>2, PTL DEF Spec

\* The settings column keeps what each of its writers asked for last, and its limits are
\* ones the plan allows, unless requests overlapped (agency.py, notifications.py,
\* credits.py).
THEOREM ColumnKeepsEveryWriter == Spec => []SettingsAreKept
<1>1. SettingsOnly => SettingsAreKept
  <2>. SUFFICES ASSUME SettingsInv PROVE Settings!SettingsAreKept
    BY DEF SettingsAreKept, SettingsOnly
  <2>. QED
    BY Zenon DEF Settings!SettingsAreKept, SettingsInv, EmailsOf
<1>. QED
  BY <1>1, SettingsAlways, PTL

-----------------------------------------------------------------------------
(* Upload migration. *)

\* The component's Cardinality and IsFiniteSet are the library's.
LEMMA UploadFinite == \A S : /\ Upload!Cardinality(S) = Cardinality(S)
                             /\ Upload!IsFiniteSet(S) = IsFiniteSet(S)
  BY DEF Upload!Cardinality, Cardinality, Upload!IsFiniteSet, IsFiniteSet

\* A run's candidates, and runs with any number of matches and any page.
UploadCandidates == [ref : Upload!Refs, file : Files]
UploadRuns == [pc : {"idle", "migrating", "copied"}, source : Upload!Sources \cup {"none"},
               offset : Nat, matching : Nat, page : SUBSET UploadCandidates,
               taken : SUBSET Upload!Refs, migrated : SUBSET UploadCandidates]

\* The types.
UploadTyped ==
    /\ v1 \in [Upload!Refs -> Upload!Urls]
    /\ v2 \subseteq Files /\ v3 \subseteq Files /\ v6 \subseteq Files
    /\ v4 \in UploadRuns
    /\ v5 \in [Upload!Sources -> Nat]
    /\ v10 \subseteq Upload!Sources /\ v11 \subseteq Upload!Sources

\* The file just copied is in the bucket, unless it was deleted since.
UploadCopied ==
    v4.pc = "copied" => v4.page # {} /\ Upload!Candidate.file \in v3 \cup v7

\* A file of the list is named by posts set since the list was made, if by any.
UploadListed ==
    \A r \in Upload!Refs : Upload!IsLocal(r) /\ v1[r].file \in v6 => r \in v8

\* A batch from the start that announces no next one has taken every local URL.
UploadTaken ==
    v4.pc # "idle" =>
        /\ v4.source \in Upload!Sources
        /\ v4.source \notin v11 => v4.offset = 0
        /\ v4.offset = 0 /\ v4.matching <= Cardinality(v4.taken) =>
               \A r \in Upload!RefsOf(v4.source) \ v9 : Upload!IsLocal(r) => r \in v4.taken

\* The inductive invariant.
UploadInv ==
    /\ UploadTyped
    /\ UploadCopied
    /\ UploadListed
    /\ UploadTaken
    /\ Upload!ReferencesStayReachable
    /\ Upload!LastBatchIsLast

\* What is assumed of the constants.
LEMMA UploadConstants ==
    /\ Upload!Refs \subseteq Nat /\ IsFiniteSet(Upload!Refs) /\ BatchLimit \in Nat \ {0}
    /\ \A s \in Upload!Sources : Upload!RefsOf(s) \subseteq Upload!Refs
<1>1. Upload!Refs \subseteq Nat /\ IsFiniteSet(Upload!Refs) /\ BatchLimit \in Nat \ {0}
  BY MirrorsAssumption, UploadFinite DEF MirrorsAssumption, Upload!UploadMigrationAssumption
<1>2. \A s \in Upload!Sources : Upload!RefsOf(s) \subseteq Upload!Refs
  BY SMT DEF Upload!Sources, Upload!RefsOf, Upload!Refs
<1>. QED
  BY <1>1, <1>2

\* A page that is not empty has a first candidate.
LEMMA CandidateOfPage ==
    ASSUME v4 \in UploadRuns, v4.page # {}
    PROVE  Upload!Candidate \in v4.page /\ Upload!Candidate \in UploadCandidates
<1> DEFINE T == {c.ref : c \in v4.page}
<1>1. v4.page \subseteq UploadCandidates
  BY SMT DEF UploadRuns
<1>2. \A c \in v4.page : c.ref \in Nat
  <2>1. \A c \in v4.page : c.ref \in Upload!Refs
    BY <1>1, SMT DEF UploadCandidates
  <2>. QED
    BY <2>1, UploadConstants, Zenon
<1>3. T \in SUBSET Nat /\ T # {}
  BY <1>2, Zenon
<1>4. \E n \in T : \A m \in T : n <= m
  <2>. HIDE DEF T
  <2>. QED
    BY <1>3, LeastOf
<1>5. \E c \in v4.page : \A d \in v4.page : c.ref <= d.ref
  BY <1>4
<1>6. Upload!Candidate \in v4.page
  BY <1>5, Zenon DEF Upload!Candidate
<1>. QED
  BY <1>1, <1>6

\* The URLs.
LEMMA UploadUrls ==
    /\ Upload!NoUrl \in Upload!Urls /\ Upload!NoUrl.at = "none"
    /\ \A f \in Files : /\ Upload!Local(f) \in Upload!Urls /\ Upload!Local(f).at = "local"
                        /\ Upload!Local(f).file = f
                        /\ Upload!Cloud(f) \in Upload!Urls /\ Upload!Cloud(f).at = "cloud"
                        /\ Upload!Cloud(f).file = f
    /\ \A u \in Upload!Urls : u # Upload!NoUrl => u.file \in Files
    /\ \A u \in Upload!Urls : u.at = "none" => u = Upload!NoUrl
    /\ \A u \in Upload!Urls : u.at = "local" => u = Upload!Local(u.file)
<1>1. /\ Upload!NoUrl.at = "none"
      /\ \A f : /\ Upload!Local(f).at = "local" /\ Upload!Local(f).file = f
                /\ Upload!Cloud(f).at = "cloud" /\ Upload!Cloud(f).file = f
  BY SMT DEF Upload!NoUrl, Upload!Local, Upload!Cloud
<1>. QED
  BY <1>1, SMT DEF Upload!Urls

\* It holds initially.
LEMMA UploadInit == ASSUME Upload!Init PROVE UploadInv
<1>1. /\ v1 \in [Upload!Refs -> {Upload!Local(f) : f \in Files}]
      /\ v2 \subseteq Files /\ v3 = {} /\ v4 = Upload!Idle
      /\ v5 = [s \in Upload!Sources |-> 0] /\ v6 = {} /\ v7 = Files \ v2
      /\ v10 = {} /\ v11 = {}
  BY Zenon DEF Upload!Init
<1>2. Upload!Idle \in UploadRuns /\ Upload!Idle.pc = "idle"
  BY SMT DEF Upload!Idle, UploadRuns
<1>3. UploadTyped
  <2>1. {Upload!Local(f) : f \in Files} \subseteq Upload!Urls
    BY UploadUrls
  <2>2. v1 \in [Upload!Refs -> Upload!Urls]
    BY <1>1, <2>1, SMT
  <2>. QED
    BY <1>1, <1>2, <2>2, SMT DEF UploadTyped
<1>4. UploadCopied /\ UploadTaken
  BY <1>1, <1>2, SMT DEF UploadCopied, UploadTaken
<1>5. UploadListed
  BY <1>1 DEF UploadListed
<1>6. Upload!ReferencesStayReachable
  <2>1. \A r \in Upload!Refs : v1[r].at = "local" /\ v1[r].file \in Files
    BY <1>1, UploadUrls, SMT
  <2>. QED
    BY <1>1, <2>1, SMT DEF Upload!ReferencesStayReachable
<1>7. Upload!LastBatchIsLast
  BY <1>1 DEF Upload!LastBatchIsLast
<1>. QED
  BY <1>3, <1>4, <1>5, <1>6, <1>7 DEF UploadInv

\* A run at rest.
LEMMA UploadIdle ==
    ASSUME UploadInv
    PROVE  /\ Upload!Idle \in UploadRuns /\ Upload!Idle.pc = "idle"
           /\ v4 \in UploadRuns
<1>1. Upload!Idle \in UploadRuns /\ Upload!Idle.pc = "idle"
  BY SMT DEF Upload!Idle, UploadRuns
<1>. QED
  BY <1>1 DEF UploadInv, UploadTyped

\* A run lists what is local and takes its page of it.
LEMMA UploadStart ==
    ASSUME UploadInv, NEW s \in Upload!Sources, NEW offset \in Nat,
           Upload!StartRun(s, offset)
    PROVE  UploadInv'
<1> DEFINE all == Upload!Scan(Upload!RefsOf(s))
           page == {r \in all : Upload!Place(r, all) \in offset .. offset + BatchLimit - 1}
           pairs == {[ref |-> r, file |-> v1[r].file] : r \in page}
           n == Upload!Cardinality(all)
           new == [pc |-> "migrating", source |-> s, offset |-> offset, matching |-> n,
                   taken |-> page, migrated |-> {}, page |-> pairs]
<1>1. /\ v4' = new /\ v1' = v1 /\ v2' = v2 /\ v3' = v3 /\ v5' = v5 /\ v6' = v6
      /\ v7' = v7 /\ v8' = v8 /\ v9' = v9 /\ v10' = v10 \ {s}
      /\ v11' = IF offset > 0 THEN v11 \cup {s} ELSE v11
  BY Zenon DEF Upload!StartRun
<1>2. all = {r \in Upload!RefsOf(s) : Upload!IsLocal(r)} /\ page \subseteq all
  BY DEF Upload!Scan
<1>3. all \subseteq Upload!Refs
  BY <1>2, UploadConstants
<1>4. IsFiniteSet(all) /\ n = Cardinality(all) /\ n \in Nat
  BY <1>3, UploadConstants, UploadFinite, FS_Subset, FS_CardinalityType
<1>5. pairs \subseteq UploadCandidates
  <2>1. \A r \in page : r \in Upload!Refs /\ v1[r].at = "local"
    BY <1>2, <1>3 DEF Upload!IsLocal
  <2>2. \A r \in page : v1[r] \in Upload!Urls
    BY <2>1, SMT DEF UploadInv, UploadTyped
  <2>3. \A r \in page : v1[r].file \in Files
    BY <2>1, <2>2, UploadUrls, Zenon
  <2>. HIDE DEF page
  <2>. QED
    BY <2>1, <2>3, SMT DEF UploadCandidates
<1>6. new \in UploadRuns
  <2>1. page \subseteq Upload!Refs
    BY <1>2, <1>3
  <2>. HIDE DEF page, pairs, n
  <2>. QED
    BY <1>4, <1>5, <2>1, SMT DEF UploadRuns
<1>7. n <= Cardinality(page) => page = all
  <2>1. Cardinality(page) <= Cardinality(all)
        /\ (Cardinality(all) = Cardinality(page) => all = page)
    BY <1>2, <1>4, FS_Subset
  <2>2. Cardinality(page) \in Nat
    BY <1>2, <1>4, FS_Subset, FS_CardinalityType
  <2>. HIDE DEF page, n, all
  <2>. QED
    BY <1>4, <2>1, <2>2, SMT
<1>8. UploadTyped'
  <2>. HIDE DEF new
  <2>. QED
    BY <1>1, <1>6, SMT DEF UploadInv, UploadTyped
<1>9. /\ new.pc = "migrating" /\ new.source = s /\ new.offset = offset
      /\ new.matching = n /\ new.taken = page
  BY Zenon
<1>. HIDE DEF new
<1>10. UploadCopied'
  BY <1>1, <1>9, SMT DEF UploadCopied
<1>11. UploadListed' /\ Upload!ReferencesStayReachable'
  BY <1>1, Zenon DEF UploadInv, UploadListed, Upload!ReferencesStayReachable, Upload!IsLocal
<1>12. UploadTaken'
  <2>1. s \notin v11' => offset = 0
    BY <1>1, SMT
  <2>2. n <= Cardinality(page) =>
            \A r \in Upload!RefsOf(s) \ v9 : Upload!IsLocal(r) => r \in page
    BY <1>2, <1>7
  <2>3. \A r : Upload!IsLocal(r)' = Upload!IsLocal(r)
    BY <1>1 DEF Upload!IsLocal
  <2>. HIDE DEF page, n
  <2>. QED
    BY <1>1, <1>9, <2>1, <2>2, <2>3, Zenon DEF UploadTaken
<1>13. Upload!LastBatchIsLast'
  <2>1. v10' \ v11' \subseteq v10 \ v11
    BY <1>1, SMT
  <2>2. \A r : Upload!IsLocal(r)' = Upload!IsLocal(r)
    BY <1>1 DEF Upload!IsLocal
  <2>. QED
    BY <1>1, <2>1, <2>2 DEF UploadInv, Upload!LastBatchIsLast
<1>. QED
  BY <1>8, <1>10, <1>11, <1>12, <1>13 DEF UploadInv

\* A step of the run that only passes over candidates, or ends it.
LEMMA UploadPass ==
    ASSUME UploadInv, NEW page \in SUBSET UploadCandidates,
           v4' = Upload!Idle \/ (v4.pc = "migrating" /\ v4' = [v4 EXCEPT !.page = page]),
           v1' = v1, v2' = v2, v3' = v3, v5' = v5, v6' = v6, v7' = v7, v8' = v8, v9' = v9,
           v10' = v10, v11' = v11
    PROVE  UploadInv'
<1>1. v4 \in UploadRuns
  BY DEF UploadInv, UploadTyped
<1>2. /\ v4' \in UploadRuns /\ v4'.pc # "copied"
      /\ v4'.pc # "idle" => /\ v4.pc # "idle" /\ v4'.source = v4.source
                            /\ v4'.offset = v4.offset /\ v4'.matching = v4.matching
                            /\ v4'.taken = v4.taken
  <2>1. CASE v4' = Upload!Idle
    BY <2>1, UploadIdle, SMT
  <2>2. CASE v4.pc = "migrating" /\ v4' = [v4 EXCEPT !.page = page]
    <3>1. v4' \in UploadRuns
      BY <1>1, <2>2, SMT DEF UploadRuns
    <3>2. /\ v4'.pc = v4.pc /\ v4'.source = v4.source /\ v4'.offset = v4.offset
          /\ v4'.matching = v4.matching /\ v4'.taken = v4.taken
      BY <1>1, <2>2, SMT DEF UploadRuns
    <3>. QED
      BY <2>2, <3>1, <3>2, Zenon
  <2>. QED
    BY <2>1, <2>2
<1>3. \A r : Upload!IsLocal(r)' = Upload!IsLocal(r)
  BY DEF Upload!IsLocal
<1>4. UploadTyped'
  BY <1>2, SMT DEF UploadInv, UploadTyped
<1>5. UploadCopied'
  BY <1>2 DEF UploadCopied
<1>6. UploadListed' /\ Upload!ReferencesStayReachable' /\ Upload!LastBatchIsLast'
  BY <1>3, Zenon
     DEF UploadInv, UploadListed, Upload!ReferencesStayReachable, Upload!LastBatchIsLast
<1>7. UploadTaken'
  BY <1>2, <1>3, Zenon DEF UploadInv, UploadTaken
<1>. QED
  BY <1>4, <1>5, <1>6, <1>7 DEF UploadInv

\* A file is copied before its reference changes.
LEMMA UploadCopy ==
    ASSUME UploadInv, Upload!Copy
    PROVE  UploadInv'
<1>1. /\ v4.pc = "migrating" /\ v4.page # {}
      /\ Upload!Candidate.file \in v2
      /\ v3' = v3 \cup {Upload!Candidate.file}
      /\ v4' = [v4 EXCEPT !.pc = "copied"]
      /\ v1' = v1 /\ v2' = v2 /\ v5' = v5 /\ v6' = v6 /\ v7' = v7 /\ v8' = v8 /\ v9' = v9
      /\ v10' = v10 /\ v11' = v11
  BY Zenon DEF Upload!Copy
<1>2. v4 \in UploadRuns /\ v2 \subseteq Files
  BY DEF UploadInv, UploadTyped
<1>3. /\ v4' \in UploadRuns /\ v4.pc # "idle" /\ v4'.page = v4.page /\ v4'.source = v4.source
      /\ v4'.offset = v4.offset /\ v4'.matching = v4.matching /\ v4'.taken = v4.taken
  BY <1>1, <1>2, SMT DEF UploadRuns
<1>4. Upload!Candidate' = Upload!Candidate
  BY <1>3 DEF Upload!Candidate
<1>5. \A r : Upload!IsLocal(r)' = Upload!IsLocal(r)
  BY <1>1 DEF Upload!IsLocal
<1>6. UploadTyped'
  BY <1>1, <1>2, <1>3, SMT DEF UploadInv, UploadTyped
<1>7. UploadCopied'
  BY <1>1, <1>3, <1>4 DEF UploadCopied
<1>8. UploadListed' /\ Upload!ReferencesStayReachable' /\ Upload!LastBatchIsLast'
  BY <1>1, <1>5, Zenon DEF UploadInv, UploadListed, Upload!ReferencesStayReachable,
                           Upload!LastBatchIsLast
<1>9. UploadTaken'
  <2>1. /\ v4.source \in Upload!Sources
        /\ v4.source \notin v11 => v4.offset = 0
        /\ v4.offset = 0 /\ v4.matching <= Cardinality(v4.taken) =>
               \A r \in Upload!RefsOf(v4.source) \ v9 : Upload!IsLocal(r) => r \in v4.taken
    BY <1>3, Zenon DEF UploadInv, UploadTaken
  <2>. QED
    BY <1>1, <1>3, <1>5, <2>1 DEF UploadTaken
<1>. QED
  BY <1>6, <1>7, <1>8, <1>9 DEF UploadInv

LEMMA UploadRunWith ==
    ASSUME NEW r \in UploadRuns, NEW pc \in {"idle", "migrating", "copied"},
           NEW page \in SUBSET UploadCandidates, NEW migrated \in SUBSET UploadCandidates
    PROVE  /\ [r EXCEPT !.pc = pc, !.page = page] \in UploadRuns
           /\ [r EXCEPT !.pc = pc, !.page = page, !.migrated = migrated] \in UploadRuns
<1>1. [r EXCEPT !.pc = pc] \in UploadRuns
  BY SMT DEF UploadRuns
<1>2. \A q \in UploadRuns : [q EXCEPT !.page = page] \in UploadRuns
  BY SMT DEF UploadRuns
<1>3. \A q \in UploadRuns : [q EXCEPT !.migrated = migrated] \in UploadRuns
  BY SMT DEF UploadRuns
<1>4. [r EXCEPT !.pc = pc, !.page = page] = [[r EXCEPT !.pc = pc] EXCEPT !.page = page]
  OBVIOUS
<1>5. [r EXCEPT !.pc = pc, !.page = page, !.migrated = migrated] =
          [[[r EXCEPT !.pc = pc] EXCEPT !.page = page] EXCEPT !.migrated = migrated]
  OBVIOUS
<1>. QED
  BY <1>1, <1>2, <1>3, <1>4, <1>5, Zenon

\* A file that is missing or cannot be copied is passed over.
LEMMA UploadMissing ==
    ASSUME UploadInv, Upload!Missing \/ Upload!CopyFails
    PROVE  UploadInv'
<1>1. /\ v4.pc = "migrating"
      /\ v4' = [v4 EXCEPT !.page = @ \ {Upload!Candidate}]
      /\ v1' = v1 /\ v2' = v2 /\ v3' = v3 /\ v5' = v5 /\ v6' = v6 /\ v7' = v7 /\ v8' = v8
      /\ v9' = v9 /\ v10' = v10 /\ v11' = v11
  BY Zenon DEF Upload!Missing, Upload!CopyFails
<1> DEFINE page == v4.page \ {Upload!Candidate}
<1>2. v4 \in UploadRuns
  BY DEF UploadInv, UploadTyped
<1>3. page \in SUBSET UploadCandidates
  BY <1>2, SMT DEF UploadRuns
<1>4. v4' = [v4 EXCEPT !.page = page]
  BY <1>1
<1>. HIDE DEF page
<1>. QED
  BY <1>1, <1>3, <1>4, UploadPass

\* A run that dies has stored its references one by one.
LEMMA UploadCrash ==
    ASSUME UploadInv, Upload!Crash
    PROVE  UploadInv'
<1>1. /\ v4' = Upload!Idle
      /\ v1' = v1 /\ v2' = v2 /\ v3' = v3 /\ v5' = v5 /\ v6' = v6 /\ v7' = v7 /\ v8' = v8
      /\ v9' = v9 /\ v10' = v10 /\ v11' = v11
  BY Zenon DEF Upload!Crash
<1>. QED
  BY <1>1, UploadPass

\* What is left of the properties when no URL becomes local and the run goes on.
LEMMA UploadStore ==
    ASSUME UploadInv, Upload!StoreReference
    PROVE  UploadInv'
<1> DEFINE c == Upload!Candidate
           r == c.ref
<1>1. /\ v4.pc = "copied"
      /\ v2' = v2 /\ v3' = v3 /\ v5' = v5 /\ v6' = v6 /\ v7' = v7 /\ v8' = v8
      /\ v9' = v9 /\ v10' = v10 /\ v11' = v11
      /\ \/ /\ v4' = [v4 EXCEPT !.pc = "migrating", !.page = @ \ {c}]
            /\ v1' = v1
         \/ /\ v4' = [v4 EXCEPT !.pc = "migrating", !.page = @ \ {c},
                                !.migrated = @ \cup {c}]
            /\ v1' = [v1 EXCEPT ![r] = Upload!Cloud(c.file)]
  BY Zenon DEF Upload!StoreReference
<1>2. v4 \in UploadRuns /\ v4.page # {} /\ c.file \in v3 \cup v7
      /\ v1 \in [Upload!Refs -> Upload!Urls]
  BY <1>1 DEF UploadInv, UploadTyped, UploadCopied
<1>3. c \in UploadCandidates
  BY <1>2, CandidateOfPage
<1>4. r \in Upload!Refs /\ c.file \in Files
  BY <1>3, SMT DEF UploadCandidates
<1>. HIDE DEF c
<1>5. /\ v4' \in UploadRuns /\ v4'.pc = "migrating" /\ v4'.source = v4.source
      /\ v4'.offset = v4.offset /\ v4'.matching = v4.matching /\ v4'.taken = v4.taken
  <2> DEFINE page == v4.page \ {c}
             migrated == v4.migrated \cup {c}
  <2>1. page \in SUBSET UploadCandidates /\ migrated \in SUBSET UploadCandidates
    BY <1>2, <1>3, SMT DEF UploadRuns
  <2>2. \/ v4' = [v4 EXCEPT !.pc = "migrating", !.page = page]
        \/ v4' = [v4 EXCEPT !.pc = "migrating", !.page = page, !.migrated = migrated]
    BY <1>1
  <2>. HIDE DEF page, migrated
  <2>3. v4' \in UploadRuns
    <3>1. "migrating" \in {"idle", "migrating", "copied"}
      OBVIOUS
    <3>2. CASE v4' = [v4 EXCEPT !.pc = "migrating", !.page = page]
      BY <1>2, <2>1, <3>1, <3>2, UploadRunWith, Zenon
    <3>3. CASE v4' = [v4 EXCEPT !.pc = "migrating", !.page = page, !.migrated = migrated]
      BY <1>2, <2>1, <3>1, <3>3, UploadRunWith, Zenon
    <3>. QED
      BY <2>2, <3>2, <3>3
  <2>4. v4'.pc = "migrating" /\ v4'.source = v4.source /\ v4'.offset = v4.offset
        /\ v4'.matching = v4.matching /\ v4'.taken = v4.taken
    <3>1. CASE v4' = [v4 EXCEPT !.pc = "migrating", !.page = page]
      BY <1>2, <3>1, SMT DEF UploadRuns
    <3>2. CASE v4' = [v4 EXCEPT !.pc = "migrating", !.page = page, !.migrated = migrated]
      BY <1>2, <3>2, SMT DEF UploadRuns
    <3>. QED
      BY <2>2, <3>1, <3>2
  <2>. QED
    BY <2>3, <2>4
<1>6. /\ v1' \in [Upload!Refs -> Upload!Urls]
      /\ \A q \in Upload!Refs :
             \/ v1'[q] = v1[q]
             \/ v1'[q].at = "cloud" /\ v1'[q].file \in v3 \cup v7
  <2>1. CASE v1' = v1
    BY <1>2, <2>1
  <2>2. CASE v1' = [v1 EXCEPT ![r] = Upload!Cloud(c.file)]
    <3>1. /\ Upload!Cloud(c.file) \in Upload!Urls /\ Upload!Cloud(c.file).at = "cloud"
          /\ Upload!Cloud(c.file).file = c.file
      BY <1>4, UploadUrls
    <3>. QED
      BY <1>2, <1>4, <2>2, <3>1, SMT
  <2>. QED
    BY <1>1, <2>1, <2>2
<1>7. \A q \in Upload!Refs : v1'[q].at = "local" => v1'[q] = v1[q]
  BY <1>6, SMT
<1>8. UploadTyped'
  BY <1>1, <1>5, <1>6, SMT DEF UploadInv, UploadTyped
<1>9. UploadCopied'
  BY <1>5, SMT DEF UploadCopied
<1>10. UploadListed'
  BY <1>1, <1>7, Zenon DEF UploadInv, UploadListed, Upload!IsLocal
<1>11. UploadTaken'
  <2>1. /\ v4.source \in Upload!Sources
        /\ v4.source \notin v11 => v4.offset = 0
        /\ v4.offset = 0 /\ v4.matching <= Cardinality(v4.taken) =>
               \A q \in Upload!RefsOf(v4.source) \ v9 : Upload!IsLocal(q) => q \in v4.taken
    BY <1>1, Zenon DEF UploadInv, UploadTaken
  <2>2. \A q \in Upload!RefsOf(v4.source) : Upload!IsLocal(q)' => Upload!IsLocal(q)
    BY <1>7, <2>1, UploadConstants, Zenon DEF Upload!IsLocal
  <2>. QED
    BY <1>1, <1>5, <2>1, <2>2 DEF UploadTaken
<1>12. Upload!ReferencesStayReachable'
  BY <1>1, <1>6, Zenon DEF UploadInv, Upload!ReferencesStayReachable, Upload!IsLocal
<1>13. Upload!LastBatchIsLast'
  <2>1. \A s \in v10 : \A q \in Upload!RefsOf(s) : Upload!IsLocal(q)' => Upload!IsLocal(q)
    BY <1>7, UploadConstants, Zenon DEF UploadInv, UploadTyped, Upload!IsLocal
  <2>. QED
    BY <1>1, <2>1, Zenon DEF UploadInv, Upload!LastBatchIsLast
<1>. QED
  BY <1>8, <1>9, <1>10, <1>11, <1>12, <1>13 DEF UploadInv

\* A run ends, and lists the files it leaves.
LEMMA UploadFinish ==
    ASSUME UploadInv, Upload!Finish
    PROVE  UploadInv'
<1> DEFINE consumed == v4.offset + Upload!Cardinality(v4.taken)
           more == consumed < v4.matching
<1>1. /\ v4.pc = "migrating"
      /\ v5' = [v5 EXCEPT ![v4.source] = IF more THEN consumed ELSE 0]
      /\ v6' = Upload!Cleanup /\ v8' = {} /\ v4' = Upload!Idle
      /\ v10' = IF more \/ {c.ref : c \in v4.migrated} # v4.taken
                       \/ \E r \in v4.taken : Upload!IsLocal(r)
                THEN v10 ELSE v10 \cup {v4.source}
      /\ v1' = v1 /\ v2' = v2 /\ v3' = v3 /\ v7' = v7 /\ v9' = v9 /\ v11' = v11
  BY Zenon DEF Upload!Finish
<1>2. v4 \in UploadRuns /\ v4.source \in Upload!Sources
  BY <1>1 DEF UploadInv, UploadTyped, UploadTaken
<1>3. v4.taken \subseteq Upload!Refs /\ v4.migrated \subseteq UploadCandidates
      /\ v4.offset \in Nat /\ v4.matching \in Nat
  BY <1>2, SMT DEF UploadRuns
<1>4. Upload!Cardinality(v4.taken) = Cardinality(v4.taken) /\ Cardinality(v4.taken) \in Nat
  BY <1>3, UploadConstants, UploadFinite, FS_Subset, FS_CardinalityType
<1>5. consumed \in Nat /\ (IF more THEN consumed ELSE 0) \in Nat
  BY <1>3, <1>4, SMT
<1>6. Upload!Cleanup \subseteq Files
  <2>1. \A c \in v4.migrated : c.file \in Files
    BY <1>3, SMT DEF UploadCandidates
  <2>. QED
    BY <2>1, Zenon DEF Upload!Cleanup
<1>7. UploadTyped'
  <2> DEFINE x == IF more THEN consumed ELSE 0
  <2>1. v5' = [v5 EXCEPT ![v4.source] = x] /\ x \in Nat
    BY <1>1, <1>5
  <2>. HIDE DEF x
  <2>2. v5' \in [Upload!Sources -> Nat]
    BY <1>2, <2>1, SMT DEF UploadInv, UploadTyped
  <2>3. v10' \subseteq Upload!Sources
    BY <1>1, <1>2, Zenon DEF UploadInv, UploadTyped
  <2>4. v4' \in UploadRuns
    BY <1>1, UploadIdle
  <2>. QED
    BY <1>1, <1>6, <2>2, <2>3, <2>4 DEF UploadInv, UploadTyped
<1>8. UploadCopied' /\ UploadTaken'
  <2>1. v4'.pc = "idle"
    BY <1>1, UploadIdle
  <2>. QED
    BY <2>1, SMT DEF UploadCopied, UploadTaken
<1>9. \A r : Upload!IsLocal(r)' = Upload!IsLocal(r)
  BY <1>1 DEF Upload!IsLocal
<1>10. UploadListed'
  <2>1. \A r \in Upload!Refs : Upload!IsLocal(r) => v1[r].file \notin Upload!Cleanup
    BY Zenon DEF Upload!Cleanup, Upload!Scan
  <2>. QED
    BY <1>1, <1>9, <2>1, Zenon DEF UploadListed
<1>11. Upload!ReferencesStayReachable'
  BY <1>1, <1>9, Zenon DEF UploadInv, Upload!ReferencesStayReachable
<1>12. Upload!LastBatchIsLast'
  <2>. SUFFICES ASSUME NEW s \in v10' \ v11', NEW r \in Upload!RefsOf(s) \ v9'
                PROVE  ~Upload!IsLocal(r)'
    BY DEF Upload!LastBatchIsLast
  <2>1. CASE s \in v10
    BY <1>1, <1>9, <2>1, Zenon DEF UploadInv, Upload!LastBatchIsLast
  <2>2. CASE s \notin v10
    <3>1. s = v4.source /\ ~more /\ \A q \in v4.taken : ~Upload!IsLocal(q)
      BY <1>1, <2>2, Zenon
    <3>2. v4.offset = 0
      BY <1>1, <3>1, Zenon DEF UploadInv, UploadTaken
    <3>3. v4.matching <= Cardinality(v4.taken)
      BY <1>3, <1>4, <3>1, <3>2, SMT
    <3>4. \A q \in Upload!RefsOf(s) \ v9 : Upload!IsLocal(q) => q \in v4.taken
      BY <1>1, <3>1, <3>2, <3>3, Zenon DEF UploadInv, UploadTaken
    <3>. QED
      BY <1>1, <1>9, <3>1, <3>4, Zenon
  <2>. QED
    BY <2>1, <2>2
<1>. QED
  BY <1>7, <1>8, <1>10, <1>11, <1>12 DEF UploadInv

\* The list's files are deleted.
LEMMA UploadDelete ==
    ASSUME UploadInv, Upload!DeleteListed
    PROVE  UploadInv'
<1>1. /\ v4 = Upload!Idle
      /\ v2' = v2 \ v6
      /\ v7' = v7 \cup {f \in v6 : \E p \in v8 : v1[p] = Upload!Local(f)}
      /\ v1' = v1 /\ v3' = v3 /\ v4' = v4 /\ v5' = v5 /\ v6' = v6 /\ v8' = v8 /\ v9' = v9
      /\ v10' = v10 /\ v11' = v11
  BY Zenon DEF Upload!DeleteListed
<1>2. \A r : Upload!IsLocal(r)' = Upload!IsLocal(r)
  BY <1>1 DEF Upload!IsLocal
<1>3. UploadTyped'
  BY <1>1, SMT DEF UploadInv, UploadTyped
<1>4. UploadCopied' /\ UploadTaken'
  <2>1. v4'.pc = "idle"
    BY <1>1, UploadIdle
  <2>. QED
    BY <2>1, SMT DEF UploadCopied, UploadTaken
<1>5. UploadListed' /\ Upload!LastBatchIsLast'
  BY <1>1, <1>2, Zenon DEF UploadInv, UploadListed, Upload!LastBatchIsLast
<1>6. Upload!ReferencesStayReachable'
  <2>. SUFFICES ASSUME NEW r \in Upload!Refs
                PROVE  /\ Upload!IsLocal(r)' => v1'[r].file \in v2' \cup v7'
                       /\ v1'[r].at = "cloud" => v1'[r].file \in v3' \cup v7'
    BY Zenon DEF Upload!ReferencesStayReachable
  <2>1. /\ Upload!IsLocal(r) => v1[r].file \in v2 \cup v7
        /\ v1[r].at = "cloud" => v1[r].file \in v3 \cup v7
        /\ Upload!IsLocal(r) /\ v1[r].file \in v6 => r \in v8
    BY Zenon DEF UploadInv, Upload!ReferencesStayReachable, UploadListed
  <2>2. ASSUME Upload!IsLocal(r), v1[r].file \in v6 PROVE v1[r].file \in v7'
    <3>1. r \in v8
      BY <2>1, <2>2
    <3>2. v1[r] \in Upload!Urls /\ v1[r].at = "local"
      BY <2>2, SMT DEF UploadInv, UploadTyped, Upload!IsLocal
    <3>3. v1[r] = Upload!Local(v1[r].file)
      BY <3>2, UploadUrls, Zenon
    <3>. QED
      BY <1>1, <2>2, <3>1, <3>3, Zenon
  <2>. QED
    BY <1>1, <1>2, <2>1, <2>2, Zenon
<1>. QED
  BY <1>3, <1>4, <1>5, <1>6 DEF UploadInv

\* A post gets a URL while a run is under way or a list waits.
LEMMA UploadSetPost ==
    ASSUME UploadInv, NEW p \in PostUrls, NEW u \in Upload!Urls, Upload!SetPost(p, u)
    PROVE  UploadInv'
<1>1. /\ u = Upload!NoUrl \/ (u.at = "local" /\ u.file \in v2) \/ (u.at = "cloud" /\ u.file \in v3)
      /\ v1' = [v1 EXCEPT ![p] = u]
      /\ v8' = v8 \cup {p} /\ v9' = v9 \cup {p}
      /\ v2' = v2 /\ v3' = v3 /\ v4' = v4 /\ v5' = v5 /\ v6' = v6 /\ v7' = v7
      /\ v10' = v10 /\ v11' = v11
  BY Zenon DEF Upload!SetPost
<1>2. p \in Upload!Refs
  BY DEF Upload!Refs
<1>3. /\ v1' \in [Upload!Refs -> Upload!Urls] /\ v1'[p] = u
      /\ \A r \in Upload!Refs : r # p => v1'[r] = v1[r]
  BY <1>1, <1>2, SMT DEF UploadInv, UploadTyped
<1>4. \A r \in Upload!Refs : r # p => Upload!IsLocal(r)' = Upload!IsLocal(r)
  BY <1>3, Zenon DEF Upload!IsLocal
<1>5. UploadTyped'
  BY <1>1, <1>3, SMT DEF UploadInv, UploadTyped
<1>6. UploadCopied'
  <2>1. Upload!Candidate' = Upload!Candidate
    BY <1>1 DEF Upload!Candidate
  <2>. QED
    BY <1>1, <2>1 DEF UploadInv, UploadCopied
<1>7. UploadListed'
  BY <1>1, <1>3, <1>4, Zenon DEF UploadInv, UploadListed
<1>8. UploadTaken'
  <2>1. v4.pc # "idle" =>
          /\ v4.source \in Upload!Sources
          /\ v4.source \notin v11 => v4.offset = 0
          /\ v4.offset = 0 /\ v4.matching <= Cardinality(v4.taken) =>
                 \A q \in Upload!RefsOf(v4.source) \ v9 : Upload!IsLocal(q) => q \in v4.taken
    BY Zenon DEF UploadInv, UploadTaken
  <2>2. v4.pc # "idle" =>
            \A q \in Upload!RefsOf(v4.source) \ v9' : Upload!IsLocal(q)' => Upload!IsLocal(q)
    BY <1>1, <1>4, <2>1, UploadConstants, Zenon
  <2>3. v9 \subseteq v9'
    BY <1>1
  <2>. QED
    BY <1>1, <2>1, <2>2, <2>3 DEF UploadTaken
<1>9. Upload!ReferencesStayReachable'
  <2>. SUFFICES ASSUME NEW r \in Upload!Refs
                PROVE  /\ Upload!IsLocal(r)' => v1'[r].file \in v2' \cup v7'
                       /\ v1'[r].at = "cloud" => v1'[r].file \in v3' \cup v7'
    BY Zenon DEF Upload!ReferencesStayReachable
  <2>1. CASE r # p
    BY <1>1, <1>3, <1>4, <2>1, Zenon DEF UploadInv, Upload!ReferencesStayReachable
  <2>2. CASE r = p
    BY <1>1, <1>3, <2>2, UploadUrls, SMT DEF Upload!IsLocal
  <2>. QED
    BY <2>1, <2>2
<1>10. Upload!LastBatchIsLast'
  <2>1. \A s \in v10 : \A q \in Upload!RefsOf(s) \ v9' : Upload!IsLocal(q)' => Upload!IsLocal(q)
    BY <1>1, <1>4, UploadConstants, Zenon DEF UploadInv, UploadTyped
  <2>. QED
    BY <1>1, <2>1, Zenon DEF UploadInv, Upload!LastBatchIsLast
<1>. QED
  BY <1>5, <1>6, <1>7, <1>8, <1>9, <1>10 DEF UploadInv

\* A customer deletes an upload and its file.
LEMMA UploadDeleteAsset ==
    ASSUME UploadInv, NEW a \in Assets, Upload!DeleteAsset(a)
    PROVE  UploadInv'
<1> DEFINE f == v1[a].file
<1>1. /\ v1[a] # Upload!NoUrl
      /\ v1' = [v1 EXCEPT ![a] = Upload!NoUrl]
      /\ v3' \subseteq v3 /\ v2' \subseteq v2
      /\ v3 \subseteq v3' \cup {f} /\ v2 \subseteq v2' \cup {f}
      /\ v7' = v7 \cup {f}
      /\ v4' = v4 /\ v5' = v5 /\ v6' = v6 /\ v8' = v8 /\ v9' = v9
      /\ v10' = v10 /\ v11' = v11
  BY Zenon DEF Upload!DeleteAsset
<1>2. a \in Upload!Refs
  BY DEF Upload!Refs
<1>. HIDE DEF f
<1>3. /\ v1' \in [Upload!Refs -> Upload!Urls] /\ v1'[a].at = "none"
      /\ \A r \in Upload!Refs : r # a => v1'[r] = v1[r]
  BY <1>1, <1>2, UploadUrls, SMT DEF UploadInv, UploadTyped
<1>4. \A r \in Upload!Refs : v1'[r].at # "none" => v1'[r] = v1[r]
  BY <1>3, Zenon
<1>5. \A r \in Upload!Refs : Upload!IsLocal(r)' => Upload!IsLocal(r) /\ v1'[r] = v1[r]
  BY <1>4, SMT DEF Upload!IsLocal
<1>6. UploadTyped'
  BY <1>1, <1>3, SMT DEF UploadInv, UploadTyped
<1>7. UploadCopied'
  <2>1. Upload!Candidate' = Upload!Candidate
    BY <1>1 DEF Upload!Candidate
  <2>2. v4.pc = "copied" => v4.page # {} /\ Upload!Candidate.file \in v3 \cup v7
    BY DEF UploadInv, UploadCopied
  <2>. QED
    BY <1>1, <2>1, <2>2 DEF UploadCopied
<1>8. UploadListed'
  <2>1. \A r \in Upload!Refs : Upload!IsLocal(r) /\ v1[r].file \in v6 => r \in v8
    BY DEF UploadInv, UploadListed
  <2>2. \A r \in Upload!Refs : Upload!IsLocal(r)' /\ v1'[r].file \in v6' => r \in v8'
    BY <1>1, <1>5, <2>1, SMT
  <2>. QED
    BY <2>2 DEF UploadListed
<1>9. UploadTaken'
  <2>1. v4.pc # "idle" =>
          /\ v4.source \in Upload!Sources
          /\ v4.source \notin v11 => v4.offset = 0
          /\ v4.offset = 0 /\ v4.matching <= Cardinality(v4.taken) =>
                 \A q \in Upload!RefsOf(v4.source) \ v9 : Upload!IsLocal(q) => q \in v4.taken
    BY Zenon DEF UploadInv, UploadTaken
  <2>2. v4.pc # "idle" =>
            \A q \in Upload!RefsOf(v4.source) \ v9 : Upload!IsLocal(q)' => Upload!IsLocal(q)
    BY <1>5, <2>1, UploadConstants, Zenon
  <2>. QED
    BY <1>1, <2>1, <2>2 DEF UploadTaken
<1>10. Upload!ReferencesStayReachable'
  <2>. SUFFICES ASSUME NEW r \in Upload!Refs
                PROVE  /\ Upload!IsLocal(r)' => v1'[r].file \in v2' \cup v7'
                       /\ v1'[r].at = "cloud" => v1'[r].file \in v3' \cup v7'
    BY Zenon DEF Upload!ReferencesStayReachable
  <2>1. /\ Upload!IsLocal(r) => v1[r].file \in v2 \cup v7
        /\ v1[r].at = "cloud" => v1[r].file \in v3 \cup v7
    BY Zenon DEF UploadInv, Upload!ReferencesStayReachable
  <2>2. v1'[r].at = "cloud" => v1'[r] = v1[r]
    BY <1>4, SMT
  <2>. QED
    BY <1>1, <1>5, <2>1, <2>2, SMT
<1>11. Upload!LastBatchIsLast'
  <2>1. \A s \in v10 : \A q \in Upload!RefsOf(s) : Upload!IsLocal(q)' => Upload!IsLocal(q)
    BY <1>5, UploadConstants, Zenon DEF UploadInv, UploadTyped
  <2>. QED
    BY <1>1, <2>1, Zenon DEF UploadInv, Upload!LastBatchIsLast
<1>. QED
  BY <1>6, <1>7, <1>8, <1>9, <1>10, <1>11 DEF UploadInv

\* It is kept.
LEMMA UploadSteps ==
    ASSUME UploadInv, NextUpload \/ UNCHANGED vars
    PROVE  UploadInv'
<1>1. CASE NextUpload
  <2>1. \/ \E s \in Upload!Sources : Upload!StartRun(s, 0)
        \/ \E s \in Upload!Sources : Upload!StartNext(s)
        \/ Upload!Copy \/ Upload!Missing \/ Upload!CopyFails \/ Upload!StoreReference
        \/ Upload!Finish \/ Upload!Crash \/ Upload!DeleteListed
        \/ \E p \in PostUrls, u \in Upload!Urls : Upload!SetPost(p, u)
        \/ \E a \in Assets : Upload!DeleteAsset(a)
    BY <1>1, Zenon DEF NextUpload
  <2>2. ASSUME NEW s \in Upload!Sources, Upload!StartNext(s) PROVE UploadInv'
    <3>1. Upload!StartRun(s, v5[s])
      BY <2>2 DEF Upload!StartNext
    <3>2. v5[s] \in Nat
      BY SMT DEF UploadInv, UploadTyped
    <3>. QED
      BY <3>1, <3>2, UploadStart
  <2>3. 0 \in Nat
    OBVIOUS
  <2>. QED
    BY <2>1, <2>2, <2>3, UploadStart, UploadCopy, UploadMissing, UploadStore, UploadFinish,
       UploadCrash, UploadDelete, UploadSetPost, UploadDeleteAsset, Zenon
<1>2. CASE UNCHANGED vars
  <2>1. /\ v1' = v1 /\ v2' = v2 /\ v3' = v3 /\ v4' = v4 /\ v5' = v5 /\ v6' = v6 /\ v7' = v7
        /\ v8' = v8 /\ v9' = v9 /\ v10' = v10 /\ v11' = v11
    BY <1>2 DEF vars
  <2>. QED
    BY <2>1 DEF UploadInv, UploadTyped, UploadCopied, UploadListed, UploadTaken,
                Upload!ReferencesStayReachable, Upload!LastBatchIsLast, Upload!Candidate,
                Upload!IsLocal
<1>. QED
  BY <1>1, <1>2

\* The types of the migration.
LEMMA UploadTypes == ASSUME UploadInv PROVE Upload!TypeOK
<1>1. UploadTyped
  BY DEF UploadInv
<1>2. v4.pc \in {"idle", "migrating", "copied"} /\ v4.taken \subseteq Upload!Refs
  <2>1. v4 \in UploadRuns
    BY <1>1 DEF UploadTyped
  <2>. QED
    BY <2>1, SMT DEF UploadRuns
<1>. QED
  BY <1>1, <1>2, Zenon DEF UploadTyped, Upload!TypeOK

UploadOnly == subject = "upload" => UploadInv

\* It holds in every reachable state of the migration.
LEMMA UploadAlways == Spec => []UploadOnly
<1>1. Init => UploadOnly
  <2>1. Init /\ subject = "upload" => Upload!Init
    BY Zenon DEF Init
  <2>. QED
    BY <2>1, UploadInit DEF UploadOnly
<1>2. UploadOnly /\ [Next]_vars => UploadOnly'
  BY SubjectStays, StepOfSubject, UploadSteps DEF UploadOnly
<1>. QED
  BY <1>1, <1>2, PTL DEF Spec

\* A reference points at a file that is there, unless it was deleted, missing or set after
\* the list of files to remove was made; and a batch from the start that announces no
\* next one leaves no local URL behind (upload_migration.py).
THEOREM NoFileIsLost == Spec => []MigrationIsSafe
<1>1. UploadOnly => MigrationIsSafe
  BY DEF UploadOnly, MigrationIsSafe, UploadInv
<1>. QED
  BY <1>1, UploadAlways, PTL

-----------------------------------------------------------------------------
(* Audit scores. *)

\* The lesser and the greater of two numbers.
LEMMA LesserOfTwo ==
    ASSUME NEW a \in Int, NEW b \in Int
    PROVE  Score!Min({a, b}) = IF a <= b THEN a ELSE b
<1>1. \A y \in {a, b} : (IF a <= b THEN a ELSE b) <= y
  OBVIOUS
<1>2. \A x \in {a, b} : (\A y \in {a, b} : x <= y) => x = IF a <= b THEN a ELSE b
  OBVIOUS
<1>. QED
  BY <1>1, <1>2 DEF Score!Min

LEMMA GreaterOfTwo ==
    ASSUME NEW a \in Int, NEW b \in Int
    PROVE  Score!Max({a, b}) = IF a >= b THEN a ELSE b
<1>1. \A y \in {a, b} : (IF a >= b THEN a ELSE b) >= y
  OBVIOUS
<1>2. \A x \in {a, b} : (\A y \in {a, b} : x >= y) => x = IF a >= b THEN a ELSE b
  OBVIOUS
<1>. QED
  BY <1>1, <1>2 DEF Score!Max

\* Multiplication and division keep the order.
LEMMA TimesKeepsOrder ==
    ASSUME NEW a \in Int, NEW b \in Int, NEW n \in Nat, a <= b
    PROVE  n * a <= n * b /\ a * n <= b * n
OBVIOUS

LEMMA DivisionKeepsOrder ==
    ASSUME NEW a \in Int, NEW b \in Int, NEW n \in Nat \ {0}, a <= b
    PROVE  a \div n <= b \div n
OBVIOUS

\* A market, and a business that may be audited.
ScoredMarkets == {m \in [reviews : Nat, rating : 0..50] : m.reviews > 0 => m.rating > 0}
\* The businesses and competitors that are scored.
ScoredBusinesses ==
    [reviews : Nat, rating : 0..50, newest : Score!Recency, photos : Nat, hours : BOOLEAN,
     phone : BOOLEAN, website : BOOLEAN]
\* c is as good as b in every respect.
NoWorse(b, c) ==
    /\ b.reviews <= c.reviews /\ b.rating <= c.rating /\ b.photos <= c.photos
    /\ Score!RecencyPoints(b.newest) <= Score!RecencyPoints(c.newest)
    /\ (b.hours => c.hours) /\ (b.phone => c.phone) /\ (b.website => c.website)

\* A newer review is worth more.
LEMMA RecencyPointsAre ==
    ASSUME NEW newest \in Score!Recency
    PROVE  Score!RecencyPoints(newest) \in 0..20
<1>1. Score!RecencyPoints(newest) \in {20, 15, 10, 5, 0}
  BY Zenon DEF Score!RecencyPoints
<1>. QED
  BY <1>1

\* Each score rises with the business.
LEMMA ReviewScoreImproves ==
    ASSUME NEW b \in ScoredBusinesses, NEW c \in ScoredBusinesses, NoWorse(b, c)
    PROVE  /\ Score!ReviewScore10(b) \in Nat /\ Score!ReviewScore10(c) \in Nat
           /\ Score!ReviewScore10(b) <= Score!ReviewScore10(c)
<1>1. /\ b.reviews \in Nat /\ c.reviews \in Nat /\ b.rating \in 0..50 /\ c.rating \in 0..50
      /\ b.newest \in Score!Recency /\ c.newest \in Score!Recency
      /\ b.reviews <= c.reviews /\ b.rating <= c.rating
      /\ Score!RecencyPoints(b.newest) <= Score!RecencyPoints(c.newest)
  BY DEF ScoredBusinesses, NoWorse
<1>2. /\ Score!RecencyPoints(b.newest) \in 0..20 /\ Score!RecencyPoints(c.newest) \in 0..20
  BY <1>1, RecencyPointsAre
<1>3. /\ Score!Min({b.reviews, 100}) = IF b.reviews <= 100 THEN b.reviews ELSE 100
      /\ Score!Min({c.reviews, 100}) = IF c.reviews <= 100 THEN c.reviews ELSE 100
  BY <1>1, LesserOfTwo
<1> DEFINE p == Score!RecencyPoints(b.newest)
           q == Score!RecencyPoints(c.newest)
           x == Score!Min({b.reviews, 100})
           y == Score!Min({c.reviews, 100})
<1>4. /\ Score!ReviewScore10(b) = IF b.reviews = 0 THEN 0 ELSE 4 * x + 8 * b.rating + 10 * p
      /\ Score!ReviewScore10(c) = IF c.reviews = 0 THEN 0 ELSE 4 * y + 8 * c.rating + 10 * q
  BY Zenon DEF Score!ReviewScore10
<1>5. x \in Nat /\ y \in Nat /\ x <= y /\ p \in Nat /\ q \in Nat /\ p <= q
  BY <1>1, <1>2, <1>3
<1>. HIDE DEF p, q, x, y
<1>. QED
  BY <1>1, <1>4, <1>5

LEMMA CompletenessImproves ==
    ASSUME NEW b \in ScoredBusinesses, NEW c \in ScoredBusinesses, NoWorse(b, c)
    PROVE  /\ Score!CompletenessScore(b) \in Nat /\ Score!CompletenessScore(c) \in Nat
           /\ Score!CompletenessScore(b) <= Score!CompletenessScore(c)
<1>1. b.photos \in Nat /\ c.photos \in Nat /\ b.photos <= c.photos
  BY DEF ScoredBusinesses, NoWorse
<1>2. /\ Score!PhotoPoints(b.photos) \in Nat /\ Score!PhotoPoints(c.photos) \in Nat
      /\ Score!PhotoPoints(b.photos) <= Score!PhotoPoints(c.photos)
  BY <1>1 DEF Score!PhotoPoints
<1>3. \A given : Score!Points(given) \in Nat
  BY DEF Score!Points
<1>4. \A given, kept : (given => kept) => Score!Points(given) <= Score!Points(kept)
  BY DEF Score!Points
<1>5. /\ Score!Points(b.phone) <= Score!Points(c.phone)
      /\ Score!Points(b.website) <= Score!Points(c.website)
      /\ Score!Points(b.hours) <= Score!Points(c.hours)
  BY <1>4, Zenon DEF NoWorse
<1>6. /\ Score!Points(b.phone) \in Nat /\ Score!Points(c.phone) \in Nat
      /\ Score!Points(b.website) \in Nat /\ Score!Points(c.website) \in Nat
      /\ Score!Points(b.hours) \in Nat /\ Score!Points(c.hours) \in Nat
  BY <1>3
<1>. QED
  BY <1>2, <1>5, <1>6 DEF Score!CompletenessScore

\* Tenths are divided by the competitors' average.
LEMMA ScaleIs ==
    ASSUME NEW m \in ScoredMarkets
    PROVE  Score!Scale(m) \in Nat \ {0}
<1>1. m.reviews \in Nat /\ m.rating \in Nat /\ (m.reviews > 0 => m.rating > 0)
  BY DEF ScoredMarkets
<1>2. m.reviews # 0 => m.reviews * m.rating \in Nat \ {0}
  BY <1>1
<1>. QED
  BY <1>1, <1>2 DEF Score!Scale

LEMMA CompetitionImproves ==
    ASSUME NEW b \in ScoredBusinesses, NEW c \in ScoredBusinesses, NoWorse(b, c),
           NEW m \in ScoredMarkets
    PROVE  /\ Score!CompetitionScore(b, m) \in Nat /\ Score!CompetitionScore(c, m) \in Nat
           /\ Score!CompetitionScore(b, m) <= Score!CompetitionScore(c, m)
<1>1. /\ b.reviews \in Nat /\ c.reviews \in Nat /\ b.rating \in Nat /\ c.rating \in Nat
      /\ b.reviews <= c.reviews /\ b.rating <= c.rating /\ m.reviews \in Nat /\ m.rating \in Nat
  BY DEF ScoredBusinesses, NoWorse, ScoredMarkets
<1> DEFINE x == Score!Min({b.reviews, m.reviews})
           y == Score!Min({c.reviews, m.reviews})
           p == Score!Min({b.rating, m.rating})
           q == Score!Min({c.rating, m.rating})
<1>2. /\ x = (IF b.reviews <= m.reviews THEN b.reviews ELSE m.reviews)
      /\ y = (IF c.reviews <= m.reviews THEN c.reviews ELSE m.reviews)
      /\ p = (IF b.rating <= m.rating THEN b.rating ELSE m.rating)
      /\ q = (IF c.rating <= m.rating THEN c.rating ELSE m.rating)
  BY <1>1, LesserOfTwo
<1>3. x \in Nat /\ y \in Nat /\ p \in Nat /\ q \in Nat /\ x <= y /\ p <= q
  BY <1>1, <1>2
<1>4. /\ Score!CompetitionScore(b, m)
             = IF m.reviews = 0 THEN 50 ELSE 50 * x * m.rating + 50 * p * m.reviews
      /\ Score!CompetitionScore(c, m)
             = IF m.reviews = 0 THEN 50 ELSE 50 * y * m.rating + 50 * q * m.reviews
  BY Zenon DEF Score!CompetitionScore
<1>. HIDE DEF x, y, p, q
<1>5. 50 * x \in Nat /\ 50 * y \in Nat /\ 50 * p \in Nat /\ 50 * q \in Nat
      /\ 50 * x <= 50 * y /\ 50 * p <= 50 * q
  BY <1>3
<1>6. 50 * x * m.rating <= 50 * y * m.rating /\ 50 * p * m.reviews <= 50 * q * m.reviews
  BY <1>1, <1>5, TimesKeepsOrder
<1>7. /\ 50 * x * m.rating \in Nat /\ 50 * y * m.rating \in Nat
      /\ 50 * p * m.reviews \in Nat /\ 50 * q * m.reviews \in Nat
  BY <1>1, <1>5
<1>. QED
  BY <1>4, <1>6, <1>7

\* So does the total, and with it everything that follows from it.
LEMMA TotalImproves ==
    ASSUME NEW b \in ScoredBusinesses, NEW c \in ScoredBusinesses, NoWorse(b, c),
           NEW m \in ScoredMarkets
    PROVE  /\ Score!Total(b, m) \in Nat /\ Score!Total(c, m) \in Nat
           /\ Score!Total(b, m) <= Score!Total(c, m)
<1> DEFINE p == 35 * Score!ReviewScore10(b) + 200 * Score!ActivityScore
                    + 200 * Score!CompletenessScore(b)
           q == 35 * Score!ReviewScore10(c) + 200 * Score!ActivityScore
                    + 200 * Score!CompletenessScore(c)
           x == Score!CompetitionScore(b, m)
           y == Score!CompetitionScore(c, m)
           s == Score!Scale(m)
<1>1. p \in Nat /\ q \in Nat /\ p <= q
  <2>1. /\ Score!ReviewScore10(b) \in Nat /\ Score!ReviewScore10(c) \in Nat
        /\ Score!ReviewScore10(b) <= Score!ReviewScore10(c)
    BY ReviewScoreImproves
  <2>2. /\ Score!CompletenessScore(b) \in Nat /\ Score!CompletenessScore(c) \in Nat
        /\ Score!CompletenessScore(b) <= Score!CompletenessScore(c)
    BY CompletenessImproves
  <2>. QED
    BY <2>1, <2>2 DEF Score!ActivityScore
<1>2. x \in Nat /\ y \in Nat /\ x <= y /\ s \in Nat
  BY CompetitionImproves, ScaleIs
<1>3. Score!Total(b, m) = s * p + 250 * x /\ Score!Total(c, m) = s * q + 250 * y
  BY Zenon DEF Score!Total
<1>. HIDE DEF p, q, x, y, s
<1>4. s * p \in Nat /\ s * q \in Nat /\ s * p <= s * q
  BY <1>1, <1>2, TimesKeepsOrder
<1>. QED
  BY <1>2, <1>3, <1>4

LEMMA TenthsImprove ==
    ASSUME NEW b \in ScoredBusinesses, NEW c \in ScoredBusinesses, NoWorse(b, c),
           NEW m \in ScoredMarkets
    PROVE  /\ Score!TotalTenths(b, m) \in Int /\ Score!TotalTenths(c, m) \in Int
           /\ Score!TotalTenths(b, m) <= Score!TotalTenths(c, m)
<1> DEFINE x == Score!Total(b, m) + 50 * Score!Scale(m)
           y == Score!Total(c, m) + 50 * Score!Scale(m)
           n == 100 * Score!Scale(m)
<1>1. x \in Int /\ y \in Int /\ x <= y /\ n \in Nat \ {0}
  <2>1. /\ Score!Total(b, m) \in Nat /\ Score!Total(c, m) \in Nat
        /\ Score!Total(b, m) <= Score!Total(c, m)
    BY TotalImproves
  <2>2. Score!Scale(m) \in Nat \ {0}
    BY ScaleIs
  <2>. QED
    BY <2>1, <2>2
<1>2. Score!TotalTenths(b, m) = x \div n /\ Score!TotalTenths(c, m) = y \div n
  BY Zenon DEF Score!TotalTenths
<1>. HIDE DEF x, y, n
<1>3. x \div n \in Int /\ y \div n \in Int /\ x \div n <= y \div n
  BY <1>1, DivisionKeepsOrder
<1>. QED
  BY <1>2, <1>3

\* The gap to the competitors closes.
LEMMA GapCloses ==
    ASSUME NEW b \in ScoredBusinesses, NEW c \in ScoredBusinesses, NoWorse(b, c),
           NEW m \in ScoredMarkets
    PROVE  /\ Score!ReviewGap(b, m) \in Nat /\ Score!ReviewGap(c, m) \in Nat
           /\ Score!ReviewGap(c, m) <= Score!ReviewGap(b, m)
<1>1. b.reviews \in Nat /\ c.reviews \in Nat /\ b.reviews <= c.reviews /\ m.reviews \in Nat
  BY DEF ScoredBusinesses, NoWorse, ScoredMarkets
<1>2. /\ Score!ReviewGap(b, m) = Score!Max({0, m.reviews - b.reviews})
      /\ Score!ReviewGap(c, m) = Score!Max({0, m.reviews - c.reviews})
  BY Zenon DEF Score!ReviewGap
<1>3. m.reviews - b.reviews \in Int /\ m.reviews - c.reviews \in Int
  BY <1>1
<1>. QED
  BY <1>1, <1>2, <1>3, GreaterOfTwo

\* The loss it is told of falls.
LEMMA LossFalls ==
    ASSUME NEW b \in ScoredBusinesses, NEW c \in ScoredBusinesses, NoWorse(b, c),
           NEW m \in ScoredMarkets
    PROVE  /\ Score!MonthlyLoss(b, m) \in Int /\ Score!MonthlyLoss(c, m) \in Int
           /\ Score!MonthlyLoss(c, m) <= Score!MonthlyLoss(b, m)
           /\ Score!MissedCalls(c, m) <= Score!MissedCalls(b, m)
<1> DEFINE g == 20 * Score!ReviewGap(b, m)
           h == 20 * Score!ReviewGap(c, m)
           x == 5 * (1000 - Score!TotalTenths(b, m)) + Score!Min({g, 1000})
           y == 5 * (1000 - Score!TotalTenths(c, m)) + Score!Min({h, 1000})
<1>1. g \in Nat /\ h \in Nat /\ h <= g
  <2>1. /\ Score!ReviewGap(b, m) \in Nat /\ Score!ReviewGap(c, m) \in Nat
        /\ Score!ReviewGap(c, m) <= Score!ReviewGap(b, m)
    BY GapCloses
  <2>. QED
    BY <2>1
<1>2. Score!MonthlyLoss(b, m) = Score!Min({x, 5000}) /\ Score!MonthlyLoss(c, m) = Score!Min({y, 5000})
  BY Zenon DEF Score!MonthlyLoss
<1>3. x \in Int /\ y \in Int /\ y <= x
  <2>1. /\ Score!TotalTenths(b, m) \in Int /\ Score!TotalTenths(c, m) \in Int
        /\ Score!TotalTenths(b, m) <= Score!TotalTenths(c, m)
    BY TenthsImprove
  <2>. HIDE DEF g, h
  <2>2. /\ Score!Min({g, 1000}) = IF g <= 1000 THEN g ELSE 1000
        /\ Score!Min({h, 1000}) = IF h <= 1000 THEN h ELSE 1000
    BY <1>1, LesserOfTwo
  <2>. QED
    BY <1>1, <2>1, <2>2
<1>. HIDE DEF x, y
<1>4. /\ Score!Min({x, 5000}) = IF x <= 5000 THEN x ELSE 5000
      /\ Score!Min({y, 5000}) = IF y <= 5000 THEN y ELSE 5000
  BY <1>3, LesserOfTwo
<1>5. /\ Score!MonthlyLoss(b, m) \in Int /\ Score!MonthlyLoss(c, m) \in Int
      /\ Score!MonthlyLoss(c, m) <= Score!MonthlyLoss(b, m)
  BY <1>2, <1>3, <1>4
<1>6. Score!MissedCalls(c, m) <= Score!MissedCalls(b, m)
  BY <1>5, DivisionKeepsOrder DEF Score!MissedCalls
<1>. QED
  BY <1>5, <1>6

\* The grade rises.
LEMMA GradeImproves ==
    ASSUME NEW b \in ScoredBusinesses, NEW c \in ScoredBusinesses, NoWorse(b, c),
           NEW m \in ScoredMarkets
    PROVE  Score!Grade(b, m) <= Score!Grade(c, m)
<1> DEFINE bounds == {50, 60, 65, 70, 75, 80, 85, 90}
           P == {bound \in bounds : Score!Total(b, m) >= 1000 * bound * Score!Scale(m)}
           Q == {bound \in bounds : Score!Total(c, m) >= 1000 * bound * Score!Scale(m)}
<1>1. Score!Grade(b, m) = Cardinality(P) /\ Score!Grade(c, m) = Cardinality(Q)
  BY DEF Score!Grade, Score!Quantify, Score!Cardinality, Cardinality
<1>2. IsFiniteSet(Q)
  <2>1. \A i, j \in Int : IsFiniteSet(i..j)
    BY FS_Interval
  <2>2. Q \in SUBSET (0..90) /\ 0 \in Int /\ 90 \in Int
    OBVIOUS
  <2>3. IsFiniteSet(0..90)
    BY <2>1, <2>2
  <2>. QED
    BY <2>2, <2>3, FS_Subset
<1>3. P \subseteq Q
  <2>. SUFFICES ASSUME NEW bound \in bounds, Score!Total(b, m) >= 1000 * bound * Score!Scale(m)
                PROVE  Score!Total(c, m) >= 1000 * bound * Score!Scale(m)
    OBVIOUS
  <2>1. /\ Score!Total(b, m) \in Nat /\ Score!Total(c, m) \in Nat
        /\ Score!Total(b, m) <= Score!Total(c, m)
    BY TotalImproves
  <2>2. 1000 * bound * Score!Scale(m) \in Int
    BY ScaleIs
  <2>. QED
    BY <2>1, <2>2
<1>. HIDE DEF P, Q
<1>. QED
  BY <1>1, <1>2, <1>3, FS_Subset

\* The plan it is recommended costs no more.
LEMMA PlanIsNoDearer ==
    ASSUME NEW b \in ScoredBusinesses, NEW c \in ScoredBusinesses, NoWorse(b, c),
           NEW m \in ScoredMarkets
    PROVE  Score!RecommendedPlan(c, m) <= Score!RecommendedPlan(b, m)
<1>1. /\ Score!TotalTenths(b, m) \in Int /\ Score!TotalTenths(c, m) \in Int
      /\ Score!TotalTenths(b, m) <= Score!TotalTenths(c, m)
  BY TenthsImprove
<1>2. /\ Score!CompetitionScore(b, m) \in Nat /\ Score!CompetitionScore(c, m) \in Nat
      /\ Score!CompetitionScore(b, m) <= Score!CompetitionScore(c, m)
  BY CompetitionImproves
<1>3. /\ Score!ReviewGap(b, m) \in Nat /\ Score!ReviewGap(c, m) \in Nat
      /\ Score!ReviewGap(c, m) <= Score!ReviewGap(b, m)
  BY GapCloses
<1>4. 45 * Score!Scale(m) \in Int
  BY ScaleIs
<1>. QED
  BY <1>1, <1>2, <1>3, <1>4 DEF Score!RecommendedPlan

\* What is audited is a business and a market the scores are made for.
ScoreInv == v1 \in ScoredBusinesses /\ v2 \in ScoredMarkets

\* What is assumed of the constants.
LEMMA ScoreConstants ==
    /\ ReviewCounts \subseteq Nat /\ PhotoCounts \subseteq Nat /\ Ratings \subseteq 0..50
    /\ ThreeMarkets \subseteq ScoredMarkets
<1>1. Score!AuditScoresAssumption
  BY MirrorsAssumption, Zenon DEF MirrorsAssumption
<1>2. /\ ReviewCounts \subseteq Nat /\ PhotoCounts \subseteq Nat /\ Ratings \subseteq 10..50
      /\ ThreeMarkets \subseteq [reviews : Nat, rating : 0..50]
      /\ \A m \in ThreeMarkets : m.reviews > 0 => m.rating > 0
  BY <1>1, Zenon DEF Score!AuditScoresAssumption
<1>3. \A x \in 10..50 : x \in 0..50
  OBVIOUS
<1>. QED
  BY <1>2, <1>3 DEF ScoredMarkets

\* Each step improves the business.
LEMMA ScoreStep ==
    ASSUME ScoreInv, NextScore
    PROVE  v1' \in ScoredBusinesses /\ v2' = v2 /\ NoWorse(v1, v1')
<1>1. \/ Score!EarnReviews \/ Score!AddPhotos \/ Score!FillIn
  BY Zenon DEF NextScore
<1>2. /\ v1 \in ScoredBusinesses /\ v1.reviews \in Nat /\ v1.photos \in Nat /\ v1.rating \in 0..50
      /\ v1.newest \in Score!Recency
  BY DEF ScoreInv, ScoredBusinesses
<1>3. Score!RecencyPoints(v1.newest) \in 0..20
  BY <1>2, RecencyPointsAre
<1>4. CASE Score!EarnReviews
  <2>1. PICK n \in ReviewCounts, r \in Ratings, age \in Score!Recency :
            /\ n > v1.reviews /\ r >= v1.rating
            /\ Score!RecencyPoints(age) >= Score!RecencyPoints(v1.newest)
            /\ v1' = [v1 EXCEPT !.reviews = n, !.rating = r, !.newest = age] /\ v2' = v2
    BY <1>4, Zenon DEF Score!EarnReviews, Score!Better
  <2>2. n \in Nat /\ r \in 0..50
    BY ScoreConstants
  <2>3. /\ v1' \in ScoredBusinesses /\ v1'.reviews = n /\ v1'.rating = r /\ v1'.newest = age
        /\ v1'.photos = v1.photos /\ v1'.hours = v1.hours /\ v1'.phone = v1.phone
        /\ v1'.website = v1.website
    BY <1>2, <2>1, <2>2 DEF ScoredBusinesses
  <2>4. Score!RecencyPoints(age) \in 0..20
    BY RecencyPointsAre
  <2>5. /\ v1.reviews <= v1'.reviews /\ v1.rating <= v1'.rating /\ v1.photos <= v1'.photos
        /\ Score!RecencyPoints(v1.newest) <= Score!RecencyPoints(v1'.newest)
    BY <1>2, <1>3, <2>1, <2>2, <2>3, <2>4
  <2>. QED
    BY <2>1, <2>3, <2>5 DEF NoWorse
<1>5. CASE Score!AddPhotos
  <2>1. PICK n \in PhotoCounts : n > v1.photos /\ v1' = [v1 EXCEPT !.photos = n] /\ v2' = v2
    BY <1>5, Zenon DEF Score!AddPhotos, Score!Better
  <2>2. n \in Nat
    BY ScoreConstants
  <2>3. /\ v1' \in ScoredBusinesses /\ v1'.reviews = v1.reviews /\ v1'.rating = v1.rating
        /\ v1'.newest = v1.newest /\ v1'.photos = n /\ v1'.hours = v1.hours
        /\ v1'.phone = v1.phone /\ v1'.website = v1.website
    BY <1>2, <2>1, <2>2 DEF ScoredBusinesses
  <2>4. /\ v1.reviews <= v1'.reviews /\ v1.rating <= v1'.rating /\ v1.photos <= v1'.photos
        /\ Score!RecencyPoints(v1.newest) <= Score!RecencyPoints(v1'.newest)
    BY <1>2, <1>3, <2>1, <2>2, <2>3
  <2>. QED
    BY <2>1, <2>3, <2>4 DEF NoWorse
<1>6. CASE Score!FillIn
  <2>1. /\ v2' = v2
        /\ \/ v1' = [v1 EXCEPT !.hours = TRUE] \/ v1' = [v1 EXCEPT !.phone = TRUE]
           \/ v1' = [v1 EXCEPT !.website = TRUE]
    BY <1>6, Zenon DEF Score!FillIn, Score!Better
  <2>2. /\ v1' \in ScoredBusinesses /\ v1'.reviews = v1.reviews /\ v1'.rating = v1.rating
        /\ v1'.newest = v1.newest /\ v1'.photos = v1.photos
        /\ (v1.hours => v1'.hours) /\ (v1.phone => v1'.phone) /\ (v1.website => v1'.website)
    BY <1>2, <2>1 DEF ScoredBusinesses
  <2>3. /\ v1.reviews <= v1'.reviews /\ v1.rating <= v1'.rating /\ v1.photos <= v1'.photos
        /\ Score!RecencyPoints(v1.newest) <= Score!RecencyPoints(v1'.newest)
    BY <1>2, <1>3, <2>2
  <2>. QED
    BY <2>1, <2>2, <2>3 DEF NoWorse
<1>. QED
  BY <1>1, <1>4, <1>5, <1>6

\* It is typed initially.
LEMMA ScoreInit == ASSUME Score!Init PROVE ScoreInv
<1>1. /\ v1 = [reviews |-> 0, rating |-> 0, newest |-> "none", photos |-> 0,
               hours |-> FALSE, phone |-> FALSE, website |-> FALSE]
      /\ v2 \in ThreeMarkets
  BY Zenon DEF Score!Init
<1>2. "none" \in Score!Recency
  BY DEF Score!Recency
<1>. QED
  BY <1>1, <1>2, ScoreConstants DEF ScoreInv, ScoredBusinesses

\* A business that gets more or better reviews, more photos or a fuller profile scores no
\* lower, and is not told of a greater loss or a dearer plan (onboarding.py).
THEOREM BetterBusinessesScoreBetter == Spec => ImprovingPays
<1> DEFINE Inv == subject = "score" => ScoreInv
           Pays == subject = "score" => Score!ImprovementPays
<1>1. Init => Inv
  <2>1. Init /\ subject = "score" => Score!Init
    BY Zenon DEF Init
  <2>. QED
    BY <2>1, ScoreInit
<1>2. Inv /\ [Next]_vars => Inv'
  <2>. SUFFICES ASSUME Inv, [Next]_vars, subject = "score" PROVE ScoreInv'
    BY SubjectStays
  <2>1. CASE NextScore
    <3>1. v1' \in ScoredBusinesses /\ v2' = v2
      BY <2>1, ScoreStep
    <3>. QED
      BY <3>1 DEF ScoreInv
  <2>2. CASE UNCHANGED vars
    BY <2>2 DEF vars, ScoreInv
  <2>. QED
    BY <2>1, <2>2, StepOfSubject
<1>3. Inv /\ [Next]_vars => [Pays]_vars
  <2>. SUFFICES ASSUME Inv, [Next]_vars, subject = "score", ~UNCHANGED vars
                PROVE  Score!ImprovementPays
    OBVIOUS
  <2>1. NextScore /\ ScoreInv
    BY StepOfSubject
  <2>2. /\ v1 \in ScoredBusinesses /\ v2 \in ScoredMarkets /\ v1' \in ScoredBusinesses
        /\ v2' = v2 /\ NoWorse(v1, v1')
    BY <2>1, ScoreStep DEF ScoreInv
  <2>3. /\ Score!Total(v1, v2) \in Nat /\ Score!Total(v1', v2) \in Nat
        /\ Score!Total(v1, v2) <= Score!Total(v1', v2)
    BY <2>2, TotalImproves
  <2>4. Score!Grade(v1, v2) <= Score!Grade(v1', v2)
    BY <2>2, GradeImproves
  <2>5. /\ Score!MonthlyLoss(v1', v2) <= Score!MonthlyLoss(v1, v2)
        /\ Score!MissedCalls(v1', v2) <= Score!MissedCalls(v1, v2)
    BY <2>2, LossFalls
  <2>6. Score!RecommendedPlan(v1', v2) <= Score!RecommendedPlan(v1, v2)
    BY <2>2, PlanIsNoDearer
  <2>. QED
    BY <2>2, <2>3, <2>4, <2>5, <2>6 DEF Score!ImprovementPays
<1>. QED
  BY <1>1, <1>2, <1>3, PTL DEF Spec, ImprovingPays

\* The scores of the businesses a run has.
LEMMA ScoreTypesKept ==
    ASSUME v1 \in Score!Businesses, v2 \in ThreeMarkets, NextScore
    PROVE  v1' \in Score!Businesses /\ v2' \in ThreeMarkets
<1>1. Score!EarnReviews \/ Score!AddPhotos \/ Score!FillIn
  BY Zenon DEF NextScore
<1>2. CASE Score!EarnReviews
  <2>1. PICK n \in ReviewCounts, r \in Ratings, age \in Score!Recency :
            v1' = [v1 EXCEPT !.reviews = n, !.rating = r, !.newest = age] /\ v2' = v2
    BY <1>2, Zenon DEF Score!EarnReviews, Score!Better
  <2>. QED
    BY <2>1 DEF Score!Businesses
<1>3. CASE Score!AddPhotos
  <2>1. PICK n \in PhotoCounts : v1' = [v1 EXCEPT !.photos = n] /\ v2' = v2
    BY <1>3, Zenon DEF Score!AddPhotos, Score!Better
  <2>. QED
    BY <2>1 DEF Score!Businesses
<1>4. CASE Score!FillIn
  <2>1. /\ v2' = v2
        /\ \/ v1' = [v1 EXCEPT !.hours = TRUE] \/ v1' = [v1 EXCEPT !.phone = TRUE]
           \/ v1' = [v1 EXCEPT !.website = TRUE]
    BY <1>4, Zenon DEF Score!FillIn, Score!Better
  <2>. QED
    BY <2>1 DEF Score!Businesses
<1>. QED
  BY <1>1, <1>2, <1>3, <1>4

\* What competitors leave of the competition score is no more than all of it.
LEMMA CompetitionIsBounded ==
    ASSUME NEW b \in ScoredBusinesses, NEW m \in ScoredMarkets
    PROVE  /\ Score!CompetitionScore(b, m) \in Nat
           /\ Score!CompetitionScore(b, m) <= 100 * Score!Scale(m)
<1>1. b.reviews \in Nat /\ b.rating \in Nat /\ m.reviews \in Nat /\ m.rating \in Nat
  BY DEF ScoredBusinesses, ScoredMarkets
<1> DEFINE x == Score!Min({b.reviews, m.reviews})
           p == Score!Min({b.rating, m.rating})
           s == m.reviews * m.rating
<1>2. x \in Nat /\ x <= m.reviews /\ p \in Nat /\ p <= m.rating
  BY <1>1, LesserOfTwo
<1>3. /\ Score!CompetitionScore(b, m)
             = IF m.reviews = 0 THEN 50 ELSE 50 * x * m.rating + 50 * p * m.reviews
      /\ Score!Scale(m) = IF m.reviews = 0 THEN 1 ELSE s
  BY Zenon DEF Score!CompetitionScore, Score!Scale
<1>. HIDE DEF x, p
<1>4. /\ x * m.rating \in Nat /\ x * m.rating <= s
      /\ p * m.reviews \in Nat /\ p * m.reviews <= m.rating * m.reviews
      /\ m.rating * m.reviews = s /\ s \in Nat
  BY <1>1, <1>2, TimesKeepsOrder
<1>5. 50 * x * m.rating = 50 * (x * m.rating) /\ 50 * p * m.reviews = 50 * (p * m.reviews)
  BY <1>1, <1>2
<1>. HIDE DEF s
<1>. QED
  BY <1>1, <1>3, <1>4, <1>5

\* A share of at most 1000 in 1000.
LEMMA QuotientIsBounded ==
    ASSUME NEW a \in Nat, NEW n \in Nat \ {0}, a <= 1000 * n
    PROVE  a \div n \in Int /\ a \div n <= 1000 /\ 0 <= a \div n
OBVIOUS

\* The total is at most 1000 tenths.
LEMMA TenthsAreBounded ==
    ASSUME NEW b \in ScoredBusinesses, NEW m \in ScoredMarkets,
           Score!ReviewScore10(b) \in 0..1000, Score!CompletenessScore(b) \in 0..100
    PROVE  Score!TotalTenths(b, m) \in 0..1000
<1> DEFINE p == 35 * Score!ReviewScore10(b) + 200 * Score!ActivityScore
                    + 200 * Score!CompletenessScore(b)
           x == Score!CompetitionScore(b, m)
           s == Score!Scale(m)
<1>1. p \in Nat /\ p <= 65000
  <2> DEFINE a == Score!ReviewScore10(b)
             c == Score!CompletenessScore(b)
  <2>1. a \in 0..1000 /\ c \in 0..100 /\ p = 35 * a + 200 * 50 + 200 * c
    BY DEF Score!ActivityScore
  <2>. HIDE DEF p, a, c
  <2>. QED
    BY <2>1
<1>2. x \in Nat /\ x <= 100 * s /\ s \in Nat \ {0}
  BY CompetitionIsBounded, ScaleIs
<1>3. Score!TotalTenths(b, m) = (s * p + 250 * x + 50 * s) \div (100 * s)
  BY Zenon DEF Score!TotalTenths, Score!Total
<1>. HIDE DEF p, x, s
<1>4. s * p \in Nat /\ s * p <= s * 65000 /\ s * 65000 = 65000 * s
  BY <1>1, <1>2, TimesKeepsOrder
<1> DEFINE t == s * p + 250 * x + 50 * s
           n == 100 * s
<1>5. t \in Nat /\ n \in Nat \ {0} /\ t <= 1000 * n /\ 0 * n <= t
  BY <1>2, <1>4
<1>. HIDE DEF t, n
<1>6. t \div n \in Int /\ t \div n <= 1000 /\ 0 <= t \div n
  BY <1>5, QuotientIsBounded
<1>. QED
  BY <1>3, <1>6 DEF t, n

\* The types of the scores.
LEMMA ScoreTypes ==
    ASSUME v1 \in Score!Businesses, v2 \in ThreeMarkets
    PROVE  Score!TypeOK
<1>1. v1 \in ScoredBusinesses /\ v2 \in ScoredMarkets
  <2>1. v2 \in ScoredMarkets
    BY ScoreConstants, Zenon
  <2>2. v1 \in ScoredBusinesses
    <3>1. ReviewCounts \subseteq Nat /\ PhotoCounts \subseteq Nat /\ Ratings \subseteq 0..50
      BY ScoreConstants
    <3>2. /\ v1 = [reviews |-> v1.reviews, rating |-> v1.rating, newest |-> v1.newest,
                   photos |-> v1.photos, hours |-> v1.hours, phone |-> v1.phone,
                   website |-> v1.website]
          /\ v1.reviews \in ReviewCounts \cup {0} /\ v1.rating \in Ratings \cup {0}
          /\ v1.newest \in Score!Recency /\ v1.photos \in PhotoCounts \cup {0}
          /\ v1.hours \in BOOLEAN /\ v1.phone \in BOOLEAN /\ v1.website \in BOOLEAN
      BY SMT DEF Score!Businesses
    <3>3. v1.reviews \in Nat /\ v1.rating \in 0..50 /\ v1.photos \in Nat
      BY <3>1, <3>2, SMT
    <3>. QED
      BY <3>2, <3>3, Zenon DEF ScoredBusinesses
  <2>. QED
    BY <2>1, <2>2
<1>2. /\ v1.reviews \in Nat /\ v1.rating \in 0..50 /\ v1.newest \in Score!Recency
      /\ v1.photos \in Nat
  BY <1>1 DEF ScoredBusinesses
<1>3. Score!ReviewScore10(v1) \in 0..1000
  <2> DEFINE x == Score!Min({v1.reviews, 100})
             p == Score!RecencyPoints(v1.newest)
  <2>1. x \in 0..100 /\ p \in 0..20
    <3>1. x = IF v1.reviews <= 100 THEN v1.reviews ELSE 100
      BY <1>2, LesserOfTwo
    <3>2. p \in 0..20
      BY <1>2, RecencyPointsAre
    <3>. HIDE DEF x, p
    <3>. QED
      BY <1>2, <3>1, <3>2
  <2>2. Score!ReviewScore10(v1) = IF v1.reviews = 0 THEN 0 ELSE 4 * x + 8 * v1.rating + 10 * p
    BY Zenon DEF Score!ReviewScore10
  <2>3. v1.rating \in 0..50
    BY <1>2
  <2>. HIDE DEF x, p
  <2>4. 4 * x + 8 * v1.rating + 10 * p \in 0..1000
    <3> DEFINE r == v1.rating
    <3>1. r \in 0..50
      BY <2>3
    <3>. HIDE DEF r
    <3>2. 4 * x + 8 * r + 10 * p \in 0..1000
      BY <2>1, <3>1
    <3>. QED
      BY <3>2 DEF r
  <2> DEFINE some == 4 * x + 8 * v1.rating + 10 * p
             score == Score!ReviewScore10(v1)
  <2>5. score = (IF v1.reviews = 0 THEN 0 ELSE some) /\ some \in 0..1000
    BY <2>2, <2>4
  <2>. HIDE DEF some, score
  <2>6. score \in 0..1000
    BY <2>5
  <2>. QED
    BY <2>6 DEF score
<1>4. Score!CompletenessScore(v1) \in 0..100
  <2>1. Score!PhotoPoints(v1.photos) \in 0..25
    BY <1>2 DEF Score!PhotoPoints
  <2>2. \A given : Score!Points(given) \in 0..20
    BY DEF Score!Points
  <2>3. /\ Score!Points(v1.phone) \in 0..20 /\ Score!Points(v1.website) \in 0..20
        /\ Score!Points(v1.hours) \in 0..20
    BY <2>2
  <2>. QED
    BY <2>1, <2>3 DEF Score!CompletenessScore
<1>5. Score!TotalTenths(v1, v2) \in 0..1000
  BY <1>1, <1>3, <1>4, TenthsAreBounded
<1>6. Score!MonthlyLoss(v1, v2) \in 0..5000
  <2> DEFINE g == 20 * Score!ReviewGap(v1, v2)
             t == Score!TotalTenths(v1, v2)
  <2>1. g \in Nat
    <3>1. NoWorse(v1, v1)
      BY <1>2, RecencyPointsAre DEF NoWorse
    <3>2. Score!ReviewGap(v1, v2) \in Nat
      BY <1>1, <3>1, GapCloses
    <3>. QED
      BY <3>2
  <2>2. Score!MonthlyLoss(v1, v2) = Score!Min({5 * (1000 - t) + Score!Min({g, 1000}), 5000})
    BY Zenon DEF Score!MonthlyLoss
  <2>. HIDE DEF g, t
  <2>3. Score!Min({g, 1000}) \in 0..1000
    <3>1. Score!Min({g, 1000}) = IF g <= 1000 THEN g ELSE 1000
      BY <2>1, LesserOfTwo
    <3>. QED
      BY <2>1, <3>1
  <2>4. t \in 0..1000
    BY <1>5 DEF t
  <2> DEFINE y == 5 * (1000 - t) + Score!Min({g, 1000})
  <2>5. y \in Nat
    <3> DEFINE l == Score!Min({g, 1000})
    <3>1. l \in 0..1000 /\ y = 5 * (1000 - t) + l
      BY <2>3
    <3>. HIDE DEF l, y
    <3>. QED
      BY <2>4, <3>1
  <2>6. Score!MonthlyLoss(v1, v2) = Score!Min({y, 5000})
    BY <2>2
  <2>. HIDE DEF y
  <2>7. Score!Min({y, 5000}) = IF y <= 5000 THEN y ELSE 5000
    BY <2>5, LesserOfTwo
  <2> DEFINE loss == Score!MonthlyLoss(v1, v2)
  <2>8. loss = IF y <= 5000 THEN y ELSE 5000
    BY <2>6, <2>7
  <2>. HIDE DEF loss
  <2>9. loss \in 0..5000
    BY <2>5, <2>8
  <2>. QED
    BY <2>9 DEF loss
<1>. QED
  BY <1>3, <1>4, <1>5, <1>6 DEF Score!TypeOK

\* The businesses and markets of a run, in every reachable state of the scores.
ScoreOnly == subject = "score" => v1 \in Score!Businesses /\ v2 \in ThreeMarkets

\* They stay so.
LEMMA ScoreAlways == Spec => []ScoreOnly
<1>1. Init => ScoreOnly
  <2>. SUFFICES ASSUME Init, subject = "score"
                PROVE  v1 \in Score!Businesses /\ v2 \in ThreeMarkets
    BY DEF ScoreOnly
  <2>1. Score!Init
    BY Zenon DEF Init
  <2>2. /\ v1 = [reviews |-> 0, rating |-> 0, newest |-> "none", photos |-> 0,
                 hours |-> FALSE, phone |-> FALSE, website |-> FALSE]
        /\ v2 \in ThreeMarkets
    BY <2>1, Zenon DEF Score!Init
  <2>. QED
    BY <2>2 DEF Score!Businesses, Score!Recency
<1>2. ScoreOnly /\ [Next]_vars => ScoreOnly'
  <2>. SUFFICES ASSUME ScoreOnly, [Next]_vars, subject = "score"
                PROVE  v1' \in Score!Businesses /\ v2' \in ThreeMarkets
    BY SubjectStays, Zenon DEF ScoreOnly, Score!Businesses
  <2>1. NextScore \/ UNCHANGED vars
    BY StepOfSubject
  <2>. QED
    BY <2>1, ScoreTypesKept, Zenon DEF ScoreOnly, vars
<1>. QED
  BY <1>1, <1>2, PTL DEF Spec

-----------------------------------------------------------------------------
(* Plans and features. *)

LEMMA NoLegacyPlan == "none" \notin Feature!Plans
<1>1. \A i \in DOMAIN Feature!Managed : Feature!Managed[i] # "none"
  BY DEF Feature!Managed
<1>2. \A i \in DOMAIN Feature!Older : Feature!Older[i] # "none"
  BY DEF Feature!Older
<1>. QED
  BY <1>1, <1>2, Zenon DEF Feature!Plans, Feature!Listed

\* A row of an active account is not the missing row of a legacy account.
LEMMA ActiveRow ==
    ASSUME NEW r \in Feature!Row, r.active
    PROVE  /\ r # Feature!Legacy /\ r.plan \in Feature!Plans /\ r.addons \subseteq Feature!Addons
           /\ Feature!EffectivePlan(r) = r.plan
           /\ Feature!AccountFeatures(r)
                  = Feature!PlanFeatures[r.plan] \cup Feature!AddonFeatures(r.addons)
<1>1. Feature!Legacy.active = FALSE
  BY DEF Feature!Legacy
<1>2. r # Feature!Legacy
  BY <1>1, Zenon
<1>3. r.plan \in Feature!Plans /\ r.addons \subseteq Feature!Addons
  BY <1>2, SMT DEF Feature!Row
<1>4. Feature!EffectivePlan(r) = r.plan
  BY <1>2, Zenon DEF Feature!EffectivePlan
<1>5. Feature!AccountFeatures(r)
          = Feature!PlanFeatures[r.plan] \cup Feature!AddonFeatures(r.addons)
  BY Zenon DEF Feature!AccountFeatures
<1>. QED
  BY <1>2, <1>3, <1>4, <1>5

\* No two add-ons unlock the same.
LEMMA DifferentAddonsUnlock ==
    ASSUME NEW a \in Feature!Addons, NEW b \in Feature!Addons,
           Feature!FeatureOf(a) = Feature!FeatureOf(b)
    PROVE  a = b
BY DEF Feature!Addons, Feature!FeatureOf

\* The files that say which features an account has agree.
LEMMA TheAnswersAgree ==
    ASSUME NEW r \in Feature!Row
    PROVE  Feature!AnswersAgree(r)
<1>1. CASE r.active
  <2>1. /\ r.addons \subseteq Feature!Addons /\ Feature!EffectivePlan(r) = r.plan
        /\ Feature!AccountFeatures(r)
               = Feature!PlanFeatures[r.plan] \cup {Feature!FeatureOf(a) : a \in r.addons}
    BY <1>1, ActiveRow, Zenon DEF Feature!AddonFeatures
  <2>2. \A f : Feature!HasAccess(r, f) <=>
                  f \in Feature!PlanFeatures[r.plan] \/ \E a \in r.addons : Feature!FeatureOf(a) = f
    BY <1>1, <2>1, Zenon DEF Feature!HasAccess
  <2>3. ASSUME NEW a \in Feature!Addons \ r.addons,
               Feature!FeatureOf(a) \notin Feature!PlanFeatures[r.plan]
        PROVE  Feature!FeatureOf(a) \notin Feature!AccountFeatures(r)
    <3>1. \A b \in r.addons : Feature!FeatureOf(b) # Feature!FeatureOf(a)
      BY <2>1, <2>3, DifferentAddonsUnlock
    <3>. QED
      BY <2>1, <2>3, <3>1, Zenon
  <2>. QED
    BY <2>1, <2>2, <2>3, Zenon DEF Feature!AnswersAgree, Feature!OfferedAddons
<1>2. CASE ~r.active
  <2>1. Feature!AccountFeatures(r) = Feature!PlanFeatures[Feature!EffectivePlan(r)]
    BY <1>2, Zenon DEF Feature!AccountFeatures
  <2>2. \A f : Feature!HasAccess(r, f) <=> f \in Feature!PlanFeatures[Feature!EffectivePlan(r)]
    BY <1>2, Zenon DEF Feature!HasAccess
  <2>. QED
    BY <2>1, <2>2, Zenon DEF Feature!AnswersAgree, Feature!OfferedAddons
<1>. QED
  BY <1>1, <1>2

\* No number of plan q, or of its credits tier, is worse than plan p's.
Tiers == 1..4
TierNoWorse(i, j) ==
    /\ i \in Tiers /\ j \in Tiers
    /\ Feature!MonthlyCredits[i] <= Feature!MonthlyCredits[j]
    /\ \A t \in Feature!UsageTypes : /\ Feature!DailyUses[t][i] <= Feature!DailyUses[t][j]
                                     /\ Feature!MonthlyUses[t][i] <= Feature!MonthlyUses[t][j]
                                     /\ Feature!Cooldown[t][i] >= Feature!Cooldown[t][j]
Amounts == -1..1000
PlanNoWorse(p, q) ==
    /\ Feature!PlanPrice[p] \in Nat /\ Feature!PlanPrice[q] \in Nat
    /\ Feature!PlanPrice[p] <= Feature!PlanPrice[q]
    /\ Feature!PlanFeatures[p] \subseteq Feature!PlanFeatures[q]
    /\ Feature!Locations[p] \in Amounts /\ Feature!Locations[q] \in Amounts
    /\ Feature!AtMost(Feature!Locations[p], Feature!Locations[q])
    /\ Feature!PostsPerMonth[p] \in Amounts /\ Feature!PostsPerMonth[q] \in Amounts
    /\ Feature!AtMost(Feature!PostsPerMonth[p], Feature!PostsPerMonth[q])
    /\ Feature!CreditTier[p] \in Tiers /\ Feature!CreditTier[q] \in Tiers
    /\ Feature!CreditTier[p] <= Feature!CreditTier[q]

LEMMA UsageTypesAre ==
    Feature!UsageTypes = {"sms", "ai_content", "ai_image", "ai_response", "api_calls"}
BY DEF Feature!UsageTypes, Feature!DailyUses

\* Each credits tier allows no less than the one below.
LEMMA TiersRise ==
    ASSUME NEW i \in Tiers, NEW j \in Tiers, i <= j
    PROVE  TierNoWorse(i, j)
<1>1. Feature!MonthlyCredits[i] <= Feature!MonthlyCredits[j]
  BY DEF Tiers, Feature!MonthlyCredits
<1>2. ASSUME NEW t \in Feature!UsageTypes
      PROVE  Feature!DailyUses[t][i] <= Feature!DailyUses[t][j]
  BY UsageTypesAre DEF Tiers, Feature!DailyUses
<1>3. ASSUME NEW t \in Feature!UsageTypes
      PROVE  Feature!MonthlyUses[t][i] <= Feature!MonthlyUses[t][j]
  BY UsageTypesAre DEF Tiers, Feature!MonthlyUses
<1>4. ASSUME NEW t \in Feature!UsageTypes
      PROVE  Feature!Cooldown[t][i] >= Feature!Cooldown[t][j]
  BY UsageTypesAre DEF Tiers, Feature!Cooldown
<1>. QED
  BY <1>1, <1>2, <1>3, <1>4 DEF TierNoWorse

LEMMA NoWorseIsTransitive ==
    ASSUME NEW p, NEW q, NEW s, PlanNoWorse(p, q), PlanNoWorse(q, s)
    PROVE  PlanNoWorse(p, s)
<1>1. \A a, b, c \in Nat : a <= b /\ b <= c => a <= c
  OBVIOUS
<1>2. \A a, b, c \in Amounts :
          Feature!AtMost(a, b) /\ Feature!AtMost(b, c) => Feature!AtMost(a, c)
  BY DEF Feature!AtMost, Amounts
<1>3. \A i \in Tiers : i \in Nat
  BY DEF Tiers
<1>4. Feature!PlanFeatures[p] \subseteq Feature!PlanFeatures[s]
  BY Zenon DEF PlanNoWorse
<1>5. Feature!CreditTier[p] <= Feature!CreditTier[s]
  BY <1>1, <1>3, Zenon DEF PlanNoWorse
<1>. QED
  BY <1>1, <1>2, <1>4, <1>5, Zenon DEF PlanNoWorse

\* One step up keeps the features.
LEMMA FeaturesGrow ==
    /\ Feature!PlanFeatures["free"] \subseteq Feature!PlanFeatures["maps_starter"]
    /\ Feature!PlanFeatures["maps_starter"] \subseteq Feature!PlanFeatures["calls_growth"]
    /\ Feature!PlanFeatures["calls_growth"] \subseteq Feature!PlanFeatures["competitive_market"]
    /\ Feature!PlanFeatures["free"] \subseteq Feature!PlanFeatures["starter"]
    /\ Feature!PlanFeatures["starter"] \subseteq Feature!PlanFeatures["pro"]
    /\ Feature!PlanFeatures["pro"] \subseteq Feature!PlanFeatures["premium"]
    /\ Feature!PlanFeatures["premium"] \subseteq Feature!PlanFeatures["agency"]
    /\ Feature!PlanFeatures["agency"] \subseteq Feature!PlanFeatures["enterprise"]
<1>1. /\ Feature!PlanFeatures["free"] = {"basic_dashboard"}
      /\ Feature!PlanFeatures["maps_starter"] = Feature!MapsFeatures
      /\ Feature!PlanFeatures["calls_growth"] = Feature!CallsFeatures
      /\ Feature!PlanFeatures["competitive_market"] = Feature!MarketFeatures
      /\ Feature!PlanFeatures["starter"] = Feature!StarterFeatures
      /\ Feature!PlanFeatures["pro"] = Feature!ProFeatures
      /\ Feature!PlanFeatures["premium"] = Feature!PremiumFeatures
      /\ Feature!PlanFeatures["agency"] = Feature!AgencyFeatures
      /\ Feature!PlanFeatures["enterprise"] = Feature!AgencyFeatures
  BY DEF Feature!PlanFeatures
<1>2. "basic_dashboard" \in Feature!MapsFeatures /\ "basic_dashboard" \in Feature!StarterFeatures
  BY DEF Feature!MapsFeatures, Feature!StarterFeatures
<1>3. /\ Feature!MapsFeatures \subseteq Feature!CallsFeatures
      /\ Feature!CallsFeatures \subseteq Feature!MarketFeatures
      /\ Feature!StarterFeatures \subseteq Feature!ProFeatures
      /\ Feature!ProFeatures \subseteq Feature!PremiumFeatures
      /\ Feature!PremiumFeatures \subseteq Feature!AgencyFeatures
  BY Zenon DEF Feature!CallsFeatures, Feature!MarketFeatures, Feature!ProFeatures,
               Feature!PremiumFeatures, Feature!AgencyFeatures
<1>. QED
  BY <1>1, <1>2, <1>3

\* The catalogs.
LEMMA PlansAre ==
    /\ Feature!Plans = {"free", "maps_starter", "calls_growth", "competitive_market",
                        "starter", "pro", "premium", "agency", "enterprise"}
    /\ DOMAIN Feature!Managed = 1..4 /\ DOMAIN Feature!Older = 1..6
    /\ Feature!Managed[1] = "free" /\ Feature!Managed[2] = "maps_starter"
    /\ Feature!Managed[3] = "calls_growth" /\ Feature!Managed[4] = "competitive_market"
    /\ Feature!Older[1] = "free" /\ Feature!Older[2] = "starter" /\ Feature!Older[3] = "pro"
    /\ Feature!Older[4] = "premium" /\ Feature!Older[5] = "agency"
    /\ Feature!Older[6] = "enterprise"
<1>1. /\ DOMAIN Feature!Managed = 1..4
      /\ Feature!Managed[1] = "free" /\ Feature!Managed[2] = "maps_starter"
      /\ Feature!Managed[3] = "calls_growth" /\ Feature!Managed[4] = "competitive_market"
  BY DEF Feature!Managed
<1>2. /\ DOMAIN Feature!Older = 1..6
      /\ Feature!Older[1] = "free" /\ Feature!Older[2] = "starter" /\ Feature!Older[3] = "pro"
      /\ Feature!Older[4] = "premium" /\ Feature!Older[5] = "agency"
      /\ Feature!Older[6] = "enterprise"
  BY DEF Feature!Older
<1>3. Feature!Listed(Feature!Managed)
          = {"free", "maps_starter", "calls_growth", "competitive_market"}
  BY <1>1 DEF Feature!Listed
<1>4. Feature!Listed(Feature!Older)
          = {"free", "starter", "pro", "premium", "agency", "enterprise"}
  BY <1>2 DEF Feature!Listed
<1>. QED
  BY <1>1, <1>2, <1>3, <1>4 DEF Feature!Plans

LEMMA PlanNumbersAre ==
    /\ Feature!PlanPrice["free"] = 0 /\ Feature!PlanPrice["maps_starter"] = 699
    /\ Feature!PlanPrice["calls_growth"] = 999 /\ Feature!PlanPrice["competitive_market"] = 1499
    /\ Feature!PlanPrice["starter"] = 99 /\ Feature!PlanPrice["pro"] = 149
    /\ Feature!PlanPrice["premium"] = 249 /\ Feature!PlanPrice["agency"] = 499
    /\ Feature!PlanPrice["enterprise"] = 999
    /\ Feature!PostsPerMonth["free"] = 0 /\ Feature!PostsPerMonth["maps_starter"] = 30
    /\ Feature!PostsPerMonth["calls_growth"] = 60
    /\ Feature!PostsPerMonth["competitive_market"] = 120
    /\ Feature!PostsPerMonth["starter"] = 30 /\ Feature!PostsPerMonth["pro"] = 60
    /\ Feature!PostsPerMonth["premium"] = 120 /\ Feature!PostsPerMonth["agency"] = -1
    /\ Feature!PostsPerMonth["enterprise"] = -1
    /\ Feature!CreditTier["free"] = 1 /\ Feature!CreditTier["maps_starter"] = 2
    /\ Feature!CreditTier["calls_growth"] = 3 /\ Feature!CreditTier["competitive_market"] = 4
    /\ Feature!CreditTier["starter"] = 2 /\ Feature!CreditTier["pro"] = 3
    /\ Feature!CreditTier["premium"] = 3 /\ Feature!CreditTier["agency"] = 4
    /\ Feature!CreditTier["enterprise"] = 4
BY DEF Feature!PlanPrice, Feature!PostsPerMonth, Feature!CreditTier

LEMMA LocationsAre ==
    ASSUME NEW p \in Feature!Plans
    PROVE  Feature!Locations[p] = IF p \in {"agency", "enterprise"} THEN -1
                                  ELSE IF p = "competitive_market" THEN 3 ELSE 1
<1>1. Feature!Locations[p] = CASE p \in {"agency", "enterprise"} -> -1
                               [] p = "competitive_market" -> 3 [] OTHER -> 1
  BY Zenon DEF Feature!Locations
<1>2. "competitive_market" \notin {"agency", "enterprise"}
  OBVIOUS
<1>. QED
  BY <1>1, <1>2, Zenon

\* One step up in a catalog.
LEMMA NextPlanIsNoWorse ==
    /\ PlanNoWorse("free", "maps_starter") /\ PlanNoWorse("maps_starter", "calls_growth")
    /\ PlanNoWorse("calls_growth", "competitive_market")
    /\ PlanNoWorse("free", "starter") /\ PlanNoWorse("starter", "pro")
    /\ PlanNoWorse("pro", "premium") /\ PlanNoWorse("premium", "agency")
    /\ PlanNoWorse("agency", "enterprise")
<1>1. /\ Feature!Locations["free"] = 1 /\ Feature!Locations["maps_starter"] = 1
      /\ Feature!Locations["calls_growth"] = 1 /\ Feature!Locations["competitive_market"] = 3
      /\ Feature!Locations["starter"] = 1 /\ Feature!Locations["pro"] = 1
      /\ Feature!Locations["premium"] = 1 /\ Feature!Locations["agency"] = -1
      /\ Feature!Locations["enterprise"] = -1
  BY LocationsAre, PlansAre
<1>. QED
  BY <1>1, PlanNumbersAre, FeaturesGrow DEF PlanNoWorse, Feature!AtMost, Amounts, Tiers

LEMMA PlanNoWorseThanItself ==
    ASSUME NEW p \in Feature!Plans
    PROVE  PlanNoWorse(p, p)
<1>1. /\ \A a \in Nat : a <= a
      /\ \A a \in Tiers : a <= a
      /\ \A a \in Amounts : Feature!AtMost(a, a)
  BY DEF Feature!AtMost, Amounts, Tiers
<1>2. \A q, s : PlanNoWorse(q, s) => PlanNoWorse(q, q) /\ PlanNoWorse(s, s)
  BY <1>1, Zenon DEF PlanNoWorse
<1>. QED
  BY <1>2, NextPlanIsNoWorse, PlansAre

\* A plan further up its catalog is no worse.
LEMMA UpIsNoWorse ==
    ASSUME NEW p, NEW q, Feature!Up(p, q)
    PROVE  PlanNoWorse(p, q)
<1>1. PICK catalog \in {Feature!Managed, Feature!Older} :
          \E i, j \in DOMAIN catalog : i <= j /\ catalog[i] = p /\ catalog[j] = q
  BY Zenon DEF Feature!Up
<1>2. PICK i \in DOMAIN catalog, j \in DOMAIN catalog :
          i <= j /\ catalog[i] = p /\ catalog[j] = q
  BY <1>1
<1>3. p \in Feature!Plans
  BY <1>1, <1>2, Zenon DEF Feature!Plans, Feature!Listed
<1>4. PlanNoWorse(p, p)
  BY <1>3, PlanNoWorseThanItself
<1>5. CASE catalog = Feature!Managed
  <2>1. i \in 1..4 /\ j \in 1..4 /\ i <= j
    BY <1>2, <1>5, PlansAre
  <2>2. /\ PlanNoWorse(Feature!Managed[1], Feature!Managed[2])
        /\ PlanNoWorse(Feature!Managed[2], Feature!Managed[3])
        /\ PlanNoWorse(Feature!Managed[3], Feature!Managed[4])
    BY NextPlanIsNoWorse, PlansAre
  <2>3. /\ PlanNoWorse(Feature!Managed[1], Feature!Managed[3])
        /\ PlanNoWorse(Feature!Managed[2], Feature!Managed[4])
        /\ PlanNoWorse(Feature!Managed[1], Feature!Managed[4])
    BY <2>2, NoWorseIsTransitive
  <2>. QED
    BY <1>2, <1>4, <1>5, <2>1, <2>2, <2>3
<1>6. CASE catalog = Feature!Older
  <2> DEFINE plan(n) == Feature!Older[n]
  <2>1. i \in 1..6 /\ j \in 1..6 /\ i <= j
    BY <1>2, <1>6, PlansAre
  <2>2. /\ PlanNoWorse(plan(1), plan(2)) /\ PlanNoWorse(plan(2), plan(3))
        /\ PlanNoWorse(plan(3), plan(4)) /\ PlanNoWorse(plan(4), plan(5))
        /\ PlanNoWorse(plan(5), plan(6))
    BY NextPlanIsNoWorse, PlansAre
  <2>3. /\ PlanNoWorse(plan(1), plan(3)) /\ PlanNoWorse(plan(2), plan(4))
        /\ PlanNoWorse(plan(3), plan(5)) /\ PlanNoWorse(plan(4), plan(6))
    BY <2>2, NoWorseIsTransitive
  <2>4. /\ PlanNoWorse(plan(1), plan(4)) /\ PlanNoWorse(plan(2), plan(5))
        /\ PlanNoWorse(plan(3), plan(6))
    BY <2>2, <2>3, NoWorseIsTransitive
  <2>5. /\ PlanNoWorse(plan(1), plan(5)) /\ PlanNoWorse(plan(2), plan(6))
        /\ PlanNoWorse(plan(1), plan(6))
    BY <2>2, <2>3, <2>4, NoWorseIsTransitive
  <2>. QED
    BY <1>2, <1>4, <1>6, <2>1, <2>2, <2>3, <2>4, <2>5
<1>. QED
  BY <1>1, <1>5, <1>6

\* A row that moves up keeps what it could do.
LEMMA NothingIsLost ==
    ASSUME NEW r \in Feature!Row, NEW s \in Feature!Row, r.active, s.active,
           Feature!Up(r.plan, s.plan), r.addons \subseteq s.addons
    PROVE  Feature!PlanPrice[r.plan] <= Feature!PlanPrice[s.plan] /\ Feature!NothingLost(r, s)
<1> DEFINE p == r.plan
           q == s.plan
<1>1. PlanNoWorse(p, q)
  BY UpIsNoWorse
<1>2. /\ Feature!EffectivePlan(r) = p /\ Feature!EffectivePlan(s) = q
      /\ r # Feature!Legacy /\ s # Feature!Legacy
      /\ Feature!AccountFeatures(r)
             = Feature!PlanFeatures[p] \cup Feature!AddonFeatures(r.addons)
      /\ Feature!AccountFeatures(s)
             = Feature!PlanFeatures[q] \cup Feature!AddonFeatures(s.addons)
  BY ActiveRow
<1>3. TierNoWorse(Feature!CreditTier[p], Feature!CreditTier[q])
  BY <1>1, TiersRise DEF PlanNoWorse
<1>4. Feature!AddonFeatures(r.addons) \subseteq Feature!AddonFeatures(s.addons)
  BY Zenon DEF Feature!AddonFeatures
<1>5. Feature!AccountFeatures(r) \subseteq Feature!AccountFeatures(s)
  BY <1>1, <1>2, <1>4, Zenon DEF PlanNoWorse
<1>6. ASSUME NEW t \in Feature!UsageTypes
      PROVE  Feature!DailyLimit(r, t) <= Feature!DailyLimit(s, t)
  <2>1. /\ Feature!DailyLimit(r, t) = Feature!DailyUses[t][Feature!CreditTier[p]]
        /\ Feature!DailyLimit(s, t) = Feature!DailyUses[t][Feature!CreditTier[q]]
    BY <1>2, Zenon DEF Feature!DailyLimit
  <2>. QED
    BY <1>3, <2>1, Zenon DEF TierNoWorse
<1>. QED
  BY <1>1, <1>2, <1>3, <1>5, <1>6, Zenon DEF PlanNoWorse, TierNoWorse, Feature!NothingLost

\* The row is typed.
LEMMA FeatureStep ==
    ASSUME v1 \in Feature!Row, NextFeature
    PROVE  v1' \in Feature!Row
<1>1. PICK new : v1' = new /\ \/ \E p \in Feature!Plans, addons \in SUBSET Feature!Addons :
                                     v1 # Feature!Legacy
                                     /\ new = [v1 EXCEPT !.plan = p, !.addons = addons]
                              \/ \E p \in Feature!Plans :
                                     new = IF v1 = Feature!Legacy
                                           THEN [plan |-> p, active |-> TRUE, addons |-> {}]
                                           ELSE [v1 EXCEPT !.plan = p]
                              \/ \E active \in BOOLEAN :
                                     v1 # Feature!Legacy /\ new = [v1 EXCEPT !.active = active]
  BY Zenon
     DEF NextFeature, Feature!ChangePlan, Feature!SetPlan, Feature!SetActive, Feature!Change
<1>2. v1 # Feature!Legacy =>
          v1 \in [plan : Feature!Plans, active : BOOLEAN, addons : SUBSET Feature!Addons]
  BY DEF Feature!Row
<1>3. new \in [plan : Feature!Plans, active : BOOLEAN, addons : SUBSET Feature!Addons]
  <2>1. ASSUME NEW p \in Feature!Plans, NEW addons \in SUBSET Feature!Addons,
               v1 # Feature!Legacy, new = [v1 EXCEPT !.plan = p, !.addons = addons]
        PROVE  new \in [plan : Feature!Plans, active : BOOLEAN, addons : SUBSET Feature!Addons]
    BY <1>2, <2>1
  <2>2. ASSUME NEW p \in Feature!Plans, v1 = Feature!Legacy,
               new = [plan |-> p, active |-> TRUE, addons |-> {}]
        PROVE  new \in [plan : Feature!Plans, active : BOOLEAN, addons : SUBSET Feature!Addons]
    BY <2>2
  <2>3. ASSUME NEW p \in Feature!Plans, v1 # Feature!Legacy, new = [v1 EXCEPT !.plan = p]
        PROVE  new \in [plan : Feature!Plans, active : BOOLEAN, addons : SUBSET Feature!Addons]
    BY <1>2, <2>3
  <2>4. ASSUME NEW active \in BOOLEAN, v1 # Feature!Legacy, new = [v1 EXCEPT !.active = active]
        PROVE  new \in [plan : Feature!Plans, active : BOOLEAN, addons : SUBSET Feature!Addons]
    BY <1>2, <2>4
  <2>. QED
    BY <1>1, <2>1, <2>2, <2>3, <2>4, Zenon
<1>. QED
  BY <1>1, <1>3 DEF Feature!Row

LEMMA FeatureInit == ASSUME Feature!Init PROVE v1 \in Feature!Row
<1>1. "free" \in Feature!Plans
  BY PlansAre
<1>. QED
  <2>1. v1 = Feature!Legacy \/ v1 = [plan |-> "free", active |-> TRUE, addons |-> {}]
    BY Zenon DEF Feature!Init
  <2>2. [plan |-> "free", active |-> TRUE, addons |-> {}]
            \in [plan : Feature!Plans, active : BOOLEAN, addons : SUBSET Feature!Addons]
    BY <1>1
  <2>. QED
    BY <2>1, <2>2, Zenon DEF Feature!Row

\* A plan further up its catalog, with no add-on given up, takes away no feature, location,
\* post, credit or use of an account (subscription.py, account_entitlements.py,
\* feature_access.py).
THEOREM MovingUpOnlyAdds == Spec => UpgradesOnlyAdd
<1> DEFINE Inv == subject = "feature" => v1 \in Feature!Row
           Paid == subject = "feature" => Feature!UpgradeOnlyAdds
<1>1. Init => Inv
  <2>1. Init /\ subject = "feature" => Feature!Init
    BY Zenon DEF Init
  <2>. QED
    BY <2>1, FeatureInit
<1>2. Inv /\ [Next]_vars => Inv'
  <2>. SUFFICES ASSUME Inv, [Next]_vars, subject = "feature" PROVE (v1 \in Feature!Row)'
    BY SubjectStays
  <2>1. CASE NextFeature
    BY <2>1, FeatureStep, Zenon
       DEF Feature!Row, Feature!Plans, Feature!Addons, Feature!Legacy,
          Feature!Listed, Feature!Managed, Feature!Older
  <2>2. CASE UNCHANGED vars
    BY <2>2, Zenon DEF vars, Feature!Row, Feature!Plans, Feature!Addons, Feature!Legacy,
          Feature!Listed, Feature!Managed, Feature!Older
  <2>. QED
    BY <2>1, <2>2, StepOfSubject
<1>3. Inv /\ [Next]_vars => [Paid]_vars
  <2>. SUFFICES ASSUME Inv, [Next]_vars, subject = "feature", ~UNCHANGED vars
                PROVE  Feature!UpgradeOnlyAdds
    OBVIOUS
  <2>1. v1 \in Feature!Row /\ v1' \in Feature!Row
    BY FeatureStep, StepOfSubject
  <2>2. Feature!AnswersAgree(v1')
    BY <2>1, TheAnswersAgree
  <2>3. ASSUME v1.active, v1'.active, Feature!Up(v1.plan, v1'.plan), v1.addons \subseteq v1'.addons
        PROVE  /\ Feature!PlanPrice[v1.plan] <= Feature!PlanPrice[v1'.plan]
               /\ Feature!NothingLost(v1, v1')
    BY <2>1, <2>3, NothingIsLost
  <2>. QED
    BY <2>2, <2>3, Zenon DEF Feature!UpgradeOnlyAdds
<1>. QED
  BY <1>1, <1>2, <1>3, PTL DEF Spec, UpgradesOnlyAdd

\* The plans in use and the bound, in every reachable state of plans and features.
FeatureOnly == subject = "feature" => v1 \in Feature!Row /\ v2 \in 0..MaxChanges

\* They stay so.
LEMMA FeatureAlways == Spec => []FeatureOnly
<1>1. MaxChanges \in Nat
  BY MirrorsAssumption, Zenon DEF MirrorsAssumption, Feature!EntitlementsAssumption
<1>2. Init => FeatureOnly
  <2>. SUFFICES ASSUME Init, subject = "feature" PROVE v1 \in Feature!Row /\ v2 \in 0..MaxChanges
    BY DEF FeatureOnly
  <2>1. Feature!Init
    BY Zenon DEF Init
  <2>2. v2 = 0
    BY <2>1, Zenon DEF Feature!Init
  <2>. QED
    BY <1>1, <2>1, <2>2, FeatureInit
<1>3. FeatureOnly /\ [Next]_vars => FeatureOnly'
  <2>. SUFFICES ASSUME FeatureOnly, [Next]_vars, subject = "feature" PROVE FeatureOnly'
    BY SubjectStays DEF FeatureOnly
  <2>1. v1 \in Feature!Row /\ v2 \in 0..MaxChanges
    BY DEF FeatureOnly
  <2>2. CASE NextFeature
    <3>1. v2 < MaxChanges /\ v2' = v2 + 1
      BY <2>2, Zenon
         DEF NextFeature, Feature!ChangePlan, Feature!SetPlan, Feature!SetActive, Feature!Change
    <3>2. v2' \in 0..MaxChanges
      BY <1>1, <2>1, <3>1
    <3>3. (v1 \in Feature!Row)'
      BY <2>1, <2>2, FeatureStep, Zenon
         DEF Feature!Row, Feature!Plans, Feature!Addons, Feature!Legacy,
             Feature!Listed, Feature!Managed, Feature!Older
    <3>. QED
      BY <3>2, <3>3, Zenon DEF FeatureOnly
  <2>3. CASE UNCHANGED vars
    BY <2>1, <2>3, Zenon
       DEF vars, FeatureOnly, Feature!Row, Feature!Plans, Feature!Addons, Feature!Legacy,
           Feature!Listed, Feature!Managed, Feature!Older
  <2>. QED
    BY <2>2, <2>3, StepOfSubject
<1>. QED
  BY <1>2, <1>3, PTL DEF Spec
====
