----------------------------- MODULE CapacityProofs -----------------------------
(* The Redis counter of a batch covers its queue and stays under the cap, for     *)
(* every set of bookings and requests: sums over finite sets, what a step of      *)
(* PreBookings may do to them, and the theorem.                                   *)
EXTENDS PreBookingsProofs

-------------------------------------------------------------------------------
(* Sums over finite sets.  Induction goes over subsets: a property of the subsets *)
(* of a finite set that fails somewhere fails for a smallest one.                 *)

\* Every nonempty set of subsets of a finite set has a minimal member.
LEMMA MinimalSubset ==
    ASSUME NEW S, IsFiniteSet(S), NEW T, T \subseteq SUBSET S, T # {}
    PROVE  \E m \in T : \A x \in m : m \ {x} \notin T
<1>1. FiniteSubsetsOf(S) = SUBSET S
  BY FS_Subset DEF FiniteSubsetsOf
<1>2. IsWellFoundedOn(StrictSubsetOrdering(S), SUBSET S)
  BY <1>1, FS_StrictSubsetOrderingWellFounded
<1>3. PICK m \in T : \A y \in T : ~ (<<y, m>> \in StrictSubsetOrdering(S))
  BY <1>2, WFMin
<1>4. ASSUME NEW x \in m, m \ {x} \in T
      PROVE  FALSE
  <2>1. m \in SUBSET S /\ m \ {x} \in SUBSET S /\ m \ {x} \subseteq m /\ m \ {x} # m
    OBVIOUS
  <2>2. <<m \ {x}, m>> \in StrictSubsetOrdering(S)
    BY <2>1 DEF StrictSubsetOrdering
  <2> QED
    BY <1>3, <1>4, <2>2
<1> QED
  BY <1>4

\* g is the sum of w over every subset of S, whatever element is taken first.
IsSum(g, w, S) ==
    /\ g \in [SUBSET S -> Nat]
    /\ g[{}] = 0
    /\ \A s \in SUBSET S : \A x \in s : g[s] = w[x] + g[s \ {x}]

LEMMA SumExists ==
    ASSUME NEW S, IsFiniteSet(S), NEW w, \A x \in S : w[x] \in Nat
    PROVE  \E g : IsSum(g, w, S)
<1> DEFINE T == {s \in SUBSET S : ~ \E g : IsSum(g, w, s)}
<1>1. SUFFICES ASSUME T # {}
               PROVE  FALSE
  OBVIOUS
<1>2. PICK m \in T : \A x \in m : m \ {x} \notin T
  <2>1. T \subseteq SUBSET S
    OBVIOUS
  <2> HIDE DEF T
  <2> QED
    BY <1>1, <2>1, MinimalSubset
<1>3. m # {}
  <2>1. SUFFICES ASSUME m = {}
                 PROVE  \E g : IsSum(g, w, m)
    OBVIOUS
  <2>2. IsSum([s \in SUBSET m |-> 0], w, m)
    BY <2>1 DEF IsSum
  <2> QED
    BY <2>2
<1>4. PICK x \in m : TRUE
  BY <1>3
<1>5. PICK h : IsSum(h, w, m \ {x})
  <2>1. m \ {x} \in SUBSET S /\ m \ {x} \notin T
    BY <1>2
  <2> QED
    BY <2>1
<1> DEFINE g == [s \in SUBSET m |-> IF x \in s THEN w[x] + h[s \ {x}] ELSE h[s]]
<1>6. m \subseteq S
  OBVIOUS
<1> HIDE DEF T
<1>7. ASSUME NEW s \in SUBSET m
      PROVE  /\ x \in s => s \ {x} \in SUBSET (m \ {x}) /\ g[s] = w[x] + h[s \ {x}]
             /\ x \notin s => s \in SUBSET (m \ {x}) /\ g[s] = h[s]
  OBVIOUS
<1>8. w[x] \in Nat /\ \A s \in SUBSET (m \ {x}) : h[s] \in Nat
  BY <1>5, <1>6 DEF IsSum
<1>9. g \in [SUBSET m -> Nat]
  BY <1>7, <1>8
<1>10. g[{}] = 0
  BY <1>5, <1>7 DEF IsSum
<1> HIDE DEF g
<1>11. ASSUME NEW s \in SUBSET m, NEW y \in s
       PROVE  g[s] = w[y] + g[s \ {y}]
  <2>1. CASE y = x
    BY <1>7, <2>1
  <2>2. CASE y # x /\ x \notin s
    <3>1. s \in SUBSET (m \ {x}) /\ s \ {y} \in SUBSET m /\ x \notin s \ {y}
      BY <2>2
    <3>2. g[s] = h[s] /\ g[s \ {y}] = h[s \ {y}]
      BY <1>7, <2>2, <3>1
    <3>3. h[s] = w[y] + h[s \ {y}]
      BY <1>5, <3>1 DEF IsSum
    <3> QED
      BY <3>2, <3>3
  <2>3. CASE y # x /\ x \in s
    <3>1. (s \ {y}) \ {x} = (s \ {x}) \ {y}
      OBVIOUS
    <3>2. h[s \ {x}] = w[y] + h[(s \ {x}) \ {y}]
      BY <1>5, <1>7, <2>3 DEF IsSum
    <3>3. g[s \ {y}] = w[x] + h[(s \ {x}) \ {y}]
      BY <1>7, <2>3, <3>1
    <3>4. w[y] \in Nat /\ h[(s \ {x}) \ {y}] \in Nat
      BY <1>5, <1>6 DEF IsSum
    <3> QED
      BY <1>7, <1>8, <2>3, <3>2, <3>3, <3>4
  <2> QED
    BY <2>1, <2>2, <2>3
<1>12. IsSum(g, w, m)
  BY <1>9, <1>10, <1>11 DEF IsSum
<1> QED
  BY <1>2, <1>12 DEF T

LEMMA SumUnique ==
    ASSUME NEW S, IsFiniteSet(S), NEW g, NEW h, NEW v, NEW w,
           IsSum(g, v, S), IsSum(h, w, S), \A x \in S : v[x] = w[x]
    PROVE  g = h
<1> DEFINE T == {s \in SUBSET S : g[s] # h[s]}
<1>1. SUFFICES ASSUME T # {}
               PROVE  FALSE
  BY DEF IsSum
<1>2. PICK m \in T : \A x \in m : m \ {x} \notin T
  <2>1. T \subseteq SUBSET S
    OBVIOUS
  <2> HIDE DEF T
  <2> QED
    BY <1>1, <2>1, MinimalSubset
<1>3. m # {}
  BY DEF IsSum
<1>4. PICK x \in m : TRUE
  BY <1>3
<1>5. g[m \ {x}] = h[m \ {x}]
  BY <1>2
<1> QED
  BY <1>5 DEF IsSum

\* The function a sum of the community modules is computed with.
IsFold(g, w, S) ==
    g = [s \in SUBSET S |-> IF s = {} THEN 0
                            ELSE w[CHOOSE x \in s : TRUE] + g[s \ {CHOOSE x \in s : TRUE}]]

LEMMA FoldExists ==
    ASSUME NEW S, NEW g, NEW w, IsSum(g, w, S)
    PROVE  IsFold(g, w, S)
<1>1. ASSUME NEW s \in SUBSET S, s # {}
      PROVE  g[s] = w[CHOOSE x \in s : TRUE] + g[s \ {CHOOSE x \in s : TRUE}]
  <2>1. (CHOOSE x \in s : TRUE) \in s
    BY <1>1
  <2> QED
    BY <2>1 DEF IsSum
<1> QED
  BY <1>1 DEF IsSum, IsFold

LEMMA FoldUnique ==
    ASSUME NEW S, IsFiniteSet(S), NEW g, NEW h, NEW w, IsSum(g, w, S), IsFold(h, w, S)
    PROVE  g = h
<1> DEFINE T == {s \in SUBSET S : g[s] # h[s]}
<1>0. DOMAIN h = SUBSET S /\ h = [s \in SUBSET S |-> h[s]]
  BY DEF IsFold
<1>1. SUFFICES ASSUME T # {}
               PROVE  FALSE
  BY <1>0 DEF IsSum
<1>2. PICK m \in T : \A x \in m : m \ {x} \notin T
  <2>1. T \subseteq SUBSET S
    OBVIOUS
  <2> HIDE DEF T
  <2> QED
    BY <1>1, <2>1, MinimalSubset
<1>3. m # {}
  BY DEF IsSum, IsFold
<1> DEFINE x == CHOOSE x \in m : TRUE
<1>4. x \in m
  BY <1>3
<1>5. h[m] = w[x] + h[m \ {x}]
  BY <1>3 DEF IsFold
<1> HIDE DEF x
<1>6. g[m \ {x}] = h[m \ {x}]
  BY <1>2, <1>4
<1> QED
  BY <1>4, <1>5, <1>6 DEF IsSum

SumOf(w, S) == (CHOOSE g : IsSum(g, w, S))[S]

LEMMA SumIs ==
    ASSUME NEW S, IsFiniteSet(S), NEW g, NEW w, IsSum(g, w, S)
    PROVE  SumOf(w, S) = g[S]
<1>1. IsSum(CHOOSE f : IsSum(f, w, S), w, S)
  OBVIOUS
<1> HIDE DEF IsSum
<1>2. (CHOOSE f : IsSum(f, w, S)) = g
  BY <1>1, SumUnique
<1> QED
  BY <1>2 DEF SumOf

LEMMA SumFacts ==
    ASSUME NEW S, IsFiniteSet(S), NEW w, \A x \in S : w[x] \in Nat
    PROVE  /\ SumOf(w, S) \in Nat
           /\ S = {} => SumOf(w, S) = 0
           /\ \A x \in S : SumOf(w, S) = w[x] + SumOf(w, S \ {x})
<1>1. PICK g : IsSum(g, w, S)
  BY SumExists
<1>2. SumOf(w, S) = g[S]
  BY <1>1, SumIs
<1>3. ASSUME NEW x \in S
      PROVE  SumOf(w, S) = w[x] + SumOf(w, S \ {x})
  <2> DEFINE R == S \ {x}
             h == [s \in SUBSET R |-> g[s]]
  <2>1. IsSum(h, w, R)
    BY <1>1 DEF IsSum
  <2>2. IsFiniteSet(R)
    BY FS_RemoveElement
  <2>3. SumOf(w, R) = h[R]
    <3> HIDE DEF h, R
    <3> QED
      BY <2>1, <2>2, SumIs
  <2> QED
    BY <1>1, <1>2, <2>3 DEF IsSum
<1> QED
  BY <1>1, <1>2, <1>3 DEF IsSum

LEMMA SumAdds ==
    ASSUME NEW S, IsFiniteSet(S), NEW w, NEW x, x \notin S,
           \A y \in S \cup {x} : w[y] \in Nat
    PROVE  SumOf(w, S \cup {x}) = SumOf(w, S) + w[x]
<1>1. IsFiniteSet(S \cup {x})
  BY FS_AddElement
<1>2. (S \cup {x}) \ {x} = S
  OBVIOUS
<1>3. SumOf(w, S \cup {x}) = w[x] + SumOf(w, S)
  BY <1>1, <1>2, SumFacts
<1>4. SumOf(w, S) \in Nat
  BY SumFacts
<1> QED
  BY <1>3, <1>4

LEMMA SumSame ==
    ASSUME NEW S, IsFiniteSet(S), NEW v, NEW w, \A x \in S : v[x] = w[x] /\ w[x] \in Nat
    PROVE  SumOf(v, S) = SumOf(w, S)
<1>1. PICK g : IsSum(g, w, S)
  BY SumExists
<1>2. PICK h : IsSum(h, v, S)
  BY SumExists
<1>3. g = h
  BY <1>1, <1>2, SumUnique
<1> QED
  BY <1>1, <1>2, <1>3, SumIs

\* Elements that weigh nothing may be left out.
LEMMA SumOverSupport ==
    ASSUME NEW S, IsFiniteSet(S), NEW R \in SUBSET S, NEW w, \A x \in S : w[x] \in Nat,
           \A x \in S \ R : w[x] = 0
    PROVE  SumOf(w, S) = SumOf(w, R)
<1> DEFINE T == {U \in SUBSET (S \ R) : SumOf(w, R \cup U) # SumOf(w, R)}
<1>1. SUFFICES ASSUME T # {}
               PROVE  FALSE
  <2> DEFINE D == S \ R
  <2>1. T = {} => SumOf(w, R \cup D) = SumOf(w, R)
    OBVIOUS
  <2>2. R \cup D = S
    OBVIOUS
  <2> HIDE DEF T, D
  <2> QED
    BY <2>1, <2>2
<1>2. PICK U \in T : \A x \in U : U \ {x} \notin T
  <2>1. T \subseteq SUBSET (S \ R) /\ IsFiniteSet(S \ R)
    BY FS_Subset
  <2> HIDE DEF T
  <2> QED
    BY <1>1, <2>1, MinimalSubset
<1>3. PICK x \in U : TRUE
  <2>1. U # {}
    BY DEF T
  <2> QED
    BY <2>1
<1>4. SumOf(w, R \cup (U \ {x})) = SumOf(w, R)
  BY <1>2
<1> DEFINE V == R \cup (U \ {x})
<1>5. IsFiniteSet(V) /\ x \notin V /\ V \cup {x} = R \cup U /\ V \cup {x} \subseteq S
  BY FS_Subset
<1>6. w[x] = 0
  OBVIOUS
<1>7. SumOf(w, V) \in Nat
  BY <1>5, SumFacts
<1>8. SumOf(w, V \cup {x}) = SumOf(w, V) + w[x]
  <2> HIDE DEF V, T
  <2> QED
    BY <1>5, SumAdds
<1>9. SumOf(w, R \cup U) # SumOf(w, R)
  OBVIOUS
<1> HIDE DEF V, T
<1>10. SumOf(w, V) = SumOf(w, R)
  BY <1>4 DEF V
<1>11. SumOf(w, V \cup {x}) = SumOf(w, V)
  BY <1>6, <1>7, <1>8
<1> QED
  BY <1>5, <1>9, <1>10, <1>11, Zenon

\* One weight changes.
LEMMA SumMoves ==
    ASSUME NEW S, IsFiniteSet(S), NEW v, NEW w, NEW x \in S,
           \A y \in S : v[y] \in Nat /\ w[y] \in Nat,
           \A y \in S \ {x} : v[y] = w[y]
    PROVE  /\ SumOf(v, S) \in Nat /\ SumOf(w, S) \in Nat
           /\ SumOf(v, S) + w[x] = SumOf(w, S) + v[x]
<1>1. IsFiniteSet(S \ {x})
  BY FS_RemoveElement
<1>2. SumOf(v, S \ {x}) = SumOf(w, S \ {x}) /\ SumOf(w, S \ {x}) \in Nat
  BY <1>1, SumSame, SumFacts
<1>3. /\ SumOf(v, S) = v[x] + SumOf(v, S \ {x})
      /\ SumOf(w, S) = w[x] + SumOf(w, S \ {x})
      /\ SumOf(v, S) \in Nat /\ SumOf(w, S) \in Nat
  BY SumFacts
<1> QED
  BY <1>2, <1>3

-------------------------------------------------------------------------------
(* What CapacityHeld measures: the quantity of each live booking, and the capacity *)
(* each request holds for a row that is not written yet or not released yet.       *)

ReleasePcs == {"cancelRelease", "sweepRelease"}
HeldPcs == {"bookRow"} \cup ReleasePcs

Wanted == [b \in Bookings |-> IF b \in Live THEN bookings[b].quantity ELSE 0]
Held == [r \in Requests |->
            IF At(r, "bookRow") THEN req[r].quantity
            ELSE IF req[r].pc \in ReleasePcs THEN bookings[req[r].booking].quantity
            ELSE 0]
Queued == SumOf(Wanted, Bookings)
Pending == SumOf(Held, Requests)

\* What a request is about to release belongs to a row.
ReleaseInv == \A r \in Requests : req[r].pc \in ReleasePcs =>
                  bookings[req[r].booking].status # "ABSENT"

CapInv ==
    /\ ReleaseInv
    /\ overwritten = {} =>
          /\ Queued + Pending <= counter
          /\ counter <= Cap
          /\ aborts = 0 => counter = Queued + Pending

WeightsInNat == /\ \A b \in Bookings : Wanted[b] \in Nat
                /\ \A r \in Requests : Held[r] \in Nat

LEMMA WeightTypes == TypeOK => WeightsInNat
<1> SUFFICES ASSUME TypeOK
             PROVE  WeightsInNat
  OBVIOUS
<1>1. \A b \in Bookings : bookings[b].quantity \in Nat
  BY DEF TypeOK
<1>2. ASSUME NEW r \in Requests
      PROVE  Held[r] \in Nat
  <2>1. At(r, "bookRow") => req[r].quantity \in Nat
    BY ContinuationType, QuantityType DEF At
  <2>2. req[r].pc \in ReleasePcs => req[r].booking \in Bookings
    BY ContinuationType DEF ReleasePcs, BookingPcs
  <2> QED
    BY <1>1, <2>1, <2>2 DEF Held
<1> QED
  BY <1>1, <1>2 DEF Wanted, WeightsInNat

LEMMA WeightTypesAfter == TypeOK' => WeightsInNat'
  BY WeightTypes, PTL

-------------------------------------------------------------------------------
(* The three sums of CapacityHeld are these two *)

LEMMA TotalIs ==
    ASSUME TypeOK
    PROVE  Total(Live) = Queued
<1> DEFINE v == Wanted
           P(f) == f = [s \in SUBSET Live |->
                          IF s = {} THEN 0
                          ELSE bookings[CHOOSE x \in s : TRUE].quantity
                               + f[s \ {CHOOSE x \in s : TRUE}]]
<1>1. /\ IsFiniteSet(Bookings) /\ IsFiniteSet(Live) /\ Live \in SUBSET Bookings
      /\ \A b \in Live : v[b] = bookings[b].quantity
      /\ \A b \in Bookings \ Live : v[b] = 0
      /\ \A b \in Bookings : v[b] \in Nat
  <2>1. Live \in SUBSET Bookings
    BY DEF Live, InStatus
  <2> QED
    BY <2>1, RequestsAssumption, FS_Subset, WeightTypes DEF WeightsInNat, Wanted
<1> HIDE DEF v
<1>2. PICK g : IsSum(g, v, Live)
  BY <1>1, SumExists
<1>3. ASSUME NEW f
      PROVE  P(f) <=> IsFold(f, v, Live)
  <2>1. ASSUME NEW s \in SUBSET Live, s # {}
        PROVE  bookings[CHOOSE x \in s : TRUE].quantity = v[CHOOSE x \in s : TRUE]
    <3>1. (CHOOSE x \in s : TRUE) \in Live
      BY <2>1
    <3> QED
      BY <1>1, <3>1
  <2> QED
    BY <2>1 DEF IsFold
<1>4. P(CHOOSE f : P(f))
  <2>1. P(g)
    BY <1>2, <1>3, FoldExists
  <2> QED
    BY <2>1, Zenon
<1>5. (CHOOSE f : P(f)) = g
  BY <1>1, <1>2, <1>3, <1>4, FoldUnique
<1>6. Total(Live) = (CHOOSE f : P(f))[Live]
  BY DEF Total, MapThenSumSet, MapThenFoldSet
<1>7. Total(Live) = SumOf(v, Live)
  BY <1>1, <1>2, <1>5, <1>6, SumIs
<1> QED
  BY <1>1, <1>7, SumOverSupport DEF Queued, v

Reserved == {r \in Requests : At(r, "bookRow")}
Unreleased == {r \in Requests : At(r, "cancelRelease") \/ At(r, "sweepRelease")}

LEMMA ReservedIs ==
    ASSUME TypeOK
    PROVE  MapThenSumSet(LAMBDA r : req[r].quantity, Reserved) = SumOf(Held, Reserved)
<1> DEFINE P(f) == f = [s \in SUBSET Reserved |->
                          IF s = {} THEN 0
                          ELSE req[CHOOSE x \in s : TRUE].quantity
                               + f[s \ {CHOOSE x \in s : TRUE}]]
<1>1. /\ IsFiniteSet(Reserved) /\ Reserved \in SUBSET Requests
      /\ \A r \in Reserved : Held[r] = req[r].quantity /\ Held[r] \in Nat
  <2>1. Reserved \in SUBSET Requests
    BY DEF Reserved
  <2> QED
    BY <2>1, RequestsAssumption, FS_Subset, WeightTypes DEF WeightsInNat, Held, Reserved
<1>2. PICK g : IsSum(g, Held, Reserved)
  BY <1>1, SumExists
<1>3. ASSUME NEW f
      PROVE  P(f) <=> IsFold(f, Held, Reserved)
  <2>1. ASSUME NEW s \in SUBSET Reserved, s # {}
        PROVE  req[CHOOSE x \in s : TRUE].quantity = Held[CHOOSE x \in s : TRUE]
    <3>1. (CHOOSE x \in s : TRUE) \in Reserved
      BY <2>1
    <3> QED
      BY <1>1, <3>1
  <2> QED
    BY <2>1 DEF IsFold
<1>4. P(CHOOSE f : P(f))
  <2>1. P(g)
    BY <1>2, <1>3, FoldExists
  <2> QED
    BY <2>1, Zenon
<1>5. (CHOOSE f : P(f)) = g
  BY <1>1, <1>2, <1>3, <1>4, FoldUnique
<1>6. MapThenSumSet(LAMBDA r : req[r].quantity, Reserved) = (CHOOSE f : P(f))[Reserved]
  BY DEF MapThenSumSet, MapThenFoldSet
<1>7. SumOf(Held, Reserved) = g[Reserved]
  BY <1>1, <1>2, SumIs
<1> QED
  BY <1>5, <1>6, <1>7, Zenon

LEMMA UnreleasedIs ==
    ASSUME TypeOK
    PROVE  MapThenSumSet(LAMBDA r : bookings[req[r].booking].quantity, Unreleased)
             = SumOf(Held, Unreleased)
<1> DEFINE P(f) == f = [s \in SUBSET Unreleased |->
                          IF s = {} THEN 0
                          ELSE bookings[req[CHOOSE x \in s : TRUE].booking].quantity
                               + f[s \ {CHOOSE x \in s : TRUE}]]
<1>1. /\ IsFiniteSet(Unreleased) /\ Unreleased \in SUBSET Requests
      /\ \A r \in Unreleased : /\ Held[r] = bookings[req[r].booking].quantity
                               /\ Held[r] \in Nat
  <2>1. Unreleased \in SUBSET Requests
    BY DEF Unreleased
  <2>2. \A r \in Unreleased : Held[r] = bookings[req[r].booking].quantity
    BY DEF Held, Unreleased, ReleasePcs, At
  <2> QED
    BY <2>1, <2>2, RequestsAssumption, FS_Subset, WeightTypes DEF WeightsInNat
<1>2. PICK g : IsSum(g, Held, Unreleased)
  BY <1>1, SumExists
<1>3. ASSUME NEW f
      PROVE  P(f) <=> IsFold(f, Held, Unreleased)
  <2>1. ASSUME NEW s \in SUBSET Unreleased, s # {}
        PROVE  bookings[req[CHOOSE x \in s : TRUE].booking].quantity
                 = Held[CHOOSE x \in s : TRUE]
    <3>1. (CHOOSE x \in s : TRUE) \in Unreleased
      BY <2>1
    <3> QED
      BY <1>1, <3>1
  <2> QED
    BY <2>1 DEF IsFold
<1>4. P(CHOOSE f : P(f))
  <2>1. P(g)
    BY <1>2, <1>3, FoldExists
  <2> QED
    BY <2>1, Zenon
<1>5. (CHOOSE f : P(f)) = g
  BY <1>1, <1>2, <1>3, <1>4, FoldUnique
<1>6. MapThenSumSet(LAMBDA r : bookings[req[r].booking].quantity, Unreleased)
        = (CHOOSE f : P(f))[Unreleased]
  BY DEF MapThenSumSet, MapThenFoldSet
<1>7. SumOf(Held, Unreleased) = g[Unreleased]
  BY <1>1, <1>2, SumIs
<1> QED
  BY <1>5, <1>6, <1>7, Zenon

LEMMA SumSplits ==
    ASSUME NEW S, IsFiniteSet(S), NEW A \in SUBSET S, NEW B \in SUBSET S, A \cap B = {},
           NEW w, \A x \in S : w[x] \in Nat, \A x \in S \ (A \cup B) : w[x] = 0
    PROVE  SumOf(w, S) = SumOf(w, A) + SumOf(w, B)
<1> DEFINE T == {U \in SUBSET B : SumOf(w, A \cup U) # SumOf(w, A) + SumOf(w, U)}
<1>1. SumOf(w, S) = SumOf(w, A \cup B)
  <2>1. A \cup B \in SUBSET S
    OBVIOUS
  <2> QED
    BY <2>1, SumOverSupport
<1>2. IsFiniteSet(A) /\ IsFiniteSet(B)
  BY FS_Subset
<1>3. T = {}
  <2>1. SUFFICES ASSUME T # {}
                 PROVE  FALSE
    OBVIOUS
  <2>2. PICK U \in T : \A x \in U : U \ {x} \notin T
    <3>1. T \subseteq SUBSET B
      OBVIOUS
    <3> HIDE DEF T
    <3> QED
      BY <1>2, <2>1, <3>1, MinimalSubset
  <2>3. SumOf(w, A) \in Nat
    BY <1>2, SumFacts
  <2>4. U # {}
    <3>1. SUFFICES ASSUME U = {}
                   PROVE  FALSE
      OBVIOUS
    <3>2. SumOf(w, {}) = 0
      BY FS_EmptySet, SumFacts
    <3>3. A \cup U = A
      BY <3>1
    <3>4. SumOf(w, A \cup U) # SumOf(w, A) + SumOf(w, U)
      OBVIOUS
    <3> HIDE DEF T
    <3> QED
      BY <2>3, <3>1, <3>2, <3>3, <3>4
  <2>5. PICK x \in U : TRUE
    BY <2>4
  <2> DEFINE R == U \ {x}
  <2>6. SumOf(w, A \cup R) = SumOf(w, A) + SumOf(w, R)
    BY <2>2
  <2>7. SumOf(w, A \cup U) # SumOf(w, A) + SumOf(w, U)
    OBVIOUS
  <2>8. /\ IsFiniteSet(R) /\ IsFiniteSet(A \cup R) /\ x \notin R /\ x \notin A \cup R
        /\ R \cup {x} = U /\ (A \cup R) \cup {x} = A \cup U
        /\ \A y \in A \cup U : w[y] \in Nat
    BY FS_Subset
  <2> HIDE DEF T, R
  <2>9. SumOf(w, A \cup U) = SumOf(w, A \cup R) + w[x]
    <3>1. \A y \in (A \cup R) \cup {x} : w[y] \in Nat
      BY <2>8
    <3>2. SumOf(w, (A \cup R) \cup {x}) = SumOf(w, A \cup R) + w[x]
      BY <2>8, <3>1, SumAdds
    <3> QED
      BY <2>8, <3>2, Zenon
  <2>10. SumOf(w, U) = SumOf(w, R) + w[x] /\ SumOf(w, R) \in Nat /\ w[x] \in Nat
    <3>1. \A y \in R \cup {x} : w[y] \in Nat
      BY <2>8
    <3>2. SumOf(w, R \cup {x}) = SumOf(w, R) + w[x]
      BY <2>8, <3>1, SumAdds
    <3>3. SumOf(w, R) \in Nat /\ w[x] \in Nat
      BY <2>8, <3>1, SumFacts
    <3> QED
      BY <2>8, <3>2, <3>3, Zenon
  <2> QED
    BY <2>3, <2>6, <2>7, <2>9, <2>10
<1> QED
  BY <1>1, <1>3

LEMMA InFlightIs ==
    ASSUME TypeOK
    PROVE  InFlight = Pending
<1>1. /\ Reserved \in SUBSET Requests /\ Unreleased \in SUBSET Requests
      /\ Reserved \cap Unreleased = {}
  BY DEF Reserved, Unreleased, At
<1>2. \A r \in Requests \ (Reserved \cup Unreleased) : Held[r] = 0
  BY DEF Reserved, Unreleased, Held, ReleasePcs, At
<1>3. Pending = SumOf(Held, Reserved) + SumOf(Held, Unreleased)
  BY <1>1, <1>2, RequestsAssumption, WeightTypes, SumSplits DEF WeightsInNat, Pending
<1>4. InFlight = MapThenSumSet(LAMBDA r : req[r].quantity, Reserved)
                 + MapThenSumSet(LAMBDA r : bookings[req[r].booking].quantity, Unreleased)
  BY Zenon DEF InFlight, Reserved, Unreleased
<1> QED
  BY <1>3, <1>4, ReservedIs, UnreleasedIs, Zenon

LEMMA CapacityIs == TypeOK /\ CapInv => CapacityHeld
  BY TotalIs, InFlightIs DEF CapInv, CapacityHeld

-------------------------------------------------------------------------------
(* Steps *)

\* One request moves: the capacity the others hold is what it was.
LEMMA HeldElsewhere ==
    ASSUME TypeOK, CapInv, NEW r \in Requests,
           \A s \in Requests \ {r} : req'[s] = req[s],
           \A b \in Bookings : bookings[b].status # "ABSENT" =>
               bookings'[b].quantity = bookings[b].quantity
    PROVE  \A s \in Requests \ {r} : Held'[s] = Held[s]
<1> SUFFICES ASSUME NEW s \in Requests \ {r}
             PROVE  Held'[s] = Held[s]
  OBVIOUS
<1>1. req[s].pc \in ReleasePcs => /\ req[s].booking \in Bookings
                                  /\ bookings[req[s].booking].status # "ABSENT"
  BY ContinuationType DEF CapInv, ReleaseInv, ReleasePcs, BookingPcs
<1> QED
  BY <1>1 DEF Held, At

\* The other requests go on releasing rows that exist.
LEMMA ReleaseElsewhere ==
    ASSUME TypeOK, CapInv, NEW r \in Requests,
           \A s \in Requests \ {r} : req'[s] = req[s],
           \A b \in Bookings : bookings[b].status # "ABSENT" => bookings'[b].status # "ABSENT",
           req'[r].pc \in ReleasePcs =>
               req'[r].booking \in Bookings /\ bookings'[req'[r].booking].status # "ABSENT"
    PROVE  ReleaseInv'
<1> SUFFICES ASSUME NEW s \in Requests, req'[s].pc \in ReleasePcs
             PROVE  bookings'[req'[s].booking].status # "ABSENT"
  BY DEF ReleaseInv
<1>1. CASE s # r
  <2>1. req'[s] = req[s] /\ req[s].booking \in Bookings
    BY <1>1, ContinuationType DEF ReleasePcs, BookingPcs
  <2> QED
    BY <2>1 DEF CapInv, ReleaseInv
<1> QED
  BY <1>1

\* A step that neither reserves nor releases capacity.
LEMMA CapQuiet ==
    ASSUME TypeOK, TypeOK', CapInv, NEW r \in Requests,
           \A s \in Requests \ {r} : req'[s] = req[s],
           req[r].pc \notin HeldPcs, req'[r].pc \notin HeldPcs,
           UNCHANGED <<counter, aborts>>, overwritten \subseteq overwritten',
           \A b \in Bookings :
              /\ bookings[b].status # "ABSENT" => bookings'[b].status # "ABSENT"
              /\ bookings'[b].quantity = bookings[b].quantity
              /\ overwritten' = {} => (b \in Live' <=> b \in Live)
    PROVE  CapInv'
<1>1. ReleaseInv'
  BY ReleaseElsewhere DEF HeldPcs
<1>2. \A s \in Requests : Held'[s] = Held[s]
  <2>1. Held[r] = 0 /\ Held'[r] = 0
    BY DEF Held, HeldPcs, ReleasePcs, At
  <2> QED
    BY <2>1, HeldElsewhere
<1>3. Pending' = Pending
  BY <1>2, SumSame, WeightTypes, RequestsAssumption DEF WeightsInNat, Pending
<1>4. overwritten' = {} => Queued' = Queued
  <2>1. overwritten' = {} => \A b \in Bookings : Wanted'[b] = Wanted[b]
    BY DEF Wanted
  <2> QED
    BY <2>1, SumSame, WeightTypes, RequestsAssumption DEF WeightsInNat, Queued
<1> QED
  BY <1>1, <1>3, <1>4 DEF CapInv

\* A request moves and with it the capacity it holds, on its own or with one booking.
LEMMA PendingMoves ==
    ASSUME TypeOK, TypeOK', CapInv, NEW r \in Requests,
           \A s \in Requests \ {r} : req'[s] = req[s],
           \A b \in Bookings : bookings[b].status # "ABSENT" =>
               bookings'[b].quantity = bookings[b].quantity
    PROVE  /\ Pending \in Nat /\ Pending' \in Nat
           /\ Held[r] \in Nat /\ Held'[r] \in Nat
           /\ Pending' + Held[r] = Pending + Held'[r]
<1>1. \A s \in Requests : Held'[s] \in Nat /\ Held[s] \in Nat
  <2>1. \A s \in Requests : Held'[s] \in Nat
    BY WeightTypesAfter DEF WeightsInNat
  <2> QED
    BY <2>1, WeightTypes DEF WeightsInNat
<1> QED
  BY <1>1, HeldElsewhere, SumMoves, RequestsAssumption DEF Pending

LEMMA QueuedMoves ==
    ASSUME TypeOK, TypeOK', NEW b \in Bookings,
           \A a \in Bookings \ {b} : bookings'[a] = bookings[a]
    PROVE  /\ Queued \in Nat /\ Queued' \in Nat
           /\ Wanted[b] \in Nat /\ Wanted'[b] \in Nat
           /\ Queued' + Wanted[b] = Queued + Wanted'[b]
<1>1. \A a \in Bookings : Wanted'[a] \in Nat /\ Wanted[a] \in Nat
  BY WeightTypes, WeightTypesAfter DEF WeightsInNat
<1>2. \A a \in Bookings \ {b} : Wanted'[a] = Wanted[a]
  BY DEF Wanted, Live, InStatus
<1> QED
  BY <1>1, <1>2, SumMoves, RequestsAssumption DEF Queued

LEMMA QueuedStays ==
    ASSUME TypeOK, UNCHANGED bookings
    PROVE  Queued' = Queued /\ Queued \in Nat
<1>1. \A b \in Bookings : Wanted'[b] = Wanted[b]
  BY DEF Wanted, Live, InStatus
<1> QED
  BY <1>1, SumSame, SumFacts, WeightTypes, RequestsAssumption DEF WeightsInNat, Queued

LEMMA Becoming ==
    ASSUME TypeOK, NEW r \in Requests, NEW cont, Becomes(r, cont)
    PROVE  req'[r] = cont
  BY DEF Becomes, TypeOK

LEMMA CapReserve ==
    ASSUME TypeOK, TypeOK', CapInv, NEW r \in Requests, Reserve(r),
           \A s \in Requests \ {r} : req'[s] = req[s]
    PROVE  CapInv'
<1> DEFINE q == req[r].quantity
<1>1. /\ req[r].pc = "reserve" /\ q \in Nat /\ counter \in Int
      /\ UNCHANGED <<bookings, aborts, overwritten>>
  BY ContinuationType, QuantityType DEF Reserve, At, rows, TypeOK
<1>2. CASE counter' = counter /\ req'[r] = Idle
  <2>1. Idle.pc = "idle" /\ Live' = Live
    BY <1>1 DEF Idle, Live, InStatus
  <2> QED
    BY <1>1, <1>2, <2>1, CapQuiet DEF HeldPcs, ReleasePcs
<1>3. CASE FitsCap(q) /\ counter' = counter + q
           /\ req'[r] = [pc |-> "bookRow", quantity |-> q]
  <2>1. req'[r].pc = "bookRow" /\ req'[r].quantity = q
    BY <1>3
  <2>2. Held[r] = 0 /\ Held'[r] = q
    BY <1>1, <2>1 DEF Held, ReleasePcs, At
  <2>3. /\ Pending \in Nat /\ Pending' = Pending + q
    BY <1>1, <2>2, PendingMoves
  <2>4. Queued' = Queued /\ Queued \in Nat
    BY <1>1, QueuedStays
  <2>5. ReleaseInv'
    BY <1>1, <2>1, ReleaseElsewhere DEF ReleasePcs
  <2>6. Cap \in Nat /\ counter' <= Cap
    BY <1>3, CapAssumption DEF FitsCap
  <2> HIDE DEF q
  <2> QED
    BY <1>1, <1>3, <2>3, <2>4, <2>5, <2>6 DEF CapInv
<1> QED
  BY <1>2, <1>3, Becoming DEF Reserve

\* Arithmetic of two sums: what becomes of the total when one of them moves.
LEMMA OneFalls ==
    ASSUME NEW k \in Nat, NEW p \in Nat, NEW q \in Nat
    PROVE  k + p = (k + (p + q)) - q
  OBVIOUS

LEMMA OneShrinks ==
    ASSUME NEW k \in Nat, NEW p \in Nat, NEW p2 \in Nat, p2 <= p, NEW c \in Int, k + p <= c
    PROVE  k + p2 <= c
  OBVIOUS

LEMMA OneFallsAsOneRises ==
    ASSUME NEW k \in Nat, NEW p \in Nat, NEW q \in Nat
    PROVE  k + (p + q) = (k + q) + p
  OBVIOUS

LEMMA CapBookRow ==
    ASSUME TypeOK, TypeOK', CapInv, NEW r \in Requests, BookRow(r),
           \A s \in Requests \ {r} : req'[s] = req[s]
    PROVE  CapInv'
<1> DEFINE q == req[r].quantity
<1>1. /\ req[r].pc = "bookRow" /\ q \in Nat /\ req'[r] = Idle
      /\ UNCHANGED <<counter, aborts, overwritten>> /\ counter \in Int /\ Cap \in Nat
  BY ContinuationType, QuantityType, Becoming, CapAssumption DEF BookRow, At, redis, TypeOK
<1>2. PICK b \in Bookings :
         /\ bookings[b].status = "ABSENT"
         /\ bookings' = [bookings EXCEPT ![b] = [status |-> "QUEUED", quantity |-> q]]
  BY DEF BookRow, InStatus
<1>3. /\ bookings'[b].status = "QUEUED" /\ bookings'[b].quantity = q
      /\ \A a \in Bookings \ {b} : bookings'[a] = bookings[a]
  BY <1>2 DEF TypeOK
<1>4. Idle.pc = "idle"
  BY DEF Idle
<1>5. ReleaseInv'
  BY <1>1, <1>2, <1>3, <1>4, ReleaseElsewhere DEF ReleasePcs
<1>6. Held[r] = q /\ Held'[r] = 0
  BY <1>1, <1>4 DEF Held, At, ReleasePcs
<1>7. Pending \in Nat /\ Pending' \in Nat /\ Pending' + q = Pending
  BY <1>1, <1>2, <1>3, <1>6, PendingMoves
<1>8. Wanted[b] = 0 /\ Wanted'[b] = q
  BY <1>2, <1>3 DEF Wanted, Live, InStatus
<1>9. Queued \in Nat /\ Queued' = Queued + q
  BY <1>1, <1>3, <1>8, QueuedMoves
<1>10. q \in Nat
  BY <1>1
<1> HIDE DEF q
<1>11. Queued' + Pending' = Queued + Pending
  BY <1>7, <1>9, <1>10
<1> QED
  BY <1>1, <1>5, <1>11 DEF CapInv

\* A live booking ends, and its capacity is held by the request that will release it.
LEMMA CapBookingEnds ==
    ASSUME TypeOK, TypeOK', CapInv, NEW r \in Requests, NEW b \in Bookings,
           \A s \in Requests \ {r} : req'[s] = req[s],
           NEW s \in {"CANCELLED", "EXPIRED"}, SetStatus(b, s),
           req[r].pc \notin HeldPcs, req'[r].pc \in ReleasePcs, req'[r].booking = b,
           UNCHANGED <<counter, aborts>>, overwritten \subseteq overwritten',
           overwritten' = {} => b \in Live
    PROVE  CapInv'
<1> DEFINE q == bookings[b].quantity
<1>1. bookings[b] \in BookingRow /\ q \in Nat /\ counter \in Int /\ Cap \in Nat
  BY CapAssumption DEF TypeOK, BookingRow
<1>2. /\ bookings'[b].status = s /\ bookings'[b].quantity = q
      /\ \A a \in Bookings \ {b} : bookings'[a] = bookings[a]
  <2>1. bookings' = [bookings EXCEPT ![b] = [bookings[b] EXCEPT !.status = s]]
    BY DEF SetStatus
  <2>2. /\ [bookings[b] EXCEPT !.status = s].status = s
        /\ [bookings[b] EXCEPT !.status = s].quantity = q
    BY <1>1 DEF BookingRow
  <2> QED
    BY <2>1, <2>2 DEF TypeOK
<1>3. \A a \in Bookings : bookings'[a].quantity = bookings[a].quantity
  BY <1>2
<1>4. ReleaseInv'
  BY <1>2, ReleaseElsewhere
<1>5. Held[r] = 0 /\ Held'[r] = q
  BY <1>2 DEF Held, HeldPcs, ReleasePcs, At
<1>6. Pending \in Nat /\ Pending' = Pending + q
  BY <1>1, <1>3, <1>5, PendingMoves
<1>7. overwritten' = {} => Wanted[b] = q /\ Wanted'[b] = 0
  BY <1>2 DEF Wanted, Live, InStatus
<1>8. Queued \in Nat /\ Queued' \in Nat /\ (overwritten' = {} => Queued' + q = Queued)
  BY <1>1, <1>2, <1>7, QueuedMoves
<1>9. q \in Nat
  BY <1>1
<1> HIDE DEF q
<1>10. overwritten' = {} => Queued' + Pending' = Queued + Pending
  <2>1. Queued' + (Pending + q) = (Queued' + q) + Pending
    BY <1>6, <1>8, <1>9, OneFallsAsOneRises, Zenon
  <2> QED
    BY <2>1, <1>6, <1>8, Zenon
<1>11. overwritten' = {} => overwritten = {}
  OBVIOUS
<1> QED
  BY <1>4, <1>10, <1>11 DEF CapInv

LEMMA CapCancelRow ==
    ASSUME TypeOK, TypeOK', CapInv, NEW r \in Requests, CancelRow(r),
           \A s \in Requests \ {r} : req'[s] = req[s]
    PROVE  CapInv'
<1> DEFINE b == req[r].booking
<1>1. req[r].pc = "cancelRow" /\ b \in Bookings /\ SetStatus(b, "CANCELLED")
  BY ContinuationType DEF CancelRow, At, BookingPcs
<1>2. req'[r] = [pc |-> "cancelRelease", booking |-> b]
  BY Becoming DEF CancelRow, GoesTo
<1>3. UNCHANGED <<counter, aborts>>
  BY DEF CancelRow, redis
<1>4. overwritten' = IF bookings[b].status = "QUEUED" THEN overwritten
                     ELSE overwritten \cup {b}
  BY DEF CancelRow
<1>5. req[r].pc \notin HeldPcs /\ req'[r].pc \in ReleasePcs /\ req'[r].booking = b
  BY <1>1, <1>2 DEF HeldPcs, ReleasePcs
<1>6. overwritten \subseteq overwritten' /\ (overwritten' = {} => b \in Live)
  BY <1>1, <1>4 DEF Live, InStatus
<1> HIDE DEF b
<1> QED
  BY <1>1, <1>3, <1>4, <1>5, <1>6, CapBookingEnds

\* The capacity of a booking that has ended is released.
LEMMA CapRelease ==
    ASSUME TypeOK, TypeOK', CapInv, NEW r \in Requests,
           req[r].pc \in ReleasePcs, Release(req[r].booking), req'[r].pc \notin HeldPcs,
           \A s \in Requests \ {r} : req'[s] = req[s],
           UNCHANGED <<bookings, aborts, overwritten>>
    PROVE  CapInv'
<1> DEFINE q == bookings[req[r].booking].quantity
<1>1. req[r].booking \in Bookings /\ q \in Nat /\ counter \in Int /\ Cap \in Nat
  BY ContinuationType, CapAssumption DEF ReleasePcs, BookingPcs, TypeOK
<1>2. counter' = counter - q
  BY DEF Release
<1>3. ReleaseInv'
  BY ReleaseElsewhere DEF HeldPcs
<1>4. Held[r] = q /\ Held'[r] = 0
  BY DEF Held, HeldPcs, ReleasePcs, At
<1>5. Pending \in Nat /\ Pending' \in Nat /\ Pending' + q = Pending
  BY <1>1, <1>4, PendingMoves
<1>6. Queued' = Queued /\ Queued \in Nat
  BY QueuedStays
<1>7. q \in Nat
  BY <1>1
<1>8. counter \in Int /\ Cap \in Nat
  BY <1>1
<1> HIDE DEF q
<1>9. Queued' + Pending' = (Queued + Pending) - q
  <2>1. Queued + Pending' = (Queued + (Pending' + q)) - q
    BY <1>5, <1>6, <1>7, OneFalls, Zenon
  <2> QED
    BY <2>1, <1>5, <1>6, Zenon
<1> DEFINE n == Queued + Pending
<1>10. n \in Nat
  BY <1>5, <1>6
<1> HIDE DEF n
<1>11. /\ n <= counter /\ counter <= Cap => n - q <= counter - q /\ counter - q <= Cap
       /\ counter = n => counter - q = n - q
  BY <1>7, <1>8, <1>10
<1> QED
  BY <1>2, <1>3, <1>9, <1>11 DEF CapInv, n

LEMMA CapSweepRow ==
    ASSUME TypeOK, TypeOK', CapInv, NEW r \in Requests, SweepRow(r),
           \A s \in Requests \ {r} : req'[s] = req[s]
    PROVE  CapInv'
<1>1. /\ req[r].pc = "sweep" /\ req[r].todo \in SUBSET Bookings
      /\ UNCHANGED <<counter, aborts, overwritten>>
  BY ContinuationType DEF SweepRow, At, redis
<1>2. PICK b \in req[r].todo :
         \/ /\ StillAwaiting(b)
            /\ SetStatus(b, "EXPIRED")
            /\ Becomes(r, [pc |-> "sweepRelease", booking |-> b, todo |-> req[r].todo \ {b}])
         \/ /\ SweepsOn(r, req[r].todo \ {b})
            /\ UNCHANGED bookings
  BY DEF SweepRow
<1>3. CASE /\ StillAwaiting(b)
           /\ SetStatus(b, "EXPIRED")
           /\ Becomes(r, [pc |-> "sweepRelease", booking |-> b, todo |-> req[r].todo \ {b}])
  <2>1. req'[r] = [pc |-> "sweepRelease", booking |-> b, todo |-> req[r].todo \ {b}]
    BY <1>3, Becoming
  <2>2. /\ b \in Bookings /\ bookings[b].status # "ABSENT" /\ b \in Live
    BY <1>1, <1>3 DEF StillAwaiting, Live, InStatus
  <2> QED
    BY <1>1, <1>3, <2>1, <2>2, CapBookingEnds DEF HeldPcs, ReleasePcs
<1>4. CASE SweepsOn(r, req[r].todo \ {b}) /\ UNCHANGED bookings
  <2>1. req'[r].pc \in {"idle", "sweep"}
    BY <1>1, <1>4, SweepsOnType
  <2>2. Live' = Live
    BY <1>4 DEF Live, InStatus
  <2> QED
    BY <1>1, <1>4, <2>1, <2>2, CapQuiet DEF HeldPcs, ReleasePcs
<1> QED
  BY <1>2, <1>3, <1>4

\* A request that dies leaves its share in the counter for good.
LEMMA CapAbort ==
    ASSUME TypeOK, TypeOK', CapInv, NEW r \in Requests, Abort(r),
           \A s \in Requests \ {r} : req'[s] = req[s]
    PROVE  CapInv'
<1>1. /\ UNCHANGED <<bookings, counter, overwritten>> /\ req'[r] = Idle
      /\ aborts' = aborts + 1 /\ aborts \in Nat /\ counter \in Int
  BY Becoming, BoundsAssumption DEF Abort, rows, redis, TypeOK
<1>2. Idle.pc = "idle"
  BY DEF Idle
<1>3. ReleaseInv'
  BY <1>1, <1>2, ReleaseElsewhere DEF ReleasePcs
<1>4. Held'[r] = 0
  BY <1>1, <1>2 DEF Held, ReleasePcs, At
<1>5. Pending \in Nat /\ Pending' \in Nat /\ Pending' <= Pending
  BY <1>1, <1>4, PendingMoves
<1>6. Queued' = Queued /\ Queued \in Nat
  BY <1>1, QueuedStays
<1>7. counter \in Int
  BY <1>1
<1>8. aborts' # 0
  BY <1>1
<1>9. Queued + Pending <= counter => Queued' + Pending' <= counter
  BY <1>5, <1>6, <1>7, OneShrinks, Zenon
<1> QED
  BY <1>1, <1>3, <1>8, <1>9 DEF CapInv

LEMMA CapHarvestTx ==
    ASSUME TypeOK, TypeOK', CapInv, NEW r \in Requests, HarvestTx(r),
           \A s \in Requests \ {r} : req'[s] = req[s]
    PROVE  CapInv'
<1> DEFINE S == req[r].found
<1>1. /\ req[r].pc = "harvestTx" /\ req'[r] = [pc |-> "setHolds", found |-> S]
      /\ UNCHANGED <<counter, aborts>>
      /\ overwritten' = overwritten \cup (S \ InStatus("QUEUED"))
      /\ bookings' = [b \in Bookings |-> IF b \in S
                         THEN [bookings[b] EXCEPT !.status = "AWAITING_PAYMENT"]
                         ELSE bookings[b]]
  BY Becoming DEF HarvestTx, At, redis
<1>2. ASSUME NEW b \in Bookings
      PROVE  /\ bookings[b].status # "ABSENT" => bookings'[b].status # "ABSENT"
             /\ bookings'[b].quantity = bookings[b].quantity
             /\ overwritten' = {} => (b \in Live' <=> b \in Live)
  <2>1. bookings[b] \in BookingRow
    BY DEF TypeOK, BookingRow
  <2>2. CASE b \notin S
    BY <1>1, <2>2 DEF Live, InStatus
  <2>3. CASE b \in S
    <3>1. /\ bookings'[b].status = "AWAITING_PAYMENT"
          /\ bookings'[b].quantity = bookings[b].quantity
      BY <1>1, <2>1, <2>3 DEF BookingRow
    <3>2. overwritten' = {} => bookings[b].status = "QUEUED"
      BY <1>1, <2>3 DEF InStatus
    <3> QED
      BY <3>1, <3>2 DEF Live, InStatus
  <2> QED
    BY <2>2, <2>3
<1>3. req[r].pc \notin HeldPcs /\ req'[r].pc \notin HeldPcs
  BY <1>1 DEF HeldPcs, ReleasePcs
<1>4. overwritten \subseteq overwritten'
  BY <1>1
<1> HIDE DEF S
<1> QED
  BY <1>1, <1>2, <1>3, <1>4, CapQuiet

LEMMA CapHookTx ==
    ASSUME TypeOK, TypeOK', CapInv, NEW r \in Requests, HookTx(r),
           \A s \in Requests \ {r} : req'[s] = req[s]
    PROVE  CapInv'
<1> DEFINE b == req[r].booking
<1>1. /\ req[r].pc = "hookTx" /\ b \in Bookings
      /\ UNCHANGED <<counter, aborts, overwritten>>
  BY ContinuationType DEF HookTx, At, BookingPcs, redis
<1>2. \/ StillAwaiting(b) /\ SetStatus(b, "CONFIRMED") /\ GoesTo(r, "hookLog", b)
      \/ GoesTo(r, "hookRecord", b) /\ UNCHANGED bookings
  BY DEF HookTx
<1>3. req'[r].pc \in {"hookLog", "hookRecord"}
  <2>1. CASE GoesTo(r, "hookLog", b)
    BY <2>1, Becoming DEF GoesTo
  <2>2. CASE GoesTo(r, "hookRecord", b)
    BY <2>2, Becoming DEF GoesTo
  <2> QED
    BY <1>2, <2>1, <2>2
<1>4. ASSUME NEW a \in Bookings
      PROVE  /\ bookings[a].status # "ABSENT" => bookings'[a].status # "ABSENT"
             /\ bookings'[a].quantity = bookings[a].quantity
             /\ a \in Live' <=> a \in Live
  <2>1. CASE UNCHANGED bookings
    BY <2>1 DEF Live, InStatus
  <2>2. CASE StillAwaiting(b) /\ SetStatus(b, "CONFIRMED")
    <3>1. bookings' = [bookings EXCEPT ![b] = [bookings[b] EXCEPT !.status = "CONFIRMED"]]
      BY <2>2 DEF SetStatus
    <3>2. bookings[b] \in BookingRow /\ bookings[b].status = "AWAITING_PAYMENT"
      BY <1>1, <2>2 DEF TypeOK, BookingRow, StillAwaiting
    <3>3. /\ [bookings[b] EXCEPT !.status = "CONFIRMED"].status = "CONFIRMED"
          /\ [bookings[b] EXCEPT !.status = "CONFIRMED"].quantity = bookings[b].quantity
      BY <3>2 DEF BookingRow
    <3>4. /\ bookings'[b].status = "CONFIRMED" /\ bookings'[b].quantity = bookings[b].quantity
          /\ \A c \in Bookings \ {b} : bookings'[c] = bookings[c]
      BY <1>1, <3>1, <3>3 DEF TypeOK
    <3> QED
      BY <3>2, <3>4 DEF Live, InStatus
  <2> QED
    BY <1>2, <2>1, <2>2
<1> HIDE DEF b
<1> QED
  BY <1>1, <1>3, <1>4, CapQuiet DEF HeldPcs, ReleasePcs

\* The steps that leave bookings and counter alone.
Elsewise(r) ==
    \/ Start(r) \/ HarvestScan(r) \/ SetHolds(r) \/ PayCreate(r) \/ RzCreate(r) \/ Verify(r)
    \/ HookRead(r) \/ HookRecord(r) \/ HookLog(r) \/ HookClear(r) \/ SweepClear(r)

LEMMA ElsewiseMoves ==
    ASSUME TypeOK, NEW r \in Requests, Elsewise(r)
    PROVE  /\ UNCHANGED <<bookings, counter, aborts, overwritten>>
           /\ req[r].pc \notin HeldPcs /\ req'[r].pc \notin HeldPcs
<1>1. UNCHANGED <<bookings, counter, aborts, overwritten>>
  BY DEF Elsewise, Start, StartCreate, StartCancel, StartIntent, StartVerify, Deliver,
     StartHarvest, StartSweep, HarvestScan, SetHolds, PayCreate, RzCreate, Verify, HookRead,
     HookRecord, HookLog, HookClear, SweepClear, rows, redis
<1>2. req[r].pc \notin HeldPcs
  <2>1. \/ req[r] = Idle
        \/ req[r].pc \in {"harvestScan", "setHolds", "payCreate", "rzCreate", "verify", "hook",
                          "hookRecord", "hookLog", "hookClear", "sweepClear"}
    BY DEF Elsewise, Start, StartCreate, StartCancel, StartIntent, StartVerify, Deliver,
       StartHarvest, StartSweep, HarvestScan, SetHolds, PayCreate, RzCreate, Verify, HookRead,
       HookRecord, HookLog, HookClear, SweepClear, At
  <2> QED
    BY <2>1 DEF Idle, HeldPcs, ReleasePcs
<1>3. \/ \E b, pc : /\ pc \in BookingPcs \ ReleasePcs
                    /\ Becomes(r, [pc |-> pc, booking |-> b])
      \/ \E q : Becomes(r, [pc |-> "reserve", quantity |-> q])
      \/ \E y : Becomes(r, [pc |-> "harvestScan", yield |-> y])
      \/ \E y, S : Becomes(r, [pc |-> "harvestTx", yield |-> y, found |-> S])
      \/ \E S : Becomes(r, [pc |-> "sweep", todo |-> S])
      \/ Becomes(r, Idle)
  <2>1. ASSUME NEW b \in Bookings,
               StartCancel(r, b) \/ StartIntent(r, b) \/ StartVerify(r, b) \/ Deliver(r, b)
        PROVE  \E pc : pc \in BookingPcs \ ReleasePcs /\ Becomes(r, [pc |-> pc, booking |-> b])
    BY <2>1 DEF StartCancel, StartIntent, StartVerify, Deliver, GoesTo, BookingPcs, ReleasePcs
  <2>2. CASE PayCreate(r) \/ HookRead(r) \/ HookLog(r)
    BY <2>2 DEF PayCreate, HookRead, HookLog, GoesTo, BookingPcs, ReleasePcs
  <2>3. CASE SetHolds(r) \/ RzCreate(r) \/ Verify(r) \/ HookRecord(r) \/ HookClear(r)
    BY <2>3 DEF SetHolds, RzCreate, Verify, HookRecord, HookClear
  <2>4. CASE HarvestScan(r) \/ \E y \in Yields : StartHarvest(r, y)
    BY <2>4 DEF HarvestScan, StartHarvest
  <2>5. CASE \E q \in Quantities : StartCreate(r, q)
    BY <2>5 DEF StartCreate
  <2>6. CASE StartSweep(r) \/ SweepClear(r)
    BY <2>6 DEF StartSweep, SweepClear, SweepsOn
  <2> QED
    BY <2>1, <2>2, <2>3, <2>4, <2>5, <2>6 DEF Elsewise, Start
<1>4. req'[r].pc \notin HeldPcs
  <2>1. CASE \E b, pc : /\ pc \in BookingPcs \ ReleasePcs
                        /\ Becomes(r, [pc |-> pc, booking |-> b])
    <3>1. PICK b, pc : /\ pc \in BookingPcs \ ReleasePcs
                       /\ Becomes(r, [pc |-> pc, booking |-> b])
      BY <2>1
    <3>2. req'[r].pc = pc
      BY <3>1, Becoming
    <3> QED
      BY <3>1, <3>2 DEF BookingPcs, HeldPcs
  <2>2. CASE \E q : Becomes(r, [pc |-> "reserve", quantity |-> q])
    BY <2>2, Becoming DEF HeldPcs, ReleasePcs
  <2>3. CASE \E y : Becomes(r, [pc |-> "harvestScan", yield |-> y])
    BY <2>3, Becoming DEF HeldPcs, ReleasePcs
  <2>4. CASE \E y, S : Becomes(r, [pc |-> "harvestTx", yield |-> y, found |-> S])
    BY <2>4, Becoming DEF HeldPcs, ReleasePcs
  <2>5. CASE \E S : Becomes(r, [pc |-> "sweep", todo |-> S])
    BY <2>5, Becoming DEF HeldPcs, ReleasePcs
  <2>6. CASE Becomes(r, Idle)
    BY <2>6, Becoming DEF HeldPcs, ReleasePcs, Idle
  <2> QED
    BY <1>3, <2>1, <2>2, <2>3, <2>4, <2>5, <2>6
<1> QED
  BY <1>1, <1>2, <1>4

LEMMA CapStep ==
    ASSUME TypeOK, CapInv, [Next]_vars
    PROVE  CapInv'
<1>1. TypeOK'
  BY TypeStep
<1>2. ASSUME NEW r \in Requests, Start(r) \/ Continue(r) \/ Abort(r)
      PROVE  CapInv'
  <2>1. \A s \in Requests \ {r} : req'[s] = req[s]
    BY <1>2, OthersStay
  <2>2. CASE Elsewise(r)
    <3>1. \A b \in Bookings : b \in Live' <=> b \in Live
      BY <2>2, ElsewiseMoves DEF Live, InStatus
    <3> QED
      BY <1>1, <2>1, <2>2, <3>1, ElsewiseMoves, CapQuiet
  <2>3. CASE Reserve(r) \/ BookRow(r)
    BY <1>1, <2>1, <2>3, CapReserve, CapBookRow
  <2>4. CASE CancelRow(r) \/ SweepRow(r)
    BY <1>1, <2>1, <2>4, CapCancelRow, CapSweepRow
  <2>5. CASE CancelRelease(r)
    <3>1. /\ req[r].pc \in ReleasePcs /\ Release(req[r].booking) /\ req'[r] = Idle
          /\ UNCHANGED <<bookings, aborts, overwritten>>
      BY <2>5, Becoming DEF CancelRelease, At, ReleasePcs, rows
    <3>2. req'[r].pc \notin HeldPcs
      BY <3>1 DEF Idle, HeldPcs, ReleasePcs
    <3> QED
      BY <1>1, <2>1, <3>1, <3>2, CapRelease
  <2>6. CASE SweepRelease(r)
    <3>1. /\ req[r].pc = "sweepRelease" /\ Release(req[r].booking)
          /\ req'[r] = [req[r] EXCEPT !.pc = "sweepClear"]
          /\ UNCHANGED <<bookings, aborts, overwritten>>
      BY <2>6, Becoming DEF SweepRelease, At, rows
    <3>2. req'[r].pc = "sweepClear"
      <4>1. req'[r] \in Continuations
        BY <1>1 DEF TypeOK
      <4>2. "pc" \in DOMAIN req[r]
        <5>1. req[r] \in Continuations
          BY DEF TypeOK
        <5> QED
          BY <5>1 DEF Continuations, Idle
      <4> QED
        BY <3>1, <4>2
    <3> QED
      BY <1>1, <2>1, <3>1, <3>2, CapRelease DEF HeldPcs, ReleasePcs
  <2>7. CASE HarvestTx(r) \/ HookTx(r)
    BY <1>1, <2>1, <2>7, CapHarvestTx, CapHookTx
  <2>8. CASE Abort(r)
    BY <1>1, <2>1, <2>8, CapAbort
  <2> QED
    BY <1>2, <2>2, <2>3, <2>4, <2>5, <2>6, <2>7, <2>8 DEF Elsewise, Continue
<1>3. CASE WorldStep
  <2>1. UNCHANGED <<bookings, counter, req, aborts, overwritten>>
    BY <1>3 DEF WorldStep, HoldElapses, Pay, UpdateListing, DirectSale, CloseListing, vars, rows,
       redis
  <2>2. Queued' = Queued
    BY <2>1, QueuedStays
  <2>3. \A s \in Requests : Held'[s] = Held[s]
    BY <2>1 DEF Held, At
  <2>4. Pending' = Pending
    BY <2>3, SumSame, WeightTypes, RequestsAssumption DEF Pending, WeightsInNat
  <2> QED
    BY <2>1, <2>2, <2>4 DEF CapInv, ReleaseInv
<1> QED
  BY <1>2, <1>3, StepKinds

LEMMA CapInit == Init => CapInv
<1> SUFFICES ASSUME Init
             PROVE  CapInv
  OBVIOUS
<1>1. TypeOK
  BY TypeInit
<1>2. \A r \in Requests : req[r].pc = "idle"
  BY DEF Init, Idle
<1>3. /\ IsFiniteSet({}) /\ {} \in SUBSET Bookings /\ {} \in SUBSET Requests
      /\ SumOf(Wanted, {}) = 0 /\ SumOf(Held, {}) = 0
  BY FS_EmptySet, SumFacts
<1>4. \A b \in Bookings \ {} : Wanted[b] = 0
  BY DEF Init, Wanted, Live, InStatus
<1>5. \A r \in Requests \ {} : Held[r] = 0
  BY <1>2 DEF Held, At, ReleasePcs
<1>6. Queued = 0
  BY <1>1, <1>3, <1>4, SumOverSupport, WeightTypes, RequestsAssumption DEF Queued, WeightsInNat
<1>7. Pending = 0
  BY <1>1, <1>3, <1>5, SumOverSupport, WeightTypes, RequestsAssumption DEF Pending, WeightsInNat
<1> QED
  BY <1>2, <1>6, <1>7, CapAssumption DEF Init, CapInv, ReleaseInv, ReleasePcs

\* The counter in Redis, which the code moves before or after the row it stands for, never
\* falls short of the queue and never exceeds what may be pre-booked; it is exact while no
\* request has died.  Only a stale cancel or harvest write ends this.
THEOREM CounterCoversQueue == Spec => []CapacityHeld
<1>1. TypeOK /\ CapInv /\ [Next]_vars => CapInv'
  BY CapStep
<1> QED
  BY <1>1, CapInit, CapacityIs, PreBookingsTypeCorrect, PTL DEF Spec
=============================================================================
