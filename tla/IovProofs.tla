------------------------------ MODULE IovProofs ------------------------------
(***************************************************************************)
(* Facts about keys and their intersections, for all limits of the key     *)
(* type and any set of keys, finite or not.                                *)
(***************************************************************************)
EXTENDS Iov, TLAPS, WellFoundedInduction

\* A nonempty set of key values has a least element.
LEMMA LeastValue ==
  ASSUME NEW U \in SUBSET Key_value, U # {}
  PROVE  \E v \in U : \A w \in U : v <= w
<1> DEFINE R == OpToRel(<, Nat)
           T == {u - MIN_KEY : u \in U}
<1>1. IsWellFoundedOn(R, Nat)
  BY NatLessThanWellFounded
<1>2. T \subseteq Nat /\ T # {}
  <2>1. \A u \in Key_value : u - MIN_KEY \in Nat
    BY KeyLimits DEF Key_value
  <2>2. PICK u \in U : TRUE
    OBVIOUS
  <2>3. u - MIN_KEY \in T
    OBVIOUS
  <2> QED BY <2>1, <2>3
<1>3. PICK x \in T : \A y \in T : ~(<<y, x>> \in R)
  <2> HIDE DEF R, T
  <2> QED BY <1>1, <1>2, WFMin
<1>4. PICK v \in U : x = v - MIN_KEY
  BY <1>3
<1>5. ASSUME NEW w \in U PROVE v <= w
  <2>1. w - MIN_KEY \in T
    OBVIOUS
  <2>2. ~(<<w - MIN_KEY, x>> \in R)
    BY <1>3, <2>1
  <2>3. w - MIN_KEY \in Nat /\ x \in Nat
    BY <1>2, <1>3, <2>1
  <2>4. ~(w - MIN_KEY < x)
    BY <2>2, <2>3 DEF OpToRel
  <2> QED BY <1>4, <2>4, KeyLimits DEF Key_value
<1> QED BY <1>5

\* A nonempty set of key values has a greatest element.
LEMMA GreatestValue ==
  ASSUME NEW U \in SUBSET Key_value, U # {}
  PROVE  \E v \in U : \A w \in U : w <= v
<1> DEFINE M(u) == MIN_KEY + MAX_KEY - u
           T == {M(u) : u \in U}
<1>1. T \subseteq Key_value /\ T # {}
  <2>1. \A u \in Key_value : M(u) \in Key_value
    BY KeyLimits DEF Key_value
  <2>2. PICK u \in U : TRUE
    OBVIOUS
  <2>3. M(u) \in T
    OBVIOUS
  <2> QED BY <2>1, <2>3
<1>2. PICK m \in T : \A w \in T : m <= w
  <2> HIDE DEF T
  <2> QED BY <1>1, LeastValue
<1>3. PICK v \in U : m = M(v)
  BY <1>2
<1>4. ASSUME NEW w \in U PROVE w <= v
  <2>1. M(v) <= M(w)
    BY <1>2, <1>3
  <2> QED BY <2>1, KeyLimits DEF Key_value
<1> QED BY <1>4

\* The latest begin exists and is what it is called.
LEMMA LatestBeginProperty ==
  ASSUME NEW S \in SUBSET Key
  PROVE  /\ LatestBegin(S) \in Key_value
         /\ \A k \in S : k.first <= LatestBegin(S)
         /\ \A w \in Key_value : (\A k \in S : k.first <= w) => LatestBegin(S) <= w
<1> DEFINE U == {v \in Key_value : \A k \in S : k.first <= v}
<1>1. MAX_KEY \in U
  BY KeyLimits DEF Key, Key_value
<1>2. PICK v \in U : \A w \in U : v <= w
  <2>1. U \in SUBSET Key_value /\ U # {}
    BY <1>1
  <2> HIDE DEF U
  <2> QED BY <2>1, LeastValue
<1> QED BY <1>2 DEF LatestBegin

\* The earliest end exists and is what it is called.
LEMMA EarliestEndProperty ==
  ASSUME NEW S \in SUBSET Key
  PROVE  /\ EarliestEnd(S) \in Key_value
         /\ \A k \in S : EarliestEnd(S) <= k.second
         /\ \A w \in Key_value : (\A k \in S : w <= k.second) => w <= EarliestEnd(S)
<1> DEFINE U == {v \in Key_value : \A k \in S : v <= k.second}
<1>1. MIN_KEY \in U
  BY KeyLimits DEF Key, Key_value
<1>2. PICK v \in U : \A w \in U : w <= v
  <2>1. U \in SUBSET Key_value /\ U # {}
    BY <1>1
  <2> HIDE DEF U
  <2> QED BY <2>1, GreatestValue
<1> QED BY <1>2 DEF EarliestEnd

\* The intersection of the keys S is a key and, of the intervals contained in
\* all of them, the greatest: it covers exactly the times all keys of S cover.
THEOREM IntersectionIsGreatest ==
  ASSUME NEW S \in SUBSET Key
  PROVE  /\ Intersection(S) \in Key
         /\ \A k \in S : key_contains_range(k, Intersection(S))
         /\ \A key \in Key : (\A k \in S : key_contains_range(k, key))
                               => key_contains_range(Intersection(S), key)
<1>1. /\ LatestBegin(S) \in Key_value
      /\ \A k \in S : k.first <= LatestBegin(S)
      /\ \A w \in Key_value : (\A k \in S : k.first <= w) => LatestBegin(S) <= w
  BY LatestBeginProperty
<1>2. /\ EarliestEnd(S) \in Key_value
      /\ \A k \in S : EarliestEnd(S) <= k.second
      /\ \A w \in Key_value : (\A k \in S : w <= k.second) => w <= EarliestEnd(S)
  BY EarliestEndProperty
<1>3. Intersection(S) \in Key
  BY <1>1, <1>2 DEF Intersection, Interval, Key
<1>4. \A k \in S : key_contains_range(k, Intersection(S))
  BY <1>1, <1>2 DEF Intersection, Interval, key_contains_range
<1>5. ASSUME NEW key \in Key, \A k \in S : key_contains_range(k, key)
      PROVE  key_contains_range(Intersection(S), key)
  <2>1. key.first \in Key_value /\ key.second \in Key_value
    BY DEF Key
  <2>2. LatestBegin(S) <= key.first
    BY <1>1, <1>5, <2>1 DEF key_contains_range
  <2>3. key.second <= EarliestEnd(S)
    BY <1>2, <1>5, <2>1 DEF key_contains_range
  <2> QED BY <2>2, <2>3 DEF Intersection, Interval, key_contains_range
<1> QED BY <1>3, <1>4, <1>5

\* Containment of keys is transitive.
LEMMA ContainsTransitive ==
  ASSUME NEW j \in Key, NEW k \in Key, NEW l \in Key,
         key_contains_range(j, k), key_contains_range(k, l)
  PROVE  key_contains_range(j, l)
BY KeyLimits DEF key_contains_range, Key, Key_value
=============================================================================
