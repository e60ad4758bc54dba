-------------------------------- MODULE Iov --------------------------------
(***************************************************************************)
(* Intervals of validity (class IOV, DDCore/include/DD4hep/IOV.h).         *)
(*                                                                         *)
(* An IOV key is the pair (first, second) of 64 bit integers of IOV::Key;  *)
(* it stands for the time stamps first..second.  MIN_KEY and MAX_KEY are   *)
(* the limits of the integer type.  The type of an IOV (run, epoch, ...)   *)
(* does not appear: every conditions store below serves one type.          *)
(***************************************************************************)
EXTENDS Integers

CONSTANTS MIN_KEY, MAX_KEY

ASSUME KeyLimits == MIN_KEY \in Int /\ MAX_KEY \in Int /\ MIN_KEY < MAX_KEY

Key_value == MIN_KEY .. MAX_KEY

Key == [first : Key_value, second : Key_value]

Interval(a, b) == [first |-> a, second |-> b]

\* A discrete IOV, as every prepare, load and compute call requires it.
Discrete(t) == Interval(t, t)

\* IOV::key_forever: neutral for intersections, "Conditions key representing eternity".
key_forever == Interval(MIN_KEY, MAX_KEY)

key_contains_range(key, test) ==
  key.first <= test.first /\ key.second >= test.second

\* IOV::iov_intersection(const IOV::Key&).
iov_intersection(key, validity) ==
  Interval(IF validity.first > key.first THEN validity.first ELSE key.first,
           IF validity.second < key.second THEN validity.second ELSE key.second)

(***************************************************************************)
(* What a loop of iov_intersection over the keys S computes when it starts *)
(* from key_forever: the latest begin and the earliest end.  The loops are *)
(* those of ConditionsIOVPool::select, of Inserter and of the dependency   *)
(* handler; the order of the keys does not matter.  The model check        *)
(* compares it with the fold of iov_intersection.                          *)
(***************************************************************************)
LatestBegin(S) ==
  CHOOSE v \in Key_value :
    /\ \A k \in S : k.first <= v
    /\ \A w \in Key_value : (\A k \in S : k.first <= w) => v <= w

EarliestEnd(S) ==
  CHOOSE v \in Key_value :
    /\ \A k \in S : v <= k.second
    /\ \A w \in Key_value : (\A k \in S : w <= k.second) => w <= v

Intersection(S) == Interval(LatestBegin(S), EarliestEnd(S))

\* Order of the keys in the std::map of the pools: lexicographic on the pair.
Before(k, l) == k.first < l.first \/ (k.first = l.first /\ k.second < l.second)
=============================================================================
