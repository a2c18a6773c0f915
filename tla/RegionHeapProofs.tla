--------------------------- MODULE RegionHeapProofs ---------------------------
(***************************************************************************)
(* NoOverlap and SpaceAccounted of RegionHeap for any number of threads,   *)
(* regions and sizes.                                                      *)
(*                                                                         *)
(* The bump pointer may stand above the bytes given to objects, by the     *)
(* total size of every thread that has overflowed and not yet subtracted   *)
(* it again (BumpOwes); with no allocation in flight nothing is owed, which *)
(* is SpaceAccounted.                                                      *)
(*                                                                         *)
(* As long as all requests round up to one total size, such a thread exists *)
(* only while not one more object fits (FullWhileOverflowing): a fetch_add *)
(* that succeeds starts where the last object ends, which is NoOverlap.    *)
(* With requests of different sizes FullWhileOverflowing fails, and so     *)
(* does ObjectsDisjoint.                                                   *)
(***************************************************************************)
EXTENDS RegionHeap, FiniteSetTheorems, WellFoundedInduction, TLAPS

\* A thread inside allocate() works for one of the payload sizes, whose total
\* is recorded, and looks at a region that exists.
Asked ==
  \A t \in Threads :
    /\ pc[t] # "idle" => size[t] \in Payloads /\ TotalSize(size[t]) \in totals
    /\ reg[t] < numRegions

\* Objects end below the bytes committed to objects.
BelowCommitted ==
  \A i \in 1..Len(objects) :
    objects[i].offset + objects[i].size <= committed[objects[i].region]

\* The bump pointer is the committed bytes plus one total per overflowed thread.
BumpAccounts(S) ==
  \A r \in RegionIds : bump[r] = committed[r] + S * Cardinality(Overflowing(r))

\* While a thread has overflowed a region, no further object fits in it.
FullWhileOverflowing(S) ==
  \A r \in RegionIds : Overflowing(r) # {} => committed[r] + S > RegionSize

\* What holds while every request rounds up to S bytes.
HeapInv(S) ==
  /\ TypeOK
  /\ Asked
  /\ BelowCommitted
  /\ BumpAccounts(S)
  /\ FullWhileOverflowing(S)
  /\ ObjectsDisjoint

\* Every request so far rounds up to S bytes.
Uniform(S) == S \in Nat /\ totals \subseteq {S}

\* The inductive invariant.
UniformInv ==
  /\ totals \in SUBSET Nat
  /\ \A S \in Nat : totals \subseteq {S} => HeapInv(S)

-----------------------------------------------------------------------------
(* Facts about the operators *)

\* A total size is a natural number.
LEMMA TotalSizeType == ASSUME NEW p \in Nat PROVE TotalSize(p) \in Nat
<1> DEFINE v == HeaderSize + p + ObjAlign - 1
           q == v \div ObjAlign
<1>1. v \in Nat /\ ObjAlign \in Nat /\ ObjAlign > 0
  BY SizesAssumption
<1>2. q \in Nat
  BY <1>1
<1>3. q * ObjAlign \in Nat
  BY <1>1, <1>2
<1> QED BY <1>3 DEF TotalSize, AlignUp

\* The threads that have overflowed a region are finitely many.
LEMMA OverflowingFinite ==
  ASSUME NEW r
  PROVE  IsFiniteSet(Overflowing(r)) /\ Cardinality(Overflowing(r)) \in Nat
<1>1. Overflowing(r) \in SUBSET Threads
  BY DEF Overflowing
<1>2. IsFiniteSet(Overflowing(r))
  BY <1>1, FS_Subset, ThreadsAssumption
<1> QED BY <1>2, FS_CardinalityType

\* A natural number of total sizes is a natural number of bytes, and one more
\* thread is one more total size.
LEMMA TimesFacts ==
  ASSUME NEW S \in Nat, NEW k \in Nat
  PROVE  S * k \in Nat /\ S * (k + 1) = S * k + S /\ S * 0 = 0
  OBVIOUS

\* A step of a thread that has not overflowed, and does not overflow now,
\* leaves the overflowed threads of every region as they were.
LEMMA OverflowingSame ==
  ASSUME NEW t \in Threads, pc[t] # "rollback", pc'[t] # "rollback",
         \A u \in Threads \ {t} : pc'[u] = pc[u] /\ reg'[u] = reg[u]
  PROVE  \A r \in RegionIds : Overflowing(r)' = Overflowing(r)
  BY DEF Overflowing

\* The objects already handed out keep their places when one is appended.
LEMMA AppendFacts ==
  ASSUME NEW s \in Seq(Object), NEW o \in Object
  PROVE  /\ Append(s, o) \in Seq(Object)
         /\ Len(Append(s, o)) = Len(s) + 1
         /\ \A i \in 1..Len(s) : Append(s, o)[i] = s[i]
         /\ Append(s, o)[Len(s) + 1] = o
  OBVIOUS

-----------------------------------------------------------------------------
(* Types *)

\* The walk to the next region leaves a thread idle or on its way to scan,
\* in a region that exists.
LEMMA NextRegionFacts ==
  ASSUME TypeOK, NEW t \in Threads, NextRegion(t), UNCHANGED numRegions
  PROVE  /\ reg' \in [Threads -> RegionIds]
         /\ reg'[t] < numRegions
         /\ retry' \in [Threads -> BOOLEAN]
         /\ pc' \in [Threads -> Steps]
         /\ pc'[t] \in {"idle", "scan"}
         /\ \A u \in Threads \ {t} : pc'[u] = pc[u] /\ reg'[u] = reg[u]
<1> DEFINE g == IF retry[t] /\ (~retry[t] \/ reg[t] + 1 < numRegions) THEN reg[t] + 1 ELSE 0
           l == IF ~retry[t] \/ reg[t] + 1 < numRegions THEN "scan" ELSE "idle"
<1>1. reg' = [reg EXCEPT ![t] = g] /\ pc' = [pc EXCEPT ![t] = l]
  BY DEF NextRegion, Goto
<1>2. g \in RegionIds /\ g < numRegions
  <2>1. /\ reg[t] \in 0..(MaxRegions - 1) /\ numRegions \in 1..MaxRegions /\ MaxRegions \in Nat
        /\ MaxRegions > 0
    BY RegionsAssumption DEF TypeOK, RegionIds
  <2> QED BY <2>1 DEF RegionIds
<1>3. l \in {"idle", "scan"}
  OBVIOUS
<1>4. retry' = [retry EXCEPT ![t] = TRUE]
  BY DEF NextRegion
<1> HIDE DEF g, l
<1> QED BY <1>1, <1>2, <1>3, <1>4 DEF TypeOK, Steps

\* Every step keeps the types, if only no fetch_sub takes more from a bump
\* pointer than it has.
LEMMA TypeStep ==
  ASSUME TypeOK, Asked, [Next]_vars, bump' \in [RegionIds -> Nat]
  PROVE  TypeOK' /\ Asked'
<1>1. CASE UNCHANGED vars
  BY <1>1 DEF vars, TypeOK, Asked
<1>2. ASSUME NEW t \in Threads, Allocate(t) PROVE TypeOK' /\ Asked'
  <2>1. PICK p \in Payloads : /\ size' = [size EXCEPT ![t] = p]
                              /\ totals' = totals \cup {TotalSize(p)}
    BY <1>2 DEF Allocate
  <2>2. TotalSize(p) \in Nat /\ p \in Nat
    BY PayloadsAssumption, TotalSizeType
  <2>3. currentRegion \in RegionIds /\ currentRegion < numRegions
    BY RegionsAssumption DEF TypeOK, RegionIds
  <2> QED BY <1>2, <2>1, <2>2, <2>3 DEF Allocate, Goto, TypeOK, Asked, Steps
<1>3. ASSUME NEW t \in Threads, FetchAdd(t) PROVE TypeOK' /\ Asked'
  <2>0. TotalSize(size[t]) \in Nat /\ reg[t] \in RegionIds
    BY <1>3, PayloadsAssumption, TotalSizeType DEF FetchAdd, TypeOK, Asked
  <2>1. committed' \in [RegionIds -> Nat]
    BY <1>3, <2>0 DEF FetchAdd, TypeOK
  <2>2. objects' \in Seq(Object)
    BY <1>3, <2>0, AppendFacts DEF FetchAdd, TypeOK, Object
  <2>3. pc' \in [Threads -> Steps] /\ \A u \in Threads : pc'[u] # "idle" => pc[u] # "idle"
    BY <1>3 DEF FetchAdd, Goto, TypeOK, Steps
  <2>4. UNCHANGED <<numRegions, currentRegion, liveCount, totalAllocated, reg, size, retry, totals>>
    BY <1>3 DEF FetchAdd
  <2> QED BY <2>1, <2>2, <2>3, <2>4 DEF TypeOK, Asked
<1>4. ASSUME NEW t \in Threads, InitObject(t) PROVE TypeOK' /\ Asked'
  BY <1>4 DEF InitObject, Goto, TypeOK, Asked, Steps
<1>5. ASSUME NEW t \in Threads, Rollback(t) \/ (Scan(t) /\ NextRegion(t)) PROVE TypeOK' /\ Asked'
  <2>1. /\ reg' \in [Threads -> RegionIds]
        /\ reg'[t] < numRegions
        /\ retry' \in [Threads -> BOOLEAN]
        /\ pc' \in [Threads -> Steps]
        /\ \A u \in Threads \ {t} : pc'[u] = pc[u] /\ reg'[u] = reg[u]
    BY <1>5, NextRegionFacts DEF Rollback, Scan
  <2>2. pc[t] # "idle"
    BY <1>5 DEF Rollback, Scan
  <2>3. UNCHANGED <<numRegions, currentRegion, liveCount, totalAllocated, size, committed,
                    objects, totals>>
    BY <1>5 DEF Rollback, Scan
  <2> QED BY <2>1, <2>2, <2>3 DEF TypeOK, Asked
<1>6. ASSUME NEW t \in Threads, Scan(t), ~NextRegion(t) PROVE TypeOK' /\ Asked'
  BY <1>6 DEF Scan, Goto, TypeOK, Asked, Steps
<1>7. ASSUME NEW t \in Threads, Switch(t) PROVE TypeOK' /\ Asked'
  <2>1. reg[t] \in 0..(numRegions - 1)
    BY RegionsAssumption DEF TypeOK, Asked, RegionIds
  <2> QED BY <1>7, <2>1 DEF Switch, Goto, TypeOK, Asked, Steps
<1>8. CASE Expand
  <2>1. PICK n \in 1..(MaxRegions - numRegions) : numRegions' = numRegions + n
    BY <1>8 DEF Expand
  <2>2. numRegions \in 1..MaxRegions /\ currentRegion \in 0..(numRegions - 1) /\ MaxRegions \in Nat
    BY RegionsAssumption DEF TypeOK
  <2>3. /\ numRegions' \in 1..MaxRegions /\ currentRegion \in 0..(numRegions' - 1)
        /\ numRegions < numRegions'
    BY <2>1, <2>2
  <2>4. \A t \in Threads : reg[t] \in Nat /\ reg[t] < numRegions
    BY RegionsAssumption DEF Asked, TypeOK, RegionIds
  <2>5. TypeOK'
    BY <1>8, <2>3 DEF Expand, TypeOK
  <2>6. \A t \in Threads : reg[t] < numRegions'
    BY <2>2, <2>3, <2>4
  <2> QED BY <1>8, <2>5, <2>6 DEF Expand, Asked
<1>9. CASE Reset
  BY <1>9 DEF Reset, TypeOK, Asked
<1> QED BY <1>1, <1>2, <1>3, <1>4, <1>5, <1>6, <1>7, <1>8, <1>9 DEF Next, Proceed

-----------------------------------------------------------------------------
(* Sums over the threads *)

\* The threads in a fixed order.
N == Cardinality(Threads)
Order == CHOOSE f : f \in Bijection(1..N, Threads)

\* acc[i] is the sum of w over the first i threads.
PartialSums(w, acc) ==
  /\ acc \in [0..N -> Nat]
  /\ acc[0] = 0
  /\ \A i \in 1..N : acc[i] = acc[i - 1] + w[Order[i]]

\* The sum of w over all threads is n.
SumsTo(w, n) == \E acc : PartialSums(w, acc) /\ acc[N] = n

\* A set of numbers that has 0, and with every number the next, has them all.
LEMMA SetInduction ==
  ASSUME NEW T \in SUBSET Nat, 0 \in T, \A i \in T : i + 1 \in T
  PROVE  T = Nat
<1> DEFINE R == {ss \in Nat \X Nat : ss[1] < ss[2]}
<1>1. IsWellFoundedOn(R, Nat)
  BY NatLessThanWellFounded DEF OpToRel
<1> SUFFICES ASSUME Nat \ T # {} PROVE FALSE
  OBVIOUS
<1>2. PICK x \in Nat \ T : \A y \in Nat \ T : ~(<<y, x>> \in R)
  <2> HIDE DEF R
  <2> QED BY <1>1, WFMin
<1>3. x # 0 /\ x - 1 \in Nat /\ x - 1 < x
  BY <1>2
<1>4. x - 1 \in T
  BY <1>2, <1>3
<1> QED BY <1>2, <1>3, <1>4

\* Every thread has one place in the order.
LEMMA OrderFacts ==
  /\ N \in Nat
  /\ \A i \in 1..N : Order[i] \in Threads
  /\ \A t \in Threads : \E j \in 1..N : Order[j] = t
  /\ \A i, j \in 1..N : Order[i] = Order[j] => i = j
<1>1. N \in Nat /\ ExistsBijection(1..N, Threads)
  BY ThreadsAssumption, FS_CardinalityType DEF N
<1>2. Order \in Bijection(1..N, Threads)
  BY <1>1 DEF ExistsBijection, Order
<1> QED BY <1>1, <1>2 DEF Bijection, Injection, Surjection, IsInjective

\* Partial sums of natural numbers do not decrease.
LEMMA SumsIncrease ==
  ASSUME NEW w \in [Threads -> Nat], NEW acc, PartialSums(w, acc)
  PROVE  \A j \in 0..N : \A i \in 0..j : acc[i] <= acc[j]
<1> DEFINE T == {j \in Nat : j <= N => \A i \in 0..j : acc[i] <= acc[j]}
<1>1. 0 \in T
  BY OrderFacts DEF PartialSums
<1>2. ASSUME NEW j \in T PROVE j + 1 \in T
  <2> SUFFICES ASSUME j + 1 <= N, NEW i \in 0..(j + 1) PROVE acc[i] <= acc[j + 1]
    OBVIOUS
  <2>1. /\ j \in Nat /\ N \in Nat /\ j \in 0..N /\ j + 1 \in 1..N /\ (j + 1) - 1 = j
        /\ acc[j] \in Nat /\ acc[j + 1] \in Nat
    BY OrderFacts DEF PartialSums
  <2>2. w[Order[j + 1]] \in Nat
    BY <2>1, OrderFacts
  <2>3. acc[j] <= acc[j + 1]
    BY <2>1, <2>2 DEF PartialSums
  <2>4. CASE i = j + 1
    BY <2>1, <2>4
  <2>5. CASE i \in 0..j
    <3>1. acc[i] <= acc[j] /\ acc[i] \in Nat
      BY <2>1, <2>5 DEF PartialSums
    <3> QED BY <2>1, <2>3, <3>1
  <2> QED BY <2>1, <2>4, <2>5
<1>3. T = Nat
  <2> HIDE DEF T
  <2> QED BY <1>1, <1>2, SetInduction DEF T
<1> QED BY <1>3, OrderFacts

\* A sum of nothing is nothing.
LEMMA SumOfZeros ==
  ASSUME NEW w, \A t \in Threads : w[t] = 0
  PROVE  SumsTo(w, 0) /\ \A n : SumsTo(w, n) => n = 0
<1>1. SumsTo(w, 0)
  <2> DEFINE acc == [i \in 0..N |-> 0]
  <2>1. PartialSums(w, acc) /\ acc[N] = 0
    BY OrderFacts DEF PartialSums
  <2> QED BY <2>1 DEF SumsTo
<1>2. ASSUME NEW n, SumsTo(w, n) PROVE n = 0
  <2>1. PICK acc : PartialSums(w, acc) /\ acc[N] = n
    BY <1>2 DEF SumsTo
  <2> DEFINE T == {j \in Nat : j <= N => acc[j] = 0}
  <2>2. 0 \in T
    BY <2>1 DEF PartialSums
  <2>3. ASSUME NEW j \in T PROVE j + 1 \in T
    <3> SUFFICES ASSUME j + 1 <= N PROVE acc[j + 1] = 0
      OBVIOUS
    <3>1. j \in Nat /\ N \in Nat /\ j + 1 \in 1..N /\ (j + 1) - 1 = j
      BY OrderFacts
    <3>2. w[Order[j + 1]] = 0 /\ acc[j] = 0
      BY <3>1, OrderFacts
    <3> QED BY <2>1, <3>1, <3>2 DEF PartialSums
  <2>4. T = Nat
    <3> HIDE DEF T
    <3> QED BY <2>2, <2>3, SetInduction DEF T
  <2> QED BY <2>1, <2>4, OrderFacts
<1> QED BY <1>1, <1>2

\* Changing one summand changes the sum by as much, and a sum is no less than
\* any of its summands.
LEMMA SumChange ==
  ASSUME NEW w \in [Threads -> Nat], NEW n, SumsTo(w, n), NEW t \in Threads, NEW k \in Nat
  PROVE  n \in Nat /\ w[t] <= n /\ SumsTo([w EXCEPT ![t] = k], n - w[t] + k)
<1>1. PICK acc : PartialSums(w, acc) /\ acc[N] = n
  BY DEF SumsTo
<1>2. PICK j \in 1..N : Order[j] = t
  BY OrderFacts
<1> DEFINE v == [w EXCEPT ![t] = k]
           sum == [i \in 0..N |-> IF i < j THEN acc[i] ELSE acc[i] - w[t] + k]
<1>3. N \in Nat /\ w[t] \in Nat /\ j - 1 \in 0..N /\ j \in 0..N
  BY <1>2, OrderFacts
<1>4. \A i \in 0..N : acc[i] \in Nat /\ (j <= i => w[t] <= acc[i])
  <2>1. acc[j] = acc[j - 1] + w[t] /\ acc[j - 1] \in Nat
    BY <1>1, <1>2, <1>3 DEF PartialSums
  <2>2. ASSUME NEW i \in 0..N PROVE acc[i] \in Nat /\ (j <= i => w[t] <= acc[i])
    <3>1. acc[i] \in Nat /\ acc[j] \in Nat
      BY <1>1, <1>3 DEF PartialSums
    <3>2. j <= i => acc[j] <= acc[i]
      BY <1>1, <1>3, SumsIncrease
    <3> QED BY <1>3, <2>1, <3>1, <3>2
  <2> QED BY <2>2
<1>5. PartialSums(v, sum)
  <2>1. sum \in [0..N -> Nat]
    BY <1>3, <1>4
  <2>2. sum[0] = 0
    BY <1>1, <1>2, <1>3 DEF PartialSums
  <2>3. ASSUME NEW i \in 1..N PROVE sum[i] = sum[i - 1] + v[Order[i]]
    <3>1. /\ i \in 0..N /\ i - 1 \in 0..N /\ acc[i] = acc[i - 1] + w[Order[i]]
          /\ acc[i] \in Nat /\ acc[i - 1] \in Nat /\ Order[i] \in Threads
          /\ w[Order[i]] \in Nat
      BY <1>1, <1>3, <1>4, OrderFacts DEF PartialSums
    <3>2. v[Order[i]] = IF i = j THEN k ELSE w[Order[i]]
      BY <1>2, <3>1, OrderFacts
    <3>3. /\ sum[i] = IF i < j THEN acc[i] ELSE acc[i] - w[t] + k
          /\ sum[i - 1] = IF i - 1 < j THEN acc[i - 1] ELSE acc[i - 1] - w[t] + k
      BY <3>1
    <3> HIDE DEF v, sum
    <3> QED BY <1>2, <1>3, <3>1, <3>2, <3>3
  <2> QED BY <2>1, <2>2, <2>3 DEF PartialSums
<1>6. sum[N] = n - w[t] + k /\ n \in Nat /\ w[t] <= n
  BY <1>1, <1>2, <1>3, <1>4
<1> QED BY <1>5, <1>6 DEF SumsTo

-----------------------------------------------------------------------------
(* The steps *)

\* A step that leaves the bump pointers, the objects and the overflowed
\* threads alone preserves the parts of the invariant about them.
LEMMA FramePreserves ==
  ASSUME NEW S, HeapInv(S), UNCHANGED <<bump, committed, objects>>,
         \A r \in RegionIds : Overflowing(r)' = Overflowing(r)
  PROVE  BelowCommitted' /\ BumpAccounts(S)' /\ FullWhileOverflowing(S)' /\ ObjectsDisjoint'
  BY DEF HeapInv, BelowCommitted, BumpAccounts, FullWhileOverflowing, ObjectsDisjoint, Disjoint

\* A fetch_add that leaves room finds the bump pointer where the last object
\* of the region ends.
LEMMA FitMeansExact ==
  ASSUME NEW S \in Nat, HeapInv(S), NEW r \in RegionIds, Fits(bump[r], S)
  PROVE  bump[r] = committed[r] /\ Overflowing(r) = {}
<1> DEFINE k == Cardinality(Overflowing(r))
<1>1. k \in Nat /\ bump[r] = committed[r] + S * k /\ committed[r] \in Nat
  BY OverflowingFinite DEF HeapInv, BumpAccounts, TypeOK
<1>2. S * k \in Nat
  BY <1>1, TimesFacts
<1>3. committed[r] + S <= RegionSize
  BY <1>1, <1>2, SizesAssumption DEF Fits
<1>4. Overflowing(r) = {}
  BY <1>1, <1>3, SizesAssumption DEF HeapInv, FullWhileOverflowing
<1>5. k = 0
  BY <1>4, FS_EmptySet
<1>6. S * k = 0
  BY <1>5, TimesFacts
<1> HIDE DEF k
<1> QED BY <1>1, <1>4, <1>6

\* allocate_object that succeeds: the new object starts where the last ended.
LEMMA FetchAddFits ==
  ASSUME NEW S, Uniform(S), HeapInv(S), NEW t \in Threads, FetchAdd(t),
         Fits(bump[reg[t]], S)
  PROVE  HeapInv(S)'
<1> DEFINE r == reg[t]
           o == [region |-> r, offset |-> bump[r], size |-> S]
<1>1. /\ S \in Nat /\ r \in RegionIds /\ TotalSize(size[t]) = S
      /\ bump[r] \in Nat /\ committed[r] \in Nat
  BY DEF Uniform, HeapInv, TypeOK, Asked, FetchAdd
<1>2. /\ bump' = [bump EXCEPT ![r] = @ + S]
      /\ objects' = Append(objects, o)
      /\ committed' = [committed EXCEPT ![r] = @ + S]
      /\ pc' = [pc EXCEPT ![t] = "init"]
      /\ UNCHANGED <<numRegions, currentRegion, liveCount, totalAllocated, reg, size, retry,
                     totals>>
  BY <1>1 DEF FetchAdd, Goto
<1>3. bump[r] = committed[r] /\ Overflowing(r) = {}
  BY <1>1, FitMeansExact
<1>4. o \in Object /\ objects \in Seq(Object)
  BY <1>1 DEF Object, HeapInv, TypeOK
<1>5. TypeOK'
  <2>1. objects' \in Seq(Object)
    BY <1>2, <1>4, AppendFacts
  <2> QED BY <1>1, <1>2, <2>1 DEF HeapInv, TypeOK, Steps
<1>6. Asked'
  BY <1>2 DEF HeapInv, TypeOK, Asked, FetchAdd
<1>7. \A x \in RegionIds : Overflowing(x)' = Overflowing(x)
  BY <1>2, OverflowingSame DEF FetchAdd, HeapInv, TypeOK
<1>8. BelowCommitted'
  <2> SUFFICES ASSUME NEW i \in 1..Len(objects')
               PROVE  objects'[i].offset + objects'[i].size <= committed'[objects'[i].region]
    BY DEF BelowCommitted
  <2>1. CASE i \in 1..Len(objects)
    <3>1. objects'[i] = objects[i] /\ objects[i] \in Object
      BY <1>2, <1>4, <2>1, AppendFacts
    <3>2. objects[i].offset + objects[i].size <= committed[objects[i].region]
      BY <2>1 DEF HeapInv, BelowCommitted
    <3>3. committed[objects[i].region] <= committed'[objects[i].region]
      <4> DEFINE g == objects[i].region
      <4>1. g \in RegionIds
        BY <3>1 DEF Object
      <4>2. committed'[g] = IF g = r THEN committed[g] + S ELSE committed[g]
        BY <1>2, <4>1 DEF HeapInv, TypeOK
      <4>3. committed[g] \in Nat
        BY <4>1 DEF HeapInv, TypeOK
      <4> HIDE DEF g, r
      <4> QED BY <1>1, <4>2, <4>3 DEF g
    <3>4. /\ committed[objects[i].region] \in Nat /\ committed'[objects[i].region] \in Nat
          /\ objects[i].offset \in Nat /\ objects[i].size \in Nat
      BY <1>5, <3>1 DEF Object, HeapInv, TypeOK
    <3> QED BY <3>1, <3>2, <3>3, <3>4
  <2>2. CASE i = Len(objects) + 1
    <3>1. objects'[i] = o
      BY <1>2, <1>4, <2>2, AppendFacts
    <3> QED BY <1>1, <1>2, <1>3, <3>1 DEF HeapInv, TypeOK
  <2>3. Len(objects') = Len(objects) + 1 /\ Len(objects) \in Nat
    BY <1>2, <1>4, AppendFacts
  <2> QED BY <2>1, <2>2, <2>3
<1>9. BumpAccounts(S)'
  <2> SUFFICES ASSUME NEW x \in RegionIds
               PROVE  bump'[x] = committed'[x] + S * Cardinality(Overflowing(x)')
    BY DEF BumpAccounts
  <2>1. bump[x] = committed[x] + S * Cardinality(Overflowing(x))
    BY DEF HeapInv, BumpAccounts
  <2>2. /\ Overflowing(x)' = Overflowing(x) /\ committed[x] \in Nat
        /\ S * Cardinality(Overflowing(x)) \in Nat
    BY <1>1, <1>7, OverflowingFinite, TimesFacts DEF HeapInv, TypeOK
  <2>3. CASE x = r
    <3>1. bump'[x] = bump[x] + S /\ committed'[x] = committed[x] + S
      BY <1>2, <2>3 DEF HeapInv, TypeOK
    <3> HIDE DEF r
    <3> QED BY <1>1, <2>1, <2>2, <3>1
  <2>4. CASE x # r
    BY <1>2, <2>1, <2>2, <2>4 DEF HeapInv, TypeOK
  <2> QED BY <2>3, <2>4
<1>10. FullWhileOverflowing(S)'
  <2> SUFFICES ASSUME NEW x \in RegionIds, Overflowing(x) # {}
               PROVE  committed'[x] + S > RegionSize
    BY <1>7 DEF FullWhileOverflowing
  <2>1. committed[x] + S > RegionSize /\ x # r
    BY <1>3 DEF HeapInv, FullWhileOverflowing
  <2> QED BY <1>2, <2>1 DEF HeapInv, TypeOK
<1>11. ObjectsDisjoint'
  <2>1. Len(objects') = Len(objects) + 1 /\ Len(objects) \in Nat
    BY <1>2, <1>4, AppendFacts
  <2>2. ASSUME NEW i \in 1..Len(objects)
        PROVE  /\ objects'[i] = objects[i] /\ objects[i] \in Object
               /\ Disjoint(objects[i], o) /\ Disjoint(o, objects[i])
    <3>1. objects'[i] = objects[i] /\ objects[i] \in Object
      BY <1>2, <1>4, AppendFacts
    <3>2. objects[i].region = r => objects[i].offset + objects[i].size <= committed[r]
      BY DEF HeapInv, BelowCommitted
    <3> QED BY <1>3, <3>1, <3>2 DEF Disjoint
  <2>3. objects'[Len(objects) + 1] = o
    BY <1>2, <1>4, AppendFacts
  <2> SUFFICES ASSUME NEW i \in 1..Len(objects'), NEW j \in 1..Len(objects'), i # j
               PROVE  Disjoint(objects'[i], objects'[j])
    BY DEF ObjectsDisjoint, Disjoint
  <2>4. CASE i \in 1..Len(objects) /\ j \in 1..Len(objects)
    BY <2>2, <2>4 DEF HeapInv, ObjectsDisjoint
  <2>5. CASE i \in 1..Len(objects) /\ j = Len(objects) + 1
    BY <2>2, <2>3, <2>5
  <2>6. CASE i = Len(objects) + 1 /\ j \in 1..Len(objects)
    BY <2>2, <2>3, <2>6
  <2> QED BY <2>1, <2>4, <2>5, <2>6
<1> QED BY <1>5, <1>6, <1>8, <1>9, <1>10, <1>11 DEF HeapInv

\* allocate_object that fails: one more thread, one more total size.
LEMMA FetchAddOverflows ==
  ASSUME NEW S, Uniform(S), HeapInv(S), NEW t \in Threads, FetchAdd(t),
         ~Fits(bump[reg[t]], S)
  PROVE  HeapInv(S)'
<1>0. PICK r \in RegionIds : r = reg[t]
  BY DEF HeapInv, TypeOK
<1>1. /\ S \in Nat /\ TotalSize(size[t]) = S
      /\ bump[r] \in Nat /\ committed[r] \in Nat
  BY <1>0 DEF Uniform, HeapInv, TypeOK, Asked, FetchAdd
<1>2. /\ bump' = [bump EXCEPT ![r] = @ + S]
      /\ pc' = [pc EXCEPT ![t] = "rollback"]
      /\ UNCHANGED <<numRegions, currentRegion, liveCount, totalAllocated, reg, size, retry,
                     objects, committed, totals>>
  BY <1>0, <1>1 DEF FetchAdd, Goto
<1>3. TypeOK' /\ Asked' /\ BelowCommitted' /\ ObjectsDisjoint'
  <2>1. TypeOK'
    BY <1>1, <1>2 DEF HeapInv, TypeOK, Steps
  <2>2. Asked'
    BY <1>2 DEF HeapInv, TypeOK, Asked, FetchAdd
  <2> QED BY <1>2, <2>1, <2>2 DEF HeapInv, BelowCommitted, ObjectsDisjoint, Disjoint
<1>4. /\ t \notin Overflowing(r)
      /\ Overflowing(r)' = Overflowing(r) \cup {t}
      /\ \A x \in RegionIds \ {r} : Overflowing(x)' = Overflowing(x)
  BY <1>0, <1>2 DEF Overflowing, FetchAdd, HeapInv, TypeOK
<1>5. BumpAccounts(S)'
  <2> SUFFICES ASSUME NEW x \in RegionIds
               PROVE  bump'[x] = committed'[x] + S * Cardinality(Overflowing(x)')
    BY DEF BumpAccounts
  <2> DEFINE k == Cardinality(Overflowing(x))
  <2>1. bump[x] = committed[x] + S * k /\ k \in Nat /\ committed[x] \in Nat
    BY OverflowingFinite DEF HeapInv, BumpAccounts, TypeOK
  <2>2. CASE x = r
    <3>1. Cardinality(Overflowing(x)') = k + 1
      <4>1. t \notin Overflowing(x) /\ Overflowing(x)' = Overflowing(x) \cup {t}
        BY <1>4, <2>2
      <4>2. IsFiniteSet(Overflowing(x))
        BY OverflowingFinite
      <4> QED BY <4>1, <4>2, FS_AddElement
    <3>2. bump'[x] = bump[x] + S /\ committed'[x] = committed[x]
      BY <1>2, <2>2 DEF HeapInv, TypeOK
    <3>3. S * (k + 1) = S * k + S /\ S * k \in Nat
      BY <1>1, <2>1, TimesFacts
    <3> HIDE DEF k
    <3> QED BY <1>1, <2>1, <3>1, <3>2, <3>3
  <2>3. CASE x # r
    BY <1>2, <1>4, <2>1, <2>3 DEF HeapInv, TypeOK
  <2> QED BY <2>2, <2>3
<1>6. FullWhileOverflowing(S)'
  <2>1. committed[r] + S > RegionSize
    <3>1. CASE Overflowing(r) # {}
      BY <1>1, <3>1 DEF HeapInv, FullWhileOverflowing
    <3>2. CASE Overflowing(r) = {}
      <4>1. bump[r] = committed[r] + S * 0
        BY <1>1, <3>2, FS_EmptySet DEF HeapInv, BumpAccounts
      <4>2. bump[r] = committed[r]
        BY <1>1, <4>1, TimesFacts
      <4> QED BY <1>0, <1>1, <4>2, SizesAssumption DEF Fits
    <3> QED BY <3>1, <3>2
  <2> QED BY <1>2, <1>4, <2>1 DEF HeapInv, FullWhileOverflowing
<1> QED BY <1>3, <1>5, <1>6 DEF HeapInv

\* The fetch_sub of a thread that had overflowed.
LEMMA RollbackStep ==
  ASSUME NEW S, Uniform(S), HeapInv(S), NEW t \in Threads, Rollback(t)
  PROVE  HeapInv(S)'
<1>0. PICK r \in RegionIds : r = reg[t]
  BY DEF HeapInv, TypeOK
<1>1. /\ S \in Nat /\ TotalSize(size[t]) = S
      /\ pc[t] = "rollback" /\ TypeOK
  BY <1>0 DEF Uniform, HeapInv, TypeOK, Asked, Rollback
<1>2. /\ bump' = [bump EXCEPT ![r] = @ - S]
      /\ NextRegion(t)
      /\ UNCHANGED <<numRegions, currentRegion, liveCount, totalAllocated, size, committed,
                     objects, totals>>
  BY <1>0, <1>1 DEF Rollback
<1>3. /\ reg' \in [Threads -> RegionIds]
      /\ reg'[t] < numRegions
      /\ retry' \in [Threads -> BOOLEAN]
      /\ pc' \in [Threads -> Steps]
      /\ pc'[t] \in {"idle", "scan"}
      /\ \A u \in Threads \ {t} : pc'[u] = pc[u] /\ reg'[u] = reg[u]
  BY <1>1, <1>2, NextRegionFacts
<1>4. /\ t \in Overflowing(r)
      /\ Overflowing(r)' = Overflowing(r) \ {t}
      /\ \A x \in RegionIds \ {r} : Overflowing(x)' = Overflowing(x)
  BY <1>0, <1>1, <1>3 DEF Overflowing
<1>5. \A x \in RegionIds :
        /\ bump'[x] \in Nat
        /\ bump'[x] = committed'[x] + S * Cardinality(Overflowing(x)')
  <2> SUFFICES ASSUME NEW x \in RegionIds
               PROVE  /\ bump'[x] \in Nat
                      /\ bump'[x] = committed'[x] + S * Cardinality(Overflowing(x)')
    OBVIOUS
  <2> DEFINE k == Cardinality(Overflowing(x))
  <2>1. bump[x] = committed[x] + S * k /\ k \in Nat /\ committed[x] \in Nat /\ bump[x] \in Nat
    BY OverflowingFinite DEF HeapInv, BumpAccounts, TypeOK
  <2>2. CASE x = r
    <3>1. Cardinality(Overflowing(x)') = k - 1
      <4>1. t \in Overflowing(x) /\ Overflowing(x)' = Overflowing(x) \ {t}
        BY <1>4, <2>2
      <4>2. IsFiniteSet(Overflowing(x))
        BY OverflowingFinite
      <4> QED BY <4>1, <4>2, FS_RemoveElement
    <3>2. bump'[x] = bump[x] - S /\ committed'[x] = committed[x]
      BY <1>2, <2>2 DEF HeapInv, TypeOK
    <3>3. k # 0
      BY <1>4, <2>2, OverflowingFinite, FS_EmptySet
    <3>4. k - 1 \in Nat /\ k = (k - 1) + 1
      BY <2>1, <3>3
    <3>5. S * k = S * (k - 1) + S /\ S * (k - 1) \in Nat
      BY <1>1, <3>4, TimesFacts
    <3> HIDE DEF k
    <3> QED BY <1>1, <2>1, <3>1, <3>2, <3>5
  <2>3. CASE x # r
    BY <1>2, <1>4, <2>1, <2>3 DEF HeapInv, TypeOK
  <2> QED BY <2>2, <2>3
<1>6. TypeOK'
  <2>1. bump' \in [RegionIds -> Nat]
    BY <1>1, <1>2, <1>5 DEF TypeOK
  <2> QED BY <1>1, <1>2, <1>3, <2>1 DEF TypeOK
<1>7. Asked'
  BY <1>1, <1>2, <1>3 DEF HeapInv, Asked, TypeOK
<1>8. FullWhileOverflowing(S)'
  BY <1>2, <1>4 DEF HeapInv, FullWhileOverflowing
<1> QED BY <1>2, <1>5, <1>6, <1>7, <1>8
        DEF HeapInv, BelowCommitted, BumpAccounts, ObjectsDisjoint, Disjoint

\* Every step of allocate, expand and reset preserves the invariant.
LEMMA HeapStep ==
  ASSUME NEW S, Uniform(S), HeapInv(S), [Next]_vars
  PROVE  HeapInv(S)'
<1>0. ASSUME UNCHANGED bump PROVE TypeOK' /\ Asked'
  BY <1>0, TypeStep DEF HeapInv, TypeOK
<1>1. CASE UNCHANGED vars
  <2>1. \A r \in RegionIds : Overflowing(r)' = Overflowing(r)
    BY <1>1 DEF vars, Overflowing
  <2> QED BY <1>0, <1>1, <2>1, FramePreserves DEF vars, HeapInv
<1>2. ASSUME NEW t \in Threads, Allocate(t) PROVE HeapInv(S)'
  <2>1. \A r \in RegionIds : Overflowing(r)' = Overflowing(r)
    BY <1>2, OverflowingSame DEF Allocate, Goto, HeapInv, TypeOK
  <2> QED BY <1>0, <1>2, <2>1, FramePreserves DEF Allocate, HeapInv
<1>3. ASSUME NEW t \in Threads, FetchAdd(t) PROVE HeapInv(S)'
  BY <1>3, FetchAddFits, FetchAddOverflows
<1>4. ASSUME NEW t \in Threads, InitObject(t) PROVE HeapInv(S)'
  <2>1. \A r \in RegionIds : Overflowing(r)' = Overflowing(r)
    BY <1>4, OverflowingSame DEF InitObject, Goto, HeapInv, TypeOK
  <2> QED BY <1>0, <1>4, <2>1, FramePreserves DEF InitObject, HeapInv
<1>5. ASSUME NEW t \in Threads, Rollback(t) PROVE HeapInv(S)'
  BY <1>5, RollbackStep
<1>6. ASSUME NEW t \in Threads, Scan(t) PROVE HeapInv(S)'
  <2>1. /\ pc[t] # "rollback" /\ pc'[t] # "rollback"
        /\ \A u \in Threads \ {t} : pc'[u] = pc[u] /\ reg'[u] = reg[u]
    <3>1. CASE NextRegion(t)
      BY <1>6, <3>1, NextRegionFacts DEF Scan, HeapInv
    <3>2. CASE ~NextRegion(t)
      BY <1>6, <3>2 DEF Scan, Goto, HeapInv, TypeOK
    <3> QED BY <3>1, <3>2
  <2>2. \A r \in RegionIds : Overflowing(r)' = Overflowing(r)
    BY <2>1, OverflowingSame
  <2> QED BY <1>0, <1>6, <2>2, FramePreserves DEF Scan, HeapInv
<1>7. ASSUME NEW t \in Threads, Switch(t) PROVE HeapInv(S)'
  <2>1. \A r \in RegionIds : Overflowing(r)' = Overflowing(r)
    BY <1>7, OverflowingSame DEF Switch, Goto, HeapInv, TypeOK
  <2> QED BY <1>0, <1>7, <2>1, FramePreserves DEF Switch, HeapInv
<1>8. CASE Expand
  <2>1. \A r \in RegionIds : Overflowing(r)' = Overflowing(r)
    BY <1>8 DEF Expand, Overflowing
  <2> QED BY <1>0, <1>8, <2>1, FramePreserves DEF Expand, HeapInv
<1>9. CASE Reset
  <2>1. TypeOK' /\ Asked'
    <3>1. bump' \in [RegionIds -> Nat]
      BY <1>9 DEF Reset
    <3> QED BY <3>1, TypeStep DEF HeapInv
  <2>2. \A r \in RegionIds : Overflowing(r)' = {}
    BY <1>9 DEF Reset, Quiet, Overflowing
  <2>3. \A r \in RegionIds : bump'[r] = committed'[r] + S * Cardinality(Overflowing(r)')
    <3>1. S * 0 = 0
      BY TimesFacts DEF Uniform
    <3>2. \A r \in RegionIds : bump'[r] = 0 /\ committed'[r] = 0
      BY <1>9 DEF Reset
    <3> QED BY <2>2, <3>1, <3>2, FS_EmptySet
  <2>4. Len(objects') = 0
    BY <1>9 DEF Reset
  <2> QED BY <2>1, <2>2, <2>3, <2>4
          DEF HeapInv, BelowCommitted, BumpAccounts, FullWhileOverflowing, ObjectsDisjoint
<1> QED BY <1>1, <1>2, <1>3, <1>4, <1>5, <1>6, <1>7, <1>8, <1>9 DEF Next, Proceed

\* A step from uniform requests to uniform requests starts from uniform ones:
\* the sizes asked for are never forgotten.
LEMMA UniformStep == UniformInv /\ [Next]_vars => UniformInv'
<1> SUFFICES ASSUME UniformInv, [Next]_vars PROVE UniformInv'
  OBVIOUS
<1>1. totals \subseteq totals' /\ totals' \in SUBSET Nat
  <2>1. CASE \E t \in Threads : Allocate(t)
    BY <2>1, PayloadsAssumption, TotalSizeType DEF Allocate, UniformInv
  <2>2. CASE ~\E t \in Threads : Allocate(t)
    BY <2>2 DEF Next, Proceed, FetchAdd, InitObject, Rollback, Scan, Switch, Expand, Reset,
                vars, UniformInv
  <2> QED BY <2>1, <2>2
<1>2. ASSUME NEW S \in Nat, totals' \subseteq {S} PROVE HeapInv(S)'
  <2>1. Uniform(S) /\ HeapInv(S)
    BY <1>1, <1>2 DEF UniformInv, Uniform
  <2> QED BY <2>1, HeapStep
<1> QED BY <1>1, <1>2 DEF UniformInv

\* Objects of one region never share a byte, as long as all requests round up
\* to one total size: the fetch_add and the deferred fetch_sub of any number
\* of threads hand no offset out twice.
THEOREM UniformNoOverlap == Spec => []NoOverlap
<1>1. Init => UniformInv
  <2> SUFFICES ASSUME Init, NEW S \in Nat PROVE HeapInv(S)
    BY DEF UniformInv, Init
  <2>1. TypeOK /\ Asked
    BY RegionsAssumption DEF Init, TypeOK, Asked, RegionIds, Steps
  <2>2. \A r \in RegionIds : Overflowing(r) = {}
    BY DEF Init, Overflowing
  <2>3. \A r \in RegionIds : bump[r] = committed[r] + S * Cardinality(Overflowing(r))
    BY <2>2, FS_EmptySet, TimesFacts DEF Init
  <2>4. Len(objects) = 0
    BY DEF Init
  <2> QED BY <2>1, <2>2, <2>3, <2>4
          DEF HeapInv, BelowCommitted, BumpAccounts, FullWhileOverflowing, ObjectsDisjoint
<1>2. UniformInv => NoOverlap
  <2> SUFFICES ASSUME UniformInv, \A m, n \in totals : m = n PROVE ObjectsDisjoint
    BY DEF NoOverlap
  <2>1. totals \in SUBSET Nat
    BY DEF UniformInv
  <2>2. PICK S \in Nat : totals \subseteq {S}
    <3>1. CASE totals = {}
      BY <3>1
    <3>2. CASE totals # {}
      BY <2>1, <3>2
    <3> QED BY <3>1, <3>2
  <2> QED BY <2>2 DEF UniformInv, HeapInv
<1> QED BY <1>1, <1>2, UniformStep, PTL DEF Spec

-----------------------------------------------------------------------------
(* Space, whatever the sizes *)

\* What each thread still has to take back from the bump pointer of region r.
Owed(r) == [t \in Threads |-> IF t \in Overflowing(r) THEN TotalSize(size[t]) ELSE 0]

\* The bump pointer is the committed bytes plus what overflowed threads owe.
BumpOwes ==
  \A r \in RegionIds : committed[r] <= bump[r] /\ SumsTo(Owed(r), bump[r] - committed[r])

ObjectsOf(r) == {i \in 1..Len(objects) : objects[i].region = r}

\* The threads whose object lies in region r and is not counted yet.
Uncounted(r) == {t \in Threads : pc[t] = "init" /\ reg[t] = r}

LiveCounts ==
  \A r \in RegionIds : liveCount[r] + Cardinality(Uncounted(r)) = Cardinality(ObjectsOf(r))

\* The inductive invariant for requests of any sizes.
SpaceInv ==
  /\ TypeOK
  /\ Asked
  /\ InBounds
  /\ BumpOwes
  /\ LiveCounts

\* What a thread owes is a number of bytes.
LEMMA OwedType ==
  ASSUME TypeOK, Asked, NEW r \in RegionIds
  PROVE  Owed(r) \in [Threads -> Nat]
  BY PayloadsAssumption, TotalSizeType DEF Owed, Overflowing, TypeOK, Asked

\* The objects of a region, and the threads that have one to count, are
\* finitely many.
LEMMA CountsFinite ==
  ASSUME TypeOK, NEW r
  PROVE  IsFiniteSet(ObjectsOf(r)) /\ IsFiniteSet(Uncounted(r))
<1>1. ObjectsOf(r) \in SUBSET (1..Len(objects)) /\ Len(objects) \in Nat
  BY DEF ObjectsOf, TypeOK
<1>2. Uncounted(r) \in SUBSET Threads
  BY DEF Uncounted
<1>3. IsFiniteSet(1..Len(objects))
  BY <1>1, FS_Interval
<1> QED BY <1>1, <1>2, <1>3, FS_Subset, ThreadsAssumption

\* A step that leaves the bump pointers and what is owed alone.
LEMMA BumpSame ==
  ASSUME BumpOwes, UNCHANGED <<bump, committed>>, \A r \in RegionIds : Owed(r)' = Owed(r)
  PROVE  BumpOwes'
  BY DEF BumpOwes

\* A thread that does not overflow, before or after the step, owes nothing.
LEMMA OwedSame ==
  ASSUME NEW t \in Threads, pc[t] # "rollback", pc'[t] # "rollback",
         \A u \in Threads \ {t} : pc'[u] = pc[u] /\ reg'[u] = reg[u] /\ size'[u] = size[u]
  PROVE  \A r \in RegionIds : Owed(r)' = Owed(r)
<1>1. \A r \in RegionIds : Overflowing(r)' = Overflowing(r) /\ t \notin Overflowing(r)
  BY OverflowingSame DEF Overflowing
<1> QED BY <1>1 DEF Owed

\* A fetch_add, and the fetch_sub that takes it back.
LEMMA BumpStep ==
  ASSUME SpaceInv, NEW t \in Threads, FetchAdd(t) \/ Rollback(t)
  PROVE  bump' \in [RegionIds -> Nat] /\ BumpOwes'
<1> DEFINE total == TotalSize(size[t])
<1>0. PICK g \in RegionIds : g = reg[t]
  BY DEF SpaceInv, TypeOK
<1>1. /\ total \in Nat /\ bump[g] \in Nat /\ committed[g] \in Nat /\ committed[g] <= bump[g]
      /\ SumsTo(Owed(g), bump[g] - committed[g]) /\ Owed(g) \in [Threads -> Nat]
  BY PayloadsAssumption, TotalSizeType, OwedType DEF SpaceInv, TypeOK, Asked, BumpOwes, FetchAdd, Rollback
<1> HIDE DEF total
<1>2. CASE FetchAdd(t) /\ Fits(bump[g], total)
  <2>1. /\ bump' = [bump EXCEPT ![g] = @ + total]
        /\ committed' = [committed EXCEPT ![g] = @ + total]
        /\ UNCHANGED <<reg, size>> /\ pc[t] = "fetch" /\ pc' = [pc EXCEPT ![t] = "init"]
    BY <1>0, <1>2 DEF FetchAdd, Goto, total
  <2>2. \A r \in RegionIds : Owed(r)' = Owed(r)
    BY <2>1, OwedSame DEF SpaceInv, TypeOK
  <2>3. bump' \in [RegionIds -> Nat]
    BY <1>1, <2>1 DEF SpaceInv, TypeOK
  <2>4. ASSUME NEW r \in RegionIds
        PROVE  committed'[r] <= bump'[r] /\ bump'[r] - committed'[r] = bump[r] - committed[r]
    BY <1>1, <2>1 DEF SpaceInv, TypeOK, BumpOwes
  <2> QED BY <2>2, <2>3, <2>4 DEF SpaceInv, BumpOwes
<1>3. CASE FetchAdd(t) /\ ~Fits(bump[g], total)
  <2>1. /\ bump' = [bump EXCEPT ![g] = @ + total]
        /\ UNCHANGED <<reg, size, committed>> /\ pc[t] = "fetch"
        /\ pc' = [pc EXCEPT ![t] = "rollback"]
    BY <1>0, <1>3 DEF FetchAdd, Goto, total
  <2>2. /\ Owed(g)[t] = 0 /\ Owed(g)' = [Owed(g) EXCEPT ![t] = total]
        /\ \A r \in RegionIds \ {g} : Owed(r)' = Owed(r)
    BY <1>0, <2>1 DEF Owed, Overflowing, SpaceInv, TypeOK, total
  <2>3. bump' \in [RegionIds -> Nat]
    BY <1>1, <2>1 DEF SpaceInv, TypeOK
  <2>4. SumsTo(Owed(g)', (bump[g] - committed[g]) - 0 + total)
    <3>1. SumsTo([Owed(g) EXCEPT ![t] = total], (bump[g] - committed[g]) - Owed(g)[t] + total)
      BY <1>1, SumChange
    <3> QED BY <2>2, <3>1
  <2>5. /\ (bump[g] - committed[g]) - 0 + total = bump'[g] - committed'[g]
        /\ committed'[g] <= bump'[g]
    BY <1>1, <2>1 DEF SpaceInv, TypeOK
  <2>6. \A r \in RegionIds \ {g} : bump'[r] = bump[r] /\ committed'[r] = committed[r]
    BY <2>1 DEF SpaceInv, TypeOK
  <2> QED BY <2>2, <2>3, <2>4, <2>5, <2>6 DEF SpaceInv, BumpOwes
<1>4. CASE Rollback(t)
  <2>1. /\ bump' = [bump EXCEPT ![g] = @ - total]
        /\ UNCHANGED <<size, committed>> /\ pc[t] = "rollback"
        /\ pc'[t] \in {"idle", "scan"}
        /\ \A u \in Threads \ {t} : pc'[u] = pc[u] /\ reg'[u] = reg[u]
    BY <1>0, <1>4, NextRegionFacts DEF Rollback, SpaceInv, total
  <2>2. /\ Owed(g)[t] = total /\ Owed(g)' = [Owed(g) EXCEPT ![t] = 0]
        /\ \A r \in RegionIds \ {g} : Owed(r)' = Owed(r)
    BY <1>0, <2>1 DEF Owed, Overflowing, total
  <2>3. /\ total <= bump[g] - committed[g]
        /\ SumsTo(Owed(g)', (bump[g] - committed[g]) - total + 0)
    <3>1. /\ Owed(g)[t] <= bump[g] - committed[g]
          /\ SumsTo([Owed(g) EXCEPT ![t] = 0], (bump[g] - committed[g]) - Owed(g)[t] + 0)
      BY <1>1, SumChange
    <3> QED BY <2>2, <3>1
  <2>4. bump' \in [RegionIds -> Nat]
    BY <1>1, <2>1, <2>3 DEF SpaceInv, TypeOK
  <2>5. /\ (bump[g] - committed[g]) - total + 0 = bump'[g] - committed'[g]
        /\ committed'[g] <= bump'[g]
    BY <1>1, <2>1, <2>3 DEF SpaceInv, TypeOK
  <2>6. \A r \in RegionIds \ {g} : bump'[r] = bump[r] /\ committed'[r] = committed[r]
    BY <2>1 DEF SpaceInv, TypeOK
  <2> QED BY <2>2, <2>3, <2>4, <2>5, <2>6 DEF SpaceInv, BumpOwes
<1> QED BY <1>2, <1>3, <1>4

\* An object laid out waits to be counted, and is counted once.
LEMMA CountStep ==
  ASSUME SpaceInv, TypeOK', NEW t \in Threads, FetchAdd(t) \/ InitObject(t)
  PROVE  LiveCounts'
<1>0. PICK g \in RegionIds : g = reg[t] /\ reg' = reg
  BY DEF SpaceInv, TypeOK, FetchAdd, InitObject
<1>1. \A r \in RegionIds :
        /\ liveCount[r] \in Nat /\ liveCount[r] + Cardinality(Uncounted(r)) = Cardinality(ObjectsOf(r))
        /\ IsFiniteSet(ObjectsOf(r)) /\ IsFiniteSet(Uncounted(r))
        /\ Cardinality(ObjectsOf(r)) \in Nat /\ Cardinality(Uncounted(r)) \in Nat
  BY CountsFinite, FS_CardinalityType DEF SpaceInv, TypeOK, LiveCounts
<1>2. CASE FetchAdd(t) /\ pc'[t] = "init"
  <2>1. PICK o \in Object : o.region = g /\ objects' = Append(objects, o)
    <3>1. objects' = Append(objects, [region |-> g, offset |-> bump[g], size |-> TotalSize(size[t])])
      BY <1>0, <1>2 DEF FetchAdd, Goto, SpaceInv, TypeOK
    <3>2. TotalSize(size[t]) \in Nat /\ bump[g] \in Nat
      BY <1>0, <1>2, PayloadsAssumption, TotalSizeType DEF FetchAdd, SpaceInv, TypeOK, Asked
    <3> QED BY <3>1, <3>2 DEF Object
  <2>2. /\ t \notin Uncounted(g) /\ Uncounted(g)' = Uncounted(g) \cup {t}
        /\ \A r \in RegionIds \ {g} : Uncounted(r)' = Uncounted(r)
    BY <1>0, <1>2 DEF Uncounted, FetchAdd, Goto, SpaceInv, TypeOK
  <2>3. /\ Len(objects) + 1 \notin ObjectsOf(g) /\ ObjectsOf(g)' = ObjectsOf(g) \cup {Len(objects) + 1}
        /\ \A r \in RegionIds \ {g} : ObjectsOf(r)' = ObjectsOf(r)
    <3>1. objects \in Seq(Object) /\ Len(objects) \in Nat
      BY DEF SpaceInv, TypeOK
    <3>2. /\ Len(objects') = Len(objects) + 1
          /\ \A i \in 1..Len(objects) : objects'[i] = objects[i]
          /\ objects'[Len(objects) + 1].region = g
      BY <2>1, <3>1, AppendFacts
    <3> QED BY <3>1, <3>2 DEF ObjectsOf
  <2>4. liveCount' = liveCount
    BY <1>2 DEF FetchAdd
  <2>5. /\ Cardinality(Uncounted(g)') = Cardinality(Uncounted(g)) + 1
        /\ Cardinality(ObjectsOf(g)') = Cardinality(ObjectsOf(g)) + 1
    BY <1>1, <2>2, <2>3, FS_AddElement
  <2>6. ASSUME NEW r \in RegionIds
        PROVE  liveCount'[r] + Cardinality(Uncounted(r)') = Cardinality(ObjectsOf(r)')
    <3>1. CASE r = g
      <4>1. /\ liveCount[g] + Cardinality(Uncounted(g)) = Cardinality(ObjectsOf(g))
            /\ liveCount[g] \in Nat /\ Cardinality(Uncounted(g)) \in Nat
        BY <1>1
      <4> QED BY <2>4, <2>5, <3>1, <4>1
    <3>2. CASE r # g
      BY <1>1, <2>2, <2>3, <2>4, <3>2
    <3> QED BY <3>1, <3>2
  <2> QED BY <2>6 DEF LiveCounts
<1>3. CASE FetchAdd(t) /\ pc'[t] # "init"
  <2>1. UNCHANGED <<liveCount, objects>>
    BY <1>3 DEF FetchAdd, Goto, SpaceInv, TypeOK
  <2>2. \A r \in RegionIds : Uncounted(r)' = Uncounted(r) /\ ObjectsOf(r)' = ObjectsOf(r)
    BY <1>0, <1>3, <2>1 DEF Uncounted, ObjectsOf, FetchAdd, Goto, SpaceInv, TypeOK
  <2> QED BY <1>1, <2>1, <2>2 DEF LiveCounts
<1>4. CASE InitObject(t)
  <2>1. /\ t \in Uncounted(g) /\ Uncounted(g)' = Uncounted(g) \ {t}
        /\ \A r \in RegionIds \ {g} : Uncounted(r)' = Uncounted(r)
    BY <1>0, <1>4 DEF Uncounted, InitObject, Goto, SpaceInv, TypeOK
  <2>2. \A r \in RegionIds : ObjectsOf(r)' = ObjectsOf(r)
    BY <1>4 DEF ObjectsOf, InitObject
  <2>3. liveCount'[g] = liveCount[g] + 1 /\ \A r \in RegionIds \ {g} : liveCount'[r] = liveCount[r]
    BY <1>0, <1>4 DEF InitObject, SpaceInv, TypeOK
  <2>4. Cardinality(Uncounted(g)') = Cardinality(Uncounted(g)) - 1
    BY <1>1, <2>1, FS_RemoveElement
  <2>5. ASSUME NEW r \in RegionIds
        PROVE  liveCount'[r] + Cardinality(Uncounted(r)') = Cardinality(ObjectsOf(r)')
    <3>1. CASE r = g
      <4>1. /\ liveCount[g] + Cardinality(Uncounted(g)) = Cardinality(ObjectsOf(g))
            /\ liveCount[g] \in Nat /\ Cardinality(Uncounted(g)) \in Nat
        BY <1>1
      <4> QED BY <2>2, <2>3, <2>4, <3>1, <4>1
    <3>2. CASE r # g
      BY <1>1, <2>1, <2>2, <2>3, <3>2
    <3> QED BY <3>1, <3>2
  <2> QED BY <2>5 DEF LiveCounts
<1> QED BY <1>2, <1>3, <1>4

\* A step that lays out no object and counts none.
LEMMA CountSame ==
  ASSUME LiveCounts, UNCHANGED <<liveCount, objects>>, NEW t \in Threads,
         pc[t] # "init", pc'[t] # "init",
         \A u \in Threads \ {t} : pc'[u] = pc[u] /\ reg'[u] = reg[u]
  PROVE  LiveCounts'
<1>1. \A r \in RegionIds : Uncounted(r)' = Uncounted(r) /\ ObjectsOf(r)' = ObjectsOf(r)
  BY DEF Uncounted, ObjectsOf
<1> QED BY <1>1 DEF LiveCounts

\* Every step of allocate, expand and reset preserves the invariant.
LEMMA SpaceStep == SpaceInv /\ [Next]_vars => SpaceInv'
<1> SUFFICES ASSUME SpaceInv, [Next]_vars PROVE SpaceInv'
  OBVIOUS
<1>1. ASSUME bump' \in [RegionIds -> Nat], InBounds', BumpOwes', TypeOK' => LiveCounts'
      PROVE  SpaceInv'
  BY <1>1, TypeStep DEF SpaceInv
<1>2. CASE UNCHANGED vars
  <2>1. \A r : /\ Owed(r)' = Owed(r) /\ Uncounted(r)' = Uncounted(r)
               /\ ObjectsOf(r)' = ObjectsOf(r)
    BY <1>2 DEF vars, Owed, Overflowing, Uncounted, ObjectsOf
  <2> QED BY <1>1, <1>2, <2>1 DEF vars, SpaceInv, TypeOK, InBounds, BumpOwes, LiveCounts
<1>3. ASSUME NEW t \in Threads, Allocate(t) PROVE SpaceInv'
  <2>1. /\ UNCHANGED <<bump, committed, liveCount, objects>>
        /\ pc[t] = "idle" /\ pc'[t] = "fetch"
        /\ \A u \in Threads \ {t} : pc'[u] = pc[u] /\ reg'[u] = reg[u] /\ size'[u] = size[u]
    BY <1>3 DEF Allocate, Goto, SpaceInv, TypeOK
  <2>2. BumpOwes' /\ LiveCounts'
    BY <2>1, OwedSame, BumpSame, CountSame DEF SpaceInv
  <2> QED BY <1>1, <2>1, <2>2 DEF SpaceInv, TypeOK, InBounds
<1>4. ASSUME NEW t \in Threads, FetchAdd(t) PROVE SpaceInv'
  <2>1. InBounds'
    <3>1. TotalSize(size[t]) \in Nat /\ reg[t] \in RegionIds /\ bump[reg[t]] \in Nat
      BY <1>4, PayloadsAssumption, TotalSizeType DEF FetchAdd, SpaceInv, TypeOK, Asked
    <3> DEFINE o == [region |-> reg[t], offset |-> bump[reg[t]], size |-> TotalSize(size[t])]
    <3>2. o \in Object /\ objects \in Seq(Object)
      BY <3>1 DEF Object, SpaceInv, TypeOK
    <3>3. CASE objects' = Append(objects, o) /\ Fits(bump[reg[t]], TotalSize(size[t]))
      BY <3>2, <3>3, AppendFacts DEF SpaceInv, InBounds, Fits
    <3>4. CASE objects' = objects
      BY <3>4 DEF SpaceInv, InBounds
    <3> QED BY <1>4, <3>3, <3>4 DEF FetchAdd
  <2> QED BY <1>1, <1>4, <2>1, BumpStep, CountStep
<1>5. ASSUME NEW t \in Threads, InitObject(t) PROVE SpaceInv'
  <2>1. /\ UNCHANGED <<bump, committed, objects, reg, size>>
        /\ pc[t] = "init" /\ pc'[t] = "idle" /\ \A u \in Threads \ {t} : pc'[u] = pc[u]
    BY <1>5 DEF InitObject, Goto, SpaceInv, TypeOK
  <2>2. BumpOwes'
    BY <2>1, OwedSame, BumpSame DEF SpaceInv
  <2> QED BY <1>1, <1>5, <2>1, <2>2, CountStep DEF SpaceInv, TypeOK, InBounds
<1>6. ASSUME NEW t \in Threads, Rollback(t) PROVE SpaceInv'
  <2>1. /\ UNCHANGED <<liveCount, objects>> /\ pc[t] = "rollback" /\ pc'[t] \in {"idle", "scan"}
        /\ \A u \in Threads \ {t} : pc'[u] = pc[u] /\ reg'[u] = reg[u]
    BY <1>6, NextRegionFacts DEF Rollback, SpaceInv
  <2>2. LiveCounts'
    BY <2>1, CountSame DEF SpaceInv
  <2> QED BY <1>1, <1>6, <2>1, <2>2, BumpStep DEF SpaceInv, InBounds
<1>7. ASSUME NEW t \in Threads, Scan(t) \/ Switch(t) PROVE SpaceInv'
  <2>1. /\ UNCHANGED <<bump, committed, liveCount, objects, size>>
        /\ pc[t] \in {"scan", "switch"} /\ pc'[t] \in {"idle", "scan", "switch", "fetch"}
        /\ \A u \in Threads \ {t} : pc'[u] = pc[u] /\ reg'[u] = reg[u]
    <3>1. CASE NextRegion(t)
      BY <1>7, <3>1, NextRegionFacts DEF Scan, Switch, SpaceInv
    <3>2. CASE ~NextRegion(t)
      BY <1>7, <3>2 DEF Scan, Switch, Goto, SpaceInv, TypeOK
    <3> QED BY <3>1, <3>2
  <2>2. BumpOwes' /\ LiveCounts'
    BY <2>1, OwedSame, BumpSame, CountSame DEF SpaceInv
  <2> QED BY <1>1, <2>1, <2>2 DEF SpaceInv, TypeOK, InBounds
<1>8. CASE Expand
  <2>1. \A r : /\ Owed(r)' = Owed(r) /\ Uncounted(r)' = Uncounted(r)
               /\ ObjectsOf(r)' = ObjectsOf(r)
    BY <1>8 DEF Expand, Owed, Overflowing, Uncounted, ObjectsOf
  <2> QED BY <1>1, <1>8, <2>1 DEF Expand, SpaceInv, TypeOK, InBounds, BumpOwes, LiveCounts
<1>9. CASE Reset
  <2>1. /\ Len(objects') = 0 /\ \A t \in Threads : pc'[t] = "idle"
        /\ \A r \in RegionIds : bump'[r] = 0 /\ committed'[r] = 0 /\ liveCount'[r] = 0
        /\ bump' \in [RegionIds -> Nat]
    BY <1>9 DEF Reset, Quiet
  <2>2. \A r : /\ \A t \in Threads : Owed(r)'[t] = 0
               /\ Uncounted(r)' = {} /\ ObjectsOf(r)' = {}
    BY <2>1 DEF Owed, Overflowing, Uncounted, ObjectsOf
  <2>3. BumpOwes'
    BY <2>1, <2>2, SumOfZeros DEF BumpOwes
  <2>4. \A r \in RegionIds : Cardinality(Uncounted(r)') = 0 /\ Cardinality(ObjectsOf(r)') = 0
    BY <2>2, FS_EmptySet
  <2>5. LiveCounts'
    BY <2>1, <2>4 DEF LiveCounts
  <2> QED BY <1>1, <2>1, <2>3, <2>5 DEF InBounds
<1> QED BY <1>2, <1>3, <1>4, <1>5, <1>6, <1>7, <1>8, <1>9 DEF Next, Proceed

\* The invariant holds at the start.
LEMMA SpaceInit == Init => SpaceInv
<1> SUFFICES ASSUME Init PROVE SpaceInv
  OBVIOUS
<1>1. TypeOK /\ Asked /\ InBounds
  BY RegionsAssumption DEF Init, TypeOK, Asked, RegionIds, Steps, InBounds
<1>2. \A r : /\ \A t \in Threads : Owed(r)[t] = 0
             /\ Uncounted(r) = {} /\ ObjectsOf(r) = {}
  BY DEF Init, Owed, Overflowing, Uncounted, ObjectsOf
<1>3. BumpOwes
  BY <1>2, SumOfZeros DEF Init, BumpOwes
<1>4. LiveCounts
  <2>1. \A r \in RegionIds : Cardinality(Uncounted(r)) = 0 /\ Cardinality(ObjectsOf(r)) = 0
    BY <1>2, FS_EmptySet
  <2> QED BY <2>1 DEF Init, LiveCounts
<1> QED BY <1>1, <1>3, <1>4 DEF SpaceInv

\* Bump pointers and live counts stay natural numbers, and threads inside
\* regions that exist, for every mixture of sizes: no fetch_sub takes back
\* more than its thread had added.
THEOREM HeapTypeCorrect == Spec => []TypeOK
<1>1. SpaceInv => TypeOK
  BY DEF SpaceInv
<1> QED BY <1>1, SpaceInit, SpaceStep, PTL DEF Spec

\* Every object lies inside its region, and with no allocation in flight the
\* bump pointer and live_count of a region are the bytes and the number of its
\* objects, for every mixture of sizes: what overflowing fetch_adds added has
\* been taken back to the last byte.
THEOREM SpaceIsAccounted == Spec => []SpaceAccounted
<1>1. ASSUME SpaceInv PROVE SpaceAccounted
  <2>1. InBounds
    BY <1>1 DEF SpaceInv
  <2>2. ASSUME Quiet, NEW r \in RegionIds
        PROVE  liveCount[r] = Cardinality(ObjectsOf(r)) /\ bump[r] = committed[r]
    <3>1. Uncounted(r) = {} /\ \A t \in Threads : Owed(r)[t] = 0
      BY <2>2 DEF Quiet, Uncounted, Owed, Overflowing
    <3>2. liveCount[r] = Cardinality(ObjectsOf(r))
      <4>1. Cardinality(Uncounted(r)) = 0
        BY <3>1, FS_EmptySet
      <4>2. liveCount[r] + Cardinality(Uncounted(r)) = Cardinality(ObjectsOf(r)) /\ liveCount[r] \in Nat
        BY <1>1 DEF SpaceInv, TypeOK, LiveCounts
      <4> QED BY <4>1, <4>2
    <3>3. bump[r] - committed[r] = 0
      BY <1>1, <3>1, SumOfZeros DEF SpaceInv, BumpOwes
    <3> QED BY <1>1, <3>2, <3>3 DEF SpaceInv, TypeOK
  <2>3. CountsAgree
    BY <2>2 DEF CountsAgree, ObjectsOf
  <2> QED BY <2>1, <2>3 DEF SpaceAccounted
<1>2. SpaceInv => SpaceAccounted
  BY <1>1
<1> QED BY <1>2, SpaceInit, SpaceStep, PTL DEF Spec
=============================================================================
