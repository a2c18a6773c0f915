------------------------------ MODULE RegionHeap ------------------------------
(***************************************************************************)
(* The shared heap of jdgc: Heap (heap.rs), RegionManager and Region       *)
(* (region.rs) and the slow-path Allocator (allocator.rs).                 *)
(*                                                                         *)
(* A region hands out space by one fetch_add on its bump pointer and takes *)
(* an overflowing fetch_add back by a later fetch_sub; the manager tries   *)
(* its current region and then every region in order.  Every atomic        *)
(* operation of allocate() is one step, so the rollback of one thread      *)
(* interleaves with the allocations of the others.                         *)
(***************************************************************************)
EXTENDS Naturals, Sequences, FiniteSets

CONSTANTS Threads,
          Payloads,     \* the payload sizes asked for
          HeaderSize,   \* size_of::<ObjectHeader>()
          ObjAlign,     \* OBJ_ALIGN
          RegionSize,   \* REGION_SIZE
          InitRegions,  \* regions RegionManager::new creates
          MaxRegions    \* bound on expand()

ASSUME PayloadsAssumption == Payloads \subseteq Nat
ASSUME SizesAssumption ==
         HeaderSize \in Nat \ {0} /\ ObjAlign \in Nat \ {0} /\ RegionSize \in Nat \ {0}
ASSUME RegionsAssumption ==
         InitRegions \in Nat \ {0} /\ MaxRegions \in Nat /\ InitRegions <= MaxRegions
ASSUME ThreadsAssumption == IsFiniteSet(Threads)

VARIABLES numRegions, currentRegion,   \* RegionManager
          bump, liveCount,             \* Region, by index
          totalAllocated,              \* Heap.total_allocated, Allocator.allocated_bytes
          pc,                          \* where each thread is inside allocate()
          reg, size,                   \* the region it tries and its payload size
          retry,                       \* TRUE once it is in the loop over all regions
          committed,                   \* history: bytes of the region given to objects
          objects,                     \* history: the objects handed out, in order
          totals                       \* history: the total sizes asked for so far

vars == <<numRegions, currentRegion, bump, liveCount, totalAllocated,
          pc, reg, size, retry, committed, objects, totals>>

RegionIds == 0..(MaxRegions - 1)
Steps == {"idle", "fetch", "init", "rollback", "scan", "switch"}

Object == [region : RegionIds, offset : Nat, size : Nat]

TypeOK ==
  /\ numRegions \in 1..MaxRegions
  /\ currentRegion \in 0..(numRegions - 1)
  /\ bump \in [RegionIds -> Nat]
  /\ liveCount \in [RegionIds -> Nat]
  /\ totalAllocated \in Nat
  /\ pc \in [Threads -> Steps]
  /\ reg \in [Threads -> RegionIds]
  /\ size \in [Threads -> Nat]
  /\ retry \in [Threads -> BOOLEAN]
  /\ committed \in [RegionIds -> Nat]
  /\ objects \in Seq(Object)
  /\ totals \in SUBSET Nat

\* (val + align - 1) & !(align - 1)
AlignUp(val, align) == ((val + align - 1) \div align) * align

TotalSize(payload) == AlignUp(HeaderSize + payload, ObjAlign)

Goto(t, l) == pc' = [pc EXCEPT ![t] = l]

Init ==
  /\ numRegions = InitRegions
  /\ currentRegion = 0
  /\ bump = [r \in RegionIds |-> 0]
  /\ liveCount = [r \in RegionIds |-> 0]
  /\ totalAllocated = 0
  /\ pc = [t \in Threads |-> "idle"]
  /\ reg = [t \in Threads |-> 0]
  /\ size = [t \in Threads |-> 0]
  /\ retry = [t \in Threads |-> FALSE]
  /\ committed = [r \in RegionIds |-> 0]
  /\ objects = <<>>
  /\ totals = {}

-----------------------------------------------------------------------------
(* allocate(size) *)

\* RegionManager::allocate loads the current region's index.
Allocate(t) ==
  /\ pc[t] = "idle"
  /\ \E p \in Payloads :
       /\ size' = [size EXCEPT ![t] = p]
       /\ totals' = totals \cup {TotalSize(p)}
  /\ reg' = [reg EXCEPT ![t] = currentRegion]
  /\ retry' = [retry EXCEPT ![t] = FALSE]
  /\ Goto(t, "fetch")
  /\ UNCHANGED <<numRegions, currentRegion, bump, liveCount, totalAllocated,
                 committed, objects>>

Fits(offset, total) == offset + total <= RegionSize

\* Mutant: the object's address is rounded down, to twice the alignment.
FetchAddRounded(t) ==
  LET r == reg[t]
      total == TotalSize(size[t])
  IN  /\ pc[t] = "fetch"
      /\ bump' = [bump EXCEPT ![r] = @ + total]
      /\ \/ /\ Fits(bump[r], total)
            /\ objects' = Append(objects, [region |-> r, size |-> total,
                                          offset |-> bump[r] - (bump[r] % (2 * ObjAlign))])
            /\ committed' = [committed EXCEPT ![r] = @ + total]
            /\ Goto(t, "init")
         \/ /\ ~Fits(bump[r], total)
            /\ Goto(t, "rollback")
            /\ UNCHANGED <<objects, committed>>
      /\ UNCHANGED <<numRegions, currentRegion, liveCount, totalAllocated,
                     reg, size, retry, totals>>

\* allocate_object: fetch_add, and the comparison that decides its fate.
FetchAdd(t) ==
  LET r == reg[t]
      total == TotalSize(size[t])
  IN  /\ pc[t] = "fetch"
      /\ bump' = [bump EXCEPT ![r] = @ + total]
      /\ \/ /\ Fits(bump[r], total)
            /\ objects' = Append(objects, [region |-> r, offset |-> bump[r], size |-> total])
            /\ committed' = [committed EXCEPT ![r] = @ + total]
            /\ Goto(t, "init")
         \/ /\ ~Fits(bump[r], total)
            /\ Goto(t, "rollback")
            /\ UNCHANGED <<objects, committed>>
      /\ UNCHANGED <<numRegions, currentRegion, liveCount, totalAllocated,
                     reg, size, retry, totals>>

\* The header is written and the counters raised; allocate() returns it.
InitObject(t) ==
  /\ pc[t] = "init"
  /\ liveCount' = [liveCount EXCEPT ![reg[t]] = @ + 1]
  /\ totalAllocated' = totalAllocated + size[t]
  /\ Goto(t, "idle")
  /\ UNCHANGED <<numRegions, currentRegion, bump, reg, size, retry,
                 committed, objects, totals>>

\* Mutant: the loop over the regions starts again when it has ended.
NextRegionForever(t) ==
  LET again == reg[t] + 1 < numRegions
  IN  /\ reg' = [reg EXCEPT ![t] = IF retry[t] /\ again THEN reg[t] + 1 ELSE 0]
      /\ retry' = [retry EXCEPT ![t] = TRUE]
      /\ Goto(t, "scan")

\* The loop goes on with the region after reg[t], or starts at the first one;
\* after the last one allocate() returns None.
NextRegion(t) ==
  LET again == ~retry[t] \/ reg[t] + 1 < numRegions
  IN  /\ reg' = [reg EXCEPT ![t] = IF retry[t] /\ again THEN reg[t] + 1 ELSE 0]
      /\ retry' = [retry EXCEPT ![t] = TRUE]
      /\ Goto(t, IF again THEN "scan" ELSE "idle")

\* Mutant: only the payload is given back.
RollbackPayload(t) ==
  /\ pc[t] = "rollback"
  /\ bump' = [bump EXCEPT ![reg[t]] = @ - size[t]]
  /\ NextRegion(t)
  /\ UNCHANGED <<numRegions, currentRegion, liveCount, totalAllocated, size,
                 committed, objects, totals>>

\* allocate_object: fetch_sub, and None to the manager.
Rollback(t) ==
  /\ pc[t] = "rollback"
  /\ bump' = [bump EXCEPT ![reg[t]] = @ - TotalSize(size[t])]
  /\ NextRegion(t)
  /\ UNCHANGED <<numRegions, currentRegion, liveCount, totalAllocated, size,
                 committed, objects, totals>>

\* can_allocate(size) compares the payload size alone with what is left.
Scan(t) ==
  /\ pc[t] = "scan"
  /\ \/ /\ bump[reg[t]] + size[t] <= RegionSize
        /\ Goto(t, "switch")
        /\ UNCHANGED <<reg, retry>>
     \/ /\ bump[reg[t]] + size[t] > RegionSize
        /\ NextRegion(t)
  /\ UNCHANGED <<numRegions, currentRegion, bump, liveCount, totalAllocated, size,
                 committed, objects, totals>>

\* Mutant: the region is counted from one.
SwitchOffByOne(t) ==
  /\ pc[t] = "switch"
  /\ currentRegion' = reg[t] + 1
  /\ Goto(t, "fetch")
  /\ UNCHANGED <<numRegions, bump, liveCount, totalAllocated, reg, size, retry,
                 committed, objects, totals>>

Switch(t) ==
  /\ pc[t] = "switch"
  /\ currentRegion' = reg[t]
  /\ Goto(t, "fetch")
  /\ UNCHANGED <<numRegions, bump, liveCount, totalAllocated, reg, size, retry,
                 committed, objects, totals>>

-----------------------------------------------------------------------------
(* expand and reset, by a caller that has the heap to itself: expand takes *)
(* &mut self, and reset leaves every object handed out dangling.           *)

Quiet == \A t \in Threads : pc[t] = "idle"

Expand ==
  /\ Quiet
  /\ \E n \in 1..(MaxRegions - numRegions) : numRegions' = numRegions + n
  /\ UNCHANGED <<currentRegion, bump, liveCount, totalAllocated, pc, reg, size,
                 retry, committed, objects, totals>>

Reset ==
  /\ Quiet
  /\ currentRegion' = 0
  /\ bump' = [r \in RegionIds |-> 0]
  /\ liveCount' = [r \in RegionIds |-> 0]
  /\ totalAllocated' = 0
  /\ committed' = [r \in RegionIds |-> 0]
  /\ objects' = <<>>
  /\ UNCHANGED <<numRegions, pc, reg, size, retry, totals>>

-----------------------------------------------------------------------------
Proceed(t) == FetchAdd(t) \/ InitObject(t) \/ Rollback(t) \/ Scan(t) \/ Switch(t)

Next ==
  \/ \E t \in Threads : Allocate(t) \/ Proceed(t)
  \/ Expand
  \/ Reset

Fairness == \A t \in Threads : WF_vars(Proceed(t))

Spec == Init /\ [][Next]_vars
FairSpec == Spec /\ Fairness

-----------------------------------------------------------------------------
(* Properties *)

\* The threads that have overflowed region r and not yet given the bytes back.
Overflowing(r) == {t \in Threads : pc[t] = "rollback" /\ reg[t] = r}

\* Objects lie inside their region, whatever other threads have added to the
\* bump pointer and not yet taken back.
InBounds ==
  \A i \in 1..Len(objects) : objects[i].offset + objects[i].size <= RegionSize

Disjoint(o, p) ==
  o.region = p.region => o.offset + o.size <= p.offset \/ p.offset + p.size <= o.offset

\* The test of allocate_object says "Objects should be at different addresses"
\* and "obj2 should be after obj1 + total_size": two objects of one region
\* never share a byte.
ObjectsDisjoint ==
  \A i, j \in 1..Len(objects) :
    i # j => Disjoint(objects[i], objects[j])

\* As long as all requests round up to one total size no two objects share a
\* byte: overlapping fetch_adds and rollbacks hand no offset out twice.
NoOverlap == (\A m, n \in totals : m = n) => ObjectsDisjoint

\* Every object handed out is counted: with no allocation in flight live_count
\* is the number of objects of the region, and used_bytes() is the
\* space they take.
CountsAgree ==
  Quiet =>
    \A r \in RegionIds :
      /\ liveCount[r] = Cardinality({i \in 1..Len(objects) : objects[i].region = r})
      /\ bump[r] = committed[r]

\* Both: the space of a region is the space of its objects, and no more of it
\* than there is (allocate_object's fetch_add, comparison and fetch_sub).
SpaceAccounted == InBounds /\ CountsAgree

\* An allocation ends, with an object or with None: the walk over the regions
\* terminates even when other threads move the current region meanwhile.
AllocationEnds == \A t \in Threads : (pc[t] # "idle") ~> (pc[t] = "idle")
=============================================================================
