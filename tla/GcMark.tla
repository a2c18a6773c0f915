-------------------------------- MODULE GcMark --------------------------------
(***************************************************************************)
(* One collector thread running jdgc's mark and sweep (marker.rs,          *)
(* RegionManager::sweep_unmarked in region.rs) while mutators use the      *)
(* header operations of header.rs, the write barrier of barrier.rs and the *)
(* RootSet of roots.rs.                                                    *)
(*                                                                         *)
(* Headers are the only words the threads share: MarkQueue and RootSet     *)
(* hold raw pointers and are confined to one thread at a time by Rust's    *)
(* Send and Sync.  Every load, store and compare_exchange of a header is   *)
(* one step.  Nothing in the crate calls the phases in turn (jdgc_collect  *)
(* is an extern declaration); StartCycle, SeedDone and SweepDone stand for *)
(* that driver.                                                            *)
(***************************************************************************)
EXTENDS Naturals, Sequences, FiniteSets

CONSTANTS Objects,
          Mutators,
          MaxRoots,     \* RootSet.max_roots
          Concurrent,   \* what mutators do while a cycle, or a barrier, is under way
          NoObject      \* value of a local that is not in scope

ASSUME MaxRootsAssumption == MaxRoots \in Nat
ASSUME ConcurrentAssumption == Concurrent \subseteq {"barrier", "pin", "register", "allocate"}
ASSUME NoObjectAssumption == NoObject \notin Objects

VARIABLES hdr,        \* color and pinned bit of every header
          allocated,  \* objects laid out in the regions
          freed,      \* objects given to sweep's on_free
          roots,      \* the values of RootSet.roots
          queue,      \* the marker's MarkQueue
          gcStep, gcObj, gcOld,   \* the collector: step, object, header it loaded
          todo,       \* roots still to seed, or objects still to sweep
          mStep, mObj, mOld,      \* each mutator: step, object, header it loaded
          barrierQueue            \* what is in the MarkQueues mutators give the barrier

markVars == <<hdr, allocated, freed, roots, queue, gcStep, gcObj, gcOld, todo,
          mStep, mObj, mOld, barrierQueue>>
gcVars == <<queue, gcStep, gcObj, gcOld, todo>>
mutVars == <<mStep, mObj, mOld, barrierQueue>>

Header == [color : {"white", "gray", "black"}, pinned : BOOLEAN]
Fresh == [color |-> "white", pinned |-> FALSE]   \* init_at

MarkTypeOK ==
  /\ hdr \in [Objects -> Header]
  /\ allocated \in SUBSET Objects
  /\ freed \in SUBSET allocated
  /\ roots \in SUBSET allocated
  /\ queue \in Seq(Objects)
  /\ gcStep \in {"idle", "seed", "seedCas", "pop", "isGray", "shadeLoad", "shadeStore",
                 "sweep", "resetLoad", "resetStore"}
  /\ gcObj \in Objects \cup {NoObject}
  /\ gcOld \in Header
  /\ todo \in SUBSET Objects
  /\ mStep \in [Mutators -> {"run", "pinStore", "unpinStore", "target", "shade", "shadeCas"}]
  /\ mObj \in [Mutators -> Objects \cup {NoObject}]
  /\ mOld \in [Mutators -> Header]
  /\ barrierQueue \in SUBSET Objects

MarkInit ==
  /\ hdr = [o \in Objects |-> Fresh]
  /\ allocated = {}
  /\ freed = {}
  /\ roots = {}
  /\ queue = <<>>
  /\ gcStep = "idle"
  /\ gcObj = NoObject
  /\ gcOld = Fresh
  /\ todo = {}
  /\ mStep = [m \in Mutators |-> "run"]
  /\ mObj = [m \in Mutators |-> NoObject]
  /\ mOld = [m \in Mutators |-> Fresh]
  /\ barrierQueue = {}

Usable == allocated \ freed
May(op) == gcStep = "idle" \/ op \in Concurrent

-----------------------------------------------------------------------------
(* The collector *)

GcGoto(l) == gcStep' = l
GcReturn(l) == gcStep' = l /\ gcObj' = NoObject /\ gcOld' = Fresh

\* The driver begins a cycle; a mutator that may not run beside it has
\* reached a safepoint.
StartCycle ==
  /\ gcStep = "idle"
  /\ \A m \in Mutators :
       /\ "pin" \notin Concurrent => mStep[m] \notin {"pinStore", "unpinStore"}
       /\ "barrier" \notin Concurrent => mStep[m] \notin {"target", "shade", "shadeCas"}
  /\ todo' = roots
  /\ GcGoto("seed")
  /\ UNCHANGED <<hdr, allocated, freed, roots, queue, gcObj, gcOld, mutVars>>

\* seed_from_roots: try_shade_gray loads the header of a root.
SeedLoad ==
  /\ gcStep = "seed"
  /\ \E o \in todo :
       /\ todo' = todo \ {o}
       /\ \/ /\ hdr[o].color = "white"
             /\ gcObj' = o
             /\ gcOld' = hdr[o]
             /\ GcGoto("seedCas")
          \/ hdr[o].color # "white" /\ UNCHANGED <<gcStep, gcObj, gcOld>>
  /\ UNCHANGED <<hdr, allocated, freed, roots, queue, mutVars>>

\* Its compare_exchange is tried once; a root that loses is not queued.
SeedCas ==
  /\ gcStep = "seedCas"
  /\ \/ /\ hdr[gcObj] = gcOld
        /\ hdr' = [hdr EXCEPT ![gcObj].color = "gray"]
        /\ queue' = Append(queue, gcObj)
     \/ /\ hdr[gcObj] # gcOld
        /\ UNCHANGED <<hdr, queue>>
  /\ GcReturn("seed")
  /\ UNCHANGED <<allocated, freed, roots, todo, mutVars>>

SeedDone ==
  /\ gcStep = "seed"
  /\ todo = {}
  /\ GcGoto("pop")
  /\ UNCHANGED <<hdr, allocated, freed, roots, queue, gcObj, gcOld, todo, mutVars>>

\* process_queue pops an object, mark_object begins.
Pop ==
  /\ gcStep = "pop"
  /\ queue # <<>>
  /\ gcObj' = Head(queue)
  /\ queue' = Tail(queue)
  /\ GcGoto("isGray")
  /\ UNCHANGED <<hdr, allocated, freed, roots, gcOld, todo, mutVars>>

IsGray ==
  /\ gcStep = "isGray"
  /\ \/ /\ hdr[gcObj].color = "gray"
        /\ GcGoto("shadeLoad")
        /\ UNCHANGED <<gcObj, gcOld>>
     \/ hdr[gcObj].color # "gray" /\ GcReturn("pop")
  /\ UNCHANGED <<hdr, allocated, freed, roots, queue, todo, mutVars>>

\* shade_black loads the header again and stores it; no child is traced.
ShadeLoad ==
  /\ gcStep = "shadeLoad"
  /\ gcOld' = hdr[gcObj]
  /\ GcGoto("shadeStore")
  /\ UNCHANGED <<hdr, allocated, freed, roots, queue, gcObj, todo, mutVars>>

ShadeStore ==
  /\ gcStep = "shadeStore"
  /\ hdr' = [hdr EXCEPT ![gcObj] = [gcOld EXCEPT !.color = "black"]]
  /\ GcReturn("pop")
  /\ UNCHANGED <<allocated, freed, roots, queue, todo, mutVars>>

\* The queue is empty; sweep_unmarked walks every object up to the bump
\* pointers it finds, the ones freed in earlier cycles included.
StartSweep ==
  /\ gcStep = "pop"
  /\ queue = <<>>
  /\ todo' = allocated
  /\ GcGoto("sweep")
  /\ UNCHANGED <<hdr, allocated, freed, roots, queue, gcObj, gcOld, mutVars>>

\* Mutant: only black objects count as marked.
SweepKeepsBlack ==
  /\ gcStep = "sweep"
  /\ \E o \in todo :
       /\ todo' = todo \ {o}
       /\ \/ /\ hdr[o].color # "black"
             /\ freed' = freed \cup {o}
             /\ UNCHANGED <<gcStep, gcObj>>
          \/ /\ hdr[o].color = "black"
             /\ gcObj' = o
             /\ GcGoto("resetLoad")
             /\ UNCHANGED freed
  /\ UNCHANGED <<hdr, allocated, roots, queue, gcOld, mutVars>>

Sweep ==
  /\ gcStep = "sweep"
  /\ \E o \in todo :
       /\ todo' = todo \ {o}
       /\ \/ /\ hdr[o].color = "white"
             /\ freed' = freed \cup {o}
             /\ UNCHANGED <<gcStep, gcObj>>
          \/ /\ hdr[o].color # "white"
             /\ gcObj' = o
             /\ GcGoto("resetLoad")
             /\ UNCHANGED freed
  /\ UNCHANGED <<hdr, allocated, roots, queue, gcOld, mutVars>>

\* reset_white: a load and a store.
ResetLoad ==
  /\ gcStep = "resetLoad"
  /\ gcOld' = hdr[gcObj]
  /\ GcGoto("resetStore")
  /\ UNCHANGED <<hdr, allocated, freed, roots, queue, gcObj, todo, mutVars>>

ResetStore ==
  /\ gcStep = "resetStore"
  /\ hdr' = [hdr EXCEPT ![gcObj] = [gcOld EXCEPT !.color = "white"]]
  /\ GcReturn("sweep")
  /\ UNCHANGED <<allocated, freed, roots, queue, todo, mutVars>>

SweepDone ==
  /\ gcStep = "sweep"
  /\ todo = {}
  /\ GcGoto("idle")
  /\ UNCHANGED <<hdr, allocated, freed, roots, queue, gcObj, gcOld, todo, mutVars>>

-----------------------------------------------------------------------------
(* The mutators *)

MGoto(m, l) == mStep' = [mStep EXCEPT ![m] = l]
MReturn(m) ==
  /\ mStep' = [mStep EXCEPT ![m] = "run"]
  /\ mObj' = [mObj EXCEPT ![m] = NoObject]
  /\ mOld' = [mOld EXCEPT ![m] = Fresh]

\* A region lays out the object and init_at writes its header.
AllocateObject(m) ==
  /\ mStep[m] = "run"
  /\ May("allocate")
  /\ \E o \in Objects \ allocated :
       /\ allocated' = allocated \cup {o}
       /\ hdr' = [hdr EXCEPT ![o] = Fresh]
  /\ UNCHANGED <<freed, roots, gcVars, mutVars>>

\* Mutant: an object swept away can still be registered.
RegisterStale(m) ==
  /\ mStep[m] = "run"
  /\ May("register")
  /\ gcStep \notin {"seed", "seedCas"}
  /\ \E o \in Objects \ roots : roots' = roots \cup {o}
  /\ UNCHANGED <<hdr, allocated, freed, gcVars, mutVars>>

\* RootSet::register: refused when full or already there.  The set is
\* borrowed, and cannot be changed, while seed_from_roots reads it.
Register(m) ==
  /\ mStep[m] = "run"
  /\ May("register")
  /\ gcStep \notin {"seed", "seedCas"}
  /\ Cardinality(roots) < MaxRoots
  /\ \E o \in Usable \ roots : roots' = roots \cup {o}
  /\ UNCHANGED <<hdr, allocated, freed, gcVars, mutVars>>

Unregister(m) ==
  /\ mStep[m] = "run"
  /\ gcStep \notin {"seed", "seedCas"}
  /\ \E o \in roots : roots' = roots \ {o}
  /\ UNCHANGED <<hdr, allocated, freed, gcVars, mutVars>>

\* pin and unpin: a load and a plain store of the whole word.
PinLoad(m) ==
  /\ mStep[m] = "run"
  /\ May("pin")
  /\ "pin" \in Concurrent \/ \A n \in Mutators : mStep[n] = "run"
  /\ \E o \in Usable :
       /\ mObj' = [mObj EXCEPT ![m] = o]
       /\ mOld' = [mOld EXCEPT ![m] = hdr[o]]
  /\ \E l \in {"pinStore", "unpinStore"} : MGoto(m, l)
  /\ UNCHANGED <<hdr, allocated, freed, roots, gcVars, barrierQueue>>

PinStore(m) ==
  /\ mStep[m] \in {"pinStore", "unpinStore"}
  /\ hdr' = [hdr EXCEPT ![mObj[m]] =
                [mOld[m] EXCEPT !.pinned = (mStep[m] = "pinStore")]]
  /\ MReturn(m)
  /\ UNCHANGED <<allocated, freed, roots, gcVars, barrierQueue>>

\* WriteBarrier::apply: source.is_black(), then target.is_white(), then
\* try_shade_gray with its own load and one compare_exchange.
BarrierSource(m) ==
  /\ mStep[m] = "run"
  /\ May("barrier")
  /\ "pin" \in Concurrent \/ \A n \in Mutators : mStep[n] \notin {"pinStore", "unpinStore"}
  /\ \E s \in Usable, o \in Usable :
       /\ hdr[s].color = "black"
       /\ mObj' = [mObj EXCEPT ![m] = o]
  /\ MGoto(m, "target")
  /\ UNCHANGED <<hdr, allocated, freed, roots, gcVars, mOld, barrierQueue>>

BarrierTarget(m) ==
  /\ mStep[m] = "target"
  /\ \/ /\ hdr[mObj[m]].color = "white"
        /\ MGoto(m, "shade")
        /\ UNCHANGED <<mObj, mOld>>
     \/ hdr[mObj[m]].color # "white" /\ MReturn(m)
  /\ UNCHANGED <<hdr, allocated, freed, roots, gcVars, barrierQueue>>

BarrierShade(m) ==
  /\ mStep[m] = "shade"
  /\ \/ /\ hdr[mObj[m]].color = "white"
        /\ mOld' = [mOld EXCEPT ![m] = hdr[mObj[m]]]
        /\ MGoto(m, "shadeCas")
        /\ UNCHANGED mObj
     \/ hdr[mObj[m]].color # "white" /\ MReturn(m)
  /\ UNCHANGED <<hdr, allocated, freed, roots, gcVars, barrierQueue>>

\* Mutant: the gray header is stored, not compare-exchanged.
BarrierStore(m) ==
  /\ mStep[m] = "shadeCas"
  /\ hdr' = [hdr EXCEPT ![mObj[m]] = [mOld[m] EXCEPT !.color = "gray"]]
  /\ barrierQueue' = barrierQueue \cup {mObj[m]}
  /\ MReturn(m)
  /\ UNCHANGED <<allocated, freed, roots, gcVars>>

BarrierCas(m) ==
  /\ mStep[m] = "shadeCas"
  /\ \/ /\ hdr[mObj[m]] = mOld[m]
        /\ hdr' = [hdr EXCEPT ![mObj[m]].color = "gray"]
        /\ barrierQueue' = barrierQueue \cup {mObj[m]}
     \/ /\ hdr[mObj[m]] # mOld[m]
        /\ UNCHANGED <<hdr, barrierQueue>>
  /\ MReturn(m)
  /\ UNCHANGED <<allocated, freed, roots, gcVars>>

-----------------------------------------------------------------------------
Collect ==
  \/ SeedLoad \/ SeedCas \/ SeedDone
  \/ Pop \/ IsGray \/ ShadeLoad \/ ShadeStore
  \/ StartSweep \/ Sweep \/ ResetLoad \/ ResetStore \/ SweepDone

Mutate(m) ==
  \/ AllocateObject(m) \/ Register(m) \/ Unregister(m)
  \/ PinLoad(m) \/ PinStore(m)
  \/ BarrierSource(m) \/ BarrierTarget(m) \/ BarrierShade(m) \/ BarrierCas(m)

MarkNext == StartCycle \/ Collect \/ \E m \in Mutators : Mutate(m)

MarkSpec == MarkInit /\ [][MarkNext]_markVars

-----------------------------------------------------------------------------
(* Properties *)

Sweeping == gcStep \in {"sweep", "resetLoad", "resetStore"}

InHand(o) == gcObj = o /\ gcStep \in {"isGray", "shadeLoad", "shadeStore"}

\* A registered root is never given to on_free, whatever the barrier does to
\* headers the collector has loaded and not yet exchanged.
RootsSurvive == roots \cap freed = {}

\* What waits to be marked is gray, once, and what is gray waits to be marked
\* (or was shaded by a barrier, into its own queue).  It carries the
\* debug_assert of shade_black: the header about to be blackened is gray.
GrayIsQueued ==
  /\ \A i \in 1..Len(queue) : hdr[queue[i]].color = "gray" /\ ~InHand(queue[i])
  /\ \A i, j \in 1..Len(queue) : queue[i] = queue[j] => i = j
  /\ gcStep = "shadeStore" => gcOld.color = "gray"
  /\ \A o \in Objects :
       hdr[o].color = "gray" =>
         \/ \E i \in 1..Len(queue) : queue[i] = o
         \/ InHand(o)
         \/ o \in barrierQueue

\* Both: marking misses nothing it has shaded, and the sweep no root.
MarkingIsSound == RootsSurvive /\ GrayIsQueued

\* header.rs: "Try to shade White -> Gray", "Shade Gray -> Black (only valid
\* transition from Gray)"; only the sweep turns a header white again.
ColorProtocol ==
  [][\A o \in Objects :
       hdr'[o].color # hdr[o].color =>
         \/ hdr[o].color = "white" /\ hdr'[o].color = "gray"
         \/ hdr[o].color = "gray" /\ hdr'[o].color = "black"
         \/ Sweeping /\ hdr'[o].color = "white"]_markVars
=============================================================================
