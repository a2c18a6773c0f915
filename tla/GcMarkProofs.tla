----------------------------- MODULE GcMarkProofs -----------------------------
(***************************************************************************)
(* MarkingIsSound and ColorProtocol of GcMark for any number of objects,   *)
(* mutators and roots.                                                     *)
(*                                                                         *)
(* The operations of header.rs are a load and a store, or a load and one   *)
(* compare_exchange; what another thread does in between decides what the  *)
(* second half writes.  The inductive invariant says what each half-done   *)
(* operation may still assume of the header it loaded, and that a cycle    *)
(* has shaded every root it is past.                                       *)
(***************************************************************************)
EXTENDS GcMark, TLAPS

\* What mutators may do beside a cycle, as MarkingIsSound and ColorProtocol
\* need it: pin() and unpin() store a whole word they loaded earlier, and a
\* root registered after the seeding is never shaded.
QuietPins == "pin" \notin Concurrent
QuietRoots == "register" \notin Concurrent

PinStep(m) == mStep[m] \in {"pinStore", "unpinStore"}
Holding == gcStep \in {"seedCas", "isGray", "shadeLoad", "shadeStore", "resetLoad", "resetStore"}

\* Whoever is about to touch a header holds an object; roots and objects to
\* sweep are laid out.
HandsFull ==
  /\ todo \subseteq allocated
  /\ Holding => gcObj \in Objects
  /\ \A m \in Mutators : mStep[m] # "run" => mObj[m] \in Objects

TypeInv == MarkTypeOK /\ HandsFull

\* Nothing but an allocation touches the header of an object not laid out yet.
OnlyAllocated ==
  /\ \A i \in 1..Len(queue) : queue[i] \in allocated
  /\ Holding => gcObj \in allocated
  /\ \A m \in Mutators : mStep[m] # "run" => mObj[m] \in allocated
  /\ \A o \in Objects \ allocated : hdr[o] = Fresh

\* A pin or unpin under way is the only thing that touches headers.
PinsAlone ==
  \A m \in Mutators :
    PinStep(m) =>
      /\ gcStep = "idle"
      /\ mOld[m] = hdr[mObj[m]]
      /\ \A n \in Mutators \ {m} : mStep[n] = "run"

\* What the collector and the barriers still know of a header they loaded.
LoadedWord ==
  /\ gcStep = "seedCas" => gcOld.color = "white" /\ gcOld.pinned = hdr[gcObj].pinned
  /\ gcStep \in {"isGray", "shadeLoad"} => hdr[gcObj].color = "gray"
  /\ gcStep = "shadeStore" => gcOld = hdr[gcObj] /\ gcOld.color = "gray"
  /\ gcStep \in {"resetLoad", "resetStore"} => gcObj \notin todo
  /\ \A m \in Mutators : mStep[m] = "shadeCas" => mOld[m].color = "white"

\* Only a cycle that still marks has objects queued.
QueueDrained == (gcStep = "idle" \/ Sweeping) => queue = <<>>

\* The roots a cycle is past are shaded, and stay so until the sweep is past them.
RootsShaded ==
  /\ gcStep \in {"seed", "seedCas"} =>
       \A o \in roots \ todo :
         hdr[o].color = "white" => gcStep = "seedCas" /\ gcObj = o
  /\ gcStep \in {"pop", "isGray", "shadeLoad", "shadeStore"} =>
       \A o \in roots : hdr[o].color # "white"
  /\ Sweeping => \A o \in roots \cap todo : hdr[o].color # "white"

\* The inductive invariant.
MarkInv ==
  /\ TypeInv
  /\ OnlyAllocated
  /\ PinsAlone
  /\ LoadedWord
  /\ QueueDrained
  /\ RootsShaded
  /\ MarkingIsSound

-----------------------------------------------------------------------------
(* Facts about headers and the queue *)

\* Recoloring a header or setting its pinned bit gives a header.
LEMMA Recolored ==
  ASSUME NEW h \in Header, NEW c \in {"white", "gray", "black"}, NEW b \in BOOLEAN
  PROVE  /\ [h EXCEPT !.color = c] \in Header
         /\ [h EXCEPT !.color = c].color = c
         /\ [h EXCEPT !.color = c].pinned = h.pinned
         /\ [h EXCEPT !.pinned = b] \in Header
         /\ [h EXCEPT !.pinned = b].color = h.color
  BY DEF Header

\* A header newly written is white and not pinned.
LEMMA FreshHeader == Fresh \in Header /\ Fresh.color = "white"
  BY DEF Fresh, Header

\* What Append and Tail do to the queue.
LEMMA QueueFacts ==
  ASSUME NEW s \in Seq(Objects)
  PROVE  /\ Len(s) \in Nat
         /\ \A i \in 1..Len(s) : s[i] \in Objects
         /\ \A o \in Objects :
              /\ Append(s, o) \in Seq(Objects)
              /\ Len(Append(s, o)) = Len(s) + 1
              /\ \A i \in 1..Len(s) : Append(s, o)[i] = s[i]
              /\ Append(s, o)[Len(s) + 1] = o
         /\ s # <<>> =>
              /\ 1 \in 1..Len(s)
              /\ Head(s) = s[1]
              /\ Tail(s) \in Seq(Objects)
              /\ Len(Tail(s)) = Len(s) - 1
              /\ \A i \in 1..Len(Tail(s)) : Tail(s)[i] = s[i + 1]
  OBVIOUS

-----------------------------------------------------------------------------
(* Types *)

\* A step of the collector keeps the types.
LEMMA CollectTypes ==
  ASSUME TypeInv, StartCycle \/ Collect
  PROVE  TypeInv'
<1> USE DEF TypeInv, MarkTypeOK, HandsFull, Holding, GcGoto, GcReturn, gcVars, mutVars
<1>1. CASE StartCycle
  BY <1>1 DEF StartCycle
<1>2. CASE SeedLoad
  BY <1>2 DEF SeedLoad
<1>3. CASE SeedCas
  <2>1. gcObj \in Objects /\ Append(queue, gcObj) \in Seq(Objects)
    BY <1>3, QueueFacts DEF SeedCas
  <2>2. [hdr[gcObj] EXCEPT !.color = "gray"] \in Header
    BY <2>1, Recolored
  <2>3. hdr' \in [Objects -> Header] /\ queue' \in Seq(Objects)
    BY <1>3, <2>1, <2>2 DEF SeedCas
  <2> QED BY <1>3, <2>3, FreshHeader DEF SeedCas
<1>4. CASE SeedDone
  BY <1>4 DEF SeedDone
<1>5. CASE Pop
  BY <1>5, QueueFacts DEF Pop
<1>6. CASE IsGray
  BY <1>6, FreshHeader DEF IsGray
<1>7. CASE ShadeLoad
  BY <1>7 DEF ShadeLoad
<1>8. CASE ShadeStore
  BY <1>8, Recolored, FreshHeader DEF ShadeStore
<1>9. CASE StartSweep
  BY <1>9 DEF StartSweep
<1>10. CASE Sweep
  BY <1>10 DEF Sweep
<1>11. CASE ResetLoad
  BY <1>11 DEF ResetLoad
<1>12. CASE ResetStore
  BY <1>12, Recolored, FreshHeader DEF ResetStore
<1>13. CASE SweepDone
  BY <1>13 DEF SweepDone
<1> QED BY <1>1, <1>2, <1>3, <1>4, <1>5, <1>6, <1>7, <1>8, <1>9, <1>10, <1>11, <1>12, <1>13
        DEF Collect

\* A step of a mutator keeps the types.
LEMMA MutateTypes ==
  ASSUME TypeInv, NEW m \in Mutators, Mutate(m)
  PROVE  TypeInv'
<1> USE DEF TypeInv, MarkTypeOK, HandsFull, Holding, MGoto, MReturn, gcVars, mutVars
<1>1. CASE AllocateObject(m)
  BY <1>1, FreshHeader DEF AllocateObject
<1>2. CASE Register(m)
  BY <1>2 DEF Register, Usable
<1>3. CASE Unregister(m)
  BY <1>3 DEF Unregister
<1>4. CASE PinLoad(m)
  BY <1>4 DEF PinLoad, Usable
<1>5. CASE PinStore(m)
  <2>1. /\ mObj[m] \in Objects
        /\ [mOld[m] EXCEPT !.pinned = (mStep[m] = "pinStore")] \in Header
    BY <1>5, Recolored DEF PinStore
  <2> QED BY <1>5, <2>1, FreshHeader DEF PinStore
<1>6. CASE BarrierSource(m)
  BY <1>6 DEF BarrierSource, Usable
<1>7. CASE BarrierTarget(m)
  BY <1>7, FreshHeader DEF BarrierTarget
<1>8. CASE BarrierShade(m)
  BY <1>8, FreshHeader DEF BarrierShade
<1>9. CASE BarrierCas(m)
  <2>1. mObj[m] \in Objects /\ [hdr[mObj[m]] EXCEPT !.color = "gray"] \in Header
    BY <1>9, Recolored DEF BarrierCas
  <2>2. hdr' \in [Objects -> Header]
    BY <1>9, <2>1 DEF BarrierCas
  <2>3. mStep' \in [Mutators -> {"run", "pinStore", "unpinStore", "target", "shade", "shadeCas"}]
    BY <1>9 DEF BarrierCas
  <2> QED BY <1>9, <2>1, <2>2, <2>3, FreshHeader DEF BarrierCas
<1> QED BY <1>1, <1>2, <1>3, <1>4, <1>5, <1>6, <1>7, <1>8, <1>9 DEF Mutate

\* Headers, and what is loaded of them, keep their types whatever is stored
\* over what: every object the collector or a mutator holds exists, and only
\* objects laid out in the regions are swept or registered.
THEOREM MarkTypeCorrect == MarkSpec => []MarkTypeOK
<1>1. MarkInit => TypeInv
  BY FreshHeader DEF MarkInit, TypeInv, MarkTypeOK, HandsFull, Holding
<1>2. TypeInv /\ [MarkNext]_markVars => TypeInv'
  <2> SUFFICES ASSUME TypeInv, [MarkNext]_markVars PROVE TypeInv'
    OBVIOUS
  <2>1. CASE UNCHANGED markVars
    BY <2>1 DEF markVars, TypeInv, MarkTypeOK, HandsFull, Holding
  <2> QED BY <2>1, CollectTypes, MutateTypes DEF MarkNext
<1>3. TypeInv => MarkTypeOK
  BY DEF TypeInv
<1> QED BY <1>1, <1>2, <1>3, PTL DEF MarkSpec

-----------------------------------------------------------------------------
(* The inductive invariant *)

\* A step of the collector: a header it loaded is still what it takes it for,
\* and what it is past is shaded.
LEMMA CollectKeeps ==
  ASSUME MarkInv, TypeInv', QuietPins, QuietRoots, StartCycle \/ Collect
  PROVE  MarkInv'
<1> USE DEF MarkInv, TypeInv, MarkTypeOK, HandsFull, Holding, GcGoto, GcReturn, gcVars, mutVars, QuietPins, PinStep, Sweeping, InHand
<1>1. CASE StartCycle
  <2> USE <1>1 DEF StartCycle
  <2>1. OnlyAllocated'
    BY DEF OnlyAllocated
  <2>2. PinsAlone' /\ LoadedWord'
    BY DEF OnlyAllocated, PinsAlone, LoadedWord
  <2>3. QueueDrained' /\ RootsShaded' /\ RootsSurvive'
    BY DEF QueueDrained, RootsShaded, RootsSurvive, MarkingIsSound, LoadedWord
  <2>4. GrayIsQueued'
    BY DEF GrayIsQueued, MarkingIsSound, LoadedWord, QueueDrained
  <2> QED BY <2>1, <2>2, <2>3, <2>4 DEF MarkingIsSound
<1>2. CASE SeedLoad
  <2> USE <1>2 DEF SeedLoad
  <2>1. OnlyAllocated'
    BY DEF OnlyAllocated
  <2>2. PinsAlone' /\ LoadedWord'
    BY DEF OnlyAllocated, PinsAlone, LoadedWord
  <2>3. QueueDrained' /\ RootsShaded' /\ RootsSurvive'
    BY DEF QueueDrained, RootsShaded, RootsSurvive, MarkingIsSound, LoadedWord
  <2>4. GrayIsQueued'
    BY DEF GrayIsQueued, MarkingIsSound, LoadedWord, QueueDrained
  <2> QED BY <2>1, <2>2, <2>3, <2>4 DEF MarkingIsSound
<1>3. CASE SeedCas
  <2> USE <1>3 DEF SeedCas
  <2>1. /\ gcObj \in Objects /\ gcObj \in allocated
        /\ gcOld.color = "white" /\ gcOld.pinned = hdr[gcObj].pinned
        /\ hdr[gcObj] \in Header /\ gcOld \in Header
    BY DEF OnlyAllocated, LoadedWord
  <2>2. CASE hdr[gcObj] = gcOld
    <3>0. hdr' = [hdr EXCEPT ![gcObj] = [hdr[gcObj] EXCEPT !.color = "gray"]]
      BY <2>2
    <3>1. /\ hdr' \in [Objects -> Header] /\ hdr'[gcObj].color = "gray"
          /\ hdr'[gcObj].pinned = hdr[gcObj].pinned
          /\ \A o \in Objects \ {gcObj} : hdr'[o] = hdr[o]
      <4>1. hdr'[gcObj] = [hdr[gcObj] EXCEPT !.color = "gray"]
        BY <2>1, <3>0
      <4> QED BY <2>1, <3>0, <4>1, Recolored
    <3>2. /\ Len(queue') = Len(queue) + 1 /\ Len(queue) \in Nat
          /\ \A i \in 1..Len(queue) : queue'[i] = queue[i] /\ queue[i] \in Objects
          /\ queue'[Len(queue) + 1] = gcObj
      BY <2>1, <2>2, QueueFacts
    <3>3. \A i \in 1..Len(queue) : queue[i] # gcObj
      BY <2>1, <2>2 DEF MarkingIsSound, GrayIsQueued
    <3> HIDE DEF MarkTypeOK
    <3>4. OnlyAllocated' /\ PinsAlone' /\ LoadedWord'
      BY <2>1, <3>1, <3>2 DEF OnlyAllocated, PinsAlone, LoadedWord
    <3>5. QueueDrained' /\ RootsShaded' /\ RootsSurvive'
      BY <2>1, <3>1 DEF QueueDrained, RootsShaded, RootsSurvive, MarkingIsSound, MarkTypeOK
    <3>6. GrayIsQueued'
      <4>1. /\ \A i \in 1..Len(queue') : hdr'[queue'[i]].color = "gray"
            /\ \A o \in Objects : ~InHand(o)'
        BY <2>2, <3>1, <3>2, <3>3 DEF MarkingIsSound, GrayIsQueued, InHand
      <4>2. \A i, j \in 1..Len(queue') : queue'[i] = queue'[j] => i = j
        BY <3>2, <3>3 DEF MarkingIsSound, GrayIsQueued
      <4>3. ASSUME NEW o \in Objects, hdr'[o].color = "gray"
            PROVE  (\E i \in 1..Len(queue') : queue'[i] = o) \/ o \in barrierQueue'
        BY <3>1, <3>2, <4>3 DEF MarkingIsSound, GrayIsQueued
      <4> QED BY <4>1, <4>2, <4>3 DEF GrayIsQueued
    <3> QED BY <3>4, <3>5, <3>6 DEF MarkingIsSound
  <2>3. CASE hdr[gcObj] # gcOld
    <3>1. hdr[gcObj].color # "white"
      BY <2>1, <2>3 DEF Header
    <3>2. OnlyAllocated' /\ PinsAlone' /\ LoadedWord'
      BY <2>3 DEF OnlyAllocated, PinsAlone, LoadedWord
    <3>3. QueueDrained' /\ RootsShaded' /\ RootsSurvive'
      BY <2>3, <3>1 DEF QueueDrained, RootsShaded, RootsSurvive, MarkingIsSound
    <3>4. GrayIsQueued'
      BY <2>3 DEF GrayIsQueued, MarkingIsSound
    <3> QED BY <3>2, <3>3, <3>4 DEF MarkingIsSound
  <2> QED BY <2>2, <2>3
<1>4. CASE SeedDone
  <2> USE <1>4 DEF SeedDone
  <2>1. OnlyAllocated'
    BY DEF OnlyAllocated
  <2>2. PinsAlone' /\ LoadedWord'
    BY DEF OnlyAllocated, PinsAlone, LoadedWord
  <2>3. QueueDrained' /\ RootsShaded' /\ RootsSurvive'
    BY DEF QueueDrained, RootsShaded, RootsSurvive, MarkingIsSound, LoadedWord
  <2>4. GrayIsQueued'
    BY DEF GrayIsQueued, MarkingIsSound, LoadedWord, QueueDrained
  <2> QED BY <2>1, <2>2, <2>3, <2>4 DEF MarkingIsSound
<1>5. CASE Pop
  <2> USE <1>5 DEF Pop
  <2>1. /\ 1 \in 1..Len(queue) /\ gcObj' = queue[1]
        /\ Len(queue) \in Nat /\ Len(queue') = Len(queue) - 1
        /\ \A i \in 1..Len(queue') : queue'[i] = queue[i + 1] /\ i + 1 \in 1..Len(queue)
    BY QueueFacts
  <2>2. hdr[queue[1]].color = "gray" /\ queue[1] \in allocated
    BY <2>1 DEF OnlyAllocated, MarkingIsSound, GrayIsQueued
  <2>3. OnlyAllocated' /\ PinsAlone' /\ LoadedWord'
    BY <2>1, <2>2 DEF OnlyAllocated, PinsAlone, LoadedWord
  <2>4. QueueDrained' /\ RootsShaded' /\ RootsSurvive'
    BY DEF QueueDrained, RootsShaded, RootsSurvive, MarkingIsSound
  <2>5. GrayIsQueued'
    <3>1. \A i \in 1..Len(queue') : hdr'[queue'[i]].color = "gray" /\ queue'[i] # gcObj'
      BY <2>1 DEF MarkingIsSound, GrayIsQueued
    <3>2. \A i, j \in 1..Len(queue') : queue'[i] = queue'[j] => i = j
      BY <2>1 DEF MarkingIsSound, GrayIsQueued
    <3>3. ASSUME NEW o \in Objects, hdr'[o].color = "gray"
          PROVE  (\E i \in 1..Len(queue') : queue'[i] = o) \/ InHand(o)' \/ o \in barrierQueue'
      <4>1. CASE \E i \in 1..Len(queue) : queue[i] = o
        <5>1. PICK i \in 1..Len(queue) : queue[i] = o
          BY <4>1
        <5>2. CASE i = 1
          BY <2>1, <5>1, <5>2
        <5>3. CASE i # 1
          <6>1. i - 1 \in 1..Len(queue') /\ (i - 1) + 1 = i
            BY <2>1, <5>1, <5>3
          <6> QED BY <2>1, <5>1, <6>1
        <5> QED BY <5>2, <5>3
      <4> QED BY <3>3, <4>1 DEF MarkingIsSound, GrayIsQueued
    <3> QED BY <3>1, <3>2, <3>3 DEF GrayIsQueued
  <2> QED BY <2>3, <2>4, <2>5 DEF MarkingIsSound
<1>6. CASE IsGray
  <2> USE <1>6 DEF IsGray
  <2>1. OnlyAllocated'
    BY DEF OnlyAllocated
  <2>2. PinsAlone' /\ LoadedWord'
    BY DEF OnlyAllocated, PinsAlone, LoadedWord
  <2>3. QueueDrained' /\ RootsShaded' /\ RootsSurvive'
    BY DEF QueueDrained, RootsShaded, RootsSurvive, MarkingIsSound, LoadedWord
  <2>4. GrayIsQueued'
    BY DEF GrayIsQueued, MarkingIsSound, LoadedWord, QueueDrained
  <2> QED BY <2>1, <2>2, <2>3, <2>4 DEF MarkingIsSound
<1>7. CASE ShadeLoad
  <2> USE <1>7 DEF ShadeLoad
  <2>1. OnlyAllocated'
    BY DEF OnlyAllocated
  <2>2. PinsAlone' /\ LoadedWord'
    BY DEF OnlyAllocated, PinsAlone, LoadedWord
  <2>3. QueueDrained' /\ RootsShaded' /\ RootsSurvive'
    BY DEF QueueDrained, RootsShaded, RootsSurvive, MarkingIsSound, LoadedWord
  <2>4. GrayIsQueued'
    BY DEF GrayIsQueued, MarkingIsSound, LoadedWord, QueueDrained
  <2> QED BY <2>1, <2>2, <2>3, <2>4 DEF MarkingIsSound
<1>8. CASE ShadeStore
  <2> USE <1>8 DEF ShadeStore
  <2>1. OnlyAllocated'
    BY DEF OnlyAllocated
  <2>2. PinsAlone' /\ LoadedWord'
    BY DEF OnlyAllocated, PinsAlone, LoadedWord
  <2>3. QueueDrained' /\ RootsShaded' /\ RootsSurvive'
    BY DEF QueueDrained, RootsShaded, RootsSurvive, MarkingIsSound, LoadedWord
  <2>4. GrayIsQueued'
    BY DEF GrayIsQueued, MarkingIsSound, LoadedWord, QueueDrained
  <2> QED BY <2>1, <2>2, <2>3, <2>4 DEF MarkingIsSound
<1>9. CASE StartSweep
  <2> USE <1>9 DEF StartSweep
  <2>1. OnlyAllocated'
    BY DEF OnlyAllocated
  <2>2. PinsAlone' /\ LoadedWord'
    BY DEF OnlyAllocated, PinsAlone, LoadedWord
  <2>3. QueueDrained' /\ RootsShaded' /\ RootsSurvive'
    BY DEF QueueDrained, RootsShaded, RootsSurvive, MarkingIsSound, LoadedWord
  <2>4. GrayIsQueued'
    BY DEF GrayIsQueued, MarkingIsSound, LoadedWord, QueueDrained
  <2> QED BY <2>1, <2>2, <2>3, <2>4 DEF MarkingIsSound
<1>10. CASE Sweep
  <2> USE <1>10 DEF Sweep
  <2>1. OnlyAllocated'
    BY DEF OnlyAllocated
  <2>2. PinsAlone' /\ LoadedWord'
    BY DEF OnlyAllocated, PinsAlone, LoadedWord
  <2>3. QueueDrained' /\ RootsShaded' /\ RootsSurvive'
    BY DEF QueueDrained, RootsShaded, RootsSurvive, MarkingIsSound, LoadedWord
  <2>4. GrayIsQueued'
    BY DEF GrayIsQueued, MarkingIsSound, LoadedWord, QueueDrained
  <2> QED BY <2>1, <2>2, <2>3, <2>4 DEF MarkingIsSound
<1>11. CASE ResetLoad
  <2> USE <1>11 DEF ResetLoad
  <2>1. OnlyAllocated'
    BY DEF OnlyAllocated
  <2>2. PinsAlone' /\ LoadedWord'
    BY DEF OnlyAllocated, PinsAlone, LoadedWord
  <2>3. QueueDrained' /\ RootsShaded' /\ RootsSurvive'
    BY DEF QueueDrained, RootsShaded, RootsSurvive, MarkingIsSound, LoadedWord
  <2>4. GrayIsQueued'
    BY DEF GrayIsQueued, MarkingIsSound, LoadedWord, QueueDrained
  <2> QED BY <2>1, <2>2, <2>3, <2>4 DEF MarkingIsSound
<1>12. CASE ResetStore
  <2> USE <1>12 DEF ResetStore
  <2>1. OnlyAllocated'
    BY DEF OnlyAllocated
  <2>2. PinsAlone' /\ LoadedWord'
    BY DEF OnlyAllocated, PinsAlone, LoadedWord
  <2>3. QueueDrained' /\ RootsShaded' /\ RootsSurvive'
    BY DEF QueueDrained, RootsShaded, RootsSurvive, MarkingIsSound, LoadedWord
  <2>4. GrayIsQueued'
    BY DEF GrayIsQueued, MarkingIsSound, LoadedWord, QueueDrained
  <2> QED BY <2>1, <2>2, <2>3, <2>4 DEF MarkingIsSound
<1>13. CASE SweepDone
  <2> USE <1>13 DEF SweepDone
  <2>1. OnlyAllocated'
    BY DEF OnlyAllocated
  <2>2. PinsAlone' /\ LoadedWord'
    BY DEF OnlyAllocated, PinsAlone, LoadedWord
  <2>3. QueueDrained' /\ RootsShaded' /\ RootsSurvive'
    BY DEF QueueDrained, RootsShaded, RootsSurvive, MarkingIsSound, LoadedWord
  <2>4. GrayIsQueued'
    BY DEF GrayIsQueued, MarkingIsSound, LoadedWord, QueueDrained
  <2> QED BY <2>1, <2>2, <2>3, <2>4 DEF MarkingIsSound
<1> QED BY <1>1, <1>2, <1>3, <1>4, <1>5, <1>6, <1>7, <1>8, <1>9, <1>10, <1>11, <1>12, <1>13 DEF Collect, Mutate

\* A step of a mutator: an allocation touches no header in use, a pin runs
\* alone, and a barrier shades white objects only.
LEMMA MutateKeeps ==
  ASSUME MarkInv, TypeInv', QuietPins, QuietRoots, NEW m \in Mutators, Mutate(m)
  PROVE  MarkInv'
<1> USE DEF MarkInv, TypeInv, MarkTypeOK, HandsFull, Holding, MGoto, MReturn, gcVars, mutVars, QuietPins, QuietRoots, PinStep, Sweeping, InHand, May, Usable
<1>1. CASE AllocateObject(m)
  <2> USE <1>1 DEF AllocateObject
  <2>1. PICK n \in Objects \ allocated : /\ allocated' = allocated \cup {n}
                                        /\ hdr' = [hdr EXCEPT ![n] = Fresh]
    OBVIOUS
  <2>2. hdr' = hdr
    BY <2>1 DEF OnlyAllocated
  <2>3. OnlyAllocated'
    BY <2>1, <2>2 DEF OnlyAllocated
  <2>4. PinsAlone' /\ LoadedWord'
    BY <2>2 DEF PinsAlone, LoadedWord
  <2>5. QueueDrained' /\ RootsShaded' /\ RootsSurvive'
    BY <2>2 DEF QueueDrained, RootsShaded, RootsSurvive, MarkingIsSound
  <2>6. GrayIsQueued'
    BY <2>2 DEF GrayIsQueued, MarkingIsSound
  <2> QED BY <2>3, <2>4, <2>5, <2>6 DEF MarkingIsSound
<1>2. CASE Register(m)
  <2> USE <1>2 DEF Register
  <2>1. OnlyAllocated'
    BY DEF OnlyAllocated
  <2>2. PinsAlone' /\ LoadedWord'
    BY DEF OnlyAllocated, PinsAlone, LoadedWord
  <2>3. QueueDrained' /\ RootsShaded' /\ RootsSurvive'
    BY DEF QueueDrained, RootsShaded, RootsSurvive, MarkingIsSound, LoadedWord
  <2>4. GrayIsQueued'
    BY DEF GrayIsQueued, MarkingIsSound, LoadedWord, QueueDrained
  <2> QED BY <2>1, <2>2, <2>3, <2>4 DEF MarkingIsSound
<1>3. CASE Unregister(m)
  <2> USE <1>3 DEF Unregister
  <2>1. OnlyAllocated'
    BY DEF OnlyAllocated
  <2>2. PinsAlone' /\ LoadedWord'
    BY DEF OnlyAllocated, PinsAlone, LoadedWord
  <2>3. QueueDrained' /\ RootsShaded' /\ RootsSurvive'
    BY DEF QueueDrained, RootsShaded, RootsSurvive, MarkingIsSound, LoadedWord
  <2>4. GrayIsQueued'
    BY DEF GrayIsQueued, MarkingIsSound, LoadedWord, QueueDrained
  <2> QED BY <2>1, <2>2, <2>3, <2>4 DEF MarkingIsSound
<1>4. CASE PinLoad(m)
  <2> USE <1>4 DEF PinLoad
  <2>1. OnlyAllocated'
    BY DEF OnlyAllocated
  <2>2. PinsAlone' /\ LoadedWord'
    BY DEF OnlyAllocated, PinsAlone, LoadedWord
  <2>3. QueueDrained' /\ RootsShaded' /\ RootsSurvive'
    BY DEF QueueDrained, RootsShaded, RootsSurvive, MarkingIsSound, LoadedWord
  <2>4. GrayIsQueued'
    BY DEF GrayIsQueued, MarkingIsSound, LoadedWord, QueueDrained
  <2> QED BY <2>1, <2>2, <2>3, <2>4 DEF MarkingIsSound
<1>5. CASE PinStore(m)
  <2> USE <1>5 DEF PinStore
  <2>1. /\ gcStep = "idle" /\ mOld[m] = hdr[mObj[m]] /\ mObj[m] \in allocated
        /\ mObj[m] \in Objects /\ \A n \in Mutators \ {m} : mStep[n] = "run"
    BY DEF PinsAlone, OnlyAllocated
  <2>2. /\ \A o \in Objects : hdr'[o].color = hdr[o].color
        /\ \A o \in Objects \ allocated : hdr'[o] = hdr[o]
    BY <2>1, Recolored
  <2>3. OnlyAllocated'
    BY <2>1, <2>2 DEF OnlyAllocated
  <2>4. PinsAlone' /\ LoadedWord'
    BY <2>1 DEF PinsAlone, LoadedWord
  <2>5. QueueDrained' /\ RootsShaded' /\ RootsSurvive'
    BY <2>1 DEF QueueDrained, RootsShaded, RootsSurvive, MarkingIsSound
  <2>6. GrayIsQueued'
    <3>1. \A i \in 1..Len(queue) : queue[i] \in Objects
      BY QueueFacts
    <3> QED BY <2>1, <2>2, <3>1 DEF GrayIsQueued, MarkingIsSound
  <2> QED BY <2>3, <2>4, <2>5, <2>6 DEF MarkingIsSound
<1>6. CASE BarrierSource(m)
  <2> USE <1>6 DEF BarrierSource
  <2>1. OnlyAllocated'
    BY DEF OnlyAllocated
  <2>2. PinsAlone' /\ LoadedWord'
    BY DEF OnlyAllocated, PinsAlone, LoadedWord
  <2>3. QueueDrained' /\ RootsShaded' /\ RootsSurvive'
    BY DEF QueueDrained, RootsShaded, RootsSurvive, MarkingIsSound, LoadedWord
  <2>4. GrayIsQueued'
    BY DEF GrayIsQueued, MarkingIsSound, LoadedWord, QueueDrained
  <2> QED BY <2>1, <2>2, <2>3, <2>4 DEF MarkingIsSound
<1>7. CASE BarrierTarget(m)
  <2> USE <1>7 DEF BarrierTarget
  <2>1. OnlyAllocated'
    BY DEF OnlyAllocated
  <2>2. PinsAlone' /\ LoadedWord'
    BY DEF PinsAlone, LoadedWord
  <2>3. QueueDrained' /\ RootsShaded' /\ RootsSurvive'
    BY DEF QueueDrained, RootsShaded, RootsSurvive, MarkingIsSound
  <2>4. GrayIsQueued'
    BY DEF GrayIsQueued, MarkingIsSound
  <2> QED BY <2>1, <2>2, <2>3, <2>4 DEF MarkingIsSound
<1>8. CASE BarrierShade(m)
  <2> USE <1>8 DEF BarrierShade
  <2>1. OnlyAllocated'
    BY DEF OnlyAllocated
  <2>2. PinsAlone' /\ LoadedWord'
    BY DEF PinsAlone, LoadedWord
  <2>3. QueueDrained' /\ RootsShaded' /\ RootsSurvive'
    BY DEF QueueDrained, RootsShaded, RootsSurvive, MarkingIsSound
  <2>4. GrayIsQueued'
    BY DEF GrayIsQueued, MarkingIsSound
  <2> QED BY <2>1, <2>2, <2>3, <2>4 DEF MarkingIsSound
<1>9. CASE BarrierCas(m)
  <2> USE <1>9 DEF BarrierCas
  <2>1. /\ mObj[m] \in Objects /\ mObj[m] \in allocated /\ mOld[m].color = "white"
        /\ \A n \in Mutators : ~PinStep(n)
    BY DEF OnlyAllocated, LoadedWord, PinsAlone
  <2>2. CASE hdr[mObj[m]] = mOld[m]
    <3> DEFINE b == mObj[m]
    <3>0. /\ hdr' = [hdr EXCEPT ![b] = [hdr[b] EXCEPT !.color = "gray"]]
          /\ hdr'[b] = [hdr[b] EXCEPT !.color = "gray"]
      BY <2>1, <2>2
    <3>1. /\ b \in Objects /\ b \in allocated /\ hdr[b].color = "white"
          /\ hdr'[b].color = "gray" /\ hdr'[b].pinned = hdr[b].pinned
          /\ \A o \in Objects \ {b} : hdr'[o] = hdr[o]
          /\ barrierQueue' = barrierQueue \cup {b}
          /\ \A n \in Mutators : mStep'[n] # "run" => mStep'[n] = mStep[n] /\ n # m
      BY <2>1, <2>2, <3>0, Recolored
    <3>2. \A i \in 1..Len(queue) : queue[i] \in Objects /\ queue[i] # b
      BY <3>1, QueueFacts DEF MarkingIsSound, GrayIsQueued
    <3> HIDE DEF b
    <3>3. OnlyAllocated'
      BY <3>1 DEF OnlyAllocated
    <3>4. PinsAlone' /\ LoadedWord'
      BY <2>1, <3>1 DEF PinsAlone, LoadedWord
    <3>5. QueueDrained' /\ RootsShaded' /\ RootsSurvive'
      BY <3>1 DEF QueueDrained, RootsShaded, RootsSurvive, MarkingIsSound
    <3>6. GrayIsQueued'
      BY <3>1, <3>2 DEF GrayIsQueued, MarkingIsSound
    <3> QED BY <3>3, <3>4, <3>5, <3>6 DEF MarkingIsSound
  <2>3. CASE hdr[mObj[m]] # mOld[m]
    <3>1. OnlyAllocated'
      BY <2>3 DEF OnlyAllocated
    <3>2. PinsAlone' /\ LoadedWord'
      BY <2>1, <2>3 DEF PinsAlone, LoadedWord
    <3>3. QueueDrained' /\ RootsShaded' /\ RootsSurvive'
      BY <2>3 DEF QueueDrained, RootsShaded, RootsSurvive, MarkingIsSound
    <3>4. GrayIsQueued'
      BY <2>3 DEF GrayIsQueued, MarkingIsSound
    <3> QED BY <3>1, <3>2, <3>3, <3>4 DEF MarkingIsSound
  <2> QED BY <2>2, <2>3
<1> QED BY <1>1, <1>2, <1>3, <1>4, <1>5, <1>6, <1>7, <1>8, <1>9 DEF Collect, Mutate

\* The invariant holds from the start and every step keeps it.
LEMMA MarkInvariant ==
  ASSUME QuietPins, QuietRoots
  PROVE  (MarkInit => MarkInv) /\ (MarkInv /\ [MarkNext]_markVars => MarkInv')
<1>1. MarkInit => MarkInv
  <2> SUFFICES ASSUME MarkInit PROVE MarkInv
    OBVIOUS
  <2>1. TypeInv
    BY FreshHeader DEF MarkInit, TypeInv, MarkTypeOK, HandsFull, Holding
  <2>2. OnlyAllocated /\ PinsAlone /\ LoadedWord /\ QueueDrained /\ RootsShaded
    BY DEF MarkInit, OnlyAllocated, PinsAlone, PinStep, LoadedWord, QueueDrained, RootsShaded,
           Holding, Sweeping
  <2>3. MarkingIsSound
    BY FreshHeader DEF MarkInit, MarkingIsSound, RootsSurvive, GrayIsQueued
  <2> QED BY <2>1, <2>2, <2>3 DEF MarkInv
<1>2. ASSUME MarkInv, [MarkNext]_markVars PROVE MarkInv'
  <2>1. CASE UNCHANGED markVars
    BY <1>2, <2>1 DEF markVars, MarkInv, TypeInv, MarkTypeOK, HandsFull, Holding, OnlyAllocated,
       PinsAlone, PinStep, LoadedWord, QueueDrained, Sweeping, RootsShaded, MarkingIsSound,
       RootsSurvive, GrayIsQueued, InHand
  <2>2. CASE StartCycle \/ Collect
    BY <1>2, <2>2, CollectTypes, CollectKeeps DEF MarkInv
  <2>3. ASSUME NEW m \in Mutators, Mutate(m) PROVE MarkInv'
    BY <1>2, <2>3, MutateTypes, MutateKeeps DEF MarkInv
  <2> QED BY <1>2, <2>1, <2>2, <2>3 DEF MarkNext
<1> QED BY <1>1, <1>2

\* No registered root is swept, and what is gray waits to be marked exactly
\* once: marker.rs's seeding, marking and sweep beside allocations and write
\* barriers of any number of mutators.
THEOREM MarkIsSound ==
  ASSUME QuietPins, QuietRoots
  PROVE  MarkSpec => []MarkingIsSound
<1>1. MarkInv => MarkingIsSound
  BY DEF MarkInv
<1> QED BY <1>1, MarkInvariant, PTL DEF MarkSpec

\* A header goes from white to gray, from gray to black, and back to white in
\* the sweep only: no store or compare_exchange of header.rs skips a color.
THEOREM ColorsFollowProtocol ==
  ASSUME QuietPins, QuietRoots
  PROVE  MarkSpec => ColorProtocol
<1> DEFINE Allowed(o) ==
      hdr'[o].color # hdr[o].color =>
        \/ hdr[o].color = "white" /\ hdr'[o].color = "gray"
        \/ hdr[o].color = "gray" /\ hdr'[o].color = "black"
        \/ Sweeping /\ hdr'[o].color = "white"
<1>1. ASSUME MarkInv, [MarkNext]_markVars, NEW o \in Objects PROVE Allowed(o)
  <2> USE <1>1 DEF MarkInv, TypeInv, MarkTypeOK, HandsFull, Holding
  <2>1. CASE UNCHANGED hdr
    BY <2>1
  <2>2. CASE SeedCas
    <3>1. CASE hdr[gcObj] = gcOld
      <4>1. /\ gcObj \in Objects /\ hdr[gcObj].color = "white"
            /\ hdr' = [hdr EXCEPT ![gcObj] = [hdr[gcObj] EXCEPT !.color = "gray"]]
        BY <2>2, <3>1 DEF SeedCas, LoadedWord
      <4>2. hdr'[gcObj] = [hdr[gcObj] EXCEPT !.color = "gray"]
        BY <4>1
      <4> QED BY <4>1, <4>2, Recolored
    <3>2. CASE hdr[gcObj] # gcOld
      BY <2>2, <3>2 DEF SeedCas
    <3> QED BY <3>1, <3>2
  <2>3. CASE ShadeStore
    BY <2>3, Recolored DEF ShadeStore, LoadedWord
  <2>4. CASE ResetStore
    BY <2>4, Recolored DEF ResetStore, Sweeping
  <2>5. ASSUME NEW m \in Mutators, AllocateObject(m) PROVE Allowed(o)
    BY <2>5 DEF AllocateObject, OnlyAllocated
  <2>6. ASSUME NEW m \in Mutators, PinStore(m) PROVE Allowed(o)
    BY <2>6, Recolored DEF PinStore, PinsAlone, PinStep
  <2>7. ASSUME NEW m \in Mutators, BarrierCas(m) PROVE Allowed(o)
    <3> DEFINE b == mObj[m]
    <3>1. CASE hdr[b] = mOld[m]
      <4>1. /\ b \in Objects /\ hdr[b].color = "white"
            /\ hdr' = [hdr EXCEPT ![b] = [hdr[b] EXCEPT !.color = "gray"]]
        BY <2>7, <3>1 DEF BarrierCas, LoadedWord
      <4>2. hdr'[b] = [hdr[b] EXCEPT !.color = "gray"]
        BY <4>1
      <4> QED BY <4>1, <4>2, Recolored
    <3>2. CASE hdr[b] # mOld[m]
      BY <2>7, <3>2 DEF BarrierCas
    <3> QED BY <3>1, <3>2
  <2>8. CASE StartCycle \/ Collect
    BY <2>1, <2>2, <2>3, <2>4, <2>8 DEF Collect, StartCycle, SeedLoad, SeedDone, Pop, IsGray,
       ShadeLoad, StartSweep, Sweep, ResetLoad, SweepDone
  <2>9. ASSUME NEW m \in Mutators, Mutate(m) PROVE Allowed(o)
    BY <2>1, <2>5, <2>6, <2>7, <2>9 DEF Mutate, Register, Unregister, PinLoad, BarrierSource,
       BarrierTarget, BarrierShade
  <2> QED BY <2>1, <2>8, <2>9 DEF MarkNext, markVars
<1>2. MarkInv /\ [MarkNext]_markVars => [\A o \in Objects : Allowed(o)]_markVars
  BY <1>1
<1> QED BY <1>2, MarkInvariant, PTL DEF MarkSpec, ColorProtocol
=============================================================================
