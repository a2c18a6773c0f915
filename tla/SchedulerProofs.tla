---------------------------- MODULE SchedulerProofs ----------------------------
(***************************************************************************)
(* Type correctness and QueuesAgree of Scheduler, for any clients, green   *)
(* threads, descriptors and bounds.  QueuesAgree is inductive with the     *)
(* types: whoever makes a thread runnable, or takes its id or its entry    *)
(* out of a queue, has it in hand until it is in the next one.             *)
(***************************************************************************)
EXTENDS Scheduler, FiniteSetTheorems, TLAPS

\* The inductive invariant.
SchedInv == TypeOK /\ RunnableIsQueued /\ SleeperHasEntry

-----------------------------------------------------------------------------
(* Facts about the global queue *)

\* An id that is appended is queued, and so is all that was.
LEMMA AppendFacts ==
  ASSUME TypeOK, NEW x \in Ids, globalQueue' = Append(globalQueue, x)
  PROVE  /\ globalQueue' \in Seq(Ids)
         /\ \A t \in Ids : Queued(t) \/ t = x => Queued(t)'
<1>1. globalQueue \in Seq(Ids)
  BY DEF TypeOK
<1>2. /\ Len(globalQueue') = Len(globalQueue) + 1
      /\ globalQueue'[Len(globalQueue) + 1] = x
      /\ \A i \in 1..Len(globalQueue) : globalQueue'[i] = globalQueue[i]
  BY <1>1
<1>3. Len(globalQueue) \in Nat
  BY <1>1
<1>4. globalQueue' \in Seq(Ids)
  BY <1>1
<1>5. Queued(x)'
  BY <1>2, <1>3 DEF Queued
<1>6. \A t \in Ids : Queued(t) => Queued(t)'
  BY <1>2, <1>3 DEF Queued
<1> QED BY <1>4, <1>5, <1>6

\* The pop of the first id leaves the others queued.
LEMMA PopFacts ==
  ASSUME TypeOK, globalQueue # <<>>, globalQueue' = Tail(globalQueue)
  PROVE  /\ globalQueue' \in Seq(Ids)
         /\ Head(globalQueue) \in Ids
         /\ \A t \in Ids : Queued(t) => t = Head(globalQueue) \/ Queued(t)'
<1>1. globalQueue \in Seq(Ids)
  BY DEF TypeOK
<1>2. /\ Len(globalQueue') = Len(globalQueue) - 1
      /\ \A i \in 1..Len(globalQueue') : globalQueue'[i] = globalQueue[i + 1]
      /\ Head(globalQueue) = globalQueue[1]
      /\ Len(globalQueue) \in Nat \ {0}
  BY <1>1
<1>3. globalQueue' \in Seq(Ids) /\ Head(globalQueue) \in Ids
  BY <1>1
<1>4. ASSUME NEW t \in Ids, Queued(t), t # Head(globalQueue) PROVE Queued(t)'
  <2>1. PICK i \in 1..Len(globalQueue) : globalQueue[i] = t
    BY <1>4 DEF Queued
  <2>2. i - 1 \in 1..Len(globalQueue')
    BY <1>2, <1>4, <2>1
  <2>3. globalQueue'[i - 1] = t
    BY <1>2, <2>1, <2>2
  <2> QED BY <2>2, <2>3 DEF Queued
<1> QED BY <1>3, <1>4

\* The ids are what the words that hold one may hold.
LEMMA IdFacts == Tids \subseteq Ids /\ NoThread \in Ids /\ None \notin Ids
  BY NoneAssumption DEF Ids


-----------------------------------------------------------------------------
(* Steps that touch neither the states nor the queues *)

\* Another client's id in hand stays where it is.
LEMMA ClientFrame ==
  ASSUME SchedInv, NEW c \in Clients, cpc[c] \notin {"spawnPush", "push", "sleepPush"},
         UNCHANGED <<state, globalQueue, sleepQueue, lpc, ltid>>,
         \A d \in Clients \ {c} : cpc'[d] = cpc[d] /\ ctid'[d] = ctid[d]
  PROVE  RunnableIsQueued' /\ SleeperHasEntry'
<1>1. RunnableIsQueued'
  <2> SUFFICES ASSUME NEW t \in Tids, state[t] = "runnable"
               PROVE  \/ Queued(t)'
                      \/ ltid' = t /\ lpc' \in {"expirePush", "eventPush", "run"}
                      \/ \E d \in Clients : ctid'[d] = t /\ cpc'[d] \in {"spawnPush", "push"}
    BY DEF RunnableIsQueued, Scheduled
  <2>1. CASE \E d \in Clients : ctid[d] = t /\ cpc[d] \in {"spawnPush", "push"}
    BY <2>1
  <2>2. CASE Queued(t)
    BY <2>2 DEF Queued
  <2>3. CASE ltid = t /\ lpc \in {"expirePush", "eventPush", "run"}
    BY <2>3
  <2> QED BY <2>1, <2>2, <2>3 DEF SchedInv, RunnableIsQueued, Scheduled
<1>2. SleeperHasEntry'
  <2> SUFFICES ASSUME NEW t \in Tids, state[t] = "sleeping"
               PROVE  \/ \E d \in Clients : <<t, d>> \in sleepQueue'
                      \/ \E d \in Clients : ctid'[d] = t /\ cpc'[d] = "sleepPush"
                      \/ ltid' = t /\ lpc' = "expireWake"
    BY DEF SleeperHasEntry, Alarmed
  <2>1. CASE \E d \in Clients : ctid[d] = t /\ cpc[d] = "sleepPush"
    BY <2>1
  <2>2. CASE \E d \in Clients : <<t, d>> \in sleepQueue
    BY <2>2
  <2>3. CASE ltid = t /\ lpc = "expireWake"
    BY <2>3
  <2> QED BY <2>1, <2>2, <2>3 DEF SchedInv, SleeperHasEntry, Alarmed
<1> QED BY <1>1, <1>2

\* The loop has no id in hand.
LEMMA LoopFrame ==
  ASSUME SchedInv, lpc \notin {"expirePush", "eventPush", "run", "expireWake"},
         UNCHANGED <<state, globalQueue, sleepQueue, cpc, ctid>>
  PROVE  RunnableIsQueued' /\ SleeperHasEntry'
<1>1. \A t : Queued(t) => Queued(t)'
  BY DEF Queued
<1>2. RunnableIsQueued'
  BY <1>1 DEF SchedInv, RunnableIsQueued, Scheduled
<1>3. SleeperHasEntry'
  BY DEF SchedInv, SleeperHasEntry, Alarmed
<1> QED BY <1>2, <1>3

-----------------------------------------------------------------------------
(* One lemma for each kind of step *)

\* Every step of the event loop.
LEMMA LoopStep ==
  ASSUME SchedInv, RunLoop
  PROVE  SchedInv'
<1>1. CASE LockSleep
  <2>1. TypeOK'
    BY <1>1, IdFacts DEF LockSleep, LGoto, queues, io, locks, loopVars, clientVars, SchedInv, TypeOK, Actors
  <2>2. RunnableIsQueued' /\ SleeperHasEntry'
    BY <1>1, LoopFrame DEF LockSleep, LGoto, queues, io, locks, loopVars, clientVars, SchedInv, TypeOK
  <2> QED BY <2>1, <2>2 DEF SchedInv
<1>2. CASE Expire
  <2>1. TypeOK'
    BY <1>2, IdFacts DEF Expire, LGoto, queues, io, locks, loopVars, clientVars, SchedInv, TypeOK, Actors
  <2>2. RunnableIsQueued'
    BY <1>2, IdFacts DEF Expire, LGoto, queues, io, locks, loopVars, clientVars, SchedInv, TypeOK, RunnableIsQueued, Scheduled, Queued
  <2>3. SleeperHasEntry'
    <3> SUFFICES ASSUME NEW t \in Tids, state'[t] = "sleeping"
                 PROVE  \/ \E d \in Clients : <<t, d>> \in sleepQueue'
                        \/ \E d \in Clients : ctid'[d] = t /\ cpc'[d] = "sleepPush"
                        \/ ltid' = t /\ lpc' = "expireWake"
      BY DEF SleeperHasEntry, Alarmed
    <3>1. PICK e \in due : sleepQueue' = sleepQueue \ {e} /\ ltid' = e[1] /\ lpc' = "expireWake"
      BY <1>2 DEF Expire, LGoto
    <3>2. state[t] = "sleeping" /\ lpc = "expire" /\ cpc' = cpc /\ ctid' = ctid
      BY <1>2 DEF Expire, clientVars
    <3>3. CASE \E d \in Clients : <<t, d>> \in sleepQueue
      BY <3>1, <3>3
    <3>4. CASE \E d \in Clients : ctid[d] = t /\ cpc[d] = "sleepPush"
      BY <3>2, <3>4
    <3> QED BY <3>2, <3>3, <3>4 DEF SchedInv, SleeperHasEntry, Alarmed
  <2> QED BY <2>1, <2>2, <2>3 DEF SchedInv
<1>3. CASE ExpireDone
  <2>1. TypeOK'
    BY <1>3, IdFacts DEF ExpireDone, LGoto, queues, io, locks, loopVars, clientVars, SchedInv, TypeOK, Actors
  <2>2. RunnableIsQueued' /\ SleeperHasEntry'
    BY <1>3, LoopFrame DEF ExpireDone, LGoto, queues, io, locks, loopVars, clientVars, SchedInv, TypeOK
  <2> QED BY <2>1, <2>2 DEF SchedInv
<1>4. CASE LoopWake
  <2>1. TypeOK'
    BY <1>4, IdFacts DEF LoopWake, LGoto, Woken, Known, queues, io, locks, loopVars, clientVars, SchedInv, TypeOK, Actors
  <2>2. RunnableIsQueued'
    BY <1>4, IdFacts DEF LoopWake, LGoto, Woken, Known, queues, io, locks, loopVars, clientVars, SchedInv, TypeOK, RunnableIsQueued, Scheduled, Queued
  <2>3. SleeperHasEntry'
    <3> SUFFICES ASSUME NEW t \in Tids, state'[t] = "sleeping"
                 PROVE  \/ \E d \in Clients : <<t, d>> \in sleepQueue'
                        \/ \E d \in Clients : ctid'[d] = t /\ cpc'[d] = "sleepPush"
                        \/ ltid' = t /\ lpc' = "expireWake"
      BY DEF SleeperHasEntry, Alarmed
    <3>1. state' = Woken(ltid) /\ UNCHANGED <<sleepQueue, cpc, ctid, ltid>>
      BY <1>4 DEF LoopWake, queues, clientVars
    <3>2. state[t] = "sleeping" /\ t # ltid
      BY <3>1 DEF Woken, Known, SchedInv, TypeOK
    <3> QED BY <3>1, <3>2 DEF SchedInv, SleeperHasEntry, Alarmed
  <2> QED BY <2>1, <2>2, <2>3 DEF SchedInv
<1>5. CASE LoopPush
  <2>a. PICK x \in Ids : x = ltid
    BY DEF SchedInv, TypeOK
  <2>b. TypeOK /\ globalQueue' = Append(globalQueue, x)
    BY <1>5, <2>a DEF LoopPush, SchedInv
  <2>c. /\ globalQueue' \in Seq(Ids)
        /\ \A t \in Ids : Queued(t) \/ t = x => Queued(t)'
    BY <2>b, AppendFacts
  <2>1. TypeOK'
    BY <1>5, <2>a, <2>c, IdFacts DEF LoopPush, LGoto, queues, io, locks, loopVars, clientVars, SchedInv, TypeOK, Actors
  <2>2. RunnableIsQueued'
    <3> SUFFICES ASSUME NEW t \in Tids, state[t] = "runnable"
                 PROVE  \/ Queued(t)'
                        \/ ltid' = t /\ lpc' \in {"expirePush", "eventPush", "run"}
                        \/ \E d \in Clients : ctid'[d] = t /\ cpc'[d] \in {"spawnPush", "push"}
      BY <1>5 DEF LoopPush, RunnableIsQueued, Scheduled
    <3>1. cpc' = cpc /\ ctid' = ctid
      BY <1>5 DEF LoopPush, LGoto, queues, io, locks, loopVars, clientVars, SchedInv, TypeOK
    <3>2. lpc \in {"expirePush", "eventPush"}
      BY <1>5 DEF LoopPush, LGoto, queues, io, locks, loopVars, clientVars
    <3>3. CASE Queued(t) \/ t = x
      BY <2>c, <3>3, IdFacts
    <3>4. CASE ~Queued(t) /\ t # x
      BY <2>a, <3>1, <3>2, <3>4 DEF SchedInv, RunnableIsQueued, Scheduled
    <3> QED BY <3>3, <3>4
  <2>3. SleeperHasEntry'
    BY <1>5, <2>a, <2>c, IdFacts DEF LoopPush, LGoto, queues, io, locks, loopVars, clientVars, SchedInv, TypeOK, SleeperHasEntry, Alarmed
  <2> QED BY <2>1, <2>2, <2>3 DEF SchedInv
<1>6. CASE Event
  <2>1. TypeOK'
    BY <1>6, IdFacts DEF Event, LGoto, queues, io, locks, loopVars, clientVars, SchedInv, TypeOK, Actors
  <2>2. RunnableIsQueued' /\ SleeperHasEntry'
    BY <1>6, LoopFrame DEF Event, LGoto, queues, io, locks, loopVars, clientVars, SchedInv, TypeOK
  <2> QED BY <2>1, <2>2 DEF SchedInv
<1>7. CASE PollDone
  <2>1. TypeOK'
    BY <1>7, IdFacts DEF PollDone, LGoto, queues, io, locks, loopVars, clientVars, SchedInv, TypeOK, Actors
  <2>2. RunnableIsQueued' /\ SleeperHasEntry'
    BY <1>7, LoopFrame DEF PollDone, LGoto, queues, io, locks, loopVars, clientVars, SchedInv, TypeOK
  <2> QED BY <2>1, <2>2 DEF SchedInv
<1>8. CASE Dispatch
  <2>a. TypeOK /\ globalQueue # <<>> /\ globalQueue' = Tail(globalQueue)
    BY <1>8 DEF Dispatch, SchedInv
  <2>b. /\ globalQueue' \in Seq(Ids)
        /\ Head(globalQueue) \in Ids
        /\ \A t \in Ids : Queued(t) => t = Head(globalQueue) \/ Queued(t)'
    BY <2>a, PopFacts
  <2>1. TypeOK'
    BY <1>8, <2>b, IdFacts, BoundsAssumption DEF Dispatch, LGoto, queues, io, locks, loopVars, clientVars, SchedInv, TypeOK, Actors
  <2>2. RunnableIsQueued'
    BY <1>8, <2>b, IdFacts DEF Dispatch, LGoto, queues, io, locks, loopVars, clientVars, SchedInv, TypeOK, RunnableIsQueued, Scheduled
  <2>3. SleeperHasEntry'
    BY <1>8, <2>b, IdFacts DEF Dispatch, LGoto, queues, io, locks, loopVars, clientVars, SchedInv, TypeOK, SleeperHasEntry, Alarmed
  <2> QED BY <2>1, <2>2, <2>3 DEF SchedInv
<1>9. CASE MarkRunning
  <2>1. TypeOK'
    BY <1>9, IdFacts DEF MarkRunning, LGoto, Known, queues, io, locks, loopVars, clientVars, SchedInv, TypeOK, Actors
  <2>2. RunnableIsQueued'
    BY <1>9, IdFacts DEF MarkRunning, LGoto, Known, queues, io, locks, loopVars, clientVars, SchedInv, TypeOK, RunnableIsQueued, Scheduled, Queued
  <2>3. SleeperHasEntry'
    BY <1>9, IdFacts DEF MarkRunning, LGoto, Known, queues, io, locks, loopVars, clientVars, SchedInv, TypeOK, SleeperHasEntry, Alarmed
  <2> QED BY <2>1, <2>2, <2>3 DEF SchedInv
<1>10. CASE ClearCurrent
  <2>1. TypeOK'
    BY <1>10, IdFacts DEF ClearCurrent, LGoto, queues, io, locks, loopVars, clientVars, SchedInv, TypeOK, Actors
  <2>2. RunnableIsQueued' /\ SleeperHasEntry'
    BY <1>10, LoopFrame DEF ClearCurrent, LGoto, queues, io, locks, loopVars, clientVars, SchedInv, TypeOK
  <2> QED BY <2>1, <2>2 DEF SchedInv
<1>11. CASE Round
  <2>1. TypeOK'
    BY <1>11, IdFacts, BoundsAssumption DEF Round, LGoto, queues, io, locks, loopVars, clientVars, SchedInv, TypeOK, Actors
  <2>2. RunnableIsQueued' /\ SleeperHasEntry'
    BY <1>11, LoopFrame DEF Round, LGoto, queues, io, locks, loopVars, clientVars, SchedInv, TypeOK
  <2> QED BY <2>1, <2>2 DEF SchedInv
<1> QED BY <1>1, <1>2, <1>3, <1>4, <1>5, <1>6, <1>7, <1>8, <1>9, <1>10, <1>11 DEF RunLoop

\* A client begins a call.
LEMMA CallStep ==
  ASSUME SchedInv, NEW c \in Clients, Call(c)
  PROVE  SchedInv'
<1>1. CASE Spawn(c)
  <2>1. TypeOK'
    BY <1>1, IdFacts DEF Spawn, Begin, CGoto, CFor, queues, io, locks, loopVars, clientVars, SchedInv, TypeOK, Actors
  <2>2. RunnableIsQueued' /\ SleeperHasEntry'
    BY <1>1, ClientFrame DEF Spawn, Begin, CGoto, CFor, queues, io, locks, loopVars, clientVars, SchedInv, TypeOK
  <2> QED BY <2>1, <2>2 DEF SchedInv
<1>2. CASE Park(c)
  <2>1. TypeOK'
    BY <1>2, IdFacts DEF Park, Begin, CGoto, CFor, queues, io, locks, loopVars, clientVars, SchedInv, TypeOK, Actors
  <2>2. RunnableIsQueued' /\ SleeperHasEntry'
    BY <1>2, ClientFrame DEF Park, Begin, CGoto, CFor, queues, io, locks, loopVars, clientVars, SchedInv, TypeOK
  <2> QED BY <2>1, <2>2 DEF SchedInv
<1>3. CASE Unpark(c)
  <2>1. TypeOK'
    BY <1>3, IdFacts DEF Unpark, Begin, CGoto, CFor, queues, io, locks, loopVars, clientVars, SchedInv, TypeOK, Actors
  <2>2. RunnableIsQueued' /\ SleeperHasEntry'
    BY <1>3, ClientFrame DEF Unpark, Begin, CGoto, CFor, queues, io, locks, loopVars, clientVars, SchedInv, TypeOK
  <2> QED BY <2>1, <2>2 DEF SchedInv
<1>4. CASE Join(c)
  <2>1. TypeOK'
    BY <1>4, IdFacts DEF Join, Begin, CGoto, queues, io, locks, loopVars, clientVars, SchedInv, TypeOK, Actors
  <2>2. RunnableIsQueued' /\ SleeperHasEntry'
    BY <1>4, ClientFrame DEF Join, Begin, CGoto, queues, io, locks, loopVars, clientVars, SchedInv, TypeOK
  <2> QED BY <2>1, <2>2 DEF SchedInv
<1>5. CASE Sleep(c)
  <2>1. TypeOK'
    BY <1>5, IdFacts DEF Sleep, Begin, CGoto, CFor, queues, io, locks, loopVars, clientVars, SchedInv, TypeOK, Actors
  <2>2. RunnableIsQueued' /\ SleeperHasEntry'
    BY <1>5, ClientFrame DEF Sleep, Begin, CGoto, CFor, queues, io, locks, loopVars, clientVars, SchedInv, TypeOK
  <2> QED BY <2>1, <2>2 DEF SchedInv
<1>6. CASE BlockOnIo(c)
  <2>1. TypeOK'
    BY <1>6, IdFacts DEF BlockOnIo, Begin, CGoto, CFor, queues, io, locks, loopVars, clientVars, SchedInv, TypeOK, Actors
  <2>2. RunnableIsQueued' /\ SleeperHasEntry'
    BY <1>6, ClientFrame DEF BlockOnIo, Begin, CGoto, CFor, queues, io, locks, loopVars, clientVars, SchedInv, TypeOK
  <2> QED BY <2>1, <2>2 DEF SchedInv
<1> QED BY <1>1, <1>2, <1>3, <1>4, <1>5, <1>6 DEF Call

\* A client goes on with its call.
LEMMA ProceedStep ==
  ASSUME SchedInv, NEW c \in Clients, Proceed(c)
  PROVE  SchedInv'
<1>1. CASE Insert(c)
  <2>1. TypeOK'
    BY <1>1, IdFacts DEF Insert, CGoto, queues, io, locks, loopVars, clientVars, SchedInv, TypeOK, Actors
  <2>2. RunnableIsQueued'
    BY <1>1, IdFacts DEF Insert, CGoto, queues, io, locks, loopVars, clientVars, SchedInv, TypeOK, RunnableIsQueued, Scheduled, Queued
  <2>3. SleeperHasEntry'
    BY <1>1, IdFacts DEF Insert, CGoto, queues, io, locks, loopVars, clientVars, SchedInv, TypeOK, SleeperHasEntry, Alarmed
  <2> QED BY <2>1, <2>2, <2>3 DEF SchedInv
<1>2. CASE SpawnPush(c)
  <2>a. PICK x \in Ids : x = ctid[c]
    BY DEF SchedInv, TypeOK
  <2>b. TypeOK /\ globalQueue' = Append(globalQueue, x)
    BY <1>2, <2>a DEF SpawnPush, SchedInv
  <2>c. /\ globalQueue' \in Seq(Ids)
        /\ \A t \in Ids : Queued(t) \/ t = x => Queued(t)'
    BY <2>b, AppendFacts
  <2>1. TypeOK'
    BY <1>2, <2>a, <2>c, IdFacts DEF SpawnPush, Done, CGoto, CFor, queues, io, locks, loopVars, clientVars, SchedInv, TypeOK, Actors
  <2>2. RunnableIsQueued'
    <3> SUFFICES ASSUME NEW t \in Tids, state[t] = "runnable"
                 PROVE  \/ Queued(t)'
                        \/ ltid' = t /\ lpc' \in {"expirePush", "eventPush", "run"}
                        \/ \E d \in Clients : ctid'[d] = t /\ cpc'[d] \in {"spawnPush", "push"}
      BY <1>2 DEF SpawnPush, RunnableIsQueued, Scheduled
    <3>1. \A d \in Clients \ {c} : cpc'[d] = cpc[d] /\ ctid'[d] = ctid[d]
      BY <1>2 DEF SpawnPush, Done, CGoto, CFor, queues, io, locks, loopVars, clientVars, SchedInv, TypeOK
    <3>2. lpc' = lpc /\ ltid' = ltid
      BY <1>2 DEF SpawnPush, Done, CGoto, CFor, queues, io, locks, loopVars, clientVars
    <3>3. CASE Queued(t) \/ t = x
      BY <2>c, <3>3, IdFacts
    <3>4. CASE ~Queued(t) /\ t # x
      BY <2>a, <3>1, <3>2, <3>4 DEF SchedInv, RunnableIsQueued, Scheduled
    <3> QED BY <3>3, <3>4
  <2>3. SleeperHasEntry'
    BY <1>2, <2>a, <2>c, IdFacts DEF SpawnPush, Done, CGoto, CFor, queues, io, locks, loopVars, clientVars, SchedInv, TypeOK, SleeperHasEntry, Alarmed
  <2> QED BY <2>1, <2>2, <2>3 DEF SchedInv
<1>3. CASE Block(c)
  <2>1. TypeOK'
    BY <1>3, IdFacts DEF Block, CGoto, CFor, Blocked, Known, queues, io, locks, loopVars, clientVars, SchedInv, TypeOK, Actors
  <2>2. RunnableIsQueued'
    BY <1>3, IdFacts DEF Block, CGoto, CFor, Blocked, Known, queues, io, locks, loopVars, clientVars, SchedInv, TypeOK, RunnableIsQueued, Scheduled, Queued
  <2>3. SleeperHasEntry'
    BY <1>3, IdFacts DEF Block, CGoto, CFor, Blocked, Known, queues, io, locks, loopVars, clientVars, SchedInv, TypeOK, SleeperHasEntry, Alarmed
  <2> QED BY <2>1, <2>2, <2>3 DEF SchedInv
<1>4. CASE Wake(c)
  <2>1. TypeOK'
    BY <1>4, IdFacts DEF Wake, CGoto, Woken, Known, queues, io, locks, loopVars, clientVars, SchedInv, TypeOK, Actors
  <2>2. RunnableIsQueued'
    BY <1>4, IdFacts DEF Wake, CGoto, Woken, Known, queues, io, locks, loopVars, clientVars, SchedInv, TypeOK, RunnableIsQueued, Scheduled, Queued
  <2>3. SleeperHasEntry'
    BY <1>4, IdFacts DEF Wake, CGoto, Woken, Known, queues, io, locks, loopVars, clientVars, SchedInv, TypeOK, SleeperHasEntry, Alarmed
  <2> QED BY <2>1, <2>2, <2>3 DEF SchedInv
<1>5. CASE Push(c)
  <2>a. PICK x \in Ids : x = ctid[c]
    BY DEF SchedInv, TypeOK
  <2>b. TypeOK /\ globalQueue' = Append(globalQueue, x)
    BY <1>5, <2>a DEF Push, SchedInv
  <2>c. /\ globalQueue' \in Seq(Ids)
        /\ \A t \in Ids : Queued(t) \/ t = x => Queued(t)'
    BY <2>b, AppendFacts
  <2>1. TypeOK'
    BY <1>5, <2>a, <2>c, IdFacts DEF Push, Done, CGoto, CFor, queues, io, locks, loopVars, clientVars, SchedInv, TypeOK, Actors
  <2>2. RunnableIsQueued'
    <3> SUFFICES ASSUME NEW t \in Tids, state[t] = "runnable"
                 PROVE  \/ Queued(t)'
                        \/ ltid' = t /\ lpc' \in {"expirePush", "eventPush", "run"}
                        \/ \E d \in Clients : ctid'[d] = t /\ cpc'[d] \in {"spawnPush", "push"}
      BY <1>5 DEF Push, RunnableIsQueued, Scheduled
    <3>1. \A d \in Clients \ {c} : cpc'[d] = cpc[d] /\ ctid'[d] = ctid[d]
      BY <1>5 DEF Push, Done, CGoto, CFor, queues, io, locks, loopVars, clientVars, SchedInv, TypeOK
    <3>2. lpc' = lpc /\ ltid' = ltid
      BY <1>5 DEF Push, Done, CGoto, CFor, queues, io, locks, loopVars, clientVars
    <3>3. CASE Queued(t) \/ t = x
      BY <2>c, <3>3, IdFacts
    <3>4. CASE ~Queued(t) /\ t # x
      BY <2>a, <3>1, <3>2, <3>4 DEF SchedInv, RunnableIsQueued, Scheduled
    <3> QED BY <3>3, <3>4
  <2>3. SleeperHasEntry'
    BY <1>5, <2>a, <2>c, IdFacts DEF Push, Done, CGoto, CFor, queues, io, locks, loopVars, clientVars, SchedInv, TypeOK, SleeperHasEntry, Alarmed
  <2> QED BY <2>1, <2>2, <2>3 DEF SchedInv
<1>6. CASE JoinRound(c)
  <2>1. TypeOK'
    BY <1>6, IdFacts DEF JoinRound, CGoto, CFor, queues, io, locks, loopVars, clientVars, SchedInv, TypeOK, Actors
  <2>2. RunnableIsQueued' /\ SleeperHasEntry'
    BY <1>6, ClientFrame DEF JoinRound, CGoto, CFor, queues, io, locks, loopVars, clientVars, SchedInv, TypeOK
  <2> QED BY <2>1, <2>2 DEF SchedInv
<1>7. CASE MarkSleeping(c)
  <2>1. TypeOK'
    BY <1>7, IdFacts DEF MarkSleeping, CGoto, Known, queues, io, locks, loopVars, clientVars, SchedInv, TypeOK, Actors
  <2>2. RunnableIsQueued'
    BY <1>7, IdFacts DEF MarkSleeping, CGoto, Known, queues, io, locks, loopVars, clientVars, SchedInv, TypeOK, RunnableIsQueued, Scheduled, Queued
  <2>3. SleeperHasEntry'
    BY <1>7, IdFacts DEF MarkSleeping, CGoto, Known, queues, io, locks, loopVars, clientVars, SchedInv, TypeOK, SleeperHasEntry, Alarmed
  <2> QED BY <2>1, <2>2, <2>3 DEF SchedInv
<1>8. CASE SleepPush(c)
  <2>1. TypeOK'
    BY <1>8, IdFacts DEF SleepPush, Done, CGoto, CFor, queues, io, locks, loopVars, clientVars, SchedInv, TypeOK, Actors
  <2>2. RunnableIsQueued'
    BY <1>8, IdFacts DEF SleepPush, Done, CGoto, CFor, queues, io, locks, loopVars, clientVars, SchedInv, TypeOK, RunnableIsQueued, Scheduled, Queued
  <2>3. SleeperHasEntry'
    BY <1>8, IdFacts DEF SleepPush, Done, CGoto, CFor, queues, io, locks, loopVars, clientVars, SchedInv, TypeOK, SleeperHasEntry, Alarmed
  <2> QED BY <2>1, <2>2, <2>3 DEF SchedInv
<1>9. CASE RegisterIo(c)
  <2>1. TypeOK'
    BY <1>9, IdFacts DEF RegisterIo, CGoto, queues, io, locks, loopVars, clientVars, SchedInv, TypeOK, Actors
  <2>2. RunnableIsQueued' /\ SleeperHasEntry'
    BY <1>9, ClientFrame DEF RegisterIo, CGoto, queues, io, locks, loopVars, clientVars, SchedInv, TypeOK
  <2> QED BY <2>1, <2>2 DEF SchedInv
<1>10. CASE IoPark(c)
  <2>1. TypeOK'
    BY <1>10, IdFacts DEF IoPark, CGoto, CFor, Done, queues, io, locks, loopVars, clientVars, SchedInv, TypeOK, Actors
  <2>2. RunnableIsQueued' /\ SleeperHasEntry'
    BY <1>10, ClientFrame DEF IoPark, CGoto, CFor, Done, queues, io, locks, loopVars, clientVars, SchedInv, TypeOK
  <2> QED BY <2>1, <2>2 DEF SchedInv
<1> QED BY <1>1, <1>2, <1>3, <1>4, <1>5, <1>6, <1>7, <1>8, <1>9, <1>10 DEF Proceed

\* Every step: the loop's, the clients', a deadline or a descriptor.
LEMMA SchedStep == SchedInv /\ [Next]_vars => SchedInv'
<1> SUFFICES ASSUME SchedInv, [Next]_vars PROVE SchedInv'
  OBVIOUS
<1>1. CASE Deadline
  <2>1. TypeOK'
    BY <1>1 DEF Deadline, locks, loopVars, clientVars, io, SchedInv, TypeOK
  <2>2. RunnableIsQueued'
    BY <1>1 DEF Deadline, locks, loopVars, clientVars, io, SchedInv, RunnableIsQueued, Scheduled, Queued
  <2>3. SleeperHasEntry'
    BY <1>1 DEF Deadline, locks, loopVars, clientVars, io, SchedInv, SleeperHasEntry, Alarmed
  <2> QED BY <2>1, <2>2, <2>3 DEF SchedInv
<1>2. CASE Readable
  <2>1. TypeOK'
    BY <1>2 DEF Readable, queues, locks, loopVars, clientVars, SchedInv, TypeOK
  <2>2. RunnableIsQueued'
    BY <1>2 DEF Readable, queues, locks, loopVars, clientVars, SchedInv, RunnableIsQueued, Scheduled, Queued
  <2>3. SleeperHasEntry'
    BY <1>2 DEF Readable, queues, locks, loopVars, clientVars, SchedInv, SleeperHasEntry, Alarmed
  <2> QED BY <2>1, <2>2, <2>3 DEF SchedInv
<1>3. CASE UNCHANGED vars
  <2>1. TypeOK'
    BY <1>3 DEF vars, queues, io, locks, loopVars, clientVars, SchedInv, TypeOK
  <2>2. RunnableIsQueued'
    BY <1>3 DEF vars, queues, io, locks, loopVars, clientVars, SchedInv, RunnableIsQueued, Scheduled, Queued
  <2>3. SleeperHasEntry'
    BY <1>3 DEF vars, queues, io, locks, loopVars, clientVars, SchedInv, SleeperHasEntry, Alarmed
  <2> QED BY <2>1, <2>2, <2>3 DEF SchedInv
<1> QED BY <1>1, <1>2, <1>3, LoopStep, CallStep, ProceedStep DEF Next

\* The threads spawned before the loop started are all in the queue: it has
\* their number and no id twice.
LEMMA SchedInit == Init => SchedInv
<1> SUFFICES ASSUME Init PROVE SchedInv
  OBVIOUS
<1> DEFINE n == Cardinality(Spawned)
<1>1. n \in Nat /\ Cardinality(1..n) = n
  BY TidsAssumption, FS_CardinalityType, FS_Interval
<1>2. globalQueue \in [1..n -> Spawned]
  BY DEF Init
<1>3. globalQueue \in Injection(1..n, Spawned)
  <2>1. \A i, j \in 1..n : i < j => globalQueue[i] < globalQueue[j]
    BY DEF Init
  <2>2. \A i \in 1..n : globalQueue[i] \in Nat
    BY <1>2, TidsAssumption
  <2>3. \A i, j \in 1..n : globalQueue[i] = globalQueue[j] => i = j
    BY <1>1, <2>1, <2>2
  <2> QED BY <1>2, <2>3 DEF Injection, IsInjective
<1>4. globalQueue \in Surjection(1..n, Spawned)
  BY <1>1, <1>3, TidsAssumption, FS_Injection
<1>5. globalQueue \in Seq(Ids) /\ Len(globalQueue) = n
  <2>1. globalQueue \in [1..n -> Ids]
    BY <1>2, TidsAssumption, IdFacts
  <2> QED BY <1>1, <2>1
<1>6. \A t \in Spawned : Queued(t)
  BY <1>4, <1>5 DEF Surjection, Queued
<1>7. TypeOK
  BY <1>5, IdFacts, BoundsAssumption DEF Init, TypeOK, Actors, Free
<1>8. RunnableIsQueued
  BY <1>6 DEF Init, RunnableIsQueued, Scheduled
<1>9. SleeperHasEntry
  BY DEF Init, SleeperHasEntry, Alarmed
<1> QED BY <1>7, <1>8, <1>9 DEF SchedInv

\* The scheduler's words keep their types, whatever calls, deadlines and
\* events are interleaved with the loop.
THEOREM SchedulerTypes == Spec => []TypeOK
<1>1. SchedInv => TypeOK
  BY DEF SchedInv
<1> QED BY <1>1, SchedInit, SchedStep, PTL DEF Spec

\* No runnable thread is forgotten and no sleeper is left without an entry,
\* for any number of threads, clients and calls.
THEOREM NoThreadIsForgotten == Spec => []QueuesAgree
<1>1. SchedInv => QueuesAgree
  BY DEF SchedInv, QueuesAgree
<1> QED BY <1>1, SchedInit, SchedStep, PTL DEF Spec

-----------------------------------------------------------------------------
(* Who holds which lock *)

\* A lock is held, or waited for with the door shut, by exactly those who are
\* at a step between taking and leaving it.
LocksAgree ==
  /\ \A c \in Clients : c \in tReaders <=> cpc[c] \in {"push", "sleepPush"}
  /\ Loop \in tReaders <=> lpc \in {"expirePush", "eventPush", "clear"}
  /\ \A c \in Clients : c \in tWaiting <=> cpc[c] = "insert"
  /\ sleepLock = IF lpc \in {"expire", "expireWake", "expirePush"} THEN Loop ELSE Free
  /\ iReaders = IF lpc \in {"eventWake", "eventPush", "unregister"} THEN {Loop} ELSE {}

\* At the start no lock is held.
LEMMA LocksInit == Init => LocksAgree
BY DEF Init, LocksAgree

\* Every step of the loop takes and leaves locks as its label says.
LEMMA LoopLocks ==
  ASSUME TypeOK, LocksAgree, RunLoop
  PROVE  LocksAgree'
<1> USE ClientsAssumption DEF TypeOK, LocksAgree, LGoto, queues, io, locks, loopVars, clientVars, Free, Loop
<1>1. CASE LockSleep
  BY <1>1 DEF LockSleep
<1>2. CASE Expire
  BY <1>2 DEF Expire
<1>3. CASE ExpireDone
  BY <1>3 DEF ExpireDone
<1>4. CASE LoopWake
  BY <1>4 DEF LoopWake
<1>5. CASE LoopPush
  BY <1>5 DEF LoopPush
<1>6. CASE Event
  BY <1>6 DEF Event
<1>7. CASE PollDone
  BY <1>7 DEF PollDone
<1>8. CASE Dispatch
  BY <1>8 DEF Dispatch
<1>9. CASE MarkRunning
  BY <1>9 DEF MarkRunning
<1>10. CASE ClearCurrent
  BY <1>10 DEF ClearCurrent
<1>11. CASE Round
  BY <1>11 DEF Round
<1> QED BY <1>1, <1>2, <1>3, <1>4, <1>5, <1>6, <1>7, <1>8, <1>9, <1>10, <1>11 DEF RunLoop

\* So does every step of a client.
LEMMA ClientLocks ==
  ASSUME TypeOK, LocksAgree, NEW c \in Clients, Call(c) \/ Proceed(c)
  PROVE  LocksAgree'
<1> USE ClientsAssumption DEF TypeOK, LocksAgree, Begin, CGoto, CFor, Done, queues, io, locks, loopVars, clientVars
<1>1. CASE Spawn(c)
  BY <1>1 DEF Spawn
<1>2. CASE Park(c) \/ Unpark(c) \/ Join(c) \/ Sleep(c) \/ BlockOnIo(c)
  BY <1>2 DEF Park, Unpark, Join, Sleep, BlockOnIo
<1>3. CASE Insert(c)
  BY <1>3 DEF Insert
<1>4. CASE SpawnPush(c) \/ Block(c) \/ JoinRound(c)
  BY <1>4 DEF SpawnPush, Block, JoinRound
<1>5. CASE Wake(c) \/ MarkSleeping(c)
  BY <1>5 DEF Wake, MarkSleeping
<1>6. CASE Push(c) \/ SleepPush(c)
  BY <1>6 DEF Push, SleepPush
<1>7. CASE RegisterIo(c) \/ IoPark(c)
  BY <1>7 DEF RegisterIo, IoPark
<1> QED BY <1>1, <1>2, <1>3, <1>4, <1>5, <1>6, <1>7 DEF Call, Proceed

\* And deadlines and descriptors have nothing to do with locks.
LEMMA LocksStep == TypeOK /\ LocksAgree /\ [Next]_vars => LocksAgree'
<1> SUFFICES ASSUME TypeOK, LocksAgree, [Next]_vars PROVE LocksAgree'
  OBVIOUS
<1>1. CASE Deadline \/ Readable \/ UNCHANGED vars
  BY <1>1 DEF Deadline, Readable, vars, LocksAgree, io, locks, loopVars, clientVars
<1> QED BY <1>1, LoopLocks, ClientLocks DEF Next

\* When the loop waits it holds the table for nobody, so a writer that waits
\* with it waits for clients.
LEMMA LocksLetOn == TypeOK /\ LocksAgree => LoopIsLetOn
<1> SUFFICES ASSUME TypeOK, LocksAgree, LoopWaits, ~LoopStuck
             PROVE  \E c \in Clients : cpc[c] \in {"insert", "push", "sleepPush"} /\ ~ClientWaits(c)
  BY DEF LoopIsLetOn
<1>1. /\ lpc \in {"expireWake", "eventWake", "run", "dispatch"}
      /\ tWaiting # {} /\ Loop \notin tReaders
  BY DEF LoopWaits, LoopStuck, SelfDeadlock, CanRead, LocksAgree
<1>2. PICK d \in Clients : cpc[d] = "insert"
  BY <1>1 DEF TypeOK, LocksAgree
<1>3. CASE tReaders = {}
  BY <1>2, <1>3 DEF ClientWaits
<1>4. CASE tReaders # {}
  <2>1. PICK e \in Clients : e \in tReaders
    BY <1>1, <1>4 DEF TypeOK, Actors
  <2>2. cpc[e] \in {"push", "sleepPush"}
    BY <2>1 DEF LocksAgree
  <2>3. cpc[e] = "sleepPush" => sleepLock = Free
    BY <1>1, <2>1 DEF LocksAgree, LoopStuck, LockCycle
  <2> QED BY <2>2, <2>3 DEF ClientWaits
<1> QED BY <1>3, <1>4

\* A lock is never left behind nor held twice: who holds the table, the sleep
\* queue and the interests is told by where each thread is.
THEOREM LocksAreAccounted == Spec => []LocksAgree
<1>1. SchedInv => TypeOK
  BY DEF SchedInv
<1> QED BY <1>1, SchedInit, SchedStep, LocksInit, LocksStep, PTL DEF Spec

\* The two deadlocks that Scheduler names are the only ones, whatever the
\* clients call: else the loop waits for a lock only while a client on whom it
\* waits can go on.
THEOREM OnlyNamedDeadlocks == Spec => []LoopIsLetOn
<1>1. SchedInv => TypeOK
  BY DEF SchedInv
<1> QED BY <1>1, SchedInit, SchedStep, LocksInit, LocksStep, LocksLetOn, PTL DEF Spec

-----------------------------------------------------------------------------
(* What a scheduler promises its threads *)

ScheduledTids == {t \in Tids : Scheduled(t)}
AlarmedTids == {t \in Tids : Alarmed(t)}
Promised == INSTANCE GreenThreads WITH scheduled <- ScheduledTids, alarmed <- AlarmedTids

\* An id about to be inserted is not in the table yet, and nobody else's.
SpawnedOnce ==
  \A c \in Clients : cpc[c] = "insert" =>
    /\ ctid[c] \in Tids /\ state[ctid[c]] = "absent"
    /\ \A d \in Clients \ {c} : cpc[d] = "insert" => ctid[d] # ctid[c]

\* Only an insertion changes the state of a thread that is not in the table,
\* and only its own client's.
LEMMA SpawnStep == TypeOK /\ SpawnedOnce /\ [Next]_vars => SpawnedOnce'
<1> SUFFICES ASSUME TypeOK, SpawnedOnce, [Next]_vars PROVE SpawnedOnce'
  OBVIOUS
<1> USE DEF TypeOK, SpawnedOnce, CGoto, CFor, Done, queues, io, locks, loopVars, clientVars
<1>1. CASE RunLoop
  <2>1. UNCHANGED <<cpc, ctid>>
    BY <1>1 DEF RunLoop, LockSleep, Expire, ExpireDone, LoopWake, LoopPush, Event, PollDone, Dispatch,
                MarkRunning, ClearCurrent, Round
  <2>2. \A t \in Tids : state[t] = "absent" => state'[t] = "absent"
    BY <1>1 DEF RunLoop, LockSleep, Expire, ExpireDone, LoopWake, LoopPush, Event, PollDone, Dispatch,
                MarkRunning, ClearCurrent, Round, Woken, Known
  <2> QED BY <2>1, <2>2
<1>2. CASE Deadline \/ Readable \/ UNCHANGED vars
  BY <1>2 DEF Deadline, Readable, vars
<1>3. ASSUME NEW c \in Clients, Insert(c) PROVE SpawnedOnce'
  BY <1>3 DEF Insert
<1>4. ASSUME NEW c \in Clients, Spawn(c) PROVE SpawnedOnce'
  BY <1>4 DEF Spawn, Begin
<1>5. ASSUME NEW c \in Clients, (Call(c) /\ ~Spawn(c)) \/ (Proceed(c) /\ ~Insert(c)) PROVE SpawnedOnce'
  <2>1. \A t \in Tids : state[t] = "absent" => state'[t] = "absent"
    BY <1>5 DEF Call, Proceed, Park, Unpark, Join, Sleep, BlockOnIo, SpawnPush, Block, Wake, Push, JoinRound,
                MarkSleeping, SleepPush, RegisterIo, IoPark, Woken, Blocked, Known
  <2>2. cpc'[c] # "insert" /\ \A d \in Clients \ {c} : cpc'[d] = cpc[d] /\ ctid'[d] = ctid[d]
    BY <1>5 DEF Call, Proceed, Park, Unpark, Join, Sleep, BlockOnIo, Begin, SpawnPush, Block, Wake, Push,
                JoinRound, MarkSleeping, SleepPush, RegisterIo, IoPark
  <2> QED BY <2>1, <2>2
<1> QED BY <1>1, <1>2, <1>3, <1>4, <1>5 DEF Next

\* After an append exactly the new id is queued as well.
LEMMA QueueGrows ==
  ASSUME TypeOK, NEW x \in Ids, globalQueue' = Append(globalQueue, x)
  PROVE  \A t \in Tids : Queued(t)' <=> Queued(t) \/ t = x
<1>1. /\ Len(globalQueue') = Len(globalQueue) + 1
      /\ Len(globalQueue) \in Nat
      /\ globalQueue'[Len(globalQueue) + 1] = x
      /\ \A i \in 1..Len(globalQueue) : globalQueue'[i] = globalQueue[i]
  BY DEF TypeOK
<1>2. ASSUME NEW t \in Tids, Queued(t)' PROVE Queued(t) \/ t = x
  BY <1>1, <1>2 DEF Queued
<1> QED BY <1>2, AppendFacts, IdFacts

\* The pop takes the first id out of the queue and puts nothing in.
LEMMA QueueShrinks ==
  ASSUME TypeOK, globalQueue # <<>>, globalQueue' = Tail(globalQueue)
  PROVE  \A t \in Tids : Queued(t) <=> Queued(t)' \/ t = Head(globalQueue)
<1>1. /\ Len(globalQueue') = Len(globalQueue) - 1
      /\ Len(globalQueue) \in Nat \ {0}
      /\ Head(globalQueue) = globalQueue[1]
      /\ \A i \in 1..Len(globalQueue') : globalQueue'[i] = globalQueue[i + 1]
  BY DEF TypeOK
<1>2. ASSUME NEW t \in Tids, Queued(t)' PROVE Queued(t)
  <2>1. PICK i \in 1..Len(globalQueue') : globalQueue'[i] = t
    BY <1>2 DEF Queued
  <2>2. i + 1 \in 1..Len(globalQueue) /\ globalQueue[i + 1] = t
    BY <1>1, <2>1
  <2> QED BY <2>2 DEF Queued
<1>3. ASSUME NEW t \in Tids, t = Head(globalQueue) PROVE Queued(t)
  BY <1>1, <1>3 DEF Queued
<1> QED BY <1>2, <1>3, PopFacts, IdFacts

\* Where a step leaves every thread as scheduled and as alarmed as it was, it
\* is a stutter for those who only look at that.
LEMMA LooksTheSame ==
  ASSUME state' = state, \A t \in Tids : (Scheduled(t)' <=> Scheduled(t)) /\ (Alarmed(t)' <=> Alarmed(t))
  PROVE  UNCHANGED <<state, ScheduledTids, AlarmedTids>>
BY DEF ScheduledTids, AlarmedTids

\* The steps of the loop: a wake-up, a slice, or a stutter.
LEMMA LoopImplements ==
  ASSUME TypeOK, RunLoop
  PROVE  [Promised!ThreadsNext]_(Promised!threadVars)
<1> USE DEF LGoto, queues, io, locks, loopVars, clientVars, Promised!threadVars
<1>1. CASE LockSleep \/ ExpireDone \/ Event \/ PollDone \/ ClearCurrent \/ Round
  <2>1. \A t \in Tids : (Scheduled(t)' <=> Scheduled(t)) /\ (Alarmed(t)' <=> Alarmed(t))
    BY <1>1 DEF LockSleep, ExpireDone, Event, PollDone, ClearCurrent, Round, Scheduled, Alarmed, Queued
  <2> QED BY <1>1, <2>1, LooksTheSame DEF LockSleep, ExpireDone, Event, PollDone, ClearCurrent, Round
<1>2. CASE Expire
  <2>1. PICK e \in due : sleepQueue' = sleepQueue \ {e} /\ ltid' = e[1] /\ lpc' = "expireWake"
    BY <1>2 DEF Expire
  <2>2. e \in sleepQueue /\ e \in Ids \X Clients /\ lpc = "expire" /\ UNCHANGED <<state, globalQueue, cpc, ctid>>
    BY <1>2, <2>1 DEF Expire, TypeOK
  <2>3. \A t \in Tids : Scheduled(t)' <=> Scheduled(t)
    BY <2>1, <2>2 DEF Scheduled, Queued
  <2>4. \A t \in Tids : Alarmed(t)' <=> Alarmed(t)
    BY <2>1, <2>2 DEF Alarmed
  <2> QED BY <2>2, <2>3, <2>4, LooksTheSame
<1>3. CASE LoopWake
  <2>1. \A t \in Tids : Scheduled(t)' <=> Scheduled(t) \/ t = ltid
    BY <1>3 DEF LoopWake, Scheduled, Queued
  <2>2. \A t \in Tids : Alarmed(t)' <=> Alarmed(t) /\ (t = ltid => Alarmed(t)')
    BY <1>3 DEF LoopWake, Alarmed
  <2>3. CASE ltid \notin Tids
    BY <1>3, <2>1, <2>2, <2>3, LooksTheSame DEF LoopWake, Woken, Known
  <2>4. CASE ltid \in Tids
    <3>1. ScheduledTids' = ScheduledTids \cup {ltid}
      BY <2>1, <2>4 DEF ScheduledTids
    <3>2. AlarmedTids' \in {AlarmedTids, AlarmedTids \ {ltid}}
      BY <2>2, <2>4 DEF AlarmedTids
    <3>3. Promised!Wake(ltid) \/ Promised!WakeInVain(ltid)
      BY <1>3, <2>4, <3>1, <3>2 DEF LoopWake, Woken, Known, Promised!Wake, Promised!WakeInVain, Promised!Becomes
    <3> QED BY <2>4, <3>3 DEF Promised!ThreadsNext
  <2> QED BY <2>3, <2>4
<1>4. CASE LoopPush
  <2>1. PICK x \in Ids : x = ltid
    BY DEF TypeOK
  <2>2. \A t \in Tids : Queued(t)' <=> Queued(t) \/ t = ltid
    BY <1>4, <2>1, QueueGrows DEF LoopPush
  <2>3. \A t \in Tids : t # NoThread
    BY TidsAssumption
  <2>4. \A t \in Tids : (Scheduled(t)' <=> Scheduled(t)) /\ (Alarmed(t)' <=> Alarmed(t))
    BY <1>4, <2>2, <2>3 DEF LoopPush, Scheduled, Alarmed
  <2> QED BY <1>4, <2>4, LooksTheSame DEF LoopPush
<1>5. CASE Dispatch
  <2>1. \A t \in Tids : Queued(t) <=> Queued(t)' \/ t = Head(globalQueue)
    BY <1>5, QueueShrinks DEF Dispatch
  <2>2. \A t \in Tids : (Scheduled(t)' <=> Scheduled(t)) /\ (Alarmed(t)' <=> Alarmed(t))
    BY <1>5, <2>1 DEF Dispatch, Scheduled, Alarmed
  <2> QED BY <1>5, <2>2, LooksTheSame DEF Dispatch
<1>6. CASE MarkRunning
  <2>1. \A t \in Tids : Scheduled(t)' <=> Scheduled(t) /\ (t = ltid => Scheduled(t)')
    BY <1>6 DEF MarkRunning, Scheduled, Queued
  <2>2. \A t \in Tids : Alarmed(t)' <=> Alarmed(t)
    BY <1>6 DEF MarkRunning, Alarmed
  <2>3. AlarmedTids' = AlarmedTids
    BY <2>2 DEF AlarmedTids
  <2>4. CASE ltid \notin Tids
    BY <1>6, <2>1, <2>2, <2>4, LooksTheSame DEF MarkRunning, Known
  <2>5. CASE ltid \in Tids
    <3>1. ScheduledTids' \in {ScheduledTids, ScheduledTids \ {ltid}}
      BY <2>1, <2>5 DEF ScheduledTids
    <3>2. CASE state[ltid] = "runnable"
      <4>1. ltid \in ScheduledTids
        BY <1>6, <2>5 DEF MarkRunning, ScheduledTids, Scheduled
      <4>2. Promised!Run(ltid)
        BY <1>6, <2>3, <2>5, <3>1, <3>2, <4>1 DEF MarkRunning, Known, Promised!Run, Promised!Becomes
      <4> QED BY <2>5, <4>2 DEF Promised!ThreadsNext
    <3>3. CASE state[ltid] # "runnable"
      <4>1. state' = state
        BY <1>6, <3>3 DEF MarkRunning
      <4>2. CASE ScheduledTids' = ScheduledTids
        BY <2>3, <4>1, <4>2
      <4>3. CASE ScheduledTids' = ScheduledTids \ {ltid}
        BY <2>3, <2>5, <3>3, <4>1, <4>3 DEF Promised!RunNothing, Promised!ThreadsNext
      <4> QED BY <3>1, <4>2, <4>3
    <3> QED BY <3>2, <3>3
  <2> QED BY <2>4, <2>5
<1> QED BY <1>1, <1>2, <1>3, <1>4, <1>5, <1>6 DEF RunLoop

\* The steps of a client: its thread is spawned, woken, blocked or put to
\* sleep, or nothing is to be seen.
LEMMA ClientImplements ==
  ASSUME TypeOK, SpawnedOnce, NEW c \in Clients, Call(c) \/ Proceed(c)
  PROVE  [Promised!ThreadsNext]_(Promised!threadVars)
<1> USE DEF Begin, CGoto, CFor, Done, queues, io, locks, loopVars, clientVars, Promised!threadVars
<1> DEFINE t == ctid[c]
<1>1. /\ UNCHANGED <<lpc, ltid>>
      /\ \A d \in Clients \ {c} : cpc'[d] = cpc[d] /\ ctid'[d] = ctid[d]
  BY DEF Call, Proceed, Spawn, Park, Unpark, Join, Sleep, BlockOnIo, Insert, SpawnPush, Block, Wake, Push,
         JoinRound, MarkSleeping, SleepPush, RegisterIo, IoPark, TypeOK
<1>2. t \in Ids /\ \A u \in Tids : u # NoThread
  BY TidsAssumption DEF TypeOK
<1>3. CASE Call(c) \/ JoinRound(c) \/ RegisterIo(c) \/ IoPark(c)
  <2>1. /\ UNCHANGED <<state, globalQueue, sleepQueue>>
        /\ cpc[c] \notin {"spawnPush", "push", "sleepPush"}
        /\ cpc'[c] \notin {"spawnPush", "push", "sleepPush"}
    BY <1>3 DEF Call, Spawn, Park, Unpark, Join, Sleep, BlockOnIo, JoinRound, RegisterIo, IoPark, TypeOK
  <2>2. \A u \in Tids : Scheduled(u)' <=> Scheduled(u)
    BY <1>1, <2>1 DEF Scheduled, Queued
  <2>3. \A u \in Tids : Alarmed(u)' <=> Alarmed(u)
    BY <1>1, <2>1 DEF Alarmed
  <2> QED BY <2>1, <2>2, <2>3, LooksTheSame
<1>4. CASE Block(c)
  <2>1. /\ UNCHANGED <<globalQueue, sleepQueue>> /\ state' = Blocked(t)
        /\ cpc[c] \notin {"spawnPush", "push", "sleepPush"}
        /\ cpc'[c] \notin {"spawnPush", "push", "sleepPush"}
    BY <1>4 DEF Block, TypeOK
  <2>2. \A u \in Tids : Scheduled(u)' <=> Scheduled(u)
    BY <1>1, <2>1 DEF Scheduled, Queued
  <2>3. \A u \in Tids : Alarmed(u)' <=> Alarmed(u)
    BY <1>1, <2>1 DEF Alarmed
  <2>4. CASE ~Known(t)
    BY <2>1, <2>2, <2>3, <2>4, LooksTheSame DEF Blocked
  <2>5. CASE Known(t)
    <3>1. UNCHANGED <<ScheduledTids, AlarmedTids>>
      BY <2>2, <2>3 DEF ScheduledTids, AlarmedTids
    <3>2. t \in Tids /\ Promised!Block(t)
      BY <2>1, <2>5, <3>1 DEF Blocked, Known, Promised!Block, Promised!Becomes
    <3> QED BY <3>2 DEF Promised!ThreadsNext
  <2> QED BY <2>4, <2>5
<1>5. CASE Insert(c) \/ Wake(c)
  <2>1. /\ UNCHANGED <<globalQueue, sleepQueue>> /\ ctid' = ctid
        /\ cpc[c] \notin {"spawnPush", "push", "sleepPush"}
        /\ cpc'[c] \in {"spawnPush", "push"}
    BY <1>5 DEF Insert, Wake, TypeOK
  <2>2. \A u \in Tids : Scheduled(u)' <=> Scheduled(u) \/ u = t
    BY <1>1, <2>1 DEF Scheduled, Queued
  <2>3. \A u \in Tids : Alarmed(u)' <=> Alarmed(u)
    BY <1>1, <2>1 DEF Alarmed
  <2>4. AlarmedTids' = AlarmedTids
    BY <2>3 DEF AlarmedTids
  <2>5. t \in Tids => ScheduledTids' = ScheduledTids \cup {t}
    BY <2>2 DEF ScheduledTids
  <2>6. CASE Insert(c)
    <3>1. t \in Tids /\ state[t] = "absent" /\ state' = [state EXCEPT ![t] = "runnable"]
      BY <2>6 DEF Insert, SpawnedOnce
    <3>2. Promised!Spawn(t)
      BY <2>4, <2>5, <3>1 DEF Promised!Spawn, Promised!Becomes
    <3> QED BY <3>1, <3>2 DEF Promised!ThreadsNext
  <2>7. CASE Wake(c) /\ t \notin Tids
    BY <2>2, <2>3, <2>7, LooksTheSame DEF Wake, Woken, Known
  <2>8. CASE Wake(c) /\ t \in Tids
    <3>1. Promised!Wake(t) \/ Promised!WakeInVain(t)
      BY <2>4, <2>5, <2>8 DEF Wake, Woken, Known, Promised!Wake, Promised!WakeInVain, Promised!Becomes
    <3> QED BY <2>8, <3>1 DEF Promised!ThreadsNext
  <2> QED BY <1>5, <2>6, <2>7, <2>8
<1>6. CASE SpawnPush(c) \/ Push(c)
  <2>1. /\ UNCHANGED <<state, sleepQueue>> /\ globalQueue' = Append(globalQueue, t)
        /\ cpc[c] \in {"spawnPush", "push"} /\ cpc'[c] = "idle"
    BY <1>6 DEF SpawnPush, Push, TypeOK
  <2>2. \A u \in Tids : Queued(u)' <=> Queued(u) \/ u = t
    BY <1>2, <2>1, QueueGrows
  <2>3. \A u \in Tids : Scheduled(u)' <=> Scheduled(u)
    BY <1>1, <2>1, <2>2 DEF Scheduled
  <2>4. \A u \in Tids : Alarmed(u)' <=> Alarmed(u)
    BY <1>1, <2>1 DEF Alarmed
  <2> QED BY <2>1, <2>3, <2>4, LooksTheSame
<1>7. CASE MarkSleeping(c)
  <2>1. /\ UNCHANGED <<globalQueue, sleepQueue>> /\ ctid' = ctid
        /\ cpc[c] \notin {"spawnPush", "push", "sleepPush"} /\ cpc'[c] = "sleepPush"
        /\ state' = IF Known(t) THEN [state EXCEPT ![t] = "sleeping"] ELSE state
    BY <1>7 DEF MarkSleeping, TypeOK
  <2>2. \A u \in Tids : Scheduled(u)' <=> Scheduled(u)
    BY <1>1, <2>1 DEF Scheduled, Queued
  <2>3. \A u \in Tids : Alarmed(u)' <=> Alarmed(u) \/ u = t
    BY <1>1, <2>1 DEF Alarmed
  <2>4. ScheduledTids' = ScheduledTids
    BY <2>2 DEF ScheduledTids
  <2>5. CASE t \notin Tids
    BY <2>1, <2>2, <2>3, <2>5, LooksTheSame DEF Known
  <2>6. CASE t \in Tids
    <3>1. AlarmedTids' = AlarmedTids \cup {t}
      BY <2>3, <2>6 DEF AlarmedTids
    <3>2. Promised!Sleep(t) \/ Promised!SleepInVain(t)
      BY <2>1, <2>4, <2>6, <3>1 DEF Known, Promised!Sleep, Promised!SleepInVain, Promised!Becomes
    <3> QED BY <2>6, <3>2 DEF Promised!ThreadsNext
  <2> QED BY <2>5, <2>6
<1>8. CASE SleepPush(c)
  <2>1. /\ UNCHANGED <<state, globalQueue>> /\ sleepQueue' = sleepQueue \cup {<<t, c>>}
        /\ cpc[c] = "sleepPush" /\ cpc'[c] = "idle"
    BY <1>8 DEF SleepPush, TypeOK
  <2>2. \A u \in Tids : Scheduled(u)' <=> Scheduled(u)
    BY <1>1, <2>1 DEF Scheduled, Queued
  <2>3. \A u \in Tids : Alarmed(u)' <=> Alarmed(u)
    BY <1>1, <2>1 DEF Alarmed
  <2> QED BY <2>1, <2>2, <2>3, LooksTheSame
<1> QED BY <1>3, <1>4, <1>5, <1>6, <1>7, <1>8 DEF Proceed

\* Scheduler's loop, clients, locks and queues implement the promise: threads
\* are spawned once, become runnable only together with being scheduled, run
\* only from there, and sleep only with an alarm.
THEOREM SchedulerImplementsThreads == Spec => Promised!ThreadsSpec
<1>1. ASSUME Init PROVE Promised!ThreadsInit /\ SpawnedOnce
  <2>1. \A t \in Tids : Scheduled(t) <=> state[t] = "runnable"
    <3>1. SchedInv
      BY <1>1, SchedInit
    <3>2. \A t \in Tids : Queued(t) => t \in Spawned
      <4>1. globalQueue \in [1..Cardinality(Spawned) -> Spawned] /\ Cardinality(Spawned) \in Nat
        BY <1>1, TidsAssumption, FS_CardinalityType DEF Init
      <4> QED BY <4>1 DEF Queued
    <3> QED BY <1>1, <3>1, <3>2 DEF Init, Scheduled, SchedInv, RunnableIsQueued
  <2>2. \A t \in Tids : ~Alarmed(t)
    BY <1>1 DEF Init, Alarmed
  <2>3. ScheduledTids = {t \in Tids : state[t] = "runnable"} /\ AlarmedTids = {}
    BY <2>1, <2>2 DEF ScheduledTids, AlarmedTids
  <2>4. SpawnedOnce
    BY <1>1 DEF Init, SpawnedOnce
  <2> QED BY <1>1, <2>3, <2>4 DEF Init, Promised!ThreadsInit
<1>2. ASSUME SchedInv, SpawnedOnce, [Next]_vars PROVE [Promised!ThreadsNext]_(Promised!threadVars)
  <2>1. CASE Deadline \/ Readable \/ UNCHANGED vars
    <3>1. \A t \in Tids : (Scheduled(t)' <=> Scheduled(t)) /\ (Alarmed(t)' <=> Alarmed(t))
      BY <2>1 DEF Deadline, Readable, vars, queues, io, locks, loopVars, clientVars, Scheduled, Alarmed, Queued
    <3> QED BY <2>1, <3>1, LooksTheSame DEF Deadline, Readable, vars, Promised!threadVars
  <2> QED BY <1>2, <2>1, LoopImplements, ClientImplements DEF SchedInv, Next
<1>3. SchedInv => TypeOK
  BY DEF SchedInv
<1> QED BY <1>1, <1>2, <1>3, SchedInit, SchedStep, SpawnStep, PTL DEF Spec, Promised!ThreadsSpec
=============================================================================
