---------------------------- MODULE RubyQueueProofs ----------------------------
(***************************************************************************)
(* RubyQueue keeps to its capacity, only drains once closed, and           *)
(* implements ClosableFifo, for any clients, items and capacity.  The      *)
(* invariant behind all three is that a client on its way to append        *)
(* carries an item (CarriesItem); capacity and order hold because the      *)
(* checks and the append are made under one acquisition of `inner`.        *)
(***************************************************************************)
EXTENDS RubyQueue, TLAPS

\* A client inside a blocking push carries the item it was called with.
CarriesItem == \A c \in Clients : pc[c] \in Pushing => arg[c] \in Items

\* The inductive invariant.
QueueInv == TypeOK /\ CarriesItem /\ CapacityRespected

\* Taking the first item leaves a shorter queue of items and hands out an item.
LEMMA TakeFacts ==
  ASSUME TypeOK, items # <<>>
  PROVE  /\ Head(items) \in Items
         /\ Tail(items) \in Seq(Items)
         /\ Len(Tail(items)) = Len(items) - 1
         /\ Len(items) \in Nat
  BY DEF TypeOK

\* Appending one item where there is room stays within the capacity.
LEMMA AppendFacts ==
  ASSUME TypeOK, HasRoom, NEW v \in Items
  PROVE  /\ Append(items, v) \in Seq(Items)
         /\ MaxSize # NoLimit => Len(Append(items, v)) <= MaxSize
  BY MaxSizeAssumption DEF TypeOK, HasRoom

\* A client that takes an item and goes on to signal, whatever it called.
LEMMA TakeStep ==
  ASSUME QueueInv, NEW c \in Clients, Take(c), UNCHANGED <<closed, sendWaiters, arg, fresh>>
  PROVE  QueueInv'
<1>1. /\ Head(items) \in Items /\ Tail(items) \in Seq(Items)
      /\ Len(Tail(items)) = Len(items) - 1 /\ Len(items) \in Nat
  BY TakeFacts DEF QueueInv, Take
<1>2. TypeOK'
  BY <1>1 DEF QueueInv, Take, Answer, Goto, TypeOK
<1>3. CarriesItem'
  BY DEF QueueInv, Take, Goto, TypeOK, CarriesItem, Pushing
<1>4. CapacityRespected'
  BY <1>1, MaxSizeAssumption DEF QueueInv, Take, CapacityRespected
<1> QED BY <1>2, <1>3, <1>4 DEF QueueInv

\* A client that finds the queue empty and gives up.
LEMMA GiveUpStep ==
  ASSUME QueueInv, NEW c \in Clients, NEW a \in Answers, GiveUp(c, a),
         UNCHANGED <<closed, sendWaiters, arg, fresh>>
  PROVE  QueueInv'
<1>1. TypeOK'
  BY DEF QueueInv, GiveUp, Answer, Goto, TypeOK
<1>2. CarriesItem'
  BY DEF QueueInv, GiveUp, Goto, TypeOK, CarriesItem, Pushing
<1>3. CapacityRespected'
  BY DEF QueueInv, GiveUp, CapacityRespected
<1> QED BY <1>1, <1>2, <1>3 DEF QueueInv

\* A round of push() under the lock.
LEMMA PushLockedStep ==
  ASSUME QueueInv, NEW c \in Clients, PushLocked(c)
  PROVE  QueueInv'
<1>1. arg[c] \in Items /\ TypeOK
  BY DEF QueueInv, PushLocked, CarriesItem, Pushing
<1>2. CASE closed
  <2>1. TypeOK'
    BY <1>2 DEF PushLocked, QueueInv, Answer, Goto, TypeOK, Answers
  <2>2. CarriesItem'
    BY <1>2 DEF PushLocked, QueueInv, Goto, TypeOK, CarriesItem, Pushing
  <2> QED BY <1>2, <2>1, <2>2 DEF PushLocked, QueueInv, CapacityRespected
<1>3. CASE ~closed /\ ~HasRoom
  <2>1. TypeOK'
    BY <1>3 DEF PushLocked, QueueInv, Goto, TypeOK, Pushing
  <2>2. CarriesItem'
    BY <1>1, <1>3 DEF PushLocked, QueueInv, Goto, TypeOK, CarriesItem
  <2> QED BY <1>3, <2>1, <2>2 DEF PushLocked, QueueInv, CapacityRespected
<1>4. CASE ~closed /\ HasRoom
  <2>1. items' = Append(items, arg[c])
    BY <1>4 DEF PushLocked
  <2>2. items' \in Seq(Items) /\ (MaxSize # NoLimit => Len(items') <= MaxSize)
    BY <1>1, <1>4, <2>1, AppendFacts
  <2>3. TypeOK'
    BY <1>4, <2>2 DEF PushLocked, QueueInv, Answer, Goto, TypeOK, Answers
  <2>4. CarriesItem'
    BY <1>4 DEF PushLocked, QueueInv, Goto, TypeOK, CarriesItem, Pushing
  <2> QED BY <2>2, <2>3, <2>4 DEF QueueInv, CapacityRespected
<1> QED BY <1>2, <1>3, <1>4

\* try_push: refused, full, or appended.
LEMMA TryPushStep ==
  ASSUME QueueInv, NEW c \in Clients, TryPush(c)
  PROVE  QueueInv'
<1>1. PICK v \in fresh :
        /\ fresh' = fresh \ {v}
        /\ \/ closed /\ Answer(c, "closed") /\ UNCHANGED <<items, pc>>
           \/ ~closed /\ ~HasRoom /\ Answer(c, "full") /\ UNCHANGED <<items, pc>>
           \/ /\ ~closed /\ HasRoom
              /\ items' = Append(items, v)
              /\ Answer(c, "ok")
              /\ Goto(c, "signalRecv")
  BY DEF TryPush
<1>2. /\ v \in Items /\ fresh' \in SUBSET Items /\ TypeOK
      /\ UNCHANGED <<closed, sendWaiters, arg, delivered>>
  BY <1>1 DEF QueueInv, TypeOK, TryPush
<1>3. CASE UNCHANGED <<items, pc>>
  <2>1. res' \in [Clients -> Items \cup Answers]
    BY <1>1, <1>2 DEF Answer, Answers, TypeOK
  <2> QED BY <1>2, <1>3, <2>1 DEF QueueInv, TypeOK, CarriesItem, CapacityRespected
<1>4. CASE HasRoom /\ items' = Append(items, v) /\ Answer(c, "ok") /\ Goto(c, "signalRecv")
  <2>1. items' \in Seq(Items) /\ (MaxSize # NoLimit => Len(items') <= MaxSize)
    BY <1>2, <1>4, AppendFacts
  <2>2. TypeOK'
    BY <1>2, <1>4, <2>1 DEF Answer, Goto, TypeOK, Answers
  <2>3. CarriesItem'
    BY <1>2, <1>4 DEF QueueInv, Goto, TypeOK, CarriesItem, Pushing
  <2> QED BY <2>1, <2>2, <2>3 DEF QueueInv, CapacityRespected
<1> QED BY <1>1, <1>3, <1>4

\* Every step of the queue preserves the invariant.
LEMMA QueueStep == QueueInv /\ [Next]_vars => QueueInv'
<1> SUFFICES ASSUME QueueInv, [Next]_vars PROVE QueueInv'
  OBVIOUS
<1>1. CASE UNCHANGED vars
  BY <1>1 DEF vars, QueueInv, TypeOK, CarriesItem, CapacityRespected
<1>2. ASSUME NEW c \in Clients, Call(c) PROVE QueueInv'
  <2>1. CASE Push(c)
    <3>1. PICK v \in fresh : arg' = [arg EXCEPT ![c] = v] /\ fresh' = fresh \ {v}
      BY <2>1 DEF Push
    <3>2. v \in Items
      BY DEF QueueInv, TypeOK
    <3>3. TypeOK'
      BY <2>1, <3>1, <3>2 DEF Push, QueueInv, TypeOK, Goto, Answer, Pushing, Answers
    <3>4. CarriesItem'
      BY <2>1, <3>1, <3>2 DEF Push, QueueInv, TypeOK, Goto, CarriesItem
    <3> QED BY <2>1, <3>3, <3>4 DEF Push, QueueInv, CapacityRespected
  <2>2. CASE TryPush(c)
    BY <2>2, TryPushStep
  <2>3. CASE Pop(c)
    <3>1. PICK l \in Popping : pc' = [pc EXCEPT ![c] = l]
      BY <2>3 DEF Pop, Goto
    <3>2. TypeOK'
      BY <2>3, <3>1 DEF Pop, QueueInv, TypeOK, Answer, Answers
    <3>3. CarriesItem'
      BY <2>3, <3>1 DEF Pop, QueueInv, TypeOK, CarriesItem, Popping, Pushing
    <3> QED BY <2>3, <3>2, <3>3 DEF Pop, QueueInv, CapacityRespected
  <2>4. CASE TryPop(c)
    BY <2>4, TakeStep, GiveUpStep DEF TryPop, Answers
  <2>5. CASE Close(c)
    <3>1. TypeOK'
      BY <2>5 DEF Close, QueueInv, TypeOK, Goto, Answer, Answers
    <3>2. CarriesItem'
      BY <2>5 DEF Close, QueueInv, TypeOK, Goto, CarriesItem, Pushing
    <3> QED BY <2>5, <3>1, <3>2 DEF Close, QueueInv, CapacityRespected
  <2> QED BY <1>2, <2>1, <2>2, <2>3, <2>4, <2>5 DEF Call
<1>3. ASSUME NEW c \in Clients, Proceed(c) PROVE QueueInv'
  <2>1. CASE PushLocked(c)
    BY <2>1, PushLockedStep
  <2>2. CASE PushWait(c)
    <3>1. sendWaiters' \in Seq(Clients)
      BY <2>2 DEF PushWait, QueueInv, TypeOK
    <3>2. TypeOK'
      BY <2>2, <3>1 DEF PushWait, QueueInv, TypeOK, Goto, Pushing
    <3>3. CarriesItem'
      BY <2>2 DEF PushWait, QueueInv, TypeOK, Goto, CarriesItem, Pushing
    <3> QED BY <2>2, <3>2, <3>3 DEF PushWait, QueueInv, CapacityRespected
  <2>3. CASE SignalRecv(c)
    BY <2>3 DEF SignalRecv, QueueInv, TypeOK, Goto, CarriesItem, Pushing, CapacityRespected
  <2>4. CASE PopLocked(c)
    BY <2>4, TakeStep, GiveUpStep DEF PopLocked, Answers
  <2>5. CASE PopTimed(c)
    BY <2>5, TakeStep, GiveUpStep DEF PopTimed, Answers
  <2>6. CASE SignalSend(c)
    <3>1. sendWaiters' \in Seq(Clients)
      BY <2>6 DEF SignalSend, QueueInv, TypeOK
    <3> QED BY <2>6, <3>1
            DEF SignalSend, QueueInv, TypeOK, Goto, CarriesItem, Pushing, CapacityRespected
  <2>7. CASE Broadcast(c)
    BY <2>7 DEF Broadcast, QueueInv, TypeOK, Goto, CarriesItem, Pushing, CapacityRespected
  <2> QED BY <1>3, <2>1, <2>2, <2>3, <2>4, <2>5, <2>6, <2>7 DEF Proceed
<1> QED BY <1>1, <1>2, <1>3 DEF Next

\* The queue starts with the invariant.
LEMMA QueueInit == Init => QueueInv
<1> SUFFICES ASSUME Init PROVE QueueInv
  OBVIOUS
<1>1. TypeOK /\ CarriesItem
  <2>0. closed \in BOOLEAN
    BY DEF Init
  <2>1. items \in Seq(Items) /\ sendWaiters \in Seq(Clients)
    BY DEF Init
  <2>2. /\ pc \in [Clients -> Pushing \cup Popping
                                 \cup {"idle", "signalRecv", "signalSend", "broadcast"}]
        /\ arg \in [Clients -> Items \cup {"pending"}]
        /\ res \in [Clients -> Items \cup Answers]
    BY DEF Init, Answers
  <2>3. CarriesItem
    BY DEF Init, CarriesItem, Pushing
  <2> QED BY <2>0, <2>1, <2>2, <2>3 DEF Init, TypeOK
<1>2. Len(items) = 0
  BY DEF Init
<1>3. CapacityRespected
  BY <1>2, MaxSizeAssumption DEF CapacityRespected
<1> QED BY <1>1, <1>3 DEF QueueInv

\* The items, the closed flag and the waiters keep their types, and every
\* client is at a step of a call.
THEOREM QueueTypeCorrect == Spec => []TypeOK
<1>1. QueueInv => TypeOK
  BY DEF QueueInv
<1> QED BY <1>1, QueueInit, QueueStep, PTL DEF Spec

\* A bounded queue never holds more items than its capacity, whatever pushes
\* waited for room and raced for it.
THEOREM CapacityHolds == Spec => []CapacityRespected
<1>1. QueueInv => CapacityRespected
  BY DEF QueueInv
<1> QED BY <1>1, QueueInit, QueueStep, PTL DEF Spec

-----------------------------------------------------------------------------
(* What a step does to the items, the closed flag and the answers *)

\* Every step is a step of the closable FIFO queue, or leaves it alone.
LEMMA FifoStep == QueueInv /\ [Next]_vars => [Fifo!FifoNext]_(Fifo!fifoVars)
<1> SUFFICES ASSUME QueueInv, [Next]_vars PROVE [Fifo!FifoNext]_(Fifo!fifoVars)
  OBVIOUS
<1> USE DEF Answer, Fifo!Answer, Fifo!fifoVars
<1>1. CASE UNCHANGED vars
  BY <1>1 DEF vars
<1>2. ASSUME NEW c \in Clients, Take(c), UNCHANGED closed PROVE Fifo!FifoNext
  BY <1>2 DEF Take, Fifo!Deliver, Fifo!FifoNext
<1>3. ASSUME NEW c \in Clients, Call(c) PROVE [Fifo!FifoNext]_(Fifo!fifoVars)
  <2>1. CASE Push(c)
    BY <2>1 DEF Push, Fifo!Begin, Fifo!FifoNext
  <2>2. CASE TryPush(c)
    <3>1. PICK v \in fresh :
            \/ closed /\ Answer(c, "closed") /\ UNCHANGED <<items, pc>>
            \/ ~closed /\ ~HasRoom /\ Answer(c, "full") /\ UNCHANGED <<items, pc>>
            \/ ~closed /\ HasRoom /\ items' = Append(items, v) /\ Answer(c, "ok")
      BY <2>2 DEF TryPush
    <3>2. v \in Items /\ UNCHANGED closed
      BY <2>2 DEF TryPush, QueueInv, TypeOK
    <3>3. Fifo!Reject(c) \/ Fifo!Accept(c)
      BY <3>1, <3>2 DEF Fifo!Reject, Fifo!Accept, HasRoom, Fifo!HasRoom
    <3> QED BY <3>3 DEF Fifo!FifoNext
  <2>3. CASE Pop(c)
    BY <2>3 DEF Pop, Fifo!Begin, Fifo!FifoNext
  <2>4. CASE TryPop(c)
    <3>1. CASE Take(c)
      BY <1>2, <2>4, <3>1 DEF TryPop
    <3>2. CASE GiveUp(c, "empty")
      BY <2>4, <3>2 DEF TryPop, GiveUp, Fifo!Reject, Fifo!FifoNext
    <3> QED BY <2>4, <3>1, <3>2 DEF TryPop
  <2>5. CASE Close(c)
    BY <2>5 DEF Close, Fifo!DoClose, Fifo!FifoNext
  <2> QED BY <1>3, <2>1, <2>2, <2>3, <2>4, <2>5 DEF Call
<1>4. ASSUME NEW c \in Clients, Proceed(c) PROVE [Fifo!FifoNext]_(Fifo!fifoVars)
  <2>1. CASE PushLocked(c)
    <3>1. arg[c] \in Items /\ UNCHANGED closed
      BY <2>1 DEF QueueInv, PushLocked, CarriesItem, Pushing
    <3>2. CASE closed
      BY <2>1, <3>1, <3>2 DEF PushLocked, Fifo!Reject, Fifo!FifoNext
    <3>3. CASE ~closed /\ ~HasRoom
      BY <2>1, <3>1, <3>3 DEF PushLocked
    <3>4. CASE ~closed /\ HasRoom
      <4>1. Fifo!Accept(c)
        BY <2>1, <3>1, <3>4 DEF PushLocked, Fifo!Accept, HasRoom, Fifo!HasRoom
      <4> QED BY <4>1 DEF Fifo!FifoNext
    <3> QED BY <3>2, <3>3, <3>4
  <2>2. CASE PopLocked(c)
    <3>1. CASE Take(c)
      BY <1>2, <2>2, <3>1 DEF PopLocked
    <3>2. CASE closed /\ GiveUp(c, "none")
      BY <2>2, <3>2 DEF PopLocked, GiveUp, Fifo!Reject, Fifo!FifoNext
    <3> QED BY <2>2, <3>1, <3>2 DEF PopLocked
  <2>3. CASE PopTimed(c)
    <3>1. CASE Take(c)
      BY <1>2, <2>3, <3>1 DEF PopTimed
    <3>2. CASE GiveUp(c, "empty")
      BY <2>3, <3>2 DEF PopTimed, GiveUp, Fifo!Reject, Fifo!FifoNext
    <3> QED BY <2>3, <3>1, <3>2 DEF PopTimed
  <2>4. CASE PushWait(c) \/ SignalRecv(c) \/ SignalSend(c) \/ Broadcast(c)
    BY <2>4 DEF PushWait, SignalRecv, SignalSend, Broadcast
  <2> QED BY <1>4, <2>1, <2>2, <2>3, <2>4 DEF Proceed
<1> QED BY <1>1, <1>3, <1>4 DEF Next

\* RubyQueue implements ClosableFifo: every behaviour of its locked rounds,
\* waits, signals and timeouts answers the clients as an atomic FIFO queue.
THEOREM QueueImplementsFifo == Spec => ImplementsFifo
<1>1. Init => Fifo!FifoInit
  BY DEF Init, Fifo!FifoInit
<1> QED BY <1>1, QueueInit, QueueStep, FifoStep, PTL DEF Spec, ImplementsFifo, Fifo!FifoSpec

\* A step of a closed FIFO queue removes the first item or nothing.
LEMMA ClosedStep ==
  [Fifo!FifoNext]_(Fifo!fifoVars) =>
    (closed => closed' /\ (items' = items \/ items' = Tail(items)))
  BY DEF Fifo!FifoNext, Fifo!fifoVars, Fifo!Begin, Fifo!Accept, Fifo!Reject, Fifo!Deliver,
         Fifo!DoClose

\* A closed queue only drains: it stays closed, and no push that was waiting
\* when close() ran adds to it.
THEOREM ClosedQueueDrains == Spec => ClosedOnlyDrains
<1>1. QueueInv /\ [Next]_vars =>
        [closed => closed' /\ (items' = items \/ items' = Tail(items))]_vars
  BY FifoStep, ClosedStep
<1> QED BY <1>1, QueueInit, QueueStep, PTL DEF Spec, ClosedOnlyDrains
=============================================================================
