------------------------------ MODULE RubyQueue ------------------------------
(***************************************************************************)
(* RubyQueue of jdruby-runtime/src/stdlib/thread_ext.rs.                   *)
(*                                                                         *)
(* `inner` is a std mutex around the items, the closed flag and the        *)
(* capacity; what a call does between inner.lock() and drop(state) is one  *)
(* step.  The signals, the broadcast of close() and the wait of a full     *)
(* push happen outside that lock and are steps of their own.  pop() never  *)
(* queues itself on recv_cond, so that queue is always empty and left out. *)
(***************************************************************************)
EXTENDS Naturals, Sequences

CONSTANTS Clients,     \* the threads that call the queue
          Items,       \* the items; each is moved into at most one push
          MaxSize,     \* QueueState.max_size: Some(MaxSize), or NoLimit for None
          NoLimit,
          MaxWaiters   \* length up to which send_cond's queue is kept

ASSUME MaxSizeAssumption == MaxSize \in Nat \cup {NoLimit}
ASSUME NoLimitAssumption == NoLimit \notin Nat
ASSUME ItemsAssumption ==
         Items \cap {"pending", "ok", "closed", "full", "none", "empty"} = {}
ASSUME MaxWaitersAssumption == MaxWaiters \in Nat \ {0}

VARIABLES items, closed,  \* QueueState
          sendWaiters,    \* send_cond.waiters
          pc,             \* where each client is inside its call
          arg,            \* the item a blocking push carries
          res,            \* the answer to each client's last call
          fresh,          \* items nobody has pushed yet
          delivered       \* history: items handed to a client by a pop

vars == <<items, closed, sendWaiters, pc, arg, res, fresh, delivered>>

Answers == {"pending", "ok", "closed", "full", "none", "empty"}
Pushing == {"push", "pushWait", "pushRetry"}
Popping == {"pop", "popTimeout"}

TypeOK ==
  /\ items \in Seq(Items)
  /\ closed \in BOOLEAN
  /\ sendWaiters \in Seq(Clients)
  /\ pc \in [Clients -> Pushing \cup Popping
                          \cup {"idle", "signalRecv", "signalSend", "broadcast"}]
  /\ arg \in [Clients -> Items \cup {"pending"}]
  /\ res \in [Clients -> Items \cup Answers]
  /\ fresh \in SUBSET Items
  /\ delivered \in SUBSET Items

Goto(c, l) == pc' = [pc EXCEPT ![c] = l]
Answer(c, r) == res' = [res EXCEPT ![c] = r]
Contents == {items[i] : i \in 1..Len(items)}

\* Mutant: the comparison is off by one.
HasRoomForOneMore == MaxSize = NoLimit \/ Len(items) <= MaxSize

\* items.len() < max, or no max at all
HasRoom == MaxSize = NoLimit \/ Len(items) < MaxSize

Init ==
  /\ items = <<>>
  /\ closed = FALSE
  /\ sendWaiters = <<>>
  /\ pc = [c \in Clients |-> "idle"]
  /\ arg = [c \in Clients |-> "pending"]
  /\ res = [c \in Clients |-> "pending"]
  /\ fresh = Items
  /\ delivered = {}

-----------------------------------------------------------------------------
(* push and try_push *)

Push(c) ==
  /\ pc[c] = "idle"
  /\ \E v \in fresh : arg' = [arg EXCEPT ![c] = v] /\ fresh' = fresh \ {v}
  /\ Goto(c, "push")
  /\ Answer(c, "pending")
  /\ UNCHANGED <<items, closed, sendWaiters, delivered>>

\* One round of push() under the lock, the first or one after a wait:
\* refused when closed, sent to wait when full, else appended.
PushLocked(c) ==
  /\ pc[c] \in {"push", "pushRetry"}
  /\ \/ /\ closed
        /\ Goto(c, "idle")
        /\ Answer(c, "closed")
        /\ UNCHANGED items
     \/ /\ ~closed /\ ~HasRoom
        /\ Goto(c, "pushWait")
        /\ UNCHANGED <<items, res>>
     \/ /\ ~closed /\ HasRoom
        /\ items' = Append(items, arg[c])
        /\ Goto(c, "signalRecv")
        /\ Answer(c, "ok")
  /\ UNCHANGED <<closed, sendWaiters, arg, fresh, delivered>>

\* Mutant: the item is what is queued on send_cond.
PushWaitItem(c) ==
  /\ pc[c] = "pushWait"
  /\ sendWaiters' = IF Len(sendWaiters) < MaxWaiters
                    THEN Append(sendWaiters, arg[c]) ELSE sendWaiters
  /\ Goto(c, "pushRetry")
  /\ UNCHANGED <<items, closed, arg, res, fresh, delivered>>

\* send_cond.wait() on a mutex made for the purpose: the id is queued, the
\* mutex nobody else knows is released and taken again, nothing blocks.
PushWait(c) ==
  /\ pc[c] = "pushWait"
  /\ sendWaiters' = IF Len(sendWaiters) < MaxWaiters
                    THEN Append(sendWaiters, c) ELSE sendWaiters
  /\ Goto(c, "pushRetry")
  /\ UNCHANGED <<items, closed, arg, res, fresh, delivered>>

\* try_push: the same checks, with an error instead of the wait.
TryPush(c) ==
  /\ pc[c] = "idle"
  /\ \E v \in fresh :
       /\ fresh' = fresh \ {v}
       /\ \/ closed /\ Answer(c, "closed") /\ UNCHANGED <<items, pc>>
          \/ ~closed /\ ~HasRoom /\ Answer(c, "full") /\ UNCHANGED <<items, pc>>
          \/ /\ ~closed /\ HasRoom
             /\ items' = Append(items, v)
             /\ Answer(c, "ok")
             /\ Goto(c, "signalRecv")
  /\ UNCHANGED <<closed, sendWaiters, arg, delivered>>

\* recv_cond.signal(): its queue is always empty.
SignalRecv(c) ==
  /\ pc[c] = "signalRecv"
  /\ Goto(c, "idle")
  /\ UNCHANGED <<items, closed, sendWaiters, arg, res, fresh, delivered>>

-----------------------------------------------------------------------------
(* pop, try_pop and pop_timeout *)

Pop(c) ==
  /\ pc[c] = "idle"
  /\ \E l \in Popping : Goto(c, l)
  /\ Answer(c, "pending")
  /\ UNCHANGED <<items, closed, sendWaiters, arg, fresh, delivered>>

\* Mutant: the newest item is popped.
TakeBack(c) ==
  /\ items # <<>>
  /\ Answer(c, items[Len(items)])
  /\ delivered' = delivered \cup {items[Len(items)]}
  /\ items' = SubSeq(items, 1, Len(items) - 1)
  /\ Goto(c, "signalSend")

\* items.pop_front() gave an item.
Take(c) ==
  /\ items # <<>>
  /\ Answer(c, Head(items))
  /\ delivered' = delivered \cup {Head(items)}
  /\ items' = Tail(items)
  /\ Goto(c, "signalSend")

GiveUp(c, r) ==
  /\ items = <<>>
  /\ Answer(c, r)
  /\ Goto(c, "idle")
  /\ UNCHANGED <<items, delivered>>

\* Mutant: the closed flag is not looked at inside the loop of pop().
PopLockedDeaf(c) ==
  /\ pc[c] = "pop"
  /\ Take(c)
  /\ UNCHANGED <<closed, sendWaiters, arg, fresh>>

\* One round of pop(); on an open and empty queue it only yields.
PopLocked(c) ==
  /\ pc[c] = "pop"
  /\ Take(c) \/ (closed /\ GiveUp(c, "none"))
  /\ UNCHANGED <<closed, sendWaiters, arg, fresh>>

\* One round of pop_timeout(): try_pop, and None once the deadline passed.
\* The closed flag is not consulted.
PopTimed(c) ==
  /\ pc[c] = "popTimeout"
  /\ Take(c) \/ GiveUp(c, "empty")
  /\ UNCHANGED <<closed, sendWaiters, arg, fresh>>

TryPop(c) ==
  /\ pc[c] = "idle"
  /\ Take(c) \/ GiveUp(c, "empty")
  /\ UNCHANGED <<closed, sendWaiters, arg, fresh>>

SignalSend(c) ==
  /\ pc[c] = "signalSend"
  /\ sendWaiters' = IF sendWaiters = <<>> THEN <<>> ELSE Tail(sendWaiters)
  /\ Goto(c, "idle")
  /\ UNCHANGED <<items, closed, arg, res, fresh, delivered>>

-----------------------------------------------------------------------------
(* close *)

Close(c) ==
  /\ pc[c] = "idle"
  /\ closed' = TRUE
  /\ Goto(c, "broadcast")
  /\ Answer(c, "ok")
  /\ UNCHANGED <<items, sendWaiters, arg, fresh, delivered>>

Broadcast(c) ==
  /\ pc[c] = "broadcast"
  /\ sendWaiters' = <<>>
  /\ Goto(c, "idle")
  /\ UNCHANGED <<items, closed, arg, res, fresh, delivered>>

-----------------------------------------------------------------------------
Call(c) == Push(c) \/ TryPush(c) \/ Pop(c) \/ TryPop(c) \/ Close(c)

Proceed(c) ==
  \/ PushLocked(c) \/ PushWait(c) \/ SignalRecv(c)
  \/ PopLocked(c) \/ PopTimed(c) \/ SignalSend(c)
  \/ Broadcast(c)

Next == \E c \in Clients : Call(c) \/ Proceed(c)

\* Operating system threads are scheduled; a call that has begun goes on.
Fairness == \A c \in Clients : WF_vars(Proceed(c))

Spec == Init /\ [][Next]_vars
FairSpec == Spec /\ Fairness

-----------------------------------------------------------------------------
(* Properties *)

\* A bounded queue never holds more than its capacity, however many pushers
\* saw room before they waited and raced for the freed slot.
CapacityRespected == MaxSize # NoLimit => Len(items) <= MaxSize

\* A closed queue only drains: a push that was waiting for room when close()
\* ran is refused when it wakes up, it does not slip an item in.
ClosedOnlyDrains == [][closed => closed' /\ (items' = items \/ items' = Tail(items))]_vars

\* close() releases everybody: a call that is blocked, or begins, when the
\* queue is closed returns.
CloseReleases ==
  \A c \in Clients : (closed /\ pc[c] # "idle") ~> (pc[c] = "idle")

\* The queue that the callers see: what is under the lock, and the answers.
Fifo == INSTANCE ClosableFifo WITH items <- items, closed <- closed, res <- res,
                                   Clients <- Clients, Items <- Items,
                                   MaxSize <- MaxSize, NoLimit <- NoLimit

\* RubyQueue answers its clients as a closable FIFO queue would: its pushes
\* and pops take effect atomically and in order although a call is many steps.
ImplementsFifo == Fifo!FifoSpec
=============================================================================
